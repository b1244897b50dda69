---------------------------- MODULE ControlProofs ----------------------------
(***************************************************************************)
(* Theorems about ControlClients: what the session list on a phone has to  *)
(* do with the registry, for any number of connections, ids and phones and *)
(* channels of any capacity.                                               *)
(*                                                                         *)
(* What a phone will show of an id, once it has read its queue, is what    *)
(* the last frame about the id says, or its list when there is none.  Told *)
(* says which frames and lists are right; it needs what a task has in hand *)
(* between a look at a handle and the send (InHand), and that a session    *)
(* that forwards nothing has no session_update under way (Quiet).  The list *)
(* of a response that nothing has overtaken is as right as the page's.     *)
(***************************************************************************)
EXTENDS ControlClients, SessionRegistryProofs

\* The frames about i in a queue: the last of them, if there is one.
LastIn(q, i, k) ==
  k \in DOMAIN q /\ q[k].id = i /\ \A j \in DOMAIN q : j > k => q[j].id # i
Latest(q, i) == {q[k] : k \in {j \in DOMAIN q : LastIn(q, i, j)}}
Silent(q, i) == \A k \in DOMAIN q : q[k].id # i

LEMMA Appended ==
  ASSUME NEW q \in Seq(Frame), NEW f \in Frame, NEW i
  PROVE  /\ f.id = i => ~Silent(Append(q, f), i) /\ Latest(Append(q, f), i) \subseteq {f}
         /\ f.id # i => /\ Silent(Append(q, f), i) => Silent(q, i)
                        /\ Latest(Append(q, f), i) \subseteq Latest(q, i)
<1> DEFINE a == Append(q, f)
<1>1. /\ DOMAIN q = 1..Len(q) /\ DOMAIN a = 1..(Len(q) + 1) /\ Len(q) \in Nat
      /\ a[Len(q) + 1] = f /\ \A k \in 1..Len(q) : a[k] = q[k]
  OBVIOUS
<1> HIDE DEF a
<1>2. CASE f.id = i
  <2>1. ~Silent(a, i)
    BY <1>1, <1>2 DEF Silent
  <2>2. \A k \in DOMAIN a : LastIn(a, i, k) => k = Len(q) + 1
    BY <1>1, <1>2 DEF LastIn
  <2>3. QED
    BY <1>1, <1>2, <2>1, <2>2 DEF Latest, a
<1>3. CASE f.id # i
  <2>1. Silent(a, i) => Silent(q, i)
    BY <1>1 DEF Silent
  <2>2. \A k \in DOMAIN a : LastIn(a, i, k) => k \in DOMAIN q /\ LastIn(q, i, k) /\ a[k] = q[k]
    <3>1. SUFFICES ASSUME NEW k \in DOMAIN a, LastIn(a, i, k)
                   PROVE  k \in DOMAIN q /\ LastIn(q, i, k) /\ a[k] = q[k]
      OBVIOUS
    <3>2. a[k].id = i /\ k \in 1..Len(q)
      BY <1>1, <1>3, <3>1 DEF LastIn
    <3>3. \A j \in DOMAIN q : j > k => q[j].id # i
      BY <1>1, <3>1 DEF LastIn
    <3>4. QED
      BY <1>1, <3>2, <3>3 DEF LastIn
  <2>3. Latest(a, i) \subseteq Latest(q, i)
    BY <2>2 DEF Latest
  <2>4. QED
    BY <1>3, <2>1, <2>3 DEF a
<1>4. QED
  BY <1>2, <1>3

LEMMA Read ==
  ASSUME NEW q \in Seq(Frame), q # <<>>, NEW i
  PROVE  /\ Latest(Tail(q), i) \subseteq Latest(q, i)
         /\ Silent(Tail(q), i) => IF Head(q).id = i THEN Head(q) \in Latest(q, i) ELSE Silent(q, i)
<1> DEFINE t == Tail(q)
<1>1. /\ DOMAIN q = 1..Len(q) /\ DOMAIN t = 1..(Len(q) - 1) /\ Len(q) \in Nat \ {0}
      /\ Head(q) = q[1] /\ \A k \in 1..(Len(q) - 1) : t[k] = q[k + 1]
  OBVIOUS
<1> HIDE DEF t
<1>2. \A j \in 2..Len(q) : j - 1 \in DOMAIN t /\ q[j] = t[j - 1]
  BY <1>1
<1>3. ASSUME NEW k \in DOMAIN t, LastIn(t, i, k)
      PROVE  k + 1 \in DOMAIN q /\ LastIn(q, i, k + 1) /\ t[k] = q[k + 1]
  <2>1. k + 1 \in DOMAIN q /\ t[k] = q[k + 1] /\ q[k + 1].id = i
    BY <1>1, <1>3 DEF LastIn
  <2>2. ASSUME NEW j \in DOMAIN q, j > k + 1 PROVE q[j].id # i
    <3>1. j \in 2..Len(q) /\ j - 1 > k
      BY <1>1, <2>2
    <3>2. QED
      BY <1>2, <1>3, <3>1 DEF LastIn
  <2>3. QED
    BY <2>1, <2>2 DEF LastIn
<1>4. Latest(t, i) \subseteq Latest(q, i)
  BY <1>3 DEF Latest
<1>5. ASSUME Silent(t, i), q[1].id = i PROVE q[1] \in Latest(q, i)
  <2>1. ASSUME NEW j \in DOMAIN q, j > 1 PROVE q[j].id # i
    <3>1. j \in 2..Len(q)
      BY <1>1, <2>1
    <3>2. QED
      BY <1>2, <1>5, <3>1 DEF Silent
  <2>2. 1 \in DOMAIN q /\ LastIn(q, i, 1)
    BY <1>1, <1>5, <2>1 DEF LastIn
  <2>3. QED
    BY <2>2 DEF Latest
<1>6. ASSUME Silent(t, i), q[1].id # i PROVE Silent(q, i)
  <2>1. ASSUME NEW j \in DOMAIN q PROVE q[j].id # i
    <3>1. j = 1 \/ j \in 2..Len(q)
      BY <1>1, <2>1
    <3>2. QED
      BY <1>2, <1>6, <3>1 DEF Silent
  <2>2. QED
    BY <2>1 DEF Silent
<1>7. QED
  BY <1>1, <1>4, <1>5, <1>6 DEF t

-----------------------------------------------------------------------------
(* What a phone is told                                                    *)

Announced == {"reading", "patching", "stopping"}

\* What a summary of c says is so, or a frame that says what is so will follow.
Current(c, s) ==
  /\ watch[c].value => s.connected
  /\ meta[c] = 0 /\ watcher[c] \notin {"updating", "sending"} => s.status = status[c]
  /\ published[c] = 0 /\ pc[c] # "patching" => s.meta = meta[c]

Gone(i) == \A c \in Users(i) : pc[c] = "ended" /\ published[c] = 0

\* f may be the last frame about i, and list what a phone has of i without one.
RightFrame(i, f) ==
  /\ \A c \in Users(i) : pc[c] \in Announced => f.type \in UpsertType /\ Current(c, f.summary)
  /\ Gone(i) => f.type = "session_disconnected"

RightView(i, list) ==
  /\ \A c \in Users(i) : pc[c] \in Announced => i \in DOMAIN list /\ Current(c, list[i])
  /\ Gone(i) => ~(i \in DOMAIN list /\ list[i].connected)

\* Whether p listens, has lost no frame and put no older list over what it had.
Heard(p) == p \in DOMAIN control /\ ~control[p].lagged /\ ~skipped[p] /\ ~stale[p]

\* The list of the page, and those it would be replaced by without loss.
Lists(p) == {view[p]} \cup {answer[p][k] : k \in {j \in Call : fetch[p][j] = "answered"}}

Told ==
  \A p \in Phone, i \in Id :
    Heard(p) /\ ~Shared(i) =>
      /\ \A f \in Latest(control[p].queue, i) : RightFrame(i, f)
      /\ Silent(control[p].queue, i) /\ phone[p] = "live" =>
           \A list \in Lists(p) : RightView(i, list)

\* A watcher that has been sent no event announces nothing.
Idle(c) ==
  /\ watcher[c] \notin {"updating", "sending"}
  /\ Watcher \in DOMAIN events[c] => events[c][Watcher].queue = <<>>

Quiet ==
  /\ \A c \in Conn : watcher[c] \in {"none", "spawned"} => Watcher \notin DOMAIN events[c]
  /\ \A c \in Conn : sid[c] # None /\ ~Shared(sid[c]) /\ published[c] = 0 => Idle(c)

\* The frame of a task that has looked at a handle and not yet sent it: what it
\* says of the handle is still so.
DraftRight(c) ==
  /\ draft[c].id = sid[c] /\ draft[c].type \in UpsertType
  /\ ~Shared(sid[c]) => /\ watch[c].value => draft[c].summary.connected
                        /\ draft[c].summary.meta = meta[c]
  /\ IF pc[c] = "announcing" THEN draft[c].summary.status = status[c]
     ELSE ~Shared(sid[c]) => meta[c] # 0

UpdateRight(c) ==
  /\ update[c].id = sid[c] /\ update[c].type \in UpsertType
  /\ watch[c].value => update[c].summary.connected
  /\ update[c].summary.status = status[c]

InHand ==
  /\ \A c \in Conn : pc[c] \in {"summing", "announcing"} => watcher[c] = "none"
  /\ \A c \in Conn : pc[c] \in {"announcing", "patching"} => DraftRight(c)
  /\ \A c \in Conn : watcher[c] = "sending" => UpdateRight(c)

\* The types of the phones, and that a task listens from its first step on.
IsList(list) == DOMAIN list \subseteq Id /\ list \in [DOMAIN list -> Summary]

Fetching ==
  /\ fetch \in [Phone -> [Call -> FetchPc]] /\ stale \in [Phone -> BOOLEAN]
  /\ DOMAIN answer = Phone
  /\ \A p \in Phone : DOMAIN answer[p] = Call /\ \A k \in Call : IsList(answer[p][k])

Listing ==
  /\ Fetching
  /\ phone \in [Phone -> PhonePc] /\ skipped \in [Phone -> BOOLEAN]
  /\ DOMAIN view = Phone
  /\ \A p \in Phone : IsList(view[p])
  /\ \A p \in Phone : p \in DOMAIN control <=> phone[p] \in {"subscribed", "live", "closed"}

ListInv == RegistryInv /\ Quiet /\ InHand /\ Listing /\ Told

LEMMA InitList == ControlInit => ListInv
<1>1. SUFFICES ASSUME ControlInit PROVE ListInv
  OBVIOUS
<1>2. RegistryInv
  BY <1>1, InitRegistry DEF ControlInit
<1>3. Quiet /\ InHand
  BY <1>1 DEF ControlInit, Init, NoReceivers, Quiet, Idle, InHand
<1>4. Listing
  <2>1. IsList(NoList)
    BY DEF IsList, NoList
  <2>2. fetch \in [Phone -> [Call -> FetchPc]]
    <3>1. [Call -> {"idle", "asked"}] \subseteq [Call -> FetchPc]
      BY DEF FetchPc
    <3>2. QED
      BY <1>1, <3>1 DEF ControlInit
  <2>3. Fetching
    BY <1>1, <2>1, <2>2 DEF ControlInit, Fetching
  <2>4. QED
    BY <1>1, <2>1, <2>3 DEF ControlInit, Init, NoReceivers, Listing, PhonePc
<1>5. Told
  BY <1>1 DEF ControlInit, Init, NoReceivers, Told, Heard
<1>6. QED
  BY <1>2, <1>3, <1>4, <1>5 DEF ListInv

-----------------------------------------------------------------------------
(* Whose a step is                                                         *)

\* What is right about i stays so.
Kept(i) ==
  /\ \A c \in Conn : sid'[c] = i /\ pc'[c] \in Announced =>
       /\ sid[c] = i /\ pc[c] \in Announced
       /\ watch'[c].value => watch[c].value
       /\ meta'[c] = 0 /\ watcher'[c] \notin {"updating", "sending"} =>
            meta[c] = 0 /\ watcher[c] \notin {"updating", "sending"} /\ status'[c] = status[c]
       /\ published'[c] = 0 /\ pc'[c] # "patching" =>
            published[c] = 0 /\ pc[c] # "patching" /\ meta'[c] = meta[c]
  /\ Gone(i)' => Gone(i)

LEMMA KeptRight ==
  ASSUME NEW i, Kept(i)
  PROVE  /\ \A f : RightFrame(i, f) => RightFrame(i, f)'
         /\ \A list : RightView(i, list) => RightView(i, list)'
BY DEF Kept, RightFrame, RightView, Current, Users

\* The connection of an id that is nobody else's.
LEMMA Sole ==
  ASSUME NEW c \in Conn, NEW d \in Conn, sid[c] = sid[d], ~Shared(sid[c])
  PROVE  c = d
BY DEF Shared, Users

LEMMA SharedStays ==
  ASSUME RegistryInv, NEW c \in Conn, AgentStep(c) \/ CloseReplaced(c) \/ WatcherNext(c),
         NEW i \in Id, Shared(i)
  PROVE  Shared(i)'
<1>1. sid' = sid \/ (sid[c] = None /\ \E j : sid' = [sid EXCEPT ![c] = j])
  BY DEF AgentStep, CloseReplaced, WatcherNext, Open, Register, Summarize, Announce, UpdateMeta,
         SendMeta, Publish, StreamEnds, Remove, Mark, Retract, WatcherStarts, WatcherStops,
         WatcherLags, WatcherReceives, WatcherSummarizes, WatcherSends, agentVars
<1>2. \A d \in Conn : sid[d] = i => sid'[d] = i
  BY <1>1, NoneAssumption DEF RegistryInv, TypeInv, TypeOK
<1>3. QED
  BY <1>2 DEF Shared, Users

\* A step of the tasks of connection c leaves the others what they have, except
\* that it may rename, or publish on, the handle of its id.
Apart(c) ==
  \A d \in Conn \ {c} :
    /\ sid'[d] = sid[d] /\ pc'[d] = pc[d] /\ (watch'[d].value => watch[d].value)
    /\ status'[d] = status[d] /\ watcher'[d] = watcher[d] /\ published'[d] = published[d]
    /\ draft'[d] = draft[d] /\ update'[d] = update[d]
    /\ sid[d] # sid[c] => meta'[d] = meta[d] /\ events'[d] = events[d]

LEMMA StepApart ==
  ASSUME RegistryInv, NEW c \in Conn, AgentStep(c) \/ CloseReplaced(c) \/ WatcherNext(c)
  PROVE  Apart(c)
<1>1. /\ DOMAIN sid = Conn /\ DOMAIN pc = Conn /\ DOMAIN watch = Conn /\ DOMAIN status = Conn
      /\ DOMAIN watcher = Conn /\ DOMAIN published = Conn /\ DOMAIN draft = Conn
      /\ DOMAIN update = Conn /\ DOMAIN meta = Conn /\ DOMAIN events = Conn
  BY DEF RegistryInv, TypeInv, TypeOK
<1>2. ASSUME NEW h \in Conn, MarkDisconnected(h)
      PROVE  \A d \in Conn : watch'[d].value => watch[d].value
  BY <1>1, <1>2 DEF MarkDisconnected, WatchSend
<1>3. CASE Open(c) \/ Summarize(c) \/ Announce(c) \/ SendMeta(c) \/ StreamEnds(c) \/ Remove(c)
           \/ Retract(c) \/ CloseReplaced(c)
  BY <1>1, <1>3 DEF Open, Summarize, Announce, SendMeta, StreamEnds, Remove, Retract,
                    CloseReplaced, Goto, hubVars, watcherVars, Apart
<1>4. ASSUME NEW i \in Id, Register(c, i) PROVE Apart(c)
  <2>1. \A d \in Conn : watch'[d].value => watch[d].value
    BY <1>2, <1>4 DEF Register, RegistryInv, TypeInv, TypeOK
  <2>2. QED
    BY <1>1, <1>4, <2>1 DEF Register, Goto, watcherVars, Apart
<1>5. CASE Mark(c)
  <2>1. \A d \in Conn : watch'[d].value => watch[d].value
    BY <1>2, <1>5 DEF Mark, RegistryInv, TypeInv, Locals
  <2>2. QED
    BY <1>1, <1>5, <2>1 DEF Mark, Goto, watcherVars, Apart
<1>6. CASE UpdateMeta(c)
  <2>1. sessions[sid[c]] \in Conn /\ sid[sessions[sid[c]]] = sid[c]
    BY <1>6, EntryFacts DEF UpdateMeta, RegistryInv
  <2>2. QED
    BY <1>1, <1>6, <2>1 DEF UpdateMeta, Goto, watcherVars, Apart
<1>7. ASSUME NEW e \in Event, Publish(c, e) PROVE Apart(c)
  <2>1. sessions[sid[c]] \in Conn /\ sid[sessions[sid[c]]] = sid[c]
    BY <1>7, EntryFacts DEF Publish, RegistryInv
  <2>2. QED
    BY <1>1, <1>7, <2>1 DEF Publish, watcherVars, Apart
<1>8. CASE WatcherStarts(c) \/ WatcherStops(c)
  BY <1>1, <1>8 DEF WatcherStarts, WatcherStops, WatcherGoto, agentVars, Apart
<1>9. CASE WatcherLags(c) \/ WatcherReceives(c) \/ WatcherSummarizes(c) \/ WatcherSends(c)
  BY <1>1, <1>9 DEF WatcherLags, WatcherReceives, WatcherSummarizes, WatcherSends, WatcherGoto,
                    hubVars, agentVars, watcherVars, Apart
<1>10. QED
  BY <1>3, <1>4, <1>5, <1>6, <1>7, <1>8, <1>9 DEF AgentStep, WatcherNext

\* An id that is not c's has the tasks of others, which c leaves alone.
LEMMA OtherKept ==
  ASSUME NEW c \in Conn, Apart(c), NEW i, sid[c] # i, sid'[c] # i
  PROVE  Kept(i)
BY DEF Apart, Kept, Gone, Users

\* What is right about the id of c is what is right about c, if nobody shares it.
LEMMA OwnKept ==
  ASSUME NEW c \in Conn, NEW i, sid[c] = i, sid'[c] = i, ~Shared(i)',
         pc'[c] \in Announced =>
           /\ pc[c] \in Announced
           /\ watch'[c].value => watch[c].value
           /\ meta'[c] = 0 /\ watcher'[c] \notin {"updating", "sending"} =>
                meta[c] = 0 /\ watcher[c] \notin {"updating", "sending"} /\ status'[c] = status[c]
           /\ published'[c] = 0 /\ pc'[c] # "patching" =>
                published[c] = 0 /\ pc[c] # "patching" /\ meta'[c] = meta[c],
         pc'[c] = "ended" /\ published'[c] = 0 => pc[c] = "ended" /\ published[c] = 0,
         Apart(c)
  PROVE  Kept(i)
<1>1. \A d \in Conn : sid'[d] = i => d = c
  BY DEF Shared, Users
<1>2. \A d \in Conn : sid[d] = i => d = c
  BY <1>1 DEF Apart
<1>3. Gone(i)' => Gone(i)
  BY <1>2 DEF Gone, Users
<1>4. QED
  BY <1>1, <1>3 DEF Kept

\* What a step tells the phones of i: nothing new, or what is right by now.
Tells(i) ==
  \/ control' = control /\ Kept(i)
  \/ \E f \in Frame : Broadcast(f) /\ f.id = i /\ RightFrame(i, f)'

LEMMA SoleRight ==
  ASSUME NEW c \in Conn, NEW i, sid'[c] = i, ~Shared(i)', NEW f,
         pc'[c] \in Announced => f.type \in UpsertType /\ Current(c, f.summary)',
         pc'[c] = "ended" /\ published'[c] = 0 => f.type = "session_disconnected"
  PROVE  RightFrame(i, f)'
<1>1. \A d \in Conn : sid'[d] = i => d = c
  BY DEF Shared, Users
<1>2. Gone(i)' => f.type = "session_disconnected"
  BY DEF Gone, Users
<1>3. QED
  BY <1>1, <1>2 DEF RightFrame, Users

\* Nobody else unlists a session: its removal finds it.
LEMMA OwnListed ==
  ASSUME RegistryInv, NEW c \in Conn, pc[c] \in Owning, sid[c] # None, ~Shared(sid[c])
  PROVE  sid[c] \in DOMAIN sessions /\ sessions[sid[c]] = c
<1>1. Registered(c)
  BY DEF RegistryInv, Bookkeeping, Unlisted, Shared, Users
<1>2. QED
  BY <1>1, EntryFacts DEF Registered, RegistryInv

\* The reader of a connection tells the phones what is right about its own id.
LEMMA AgentTells ==
  ASSUME RegistryInv, Quiet, InHand, NEW c \in Conn, AgentStep(c), Apart(c),
         NEW i \in Id, sid'[c] = i, ~Shared(i)'
  PROVE  Tells(i)
<1>1. /\ DOMAIN sid = Conn /\ DOMAIN pc = Conn /\ DOMAIN watch = Conn /\ DOMAIN status = Conn
      /\ DOMAIN watcher = Conn /\ published \in [Conn -> Nat] /\ DOMAIN draft = Conn
      /\ meta \in [Conn -> Nat] /\ i # None
  BY BoundAssumption, NoneAssumption DEF RegistryInv, TypeInv, TypeOK
<1>2. \A d \in Conn : d # c /\ sid'[d] = i => FALSE
  BY DEF Shared, Users
<1>3. ASSUME sid[c] = i PROVE ~Shared(i)
  BY <1>2, <1>3 DEF Shared, Users, Apart
<1>4. CASE Open(c)
  <2>1. sid[c] = None /\ sid' = sid
    BY <1>4 DEF Open, RegistryInv, TypeInv, Locals
  <2>2. QED
    BY <1>1, <2>1
<1>5. ASSUME NEW j \in Id, Register(c, j) PROVE Tells(i)
  <2>1. pc'[c] = "summing" /\ control' = control
    BY <1>1, <1>5 DEF Register, Goto
  <2>2. Kept(i)
    BY <1>2, <2>1 DEF Kept, Gone, Users, Announced
  <2>3. QED
    BY <2>1, <2>2 DEF Tells
<1>6. CASE Summarize(c)
  <2>1. pc'[c] = "announcing" /\ control' = control /\ sid' = sid
    BY <1>1, <1>6 DEF Summarize, Goto, hubVars
  <2>2. QED
    BY <2>1, OwnKept DEF Tells, Announced
<1>7. CASE Announce(c)
  <2>1. /\ pc[c] = "announcing" /\ Broadcast(draft[c]) /\ sid' = sid /\ pc'[c] = "reading"
        /\ UNCHANGED <<watch, status, meta, published>>
    BY <1>1, <1>7 DEF Announce, Goto
  <2>2. DraftRight(c) /\ draft[c] \in Frame /\ ~Shared(sid[c])
    BY <1>3, <2>1 DEF InHand, RegistryInv, TypeInv, Locals
  <2>3. PICK f \in Frame : f = draft[c]
    BY <2>2
  <2>4. Current(c, f.summary)'
    BY <2>1, <2>2, <2>3 DEF DraftRight, Current
  <2>5. RightFrame(i, f)'
    BY <2>1, <2>2, <2>3, <2>4, SoleRight DEF DraftRight
  <2>6. QED
    BY <2>1, <2>2, <2>3, <2>5 DEF Tells, DraftRight
<1>8. CASE UpdateMeta(c)
  <2>1. /\ pc[c] = "reading" /\ sid' = sid /\ control' = control /\ pc'[c] = "patching"
        /\ meta' = [meta EXCEPT ![sessions[sid[c]]] = @ + 1]
        /\ UNCHANGED <<watch, status, watcher, published>>
    BY <1>1, <1>8 DEF UpdateMeta, Goto, watcherVars
  <2>2. sessions[sid[c]] = c
    BY <1>1, <1>3, <2>1, OwnListed DEF Owning
  <2>3. meta'[c] # 0
    BY <1>1, <2>1, <2>2
  <2>4. QED
    BY <2>1, <2>3, OwnKept DEF Tells, Announced
<1>9. CASE SendMeta(c)
  <2>1. /\ pc[c] = "patching" /\ Broadcast(draft[c]) /\ sid' = sid /\ pc'[c] = "reading"
        /\ UNCHANGED <<watch, status, meta, published, watcher>>
    BY <1>1, <1>9 DEF SendMeta, Goto, watcherVars
  <2>2. DraftRight(c) /\ draft[c] \in Frame /\ ~Shared(sid[c])
    BY <1>3, <2>1 DEF InHand, RegistryInv, TypeInv, Locals
  <2>3. PICK f \in Frame : f = draft[c]
    BY <2>2
  <2>4. Current(c, f.summary)'
    BY <2>1, <2>2, <2>3 DEF DraftRight, Current
  <2>5. RightFrame(i, f)'
    BY <2>1, <2>2, <2>3, <2>4, SoleRight DEF DraftRight
  <2>6. QED
    BY <2>1, <2>2, <2>3, <2>5 DEF Tells, DraftRight
<1>10. ASSUME NEW e \in Event, Publish(c, e) PROVE Tells(i)
  <2>1. /\ sid' = sid /\ pc' = pc /\ control' = control /\ UNCHANGED <<watch, status, meta, watcher>>
        /\ published' = [published EXCEPT ![c] = @ + 1]
    BY <1>10 DEF Publish, watcherVars
  <2>2. published'[c] # 0
    BY <1>1, <2>1
  <2>3. QED
    BY <2>1, <2>2, OwnKept DEF Tells
<1>11. CASE StreamEnds(c)
  <2>1. /\ sid' = sid /\ pc[c] = "reading" /\ control' = control
        /\ UNCHANGED <<watch, status, meta, watcher, published>>
        /\ (sid[c] # None => pc'[c] = "stopping")
    BY <1>1, <1>11 DEF StreamEnds, Goto, hubVars, watcherVars
  <2>2. QED
    BY <1>1, <2>1, OwnKept DEF Tells, Announced
<1>12. CASE Remove(c)
  <2>1. sid' = sid /\ pc[c] = "stopping" /\ control' = control
    BY <1>12 DEF Remove
  <2>2. sid[c] \in DOMAIN sessions
    BY <1>1, <1>3, <2>1, OwnListed DEF Owning
  <2>3. pc'[c] = "marking"
    BY <1>1, <1>12, <2>2 DEF Remove, Goto
  <2>4. QED
    BY <2>1, <2>3, OwnKept DEF Tells, Announced
<1>13. CASE Mark(c)
  <2>1. pc'[c] = "retracting" /\ control' = control /\ sid' = sid
    BY <1>1, <1>13 DEF Mark, Goto
  <2>2. QED
    BY <2>1, OwnKept DEF Tells, Announced
<1>14. CASE Retract(c)
  <2>1. pc'[c] = "ended" /\ sid' = sid /\ sid[c] \in Id
    BY <1>1, <1>14 DEF Retract, Goto
  <2>2. PICK f \in Frame : f = [type |-> "session_disconnected", id |-> i]
    BY DEF Frame, Disconnected
  <2>3. RightFrame(i, f)'
    BY <2>1, <2>2, SoleRight DEF Announced
  <2>4. QED
    BY <1>14, <2>1, <2>2, <2>3 DEF Retract, Tells
<1>15. QED
  BY <1>4, <1>5, <1>6, <1>7, <1>8, <1>9, <1>10, <1>11, <1>12, <1>13, <1>14 DEF AgentStep

\* And so does its watcher.
LEMMA WatcherTells ==
  ASSUME RegistryInv, Quiet, InHand, NEW c \in Conn, WatcherNext(c) \/ CloseReplaced(c), Apart(c),
         NEW i \in Id, sid'[c] = i, ~Shared(i)'
  PROVE  Tells(i)
<1>1. /\ DOMAIN watch = Conn /\ status \in [Conn -> Status] /\ DOMAIN watcher = Conn
      /\ DOMAIN update = Conn /\ i # None
  BY NoneAssumption DEF RegistryInv, TypeInv, TypeOK
<1>2. sid' = sid /\ UNCHANGED <<meta, pc, published>>
  BY DEF WatcherNext, CloseReplaced, WatcherStarts, WatcherStops, WatcherLags, WatcherReceives,
         WatcherSummarizes, WatcherSends, hubVars, agentVars
<1>3. ~Shared(i)
  BY <1>2 DEF Shared, Users
<1>4. CASE CloseReplaced(c) \/ WatcherLags(c)
  <2>1. control' = control /\ UNCHANGED <<watch, status, watcher>>
    BY <1>4 DEF CloseReplaced, WatcherLags, hubVars, watcherVars
  <2>2. QED
    BY <1>2, <2>1, OwnKept DEF Tells
<1>5. CASE WatcherStarts(c) \/ WatcherStops(c)
  <2>1. control' = control /\ status' = status /\ watcher[c] \notin {"updating", "sending"}
    BY <1>5 DEF WatcherStarts, WatcherStops
  <2>2. watch'[c].value = watch[c].value
    <3>1. watch'[c] \in {WatchSubscribe(watch[c], Watcher), WatchUnsubscribe(watch[c], Watcher)}
      BY <1>1, <1>5 DEF WatcherStarts, WatcherStops
    <3>2. IsWatch(watch[c], Subscribers) /\ Watcher \in Subscribers
      BY DEF RegistryInv, TypeInv, TypeOK, Subscribers
    <3>3. QED
      BY <3>1, <3>2, WatchType
  <2>3. QED
    BY <1>2, <2>1, <2>2, OwnKept DEF Tells
<1>6. CASE WatcherReceives(c)
  <2>1. /\ control' = control /\ watch' = watch /\ watcher[c] = "watching"
        /\ status' = [status EXCEPT ![c] = After(@, Head(events[c][Watcher].queue))]
        /\ watcher'[c] = IF Changed(status[c], status'[c]) THEN "updating" ELSE "watching"
    BY <1>1, <1>6 DEF WatcherReceives, WatcherGoto
  <2>2. status'[c] \in Status /\ status[c] \in Status
    BY <1>1, <1>6, WatcherTypeStep DEF TypeInv, TypeOK, RegistryInv, WatcherNext
  <2>3. watcher'[c] # "updating" => status'[c] = status[c]
    BY <2>1, <2>2 DEF Changed, Status
  <2>4. QED
    BY <1>2, <2>1, <2>3, OwnKept DEF Tells
<1>7. CASE WatcherSummarizes(c)
  <2>1. control' = control /\ watch' = watch /\ status' = status /\ watcher'[c] = "sending"
    BY <1>1, <1>7 DEF WatcherSummarizes, WatcherGoto, hubVars
  <2>2. QED
    BY <1>2, <2>1, OwnKept DEF Tells
<1>8. CASE WatcherSends(c)
  <2>1. watcher[c] = "sending" /\ Broadcast(update[c]) /\ UNCHANGED <<watch, status>>
    BY <1>8 DEF WatcherSends
  <2>2. UpdateRight(c) /\ update[c] \in Frame
    BY <2>1 DEF InHand, RegistryInv, TypeInv, Locals
  <2>3. published[c] # 0
    BY <1>1, <1>2, <1>3, <2>1 DEF Quiet, Idle
  <2>4. PICK f \in Frame : f = update[c]
    BY <2>2
  <2>5. Current(c, f.summary)'
    BY <1>2, <2>1, <2>2, <2>3, <2>4 DEF UpdateRight, Current
  <2>6. RightFrame(i, f)'
    BY <1>2, <2>2, <2>3, <2>4, <2>5, SoleRight DEF UpdateRight
  <2>7. QED
    BY <1>2, <2>1, <2>2, <2>4, <2>6 DEF Tells, UpdateRight
<1>9. QED
  BY <1>4, <1>5, <1>6, <1>7, <1>8 DEF WatcherNext

-----------------------------------------------------------------------------
(* What the tasks have in hand                                             *)

LEMMA OthersInHand ==
  ASSUME RegistryInv, InHand, NEW c \in Conn,
         AgentStep(c) \/ CloseReplaced(c) \/ WatcherNext(c), Apart(c),
         pc'[c] \in {"summing", "announcing"} => watcher'[c] = "none",
         pc'[c] \in {"announcing", "patching"} => DraftRight(c)',
         watcher'[c] = "sending" => UpdateRight(c)'
  PROVE  InHand'
<1>1. SUFFICES ASSUME NEW d \in Conn, d # c
               PROVE  /\ pc'[d] \in {"summing", "announcing"} => watcher'[d] = "none"
                      /\ pc'[d] \in {"announcing", "patching"} => DraftRight(d)'
                      /\ watcher'[d] = "sending" => UpdateRight(d)'
  BY DEF InHand
<1>2. /\ sid'[d] = sid[d] /\ pc'[d] = pc[d] /\ (watch'[d].value => watch[d].value)
      /\ status'[d] = status[d] /\ watcher'[d] = watcher[d]
      /\ draft'[d] = draft[d] /\ update'[d] = update[d]
      /\ sid[d] # sid[c] => meta'[d] = meta[d]
  BY <1>1 DEF Apart
<1>3. ASSUME pc[d] \in {"announcing", "patching"} PROVE DraftRight(d)'
  <2>1. DraftRight(d) /\ sid[d] \in Id
    BY <1>3 DEF InHand, RegistryInv, TypeInv, Locals, Busy
  <2>2. ~Shared(sid[d])' => ~Shared(sid[d]) /\ meta'[d] = meta[d]
    <3>1. Shared(sid[d]) => Shared(sid[d])'
      <4>1. PICK i \in Id : i = sid[d]
        BY <2>1
      <4>2. Shared(i) => Shared(i)'
        BY SharedStays
      <4>3. i = sid'[d]
        BY <1>2, <4>1
      <4>4. QED
        BY <4>1, <4>2, <4>3 DEF Shared, Users
    <3>2. ~Shared(sid[d]) => sid[c] # sid[d]
      BY <1>1, Sole
    <3>3. QED
      BY <1>2, <3>1, <3>2
  <2>3. QED
    BY <1>2, <2>1, <2>2 DEF DraftRight
<1>4. ASSUME watcher[d] = "sending" PROVE UpdateRight(d)'
  BY <1>2, <1>4 DEF InHand, UpdateRight
<1>5. QED
  BY <1>2, <1>3, <1>4 DEF InHand

LEMMA AgentInHand ==
  ASSUME RegistryInv, InHand, NEW c \in Conn, AgentStep(c), Apart(c)
  PROVE  InHand'
<1>1. /\ DOMAIN sid = Conn /\ DOMAIN pc = Conn /\ DOMAIN watch = Conn /\ DOMAIN status = Conn
      /\ DOMAIN watcher = Conn /\ DOMAIN draft = Conn /\ meta \in [Conn -> Nat]
      /\ \A d \in Conn : watch[d].value \in BOOLEAN
  BY BoundAssumption DEF RegistryInv, TypeInv, TypeOK, IsWatch
<1>2. sid[c] = None => watcher[c] = "none"
  BY NoneAssumption DEF RegistryInv, TypeInv, Locals
<1>3. ASSUME sid' = sid, UNCHANGED <<status, update, watcher, watch>>, watcher'[c] = "sending"
      PROVE  UpdateRight(c)'
  BY <1>3 DEF InHand, UpdateRight
<1>4. CASE Open(c) \/ StreamEnds(c) \/ Remove(c) \/ Retract(c) \/ SendMeta(c)
  <2>1. /\ sid' = sid /\ UNCHANGED <<status, update, watcher, watch>>
        /\ pc'[c] \notin {"summing", "announcing", "patching"}
    BY <1>1, <1>4 DEF Open, StreamEnds, Remove, Retract, SendMeta, Goto, hubVars, watcherVars
  <2>2. QED
    BY <1>3, <2>1, OthersInHand
<1>5. ASSUME NEW i \in Id, Register(c, i) PROVE InHand'
  <2>1. sid[c] = None /\ watcher' = watcher /\ pc'[c] = "summing"
    BY <1>1, <1>5 DEF Register, Goto, watcherVars
  <2>2. QED
    BY <1>2, <2>1, OthersInHand
<1>6. CASE Summarize(c)
  <2>1. /\ sid' = sid /\ UNCHANGED <<status, update, watcher, watch, meta>>
        /\ pc[c] = "summing" /\ pc'[c] = "announcing" /\ draft'[c] = UpsertFrame("session_connected", c)
    BY <1>1, <1>6 DEF Summarize, Goto, hubVars, watcherVars
  <2>2. watcher[c] = "none"
    BY <2>1 DEF InHand
  <2>3. DraftRight(c)'
    BY <2>1 DEF DraftRight, UpsertFrame, SummaryOf, UpsertType
  <2>4. QED
    BY <2>1, <2>2, <2>3, OthersInHand
<1>7. CASE Announce(c)
  <2>1. pc'[c] = "reading" /\ watcher'[c] = "spawned"
    BY <1>1, <1>7 DEF Announce, Goto
  <2>2. QED
    BY <2>1, OthersInHand
<1>8. CASE UpdateMeta(c)
  <2> DEFINE h == sessions[sid[c]]
  <2>1. /\ sid' = sid /\ UNCHANGED <<status, update, watcher, watch>>
        /\ pc[c] = "reading" /\ pc'[c] = "patching" /\ sid[c] \in DOMAIN sessions
        /\ meta' = [meta EXCEPT ![h] = @ + 1]
        /\ draft'[c] = [UpsertFrame("session_meta", h) EXCEPT !.summary.meta = meta[h] + 1]
    BY <1>1, <1>8 DEF UpdateMeta, Goto, watcherVars
  <2>2. h \in Conn /\ sid[h] = sid[c] /\ (~Shared(sid[c]) => h = c)
    BY <2>1, EntryFacts, Sole DEF RegistryInv
  <2> HIDE DEF h
  <2>3. /\ draft'[c].id = sid[c] /\ draft'[c].type \in UpsertType
        /\ draft'[c].summary.connected = watch[h].value
        /\ draft'[c].summary.meta = meta[h] + 1
    BY <2>1, <2>2 DEF UpsertFrame, SummaryOf, UpsertType
  <2>4. h = c => meta'[c] = meta[h] + 1 /\ meta'[c] # 0
    BY <1>1, <2>1
  <2>5. Shared(sid[c]) <=> Shared(sid[c])'
    BY <2>1 DEF Shared, Users
  <2>6. DraftRight(c)'
    BY <2>1, <2>2, <2>3, <2>4, <2>5 DEF DraftRight
  <2>7. QED
    BY <1>3, <2>1, <2>6, OthersInHand
<1>9. ASSUME NEW e \in Event, Publish(c, e) PROVE InHand'
  <2>1. /\ sid' = sid /\ pc' = pc /\ draft' = draft /\ UNCHANGED <<status, update, watcher, watch, meta>>
        /\ pc[c] = "reading"
    BY <1>9 DEF Publish, watcherVars
  <2>2. QED
    BY <1>3, <2>1, OthersInHand
<1>10. CASE Mark(c)
  <2>1. /\ sid' = sid /\ UNCHANGED <<status, update, watcher>> /\ pc'[c] = "retracting"
        /\ taken[c] \in Conn /\ watch' = [watch EXCEPT ![taken[c]] = WatchSend(@, FALSE)]
    BY <1>1, <1>10 DEF Mark, Goto, watcherVars, MarkDisconnected, RegistryInv, TypeInv, Locals
  <2>2. watch'[c].value => watch[c].value
    BY <1>1, <2>1 DEF WatchSend
  <2>3. watcher'[c] = "sending" => UpdateRight(c)'
    BY <2>1, <2>2 DEF InHand, UpdateRight
  <2>4. QED
    BY <2>1, <2>3, OthersInHand
<1>11. QED
  BY <1>4, <1>5, <1>6, <1>7, <1>8, <1>9, <1>10 DEF AgentStep

LEMMA WatcherInHand ==
  ASSUME RegistryInv, InHand, NEW c \in Conn, WatcherNext(c) \/ CloseReplaced(c), Apart(c)
  PROVE  InHand'
<1>1. /\ DOMAIN watch = Conn /\ DOMAIN status = Conn /\ DOMAIN watcher = Conn /\ DOMAIN update = Conn
  BY DEF RegistryInv, TypeInv, TypeOK
<1>2. sid' = sid /\ UNCHANGED <<meta, pc, published, draft>>
  BY DEF WatcherNext, CloseReplaced, WatcherStarts, WatcherStops, WatcherLags, WatcherReceives,
         WatcherSummarizes, WatcherSends, hubVars, agentVars
<1>3. pc[c] = "patching" /\ (watch'[c].value => watch[c].value) => DraftRight(c)'
  BY <1>2 DEF InHand, DraftRight, Shared, Users
<1>4. CASE CloseReplaced(c) \/ WatcherLags(c)
  <2>1. UNCHANGED <<watch, status, watcher, update>>
    BY <1>4 DEF CloseReplaced, WatcherLags, hubVars, watcherVars
  <2>2. QED
    BY <1>2, <2>1, OthersInHand DEF InHand, DraftRight, UpdateRight, Shared, Users
<1>5. CASE WatcherStarts(c) \/ WatcherStops(c)
  <2>1. status' = status /\ watcher[c] # "none" /\ watcher'[c] # "sending"
    BY <1>1, <1>5 DEF WatcherStarts, WatcherStops, WatcherGoto
  <2>2. pc[c] \notin {"summing", "announcing"}
    BY <2>1 DEF InHand
  <2>3. watch'[c].value = watch[c].value
    <3>1. watch'[c] \in {WatchSubscribe(watch[c], Watcher), WatchUnsubscribe(watch[c], Watcher)}
      BY <1>1, <1>5 DEF WatcherStarts, WatcherStops
    <3>2. IsWatch(watch[c], Subscribers) /\ Watcher \in Subscribers
      BY DEF RegistryInv, TypeInv, TypeOK, Subscribers
    <3>3. QED
      BY <3>1, <3>2, WatchType
  <2>4. QED
    BY <1>2, <1>3, <2>1, <2>2, <2>3, OthersInHand
<1>6. CASE WatcherReceives(c) \/ WatcherSends(c)
  <2>1. watch' = watch /\ watcher[c] # "none" /\ watcher'[c] # "sending"
    BY <1>1, <1>6 DEF WatcherReceives, WatcherSends, WatcherGoto
  <2>2. pc[c] \notin {"summing", "announcing"}
    BY <2>1 DEF InHand
  <2>3. QED
    BY <1>2, <1>3, <2>1, <2>2, OthersInHand
<1>7. CASE WatcherSummarizes(c)
  <2>1. /\ watch' = watch /\ status' = status /\ watcher[c] = "updating"
        /\ update'[c] = UpsertFrame("session_update", c)
    BY <1>1, <1>7 DEF WatcherSummarizes, WatcherGoto, hubVars
  <2>2. pc[c] \notin {"summing", "announcing"}
    BY <2>1 DEF InHand
  <2>3. UpdateRight(c)'
    BY <1>2, <2>1 DEF UpdateRight, UpsertFrame, SummaryOf, UpsertType
  <2>4. QED
    BY <1>2, <1>3, <2>1, <2>2, <2>3, OthersInHand
<1>8. QED
  BY <1>4, <1>5, <1>6, <1>7 DEF WatcherNext

-----------------------------------------------------------------------------
(* The session that forwards nothing                                       *)

\* What c's step must show of c itself.
LEMMA OthersQuiet ==
  ASSUME RegistryInv, Quiet, NEW c \in Conn,
         AgentStep(c) \/ CloseReplaced(c) \/ WatcherNext(c), Apart(c),
         \A d \in Conn : DOMAIN events'[d] = DOMAIN events[d] \/ d = c,
         watcher'[c] \in {"none", "spawned"} => Watcher \notin DOMAIN events'[c],
         sid'[c] # None /\ ~Shared(sid[c])' /\ published'[c] = 0 => Idle(c)'
  PROVE  Quiet'
<1>1. \A d \in Conn : watcher'[d] \in {"none", "spawned"} => Watcher \notin DOMAIN events'[d]
  BY DEF Quiet, Apart
<1>2. SUFFICES ASSUME NEW d \in Conn, d # c, sid'[d] # None, ~Shared(sid[d])', published'[d] = 0
               PROVE  Idle(d)'
  BY <1>1 DEF Quiet
<1>3. /\ sid'[d] = sid[d] /\ watcher'[d] = watcher[d] /\ published'[d] = published[d]
      /\ sid[d] # sid[c] => events'[d] = events[d]
  BY <1>2 DEF Apart
<1>4. ~Shared(sid[d])
  <2>1. PICK i \in Id : i = sid[d]
    BY <1>2, <1>3 DEF RegistryInv, TypeInv, TypeOK
  <2>2. Shared(i) => Shared(i)'
    BY SharedStays
  <2>3. QED
    BY <1>2, <1>3, <2>1, <2>2 DEF Shared, Users
<1>5. sid[d] # sid[c]
  BY <1>2, <1>4, Sole
<1>6. QED
  BY <1>2, <1>3, <1>4, <1>5 DEF Quiet, Idle

LEMMA StepQuiet ==
  ASSUME RegistryInv, Quiet, InHand, NEW c \in Conn,
         AgentStep(c) \/ CloseReplaced(c) \/ WatcherNext(c), Apart(c)
  PROVE  Quiet'
<1>1. /\ DOMAIN watcher = Conn /\ published \in [Conn -> Nat]
      /\ DOMAIN events = Conn /\ DOMAIN sid = Conn
  BY BoundAssumption DEF RegistryInv, TypeInv, TypeOK
<1>2. ASSUME UNCHANGED <<sid, published, watcher, events>> PROVE Quiet'
  <2>1. ~Shared(sid[c])' => ~Shared(sid[c])
    BY <1>2 DEF Shared, Users
  <2>2. QED
    BY <1>2, <2>1, OthersQuiet DEF Quiet, Idle
<1>3. CASE Open(c) \/ Summarize(c) \/ UpdateMeta(c) \/ SendMeta(c) \/ StreamEnds(c)
           \/ Remove(c) \/ Mark(c) \/ Retract(c) \/ CloseReplaced(c)
  BY <1>2, <1>3 DEF Open, Summarize, UpdateMeta, SendMeta, StreamEnds, Remove, Mark, Retract,
                    CloseReplaced, hubVars, watcherVars
<1>4. ASSUME NEW i \in Id, Register(c, i) PROVE Quiet'
  <2>1. events' = events /\ watcher' = watcher /\ watcher[c] = "none"
    BY <1>4, NoneAssumption DEF Register, watcherVars, RegistryInv, TypeInv, Locals
  <2>2. Watcher \notin DOMAIN events[c]
    BY <2>1 DEF Quiet
  <2>3. QED
    BY <2>1, <2>2, OthersQuiet DEF Idle
<1>5. CASE Announce(c)
  <2>1. events' = events /\ watcher[c] = "none" /\ watcher'[c] = "spawned"
    BY <1>1, <1>5 DEF Announce, InHand
  <2>2. Watcher \notin DOMAIN events[c]
    BY <2>1 DEF Quiet
  <2>3. QED
    BY <2>1, <2>2, OthersQuiet DEF Idle
<1>6. ASSUME NEW e \in Event, Publish(c, e) PROVE Quiet'
  <2>1. /\ watcher' = watcher /\ published'[c] # 0
        /\ events' = [events EXCEPT ![sessions[sid[c]]] = Send(@, e, EventCapacity)]
    BY <1>1, <1>6 DEF Publish, watcherVars
  <2>2. \A d \in Conn : DOMAIN events'[d] = DOMAIN events[d]
    BY <1>1, <2>1 DEF Send
  <2>3. QED
    BY <2>1, <2>2, OthersQuiet DEF Quiet
<1>7. CASE WatcherStarts(c)
  <2>1. /\ events' = [events EXCEPT ![c] = Subscribe(@, Watcher)] /\ watcher'[c] = "watching"
    BY <1>1, <1>7 DEF WatcherStarts, WatcherGoto
  <2>2. events'[c][Watcher].queue = <<>>
    BY <1>1, <2>1 DEF Subscribe
  <2>3. QED
    BY <1>1, <2>1, <2>2, OthersQuiet DEF Idle
<1>8. CASE WatcherStops(c)
  <2>1. /\ events' = [events EXCEPT ![c] = Unsubscribe(@, Watcher)] /\ watcher'[c] = "done"
    BY <1>1, <1>8 DEF WatcherStops, WatcherGoto
  <2>2. Watcher \notin DOMAIN events'[c]
    BY <1>1, <2>1 DEF Unsubscribe
  <2>3. QED
    BY <1>1, <2>1, <2>2, OthersQuiet DEF Idle
<1>9. CASE WatcherLags(c)
  <2>1. /\ UNCHANGED <<sid, published, watcher>> /\ Watcher \in DOMAIN events[c]
        /\ watcher[c] = "watching"
        /\ events' = [events EXCEPT ![c] = LagReported(@, Watcher)]
    BY <1>9 DEF WatcherLags, agentVars, watcherVars
  <2>2. events[c][Watcher] \in Receivers(Event)
    BY <2>1 DEF RegistryInv, TypeInv, TypeOK, IsChannel
  <2>3. events'[c][Watcher].queue = events[c][Watcher].queue
    BY <1>1, <2>1, <2>2 DEF LagReported, Receivers
  <2>4. ~Shared(sid[c])' => ~Shared(sid[c])
    BY <2>1 DEF Shared, Users
  <2>5. QED
    BY <1>1, <2>1, <2>3, <2>4, OthersQuiet DEF Quiet, Idle
<1>10. CASE WatcherReceives(c)
  <2>1. /\ UNCHANGED <<sid, published>> /\ CanRecv(events[c], Watcher)
        /\ watcher[c] = "watching" /\ watcher'[c] \notin {"none", "spawned"}
        /\ events' = [events EXCEPT ![c] = Received(@, Watcher)]
    BY <1>1, <1>10 DEF WatcherReceives, WatcherGoto, agentVars
  <2>2. ~Idle(c)
    BY <2>1 DEF Idle, CanRecv
  <2>3. ~Shared(sid[c])' => ~Shared(sid[c])
    BY <2>1 DEF Shared, Users
  <2>4. QED
    BY <1>1, <2>1, <2>2, <2>3, OthersQuiet DEF Quiet
<1>11. CASE WatcherSummarizes(c) \/ WatcherSends(c)
  <2>1. /\ UNCHANGED <<sid, published, events>> /\ ~Idle(c) /\ watcher'[c] \notin {"none", "spawned"}
    BY <1>1, <1>11 DEF WatcherSummarizes, WatcherSends, WatcherGoto, agentVars, hubVars, Idle
  <2>2. ~Shared(sid[c])' => ~Shared(sid[c])
    BY <2>1 DEF Shared, Users
  <2>3. QED
    BY <2>1, <2>2, OthersQuiet DEF Quiet
<1>12. QED
  BY <1>3, <1>4, <1>5, <1>6, <1>7, <1>8, <1>9, <1>10, <1>11 DEF AgentStep, WatcherNext

-----------------------------------------------------------------------------
(* Told, as the registry goes on                                           *)

LEMMA StepTells ==
  ASSUME RegistryInv, Quiet, InHand, NEW c \in Conn,
         AgentStep(c) \/ CloseReplaced(c) \/ WatcherNext(c), Apart(c),
         NEW i \in Id, ~Shared(i)'
  PROVE  Tells(i) \/ \E f \in Frame : Broadcast(f) /\ f.id # i /\ Kept(i)
<1>1. CASE sid'[c] = i
  BY <1>1, AgentTells, WatcherTells
<1>2. CASE sid'[c] # i
  <2>1. sid[c] # i
    <3>1. sid' = sid \/ sid[c] = None
      BY DEF AgentStep, CloseReplaced, WatcherNext, Open, Register, Summarize, Announce, UpdateMeta,
             SendMeta, Publish, StreamEnds, Remove, Mark, Retract, WatcherStarts, WatcherStops,
             WatcherLags, WatcherReceives, WatcherSummarizes, WatcherSends, agentVars
    <3>2. QED
      BY <1>2, <3>1, NoneAssumption
  <2>2. Kept(i)
    BY <1>2, <2>1, OtherKept
  <2>3. CASE Announce(c) \/ SendMeta(c)
    <3>1. Broadcast(draft[c]) /\ draft[c] \in Frame /\ draft[c].id = sid[c]
      BY <2>3 DEF Announce, SendMeta, InHand, DraftRight, RegistryInv, TypeInv, Locals
    <3>2. QED
      BY <2>1, <2>2, <3>1
  <2>4. CASE Retract(c)
    <3>1. PICK f \in Frame : f = [type |-> "session_disconnected", id |-> sid[c]]
      BY <2>4 DEF Retract, Frame, Disconnected, RegistryInv, TypeInv, Locals, Busy
    <3>2. QED
      BY <2>1, <2>2, <2>4, <3>1 DEF Retract
  <2>5. CASE WatcherSends(c)
    <3>1. Broadcast(update[c]) /\ update[c] \in Frame /\ update[c].id = sid[c]
      BY <2>5 DEF WatcherSends, InHand, UpdateRight, RegistryInv, TypeInv, Locals
    <3>2. QED
      BY <2>1, <2>2, <3>1
  <2>6. CASE control' = control
    BY <2>2, <2>6 DEF Tells
  <2>7. QED
    BY <2>3, <2>4, <2>5, <2>6
       DEF AgentStep, CloseReplaced, WatcherNext, Open, Register, Summarize, UpdateMeta, Publish,
           StreamEnds, Remove, Mark, WatcherStarts, WatcherStops, WatcherLags, WatcherReceives,
           WatcherSummarizes, hubVars
<1>3. QED
  BY <1>1, <1>2

\* A receiver that a send did not overrun has the frame behind what it had.
LEMMA SendDoes ==
  ASSUME RegistryInv, NEW f \in Frame, Broadcast(f)
  PROVE  /\ DOMAIN control' = DOMAIN control
         /\ \A p \in DOMAIN control : ~control'[p].lagged =>
              /\ ~control[p].lagged /\ control[p].queue \in Seq(Frame)
              /\ control'[p].queue = Append(control[p].queue, f)
<1>1. \A p \in DOMAIN control : control[p] \in Receivers(Frame)
  BY DEF RegistryInv, TypeInv, TypeOK, IsChannel
<1>2. QED
  BY <1>1 DEF Broadcast, Send, Deliver, Receivers

LEMMA StepTold ==
  ASSUME ListInv, NEW c \in Conn, AgentStep(c) \/ CloseReplaced(c) \/ WatcherNext(c), Apart(c),
         UNCHANGED phoneVars
  PROVE  Told' /\ Listing'
<1>1. RegistryInv /\ Quiet /\ InHand /\ Told /\ Listing
  BY DEF ListInv
<1>2. UNCHANGED <<phone, view, skipped, fetch, answer, stale>> /\ \A p \in Phone : Lists(p)' = Lists(p)
  BY DEF phoneVars, fetchVars, Lists
<1>3. control' = control \/ \E f \in Frame : Broadcast(f)
  <2>2. CASE pc[c] \in {"announcing", "patching", "retracting"} \/ watcher[c] = "sending"
    <3>1. sid[c] \in Id /\ (pc[c] \in {"announcing", "patching"} => draft[c] \in Frame)
          /\ (watcher[c] = "sending" => update[c] \in Frame)
      BY <1>1, <2>2 DEF RegistryInv, TypeInv, Locals, Busy
    <3>2. [type |-> "session_disconnected", id |-> sid[c]] \in Frame
      BY <3>1 DEF Frame, Disconnected
    <3>3. QED
      BY <3>1, <3>2
         DEF AgentStep, CloseReplaced, WatcherNext, Open, Register, Summarize, Announce, UpdateMeta,
             SendMeta, Publish, StreamEnds, Remove, Mark, Retract, WatcherStarts, WatcherStops,
             WatcherLags, WatcherReceives, WatcherSummarizes, WatcherSends, hubVars
  <2>3. CASE ~(pc[c] \in {"announcing", "patching", "retracting"} \/ watcher[c] = "sending")
    BY <2>3 DEF AgentStep, CloseReplaced, WatcherNext, Open, Register, Summarize, Announce, UpdateMeta,
             SendMeta, Publish, StreamEnds, Remove, Mark, Retract, WatcherStarts, WatcherStops,
             WatcherLags, WatcherReceives, WatcherSummarizes, WatcherSends, hubVars
  <2>4. QED
    BY <2>2, <2>3
<1>4. Listing'
  <2>1. DOMAIN control' = DOMAIN control
    BY <1>1, <1>3, SendDoes
  <2>2. QED
    BY <1>1, <1>2, <2>1 DEF Listing, Fetching
<1>5. Told'
  <2>1. SUFFICES ASSUME NEW p \in Phone, NEW i \in Id, Heard(p)', ~Shared(i)'
                 PROVE  /\ \A f \in Latest(control'[p].queue, i) : RightFrame(i, f)'
                        /\ Silent(control'[p].queue, i) /\ phone[p] = "live" =>
                             \A list \in Lists(p) : RightView(i, list)'
    BY <1>2 DEF Told
  <2>2. ~Shared(i)
    BY <1>1, <2>1, SharedStays
  <2>3. ASSUME Heard(p)
        PROVE  /\ \A f \in Latest(control[p].queue, i) : RightFrame(i, f)
               /\ Silent(control[p].queue, i) /\ phone[p] = "live" =>
                    \A list \in Lists(p) : RightView(i, list)
    BY <1>1, <2>2, <2>3 DEF Told
  <2>4. \A f : Kept(i) /\ RightFrame(i, f) => RightFrame(i, f)'
    BY KeptRight
  <2>5. \A list : Kept(i) /\ RightView(i, list) => RightView(i, list)'
    BY KeptRight
  <2>6. CASE control' = control /\ Kept(i)
    <3>1. Heard(p)
      BY <1>2, <2>1, <2>6 DEF Heard
    <3>2. QED
      BY <2>3, <2>4, <2>5, <2>6, <3>1
  <2>7. ASSUME NEW f \in Frame, Broadcast(f), (f.id = i /\ RightFrame(i, f)') \/ (f.id # i /\ Kept(i))
        PROVE  /\ \A g \in Latest(control'[p].queue, i) : RightFrame(i, g)'
               /\ Silent(control'[p].queue, i) /\ phone[p] = "live" =>
                    \A list \in Lists(p) : RightView(i, list)'
    <3>1. /\ Heard(p) /\ control[p].queue \in Seq(Frame)
          /\ control'[p].queue = Append(control[p].queue, f)
      BY <1>1, <1>2, <2>1, <2>7, SendDoes DEF Heard
    <3>2. CASE f.id = i /\ RightFrame(i, f)'
      <4>1. ~Silent(control'[p].queue, i) /\ Latest(control'[p].queue, i) \subseteq {f}
        <5>1. /\ ~Silent(Append(control[p].queue, f), i)
              /\ Latest(Append(control[p].queue, f), i) \subseteq {f}
          BY <3>1, <3>2, Appended
        <5>2. QED
          BY <3>1, <5>1
      <4>2. QED
        BY <3>2, <4>1
    <3>3. CASE f.id # i /\ Kept(i)
      <4>1. /\ Silent(control'[p].queue, i) => Silent(control[p].queue, i)
            /\ Latest(control'[p].queue, i) \subseteq Latest(control[p].queue, i)
        BY <3>1, <3>3, Appended
      <4>2. QED
        BY <2>3, <2>4, <2>5, <3>1, <3>3, <4>1
    <3>4. QED
      BY <2>7, <3>2, <3>3
  <2>8. QED
    BY <1>1, <2>1, <2>6, <2>7, StepTells DEF Tells
<1>6. QED
  BY <1>4, <1>5

-----------------------------------------------------------------------------
(* The tasks of the phones                                                 *)

\* What is right about an id has nothing to do with the phones.
LEMMA RightApart ==
  ASSUME UNCHANGED registryVars, NEW i
  PROVE  /\ Shared(i)' <=> Shared(i)
         /\ \A f : RightFrame(i, f)' <=> RightFrame(i, f)
         /\ \A list : RightView(i, list)' <=> RightView(i, list)
<1>1. UNCHANGED <<sid, pc, published, watch, meta, watcher, status>>
  BY DEF registryVars, agentVars, watcherVars
<1>2. QED
  BY <1>1 DEF Shared, Users, RightFrame, RightView, Current, Gone

\* Nor have the invariants of the registry.
LEMMA RegistryBeside ==
  ASSUME RegistryInv, Quiet, InHand, UNCHANGED registryVars, IsChannel(control', Phone, Frame)
  PROVE  RegistryInv' /\ Quiet' /\ InHand'
<1>1. TypeOK'
  BY DEF RegistryInv, TypeInv, TypeOK, registryVars, agentVars, watcherVars
<1>2. Locals'
  BY DEF RegistryInv, TypeInv, Locals, registryVars, agentVars, watcherVars
<1>3. Bookkeeping'
  BY Undisturbed DEF RegistryInv, registryVars, agentVars
<1>4. Quiet'
  BY DEF Quiet, Idle, Shared, Users, registryVars, agentVars, watcherVars
<1>5. InHand'
  BY DEF InHand, DraftRight, UpdateRight, Shared, Users, registryVars, agentVars, watcherVars
<1>6. QED
  BY <1>1, <1>2, <1>3, <1>4, <1>5 DEF RegistryInv, TypeInv

\* The snapshot is right about every id.
LEMMA ListRight ==
  ASSUME RegistryInv, NEW i \in Id, ~Shared(i)
  PROVE  RightView(i, List)
<1>1. ASSUME NEW c \in Users(i), pc[c] \in Announced
      PROVE  i \in DOMAIN List /\ Current(c, List[i])
  <2>1. c \in Conn /\ sid[c] = i /\ pc[c] \in Owning /\ i # None
    BY <1>1, NoneAssumption DEF Users, Announced, Owning
  <2>2. i \in DOMAIN sessions /\ sessions[i] = c
    BY <2>1, OwnListed
  <2>3. i \in DOMAIN List /\ List[i] = SummaryOf(c)
    BY <2>2 DEF List
  <2>4. QED
    BY <2>3 DEF SummaryOf, Current
<1>2. ASSUME Gone(i) PROVE i \notin DOMAIN List
  <2>1. SUFFICES ASSUME i \in DOMAIN sessions PROVE FALSE
    BY DEF List
  <2>2. sessions[i] \in Users(i) /\ pc[sessions[i]] \in Owning
    BY <2>1, EntryFacts DEF Users, RegistryInv, Bookkeeping, Entries
  <2>3. QED
    BY <1>2, <2>2 DEF Gone, Owning
<1>3. QED
  BY <1>1, <1>2 DEF RightView

LEMMA ListType ==
  ASSUME RegistryInv
  PROVE  IsList(List)
<1>1. ASSUME NEW h \in Conn PROVE SummaryOf(h) \in Summary
  <2>1. meta[h] \in Nat /\ status[h] \in Status /\ watch[h].value \in BOOLEAN
    BY BoundAssumption DEF RegistryInv, TypeInv, TypeOK, IsWatch
  <2>2. QED
    BY <2>1 DEF SummaryOf, Summary
<1>2. QED
  BY <1>1 DEF IsList, List, RegistryInv, TypeInv, TypeOK

LEMMA SubscribeKeeps ==
  ASSUME ListInv, NEW p \in Phone, ControlSubscribe(p)
  PROVE  ListInv'
<1>1. /\ RegistryInv /\ Quiet /\ InHand /\ Told /\ Listing /\ IsChannel(control, Phone, Frame)
      /\ UNCHANGED registryVars
      /\ control' = Subscribe(control, p) /\ phone' = [phone EXCEPT ![p] = "subscribed"]
      /\ view' = view /\ skipped' = skipped /\ UNCHANGED <<fetch, answer, stale>>
  BY DEF ListInv, ControlSubscribe, PhoneGoto, RegistryInv, TypeInv, TypeOK, fetchVars
<1>2. /\ IsChannel(control', Phone, Frame) /\ DOMAIN control' = DOMAIN control \cup {p}
      /\ control'[p].queue = <<>> /\ \A q \in Phone : q # p => control'[q] = control[q] \/ q \notin DOMAIN control'
  BY <1>1, ReceiverType DEF Subscribe
<1>3. Listing'
  BY <1>1, <1>2 DEF Listing, Fetching, PhonePc
<1>4. Told'
  <2>1. SUFFICES ASSUME NEW q \in Phone, NEW i \in Id, Heard(q)', ~Shared(i)'
                 PROVE  /\ \A f \in Latest(control'[q].queue, i) : RightFrame(i, f)
                        /\ Silent(control'[q].queue, i) /\ phone'[q] = "live" =>
                             \A list \in Lists(q) : RightView(i, list)
    BY <1>1, RightApart DEF Told, Lists
  <2>2. CASE q = p
    BY <1>1, <1>2, <2>2 DEF Latest, Listing
  <2>3. CASE q # p
    BY <1>1, <1>2, <2>1, <2>3, RightApart DEF Told, Heard, Listing
  <2>4. QED
    BY <2>2, <2>3
<1>5. QED
  BY <1>1, <1>2, <1>3, <1>4, RegistryBeside DEF ListInv

\* Whatever list the page makes of what it folds, the responses not yet returned
\* are older.
LEMMA Overtaking ==
  ASSUME Listing, NEW p \in Phone, NEW list, IsList(list), Overtake(p),
         view' = [view EXCEPT ![p] = list], UNCHANGED <<answer, stale>>
  PROVE  /\ Fetching' /\ Lists(p)' = {list}
         /\ \A q \in Phone : q # p => Lists(q)' = Lists(q)
         /\ DOMAIN view' = Phone /\ \A q \in Phone : IsList(view'[q])
<1> DEFINE now == [k \in Call |-> IF fetch[p][k] = "answered" THEN "overtaken" ELSE fetch[p][k]]
<1>1. fetch' = [fetch EXCEPT ![p] = now] /\ fetch \in [Phone -> [Call -> FetchPc]]
  BY DEF Overtake, Listing, Fetching
<1>2. now \in [Call -> FetchPc] /\ \A k \in Call : now[k] # "answered"
  BY <1>1 DEF FetchPc
<1>3. Fetching'
  BY <1>1, <1>2 DEF Listing, Fetching
<1> HIDE DEF now
<1>4. /\ fetch'[p] = now /\ \A q \in Phone : q # p => fetch'[q] = fetch[q]
      /\ view'[p] = list /\ \A q \in Phone : q # p => view'[q] = view[q]
      /\ DOMAIN view' = Phone
  BY <1>1 DEF Listing
<1>5. Lists(p)' = {list}
  BY <1>2, <1>4 DEF Lists
<1>6. \A q \in Phone : q # p => Lists(q)' = Lists(q)
  BY <1>4 DEF Lists
<1>7. QED
  BY <1>3, <1>4, <1>5, <1>6 DEF Listing

LEMMA SnapshotKeeps ==
  ASSUME ListInv, NEW p \in Phone, ControlSnapshot(p)
  PROVE  ListInv'
<1>1. /\ RegistryInv /\ Quiet /\ InHand /\ Told /\ Listing /\ IsChannel(control, Phone, Frame)
      /\ UNCHANGED registryVars /\ phone[p] = "subscribed"
      /\ control' = control /\ phone' = [phone EXCEPT ![p] = "live"]
      /\ view' = [view EXCEPT ![p] = List] /\ skipped' = skipped
      /\ Overtake(p) /\ UNCHANGED <<answer, stale>>
  BY DEF ListInv, ControlSnapshot, PhoneGoto, RegistryInv, TypeInv, TypeOK
<1>2. /\ Fetching' /\ Lists(p)' = {List} /\ \A q \in Phone : q # p => Lists(q)' = Lists(q)
      /\ DOMAIN view' = Phone /\ \A q \in Phone : IsList(view'[q])
  BY <1>1, ListType, Overtaking
<1>3. Listing' /\ Told'
  <2>1. Listing'
    BY <1>1, <1>2 DEF Listing, PhonePc
  <2>2. SUFFICES ASSUME NEW q \in Phone, NEW i \in Id, Heard(q), ~Shared(i)
                 PROVE  /\ \A f \in Latest(control[q].queue, i) : RightFrame(i, f)
                        /\ Silent(control[q].queue, i) /\ phone'[q] = "live" =>
                             \A list : list \in Lists(q)' => RightView(i, list)
    BY <1>1, <2>1, RightApart DEF Told, Heard
  <2>3. q # p => phone'[q] = phone[q]
    BY <1>1 DEF Listing
  <2>4. QED
    BY <1>1, <1>2, <2>2, <2>3, ListRight DEF Told
<1>4. QED
  BY <1>1, <1>3, RegistryBeside DEF ListInv

\* A frame folded into a list of summaries.
LEMMA FoldDoes ==
  ASSUME NEW list, IsList(list), NEW f \in Frame
  PROVE  /\ IsList(Fold(list, f))
         /\ f.type \in UpsertType => f.id \in DOMAIN Fold(list, f) /\ Fold(list, f)[f.id] = f.summary
         /\ f.type = "session_disconnected" /\ f.id \in DOMAIN Fold(list, f) =>
              ~Fold(list, f)[f.id].connected
         /\ \A i : i # f.id => /\ i \in DOMAIN Fold(list, f) <=> i \in DOMAIN list
                               /\ i \in DOMAIN list => Fold(list, f)[i] = list[i]
<1>1. CASE f.type \in UpsertType
  <2>1. f \in Upsert
    BY <1>1 DEF Frame, Disconnected, UpsertType
  <2>2. Fold(list, f) = [i \in DOMAIN list \cup {f.id} |-> IF i = f.id THEN f.summary ELSE list[i]]
    BY <1>1 DEF Fold
  <2>3. f.id \in Id /\ f.summary \in Summary /\ f.type # "session_disconnected"
    BY <1>1, <2>1 DEF Upsert, UpsertType
  <2>4. QED
    BY <2>2, <2>3 DEF IsList
<1>2. CASE f.type \notin UpsertType
  <2>1. CASE f.id \in DOMAIN list
    <3>1. Fold(list, f) = [list EXCEPT ![f.id].connected = FALSE]
      BY <1>2, <2>1 DEF Fold
    <3>2. [list[f.id] EXCEPT !.connected = FALSE] \in Summary
          /\ [list[f.id] EXCEPT !.connected = FALSE].connected = FALSE
      BY <2>1 DEF Summary, IsList
    <3>3. QED
      BY <1>2, <2>1, <3>1, <3>2 DEF IsList
  <2>2. CASE f.id \notin DOMAIN list
    BY <1>2, <2>2 DEF Fold
  <2>3. QED
    BY <2>1, <2>2
<1>3. QED
  BY <1>1, <1>2

LEMMA RelayKeeps ==
  ASSUME ListInv, NEW p \in Phone, ControlRelay(p)
  PROVE  ListInv'
<1> DEFINE q == control[p].queue
           list == Fold(view[p], Head(q))
<1>1. /\ RegistryInv /\ Quiet /\ InHand /\ Told /\ Listing /\ IsChannel(control, Phone, Frame)
      /\ UNCHANGED registryVars /\ CanRecv(control, p)
      /\ control' = Received(control, p) /\ phone' = phone
      /\ view' = [view EXCEPT ![p] = list] /\ skipped' = skipped
      /\ Overtake(p) /\ UNCHANGED <<answer, stale>>
  BY DEF ListInv, ControlRelay, RegistryInv, TypeInv, TypeOK
<1>2. /\ p \in DOMAIN control /\ control[p] \in Receivers(Frame) /\ q \in Seq(Frame) /\ q # <<>>
      /\ IsChannel(control', Phone, Frame) /\ Head(q) \in Frame
  <2>1. IsChannel(control', Phone, Frame) /\ Head(q) \in Frame
    BY <1>1, ReceiverType
  <2>2. QED
    BY <1>1, <2>1 DEF CanRecv, IsChannel, Receivers
<1>3. /\ DOMAIN control' = DOMAIN control /\ \A r \in DOMAIN control : r # p => control'[r] = control[r]
      /\ control'[p].queue = Tail(q) /\ control'[p].lagged = control[p].lagged
  BY <1>1, <1>2 DEF Received, Receivers
<1>4. IsList(view[p])
  BY <1>1 DEF Listing
<1> HIDE DEF q, list
<1>5. /\ Fetching' /\ Lists(p)' = {list} /\ \A r \in Phone : r # p => Lists(r)' = Lists(r)
      /\ DOMAIN view' = Phone /\ \A r \in Phone : IsList(view'[r])
  <2>1. IsList(list)
    BY <1>2, <1>4, FoldDoes DEF list
  <2>2. QED
    BY <1>1, <2>1, Overtaking
<1>6. Listing'
  BY <1>1, <1>3, <1>5 DEF Listing
<1>7. ASSUME NEW i \in Id, Heard(p), ~Shared(i)
      PROVE  /\ \A f \in Latest(Tail(q), i) : RightFrame(i, f)
             /\ Silent(Tail(q), i) /\ phone[p] = "live" => RightView(i, list)
  <2>1. /\ \A f \in Latest(q, i) : RightFrame(i, f)
        /\ Silent(q, i) /\ phone[p] = "live" => RightView(i, view[p])
    BY <1>1, <1>7 DEF Told, Lists, q
  <2>2. /\ Latest(Tail(q), i) \subseteq Latest(q, i)
        /\ Silent(Tail(q), i) => IF Head(q).id = i THEN Head(q) \in Latest(q, i) ELSE Silent(q, i)
    BY <1>2, Read
  <2>3. ASSUME Head(q).id = i, RightFrame(i, Head(q)) PROVE RightView(i, list)
    <3>1. /\ Head(q).type \in UpsertType => i \in DOMAIN list /\ list[i] = Head(q).summary
          /\ Head(q).type = "session_disconnected" => (i \in DOMAIN list => ~list[i].connected)
      BY <1>2, <1>4, <2>3, FoldDoes DEF list
    <3>2. QED
      BY <2>3, <3>1 DEF RightFrame, RightView
  <2>4. ASSUME Head(q).id # i, RightView(i, view[p]) PROVE RightView(i, list)
    <3>1. /\ i \in DOMAIN list <=> i \in DOMAIN view[p]
          /\ i \in DOMAIN view[p] => list[i] = view[p][i]
      BY <1>2, <1>4, <2>4, FoldDoes DEF list
    <3>2. QED
      BY <2>4, <3>1 DEF RightView
  <2>5. QED
    BY <2>1, <2>2, <2>3, <2>4
<1>8. Told'
  <2>1. SUFFICES ASSUME NEW r \in Phone, NEW i \in Id, Heard(r), ~Shared(i)
                 PROVE  /\ \A f \in Latest(control'[r].queue, i) : RightFrame(i, f)
                        /\ Silent(control'[r].queue, i) /\ phone[r] = "live" =>
                             \A l : l \in Lists(r)' => RightView(i, l)
    BY <1>1, <1>3, RightApart DEF Told, Heard
  <2>2. CASE r = p
    BY <1>3, <1>5, <1>7, <2>1, <2>2
  <2>3. CASE r # p
    BY <1>1, <1>3, <1>5, <2>1, <2>3 DEF Told, Heard
  <2>4. QED
    BY <2>2, <2>3
<1>9. QED
  BY <1>1, <1>2, <1>6, <1>8, RegistryBeside DEF ListInv

\* Lagging, closing and leaving: a phone of which no more is said, and the others.
LEMMA LeavingKeeps ==
  ASSUME ListInv, NEW p \in Phone, ControlLagged(p) \/ PageCloses(p) \/ ControlEnds(p)
  PROVE  ListInv'
<1>1. /\ RegistryInv /\ Quiet /\ InHand /\ Told /\ Listing /\ IsChannel(control, Phone, Frame)
      /\ UNCHANGED registryVars /\ UNCHANGED <<view, fetch, answer, stale>>
      /\ \A r \in Phone : Lists(r)' = Lists(r)
  BY DEF ListInv, ControlLagged, PageCloses, ControlEnds, RegistryInv, TypeInv, TypeOK,
         vars, hubVars, registryVars, fetchVars, Lists
<1>2. /\ IsChannel(control', Phone, Frame) /\ Listing'
      /\ \A r \in Phone \ {p} : /\ r \in DOMAIN control' => r \in DOMAIN control /\ control'[r] = control[r]
                                /\ phone'[r] = phone[r] /\ skipped'[r] = skipped[r]
      /\ Heard(p)' => Heard(p) /\ control'[p] = control[p] /\ phone'[p] # "live"
  <2>1. CASE ControlLagged(p)
    <3>1. /\ control[p].lagged /\ control' = LagReported(control, p) /\ phone' = phone
          /\ skipped' = [skipped EXCEPT ![p] = TRUE] /\ p \in DOMAIN control
      BY <1>1, <2>1 DEF ControlLagged, Listing
    <3>2. DOMAIN control' = DOMAIN control /\ \A r \in DOMAIN control : r # p => control'[r] = control[r]
      BY <3>1 DEF LagReported
    <3>3. IsChannel(control', Phone, Frame)
      BY <1>1, <3>1, ReceiverType
    <3>4. Listing' /\ ~Heard(p)'
      BY <1>1, <3>1, <3>2 DEF Listing, Fetching, Heard
    <3>5. QED
      BY <1>1, <3>1, <3>2, <3>3, <3>4 DEF Listing, Fetching
  <2>2. CASE PageCloses(p)
    <3>1. control' = control /\ phone' = [phone EXCEPT ![p] = "closed"] /\ skipped' = skipped
          /\ phone[p] = "live"
      BY <2>2 DEF PageCloses, PhoneGoto, vars, hubVars
    <3>2. Listing'
      BY <1>1, <3>1 DEF Listing, Fetching, PhonePc
    <3>3. QED
      BY <1>1, <3>1, <3>2 DEF Listing, Fetching, Heard
  <2>3. CASE ControlEnds(p)
    <3>1. control' = Unsubscribe(control, p) /\ phone' = [phone EXCEPT ![p] = "ended"]
          /\ skipped' = skipped
      BY <2>3 DEF ControlEnds, PhoneGoto
    <3>2. DOMAIN control' = DOMAIN control \ {p} /\ \A r \in DOMAIN control' : control'[r] = control[r]
      BY <3>1 DEF Unsubscribe
    <3>3. IsChannel(control', Phone, Frame)
      BY <1>1, <3>1, ReceiverType
    <3>4. Listing' /\ ~Heard(p)'
      BY <1>1, <3>1, <3>2 DEF Listing, Fetching, PhonePc, Heard
    <3>5. QED
      BY <1>1, <3>1, <3>2, <3>3, <3>4 DEF Listing, Fetching
  <2>4. QED
    BY <2>1, <2>2, <2>3
<1>3. Told'
  <2>1. SUFFICES ASSUME NEW r \in Phone, NEW i \in Id, Heard(r)', ~Shared(i)
                 PROVE  /\ \A f \in Latest(control'[r].queue, i) : RightFrame(i, f)
                        /\ Silent(control'[r].queue, i) /\ phone'[r] = "live" =>
                             \A list \in Lists(r) : RightView(i, list)
    BY <1>1, RightApart DEF Told
  <2>2. CASE r = p
    BY <1>1, <1>2, <2>1, <2>2 DEF Told
  <2>3. CASE r # p
    BY <1>1, <1>2, <2>1, <2>3 DEF Told, Heard
  <2>4. QED
    BY <2>2, <2>3
<1>4. QED
  BY <1>1, <1>2, <1>3, RegistryBeside DEF ListInv

\* fetchSnapshot: the list of a response is right about every id when it is read,
\* and takes the place of the page's only if nothing came between.
LEMMA FetchKeeps ==
  ASSUME ListInv, NEW p \in Phone, NEW k \in Call, FetchStep(p, k)
  PROVE  ListInv'
<1>1. /\ RegistryInv /\ Quiet /\ InHand /\ Told /\ Listing /\ IsChannel(control, Phone, Frame)
      /\ UNCHANGED registryVars /\ UNCHANGED <<control, phone, skipped>>
  BY DEF ListInv, FetchStep, FetchAnswers, FetchReturns, FetchFails, RegistryInv, TypeInv, TypeOK,
         vars, hubVars, registryVars
<1>2. IsList(List) /\ IsList(NoList)
  BY <1>1, ListType DEF IsList, NoList
<1>3. PICK l \in {List, NoList}, label \in {"answered", "idle"} :
        /\ answer' = [answer EXCEPT ![p][k] = l] /\ fetch' = [fetch EXCEPT ![p][k] = label]
        /\ label = "answered" => l = List
        /\ \/ view' = view /\ stale' = stale
           \/ /\ label = "idle" /\ view' = [view EXCEPT ![p] = answer[p][k]]
              /\ \/ fetch[p][k] = "answered" /\ stale' = [stale EXCEPT ![p] = stale[p]]
                 \/ stale' = [stale EXCEPT ![p] = TRUE]
  <2>1. CASE FetchAnswers(p, k)
    BY <2>1 DEF FetchAnswers, FetchGoto
  <2>2. CASE FetchReturns(p, k)
    <3>1. stale' = [stale EXCEPT ![p] = stale[p] \/ fetch[p][k] = "overtaken"]
      BY <2>2 DEF FetchReturns
    <3>2. \/ fetch[p][k] = "answered" /\ stale' = [stale EXCEPT ![p] = stale[p]]
          \/ stale' = [stale EXCEPT ![p] = TRUE]
      <4>1. CASE fetch[p][k] = "overtaken"
        BY <3>1, <4>1
      <4>2. CASE fetch[p][k] = "answered"
        <5>1. (stale[p] \/ fetch[p][k] = "overtaken") = stale[p]
          BY <1>1, <4>2 DEF Listing, Fetching
        <5>2. QED
          BY <3>1, <4>2, <5>1
      <4>3. QED
        BY <2>2, <4>1, <4>2 DEF FetchReturns
    <3>3. QED
      BY <2>2, <3>2 DEF FetchReturns, FetchGoto
  <2>3. CASE FetchFails(p, k)
    BY <2>3 DEF FetchFails, FetchGoto
  <2>4. QED
    BY <2>1, <2>2, <2>3 DEF FetchStep
<1>4. /\ DOMAIN fetch = Phone /\ DOMAIN answer = Phone /\ DOMAIN view = Phone /\ DOMAIN stale = Phone
      /\ \A q \in Phone : DOMAIN fetch[q] = Call /\ DOMAIN answer[q] = Call
  BY <1>1 DEF Listing, Fetching
<1>5. /\ \A q \in Phone, j \in Call :
           /\ answer'[q][j] = IF q = p /\ j = k THEN l ELSE answer[q][j]
           /\ fetch'[q][j] = IF q = p /\ j = k THEN label ELSE fetch[q][j]
      /\ DOMAIN answer' = Phone /\ \A q \in Phone : DOMAIN answer'[q] = Call
  BY <1>3, <1>4
<1>6. ASSUME NEW q \in Phone, stale'[q] = FALSE
      PROVE  /\ stale[q] = FALSE
             /\ view'[q] \in Lists(q)
  <2>1. CASE view' = view /\ stale' = stale
    BY <1>6, <2>1 DEF Lists
  <2>2. CASE /\ view' = [view EXCEPT ![p] = answer[p][k]] /\ fetch[p][k] = "answered"
             /\ stale' = [stale EXCEPT ![p] = stale[p]]
    BY <1>4, <1>6, <2>2 DEF Lists
  <2>3. CASE view' = [view EXCEPT ![p] = answer[p][k]] /\ stale' = [stale EXCEPT ![p] = TRUE]
    BY <1>4, <1>6, <2>3 DEF Lists
  <2>4. QED
    BY <1>3, <2>1, <2>2, <2>3
<1>7. ASSUME NEW q \in Phone, Heard(q)'
      PROVE  Heard(q) /\ Lists(q)' \subseteq Lists(q) \cup {List}
  <2>1. Heard(q) /\ view'[q] \in Lists(q)
    <3>1. stale'[q] = FALSE
      <4>1. ~stale'[q]
        BY <1>7 DEF Heard
      <4>2. stale'[q] \in BOOLEAN
        BY <1>1, <1>3 DEF Listing, Fetching
      <4>3. QED
        BY <4>1, <4>2
    <3>2. stale[q] = FALSE /\ view'[q] \in Lists(q)
      BY <1>6, <3>1
    <3>3. QED
      BY <1>1, <1>7, <3>2 DEF Heard
  <2>2. ASSUME NEW j \in Call, fetch'[q][j] = "answered"
        PROVE  answer'[q][j] \in Lists(q) \cup {List}
    <3>1. CASE q = p /\ j = k
      BY <1>3, <1>5, <2>2, <3>1
    <3>2. CASE ~(q = p /\ j = k)
      BY <1>5, <2>2, <3>2 DEF Lists
    <3>3. QED
      BY <3>1, <3>2
  <2>3. QED
    BY <2>1, <2>2 DEF Lists
<1>8. Listing'
  <2>1. fetch' \in [Phone -> [Call -> FetchPc]]
    BY <1>1, <1>3 DEF Listing, Fetching, FetchPc
  <2>2. stale' \in [Phone -> BOOLEAN]
    BY <1>1, <1>3 DEF Listing, Fetching
  <2>3. \A q \in Phone : \A j \in Call : IsList(answer'[q][j])
    BY <1>1, <1>2, <1>3, <1>5 DEF Listing, Fetching
  <2>4. DOMAIN view' = Phone /\ \A q \in Phone : IsList(view'[q])
    BY <1>1, <1>3, <1>4 DEF Listing, Fetching
  <2>5. QED
    BY <1>1, <1>5, <2>1, <2>2, <2>3, <2>4 DEF Listing, Fetching
<1>9. Told'
  <2>1. SUFFICES ASSUME NEW q \in Phone, NEW i \in Id, Heard(q)', ~Shared(i)
                 PROVE  /\ \A f \in Latest(control[q].queue, i) : RightFrame(i, f)
                        /\ Silent(control[q].queue, i) /\ phone[q] = "live" =>
                             \A list : list \in Lists(q)' => RightView(i, list)
    BY <1>1, RightApart DEF Told
  <2>2. QED
    BY <1>1, <1>7, <2>1, ListRight DEF Told
<1>10. QED
  BY <1>1, <1>8, <1>9, RegistryBeside DEF ListInv

LEMMA StepList ==
  ASSUME ListInv, [ControlNext]_allVars
  PROVE  ListInv'
<1>1. ASSUME Next, UNCHANGED phoneVars PROVE ListInv'
  <2>1. PICK c \in Conn : AgentStep(c) \/ CloseReplaced(c) \/ WatcherNext(c)
    BY <1>1 DEF Next
  <2>2. RegistryInv /\ Quiet /\ InHand
    BY DEF ListInv
  <2>3. Apart(c)
    BY <2>1, <2>2, StepApart
  <2>4. RegistryInv'
    BY <1>1, <2>2, StepRegistry
  <2>5. QED
    BY <1>1, <2>1, <2>2, <2>3, <2>4, AgentInHand, WatcherInHand, StepQuiet, StepTold DEF ListInv
<1>2. CASE UNCHANGED allVars
  <2>1. /\ UNCHANGED registryVars /\ control' = control
        /\ UNCHANGED <<phone, view, skipped, fetch, answer, stale>>
    BY <1>2 DEF allVars, vars, hubVars, registryVars, phoneVars, fetchVars
  <2>2. Listing'
    BY <2>1 DEF ListInv, Listing, Fetching
  <2>3. Told'
    BY <2>1, RightApart DEF ListInv, Told, Heard, Lists
  <2>4. QED
    BY <2>1, <2>2, <2>3, RegistryBeside DEF ListInv, RegistryInv, TypeInv, TypeOK
<1>3. QED
  BY <1>1, <1>2, SubscribeKeeps, SnapshotKeeps, RelayKeeps, LeavingKeeps, FetchKeeps
     DEF ControlNext, ControlTask

-----------------------------------------------------------------------------
(* Theorems                                                                *)

\* The inductive invariant of the list: whatever a phone will have read last about
\* an id agrees with the tasks that own it.
THEOREM ListCorrect == ControlSpec => []ListInv
<1>1. ControlInit => ListInv
  BY InitList
<1>2. ListInv /\ [ControlNext]_allVars => ListInv'
  BY StepList
<1>3. QED
  BY <1>1, <1>2, PTL DEF ControlSpec

\* What a phone at rest shows of an id it has read everything about.
LEMMA RestRight ==
  ASSUME ListInv, NEW p \in Phone, NEW i \in Id, AtRest(p, i), ~skipped[p], ~stale[p],
         ~Shared(i)
  PROVE  RightView(i, view[p])
<1>1. p \in DOMAIN control /\ phone[p] = "live" /\ ~control[p].lagged
  BY DEF ListInv, Listing, AtRest
<1>2. Silent(control[p].queue, i)
  BY DEF AtRest, Silent
<1>3. QED
  BY <1>1, <1>2 DEF ListInv, Told, Heard, Lists

\* Whenever a phone came, whatever was under way then and however the frames
\* interleaved, and whatever responses came beside them: at rest, with no frame lost
\* and none overwritten by a list read before it, it shows as connected exactly the
\* registered sessions, of the ids that one connection used and forwarded nothing.
THEOREM PhonesListExactly == ControlSpec => []ListExact
<1>1. ListInv => ListExact
  <2>1. SUFFICES ASSUME ListInv, NEW p \in Phone, NEW i \in Id, AtRest(p, i), ~skipped[p],
                        ~stale[p], ~Shared(i), \A c \in Users(i) : published[c] = 0
                 PROVE  ShownConnected(p, i) <=> i \in DOMAIN sessions
    BY DEF ListExact
  <2>2. RegistryInv /\ RightView(i, view[p])
    BY <2>1, RestRight DEF ListInv
  <2>3. ASSUME i \in DOMAIN sessions PROVE ShownConnected(p, i)
    <3>1. /\ sessions[i] \in Users(i) /\ pc[sessions[i]] \in Owning /\ watch[sessions[i]].value
      BY <2>2, <2>3, EntryFacts DEF Users, RegistryInv, Bookkeeping, Entries
    <3>2. pc[sessions[i]] \in Announced
      BY <2>1, <3>1 DEF AtRest, Owning, Announced
    <3>3. QED
      BY <2>2, <3>1, <3>2 DEF RightView, Current, ShownConnected
  <2>4. ASSUME i \notin DOMAIN sessions PROVE ~ShownConnected(p, i)
    <3>1. ASSUME NEW c \in Users(i) PROVE pc[c] = "ended"
      <4>1. c \in Conn /\ sid[c] = i /\ i # None /\ pc[c] \in {"reading", "ended"}
        BY <2>1, <3>1, NoneAssumption DEF Users, AtRest
      <4>2. pc[c] \notin Owning
        BY <2>1, <2>2, <2>4, <4>1, OwnListed
      <4>3. QED
        BY <4>1, <4>2 DEF Owning
    <3>2. Gone(i)
      BY <2>1, <3>1 DEF Gone
    <3>3. QED
      BY <2>2, <3>2 DEF RightView, ShownConnected
  <2>5. QED
    BY <2>3, <2>4
<1>2. QED
  BY <1>1, ListCorrect, PTL

\* And its summary of a registered session is the session's: no change of the
\* status or of the name goes unannounced or is overwritten by an older one, be it
\* of a frame or of a response that nothing overtook.
THEOREM PhonesSummarizeExactly == ControlSpec => []SummaryExact
<1>1. ListInv => SummaryExact
  <2>1. SUFFICES ASSUME ListInv, NEW p \in Phone, NEW i \in DOMAIN sessions, AtRest(p, i),
                        ~skipped[p], ~stale[p], ~Shared(i)
                 PROVE  /\ i \in DOMAIN view[p]
                        /\ meta[sessions[i]] = 0 => view[p][i].status = status[sessions[i]]
                        /\ published[sessions[i]] = 0 => view[p][i].meta = meta[sessions[i]]
    BY DEF SummaryExact
  <2> DEFINE c == sessions[i]
  <2>2. /\ RegistryInv /\ i \in Id /\ c \in Users(i) /\ pc[c] \in Owning
    BY <2>1, EntryFacts DEF ListInv, Users, RegistryInv, Bookkeeping, Entries
  <2>3. pc[c] = "reading" /\ watcher[c] \notin {"updating", "sending"}
    BY <2>1, <2>2 DEF AtRest, Owning
  <2>4. RightView(i, view[p])
    BY <2>1, <2>2, RestRight
  <2>5. i \in DOMAIN view[p] /\ Current(c, view[p][i])
    BY <2>2, <2>3, <2>4 DEF RightView, Announced
  <2>6. QED
    BY <2>3, <2>5 DEF Current
<1>2. QED
  BY <1>1, ListCorrect, PTL
=============================================================================
