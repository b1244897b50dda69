------------------------ MODULE SessionRegistryProofs ------------------------
(***************************************************************************)
(* Theorems about SessionRegistry, for every number of connections, ids,   *)
(* events and every capacity.                                              *)
(*                                                                         *)
(* The types need Locals: what the local variables of a task hold at each  *)
(* of its steps.  The safety properties need Bookkeeping: how the entries  *)
(* of the registry relate to the tasks that own them.                      *)
(***************************************************************************)
EXTENDS SessionRegistry, TLAPS

Busy == {"summing", "announcing", "patching", "stopping", "marking", "retracting"}

\* What a task has in hand at each step of a call.
Locals ==
  /\ \A c \in Conn : pc[c] = "idle" => sid[c] = None
  /\ \A c \in Conn : pc[c] \in Busy => sid[c] \in Id
  /\ \A c \in Conn : pc[c] \in {"announcing", "patching"} => draft[c] \in Frame
  /\ \A c \in Conn : pc[c] = "marking" => taken[c] \in Conn
  /\ \A h \in Conn : watcher[h] # "none" => sid[h] \in Id
  /\ \A h \in Conn : watcher[h] = "sending" => update[h] \in Frame
  /\ \A i \in DOMAIN sessions : sid[sessions[i]] = i

TypeInv == TypeOK /\ Locals

-----------------------------------------------------------------------------
(* The channels                                                            *)

\* A send keeps the type of a channel: an overrun receiver drops its oldest.
LEMMA SendType ==
  ASSUME NEW ch, NEW S, NEW Msg, IsChannel(ch, S, Msg), NEW m \in Msg, NEW cap \in Nat \ {0}
  PROVE  IsChannel(Send(ch, m, cap), S, Msg)
<1>1. ASSUME NEW r \in DOMAIN ch
      PROVE  Deliver(ch[r], m, cap) \in Receivers(Msg)
  <2>1. ch[r] \in Receivers(Msg)
    BY DEF IsChannel
  <2>2. CASE Len(ch[r].queue) < cap
    BY <2>1, <2>2 DEF Deliver, Receivers
  <2>3. CASE ~(Len(ch[r].queue) < cap)
    <3>1. ch[r].queue \in Seq(Msg) /\ ch[r].queue # <<>>
      BY <2>1, <2>3 DEF Receivers
    <3>2. Append(Tail(ch[r].queue), m) \in Seq(Msg)
      BY <3>1
    <3>3. QED
      BY <2>3, <3>2 DEF Deliver, Receivers
  <2>4. QED
    BY <2>2, <2>3
<1>2. QED
  BY <1>1 DEF Send, IsChannel

\* Subscribing, dropping and receiving keep it too.
LEMMA ReceiverType ==
  ASSUME NEW ch, NEW S, NEW Msg, IsChannel(ch, S, Msg), NEW r \in S
  PROVE  /\ IsChannel(Subscribe(ch, r), S, Msg)
         /\ IsChannel(Unsubscribe(ch, r), S, Msg)
         /\ CanRecv(ch, r) => /\ IsChannel(Received(ch, r), S, Msg)
                              /\ Head(ch[r].queue) \in Msg
         /\ r \in DOMAIN ch => IsChannel(LagReported(ch, r), S, Msg)
<1>1. IsChannel(Subscribe(ch, r), S, Msg)
  BY DEF Subscribe, IsChannel, Receivers
<1>2. IsChannel(Unsubscribe(ch, r), S, Msg)
  BY DEF Unsubscribe, IsChannel
<1>3. ASSUME CanRecv(ch, r)
      PROVE  /\ IsChannel(Received(ch, r), S, Msg)
             /\ Head(ch[r].queue) \in Msg
  <2>1. ch[r] \in Receivers(Msg) /\ ch[r].queue # <<>>
    BY <1>3 DEF CanRecv, IsChannel
  <2>2. Head(ch[r].queue) \in Msg /\ Tail(ch[r].queue) \in Seq(Msg)
    BY <2>1 DEF Receivers
  <2>3. QED
    BY <1>3, <2>1, <2>2 DEF CanRecv, Received, IsChannel, Receivers
<1>4. ASSUME r \in DOMAIN ch
      PROVE  IsChannel(LagReported(ch, r), S, Msg)
  BY <1>4 DEF LagReported, IsChannel, Receivers
<1>5. QED
  BY <1>1, <1>2, <1>3, <1>4

\* The watch channel: its types, and that only a send of FALSE changes a TRUE.
LEMMA WatchType ==
  ASSUME NEW w, NEW S, IsWatch(w, S), NEW r \in S
  PROVE  /\ IsWatch(WatchSubscribe(w, r), S) /\ WatchSubscribe(w, r).value = w.value
         /\ IsWatch(WatchUnsubscribe(w, r), S) /\ WatchUnsubscribe(w, r).value = w.value
<1>1. IsWatch(WatchSubscribe(w, r), S) /\ WatchSubscribe(w, r).value = w.value
  BY DEF WatchSubscribe, IsWatch
<1>2. IsWatch(WatchUnsubscribe(w, r), S) /\ WatchUnsubscribe(w, r).value = w.value
  BY DEF WatchUnsubscribe, IsWatch
<1>3. QED
  BY <1>1, <1>2

LEMMA WatchSendType ==
  ASSUME NEW w, NEW S, IsWatch(w, S)
  PROVE  IsWatch(WatchSend(w, FALSE), S)
BY DEF WatchSend, IsWatch

-----------------------------------------------------------------------------
(* The types                                                               *)

\* A frame built from a handle with a session id is a control frame.
LEMMA FrameType ==
  ASSUME TypeOK, NEW h \in Conn, sid[h] \in Id, NEW t \in UpsertType
  PROVE  /\ UpsertFrame(t, h) \in Frame
         /\ [UpsertFrame(t, h) EXCEPT !.summary.meta = meta[h] + 1] \in Frame
<1>1. SummaryOf(h) \in Summary
  BY DEF TypeOK, SummaryOf, Summary, IsWatch
<1>2. UpsertFrame(t, h) \in Upsert
  BY <1>1 DEF UpsertFrame, Upsert
<1>3. meta[h] + 1 \in Nat
  BY BoundAssumption DEF TypeOK
<1>4. [UpsertFrame(t, h) EXCEPT !.summary.meta = meta[h] + 1] \in Upsert
  BY <1>1, <1>2, <1>3 DEF UpsertFrame, Upsert, Summary
<1>5. QED
  BY <1>2, <1>4 DEF Frame

\* handle_event takes a status to a status.
LEMMA AfterType ==
  ASSUME NEW s \in Status, NEW e \in Event
  PROVE  After(s, e) \in Status
<1>1. e.preview \in Preview
  BY DEF Preview
<1>2. CASE e.type = "agent_start"
  BY <1>2 DEF After, Status
<1>3. CASE e.type = "agent_settled"
  BY <1>3 DEF After, Status
<1>4. CASE e.type = "message_end" /\ e.preview # None
  BY <1>1, <1>4 DEF After, Status
<1>5. CASE e.type # "agent_start" /\ e.type # "agent_settled" /\ ~(e.type = "message_end" /\ e.preview # None)
  BY <1>5 DEF After, Status
<1>6. QED
  BY <1>2, <1>3, <1>4, <1>5

\* The initial state is well typed.
LEMMA TypeInit == Init => TypeInv
<1>. SUFFICES ASSUME Init PROVE TypeInv
  OBVIOUS
<1>1. IsChannel(control, Phone, Frame)
  BY DEF Init, NoReceivers, IsChannel
<1>2. \A h \in Conn : IsWatch(watch[h], Subscribers)
  BY DEF Init, NewWatch, IsWatch
<1>3. \A h \in Conn : IsChannel(events[h], Subscribers, Event)
  BY DEF Init, NoReceivers, IsChannel
<1>4. status \in [Conn -> Status]
  BY DEF Init, Status, Preview
<1>5. meta \in [Conn -> 0..MaxRenames] /\ published \in [Conn -> 0..MaxEvents]
  BY BoundAssumption DEF Init
<1>6. TypeOK
  BY <1>1, <1>2, <1>3, <1>4, <1>5 DEF Init, TypeOK, AgentPc, Kick, WatcherPc
<1>7. Locals
  BY DEF Init, Locals, Busy
<1>8. QED
  BY <1>6, <1>7 DEF TypeInv

\* The send of a frame a task has in hand keeps the control channel's type.
LEMMA BroadcastType ==
  ASSUME TypeOK, NEW f \in Frame, Broadcast(f)
  PROVE  IsChannel(control', Phone, Frame)
BY SendType, CapacityAssumption DEF TypeOK, Broadcast

\* Marking a handle keeps the watch channels' types.
LEMMA MarkType ==
  ASSUME TypeOK, NEW h \in Conn, MarkDisconnected(h)
  PROVE  /\ DOMAIN watch' = Conn
         /\ \A g \in Conn : IsWatch(watch'[g], Subscribers)
<1>1. IsWatch(WatchSend(watch[h], FALSE), Subscribers)
  BY WatchSendType DEF TypeOK
<1>2. QED
  BY <1>1 DEF TypeOK, MarkDisconnected

-----------------------------------------------------------------------------

\* Every step of the reader of a connection keeps the types.
LEMMA AgentTypeStep ==
  ASSUME TypeInv, NEW c \in Conn, AgentStep(c) \/ CloseReplaced(c)
  PROVE  TypeInv'
<1>. USE DEF TypeInv
<1>1. CASE Open(c)
  BY <1>1 DEF Open, Goto, TypeOK, Locals, Busy, AgentPc, hubVars, watcherVars
<1>2. ASSUME NEW i \in Id, Register(c, i)
      PROVE  TypeInv'
  <2>. USE <1>2 DEF Register, Goto, WithEntry, watcherVars
  <2>1. \A j \in DOMAIN sessions : sessions[j] \in Conn /\ sid[sessions[j]] = j /\ j \in Id
    BY DEF TypeOK, Locals
  <2>2. \A j \in DOMAIN sessions : sessions[j] # c
    BY <2>1, NoneAssumption
  <2>3. /\ DOMAIN watch' = Conn
        /\ \A h \in Conn : IsWatch(watch'[h], Subscribers)
    <3>1. CASE i \in DOMAIN sessions
      BY <3>1, <2>1, MarkType
    <3>2. CASE i \notin DOMAIN sessions
      BY <3>2 DEF TypeOK
    <3>3. QED
      BY <3>1, <3>2
  <2>4. kick' \in [Conn -> Kick]
    BY <2>1 DEF TypeOK, Kick
  <2>5. DOMAIN sessions' \subseteq Id /\ sessions' \in [DOMAIN sessions' -> Conn]
    BY <2>1
  <2>6. sid' \in [Conn -> Id \cup {None}] /\ pc' \in [Conn -> AgentPc]
    BY DEF TypeOK, AgentPc
  <2>7. TypeOK'
    BY <2>3, <2>4, <2>5, <2>6 DEF TypeOK
  <2>8. \A j \in DOMAIN sessions' : sid'[sessions'[j]] = j
    BY <2>1, <2>2 DEF TypeOK
  <2>9. Locals'
    BY <2>8, <2>6, NoneAssumption DEF TypeOK, Locals, Busy
  <2>10. QED
    BY <2>7, <2>9
<1>3. CASE Summarize(c)
  <2>1. UpsertFrame("session_connected", c) \in Frame
    BY <1>3, FrameType DEF Summarize, Locals, Busy, UpsertType
  <2>2. QED
    BY <1>3, <2>1 DEF Summarize, Goto, TypeOK, Locals, Busy, AgentPc, hubVars, watcherVars
<1>4. CASE Announce(c)
  <2>1. draft[c] \in Frame /\ sid[c] \in Id
    BY <1>4 DEF Announce, Locals, Busy
  <2>2. IsChannel(control', Phone, Frame)
    BY <1>4, <2>1, BroadcastType DEF Announce
  <2>3. QED
    BY <1>4, <2>1, <2>2 DEF Announce, Goto, TypeOK, Locals, Busy, AgentPc, WatcherPc
<1>5. CASE UpdateMeta(c)
  <2>. DEFINE h == sessions[sid[c]]
  <2>1. h \in Conn /\ sid[h] \in Id /\ sid[c] \in Id
    BY <1>5 DEF UpdateMeta, TypeOK, Locals
  <2>2. [UpsertFrame("session_meta", h) EXCEPT !.summary.meta = meta[h] + 1] \in Frame
    BY <2>1, FrameType DEF UpsertType
  <2>3. meta[h] + 1 \in 0..MaxRenames
    BY <1>5, <2>1, BoundAssumption DEF UpdateMeta, TypeOK
  <2>4. QED
    BY <1>5, <2>1, <2>2, <2>3 DEF UpdateMeta, Goto, TypeOK, Locals, Busy, AgentPc, watcherVars
<1>6. CASE SendMeta(c)
  <2>1. draft[c] \in Frame
    BY <1>6 DEF SendMeta, Locals
  <2>2. IsChannel(control', Phone, Frame)
    BY <1>6, <2>1, BroadcastType DEF SendMeta
  <2>3. QED
    BY <1>6, <2>2 DEF SendMeta, Goto, TypeOK, Locals, Busy, AgentPc, watcherVars
<1>7. ASSUME NEW e \in Event, Publish(c, e)
      PROVE  TypeInv'
  <2>1. sessions[sid[c]] \in Conn
    BY <1>7 DEF Publish, TypeOK
  <2>2. IsChannel(Send(events[sessions[sid[c]]], e, EventCapacity), Subscribers, Event)
    BY <2>1, SendType, CapacityAssumption DEF TypeOK
  <2>3. published[c] + 1 \in 0..MaxEvents
    BY <1>7, BoundAssumption DEF Publish, TypeOK
  <2>4. QED
    BY <1>7, <2>2, <2>3 DEF Publish, TypeOK, Locals, Busy, watcherVars
<1>8. CASE StreamEnds(c)
  BY <1>8 DEF StreamEnds, Goto, TypeOK, Locals, Busy, AgentPc, hubVars, watcherVars
<1>9. CASE Remove(c)
  BY <1>9 DEF Remove, Goto, WithoutEntry, TypeOK, Locals, Busy, AgentPc, watcherVars
<1>10. CASE Mark(c)
  <2>1. taken[c] \in Conn
    BY <1>10 DEF Mark, Locals
  <2>2. /\ DOMAIN watch' = Conn
        /\ \A h \in Conn : IsWatch(watch'[h], Subscribers)
    BY <1>10, <2>1, MarkType DEF Mark
  <2>3. QED
    BY <1>10, <2>2 DEF Mark, Goto, TypeOK, Locals, Busy, AgentPc, watcherVars
<1>11. CASE Retract(c)
  <2>1. [type |-> "session_disconnected", id |-> sid[c]] \in Frame
    BY <1>11 DEF Retract, Locals, Busy, Frame, Disconnected
  <2>2. IsChannel(control', Phone, Frame)
    BY <1>11, <2>1, BroadcastType DEF Retract
  <2>3. QED
    BY <1>11, <2>2 DEF Retract, Goto, TypeOK, Locals, Busy, AgentPc, watcherVars
<1>12. CASE CloseReplaced(c)
  BY <1>12 DEF CloseReplaced, TypeOK, Locals, Busy, Kick, hubVars, watcherVars
<1>13. QED
  BY <1>1, <1>2, <1>3, <1>4, <1>5, <1>6, <1>7, <1>8, <1>9, <1>10, <1>11, <1>12 DEF AgentStep

\* Every step of the watcher of a handle keeps the types.
LEMMA WatcherTypeStep ==
  ASSUME TypeInv, NEW h \in Conn, WatcherNext(h)
  PROVE  TypeInv'
<1>. USE DEF TypeInv
<1>0. Watcher \in Subscribers /\ IsWatch(watch[h], Subscribers)
      /\ IsChannel(events[h], Subscribers, Event)
  BY DEF Subscribers, TypeOK
<1>1. CASE WatcherStarts(h)
  <2>1. /\ IsChannel(Subscribe(events[h], Watcher), Subscribers, Event)
        /\ IsWatch(WatchSubscribe(watch[h], Watcher), Subscribers)
    BY <1>0, ReceiverType, WatchType
  <2>2. QED
    BY <1>1, <2>1 DEF WatcherStarts, WatcherGoto, TypeOK, Locals, Busy, WatcherPc, agentVars
<1>2. CASE WatcherStops(h)
  <2>1. /\ IsChannel(Unsubscribe(events[h], Watcher), Subscribers, Event)
        /\ IsWatch(WatchUnsubscribe(watch[h], Watcher), Subscribers)
    BY <1>0, ReceiverType, WatchType
  <2>2. QED
    BY <1>2, <2>1 DEF WatcherStops, WatcherGoto, TypeOK, Locals, Busy, WatcherPc, agentVars
<1>3. CASE WatcherLags(h)
  <2>1. IsChannel(LagReported(events[h], Watcher), Subscribers, Event)
    BY <1>0, <1>3, ReceiverType DEF WatcherLags
  <2>2. QED
    BY <1>3, <2>1 DEF WatcherLags, TypeOK, Locals, Busy, agentVars, watcherVars
<1>4. CASE WatcherReceives(h)
  <2>1. /\ IsChannel(Received(events[h], Watcher), Subscribers, Event)
        /\ Head(events[h][Watcher].queue) \in Event
    BY <1>0, <1>4, ReceiverType DEF WatcherReceives
  <2>2. After(status[h], Head(events[h][Watcher].queue)) \in Status
    BY <2>1, AfterType DEF TypeOK
  <2>3. QED
    BY <1>4, <2>1, <2>2 DEF WatcherReceives, WatcherGoto, TypeOK, Locals, Busy, WatcherPc, agentVars
<1>5. CASE WatcherSummarizes(h)
  <2>1. UpsertFrame("session_update", h) \in Frame
    BY <1>5, FrameType DEF WatcherSummarizes, Locals, UpsertType
  <2>2. QED
    BY <1>5, <2>1 DEF WatcherSummarizes, WatcherGoto, TypeOK, Locals, Busy, WatcherPc, agentVars, hubVars
<1>6. CASE WatcherSends(h)
  <2>1. update[h] \in Frame
    BY <1>6 DEF WatcherSends, Locals
  <2>2. IsChannel(control', Phone, Frame)
    BY <1>6, <2>1, BroadcastType DEF WatcherSends
  <2>3. QED
    BY <1>6, <2>2 DEF WatcherSends, WatcherGoto, TypeOK, Locals, Busy, WatcherPc, agentVars
<1>7. QED
  BY <1>1, <1>2, <1>3, <1>4, <1>5, <1>6 DEF WatcherNext

\* Type correctness of the registry and its tasks, with what they hold locally.
THEOREM TypeCorrect == Spec => []TypeInv
<1>1. Init => TypeInv
  BY TypeInit
<1>2. TypeInv /\ [Next]_vars => TypeInv'
  <2>1. CASE UNCHANGED vars
    BY <2>1 DEF vars, hubVars, agentVars, watcherVars, TypeInv, TypeOK, Locals
  <2>2. QED
    BY <2>1, AgentTypeStep, WatcherTypeStep DEF Next
<1>3. QED
  BY <1>1, <1>2, PTL DEF Spec

\* The type invariant the runs check.
THEOREM TypeOKCorrect == Spec => []TypeOK
<1>1. TypeInv => TypeOK
  BY DEF TypeInv
<1>2. QED
  BY <1>1, TypeCorrect, PTL

-----------------------------------------------------------------------------
(* The registry and its tasks                                              *)

\* A reader that has not got as far as the removal in unregister.
Owning == {"reading", "summing", "announcing", "patching", "stopping"}

(* How the registry's entries relate to the tasks.  That an entry is       *)
(* connected is kept because the handles that are about to be marked are   *)
(* known not to be entries (Departing), and because a handle that is       *)
(* entered has never been marked (Fresh).                                  *)
Entries ==
  \A i \in DOMAIN sessions : watch[sessions[i]].value /\ pc[sessions[i]] \in Owning

Fresh == \A c \in Conn : sid[c] = None => watch[c].value

Departing == \A c \in Conn : pc[c] = "marking" => sid[taken[c]] # None /\ ~Registered(taken[c])

Unlisted ==
  \A c \in Conn : pc[c] \in Owning /\ sid[c] # None /\ ~Registered(c)
                    => \E d \in Conn \ {c} : sid[d] = sid[c]

Bookkeeping == Entries /\ Fresh /\ Departing /\ Unlisted

RegistryInv == TypeInv /\ Bookkeeping

\* What the entries of a well-typed registry are: of one connection each.
LEMMA EntryFacts ==
  ASSUME TypeInv
  PROVE  /\ \A i \in DOMAIN sessions : i \in Id /\ sessions[i] \in Conn /\ sid[sessions[i]] = i
         /\ \A i \in DOMAIN sessions : sid[sessions[i]] # None
         /\ \A i, j \in DOMAIN sessions : sessions[i] = sessions[j] => i = j
BY NoneAssumption DEF TypeInv, TypeOK, Locals

\* A step that leaves the entries, the ids, and the values of the handles alone
\* and moves no reader into, or out of, the part of a call Bookkeeping is about.
LEMMA Undisturbed ==
  ASSUME TypeInv, Bookkeeping,
         UNCHANGED <<sessions, sid, taken>>,
         \A h \in Conn : watch'[h].value = watch[h].value,
         \A c \in Conn : pc'[c] \in Owning <=> pc[c] \in Owning,
         \A c \in Conn : pc'[c] = "marking" => pc[c] = "marking"
  PROVE  Bookkeeping'
<1>1. Entries'
  BY EntryFacts DEF Bookkeeping, Entries
<1>2. Fresh' /\ Departing' /\ Unlisted'
  BY DEF Bookkeeping, Fresh, Departing, Unlisted, Registered
<1>3. QED
  BY <1>1, <1>2 DEF Bookkeeping

\* register: the entry it makes is fresh, the handle it marks is its own no more.
LEMMA RegisterKeeps ==
  ASSUME RegistryInv, NEW c \in Conn, NEW i \in Id, Register(c, i)
  PROVE  Bookkeeping'
<1>. USE DEF RegistryInv
<1>. USE EntryFacts, NoneAssumption
<1>1. /\ pc[c] = "reading" /\ sid[c] = None
      /\ sessions' = [j \in DOMAIN sessions \cup {i} |-> IF j = i THEN c ELSE sessions[j]]
      /\ sid' = [sid EXCEPT ![c] = i] /\ pc' = [pc EXCEPT ![c] = "summing"] /\ taken' = taken
  BY DEF Register, Goto, WithEntry
<1>2. /\ DOMAIN sid = Conn /\ DOMAIN pc = Conn /\ DOMAIN watch = Conn
      /\ \A d \in Conn : d # c => sid'[d] = sid[d] /\ pc'[d] = pc[d]
      /\ sid'[c] = i /\ pc'[c] = "summing"
  BY <1>1 DEF TypeInv, TypeOK
<1>3. \A h \in Conn : (i \in DOMAIN sessions => h # sessions[i]) => watch'[h].value = watch[h].value
  BY DEF Register, MarkDisconnected, TypeInv, TypeOK
<1>4. \A j \in DOMAIN sessions : sessions[j] # c
  BY <1>1
<1>5. Entries'
  <2>1. watch'[c].value
    BY <1>1, <1>3, <1>4 DEF Bookkeeping, Fresh
  <2>2. \A j \in DOMAIN sessions : j # i => watch'[sessions[j]].value
    BY <1>3 DEF Bookkeeping, Entries
  <2>3. QED
    BY <1>1, <1>2, <1>4, <2>1, <2>2 DEF Bookkeeping, Entries, Owning
<1>6. Fresh'
  BY <1>1, <1>2, <1>3 DEF Bookkeeping, Fresh
<1>7. \A h \in Conn : Registered(h)' => h = c \/ Registered(h)
  BY <1>1 DEF Registered
<1>8. Departing'
  BY <1>1, <1>2, <1>7 DEF Bookkeeping, Departing, TypeInv, TypeOK, Locals
<1>9. Unlisted'
  <2>1. Registered(c)'
    BY <1>1 DEF Registered
  <2>2. SUFFICES ASSUME NEW d \in Conn, d # c, pc[d] \in Owning, sid[d] # None, ~Registered(d)'
                 PROVE  \E e \in Conn \ {d} : sid'[e] = sid[d]
    BY <1>2, <2>1 DEF Unlisted
  <2>3. CASE Registered(d)
    <3>1. PICK j \in DOMAIN sessions : sessions[j] = d
      BY <2>3 DEF Registered
    <3>2. j = i
      BY <1>1, <2>2, <3>1 DEF Registered
    <3>3. QED
      BY <1>2, <2>2, <3>1, <3>2
  <2>4. CASE ~Registered(d)
    BY <1>1, <1>2, <2>2, <2>4 DEF Bookkeeping, Unlisted
  <2>5. QED
    BY <2>3, <2>4
<1>10. QED
  BY <1>5, <1>6, <1>8, <1>9 DEF Bookkeeping

\* unregister, its removal: the entry it takes belongs to a connection of its id.
LEMMA RemoveKeeps ==
  ASSUME RegistryInv, NEW c \in Conn, Remove(c)
  PROVE  Bookkeeping'
<1>. USE DEF RegistryInv
<1>. USE EntryFacts
<1>1. /\ pc[c] = "stopping" /\ sid[c] \in Id /\ sid' = sid /\ watch' = watch
      /\ DOMAIN pc = Conn /\ DOMAIN taken = Conn
  BY DEF Remove, TypeInv, TypeOK, Locals, Busy
<1>2. CASE sid[c] \in DOMAIN sessions
  <2>. DEFINE h == sessions[sid[c]]
  <2>1. /\ taken' = [taken EXCEPT ![c] = h]
        /\ sessions' = [j \in DOMAIN sessions \ {sid[c]} |-> sessions[j]]
        /\ pc' = [pc EXCEPT ![c] = "marking"]
    BY <1>2 DEF Remove, Goto, WithoutEntry
  <2>2. /\ \A j \in DOMAIN sessions' : sessions'[j] # h
        /\ sid[h] = sid[c] /\ sid[h] # None /\ h \in Conn
    BY <1>2, <2>1
  <2>3. \A g \in Conn : Registered(g)' => Registered(g)
    BY <2>1 DEF Registered
  <2>4. Entries'
    BY <1>1, <2>1 DEF Bookkeeping, Entries
  <2>5. Fresh' /\ Departing'
    <3>1. Fresh'
      BY <1>1 DEF Bookkeeping, Fresh
    <3>2. ASSUME NEW d \in Conn, pc'[d] = "marking"
          PROVE  sid[taken'[d]] # None /\ \A j \in DOMAIN sessions' : sessions'[j] # taken'[d]
      <4>1. CASE d = c
        BY <1>1, <2>1, <2>2, <4>1
      <4>2. CASE d # c
        <5>1. pc[d] = "marking" /\ taken'[d] = taken[d]
          BY <1>1, <2>1, <3>2, <4>2
        <5>2. sid[taken[d]] # None /\ ~Registered(taken[d])
          BY <5>1 DEF Bookkeeping, Departing
        <5>3. QED
          BY <2>1, <5>1, <5>2 DEF Registered
      <4>3. QED
        BY <4>1, <4>2
    <3>3. QED
      BY <1>1, <3>1, <3>2 DEF Departing, Registered
  <2>6. Unlisted'
    <3>1. SUFFICES ASSUME NEW d \in Conn, d # c, pc[d] \in Owning, sid[d] # None, ~Registered(d)'
                   PROVE  \E e \in Conn \ {d} : sid[e] = sid[d]
      BY <1>1, <2>1 DEF Unlisted, Owning
    <3>2. CASE Registered(d)
      <4>1. d = h
        BY <2>1, <3>1, <3>2 DEF Registered
      <4>2. QED
        BY <2>2, <3>1, <4>1
    <3>3. CASE ~Registered(d)
      BY <3>1, <3>3 DEF Bookkeeping, Unlisted
    <3>4. QED
      BY <3>2, <3>3
  <2>7. QED
    BY <2>4, <2>5, <2>6 DEF Bookkeeping
<1>3. CASE sid[c] \notin DOMAIN sessions
  <2>1. sessions' = sessions /\ taken' = taken /\ pc' = [pc EXCEPT ![c] = "ended"]
    BY <1>3 DEF Remove, Goto
  <2>2. \A j \in DOMAIN sessions : sessions[j] # c
    BY <1>3
  <2>3. Entries'
    BY <1>1, <2>1, <2>2 DEF Bookkeeping, Entries
  <2>4. Fresh' /\ Departing' /\ Unlisted'
    BY <1>1, <2>1 DEF Bookkeeping, Fresh, Departing, Unlisted, Registered, Owning
  <2>5. QED
    BY <2>3, <2>4 DEF Bookkeeping
<1>4. QED
  BY <1>2, <1>3

\* unregister, its mark: the handle is no entry, and was registered.
LEMMA MarkKeeps ==
  ASSUME RegistryInv, NEW c \in Conn, Mark(c)
  PROVE  Bookkeeping'
<1>. USE DEF RegistryInv
<1>1. /\ pc[c] = "marking" /\ pc' = [pc EXCEPT ![c] = "retracting"] /\ DOMAIN pc = Conn
      /\ UNCHANGED <<sessions, sid, taken>>
      /\ taken[c] \in Conn /\ sid[taken[c]] # None /\ ~Registered(taken[c])
  BY DEF Mark, Goto, TypeInv, TypeOK, Locals, Bookkeeping, Departing
<1>2. \A h \in Conn : h # taken[c] => watch'[h].value = watch[h].value
  BY DEF Mark, MarkDisconnected, TypeInv, TypeOK
<1>3. Entries'
  BY <1>1, <1>2, EntryFacts DEF Bookkeeping, Entries, Registered, Owning
<1>4. Fresh' /\ Departing' /\ Unlisted'
  BY <1>1, <1>2 DEF Bookkeeping, Fresh, Departing, Unlisted, Registered, Owning
<1>5. QED
  BY <1>3, <1>4 DEF Bookkeeping

\* Every other step of a reader leaves the bookkeeping alone.
LEMMA AgentKeeps ==
  ASSUME RegistryInv, NEW c \in Conn, AgentStep(c) \/ CloseReplaced(c)
  PROVE  Bookkeeping'
<1>. USE DEF RegistryInv
<1>0. DOMAIN pc = Conn
  BY DEF TypeInv, TypeOK
<1>1. CASE Open(c) \/ StreamEnds(c)
  <2>1. /\ UNCHANGED <<sessions, sid, taken, watch>>
        /\ \E l \in {"reading", "stopping", "ended"} :
             /\ pc' = [pc EXCEPT ![c] = l]
             /\ sid[c] # None => l # "ended"
        /\ pc[c] \in {"idle", "reading"}
        /\ pc[c] = "idle" => pc'[c] = "reading"
    BY <1>0, <1>1 DEF Open, StreamEnds, Goto, hubVars
  <2>2. Entries'
    BY <1>0, <2>1, EntryFacts DEF Bookkeeping, Entries, Owning
  <2>3. Fresh' /\ Departing'
    BY <1>0, <2>1 DEF Bookkeeping, Fresh, Departing, Registered
  <2>4. Unlisted'
    <3>1. pc[c] = "idle" => sid[c] = None
      BY DEF TypeInv, Locals
    <3>2. \A d \in Conn : pc'[d] \in Owning /\ sid[d] # None => pc[d] \in Owning
      BY <1>0, <2>1, <3>1 DEF Owning
    <3>3. QED
      BY <2>1, <3>2 DEF Bookkeeping, Unlisted, Registered
  <2>5. QED
    BY <2>2, <2>3, <2>4 DEF Bookkeeping
<1>2. CASE Summarize(c) \/ Announce(c) \/ UpdateMeta(c) \/ SendMeta(c) \/ Retract(c) \/ CloseReplaced(c)
  <2>1. /\ UNCHANGED <<sessions, sid, taken, watch>>
        /\ \A d \in Conn : pc'[d] \in Owning <=> pc[d] \in Owning
        /\ \A d \in Conn : pc'[d] = "marking" => pc[d] = "marking"
    BY <1>0, <1>2 DEF Summarize, Announce, UpdateMeta, SendMeta, Retract, CloseReplaced,
                      Goto, hubVars, Owning
  <2>2. QED
    BY <2>1, Undisturbed
<1>3. CASE \E e \in Event : Publish(c, e)
  <2>1. UNCHANGED <<sessions, sid, taken, watch, pc>>
    BY <1>3 DEF Publish
  <2>2. QED
    BY <2>1, Undisturbed
<1>4. CASE \E i \in Id : Register(c, i)
  BY <1>4, RegisterKeeps
<1>5. CASE Remove(c)
  BY <1>5, RemoveKeeps
<1>6. CASE Mark(c)
  BY <1>6, MarkKeeps
<1>7. QED
  BY <1>1, <1>2, <1>3, <1>4, <1>5, <1>6 DEF AgentStep

\* So does every step of a watcher: it subscribes and leaves, and marks nothing.
LEMMA WatcherKeeps ==
  ASSUME RegistryInv, NEW h \in Conn, WatcherNext(h)
  PROVE  Bookkeeping'
<1>. USE DEF RegistryInv
<1>1. UNCHANGED <<sessions, sid, taken, pc>>
  BY DEF WatcherNext, WatcherStarts, WatcherStops, WatcherLags, WatcherReceives,
         WatcherSummarizes, WatcherSends, agentVars, hubVars
<1>2. \A g \in Conn : watch'[g].value = watch[g].value
  <2>1. CASE WatcherStarts(h)
    BY <2>1 DEF WatcherStarts, WatchSubscribe, TypeInv, TypeOK
  <2>2. CASE WatcherStops(h)
    BY <2>2 DEF WatcherStops, WatchUnsubscribe, TypeInv, TypeOK
  <2>3. CASE WatcherLags(h) \/ WatcherReceives(h) \/ WatcherSummarizes(h) \/ WatcherSends(h)
    BY <2>3 DEF WatcherLags, WatcherReceives, WatcherSummarizes, WatcherSends, hubVars
  <2>4. QED
    BY <2>1, <2>2, <2>3 DEF WatcherNext
<1>3. QED
  BY <1>1, <1>2, Undisturbed

\* The empty registry.
LEMMA InitRegistry == Init => RegistryInv
<1>1. Init => Bookkeeping
  BY DEF Init, Bookkeeping, Entries, Fresh, Departing, Unlisted, NewWatch
<1>2. QED
  BY <1>1, TypeInit DEF RegistryInv

\* Every step of a task of the registry keeps its invariant.
LEMMA StepRegistry ==
  ASSUME RegistryInv, [Next]_vars
  PROVE  RegistryInv'
<1>1. CASE UNCHANGED vars
  BY <1>1 DEF vars, hubVars, agentVars, watcherVars, RegistryInv, TypeInv, TypeOK, Locals,
              Bookkeeping, Entries, Fresh, Departing, Unlisted, Registered
<1>2. CASE Next
  BY <1>2, AgentTypeStep, WatcherTypeStep, AgentKeeps, WatcherKeeps DEF Next, RegistryInv
<1>3. QED
  BY <1>1, <1>2

\* The inductive invariant of the registry.
THEOREM RegistryCorrect == Spec => []RegistryInv
BY InitRegistry, StepRegistry, PTL DEF Spec

\* Whatever was registered meanwhile under any id, an entry is of a handle that
\* nothing has marked and of a connection whose unregister has not removed it.
THEOREM OnlyLiveEntries == Spec => []EntriesLive
<1>1. RegistryInv => EntriesLive
  BY DEF RegistryInv, Bookkeeping, Entries, EntriesLive, Owning
<1>2. QED
  BY <1>1, RegistryCorrect, PTL

\* A registration is lost to another connection of the same id only.
THEOREM MissingShared == Spec => []MissingOnlyIfShared
<1>1. RegistryInv => MissingOnlyIfShared
  BY DEF RegistryInv, Bookkeeping, Unlisted, MissingOnlyIfShared, Serving, Registered, Owning
<1>2. QED
  BY <1>1, RegistryCorrect, PTL

\* An empty registry is an empty directory.
LEMMA InitDirectory == Init => Directory!DirectoryInit
BY DEF Init, Directory!DirectoryInit

\* Every step of a task is a step of the directory, or none.
LEMMA StepDirectory ==
  ASSUME RegistryInv, [Next]_vars
  PROVE  [Directory!DirectoryNext]_Directory!directoryVars
<1>1. ASSUME NEW c \in Conn, NEW i \in Id, Register(c, i)
      PROVE  Directory!Enter(c, i)
  BY <1>1, NoneAssumption DEF Register, WithEntry, Directory!Enter, RegistryInv, TypeInv, TypeOK
<1>2. ASSUME NEW c \in Conn, Remove(c)
      PROVE  Directory!Leave(sid[c]) \/ UNCHANGED <<sessions, sid>>
  BY <1>2 DEF Remove, WithoutEntry, Directory!Leave
<1>3. ASSUME NEW c \in Conn, Remove(c)
      PROVE  sid[c] \in Id
  BY <1>3 DEF Remove, RegistryInv, TypeInv, Locals, Busy
<1>4. ASSUME NEW c \in Conn, AgentStep(c) \/ CloseReplaced(c) \/ WatcherNext(c),
             \A i \in Id : ~Register(c, i), ~Remove(c)
      PROVE  UNCHANGED <<sessions, sid>>
  BY <1>4 DEF AgentStep, Open, Summarize, Announce, UpdateMeta, SendMeta, StreamEnds, Mark,
              Retract, Publish, CloseReplaced, WatcherNext, WatcherStarts, WatcherStops,
              WatcherLags, WatcherReceives, WatcherSummarizes, WatcherSends,
              hubVars, agentVars
<1>5. UNCHANGED <<sessions, sid>> => UNCHANGED Directory!directoryVars
  BY DEF Directory!directoryVars
<1>6. CASE Next
  BY <1>1, <1>2, <1>3, <1>4, <1>5, <1>6 DEF Next, Directory!DirectoryNext
<1>7. CASE UNCHANGED vars
  BY <1>5, <1>7 DEF vars, hubVars, agentVars
<1>8. QED
  BY <1>6, <1>7

\* The registry and its tasks implement the directory their readers rely on.
THEOREM DirectoryImplemented == Spec => ImplementsDirectory
BY InitDirectory, StepDirectory, RegistryCorrect, PTL
   DEF Spec, ImplementsDirectory, Directory!DirectorySpec

-----------------------------------------------------------------------------
(* The watcher's view of its handle                                        *)

\* A watcher that has started is subscribed to its handle, so that a mark finds
\* a receiver and is a change the watcher has still to see.
WatcherStarted(h) == watcher[h] \in {"watching", "updating", "sending"}

Subscribed == \A h \in Conn : WatcherStarted(h) => Watcher \in DOMAIN watch[h].unseen

\* A mark reaches the watcher that is subscribed, and no mark drops a receiver.
LEMMA MarkNotices ==
  ASSUME TypeOK, Subscribed, NEW h \in Conn, MarkDisconnected(h)
  PROVE  /\ \A g \in Conn : DOMAIN watch'[g].unseen = DOMAIN watch[g].unseen
         /\ WatcherStarted(h) => WatchChanged(watch'[h], Watcher)
<1>1. \A g \in Conn : watch'[g] = IF g = h THEN WatchSend(watch[h], FALSE) ELSE watch[g]
  BY DEF MarkDisconnected, TypeOK
<1>2. DOMAIN WatchSend(watch[h], FALSE).unseen = DOMAIN watch[h].unseen
  BY DEF WatchSend
<1>3. Watcher \in DOMAIN watch[h].unseen => WatchChanged(WatchSend(watch[h], FALSE), Watcher)
  BY DEF WatchSend, WatchChanged
<1>4. QED
  BY <1>1, <1>2, <1>3 DEF Subscribed

\* No step of a reader unsubscribes a watcher or starts one that is not.
LEMMA AgentSubscribed ==
  ASSUME RegistryInv, Subscribed, NEW c \in Conn, AgentStep(c) \/ CloseReplaced(c)
  PROVE  Subscribed'
<1>0. TypeOK /\ DOMAIN watcher = Conn
  BY DEF RegistryInv, TypeInv, TypeOK
<1>1. ASSUME NEW h \in Conn, MarkDisconnected(h), watcher' = watcher
      PROVE  Subscribed'
  BY <1>0, <1>1, MarkNotices DEF Subscribed, WatcherStarted
<1>2. ASSUME NEW i \in Id, Register(c, i)
      PROVE  Subscribed'
  <2>1. CASE i \in DOMAIN sessions
    BY <1>0, <1>1, <1>2, <2>1 DEF Register, TypeOK, watcherVars
  <2>2. CASE i \notin DOMAIN sessions
    BY <1>2, <2>2 DEF Register, watcherVars, Subscribed, WatcherStarted
  <2>3. QED
    BY <2>1, <2>2
<1>3. CASE Mark(c)
  BY <1>1, <1>3 DEF Mark, watcherVars, RegistryInv, TypeInv, Locals
<1>4. CASE Announce(c)
  BY <1>0, <1>4 DEF Announce, Subscribed, WatcherStarted
<1>5. CASE \/ Open(c) \/ Summarize(c) \/ UpdateMeta(c) \/ SendMeta(c) \/ StreamEnds(c)
           \/ Remove(c) \/ Retract(c) \/ CloseReplaced(c) \/ \E e \in Event : Publish(c, e)
  <2>1. UNCHANGED <<watch, watcher>>
    BY <1>5 DEF Open, Summarize, UpdateMeta, SendMeta, StreamEnds, Remove, Retract,
                CloseReplaced, Publish, hubVars, watcherVars
  <2>2. QED
    BY <2>1 DEF Subscribed, WatcherStarted
<1>6. QED
  BY <1>2, <1>3, <1>4, <1>5 DEF AgentStep

\* A watcher subscribes as it starts and unsubscribes as it ends.
LEMMA WatcherSubscribed ==
  ASSUME RegistryInv, Subscribed, NEW h \in Conn, WatcherNext(h)
  PROVE  Subscribed'
<1>0. DOMAIN watcher = Conn /\ DOMAIN watch = Conn
  BY DEF RegistryInv, TypeInv, TypeOK
<1>1. CASE WatcherStarts(h)
  BY <1>0, <1>1 DEF WatcherStarts, WatcherGoto, WatchSubscribe, Subscribed, WatcherStarted
<1>2. CASE WatcherStops(h)
  BY <1>0, <1>2 DEF WatcherStops, WatcherGoto, WatchUnsubscribe, Subscribed, WatcherStarted
<1>3. CASE WatcherLags(h) \/ WatcherReceives(h) \/ WatcherSummarizes(h) \/ WatcherSends(h)
  BY <1>0, <1>3 DEF WatcherLags, WatcherReceives, WatcherSummarizes, WatcherSends, WatcherGoto,
                    watcherVars, hubVars, Subscribed, WatcherStarted
<1>4. QED
  BY <1>1, <1>2, <1>3 DEF WatcherNext

\* A handle retires when another replaces it or when unregister marks it.
LEMMA RetiringMarks ==
  ASSUME RegistryInv, Next, NEW h \in Conn, ~Retired(h), Retired(h)'
  PROVE  MarkDisconnected(h)
<1>0. DOMAIN pc = Conn /\ DOMAIN sid = Conn /\ DOMAIN taken = Conn
  BY DEF RegistryInv, TypeInv, TypeOK
<1>1. PICK c \in Conn : AgentStep(c) \/ CloseReplaced(c) \/ WatcherNext(c)
  BY DEF Next
<1>2. ASSUME NEW i \in Id, Register(c, i)
      PROVE  MarkDisconnected(h)
  <2>1. /\ pc' = [pc EXCEPT ![c] = "summing"] /\ sid' = [sid EXCEPT ![c] = i]
        /\ taken' = taken /\ pc[c] = "reading"
        /\ \A j \in DOMAIN sessions \cup {i} : sessions'[j] = IF j = i THEN c ELSE sessions[j]
        /\ DOMAIN sessions' = DOMAIN sessions \cup {i}
    BY <1>2 DEF Register, Goto, WithEntry
  <2>2. h # c /\ sid[h] # None
    BY <1>0, <2>1 DEF Retired, Registered
  <2>3. Registered(h)
    BY <1>0, <2>1, <2>2 DEF Retired
  <2>4. i \in DOMAIN sessions /\ sessions[i] = h
    BY <2>1, <2>2, <2>3 DEF Retired, Registered
  <2>5. QED
    BY <1>2, <2>4 DEF Register
<1>3. CASE Mark(c)
  <2>1. /\ pc' = [pc EXCEPT ![c] = "retracting"] /\ pc[c] = "marking"
        /\ UNCHANGED <<sessions, sid, taken>>
    BY <1>3 DEF Mark, Goto
  <2>2. taken[c] = h
    BY <1>0, <2>1 DEF Retired, Registered
  <2>3. QED
    BY <1>3, <2>2 DEF Mark
<1>4. CASE Remove(c)
  <2>1. CASE sid[c] \in DOMAIN sessions
    <3>1. /\ taken' = [taken EXCEPT ![c] = sessions[sid[c]]]
          /\ sessions' = [j \in DOMAIN sessions \ {sid[c]} |-> sessions[j]]
          /\ pc' = [pc EXCEPT ![c] = "marking"] /\ pc[c] = "stopping" /\ sid' = sid
      BY <1>4, <2>1 DEF Remove, Goto, WithoutEntry
    <3>2. h # sessions[sid[c]]
      BY <1>0, <3>1 DEF Retired
    <3>3. Registered(h)' <=> Registered(h)
      BY <3>1, <3>2 DEF Registered
    <3>4. \A d \in Conn : pc[d] = "marking" /\ taken[d] = h => pc'[d] = "marking" /\ taken'[d] = h
      BY <1>0, <3>1
    <3>5. QED
      BY <3>1, <3>3, <3>4 DEF Retired
  <2>2. CASE sid[c] \notin DOMAIN sessions
    <3>1. /\ UNCHANGED <<sessions, taken, sid>>
          /\ pc' = [pc EXCEPT ![c] = "ended"] /\ pc[c] = "stopping"
      BY <1>4, <2>2 DEF Remove, Goto
    <3>2. QED
      BY <1>0, <3>1 DEF Retired, Registered
  <2>3. QED
    BY <2>1, <2>2
<1>5. CASE \/ Open(c) \/ Summarize(c) \/ Announce(c) \/ UpdateMeta(c) \/ SendMeta(c)
           \/ StreamEnds(c) \/ Retract(c) \/ CloseReplaced(c) \/ WatcherNext(c)
           \/ \E e \in Event : Publish(c, e)
  <2>1. /\ UNCHANGED <<sessions, sid, taken>>
        /\ \A d \in Conn : pc[d] = "marking" => pc'[d] = "marking"
    BY <1>0, <1>5
       DEF Open, Summarize, Announce, UpdateMeta, SendMeta, StreamEnds, Retract, CloseReplaced,
           Publish, WatcherNext, WatcherStarts, WatcherStops, WatcherLags, WatcherReceives,
           WatcherSummarizes, WatcherSends, Goto, hubVars, agentVars
  <2>2. QED
    BY <2>1 DEF Retired, Registered
<1>6. QED
  BY <1>1, <1>2, <1>3, <1>4, <1>5 DEF AgentStep

\* Nobody has subscribed to a handle that no watcher serves yet.
LEMMA InitSubscribed == Init => Subscribed
BY DEF Init, Subscribed, WatcherStarted

\* A running watcher stays subscribed until it ends.
LEMMA StepSubscribed ==
  ASSUME RegistryInv, Subscribed, [Next]_vars
  PROVE  Subscribed'
<1>1. UNCHANGED vars => Subscribed'
  BY DEF vars, hubVars, agentVars, watcherVars, Subscribed, WatcherStarted
<1>2. QED
  BY <1>1, AgentSubscribed, WatcherSubscribed DEF Next

\* What RetirementIsNoticed says of one step.
Noticed ==
  \A h \in Conn :
    ~Retired(h) /\ Retired(h)' /\ watcher[h] \in {"watching", "updating", "sending"}
      => WatchChanged(watch[h], Watcher)'

\* A step that retires a handle marks it, which its watcher is there to see.
LEMMA StepNoticed ==
  ASSUME RegistryInv, Subscribed, Next
  PROVE  Noticed
<1>. SUFFICES ASSUME NEW h \in Conn, ~Retired(h), Retired(h)', WatcherStarted(h)
              PROVE  WatchChanged(watch'[h], Watcher)
  BY DEF Noticed, WatchChanged, WatcherStarted
<1>1. MarkDisconnected(h)
  BY RetiringMarks
<1>2. QED
  BY <1>1, MarkNotices DEF RegistryInv, TypeInv

\* The step that retires a handle leaves its running watcher a change to see
\* (RetirementIsNoticed).
THEOREM RetirementsNoticed == Spec => RetirementIsNoticed
<1>1. Spec => [](RegistryInv /\ Subscribed)
  BY InitSubscribed, StepSubscribed, RegistryCorrect, PTL DEF Spec
<1>2. RegistryInv /\ Subscribed /\ [Next]_vars => [Noticed]_vars
  BY StepNoticed
<1>3. Spec => [][Noticed]_vars
  BY <1>1, <1>2, PTL DEF Spec
<1>4. QED
  BY <1>3 DEF RetirementIsNoticed, Noticed
=============================================================================
