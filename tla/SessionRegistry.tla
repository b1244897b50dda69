--------------------------- MODULE SessionRegistry ---------------------------
(***************************************************************************)
(* The Hub's switchboard: the registry (registry.rs), the handles it holds *)
(* (session.rs) and the two kinds of task that change them, the reader of  *)
(* one /agent connection (server/agent.rs) and the passive status watcher  *)
(* of one registration.  Tasks run on tokio's multi-threaded runtime, so   *)
(* every step that does not hold the registry's lock interleaves.          *)
(*                                                                         *)
(* A handle is named by the connection that registered it: the extension   *)
(* sends one register frame per socket (hub-client.ts, "open" listener),   *)
(* so a connection creates at most one handle.                             *)
(*                                                                         *)
(* The modules that extend this one add the other tasks: the readers of    *)
(* /ws/control (ControlClients) and the phone bridges of /ws (PhoneBridge).*)
(* They subscribe to the channels declared here.                           *)
(***************************************************************************)
EXTENDS Channels, FiniteSets

CONSTANTS
  Conn,             \* /agent connections, and the handles they register
  Id,               \* session ids
  Phone,            \* subscribers of the control channel
  Bridge,           \* /ws bridges: subscribers of a handle
  Watcher,          \* the status watcher, as a subscriber of its handle
  None,             \* no value
  Event,            \* the pi events an extension may forward
  MaxEvents,        \* bound: events one connection forwards
  MaxRenames,       \* bound: meta updates one handle receives
  ControlCapacity,  \* CONTROL_CHANNEL_CAPACITY
  EventCapacity     \* EVENT_CHANNEL_CAPACITY

EventType == {"agent_start", "agent_settled", "message_end", "message_update"}

ASSUME NoneAssumption == None \notin Conn \cup Id
ASSUME WatcherAssumption == Watcher \notin Bridge
ASSUME BoundAssumption == MaxEvents \in Nat /\ MaxRenames \in Nat
ASSUME CapacityAssumption == ControlCapacity \in Nat \ {0} /\ EventCapacity \in Nat \ {0}
\* `preview' is what extract_preview makes of the event: None when it has no text.
ASSUME EventAssumption == \A e \in Event : e.type \in EventType /\ DOMAIN e = {"type", "preview"}

VARIABLES
  sessions,   \* SessionRegistry.sessions: present id -> handle
  control,    \* SessionRegistry.control_tx
  watch,      \* handle -> SessionHandle.connected
  events,     \* handle -> RemoteAgent.events_tx
  status,     \* handle -> SessionHandle.status
  meta,       \* handle -> SessionHandle.meta, as the number of patches applied
  pc,         \* connection -> where its reader task is
  sid,        \* connection -> the reader's session_id
  taken,      \* connection -> the handle its unregister removed
  draft,      \* connection -> the control frame it has built and not yet sent
  kick,       \* handle -> the shutdown() task spawned when it is replaced
  watcher,    \* handle -> where its status watcher is
  update,     \* handle -> the session_update its watcher has built
  published   \* connection -> events it has forwarded

hubVars == <<sessions, control, watch, events, status, meta>>
agentVars == <<pc, sid, taken, draft, kick, published>>
watcherVars == <<watcher, update>>
vars == <<hubVars, agentVars, watcherVars>>

-----------------------------------------------------------------------------
(* Data                                                                    *)

Preview == {e.preview : e \in Event} \cup {None}
Status == [streaming : BOOLEAN, preview : Preview]

Summary == [handle : Conn, meta : Nat, status : Status, connected : BOOLEAN]

UpsertType == {"session_connected", "session_update", "session_meta"}
Upsert == [type : UpsertType, id : Id, summary : Summary]
Disconnected == [type : {"session_disconnected"}, id : Id]
Frame == Upsert \cup Disconnected

\* SessionHandle::summary
SummaryOf(h) ==
  [handle |-> h, meta |-> meta[h], status |-> status[h], connected |-> watch[h].value]

UpsertFrame(type, h) == [type |-> type, id |-> sid[h], summary |-> SummaryOf(h)]

\* HashMap::insert and HashMap::remove on the registry's map.
\* Fault: an insert that leaves an entry that is there.
WithEntryIfAbsent(i, h) ==
  IF i \in DOMAIN sessions THEN sessions
  ELSE [j \in DOMAIN sessions \cup {i} |-> IF j = i THEN h ELSE sessions[j]]

WithEntry(i, h) ==
  [j \in DOMAIN sessions \cup {i} |-> IF j = i THEN h ELSE sessions[j]]

\* Fault: the whole map is cleared.
WithoutEntries(i) == [j \in {} |-> None]

WithoutEntry(i) == [j \in DOMAIN sessions \ {i} |-> sessions[j]]

Registered(h) == \E i \in DOMAIN sessions : sessions[i] = h

\* A task between the patch and the send of update_meta holds the sessions
\* lock for reading, so no task can take it for writing.
NoReadLock == \A c \in Conn : pc[c] # "patching"

AgentPc == {"idle", "reading", "summing", "announcing", "patching",
            "stopping", "marking", "retracting", "ended"}
WatcherPc == {"none", "spawned", "watching", "updating", "sending", "done"}
Kick == {"no", "spawned", "closing"}

Subscribers == {Watcher} \cup Bridge

TypeOK ==
  /\ DOMAIN sessions \subseteq Id
  /\ sessions \in [DOMAIN sessions -> Conn]
  /\ IsChannel(control, Phone, Frame)
  /\ DOMAIN watch = Conn
  /\ \A h \in Conn : IsWatch(watch[h], Subscribers)
  /\ DOMAIN events = Conn
  /\ \A h \in Conn : IsChannel(events[h], Subscribers, Event)
  /\ status \in [Conn -> Status]
  /\ meta \in [Conn -> 0..MaxRenames]
  /\ pc \in [Conn -> AgentPc]
  /\ sid \in [Conn -> Id \cup {None}]
  /\ taken \in [Conn -> Conn \cup {None}]
  /\ draft \in [Conn -> Frame \cup {None}]
  /\ kick \in [Conn -> Kick]
  /\ watcher \in [Conn -> WatcherPc]
  /\ update \in [Conn -> Frame \cup {None}]
  /\ published \in [Conn -> 0..MaxEvents]

Init ==
  /\ sessions = [i \in {} |-> None]
  /\ control = NoReceivers
  /\ watch = [h \in Conn |-> NewWatch(TRUE)]
  /\ events = [h \in Conn |-> NoReceivers]
  /\ status = [h \in Conn |-> [streaming |-> FALSE, preview |-> None]]
  /\ meta = [h \in Conn |-> 0]
  /\ pc = [c \in Conn |-> "idle"]
  /\ sid = [c \in Conn |-> None]
  /\ taken = [c \in Conn |-> None]
  /\ draft = [c \in Conn |-> None]
  /\ kick = [h \in Conn |-> "no"]
  /\ watcher = [h \in Conn |-> "none"]
  /\ update = [h \in Conn |-> None]
  /\ published = [c \in Conn |-> 0]

-----------------------------------------------------------------------------
(* The reader task of one /agent connection                                *)

Goto(c, label) == pc' = [pc EXCEPT ![c] = label]

\* mark_disconnected, on a handle
\* Fault: the handle to mark is looked up again by its id.
MarkById(h) ==
  LET current == IF sid[h] \in DOMAIN sessions THEN sessions[sid[h]] ELSE h IN
    watch' = [watch EXCEPT ![current] = WatchSend(@, FALSE)]

MarkDisconnected(h) == watch' = [watch EXCEPT ![h] = WatchSend(@, FALSE)]

\* control_tx.send
Broadcast(frame) == control' = Send(control, frame, ControlCapacity)

\* handler: the token was accepted and the socket upgraded.
Open(c) ==
  /\ pc[c] = "idle"
  /\ Goto(c, "reading")
  /\ UNCHANGED <<hubVars, watcherVars, sid, taken, draft, kick, published>>

\* A register frame, as far as the registry holds its write lock: the new
\* handle goes in and the one it replaces is marked and asked to shut down.
Register(c, i) ==
  /\ pc[c] = "reading" /\ sid[c] = None
  /\ NoReadLock
  /\ sessions' = WithEntry(i, c)
  /\ IF i \in DOMAIN sessions
     THEN /\ MarkDisconnected(sessions[i])
          /\ kick' = [kick EXCEPT ![sessions[i]] = "spawned"]
     ELSE UNCHANGED <<watch, kick>>
  /\ sid' = [sid EXCEPT ![c] = i]
  /\ Goto(c, "summing")
  /\ UNCHANGED <<control, events, status, meta, watcherVars, taken, draft, published>>

\* The rest of register: the summary is read with no lock held, ...
Summarize(c) ==
  /\ pc[c] = "summing"
  /\ draft' = [draft EXCEPT ![c] = UpsertFrame("session_connected", c)]
  /\ Goto(c, "announcing")
  /\ UNCHANGED <<hubVars, watcherVars, sid, taken, kick, published>>

\* ... sent, and the watcher is spawned.  Back in the reader's loop.
Announce(c) ==
  /\ pc[c] = "announcing"
  /\ Broadcast(draft[c])
  /\ draft' = [draft EXCEPT ![c] = None]
  /\ watcher' = [watcher EXCEPT ![c] = "spawned"]
  /\ Goto(c, "reading")
  /\ UNCHANGED <<sessions, watch, events, status, meta, update, sid, taken, kick, published>>

\* A meta_update frame: the patch goes to whatever handle is registered under
\* the id, and the read lock is held until the frame is sent.
UpdateMeta(c) ==
  /\ pc[c] = "reading"
  /\ sid[c] \in DOMAIN sessions
  /\ LET h == sessions[sid[c]] IN
       /\ meta[h] < MaxRenames
       /\ meta' = [meta EXCEPT ![h] = @ + 1]
       /\ draft' = [draft EXCEPT ![c] = [UpsertFrame("session_meta", h)
                                           EXCEPT !.summary.meta = meta[h] + 1]]
  /\ Goto(c, "patching")
  /\ UNCHANGED <<sessions, control, watch, events, status, watcherVars, sid, taken, kick, published>>

SendMeta(c) ==
  /\ pc[c] = "patching"
  /\ Broadcast(draft[c])
  /\ draft' = [draft EXCEPT ![c] = None]
  /\ Goto(c, "reading")
  /\ UNCHANGED <<sessions, watch, events, status, meta, watcherVars, sid, taken, kick, published>>

\* An event or response frame: published on whatever handle is registered
\* under the id.
Publish(c, e) ==
  /\ pc[c] = "reading"
  /\ sid[c] \in DOMAIN sessions
  /\ published[c] < MaxEvents
  /\ events' = [events EXCEPT ![sessions[sid[c]]] = Send(@, e, EventCapacity)]
  /\ published' = [published EXCEPT ![c] = @ + 1]
  /\ UNCHANGED <<sessions, control, watch, status, meta, pc, sid, taken, draft, kick, watcherVars>>

\* The stream ends: the peer closed or answered a Close, or the network failed.
\* Fault: a reader that ends does not unregister.
StreamFails(c) ==
  /\ pc[c] = "reading"
  /\ Goto(c, "ended")
  /\ UNCHANGED <<hubVars, watcherVars, sid, taken, draft, kick, published>>

StreamEnds(c) ==
  /\ pc[c] = "reading"
  /\ Goto(c, IF sid[c] = None THEN "ended" ELSE "stopping")
  /\ UNCHANGED <<hubVars, watcherVars, sid, taken, draft, kick, published>>

\* unregister, first step: whatever is registered under the id goes.
Remove(c) ==
  /\ pc[c] = "stopping"
  /\ NoReadLock
  /\ IF sid[c] \in DOMAIN sessions
     THEN /\ taken' = [taken EXCEPT ![c] = sessions[sid[c]]]
          /\ sessions' = WithoutEntry(sid[c])
          /\ Goto(c, "marking")
     ELSE /\ Goto(c, "ended")
          /\ UNCHANGED <<taken, sessions>>
  /\ UNCHANGED <<control, watch, events, status, meta, watcherVars, sid, draft, kick, published>>

\* Second step, the lock released: the removed handle is marked.
Mark(c) ==
  /\ pc[c] = "marking"
  /\ MarkDisconnected(taken[c])
  /\ Goto(c, "retracting")
  /\ UNCHANGED <<sessions, control, events, status, meta, watcherVars, sid, taken, draft, kick, published>>

\* Third step: the phones are told.
\* Fault: nobody is told.
RetractSilently(c) ==
  /\ pc[c] = "retracting"
  /\ Goto(c, "ended")
  /\ UNCHANGED <<hubVars, watcherVars, sid, taken, draft, kick, published>>

Retract(c) ==
  /\ pc[c] = "retracting"
  /\ Broadcast([type |-> "session_disconnected", id |-> sid[c]])
  /\ Goto(c, "ended")
  /\ UNCHANGED <<sessions, watch, events, status, meta, watcherVars, sid, taken, draft, kick, published>>

\* The task register spawned for the handle it replaced: a Close frame goes to
\* that connection's writer, which passes it on.
CloseReplaced(h) ==
  /\ kick[h] = "spawned"
  /\ kick' = [kick EXCEPT ![h] = "closing"]
  /\ UNCHANGED <<hubVars, watcherVars, pc, sid, taken, draft, published>>

-----------------------------------------------------------------------------
(* The status watcher of one handle                                        *)

WatcherGoto(h, label) == watcher' = [watcher EXCEPT ![h] = label]

\* watch_status runs for the first time: it misses what was sent before.
WatcherStarts(h) ==
  /\ watcher[h] = "spawned"
  /\ events' = [events EXCEPT ![h] = Subscribe(@, Watcher)]
  /\ watch' = [watch EXCEPT ![h] = WatchSubscribe(@, Watcher)]
  /\ WatcherGoto(h, "watching")
  /\ UNCHANGED <<sessions, control, status, meta, agentVars, update>>

\* connected.changed() is ready and the value is false: both receivers drop.
\* Fault: the test of the value is inverted.
WatcherStopsInverted(h) ==
  /\ watcher[h] = "watching"
  /\ WatchChanged(watch[h], Watcher) /\ watch[h].value
  /\ events' = [events EXCEPT ![h] = Unsubscribe(@, Watcher)]
  /\ watch' = [watch EXCEPT ![h] = WatchUnsubscribe(@, Watcher)]
  /\ WatcherGoto(h, "done")
  /\ UNCHANGED <<sessions, control, status, meta, agentVars, update>>

WatcherStops(h) ==
  /\ watcher[h] = "watching"
  /\ WatchChanged(watch[h], Watcher) /\ ~watch[h].value
  /\ events' = [events EXCEPT ![h] = Unsubscribe(@, Watcher)]
  /\ watch' = [watch EXCEPT ![h] = WatchUnsubscribe(@, Watcher)]
  /\ WatcherGoto(h, "done")
  /\ UNCHANGED <<sessions, control, status, meta, agentVars, update>>

WatcherLags(h) ==
  /\ watcher[h] = "watching"
  /\ Watcher \in DOMAIN events[h] /\ events[h][Watcher].lagged
  /\ events' = [events EXCEPT ![h] = LagReported(@, Watcher)]
  /\ UNCHANGED <<sessions, control, watch, status, meta, agentVars, watcherVars>>

\* handle_event on a status: the effect of one event.
After(s, e) ==
  CASE e.type = "agent_start"                        -> [s EXCEPT !.streaming = TRUE]
    [] e.type = "agent_settled"                      -> [s EXCEPT !.streaming = FALSE]
    [] e.type = "message_end" /\ e.preview # None    -> [s EXCEPT !.preview = e.preview]
    [] OTHER                                         -> s

\* Fault: a new preview alone is not announced.
StreamingChanged(old, new) == old.streaming # new.streaming

Changed(old, new) == old.streaming # new.streaming \/ old.preview # new.preview

\* handle_event, under the status lock.
WatcherReceives(h) ==
  /\ watcher[h] = "watching"
  /\ CanRecv(events[h], Watcher)
  /\ events' = [events EXCEPT ![h] = Received(@, Watcher)]
  /\ status' = [status EXCEPT ![h] = After(@, Head(events[h][Watcher].queue))]
  /\ WatcherGoto(h, IF Changed(status[h], status'[h]) THEN "updating" ELSE "watching")
  /\ UNCHANGED <<sessions, control, watch, meta, agentVars, update>>

\* Only a status that changed is announced: the status lock dropped, its
\* summary is read and then sent.
WatcherSummarizes(h) ==
  /\ watcher[h] = "updating"
  /\ update' = [update EXCEPT ![h] = UpsertFrame("session_update", h)]
  /\ WatcherGoto(h, "sending")
  /\ UNCHANGED <<hubVars, agentVars>>

WatcherSends(h) ==
  /\ watcher[h] = "sending"
  /\ Broadcast(update[h])
  /\ update' = [update EXCEPT ![h] = None]
  /\ WatcherGoto(h, "watching")
  /\ UNCHANGED <<sessions, watch, events, status, meta, agentVars>>

-----------------------------------------------------------------------------

AgentStep(c) ==
  \/ Open(c) \/ Summarize(c) \/ Announce(c)
  \/ UpdateMeta(c) \/ SendMeta(c)
  \/ StreamEnds(c) \/ Remove(c) \/ Mark(c) \/ Retract(c)
  \/ \E i \in Id : Register(c, i)
  \/ \E e \in Event : Publish(c, e)

WatcherNext(h) ==
  \/ WatcherStarts(h) \/ WatcherStops(h) \/ WatcherLags(h)
  \/ WatcherReceives(h) \/ WatcherSummarizes(h) \/ WatcherSends(h)

Next == \E c \in Conn : AgentStep(c) \/ CloseReplaced(c) \/ WatcherNext(c)

(* The runtime does not idle while a task can run.  That is all that is    *)
(* asked of it: with the bounds, every task has finitely many steps.  What *)
(* an extension sends and when its socket fails is its own affair, but a   *)
(* peer that is sent a Close answers it.                                   *)
AgentTask(c) ==
  Summarize(c) \/ Announce(c) \/ SendMeta(c) \/ Remove(c) \/ Mark(c) \/ Retract(c)

ClosesWhenAsked(c) == kick[c] = "closing" /\ StreamEnds(c)

HubTask(c) == AgentTask(c) \/ WatcherNext(c) \/ CloseReplaced(c) \/ ClosesWhenAsked(c)

Fairness == WF_vars(\E c \in Conn : HubTask(c))

Spec == Init /\ [][Next]_vars
FairSpec == Spec /\ Fairness

-----------------------------------------------------------------------------
(* Properties                                                              *)

\* Out of the registry for good, and past the mark its remover owes it.
Retired(h) ==
  /\ sid[h] # None /\ ~Registered(h)
  /\ ~ \E c \in Conn : pc[c] = "marking" /\ taken[c] = h

Serving(c) == pc[c] \in {"reading", "summing", "announcing", "patching"} /\ sid[c] # None

\* The registry offers live handles only: get, get_default and list never see one
\* that has been marked disconnected, though register marks the handle it
\* replaces and unregister marks after it has let go of the lock, nor one whose
\* reader is past the removal in unregister.
EntriesLive ==
  \A i \in DOMAIN sessions :
    LET h == sessions[i] IN
      watch[h].value /\ pc[h] \notin {"marking", "retracting", "ended"}

\* A connection that is up and has registered is missing from the registry only
\* if another connection has used its session id: no other task can unlist it.
MissingOnlyIfShared ==
  \A c \in Conn : Serving(c) /\ ~Registered(c)
                    => \E d \in Conn \ {c} : sid[d] = sid[c]

\* No handle leaves the registry for good behind the back of a running watcher:
\* the step that retires it, a replacement or the mark of an unregister, leaves
\* the watcher a change to see, whoever else listens to the handle.
RetirementIsNoticed ==
  [][\A h \in Conn :
       ~Retired(h) /\ Retired(h)' /\ watcher[h] \in {"watching", "updating", "sending"}
         => WatchChanged(watch[h], Watcher)']_vars

\* The registry is a directory: a handle is entered once and, replaced or
\* removed, never comes back.
Directory == INSTANCE SessionDirectory WITH
  Handle <- Conn, listed <- sessions, entered <- {c \in Conn : sid[c] # None}
ImplementsDirectory == Directory!DirectorySpec

\* What the liveness properties speak of, here and in the modules that extend this
\* one, begins at most once and, once over, is over for good.  That it is over in
\* the end (<>[]) then says what a leads-to would, and TLC checks it at less cost.

\* A replaced connection does not linger: asked to close, it runs its own
\* unregister to the end.
ReplacedConnectionEnds == \A c \in Conn : <>[](kick[c] # "no" => pc[c] = "ended")

\* A watcher that was running when its handle was marked ends, whatever its event
\* channel still holds.
WatcherEnds == \A h \in Conn : <>[](watcher[h] = "done" \/ ~WatchChanged(watch[h], Watcher))

\* What the documentation says, and the code does not do.

\* tests/agent_bridge.rs: after a duplicate registration "the surviving
\* registration" is the one the registry lists.  A connection nobody replaced is
\* listed for as long as it is up.
SurvivorStaysListed == \A c \in Conn : Serving(c) /\ kick[c] = "no" => Registered(c)
=============================================================================
