----------------------------- MODULE PhoneBridge -----------------------------
(***************************************************************************)
(* The chat connections of the phones: the handler and the bridge of /ws   *)
(* (server/ws.rs), the writer task of an /agent connection that carries    *)
(* the phones' commands to the extension (server/agent.rs,                 *)
(* rpc/remote_agent.rs), composed with the registry and its tasks.         *)
(*                                                                         *)
(* A bridge is two tasks: the reader, which owns the connection, and the   *)
(* forwarder it spawns.  It is bound to a handle, not to a session id.     *)
(***************************************************************************)
EXTENDS SessionRegistry

CONSTANTS
  Ack,           \* the `registered' frame on the way to an extension
  Close,         \* the Close frame
  MaxCommands    \* bound: commands one phone sends

ASSUME FrameAssumption == Ack # Close /\ {Ack, Close} \cap (Bridge \X Nat) = {}
ASSUME CommandAssumption == MaxCommands \in Nat

VARIABLES
  bridge,    \* bridge -> where its connection is
  target,    \* bridge -> the handle it was given
  forward,   \* bridge -> its forwarding task
  said,      \* bridge -> commands its phone has sent
  outbox,    \* connection -> frames handed to its writer (RemoteAgent.to_agent)
  writer,    \* connection -> its writer task
  heard      \* connection -> commands its extension has received (history)

bridgeVars == <<bridge, target, forward, said>>
writerVars == <<outbox, writer, heard>>
allVars == <<vars, bridgeVars, writerVars>>

Command == Bridge \X (1..MaxCommands)

\* "broken": a send to the phone failed, which the reader has not noticed.
BridgePc == {"off", "upgrading", "open", "broken", "closed"}
ForwardPc == {"none", "running", "aborting", "ended"}
\* "closing": it has written a Close; "dead": it ended and its queue is dropped.
WriterPc == {"running", "closing", "dead"}

BridgeTypeOK ==
  /\ TypeOK
  /\ bridge \in [Bridge -> BridgePc]
  /\ target \in [Bridge -> Conn \cup {None}]
  /\ forward \in [Bridge -> ForwardPc]
  /\ said \in [Bridge -> 0..MaxCommands]
  /\ outbox \in [Conn -> Seq(Command \cup {Ack, Close})]
  /\ writer \in [Conn -> WriterPc]
  /\ heard \in [Conn -> SUBSET Command]

BridgeInit ==
  /\ Init
  /\ bridge = [b \in Bridge |-> "off"]
  /\ target = [b \in Bridge |-> None]
  /\ forward = [b \in Bridge |-> "none"]
  /\ said = [b \in Bridge |-> 0]
  /\ outbox = [c \in Conn |-> <<>>]
  /\ writer = [c \in Conn |-> "running"]
  /\ heard = [c \in Conn |-> {}]

-----------------------------------------------------------------------------
(* /ws                                                                     *)

\* SessionRegistry::get and get_default: ?session= given or not.
Get(i) == IF i \in DOMAIN sessions THEN {sessions[i]} ELSE {}
GetDefault == IF Cardinality(DOMAIN sessions) = 1
              THEN {sessions[i] : i \in DOMAIN sessions} ELSE {}

\* handler: the handle is looked up before the socket is upgraded.
Lookup(b) ==
  /\ bridge[b] = "off"
  /\ \E h \in (UNION {Get(i) : i \in Id}) \cup GetDefault :
       target' = [target EXCEPT ![b] = h]
  /\ bridge' = [bridge EXCEPT ![b] = "upgrading"]
  /\ UNCHANGED <<vars, forward, said, writerVars>>

\* bridge: the socket is up; both subscriptions, then the forwarder.
BridgeStarts(b) ==
  /\ bridge[b] = "upgrading"
  /\ bridge' = [bridge EXCEPT ![b] = "open"]
  /\ forward' = [forward EXCEPT ![b] = "running"]
  /\ events' = [events EXCEPT ![target[b]] = Subscribe(@, b)]
  /\ watch' = [watch EXCEPT ![target[b]] = WatchSubscribe(@, b)]
  /\ UNCHANGED <<sessions, control, status, meta, agentVars, watcherVars,
                 target, said, writerVars>>

\* The forwarder's receivers go with it.
DropForwarder(b) ==
  /\ forward' = [forward EXCEPT ![b] = "ended"]
  /\ events' = [events EXCEPT ![target[b]] = Unsubscribe(@, b)]
  /\ watch' = [watch EXCEPT ![target[b]] = WatchUnsubscribe(@, b)]
  /\ UNCHANGED <<sessions, control, status, meta, agentVars, watcherVars>>

\* A task that was aborted may go on until its next await.
Forwarding(b) == forward[b] \in {"running", "aborting"}

\* The reader's loop goes on: it waits on the socket only.
Reading(b) == bridge[b] \in {"open", "broken"}

\* The forwarder sends one event to the phone, or notes that it lagged.
ForwardEvent(b) ==
  /\ Forwarding(b)
  /\ \/ /\ CanRecv(events[target[b]], b)
        /\ events' = [events EXCEPT ![target[b]] = Received(@, b)]
     \/ /\ events[target[b]][b].lagged
        /\ events' = [events EXCEPT ![target[b]] = LagReported(@, b)]
  /\ UNCHANGED <<sessions, control, watch, status, meta, agentVars, watcherVars,
                 bridgeVars, writerVars>>

\* The phone's socket is lost and refuses the event: the forwarder ends.  The
\* reader stays.
ForwardFails(b) ==
  /\ Forwarding(b)
  /\ CanRecv(events[target[b]], b)
  /\ DropForwarder(b)
  /\ bridge' = [bridge EXCEPT ![b] = IF @ = "open" THEN "broken" ELSE @]
  /\ UNCHANGED <<target, said, writerVars>>

\* The forwarder sees the session disconnect and ends.  The socket, and the
\* reader, stay.
\* Fault: the test of the value is inverted.
ForwardStopsInverted(b) ==
  /\ Forwarding(b)
  /\ WatchChanged(watch[target[b]], b) /\ watch[target[b]].value
  /\ DropForwarder(b)
  /\ UNCHANGED <<bridge, target, said, writerVars>>

ForwardStops(b) ==
  /\ Forwarding(b)
  /\ WatchChanged(watch[target[b]], b) /\ ~watch[target[b]].value
  /\ DropForwarder(b)
  /\ UNCHANGED <<bridge, target, said, writerVars>>

\* The reader hands one command to the writer of the handle's connection.  An
\* error is only logged.
\* Fault: a queue of one, and a command that finds it full is dropped.
PhoneCommandsBounded(b) ==
  /\ Reading(b)
  /\ said[b] < MaxCommands
  /\ said' = [said EXCEPT ![b] = @ + 1]
  /\ outbox' = IF writer[target[b]] = "dead" \/ outbox[target[b]] # <<>> THEN outbox
               ELSE [outbox EXCEPT ![target[b]] = Append(@, <<b, said[b] + 1>>)]
  /\ UNCHANGED <<vars, bridge, target, forward, writer, heard>>

PhoneCommands(b) ==
  /\ Reading(b)
  /\ said[b] < MaxCommands
  /\ said' = [said EXCEPT ![b] = @ + 1]
  /\ outbox' = IF writer[target[b]] = "dead" THEN outbox
               ELSE [outbox EXCEPT ![target[b]] = Append(@, <<b, said[b] + 1>>)]
  /\ UNCHANGED <<vars, bridge, target, forward, writer, heard>>

\* The stream of the phone's frames ends: the reader ends and aborts the
\* forwarder.
\* Fault: the forwarder is not aborted.
PhoneClosesOnly(b) ==
  /\ Reading(b)
  /\ bridge' = [bridge EXCEPT ![b] = "closed"]
  /\ UNCHANGED <<vars, forward, target, said, writerVars>>

PhoneCloses(b) ==
  /\ Reading(b)
  /\ bridge' = [bridge EXCEPT ![b] = "closed"]
  /\ forward' = [forward EXCEPT ![b] = IF @ = "running" THEN "aborting" ELSE @]
  /\ UNCHANGED <<vars, target, said, writerVars>>

\* The runtime carries out the abort.
ForwardAborts(b) ==
  /\ forward[b] = "aborting"
  /\ DropForwarder(b)
  /\ UNCHANGED <<bridge, target, said, writerVars>>

-----------------------------------------------------------------------------
(* The writer task of an /agent connection                                 *)

\* Fault: the Close is taken for a command.
WriterSendsAll(c) ==
  /\ writer[c] = "running" /\ outbox[c] # <<>>
  /\ heard' = [heard EXCEPT ![c] = @ \cup ({Head(outbox[c])} \ {Ack})]
  /\ outbox' = [outbox EXCEPT ![c] = Tail(@)]
  /\ UNCHANGED <<vars, bridgeVars, writer>>

\* A frame is written to the socket.
WriterSends(c) ==
  /\ writer[c] = "running" /\ outbox[c] # <<>>
  /\ heard' = [heard EXCEPT ![c] = @ \cup ({Head(outbox[c])} \cap Command)]
  /\ writer' = [writer EXCEPT ![c] = IF Head(outbox[c]) = Close THEN "closing" ELSE @]
  /\ outbox' = [outbox EXCEPT ![c] = Tail(@)]
  /\ UNCHANGED <<vars, bridgeVars>>

\* The socket refuses a frame, because a Close was written or the connection is
\* lost: the task ends, and what it still held is lost although send() took it.
WriterFails(c) ==
  /\ writer[c] # "dead" /\ outbox[c] # <<>>
  /\ writer' = [writer EXCEPT ![c] = "dead"]
  /\ outbox' = [outbox EXCEPT ![c] = <<>>]
  /\ UNCHANGED <<vars, bridgeVars, heard>>

\* RemoteAgent::close, run by the task register spawned: the Close is queued
\* behind the frames already handed over.
\* Fault: the task ends without it.
QueueNothing(h) == CloseReplaced(h) /\ UNCHANGED writerVars

QueueClose(h) ==
  /\ CloseReplaced(h)
  /\ outbox' = IF writer[h] = "dead" THEN outbox
               ELSE [outbox EXCEPT ![h] = Append(@, Close)]
  /\ UNCHANGED <<writer, heard>>

\* A step of the registry's tasks, and what it does to the writer: the reader
\* acknowledges once register has returned; when it ends it aborts its writer, and
\* what the writer had not sent is lost.
Reader(c, step) ==
  /\ step
  /\ CASE pc[c] = "announcing" /\ pc'[c] = "reading" /\ writer[c] # "dead" ->
             outbox' = [outbox EXCEPT ![c] = Append(@, Ack)] /\ UNCHANGED writer
       [] pc[c] # "ended" /\ pc'[c] = "ended" ->
             outbox' = [outbox EXCEPT ![c] = <<>>] /\ writer' = [writer EXCEPT ![c] = "dead"]
       [] OTHER -> UNCHANGED <<outbox, writer>>
  /\ UNCHANGED heard

RegistryStep(c) == Reader(c, AgentStep(c) \/ WatcherNext(c))

-----------------------------------------------------------------------------

BridgeTask(b) ==
  BridgeStarts(b) \/ ForwardEvent(b) \/ ForwardFails(b) \/ ForwardStops(b) \/ ForwardAborts(b)

BridgeNext ==
  \/ \E c \in Conn : /\ RegistryStep(c) \/ QueueClose(c)
                     /\ UNCHANGED bridgeVars
  \/ \E c \in Conn : WriterSends(c) \/ WriterFails(c)
  \/ \E b \in Bridge : BridgeTask(b) \/ Lookup(b) \/ PhoneCommands(b) \/ PhoneCloses(b)

\* As in SessionRegistry; the peer answers a Close that was written, and a socket
\* that refused a frame has nothing more to read.
Answers(c) == writer[c] # "running" /\ StreamEnds(c)

BridgeFairness ==
  WF_allVars(\/ \E c \in Conn :
                  /\ Reader(c, AgentTask(c) \/ WatcherNext(c) \/ Answers(c)) \/ QueueClose(c)
                  /\ UNCHANGED bridgeVars
             \/ \E c \in Conn : WriterSends(c) \/ WriterFails(c)
             \/ \E b \in Bridge : BridgeTask(b))

BridgeSpec == BridgeInit /\ [][BridgeNext]_allVars
FairBridgeSpec == BridgeSpec /\ BridgeFairness

-----------------------------------------------------------------------------
(* Properties                                                              *)

\* No deaf bridge: as long as the handle of an open bridge is registered and no
\* send to its phone has failed, its forwarder runs and is subscribed to the
\* handle, so the phone is sent every event published from then on (or is told to
\* have lagged).
OpenBridgeHears ==
  \A b \in Bridge :
    bridge[b] = "open" /\ Registered(target[b])
      => forward[b] = "running" /\ b \in DOMAIN events[target[b]]

\* A bridge leaves no receiver behind: what is subscribed to a handle belongs to a
\* bridge whose reader goes on, or whose forwarder has been told to stop.
NoLeakedReceiver ==
  \A h \in Conn, b \in Bridge :
    b \in DOMAIN events[h] \cup DOMAIN watch[h].unseen
      => target[b] = h /\ (Reading(b) \/ forward[b] = "aborting")

\* The n-th command of b is on its way to a session that is neither replaced nor
\* closed.
Awaited(b, n) ==
  \E c \in Conn :
    said[b] >= n /\ target[b] = c /\ Registered(c) /\ <<b, n>> \notin heard[c]

\* A command the Hub accepted for such a session reaches that session's extension,
\* unless the session is replaced or closes first: no command is on its way for
\* ever.
CommandArrives == \A b \in Bridge, n \in 1..MaxCommands : <>[]~Awaited(b, n)

\* A forwarder stops, and its receivers are dropped, when it was subscribed at the
\* time its handle was marked, or when its phone has gone.
ForwarderStops ==
  \A b \in Bridge :
    <>[](bridge[b] = "closed" \/ (Forwarding(b) /\ WatchChanged(watch[target[b]], b))
           => forward[b] = "ended")
=============================================================================
