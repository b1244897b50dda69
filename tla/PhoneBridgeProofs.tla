-------------------------- MODULE PhoneBridgeProofs --------------------------
(***************************************************************************)
(* Theorems about PhoneBridge: what the registry promises it keeps with    *)
(* bridges and writers beside it, and what a bridge has of its handle.     *)
(* They hold for every number of connections, ids, bridges and commands.   *)
(*                                                                         *)
(* A step of PhoneBridge is a step of the registry, or one of a bridge     *)
(* that subscribes to a handle or leaves it, which the invariant of the    *)
(* registry does not notice (Listening), or one of a writer.  Attached     *)
(* says what a bridge and the channels of its handle know of each other.   *)
(***************************************************************************)
EXTENDS PhoneBridge, SessionRegistryProofs

\* Whether b is a receiver of the events and of the state of handle h.
Hears(b, h) == b \in DOMAIN events[h] /\ b \in DOMAIN watch[h].unseen

\* A bridge that has its forwarder hears its handle; one that lost it, and could
\* send all it had, saw the handle marked, which is for good.  Nobody else is a
\* receiver.
Attached ==
  /\ \A b \in Bridge : bridge[b] # "off" => target[b] \in Conn
  /\ \A b \in Bridge : Forwarding(b) => Hears(b, target[b])
  /\ \A b \in Bridge : forward[b] = "running" => Reading(b)
  /\ \A b \in Bridge : forward[b] = "aborting" => bridge[b] = "closed"
  /\ \A b \in Bridge :
       bridge[b] = "open" /\ forward[b] # "running" => ~watch[target[b]].value
  /\ \A h \in Conn, b \in Bridge :
       b \in DOMAIN events[h] \cup DOMAIN watch[h].unseen => Forwarding(b) /\ target[b] = h

BridgeInv == BridgeTypeOK /\ RegistryInv /\ Subscribed /\ Attached

-----------------------------------------------------------------------------
(* Bridges and the registry                                                *)

\* A bridge that subscribes, receives or leaves changes nothing the registry's
\* invariant is about: no value of a handle, and no watcher's subscription.
LEMMA Listening ==
  ASSUME RegistryInv, Subscribed, NEW h \in Conn, NEW ch, NEW w,
         IsChannel(ch, Subscribers, Event), IsWatch(w, Subscribers),
         w.value = watch[h].value,
         Watcher \in DOMAIN watch[h].unseen => Watcher \in DOMAIN w.unseen,
         DOMAIN events' = Conn, \A g \in Conn : events'[g] = IF g = h THEN ch ELSE events[g],
         DOMAIN watch' = Conn, \A g \in Conn : watch'[g] = IF g = h THEN w ELSE watch[g],
         UNCHANGED <<sessions, control, status, meta, agentVars, watcherVars>>
  PROVE  RegistryInv' /\ Subscribed'
<1>1. /\ DOMAIN watch' = Conn /\ DOMAIN events' = Conn
      /\ \A g \in Conn : IsWatch(watch'[g], Subscribers) /\ IsChannel(events'[g], Subscribers, Event)
      /\ \A g \in Conn : watch'[g].value = watch[g].value
  BY DEF RegistryInv, TypeInv, TypeOK
<1>2. TypeOK'
  BY <1>1 DEF RegistryInv, TypeInv, TypeOK, agentVars, watcherVars
<1>3. Locals'
  BY DEF RegistryInv, TypeInv, Locals, agentVars, watcherVars
<1>4. Bookkeeping'
  BY <1>1, Undisturbed DEF RegistryInv, agentVars
<1>5. Subscribed'
  BY DEF RegistryInv, TypeInv, TypeOK, Subscribed, WatcherStarted, watcherVars
<1>6. QED
  BY <1>2, <1>3, <1>4, <1>5 DEF RegistryInv, TypeInv

\* The registry's invariant is about the registry's variables alone.
LEMMA RegistryApart ==
  ASSUME RegistryInv, Subscribed, UNCHANGED vars
  PROVE  RegistryInv' /\ Subscribed'
BY StepRegistry, StepSubscribed

\* No task of the registry subscribes a bridge or drops its receivers, and a
\* handle that is marked stays marked.
LEMMA RegistrySteps ==
  ASSUME RegistryInv, Subscribed, NEW c \in Conn,
         AgentStep(c) \/ CloseReplaced(c) \/ WatcherNext(c)
  PROVE  \A h \in Conn :
           /\ \A b \in Bridge : /\ b \in DOMAIN events'[h] <=> b \in DOMAIN events[h]
                                /\ b \in DOMAIN watch'[h].unseen <=> b \in DOMAIN watch[h].unseen
           /\ ~watch[h].value => ~watch'[h].value
<1>1. DOMAIN watch = Conn /\ DOMAIN events = Conn /\ Watcher \notin Bridge
  BY WatcherAssumption DEF RegistryInv, TypeInv, TypeOK
<1>2. ASSUME NEW g \in Conn, MarkDisconnected(g), events' = events
      PROVE  \A h \in Conn :
               /\ DOMAIN events'[h] = DOMAIN events[h]
               /\ DOMAIN watch'[h].unseen = DOMAIN watch[h].unseen
               /\ ~watch[h].value => ~watch'[h].value
  BY <1>1, <1>2 DEF MarkDisconnected, WatchSend
<1>3. ASSUME NEW i \in Id, Register(c, i)
      PROVE  \/ UNCHANGED <<watch, events>>
             \/ \E g \in Conn : MarkDisconnected(g) /\ events' = events
  BY <1>3 DEF Register, RegistryInv, TypeInv, TypeOK
<1>4. CASE Mark(c)
  BY <1>2, <1>4 DEF Mark, RegistryInv, TypeInv, Locals
<1>5. ASSUME NEW e \in Event, Publish(c, e)
      PROVE  watch' = watch /\ \A h \in Conn : DOMAIN events'[h] = DOMAIN events[h]
  BY <1>1, <1>5 DEF Publish, Send
<1>6. CASE \/ Open(c) \/ Summarize(c) \/ Announce(c) \/ UpdateMeta(c) \/ SendMeta(c)
           \/ StreamEnds(c) \/ Remove(c) \/ Retract(c) \/ CloseReplaced(c)
  BY <1>6 DEF Open, Summarize, Announce, UpdateMeta, SendMeta, StreamEnds, Remove, Retract,
              CloseReplaced, hubVars
<1>7. CASE WatcherStarts(c)
  BY <1>1, <1>7 DEF WatcherStarts, Subscribe, WatchSubscribe
<1>8. CASE WatcherStops(c)
  BY <1>1, <1>8 DEF WatcherStops, Unsubscribe, WatchUnsubscribe
<1>9. CASE WatcherLags(c) \/ WatcherReceives(c)
  BY <1>1, <1>9 DEF WatcherLags, WatcherReceives, LagReported, Received
<1>10. CASE WatcherSummarizes(c) \/ WatcherSends(c)
  BY <1>10 DEF WatcherSummarizes, WatcherSends, hubVars
<1>11. QED
  BY <1>2, <1>3, <1>4, <1>5, <1>6, <1>7, <1>8, <1>9, <1>10 DEF AgentStep, WatcherNext

-----------------------------------------------------------------------------
(* The steps of a bridge                                                   *)

\* The channels of a handle stay well typed, and its watcher their receiver,
\* when a bridge subscribes, receives, lags or leaves.
LEMMA ListenerType ==
  ASSUME RegistryInv, NEW h \in Conn, NEW b \in Bridge
  PROVE  /\ IsChannel(Subscribe(events[h], b), Subscribers, Event)
         /\ IsChannel(Unsubscribe(events[h], b), Subscribers, Event)
         /\ CanRecv(events[h], b) => IsChannel(Received(events[h], b), Subscribers, Event)
         /\ b \in DOMAIN events[h] => IsChannel(LagReported(events[h], b), Subscribers, Event)
         /\ \A w \in {WatchSubscribe(watch[h], b), WatchUnsubscribe(watch[h], b)} :
              /\ IsWatch(w, Subscribers) /\ w.value = watch[h].value
              /\ Watcher \in DOMAIN watch[h].unseen => Watcher \in DOMAIN w.unseen
<1>1. /\ b \in Subscribers /\ b # Watcher
      /\ IsChannel(events[h], Subscribers, Event) /\ IsWatch(watch[h], Subscribers)
  BY WatcherAssumption DEF Subscribers, RegistryInv, TypeInv, TypeOK
<1>2. /\ Watcher \in DOMAIN watch[h].unseen => Watcher \in DOMAIN WatchSubscribe(watch[h], b).unseen
      /\ Watcher \in DOMAIN watch[h].unseen => Watcher \in DOMAIN WatchUnsubscribe(watch[h], b).unseen
  BY <1>1 DEF WatchSubscribe, WatchUnsubscribe
<1>3. QED
  BY <1>1, <1>2, ReceiverType, WatchType

\* A bridge that leaves its handle: both receivers are gone, nobody else's is.
LEMMA Dropping ==
  ASSUME BridgeInv, NEW b \in Bridge, Forwarding(b), DropForwarder(b)
  PROVE  /\ RegistryInv' /\ Subscribed'
         /\ \A h \in Conn, a \in Bridge :
              /\ a \in DOMAIN events'[h] <=> a \in DOMAIN events[h] /\ ~(a = b /\ h = target[b])
              /\ a \in DOMAIN watch'[h].unseen
                   <=> a \in DOMAIN watch[h].unseen /\ ~(a = b /\ h = target[b])
         /\ \A h \in Conn : watch'[h].value = watch[h].value
<1> DEFINE h == target[b]
<1>1. h \in Conn /\ RegistryInv /\ Subscribed
  BY DEF BridgeInv, Attached, Forwarding, Reading
<1>2. /\ events' = [events EXCEPT ![h] = Unsubscribe(events[h], b)]
      /\ watch' = [watch EXCEPT ![h] = WatchUnsubscribe(watch[h], b)]
      /\ UNCHANGED <<sessions, control, status, meta, agentVars, watcherVars>>
  BY DEF DropForwarder
<1>3. DOMAIN events = Conn /\ DOMAIN watch = Conn
  BY <1>1 DEF RegistryInv, TypeInv, TypeOK
<1>4. RegistryInv' /\ Subscribed'
  BY <1>1, <1>2, <1>3, ListenerType, Listening
<1>5. /\ \A a \in Bridge : a \in DOMAIN Unsubscribe(events[h], b) <=> a \in DOMAIN events[h] /\ a # b
      /\ \A a \in Bridge : a \in DOMAIN WatchUnsubscribe(watch[h], b).unseen
                             <=> a \in DOMAIN watch[h].unseen /\ a # b
      /\ WatchUnsubscribe(watch[h], b).value = watch[h].value
  BY DEF Unsubscribe, WatchUnsubscribe
<1>6. QED
  BY <1>1, <1>2, <1>3, <1>4, <1>5

\* handler: the handle a bridge is given was registered.
LEMMA LookupKeeps ==
  ASSUME BridgeInv, NEW b \in Bridge, Lookup(b)
  PROVE  BridgeInv'
<1>1. PICK h \in Conn : target' = [target EXCEPT ![b] = h]
  <2>1. \A i \in DOMAIN sessions : sessions[i] \in Conn
    BY DEF BridgeInv, BridgeTypeOK, TypeOK
  <2>2. (UNION {Get(i) : i \in Id}) \cup GetDefault \subseteq Conn
    BY <2>1 DEF Get, GetDefault
  <2>3. QED
    BY <2>2 DEF Lookup
<1>2. /\ bridge[b] = "off" /\ bridge' = [bridge EXCEPT ![b] = "upgrading"]
      /\ UNCHANGED <<vars, forward, said, writerVars>>
  BY DEF Lookup
<1>3. RegistryInv' /\ Subscribed'
  BY <1>2, RegistryApart DEF BridgeInv
<1>4. BridgeTypeOK'
  BY <1>1, <1>2, <1>3
     DEF BridgeInv, BridgeTypeOK, RegistryInv, TypeInv, BridgePc, writerVars
<1>5. Attached'
  <2>1. ~Forwarding(b)
    BY <1>2 DEF BridgeInv, Attached, Forwarding, Reading
  <2>2. /\ bridge'[b] = "upgrading" /\ target'[b] = h
        /\ \A a \in Bridge : a # b => bridge'[a] = bridge[a] /\ target'[a] = target[a]
    BY <1>1, <1>2 DEF BridgeInv, BridgeTypeOK
  <2>3. events' = events /\ watch' = watch /\ forward' = forward
    BY <1>2 DEF vars, hubVars
  <2>4. QED
    BY <2>1, <2>2, <2>3 DEF BridgeInv, Attached, Hears, Forwarding, Reading
<1>6. QED
  BY <1>3, <1>4, <1>5 DEF BridgeInv

\* bridge: from here on it hears its handle, marked or not.
LEMMA StartKeeps ==
  ASSUME BridgeInv, NEW b \in Bridge, BridgeStarts(b)
  PROVE  BridgeInv'
<1> DEFINE h == target[b]
<1>1. /\ bridge[b] = "upgrading" /\ bridge' = [bridge EXCEPT ![b] = "open"]
      /\ forward' = [forward EXCEPT ![b] = "running"]
      /\ events' = [events EXCEPT ![h] = Subscribe(events[h], b)]
      /\ watch' = [watch EXCEPT ![h] = WatchSubscribe(watch[h], b)]
      /\ UNCHANGED <<sessions, control, status, meta, agentVars, watcherVars>>
      /\ UNCHANGED <<target, said, writerVars>>
  BY DEF BridgeStarts
<1>2. h \in Conn /\ RegistryInv /\ Subscribed
  BY <1>1 DEF BridgeInv, Attached, Forwarding, Reading
<1>3. DOMAIN events = Conn /\ DOMAIN watch = Conn
  BY <1>2 DEF RegistryInv, TypeInv, TypeOK
<1>4. RegistryInv' /\ Subscribed'
  BY <1>1, <1>2, <1>3, ListenerType, Listening
<1>5. BridgeTypeOK'
  BY <1>1, <1>4
     DEF BridgeInv, BridgeTypeOK, RegistryInv, TypeInv, BridgePc, ForwardPc, writerVars
<1>6. /\ DOMAIN Subscribe(events[h], b) = DOMAIN events[h] \cup {b}
      /\ DOMAIN WatchSubscribe(watch[h], b).unseen = DOMAIN watch[h].unseen \cup {b}
      /\ WatchSubscribe(watch[h], b).value = watch[h].value
  BY DEF Subscribe, WatchSubscribe
<1>7. /\ \A g \in Conn, a \in Bridge :
           /\ a \in DOMAIN events'[g] <=> a \in DOMAIN events[g] \/ (a = b /\ g = h)
           /\ a \in DOMAIN watch'[g].unseen <=> a \in DOMAIN watch[g].unseen \/ (a = b /\ g = h)
      /\ \A g \in Conn : watch'[g].value = watch[g].value
  BY <1>1, <1>2, <1>3, <1>6
<1>8. Attached'
  <2>1. /\ bridge'[b] = "open" /\ forward'[b] = "running" /\ target' = target
        /\ \A a \in Bridge : a # b => bridge'[a] = bridge[a] /\ forward'[a] = forward[a]
    BY <1>1 DEF BridgeInv, BridgeTypeOK
  <2>2. QED
    BY <1>2, <1>7, <2>1 DEF BridgeInv, Attached, Hears, Forwarding, Reading
<1>9. QED
  BY <1>4, <1>5, <1>8 DEF BridgeInv

\* The forwarder takes an event, or notes that it lagged, and stays a receiver.
LEMMA ForwardKeeps ==
  ASSUME BridgeInv, NEW b \in Bridge, ForwardEvent(b)
  PROVE  BridgeInv'
<1> DEFINE h == target[b]
<1>1. /\ Forwarding(b) /\ h \in Conn /\ b \in DOMAIN events[h]
      /\ RegistryInv /\ Subscribed
  BY DEF ForwardEvent, BridgeInv, Attached, Hears, Forwarding, Reading
<1>2. PICK ch : /\ events' = [events EXCEPT ![h] = ch]
                /\ IsChannel(ch, Subscribers, Event) /\ DOMAIN ch = DOMAIN events[h]
  <2>1. CASE CanRecv(events[h], b) /\ events' = [events EXCEPT ![h] = Received(events[h], b)]
    <3>1. DOMAIN Received(events[h], b) = DOMAIN events[h]
      BY <1>1 DEF Received, RegistryInv, TypeInv, TypeOK, IsChannel
    <3>2. IsChannel(Received(events[h], b), Subscribers, Event)
      BY <1>1, <2>1, ListenerType
    <3>3. QED
      BY <2>1, <3>1, <3>2
  <2>2. CASE events' = [events EXCEPT ![h] = LagReported(events[h], b)]
    <3>1. DOMAIN LagReported(events[h], b) = DOMAIN events[h]
      BY <1>1 DEF LagReported, RegistryInv, TypeInv, TypeOK, IsChannel
    <3>2. IsChannel(LagReported(events[h], b), Subscribers, Event)
      BY <1>1, ListenerType
    <3>3. QED
      BY <2>2, <3>1, <3>2
  <2>3. QED
    BY <2>1, <2>2 DEF ForwardEvent
<1>3. /\ UNCHANGED <<sessions, control, status, meta, agentVars, watcherVars>>
      /\ UNCHANGED <<watch, bridgeVars, writerVars>>
  BY DEF ForwardEvent
<1>4. DOMAIN events = Conn /\ DOMAIN watch = Conn /\ IsWatch(watch[h], Subscribers)
  BY <1>1 DEF RegistryInv, TypeInv, TypeOK
<1>5. /\ \A g \in Conn : events'[g] = IF g = h THEN ch ELSE events[g]
      /\ \A g \in Conn : watch'[g] = IF g = h THEN watch[h] ELSE watch[g]
      /\ DOMAIN events' = Conn /\ DOMAIN watch' = Conn
  BY <1>2, <1>3, <1>4
<1>6. RegistryInv' /\ Subscribed'
  BY <1>1, <1>2, <1>3, <1>4, <1>5, Listening
<1>7. BridgeTypeOK'
  BY <1>3, <1>6 DEF BridgeInv, BridgeTypeOK, RegistryInv, TypeInv, bridgeVars, writerVars
<1>8. \A g \in Conn : DOMAIN events'[g] = DOMAIN events[g]
  BY <1>1, <1>2, <1>4
<1>9. Attached'
  BY <1>3, <1>8 DEF BridgeInv, Attached, Hears, Forwarding, Reading, bridgeVars
<1>10. QED
  BY <1>6, <1>7, <1>9 DEF BridgeInv

\* The forwarder ends: its handle is marked, its phone is lost, or it is told to.
LEMMA EndKeeps ==
  ASSUME BridgeInv, NEW b \in Bridge, ForwardStops(b) \/ ForwardFails(b) \/ ForwardAborts(b)
  PROVE  BridgeInv'
<1>1. /\ Forwarding(b) /\ DropForwarder(b) /\ UNCHANGED <<target, said, writerVars>>
      /\ forward' = [forward EXCEPT ![b] = "ended"]
  BY DEF ForwardStops, ForwardFails, ForwardAborts, Forwarding, DropForwarder
<1>2. bridge' \in [Bridge -> BridgePc] /\ \A a \in Bridge : a # b => bridge'[a] = bridge[a]
  BY DEF ForwardStops, ForwardFails, ForwardAborts, BridgeInv, BridgeTypeOK, BridgePc
<1>3. /\ bridge[b] # "off" /\ (bridge'[b] = "open" => bridge[b] = "open")
      /\ bridge'[b] = "open" => ~watch[target[b]].value
  <2>1. bridge[b] # "off" /\ bridge[b] \in BridgePc
    BY <1>1 DEF BridgeInv, BridgeTypeOK, Attached, Forwarding, Reading
  <2>2. CASE ForwardStops(b)
    BY <2>1, <2>2 DEF ForwardStops
  <2>3. CASE ForwardFails(b)
    BY <2>1, <2>3 DEF ForwardFails, BridgeInv, BridgeTypeOK
  <2>4. CASE ForwardAborts(b)
    BY <2>1, <2>4 DEF ForwardAborts, BridgeInv, Attached
  <2>5. QED
    BY <2>2, <2>3, <2>4
<1>4. BridgeTypeOK'
  BY <1>1, <1>2, Dropping
     DEF BridgeInv, BridgeTypeOK, RegistryInv, TypeInv, ForwardPc, writerVars
<1>5. /\ forward'[b] = "ended" /\ \A a \in Bridge : a # b => forward'[a] = forward[a]
  BY <1>1 DEF BridgeInv, BridgeTypeOK
<1>6. Attached'
  <2>1. target' = target
    BY <1>1
  <2>2. \A a \in Bridge : bridge'[a] # "off" => target'[a] \in Conn
    BY <1>2, <1>3, <2>1 DEF BridgeInv, Attached
  <2>3. \A a \in Bridge : bridge'[a] = "open" /\ forward'[a] # "running"
                             => ~watch'[target'[a]].value
    <3>1. SUFFICES ASSUME NEW a \in Bridge, bridge'[a] = "open", forward'[a] # "running"
                   PROVE  ~watch[target[a]].value /\ target[a] \in Conn
      BY <1>1, <2>1, Dropping
    <3>2. CASE a = b
      BY <1>3, <3>1, <3>2 DEF BridgeInv, Attached
    <3>3. CASE a # b
      BY <1>2, <1>5, <3>1, <3>3 DEF BridgeInv, Attached
    <3>4. QED
      BY <3>2, <3>3
  <2>4. QED
    BY <1>1, <1>2, <1>5, <2>1, <2>2, <2>3, Dropping
       DEF BridgeInv, Attached, Hears, Forwarding, Reading
<1>7. QED
  BY <1>1, <1>4, <1>6, Dropping DEF BridgeInv

\* The reader of a bridge ends and aborts the forwarder.
LEMMA CloseKeeps ==
  ASSUME BridgeInv, NEW b \in Bridge, PhoneCloses(b)
  PROVE  BridgeInv'
<1>1. /\ Reading(b) /\ bridge' = [bridge EXCEPT ![b] = "closed"]
      /\ UNCHANGED vars /\ UNCHANGED <<target, said, writerVars>>
      /\ forward' = [forward EXCEPT ![b] = IF forward[b] = "running" THEN "aborting" ELSE forward[b]]
  BY DEF PhoneCloses
<1>2. RegistryInv' /\ Subscribed'
  BY <1>1, RegistryApart DEF BridgeInv
<1>3. BridgeTypeOK'
  BY <1>1, <1>2
     DEF BridgeInv, BridgeTypeOK, RegistryInv, TypeInv, BridgePc, ForwardPc, writerVars
<1>4. /\ bridge'[b] = "closed" /\ forward'[b] # "running"
      /\ Forwarding(b)' <=> Forwarding(b)
      /\ \A a \in Bridge : a # b => bridge'[a] = bridge[a] /\ forward'[a] = forward[a]
  BY <1>1 DEF BridgeInv, BridgeTypeOK, Forwarding
<1>5. events' = events /\ watch' = watch /\ target' = target
  BY <1>1 DEF vars, hubVars
<1>6. Attached'
  BY <1>1, <1>4, <1>5 DEF BridgeInv, Attached, Hears, Forwarding, Reading
<1>7. QED
  BY <1>2, <1>3, <1>6 DEF BridgeInv

-----------------------------------------------------------------------------
(* The writers                                                             *)

\* The frames a writer holds are commands, acknowledgements and Close.
OutFrame == Command \cup {Ack, Close}

\* A step of a bridge or a writer that leaves the registry and the receivers alone.
LEMMA Aside ==
  ASSUME BridgeInv, UNCHANGED <<vars, bridge, target, forward>>,
         said' \in [Bridge -> 0..MaxCommands], outbox' \in [Conn -> Seq(OutFrame)],
         writer' \in [Conn -> WriterPc], heard' \in [Conn -> SUBSET Command]
  PROVE  BridgeInv'
<1>1. RegistryInv' /\ Subscribed'
  BY RegistryApart DEF BridgeInv
<1>2. BridgeTypeOK'
  BY <1>1 DEF BridgeInv, BridgeTypeOK, RegistryInv, TypeInv, OutFrame
<1>3. Attached'
  BY DEF BridgeInv, Attached, Hears, Forwarding, Reading, vars, hubVars
<1>4. QED
  BY <1>1, <1>2, <1>3 DEF BridgeInv

\* The reader of a bridge hands over a command.
LEMMA CommandKeeps ==
  ASSUME BridgeInv, NEW b \in Bridge, PhoneCommands(b)
  PROVE  BridgeInv'
<1>1. target[b] \in Conn /\ said[b] < MaxCommands /\ said[b] \in 0..MaxCommands
  BY DEF PhoneCommands, BridgeInv, Attached, BridgeTypeOK, Reading
<1>2. said[b] + 1 \in 1..MaxCommands
  BY <1>1, CommandAssumption
<1>3. said' \in [Bridge -> 0..MaxCommands]
  BY <1>2, CommandAssumption DEF PhoneCommands, BridgeInv, BridgeTypeOK
<1>4. <<b, said[b] + 1>> \in OutFrame
  BY <1>2 DEF OutFrame, Command
<1>5. outbox' \in [Conn -> Seq(OutFrame)]
  BY <1>1, <1>4 DEF PhoneCommands, BridgeInv, BridgeTypeOK, OutFrame
<1>6. QED
  BY <1>3, <1>5, Aside DEF PhoneCommands, BridgeInv, BridgeTypeOK

\* A writer sends a frame, or gives up what it holds.
LEMMA WriterKeeps ==
  ASSUME BridgeInv, NEW c \in Conn, WriterSends(c) \/ WriterFails(c)
  PROVE  BridgeInv'
<1>1. outbox[c] \in Seq(OutFrame) /\ outbox[c] # <<>>
  BY DEF WriterSends, WriterFails, BridgeInv, BridgeTypeOK, OutFrame
<1>2. outbox' \in [Conn -> Seq(OutFrame)]
  <2>1. outbox \in [Conn -> Seq(OutFrame)]
    BY DEF BridgeInv, BridgeTypeOK, OutFrame
  <2>2. Tail(outbox[c]) \in Seq(OutFrame) /\ <<>> \in Seq(OutFrame)
    BY <1>1
  <2>3. CASE WriterSends(c)
    BY <2>1, <2>2, <2>3 DEF WriterSends
  <2>4. CASE WriterFails(c)
    BY <2>1, <2>2, <2>4 DEF WriterFails
  <2>5. QED
    BY <2>3, <2>4
<1>3. heard' \in [Conn -> SUBSET Command] /\ writer' \in [Conn -> WriterPc]
  BY DEF WriterSends, WriterFails, BridgeInv, BridgeTypeOK, WriterPc
<1>4. UNCHANGED <<vars, bridge, target, forward, said>>
  BY DEF WriterSends, WriterFails, bridgeVars
<1>5. QED
  BY <1>2, <1>3, <1>4, Aside DEF BridgeInv, BridgeTypeOK

\* A step of the registry's tasks, and what it does to the writer.
LEMMA RegistryKeeps ==
  ASSUME BridgeInv, NEW c \in Conn, RegistryStep(c) \/ QueueClose(c), UNCHANGED bridgeVars
  PROVE  BridgeInv'
<1>1. AgentStep(c) \/ CloseReplaced(c) \/ WatcherNext(c)
  BY DEF RegistryStep, Reader, QueueClose
<1>2. [Next]_vars
  BY <1>1 DEF Next
<1>3. RegistryInv' /\ Subscribed'
  BY <1>2, StepRegistry, StepSubscribed DEF BridgeInv
<1>4. outbox' \in [Conn -> Seq(OutFrame)] /\ writer' \in [Conn -> WriterPc] /\ heard' = heard
  <2>1. outbox \in [Conn -> Seq(OutFrame)] /\ writer \in [Conn -> WriterPc]
    BY DEF BridgeInv, BridgeTypeOK, OutFrame
  <2>2. /\ Append(outbox[c], Ack) \in Seq(OutFrame) /\ Append(outbox[c], Close) \in Seq(OutFrame)
        /\ <<>> \in Seq(OutFrame)
    BY <2>1 DEF OutFrame
  <2>3. CASE QueueClose(c)
    BY <2>1, <2>2, <2>3 DEF QueueClose
  <2>4. CASE RegistryStep(c)
    BY <2>1, <2>2, <2>4 DEF RegistryStep, Reader, WriterPc
  <2>5. QED
    BY <2>3, <2>4
<1>5. BridgeTypeOK'
  BY <1>3, <1>4
     DEF BridgeInv, BridgeTypeOK, RegistryInv, TypeInv, OutFrame, bridgeVars
<1>6. Attached'
  BY <1>1, RegistrySteps DEF BridgeInv, Attached, Hears, Forwarding, Reading, bridgeVars
<1>7. QED
  BY <1>3, <1>5, <1>6 DEF BridgeInv

-----------------------------------------------------------------------------
(* The composition                                                         *)

\* Nobody has called yet.
LEMMA InitBridge == BridgeInit => BridgeInv
<1>1. SUFFICES ASSUME BridgeInit PROVE BridgeInv
  OBVIOUS
<1>2. RegistryInv /\ Subscribed
  BY <1>1, InitRegistry, InitSubscribed DEF BridgeInit
<1>3. BridgeTypeOK
  <2>1. 0 \in 0..MaxCommands /\ <<>> \in Seq(Command \cup {Ack, Close})
    BY CommandAssumption
  <2>2. QED
    BY <1>1, <1>2, <2>1
       DEF BridgeInit, BridgeTypeOK, RegistryInv, TypeInv, BridgePc, ForwardPc, WriterPc
<1>4. \A h \in Conn : DOMAIN events[h] = {} /\ DOMAIN watch[h].unseen = {}
  BY <1>1 DEF BridgeInit, Init, NoReceivers, NewWatch
<1>5. Attached
  BY <1>1, <1>4 DEF BridgeInit, Attached, Forwarding, Reading
<1>6. QED
  BY <1>2, <1>3, <1>5 DEF BridgeInv

\* Every step of the composition keeps its invariant.
LEMMA StepBridge ==
  ASSUME BridgeInv, [BridgeNext]_allVars
  PROVE  BridgeInv'
<1>1. CASE UNCHANGED allVars
  BY <1>1, Aside DEF allVars, bridgeVars, writerVars, BridgeInv, BridgeTypeOK, OutFrame
<1>2. ASSUME NEW c \in Conn, RegistryStep(c) \/ QueueClose(c), UNCHANGED bridgeVars
      PROVE  BridgeInv'
  BY <1>2, RegistryKeeps
<1>3. ASSUME NEW c \in Conn, WriterSends(c) \/ WriterFails(c)
      PROVE  BridgeInv'
  BY <1>3, WriterKeeps
<1>4. ASSUME NEW b \in Bridge, BridgeTask(b) \/ Lookup(b) \/ PhoneCommands(b) \/ PhoneCloses(b)
      PROVE  BridgeInv'
  BY <1>4, LookupKeeps, StartKeeps, ForwardKeeps, EndKeeps, CloseKeeps, CommandKeeps
     DEF BridgeTask
<1>5. QED
  BY <1>1, <1>2, <1>3, <1>4 DEF BridgeNext

\* The inductive invariant of the registry with bridges and writers.
THEOREM BridgeCorrect == BridgeSpec => []BridgeInv
BY InitBridge, StepBridge, PTL DEF BridgeSpec

\* Every reachable state of the composition is well typed.
THEOREM BridgeTypes == BridgeSpec => []BridgeTypeOK
<1>1. BridgeInv => BridgeTypeOK
  BY DEF BridgeInv
<1>2. QED
  BY <1>1, BridgeCorrect, PTL

\* As long as the handle of an open bridge is registered and no send to its phone
\* has failed, its forwarder runs and hears the handle, whichever came first, the
\* look-up or the end of another connection.
THEOREM BridgesHear == BridgeSpec => []OpenBridgeHears
<1>1. BridgeInv => OpenBridgeHears
  <2>1. SUFFICES ASSUME BridgeInv, NEW b \in Bridge, bridge[b] = "open", Registered(target[b])
                 PROVE  forward[b] = "running" /\ b \in DOMAIN events[target[b]]
    BY DEF OpenBridgeHears
  <2>2. watch[target[b]].value
    BY <2>1 DEF BridgeInv, RegistryInv, Bookkeeping, Entries, Registered
  <2>3. QED
    BY <2>1, <2>2 DEF BridgeInv, Attached, Hears, Forwarding, Reading
<1>2. QED
  BY <1>1, BridgeCorrect, PTL

\* A bridge whose reader has ended, and whose forwarder has stopped, is no receiver
\* of any handle.
THEOREM ReceiversGo == BridgeSpec => []NoLeakedReceiver
<1>1. BridgeInv => NoLeakedReceiver
  BY DEF BridgeInv, Attached, NoLeakedReceiver, Forwarding, Reading
<1>2. QED
  BY <1>1, BridgeCorrect, PTL

-----------------------------------------------------------------------------
(* What the registry promises, with bridges and writers beside it           *)

\* A step of the composition is a step of the registry's tasks, or leaves the
\* entries, the ids and the readers alone.
LEMMA Beside ==
  ASSUME BridgeNext
  PROVE  Next \/ UNCHANGED <<sessions, sid, pc, taken>>
<1>1. ASSUME NEW c \in Conn, RegistryStep(c) \/ QueueClose(c)
      PROVE  Next
  BY <1>1 DEF RegistryStep, Reader, QueueClose, Next
<1>2. ASSUME NEW c \in Conn, WriterSends(c) \/ WriterFails(c)
      PROVE  UNCHANGED <<sessions, sid, pc, taken>>
  BY <1>2 DEF WriterSends, WriterFails, vars, hubVars, agentVars
<1>3. ASSUME NEW b \in Bridge, BridgeTask(b) \/ Lookup(b) \/ PhoneCommands(b) \/ PhoneCloses(b)
      PROVE  UNCHANGED <<sessions, sid, pc, taken>>
  BY <1>3 DEF BridgeTask, BridgeStarts, ForwardEvent, ForwardFails, ForwardStops, ForwardAborts,
              Lookup, PhoneCommands, PhoneCloses, DropForwarder, vars, hubVars, agentVars
<1>4. QED
  BY <1>1, <1>2, <1>3 DEF BridgeNext

\* The registry offers live handles only, whoever listens to them.
THEOREM BridgesSeeLiveEntries == BridgeSpec => []EntriesLive
<1>1. BridgeInv => EntriesLive
  BY DEF BridgeInv, RegistryInv, Bookkeeping, Entries, EntriesLive, Owning
<1>2. QED
  BY <1>1, BridgeCorrect, PTL

\* Beside bridges and writers, too, no other task unlists a connection that is up,
\* unless another used its session id.
THEOREM BridgesLoseNoSession == BridgeSpec => []MissingOnlyIfShared
<1>1. RegistryInv => MissingOnlyIfShared
  BY DEF RegistryInv, Bookkeeping, Unlisted, MissingOnlyIfShared, Serving, Registered, Owning
<1>2. BridgeInv => RegistryInv
  BY DEF BridgeInv
<1>3. QED
  BY <1>1, <1>2, BridgeCorrect, PTL

\* It is a directory for its readers, the bridges among them.
THEOREM BridgesSeeDirectory == BridgeSpec => ImplementsDirectory
<1>1. BridgeInit => Directory!DirectoryInit
  BY InitDirectory DEF BridgeInit
<1>2. BridgeInv /\ [BridgeNext]_allVars => [Directory!DirectoryNext]_Directory!directoryVars
  <2>1. CASE BridgeNext
    BY <2>1, Beside, StepDirectory DEF BridgeInv, Directory!directoryVars
  <2>2. CASE UNCHANGED allVars
    BY <2>2 DEF allVars, vars, hubVars, agentVars, Directory!directoryVars
  <2>3. QED
    BY <2>1, <2>2
<1>3. QED
  BY <1>1, <1>2, BridgeCorrect, PTL
     DEF BridgeSpec, ImplementsDirectory, Directory!DirectorySpec

\* A handle is retired under the eyes of its watcher, whoever else listens.
THEOREM BridgesLeaveNotice == BridgeSpec => RetirementIsNoticed
<1>1. BridgeInv /\ [BridgeNext]_allVars => [Noticed]_vars
  <2>1. CASE BridgeNext
    <3>1. BridgeInv /\ UNCHANGED <<sessions, sid, pc, taken>> => Noticed
      BY DEF Noticed, Retired, Registered
    <3>2. QED
      BY <2>1, <3>1, Beside, StepNoticed DEF BridgeInv
  <2>2. CASE UNCHANGED allVars
    BY <2>2 DEF allVars
  <2>3. QED
    BY <2>1, <2>2
<1>2. BridgeSpec => [][Noticed]_vars
  BY <1>1, BridgeCorrect, PTL DEF BridgeSpec
<1>3. QED
  BY <1>2 DEF RetirementIsNoticed, Noticed
=============================================================================
