----------------------------- MODULE AgentClient -----------------------------
(***************************************************************************)
(* The extension's end of /agent: the HubClient of hub-client.ts and the   *)
(* /rc command of index.ts that starts and stops one, against a Hub that   *)
(* is up or down.                                                          *)
(*                                                                         *)
(* One pi session in one process.  Every /rc creates a client, named by    *)
(* its generation, that outlives its successor for as long as its socket   *)
(* and its callbacks do.  JavaScript is single-threaded: an action is one  *)
(* callback run to its end.                                                *)
(*                                                                         *)
(* The registry is taken for the directory that SessionRegistry implements *)
(* (SessionDirectory): a frame the Hub reads is one step here.  A socket   *)
(* is two FIFO wires; "close" on a wire is a WebSocket Close, and "end"    *)
(* the end of the connection once the Hub's reader is through.             *)
(***************************************************************************)
EXTENDS Naturals, Sequences, FiniteSets

CONSTANTS
  Session,         \* the session id
  None,            \* no value
  MaxSockets,      \* bound: sockets that reach the Hub
  MaxGenerations,  \* bound: times /rc and /rc stop are typed
  MaxRenames,      \* bound: times the session is renamed
  MaxFaults,       \* bound: times the Hub goes down, or a second finds no token
  MaxTokens        \* bound: Hubs that find no token file, and so tokens made

\* The sockets the clients may open, in this order.
Socket == 1..MaxSockets

ASSUME NoSocketAssumption == None \notin Nat
ASSUME BoundAssumption ==
  {MaxSockets, MaxGenerations, MaxRenames, MaxFaults, MaxTokens} \subseteq Nat

VARIABLES
  generation,  \* index.ts: clientGeneration
  client,      \* index.ts: client, by its generation; 0 for undefined
  shown,       \* the RC status in pi's footer
  name,        \* pi's session name, as the number of renames
  clients,     \* generation -> its HubClient
  socks,       \* socket -> its readyState, its client and its two wires
  up,          \* whether the Hub runs
  token,       \* what the token file holds; 0 when it is missing or empty
  secret,      \* the token the running Hub asks for
  starting,    \* Hubs that found no token and have not yet written theirs
  made,        \* tokens made so far
  reader,      \* socket -> the Hub's reader task
  listed,      \* the registry: present id -> socket
  entered,     \* the sockets that have registered
  title,       \* socket -> the name in the metadata of its handle
  overlapped,  \* sockets that registered while another was being read (history)
  faults,      \* what MaxFaults bounds (history)
  raced        \* whether a Hub wrote its token while another was up (history)

extVars == <<generation, client, shown, name, clients>>
directory == <<listed, entered>>
tokenVars == <<token, secret, starting, made, raced>>
hubVars == <<up, tokenVars, reader, directory, title, overlapped, faults>>
vars == <<extVars, socks, hubVars>>

Directory == INSTANCE SessionDirectory WITH Id <- {Session}, Handle <- Socket

ConnectionStatus == {"idle", "connecting", "connected", "disconnected", "error"}
\* "aborted": closed before it was open, its events still to come.
ReadyState == {"unused", "connecting", "open", "closing", "aborted", "closed"}

Name == 0..MaxRenames
Generation == 1..MaxGenerations

HubFrame == [type : {"register", "meta_update"}, name : Name] \cup [type : {"close"}]
ExtFrame == {"registered", "close", "end"}

HubClient == [closed : BOOLEAN, ws : Socket \cup {None}, timer : BOOLEAN,
              status : ConnectionStatus, name : Name]

Token == 0..MaxTokens

WebSocket == [state : ReadyState, owner : Generation \cup {None}, token : Token,
              toHub : Seq(HubFrame), toExt : Seq(ExtFrame)]

TypeOK ==
  /\ generation \in 0..MaxGenerations /\ client \in 0..MaxGenerations
  /\ shown \in ConnectionStatus \cup {"off"}
  /\ name \in Name
  /\ clients \in [Generation -> HubClient]
  /\ socks \in [Socket -> WebSocket]
  /\ up \in BOOLEAN /\ raced \in BOOLEAN
  /\ {token, secret, starting, made} \subseteq Token
  /\ reader \in [Socket -> {"none", "reading", "ended"}]
  /\ DOMAIN listed \subseteq {Session} /\ listed \in [DOMAIN listed -> Socket]
  /\ overlapped \subseteq entered /\ entered \subseteq Socket
  /\ title \in [Socket -> Name]
  /\ faults \in 0..MaxFaults

\* The constructor of HubClient.
NewClient(n) == [closed |-> FALSE, ws |-> None, timer |-> FALSE, status |-> "idle", name |-> n]

Unused == [state |-> "unused", owner |-> None, token |-> 0, toHub |-> <<>>, toExt |-> <<>>]

Init ==
  /\ generation = 0 /\ client = 0 /\ shown = "off" /\ name = 0
  /\ clients = [k \in Generation |-> NewClient(0)]
  /\ socks = [s \in Socket |-> Unused]
  /\ up = FALSE /\ faults = 0
  /\ token = 0 /\ secret = 0 /\ starting = 0 /\ made = 0 /\ raced = FALSE
  /\ reader = [s \in Socket |-> "none"]
  /\ Directory!DirectoryInit
  /\ title = [s \in Socket |-> 0] /\ overlapped = {}

-----------------------------------------------------------------------------
(* HubClient                                                               *)

\* setStatus reports to index.ts, which lets only the active client touch the
\* footer.
\* Fault: every client may.
ShowAny(k, status) == shown' = status

Show(k, status) == shown' = IF k = generation' THEN status ELSE shown

\* sendFrame, on the socket of a client that may not be open.
\* Fault: a frame is also queued while the socket connects.
TransmitEarly(s, frame) ==
  IF s \in Socket /\ socks[s].state \in {"connecting", "open"}
  THEN [socks EXCEPT ![s].toHub = Append(@, frame)] ELSE socks

Transmit(s, frame) ==
  IF s \in Socket /\ socks[s].state = "open"
  THEN [socks EXCEPT ![s].toHub = Append(@, frame)] ELSE socks

\* close(): no reconnect from now on, ...
\* Fault: the client is not marked, its timer alone is cleared.
ClosedTimer(k) == IF k = 0 THEN clients ELSE [clients EXCEPT ![k].timer = FALSE]

Closed(k) == IF k = 0 THEN clients ELSE [clients EXCEPT ![k].closed = TRUE, ![k].timer = FALSE]

\* ... and ws.close(): a Close frame if the socket is open, an end without one
\* if it still connects.
InHand(k) == IF k = 0 THEN {} ELSE {clients[k].ws}

\* Fault: a socket that still connects is left to itself.
HungUpOpen(k) ==
  [s \in Socket |->
     IF s \in InHand(k) /\ socks[s].state = "open"
     THEN [socks[s] EXCEPT !.state = "closing", !.toHub = Append(@, [type |-> "close"])]
     ELSE socks[s]]

HungUp(k) ==
  [s \in Socket |->
     IF s \in InHand(k) /\ socks[s].state \in {"connecting", "open"}
     THEN [socks[s] EXCEPT !.state = IF @ = "open" THEN "closing" ELSE "aborted",
                           !.token = 0, !.toHub = Append(@, [type |-> "close"])]
     ELSE socks[s]]

\* open(), of client k, given the clients and sockets so far: a new socket with
\* the token of the file, or an error and a retry later when it holds none.
Dial(k, cs, ss) ==
  IF token # 0
  THEN \E s \in Socket :
         /\ socks[s].state = "unused" /\ \A t \in 1..(s - 1) : socks[t].state # "unused"
         /\ socks' = [ss EXCEPT ![s] = [state |-> "connecting", owner |-> k, token |-> token,
                                           toHub |-> <<>>, toExt |-> <<>>]]
         /\ clients' = [cs EXCEPT ![k].ws = s, ![k].status = "connecting"]
         /\ Show(k, "connecting")
  ELSE /\ socks' = ss
       /\ clients' = [cs EXCEPT ![k].status = "error", ![k].timer = TRUE]
       /\ Show(k, "error")

\* The timer of scheduleReconnect; close() has cleared that of a closed client.
Retry(k) ==
  /\ clients[k].timer
  /\ UNCHANGED <<generation, client, name, hubVars>>
  /\ Dial(k, [clients EXCEPT ![k].timer = FALSE], socks)

\* handler and is_authorized, of a socket the Hub has not taken.
Authorized(s) == up /\ socks[s].token = secret

\* The "open" event: the Hub has accepted, and the first frame is the register.
OnOpen(s) ==
  /\ socks[s].state = "connecting" /\ reader[s] # "none"
  /\ socks' = [socks EXCEPT ![s].state = "open",
                            ![s].toHub = Append(@, [type |-> "register",
                                                    name |-> clients[socks[s].owner].name])]
  /\ UNCHANGED <<extVars, hubVars>>

\* The "message" event with the Hub's acknowledgement.
OnRegistered(s) ==
  /\ socks[s].state \in {"open", "closing"}
  /\ socks[s].toExt # <<>> /\ Head(socks[s].toExt) = "registered"
  /\ socks' = [socks EXCEPT ![s].toExt = Tail(@)]
  /\ clients' = [clients EXCEPT ![socks[s].owner].status = "connected"]
  /\ UNCHANGED <<generation, client, name, hubVars>>
  /\ Show(socks[s].owner, "connected")

\* The Hub asks to close: the library answers and waits for the end.
OnCloseFrame(s) ==
  /\ socks[s].toExt # <<>> /\ Head(socks[s].toExt) = "close"
  /\ socks' = [socks EXCEPT
       ![s].toExt = Tail(@),
       ![s].toHub = IF socks[s].state = "open" THEN Append(@, [type |-> "close"]) ELSE @,
       ![s].state = IF @ = "open" THEN "closing" ELSE @]
  /\ UNCHANGED <<extVars, hubVars>>

\* The "close" event: a retry, unless the client was closed.
\* Fault: the status is left as it was.
ClosesQuietly(s) ==
  LET k == socks[s].owner IN
    /\ clients' = [clients EXCEPT ![k].timer = ~clients[k].closed]
    /\ UNCHANGED <<generation, client, shown, name, hubVars>>

Closes(s) ==
  LET k == socks[s].owner IN
    /\ clients' = [clients EXCEPT ![k].status = "disconnected", ![k].timer = ~clients[k].closed]
    /\ UNCHANGED <<generation, client, name, hubVars>>
    /\ Show(k, "disconnected")

\* It comes when the connection has ended, when it was aborted, ...
\* Fault: it comes with the Hub's Close, and nothing is answered.
OnCloseEarly(s) ==
  /\ \/ socks[s].toExt # <<>> /\ Head(socks[s].toExt) \in {"close", "end"}
     \/ socks[s].state = "aborted"
  /\ socks[s].state # "closed"
  /\ socks' = [socks EXCEPT ![s].state = "closed", ![s].toExt = <<>>]
  /\ Closes(s)

OnClose(s) ==
  /\ \/ socks[s].toExt # <<>> /\ Head(socks[s].toExt) = "end"
     \/ socks[s].state = "aborted"
  /\ socks[s].state # "closed"
  /\ socks' = [socks EXCEPT ![s].state = "closed", ![s].toExt = <<>>]
  /\ Closes(s)

\* ... or when it was refused, after an "error" event: there is no Hub, or it
\* asks for another token.  The socket is a new one again.
OnRefused(s) ==
  /\ socks[s].state = "connecting" /\ reader[s] = "none" /\ ~Authorized(s)
  /\ socks' = [socks EXCEPT ![s] = Unused]
  /\ Closes(s)

-----------------------------------------------------------------------------
(* index.ts                                                                *)

\* start: /rc, typed or re-run.
\* Fault: the client takes the number of the generation before.
StartUncounted ==
  /\ generation < MaxGenerations
  /\ generation' = generation + 1
  /\ client' = generation + 1
  /\ Dial(generation, [Closed(client) EXCEPT ![generation + 1] = NewClient(name)],
          HungUp(client))
  /\ UNCHANGED <<name, hubVars>>

Start ==
  /\ generation < MaxGenerations
  /\ generation' = generation + 1
  /\ client' = generation + 1
  /\ Dial(generation + 1, [Closed(client) EXCEPT ![generation + 1] = NewClient(name)],
          HungUp(client))
  /\ UNCHANGED <<name, hubVars>>

\* stop: /rc stop, or the end of this runtime.
Stop ==
  /\ generation < MaxGenerations
  /\ generation' = generation + 1
  /\ client' = 0
  /\ clients' = Closed(client)
  /\ socks' = HungUp(client)
  /\ shown' = "off"
  /\ UNCHANGED <<name, hubVars>>

\* session_info_changed, with updateInfo.
\* Fault: the client sends the name and does not keep it.
RenameOnWire ==
  /\ name < MaxRenames
  /\ name' = name + 1
  /\ socks' = IF client = 0 THEN socks
              ELSE Transmit(clients[client].ws, [type |-> "meta_update", name |-> name + 1])
  /\ UNCHANGED <<generation, client, clients, shown, hubVars>>

Rename ==
  /\ name < MaxRenames
  /\ name' = name + 1
  /\ clients' = IF client = 0 THEN clients ELSE [clients EXCEPT ![client].name = name + 1]
  /\ socks' = IF client = 0 THEN socks
              ELSE Transmit(clients[client].ws, [type |-> "meta_update", name |-> name + 1])
  /\ UNCHANGED <<generation, client, shown, hubVars>>

-----------------------------------------------------------------------------
(* The Hub                                                                 *)

\* load_or_create finds a token: this Hub serves with it, if the address is free.
\* Fault: it makes a token all the same, and keeps it to itself.
HubLoadsNone ==
  /\ ~up /\ token # 0
  /\ made < MaxTokens
  /\ up' = TRUE /\ made' = made + 1 /\ secret' = made + 1
  /\ UNCHANGED <<extVars, socks, token, starting, raced, reader, directory, title, overlapped, faults>>

HubLoads ==
  /\ ~up /\ token # 0
  /\ up' = TRUE /\ secret' = token
  /\ UNCHANGED <<extVars, socks, token, starting, made, raced,
                 reader, directory, title, overlapped, faults>>

\* It finds none and makes one ...
HubFindsNone ==
  /\ token = 0 /\ starting + made < MaxTokens
  /\ starting > 0 => faults < MaxFaults
  /\ faults' = IF starting > 0 THEN faults + 1 ELSE faults
  /\ starting' = starting + 1
  /\ UNCHANGED <<extVars, socks, up, token, secret, made, raced,
                 reader, directory, title, overlapped>>

\* ... which it writes before it binds the address, over what another Hub may
\* have written since; it serves if the address is free, and exits if not.
HubWrites ==
  /\ starting > 0
  /\ starting' = starting - 1 /\ made' = made + 1 /\ token' = made + 1
  /\ up' = TRUE
  /\ secret' = IF up THEN secret ELSE made + 1
  /\ raced' = (raced \/ up)
  /\ UNCHANGED <<extVars, socks, reader, directory, title, overlapped, faults>>

\* The Hub goes down: nothing of the registry is kept, every connection ends.
HubCrashes ==
  /\ up /\ faults < MaxFaults
  /\ up' = FALSE /\ faults' = faults + 1
  /\ listed' = [i \in {} |-> None]
  /\ reader' = [s \in Socket |-> IF reader[s] = "reading" THEN "ended" ELSE reader[s]]
  /\ socks' = [s \in Socket |-> IF reader[s] = "reading"
                                THEN [socks[s] EXCEPT !.toExt = Append(@, "end")] ELSE socks[s]]
  /\ UNCHANGED <<extVars, tokenVars, entered, title, overlapped>>

Accept(s) ==
  /\ socks[s].state = "connecting" /\ reader[s] = "none"
  /\ Authorized(s)
  /\ reader' = [reader EXCEPT ![s] = "reading"]
  /\ socks' = [socks EXCEPT ![s].token = 0]
  /\ UNCHANGED <<extVars, up, tokenVars, directory, title, overlapped, faults>>

\* The reader's next frame.
Reads(s, type) ==
  /\ up /\ reader[s] = "reading"
  /\ socks[s].toHub # <<>> /\ Head(socks[s].toHub).type = type

\* The sockets after the Hub has read a frame of s, and sends to T.
Answered(s, sent) ==
  [t \in Socket |-> [socks[t] EXCEPT !.toHub = IF t = s THEN Tail(@) ELSE @,
                                     !.toExt = @ \o sent[t]]]

ReadsRegister(s) ==
  /\ Reads(s, "register")
  /\ Directory!Enter(s, Session)
  /\ title' = [title EXCEPT ![s] = Head(socks[s].toHub).name]
  /\ socks' = Answered(s, [t \in Socket |->
       IF t = s THEN <<"registered">>
       ELSE IF Session \in DOMAIN listed /\ t = listed[Session] THEN <<"close">> ELSE <<>>])
  /\ overlapped' = IF \E t \in Socket \ {s} : reader[t] = "reading"
                   THEN overlapped \cup {s} ELSE overlapped
  /\ UNCHANGED <<extVars, up, tokenVars, reader, faults>>

\* The patch goes to whatever is registered under the id.
ReadsMeta(s) ==
  /\ Reads(s, "meta_update")
  /\ title' = IF s \in entered /\ Session \in DOMAIN listed
              THEN [title EXCEPT ![listed[Session]] = Head(socks[s].toHub).name] ELSE title
  /\ socks' = Answered(s, [t \in Socket |-> <<>>])
  /\ UNCHANGED <<extVars, up, tokenVars, reader, directory, overlapped, faults>>

\* The end of the stream: unregister, by id, if it has registered.
ReadsClose(s) ==
  /\ Reads(s, "close")
  /\ reader' = [reader EXCEPT ![s] = "ended"]
  /\ IF s \in entered /\ Session \in DOMAIN listed
     THEN Directory!Leave(Session) ELSE UNCHANGED directory
  /\ socks' = Answered(s, [t \in Socket |-> IF t = s THEN <<"end">> ELSE <<>>])
  /\ UNCHANGED <<extVars, up, tokenVars, title, overlapped, faults>>

-----------------------------------------------------------------------------

ExtTask(s) == OnOpen(s) \/ OnRegistered(s) \/ OnCloseFrame(s) \/ OnClose(s) \/ OnRefused(s)
HubTask(s) == Accept(s) \/ ReadsRegister(s) \/ ReadsMeta(s) \/ ReadsClose(s)

Next ==
  \/ \E s \in Socket : ExtTask(s) \/ HubTask(s)
  \/ \E k \in Generation : Retry(k)
  \/ Start \/ Stop \/ Rename
  \/ HubLoads \/ HubFindsNone \/ HubWrites \/ HubCrashes

\* The event loops of the extension and the Hub do not idle while they can take a
\* step.  Nothing makes the user type, or the Hub start or stay up.
Fairness == WF_vars(\/ \E s \in Socket : ExtTask(s) \/ HubTask(s)
                    \/ \E k \in Generation : Retry(k))

Spec == Init /\ [][Next]_vars
FairSpec == Spec /\ Fairness

-----------------------------------------------------------------------------
(* Properties                                                              *)

Live(s) == socks[s].state \in {"connecting", "open"}

\* The footer tells the truth about the active client whatever an earlier one
\* still reports, and shows nothing when there is none.
ShownIsCurrent == shown = IF client = 0 THEN "off" ELSE clients[client].status

\* One terminal holds one connection: no retry, late event or re-run of /rc
\* leaves a second socket alive, or one that belongs to a client that was
\* replaced or stopped.
OneLiveSocket == \A s \in Socket : Live(s) => client # 0 /\ s = clients[client].ws

\* What SessionRegistry takes for granted of its connections: at most one
\* register on each, before any other frame.
RegistersFirst ==
  \A s \in Socket : \A j \in 1..Len(socks[s].toHub) :
    LET frame == socks[s].toHub[j] IN
      /\ frame.type = "register" => s \notin entered /\ j = 1
      /\ frame.type = "meta_update" => s \in entered \/ socks[s].toHub[1].type = "register"

\* A client that reconnects by itself never races its own last connection: the
\* Hub is through with one before it reads the next.
NoSelfOverlap ==
  \A s, t \in Socket :
    s # t /\ socks[s].owner = socks[t].owner => ~(reader[s] = "reading" /\ reader[t] = "reading")

\* Nothing is on a wire to the Hub or back.
Quiet == \A s \in Socket : socks[s].toExt = <<>> /\ (reader[s] = "reading" => socks[s].toHub = <<>>)

\* No rename is lost or undone, by a reconnect, a Hub that comes back or the late
\* frames of an earlier client: at rest the Hub shows pi's name.
NameCurrent ==
  client # 0 /\ Quiet /\ Session \in DOMAIN listed => title[listed[Session]] = name

\* "RC: connected" means the Hub lists the session, at rest, if the connection
\* registered when no other was being read (SurvivorStaysListed has the other
\* case).
ConnectedIsListed ==
  client # 0 /\ shown = "connected" /\ Quiet /\ clients[client].ws \notin overlapped
    => Session \in DOMAIN listed /\ listed[Session] = clients[client].ws

\* The Hub keeps no state that a client must resync with: started before or
\* after it, and however often it goes down, the active client connects again,
\* with the token the Hub asks for, whichever of the Hubs that started made it,
\* unless one wrote the file when another was up.
\* (Out is where the model has no socket left to open.)
Out == \A s \in Socket : socks[s].state # "unused"
Reconnects ==
  \A k \in Generation :
    client = k ~> (client # k \/ clients[k].status = "connected" \/ ~up \/ (raced /\ token # secret) \/ Out)

\* /rc stop is final: whatever was under way, the session leaves the list.
StopUnlists == client = 0 ~> (client # 0 \/ Session \notin DOMAIN listed)
=============================================================================
