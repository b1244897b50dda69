-------------------------- MODULE AgentClientProofs --------------------------
(***************************************************************************)
(* Theorems about AgentClient, for every number of sockets, generations,   *)
(* renames, faults and Hubs.                                               *)
(*                                                                         *)
(* The invariant is built in layers, each inductive on top of the ones     *)
(* before: the types (TypeInv), what is on the wires of a socket in each   *)
(* state (WireOK), which sockets a client may still have (HeldInv), which  *)
(* connection the Hub lists (HubInv) and the name on the way to it         *)
(* (NamedInv).                                                             *)
(***************************************************************************)
EXTENDS AgentClient, SequenceTheorems, TLAPS

-----------------------------------------------------------------------------
(* Wires                                                                   *)

Carries(q, type) == \E j \in 1..Len(q) : q[j].type = type
Has(q, f) == \E j \in 1..Len(q) : q[j] = f

\* RegistersFirst, of the frames q of a socket whose registration the Hub has
\* read ("known") or not ("new").
Framed(q, stage) ==
  \A j \in 1..Len(q) :
    /\ q[j].type = "register" => stage = "new" /\ j = 1
    /\ q[j].type = "meta_update" => stage = "known" \/ q[1].type = "register"

\* Elements of a wire that grows or shrinks by one.
LEMMA Grown ==
  ASSUME NEW S, NEW q \in Seq(S), NEW x \in S
  PROVE  /\ Append(q, x) \in Seq(S)
         /\ Len(Append(q, x)) = Len(q) + 1
         /\ \A j \in 1..Len(q) : Append(q, x)[j] = q[j]
         /\ Append(q, x)[Len(q) + 1] = x
         /\ Append(q, x) # <<>>
BY AppendProperties

LEMMA Shrunk ==
  ASSUME NEW S, NEW q \in Seq(S), q # <<>>
  PROVE  /\ Tail(q) \in Seq(S)
         /\ Len(q) \in Nat \ {0} /\ Len(Tail(q)) = Len(q) - 1
         /\ \A j \in 1..Len(Tail(q)) : Tail(q)[j] = q[j + 1]
         /\ Head(q) = q[1] /\ Head(q) \in S
BY HeadTailProperties, EmptySeq, LenProperties, ElementOfSeq

LEMMA EmptyWire ==
  /\ \A type : ~Carries(<<>>, type)
  /\ \A f : ~Has(<<>>, f)
  /\ \A stage : Framed(<<>>, stage)
BY DEF Carries, Has, Framed

LEMMA GrownHas ==
  ASSUME NEW S, NEW q \in Seq(S), NEW x \in S, NEW f
  PROVE  Has(Append(q, x), f) <=> Has(q, f) \/ x = f
<1>1. /\ Len(Append(q, x)) = Len(q) + 1 /\ Len(q) \in Nat
      /\ \A j \in 1..Len(q) : Append(q, x)[j] = q[j]
      /\ Append(q, x)[Len(q) + 1] = x
  BY Grown, LenProperties
<1>2. ASSUME Has(q, f) PROVE Has(Append(q, x), f)
  <2>1. PICK j \in 1..Len(q) : q[j] = f
    BY <1>2 DEF Has
  <2>2. j \in 1..Len(Append(q, x)) /\ Append(q, x)[j] = f
    BY <1>1, <2>1
  <2>3. QED
    BY <2>2 DEF Has
<1>3. ASSUME x = f PROVE Has(Append(q, x), f)
  <2>1. Len(q) + 1 \in 1..Len(Append(q, x))
    BY <1>1
  <2>2. QED
    BY <1>1, <1>3, <2>1 DEF Has
<1>4. ASSUME Has(Append(q, x), f), x # f PROVE Has(q, f)
  <2>1. PICK j \in 1..Len(Append(q, x)) : Append(q, x)[j] = f
    BY <1>4 DEF Has
  <2>2. j \in 1..Len(q) /\ q[j] = f
    BY <1>1, <1>4, <2>1
  <2>3. QED
    BY <2>2 DEF Has
<1>5. QED
  BY <1>2, <1>3, <1>4

LEMMA ShrunkHas ==
  ASSUME NEW S, NEW q \in Seq(S), q # <<>>, NEW f
  PROVE  /\ Has(Tail(q), f) => Has(q, f)
         /\ Has(q, f) => Head(q) = f \/ Has(Tail(q), f)
         /\ Has(q, Head(q))
<1>1. /\ Len(q) \in Nat \ {0} /\ Len(Tail(q)) = Len(q) - 1
      /\ \A j \in 1..Len(Tail(q)) : Tail(q)[j] = q[j + 1]
      /\ Head(q) = q[1]
  BY Shrunk
<1>2. ASSUME Has(Tail(q), f) PROVE Has(q, f)
  <2>1. PICK j \in 1..Len(Tail(q)) : Tail(q)[j] = f
    BY <1>2 DEF Has
  <2>2. j + 1 \in 1..Len(q) /\ q[j + 1] = f
    BY <1>1, <2>1
  <2>3. QED
    BY <2>2 DEF Has
<1>3. ASSUME Has(q, f), Head(q) # f PROVE Has(Tail(q), f)
  <2>1. PICK j \in 1..Len(q) : q[j] = f
    BY <1>3 DEF Has
  <2>2. j - 1 \in 1..Len(Tail(q)) /\ (j - 1) + 1 = j
    BY <1>1, <1>3, <2>1
  <2>3. Tail(q)[j - 1] = f
    BY <1>1, <2>1, <2>2
  <2>4. QED
    BY <2>2, <2>3 DEF Has
<1>4. Has(q, Head(q))
  BY <1>1 DEF Has
<1>5. QED
  BY <1>2, <1>3, <1>4

LEMMA GrownCarries ==
  ASSUME NEW S, NEW q \in Seq(S), NEW x \in S, NEW type
  PROVE  Carries(Append(q, x), type) <=> Carries(q, type) \/ x.type = type
<1>1. /\ Len(Append(q, x)) = Len(q) + 1 /\ Len(q) \in Nat
      /\ \A j \in 1..Len(q) : Append(q, x)[j] = q[j]
      /\ Append(q, x)[Len(q) + 1] = x
  BY Grown, LenProperties
<1>2. ASSUME Carries(q, type) PROVE Carries(Append(q, x), type)
  <2>1. PICK j \in 1..Len(q) : q[j].type = type
    BY <1>2 DEF Carries
  <2>2. j \in 1..Len(Append(q, x)) /\ Append(q, x)[j].type = type
    BY <1>1, <2>1
  <2>3. QED
    BY <2>2 DEF Carries
<1>3. ASSUME x.type = type PROVE Carries(Append(q, x), type)
  <2>1. Len(q) + 1 \in 1..Len(Append(q, x))
    BY <1>1
  <2>2. QED
    BY <1>1, <1>3, <2>1 DEF Carries
<1>4. ASSUME Carries(Append(q, x), type), x.type # type PROVE Carries(q, type)
  <2>1. PICK j \in 1..Len(Append(q, x)) : Append(q, x)[j].type = type
    BY <1>4 DEF Carries
  <2>2. j \in 1..Len(q) /\ q[j].type = type
    BY <1>1, <1>4, <2>1
  <2>3. QED
    BY <2>2 DEF Carries
<1>5. QED
  BY <1>2, <1>3, <1>4

LEMMA ShrunkCarries ==
  ASSUME NEW S, NEW q \in Seq(S), q # <<>>, NEW type
  PROVE  /\ Carries(Tail(q), type) => Carries(q, type)
         /\ Carries(q, type) => Head(q).type = type \/ Carries(Tail(q), type)
         /\ Carries(q, Head(q).type)
<1>1. /\ Len(q) \in Nat \ {0} /\ Len(Tail(q)) = Len(q) - 1
      /\ \A j \in 1..Len(Tail(q)) : Tail(q)[j] = q[j + 1]
      /\ Head(q) = q[1]
  BY Shrunk
<1>2. ASSUME Carries(Tail(q), type) PROVE Carries(q, type)
  <2>1. PICK j \in 1..Len(Tail(q)) : Tail(q)[j].type = type
    BY <1>2 DEF Carries
  <2>2. j + 1 \in 1..Len(q) /\ q[j + 1].type = type
    BY <1>1, <2>1
  <2>3. QED
    BY <2>2 DEF Carries
<1>3. ASSUME Carries(q, type), Head(q).type # type PROVE Carries(Tail(q), type)
  <2>1. PICK j \in 1..Len(q) : q[j].type = type
    BY <1>3 DEF Carries
  <2>2. j - 1 \in 1..Len(Tail(q)) /\ (j - 1) + 1 = j
    BY <1>1, <1>3, <2>1
  <2>3. Tail(q)[j - 1].type = type
    BY <1>1, <2>1, <2>2
  <2>4. QED
    BY <2>2, <2>3 DEF Carries
<1>4. Carries(q, Head(q).type)
  BY <1>1 DEF Carries
<1>5. QED
  BY <1>2, <1>3, <1>4

\* A Close or, on a wire that registers first, a new name may always follow.
LEMMA GrownFramed ==
  ASSUME NEW S, NEW q \in Seq(S), NEW x \in S, NEW stage \in {"known", "new"}, Framed(q, stage),
         \/ x.type = "close"
         \/ x.type = "meta_update" /\ (stage = "known" \/ (q # <<>> /\ q[1].type = "register"))
         \/ x.type = "register" /\ q = <<>> /\ stage = "new"
  PROVE  /\ Framed(Append(q, x), stage)
         /\ q # <<>> => Append(q, x)[1] = q[1]
         /\ q = <<>> => Append(q, x)[1] = x
<1>1. /\ Len(Append(q, x)) = Len(q) + 1 /\ Len(q) \in Nat
      /\ \A j \in 1..Len(q) : Append(q, x)[j] = q[j]
      /\ Append(q, x)[Len(q) + 1] = x
  BY Grown, LenProperties
<1>2. q # <<>> => 1 \in 1..Len(q)
  BY <1>1, EmptySeq
<1>3. q = <<>> => Len(q) = 0
  OBVIOUS
<1>4. SUFFICES ASSUME NEW j \in 1..Len(Append(q, x))
               PROVE  /\ Append(q, x)[j].type = "register" => stage = "new" /\ j = 1
                      /\ Append(q, x)[j].type = "meta_update" =>
                           stage = "known" \/ Append(q, x)[1].type = "register"
  BY <1>1, <1>2, <1>3 DEF Framed
<1>5. CASE j \in 1..Len(q)
  BY <1>1, <1>2, <1>3, <1>5 DEF Framed
<1>6. CASE j = Len(q) + 1
  BY <1>1, <1>2, <1>3, <1>6
<1>7. QED
  BY <1>1, <1>4, <1>5, <1>6

\* What is left once a frame is read, with what the socket then is.
LEMMA ShrunkFramed ==
  ASSUME NEW S, NEW q \in Seq(S), q # <<>>, NEW stage \in {"known", "new"}, Framed(q, stage)
  PROVE  /\ Head(q).type = "register" => stage = "new" /\ Framed(Tail(q), "known")
         /\ Head(q).type # "register" => Framed(Tail(q), stage)
         /\ Head(q).type = "meta_update" => stage = "known"
<1>1. /\ Len(q) \in Nat \ {0} /\ Len(Tail(q)) = Len(q) - 1
      /\ \A j \in 1..Len(Tail(q)) : Tail(q)[j] = q[j + 1]
      /\ Head(q) = q[1]
  BY Shrunk
<1>2. /\ q[1].type = "register" => stage = "new"
      /\ q[1].type = "meta_update" => stage = "known"
  BY <1>1 DEF Framed
<1>3. \A j \in 1..Len(Tail(q)) :
        /\ Tail(q)[j].type # "register"
        /\ Tail(q)[j].type = "meta_update" => stage = "known" \/ q[1].type = "register"
  <2>1. SUFFICES ASSUME NEW j \in 1..Len(Tail(q))
                 PROVE  /\ Tail(q)[j].type # "register"
                        /\ Tail(q)[j].type = "meta_update" => stage = "known" \/ q[1].type = "register"
    OBVIOUS
  <2>2. j + 1 \in 1..Len(q) /\ j + 1 # 1 /\ Tail(q)[j] = q[j + 1]
    BY <1>1
  <2>3. QED
    BY <2>2 DEF Framed
<1>4. QED
  BY <1>1, <1>2, <1>3 DEF Framed

-----------------------------------------------------------------------------
(* Types                                                                   *)

\* A socket that was never opened, or was refused, has no reader and empty wires;
\* any other has a client.
FreshOK(s) ==
  IF socks[s].state = "unused"
  THEN socks[s].toHub = <<>> /\ socks[s].toExt = <<>> /\ reader[s] = "none"
  ELSE socks[s].owner \in Generation

ListedReads ==
  Session \in DOMAIN listed => reader[listed[Session]] = "reading" /\ listed[Session] \in entered

TypeInv ==
  /\ TypeOK /\ starting + made <= MaxTokens
  /\ (\A s \in Socket : FreshOK(s)) /\ ListedReads

LEMMA UnusedType == Unused \in WebSocket
<1>1. <<>> \in Seq(HubFrame) /\ <<>> \in Seq(ExtFrame)
  OBVIOUS
<1>2. 0 \in Token
  BY BoundAssumption DEF Token
<1>3. QED
  BY <1>1, <1>2 DEF Unused, WebSocket, ReadyState

LEMMA NewClientType ==
  ASSUME NEW n \in Name
  PROVE  NewClient(n) \in HubClient
BY DEF NewClient, HubClient, ConnectionStatus

LEMMA FrameTypes ==
  /\ \A n \in Name : [type |-> "register", name |-> n] \in HubFrame
  /\ \A n \in Name : [type |-> "meta_update", name |-> n] \in HubFrame
  /\ [type |-> "close"] \in HubFrame
  /\ \A frame \in HubFrame : frame.type # "close" => frame.name \in Name
BY DEF HubFrame

\* The wires and the fields of a socket.
LEMMA SocketFields ==
  ASSUME TypeOK, NEW s \in Socket
  PROVE  /\ socks[s] \in WebSocket
         /\ socks[s].state \in ReadyState /\ socks[s].owner \in Generation \cup {None}
         /\ socks[s].token \in Token
         /\ socks[s].toHub \in Seq(HubFrame) /\ socks[s].toExt \in Seq(ExtFrame)
         /\ socks[s] = [state |-> socks[s].state, owner |-> socks[s].owner, token |-> socks[s].token,
                        toHub |-> socks[s].toHub, toExt |-> socks[s].toExt]
BY DEF TypeOK, WebSocket

LEMMA ClientFields ==
  ASSUME TypeOK, NEW k \in Generation
  PROVE  /\ clients[k] \in HubClient
         /\ clients[k].closed \in BOOLEAN /\ clients[k].timer \in BOOLEAN
         /\ clients[k].ws \in Socket \cup {None}
         /\ clients[k].status \in ConnectionStatus /\ clients[k].name \in Name
BY DEF TypeOK, HubClient

LEMMA ClosedType ==
  ASSUME TypeOK
  PROVE  Closed(client) \in [Generation -> HubClient]
<1>1. client # 0 => client \in Generation
  BY BoundAssumption DEF TypeOK, Generation
<1>2. CASE client = 0
  BY <1>2 DEF Closed, TypeOK
<1>3. CASE client # 0
  <2>1. clients[client] \in HubClient /\ clients \in [Generation -> HubClient]
    BY <1>1, <1>3 DEF TypeOK
  <2>2. [clients[client] EXCEPT !.closed = TRUE, !.timer = FALSE] \in HubClient
    BY <2>1 DEF HubClient
  <2>3. Closed(client) = [clients EXCEPT ![client] = [clients[client] EXCEPT !.closed = TRUE, !.timer = FALSE]]
    BY <1>1, <1>3, <2>1 DEF Closed
  <2>4. QED
    BY <2>1, <2>2, <2>3
<1>4. QED
  BY <1>2, <1>3

\* close() changes the sockets of the client it closes only.
LEMMA HungUpType ==
  ASSUME TypeOK
  PROVE  /\ HungUp(client) \in [Socket -> WebSocket]
         /\ \A s \in Socket : IF s \in InHand(client) /\ socks[s].state \in {"connecting", "open"}
              THEN HungUp(client)[s] =
                     [state |-> IF socks[s].state = "open" THEN "closing" ELSE "aborted",
                      owner |-> socks[s].owner, token |-> 0,
                      toHub |-> Append(socks[s].toHub, [type |-> "close"]), toExt |-> socks[s].toExt]
              ELSE HungUp(client)[s] = socks[s]
<1>1. SUFFICES ASSUME NEW s \in Socket
               PROVE  /\ HungUp(client)[s] \in WebSocket
                      /\ IF s \in InHand(client) /\ socks[s].state \in {"connecting", "open"}
                         THEN HungUp(client)[s] =
                                [state |-> IF socks[s].state = "open" THEN "closing" ELSE "aborted",
                                 owner |-> socks[s].owner, token |-> 0,
                                 toHub |-> Append(socks[s].toHub, [type |-> "close"]),
                                 toExt |-> socks[s].toExt]
                         ELSE HungUp(client)[s] = socks[s]
  BY DEF HungUp
<1>2. CASE s \in InHand(client) /\ socks[s].state \in {"connecting", "open"}
  <2>1. HungUp(client)[s] =
          [state |-> IF socks[s].state = "open" THEN "closing" ELSE "aborted",
           owner |-> socks[s].owner, token |-> 0,
           toHub |-> Append(socks[s].toHub, [type |-> "close"]), toExt |-> socks[s].toExt]
    <3>1. HungUp(client)[s] =
            [socks[s] EXCEPT !.state = IF socks[s].state = "open" THEN "closing" ELSE "aborted",
                             !.token = 0,
                             !.toHub = Append(socks[s].toHub, [type |-> "close"])]
      BY <1>2 DEF HungUp
    <3>2. socks[s] \in WebSocket
      BY SocketFields
    <3>3. QED
      BY <3>1, <3>2 DEF WebSocket
  <2>2. socks[s].toHub \in Seq(HubFrame) /\ [type |-> "close"] \in HubFrame
    BY SocketFields, FrameTypes
  <2>3. Append(socks[s].toHub, [type |-> "close"]) \in Seq(HubFrame)
    BY <2>2
  <2>4. 0 \in Token
    BY BoundAssumption DEF Token
  <2>5. HungUp(client)[s] \in WebSocket
    <3>1. (IF socks[s].state = "open" THEN "closing" ELSE "aborted") \in ReadyState
      BY DEF ReadyState
    <3>2. socks[s].owner \in Generation \cup {None} /\ socks[s].toExt \in Seq(ExtFrame)
      BY SocketFields
    <3>3. QED
      BY <2>1, <2>3, <2>4, <3>1, <3>2 DEF WebSocket
  <2>6. QED
    BY <1>2, <2>1, <2>5
<1>3. CASE ~(s \in InHand(client) /\ socks[s].state \in {"connecting", "open"})
  BY <1>3, SocketFields DEF HungUp
<1>4. QED
  BY <1>2, <1>3

\* A socket but for its token, which no later step of the proofs needs.
Is(w, state, owner, toHub, toExt) ==
  w.state = state /\ w.owner = owner /\ w.toHub = toHub /\ w.toExt = toExt

\* A socket that client k has just opened.
IsNew(s, k) == socks[s].state = "unused" /\ Is(socks'[s], "connecting", k, <<>>, <<>>)

\* What a dial does: client k has a new socket, or a retry ahead.
LEMMA Dialled ==
  ASSUME TypeOK, NEW k \in Generation, NEW cs \in [Generation -> HubClient],
         NEW ss \in [Socket -> WebSocket], Dial(k, cs, ss), generation' \in Nat
  PROVE  /\ socks' \in [Socket -> WebSocket] /\ clients' \in [Generation -> HubClient]
         /\ shown' = IF k = generation' THEN clients'[k].status ELSE shown
         /\ \A j \in Generation \ {k} : clients'[j] = cs[j]
         /\ clients'[k].closed = cs[k].closed /\ clients'[k].name = cs[k].name
         /\ clients'[k].status \in {"connecting", "error"}
         /\ \/ \E s \in Socket :
                 /\ IsNew(s, k)
                 /\ \A t \in Socket : t # s => socks'[t] = ss[t]
                 /\ clients'[k].ws = s /\ clients'[k].timer = cs[k].timer
            \/ /\ socks' = ss
               /\ clients'[k].ws = cs[k].ws /\ clients'[k].timer = TRUE
<1>1. CASE token # 0
  <2>1. PICK s \in Socket :
         /\ socks[s].state = "unused"
         /\ socks' = [ss EXCEPT ![s] = [state |-> "connecting", owner |-> k, token |-> token,
                                           toHub |-> <<>>, toExt |-> <<>>]]
         /\ clients' = [cs EXCEPT ![k].ws = s, ![k].status = "connecting"]
         /\ Show(k, "connecting")
    BY <1>1 DEF Dial
  <2>2. [state |-> "connecting", owner |-> k, token |-> token,
         toHub |-> <<>>, toExt |-> <<>>] \in WebSocket
    <3>1. <<>> \in Seq(HubFrame) /\ <<>> \in Seq(ExtFrame)
      OBVIOUS
    <3>2. token \in Token
      BY DEF TypeOK
    <3>3. QED
      BY <3>1, <3>2 DEF WebSocket, ReadyState
  <2>3. /\ clients'[k] = [cs[k] EXCEPT !.ws = s, !.status = "connecting"]
        /\ \A j \in Generation \ {k} : clients'[j] = cs[j]
    BY <2>1
  <2>4. /\ clients'[k] \in HubClient
        /\ clients'[k].closed = cs[k].closed /\ clients'[k].name = cs[k].name
        /\ clients'[k].status = "connecting" /\ clients'[k].ws = s /\ clients'[k].timer = cs[k].timer
    <3>1. cs[k] \in HubClient
      OBVIOUS
    <3>2. QED
      BY <2>3, <3>1 DEF HubClient, ConnectionStatus
  <2>5. clients' \in [Generation -> HubClient]
    BY <2>1, <2>3, <2>4
  <2>6. socks' \in [Socket -> WebSocket]
    BY <2>1, <2>2
  <2>7. IsNew(s, k) /\ \A t \in Socket : t # s => socks'[t] = ss[t]
    BY <2>1 DEF IsNew, Is
  <2>8. QED
    BY <2>1, <2>3, <2>4, <2>5, <2>6, <2>7 DEF Show
<1>2. CASE ~(token # 0)
  <2>1. /\ socks' = ss
        /\ clients' = [cs EXCEPT ![k].status = "error", ![k].timer = TRUE]
        /\ Show(k, "error")
    BY <1>2 DEF Dial
  <2>2. /\ clients'[k] = [cs[k] EXCEPT !.status = "error", !.timer = TRUE]
        /\ \A j \in Generation \ {k} : clients'[j] = cs[j]
    BY <2>1
  <2>3. /\ clients'[k] \in HubClient
        /\ clients'[k].closed = cs[k].closed /\ clients'[k].name = cs[k].name
        /\ clients'[k].status = "error" /\ clients'[k].ws = cs[k].ws /\ clients'[k].timer = TRUE
    <3>1. cs[k] \in HubClient
      OBVIOUS
    <3>2. QED
      BY <2>2, <3>1 DEF HubClient, ConnectionStatus
  <2>4. clients' \in [Generation -> HubClient]
    BY <2>1, <2>2, <2>3
  <2>5. QED
    BY <2>1, <2>2, <2>3, <2>4 DEF Show
<1>3. QED
  BY <1>1, <1>2

-----------------------------------------------------------------------------
(* What the steps do                                                       *)

LEMMA OneSocket ==
  ASSUME TypeOK, NEW s \in Socket, NEW w \in WebSocket, socks' = [socks EXCEPT ![s] = w]
  PROVE  /\ socks' \in [Socket -> WebSocket] /\ socks'[s] = w
         /\ \A t \in Socket : t # s => socks'[t] = socks[t]
BY DEF TypeOK

LEMMA SocketChanged ==
  ASSUME NEW w \in WebSocket, NEW state \in ReadyState,
         NEW toHub \in Seq(HubFrame), NEW toExt \in Seq(ExtFrame)
  PROVE  /\ [w EXCEPT !.state = state, !.toHub = toHub] \in WebSocket
         /\ Is([w EXCEPT !.state = state, !.toHub = toHub], state, w.owner, toHub, w.toExt)
         /\ [w EXCEPT !.toExt = toExt] \in WebSocket
         /\ Is([w EXCEPT !.toExt = toExt], w.state, w.owner, w.toHub, toExt)
         /\ [w EXCEPT !.state = state, !.toExt = toExt] \in WebSocket
         /\ Is([w EXCEPT !.state = state, !.toExt = toExt], state, w.owner, w.toHub, toExt)
         /\ [w EXCEPT !.toExt = toExt, !.toHub = toHub, !.state = state] \in WebSocket
         /\ Is([w EXCEPT !.toExt = toExt, !.toHub = toHub, !.state = state],
               state, w.owner, toHub, toExt)
         /\ [w EXCEPT !.toHub = toHub, !.toExt = toExt] \in WebSocket
         /\ Is([w EXCEPT !.toHub = toHub, !.toExt = toExt], w.state, w.owner, toHub, toExt)
<1>1. /\ [w EXCEPT !.state = state, !.toHub = toHub] \in WebSocket
      /\ Is([w EXCEPT !.state = state, !.toHub = toHub], state, w.owner, toHub, w.toExt)
  BY DEF WebSocket, Is
<1>2. /\ [w EXCEPT !.toExt = toExt] \in WebSocket
      /\ Is([w EXCEPT !.toExt = toExt], w.state, w.owner, w.toHub, toExt)
  BY DEF WebSocket, Is
<1>3. /\ [w EXCEPT !.state = state, !.toExt = toExt] \in WebSocket
      /\ Is([w EXCEPT !.state = state, !.toExt = toExt], state, w.owner, w.toHub, toExt)
  BY DEF WebSocket, Is
<1>4. /\ [w EXCEPT !.toExt = toExt, !.toHub = toHub, !.state = state] \in WebSocket
      /\ Is([w EXCEPT !.toExt = toExt, !.toHub = toHub, !.state = state],
            state, w.owner, toHub, toExt)
  BY DEF WebSocket, Is
<1>5. /\ [w EXCEPT !.toHub = toHub, !.toExt = toExt] \in WebSocket
      /\ Is([w EXCEPT !.toHub = toHub, !.toExt = toExt], w.state, w.owner, toHub, toExt)
  BY DEF WebSocket, Is
<1>6. QED
  BY <1>1, <1>2, <1>3, <1>4, <1>5

LEMMA OpenDoes ==
  ASSUME TypeInv, NEW s \in Socket, OnOpen(s)
  PROVE  LET k == socks[s].owner
             frame == [type |-> "register", name |-> clients[k].name] IN
         /\ socks[s].state = "connecting" /\ reader[s] # "none"
         /\ k \in Generation /\ frame \in HubFrame
         /\ socks' \in [Socket -> WebSocket]
         /\ Is(socks'[s], "open", k, Append(socks[s].toHub, frame), socks[s].toExt)
         /\ \A t \in Socket : t # s => socks'[t] = socks[t]
         /\ UNCHANGED <<extVars, hubVars>>
<1> DEFINE w == socks[s]
           frame == [type |-> "register", name |-> clients[w.owner].name]
           v == [w EXCEPT !.state = "open", !.toHub = Append(w.toHub, frame)]
<1>1. TypeOK /\ w.state = "connecting" /\ reader[s] # "none" /\ w.owner \in Generation
  BY DEF OnOpen, TypeInv, FreshOK
<1>2. frame \in HubFrame /\ w \in WebSocket /\ w.toHub \in Seq(HubFrame) /\ w.toExt \in Seq(ExtFrame)
  BY <1>1, ClientFields, FrameTypes, SocketFields
<1>3. Append(w.toHub, frame) \in Seq(HubFrame)
  BY <1>2
<1>4. v \in WebSocket /\ Is(v, "open", w.owner, Append(w.toHub, frame), w.toExt)
  BY <1>2, <1>3, SocketChanged DEF ReadyState
<1>5. socks' = [socks EXCEPT ![s] = v] /\ UNCHANGED <<extVars, hubVars>>
  BY <1>1 DEF OnOpen, TypeOK
<1>6. QED
  BY <1>1, <1>2, <1>4, <1>5, OneSocket

LEMMA RegisteredDoes ==
  ASSUME TypeInv, NEW s \in Socket, OnRegistered(s)
  PROVE  LET k == socks[s].owner IN
         /\ socks[s].state \in {"open", "closing"} /\ k \in Generation
         /\ socks[s].toExt # <<>> /\ Head(socks[s].toExt) = "registered"
         /\ socks' \in [Socket -> WebSocket]
         /\ Is(socks'[s], socks[s].state, k, socks[s].toHub, Tail(socks[s].toExt))
         /\ \A t \in Socket : t # s => socks'[t] = socks[t]
         /\ clients' \in [Generation -> HubClient]
         /\ clients'[k] = [clients[k] EXCEPT !.status = "connected"]
         /\ \A j \in Generation : j # k => clients'[j] = clients[j]
         /\ shown' = IF k = generation THEN "connected" ELSE shown
         /\ UNCHANGED <<generation, client, name, hubVars>>
<1> DEFINE w == socks[s]
           k == w.owner
           v == [w EXCEPT !.toExt = Tail(w.toExt)]
<1>1. /\ TypeOK /\ w.state \in {"open", "closing"} /\ k \in Generation
      /\ w.toExt # <<>> /\ Head(w.toExt) = "registered"
  BY DEF OnRegistered, TypeInv, FreshOK
<1>2. w \in WebSocket /\ w.toHub \in Seq(HubFrame) /\ w.toExt \in Seq(ExtFrame) /\ w.state \in ReadyState
  BY <1>1, SocketFields
<1>3. Tail(w.toExt) \in Seq(ExtFrame)
  BY <1>1, <1>2
<1>4. v \in WebSocket /\ Is(v, w.state, k, w.toHub, Tail(w.toExt))
  BY <1>2, <1>3, SocketChanged
<1>5. socks' = [socks EXCEPT ![s] = v]
  BY <1>1 DEF OnRegistered, TypeOK
<1>6. [clients[k] EXCEPT !.status = "connected"] \in HubClient
  BY <1>1, ClientFields DEF HubClient, ConnectionStatus
<1>7. clients' = [clients EXCEPT ![k] = [clients[k] EXCEPT !.status = "connected"]]
  BY <1>1 DEF OnRegistered, TypeOK
<1>8. /\ clients' \in [Generation -> HubClient]
      /\ clients'[k] = [clients[k] EXCEPT !.status = "connected"]
      /\ \A j \in Generation : j # k => clients'[j] = clients[j]
  BY <1>1, <1>6, <1>7 DEF TypeOK
<1>9. /\ shown' = IF k = generation THEN "connected" ELSE shown
      /\ UNCHANGED <<generation, client, name, hubVars>>
  BY DEF OnRegistered, Show
<1>10. QED
  BY <1>1, <1>4, <1>5, <1>8, <1>9, OneSocket

LEMMA CloseFrameDoes ==
  ASSUME TypeInv, NEW s \in Socket, OnCloseFrame(s)
  PROVE  LET open == socks[s].state = "open" IN
         /\ socks[s].toExt # <<>> /\ Head(socks[s].toExt) = "close"
         /\ socks' \in [Socket -> WebSocket]
         /\ Is(socks'[s], IF open THEN "closing" ELSE socks[s].state, socks[s].owner,
               IF open THEN Append(socks[s].toHub, [type |-> "close"]) ELSE socks[s].toHub,
               Tail(socks[s].toExt))
         /\ \A t \in Socket : t # s => socks'[t] = socks[t]
         /\ UNCHANGED <<extVars, hubVars>>
<1> DEFINE w == socks[s]
           toHub == IF w.state = "open" THEN Append(w.toHub, [type |-> "close"]) ELSE w.toHub
           state == IF w.state = "open" THEN "closing" ELSE w.state
           v == [w EXCEPT !.toExt = Tail(w.toExt), !.toHub = toHub, !.state = state]
<1>1. TypeOK /\ w.toExt # <<>> /\ Head(w.toExt) = "close"
  BY DEF OnCloseFrame, TypeInv
<1>2. /\ w \in WebSocket /\ w.toHub \in Seq(HubFrame) /\ w.toExt \in Seq(ExtFrame)
      /\ w.state \in ReadyState /\ [type |-> "close"] \in HubFrame
  BY <1>1, SocketFields, FrameTypes
<1>3. Tail(w.toExt) \in Seq(ExtFrame) /\ toHub \in Seq(HubFrame)
  BY <1>1, <1>2
<1>4. state \in ReadyState
  BY <1>2 DEF ReadyState
<1>5. v \in WebSocket /\ Is(v, state, w.owner, toHub, Tail(w.toExt))
  BY <1>2, <1>3, <1>4, SocketChanged
<1>6. socks' = [socks EXCEPT ![s] = v] /\ UNCHANGED <<extVars, hubVars>>
  BY <1>1 DEF OnCloseFrame, TypeOK
<1>7. QED
  BY <1>1, <1>5, <1>6, OneSocket

LEMMA ClosesDoes ==
  ASSUME TypeInv, NEW s \in Socket, socks[s].owner \in Generation, Closes(s)
  PROVE  LET k == socks[s].owner IN
         /\ clients' \in [Generation -> HubClient]
         /\ clients'[k] = [clients[k] EXCEPT !.status = "disconnected", !.timer = ~clients[k].closed]
         /\ \A j \in Generation : j # k => clients'[j] = clients[j]
         /\ shown' = IF k = generation THEN "disconnected" ELSE shown
         /\ UNCHANGED <<generation, client, name, hubVars>>
<1> DEFINE k == socks[s].owner
           c == [clients[k] EXCEPT !.status = "disconnected", !.timer = ~clients[k].closed]
<1>1. TypeOK
  BY DEF TypeInv
<1>2. c \in HubClient
  BY <1>1, ClientFields DEF HubClient, ConnectionStatus
<1>3. clients' = [clients EXCEPT ![k] = c]
  BY <1>1 DEF Closes, TypeOK
<1>4. /\ clients' \in [Generation -> HubClient]
      /\ clients'[k] = c
      /\ \A j \in Generation : j # k => clients'[j] = clients[j]
  BY <1>1, <1>2, <1>3 DEF TypeOK
<1>5. /\ shown' = IF k = generation THEN "disconnected" ELSE shown
      /\ UNCHANGED <<generation, client, name, hubVars>>
  BY DEF Closes, Show
<1>6. QED
  BY <1>4, <1>5

\* The "close" event of a socket that is over.
LEMMA CloseDoes ==
  ASSUME TypeInv, NEW s \in Socket, OnClose(s)
  PROVE  /\ \/ socks[s].toExt # <<>> /\ Head(socks[s].toExt) = "end"
            \/ socks[s].state = "aborted"
         /\ socks[s].state \notin {"unused", "closed"} /\ socks[s].owner \in Generation
         /\ socks' \in [Socket -> WebSocket]
         /\ Is(socks'[s], "closed", socks[s].owner, socks[s].toHub, <<>>)
         /\ \A t \in Socket : t # s => socks'[t] = socks[t]
         /\ Closes(s)
<1> DEFINE w == socks[s]
           v == [w EXCEPT !.state = "closed", !.toExt = <<>>]
<1>1. /\ TypeOK
      /\ \/ w.toExt # <<>> /\ Head(w.toExt) = "end"
         \/ w.state = "aborted"
      /\ w.state # "closed" /\ Closes(s)
  BY DEF OnClose, TypeInv
<1>2. w.state # "unused" /\ w.owner \in Generation
  <2>1. w.state = "unused" => w.toExt = <<>>
    BY DEF TypeInv, FreshOK, Unused
  <2>2. QED
    BY <1>1, <2>1 DEF TypeInv, FreshOK
<1>3. w \in WebSocket /\ w.toHub \in Seq(HubFrame)
  BY <1>1, SocketFields
<1>4. <<>> \in Seq(ExtFrame) /\ "closed" \in ReadyState
  BY DEF ReadyState
<1>5. v \in WebSocket /\ Is(v, "closed", w.owner, w.toHub, <<>>)
  BY <1>3, <1>4, SocketChanged
<1>6. socks' = [socks EXCEPT ![s] = v]
  BY <1>1 DEF OnClose, TypeOK
<1>7. QED
  BY <1>1, <1>2, <1>5, <1>6, OneSocket

LEMMA RefusedDoes ==
  ASSUME TypeInv, NEW s \in Socket, OnRefused(s)
  PROVE  /\ socks[s].state = "connecting" /\ reader[s] = "none" /\ socks[s].owner \in Generation
         /\ socks' \in [Socket -> WebSocket]
         /\ socks'[s] = Unused
         /\ \A t \in Socket : t # s => socks'[t] = socks[t]
         /\ Closes(s)
<1>1. /\ TypeOK /\ socks[s].state = "connecting" /\ reader[s] = "none" /\ socks[s].owner \in Generation
      /\ socks' = [socks EXCEPT ![s] = Unused] /\ Closes(s)
  BY DEF OnRefused, TypeInv, FreshOK
<1>2. QED
  BY <1>1, UnusedType, OneSocket

LEMMA AcceptDoes ==
  ASSUME TypeInv, NEW s \in Socket, Accept(s)
  PROVE  /\ socks[s].state = "connecting" /\ reader[s] = "none"
         /\ reader' \in [Socket -> {"none", "reading", "ended"}]
         /\ reader'[s] = "reading" /\ \A t \in Socket : t # s => reader'[t] = reader[t]
         /\ socks' \in [Socket -> WebSocket]
         /\ Is(socks'[s], socks[s].state, socks[s].owner, socks[s].toHub, socks[s].toExt)
         /\ \A t \in Socket : t # s => socks'[t] = socks[t]
         /\ UNCHANGED <<extVars, up, tokenVars, directory, title, overlapped, faults>>
<1> DEFINE w == socks[s]
           v == [w EXCEPT !.token = 0]
<1>1. TypeOK /\ w.state = "connecting" /\ reader[s] = "none" /\ w \in WebSocket
  BY SocketFields DEF Accept, TypeInv
<1>2. 0 \in Token
  BY BoundAssumption DEF Token
<1>3. v \in WebSocket /\ Is(v, w.state, w.owner, w.toHub, w.toExt)
  BY <1>1, <1>2 DEF WebSocket, Is
<1>4. socks' = [socks EXCEPT ![s] = v]
  BY <1>1 DEF Accept, TypeOK
<1>5. /\ reader' \in [Socket -> {"none", "reading", "ended"}]
      /\ reader'[s] = "reading" /\ \A t \in Socket : t # s => reader'[t] = reader[t]
  BY <1>1 DEF Accept, TypeOK
<1>6. UNCHANGED <<extVars, up, tokenVars, directory, title, overlapped, faults>>
  BY DEF Accept
<1>7. QED
  BY <1>1, <1>3, <1>4, <1>5, <1>6, OneSocket

LEMMA Sent ==
  ASSUME NEW q \in Seq(ExtFrame)
  PROVE  q \o <<>> = q /\ \A f \in ExtFrame : q \o <<f>> = Append(q, f)
BY ConcatEmptySeq, AppendIsConcat

\* A frame of s is read, and each socket is sent something.
LEMMA AnsweredDoes ==
  ASSUME TypeOK, NEW s \in Socket, socks[s].toHub # <<>>, NEW sent \in [Socket -> Seq(ExtFrame)]
  PROVE  /\ Answered(s, sent) \in [Socket -> WebSocket]
         /\ \A t \in Socket :
              Is(Answered(s, sent)[t], socks[t].state, socks[t].owner,
                 IF t = s THEN Tail(socks[t].toHub) ELSE socks[t].toHub, socks[t].toExt \o sent[t])
<1>1. SUFFICES ASSUME NEW t \in Socket
               PROVE  /\ Answered(s, sent)[t] \in WebSocket
                      /\ Is(Answered(s, sent)[t], socks[t].state, socks[t].owner,
                            IF t = s THEN Tail(socks[t].toHub) ELSE socks[t].toHub,
                            socks[t].toExt \o sent[t])
  BY DEF Answered
<1> DEFINE w == socks[t]
           toHub == IF t = s THEN Tail(w.toHub) ELSE w.toHub
           toExt == w.toExt \o sent[t]
<1>2. w \in WebSocket /\ w.toHub \in Seq(HubFrame) /\ w.toExt \in Seq(ExtFrame) /\ w.state \in ReadyState
  BY SocketFields
<1>3. sent[t] \in Seq(ExtFrame)
  OBVIOUS
<1>4. toHub \in Seq(HubFrame) /\ toExt \in Seq(ExtFrame)
  BY <1>2, <1>3, ConcatProperties
<1>5. Answered(s, sent)[t] = [w EXCEPT !.toHub = toHub, !.toExt = toExt]
  BY DEF Answered
<1>6. /\ [w EXCEPT !.toHub = toHub, !.toExt = toExt] \in WebSocket
      /\ Is([w EXCEPT !.toHub = toHub, !.toExt = toExt], w.state, w.owner, toHub, toExt)
  <2> HIDE DEF w, toHub, toExt
  <2>1. QED
    BY <1>2, <1>4, SocketChanged
<1>7. QED
  BY <1>5, <1>6

LEMMA ReadsRegisterDoes ==
  ASSUME TypeInv, NEW s \in Socket, ReadsRegister(s)
  PROVE  /\ reader[s] = "reading" /\ s \notin entered
         /\ socks[s].toHub # <<>> /\ Head(socks[s].toHub).type = "register"
         /\ entered' = entered \cup {s}
         /\ DOMAIN listed' = {Session} /\ listed' \in [{Session} -> Socket] /\ listed'[Session] = s
         /\ Head(socks[s].toHub).name \in Name
         /\ title' = [title EXCEPT ![s] = Head(socks[s].toHub).name]
         /\ socks' \in [Socket -> WebSocket]
         /\ \A t \in Socket :
              Is(socks'[t], socks[t].state, socks[t].owner,
                 IF t = s THEN Tail(socks[t].toHub) ELSE socks[t].toHub,
                 IF t = s THEN Append(socks[t].toExt, "registered")
                 ELSE IF Session \in DOMAIN listed /\ t = listed[Session] THEN Append(socks[t].toExt, "close")
                 ELSE socks[t].toExt)
         /\ overlapped' = IF \E t \in Socket \ {s} : reader[t] = "reading"
                          THEN overlapped \cup {s} ELSE overlapped
         /\ UNCHANGED <<extVars, up, tokenVars, reader, faults>>
<1> DEFINE sent == [t \in Socket |->
       IF t = s THEN <<"registered">>
       ELSE IF Session \in DOMAIN listed /\ t = listed[Session] THEN <<"close">> ELSE <<>>]
<1>1. /\ TypeOK /\ reader[s] = "reading" /\ socks[s].toHub # <<>>
      /\ Head(socks[s].toHub).type = "register" /\ socks' = Answered(s, sent)
      /\ title' = [title EXCEPT ![s] = Head(socks[s].toHub).name]
      /\ overlapped' = IF \E t \in Socket \ {s} : reader[t] = "reading"
                       THEN overlapped \cup {s} ELSE overlapped
      /\ UNCHANGED <<extVars, up, tokenVars, reader, faults>>
  BY DEF ReadsRegister, Reads, TypeInv
<1>2. s \notin entered /\ entered' = entered \cup {s}
  BY DEF ReadsRegister, Directory!Enter
<1>3. DOMAIN listed' = {Session} /\ listed' \in [{Session} -> Socket] /\ listed'[Session] = s
  <2>1. listed' = [j \in DOMAIN listed \cup {Session} |-> IF j = Session THEN s ELSE listed[j]]
    BY DEF ReadsRegister, Directory!Enter
  <2>2. DOMAIN listed \cup {Session} = {Session}
    BY <1>1 DEF TypeOK
  <2>3. QED
    BY <2>1, <2>2
<1>4. Head(socks[s].toHub).name \in Name
  <2>1. Head(socks[s].toHub) \in HubFrame
    BY <1>1, SocketFields, Shrunk
  <2>2. QED
    BY <1>1, <2>1, FrameTypes
<1>5. sent \in [Socket -> Seq(ExtFrame)]
  <2>1. <<"registered">> \in Seq(ExtFrame) /\ <<"close">> \in Seq(ExtFrame) /\ <<>> \in Seq(ExtFrame)
    BY DEF ExtFrame
  <2>2. QED
    BY <2>1
<1>6. /\ socks' \in [Socket -> WebSocket]
      /\ \A t \in Socket :
           Is(socks'[t], socks[t].state, socks[t].owner,
              IF t = s THEN Tail(socks[t].toHub) ELSE socks[t].toHub, socks[t].toExt \o sent[t])
  BY <1>1, <1>5, AnsweredDoes
<1>7. \A t \in Socket :
        socks[t].toExt \o sent[t] =
          IF t = s THEN Append(socks[t].toExt, "registered")
          ELSE IF Session \in DOMAIN listed /\ t = listed[Session] THEN Append(socks[t].toExt, "close")
          ELSE socks[t].toExt
  <2>1. "registered" \in ExtFrame /\ "close" \in ExtFrame
    BY DEF ExtFrame
  <2>2. \A t \in Socket : socks[t].toExt \in Seq(ExtFrame)
    BY <1>1, SocketFields
  <2>3. QED
    BY <2>1, <2>2, Sent
<1>8. QED
  BY <1>1, <1>2, <1>3, <1>4, <1>6, <1>7

LEMMA ReadsMetaDoes ==
  ASSUME TypeInv, NEW s \in Socket, ReadsMeta(s)
  PROVE  /\ reader[s] = "reading"
         /\ socks[s].toHub # <<>> /\ Head(socks[s].toHub).type = "meta_update"
         /\ Head(socks[s].toHub).name \in Name
         /\ title' = IF s \in entered /\ Session \in DOMAIN listed
                     THEN [title EXCEPT ![listed[Session]] = Head(socks[s].toHub).name] ELSE title
         /\ socks' \in [Socket -> WebSocket]
         /\ \A t \in Socket :
              Is(socks'[t], socks[t].state, socks[t].owner,
                 IF t = s THEN Tail(socks[t].toHub) ELSE socks[t].toHub, socks[t].toExt)
         /\ UNCHANGED <<extVars, up, tokenVars, reader, directory, overlapped, faults>>
<1> DEFINE sent == [t \in Socket |-> <<>>]
<1>1. /\ TypeOK /\ reader[s] = "reading" /\ socks[s].toHub # <<>>
      /\ Head(socks[s].toHub).type = "meta_update" /\ socks' = Answered(s, sent)
      /\ title' = IF s \in entered /\ Session \in DOMAIN listed
                  THEN [title EXCEPT ![listed[Session]] = Head(socks[s].toHub).name] ELSE title
      /\ UNCHANGED <<extVars, up, tokenVars, reader, directory, overlapped, faults>>
  BY DEF ReadsMeta, Reads, TypeInv
<1>2. Head(socks[s].toHub).name \in Name
  <2>1. Head(socks[s].toHub) \in HubFrame
    BY <1>1, SocketFields, Shrunk
  <2>2. QED
    BY <1>1, <2>1, FrameTypes
<1>3. <<>> \in Seq(ExtFrame)
  OBVIOUS
<1>4. /\ socks' \in [Socket -> WebSocket]
      /\ \A t \in Socket :
           Is(socks'[t], socks[t].state, socks[t].owner,
              IF t = s THEN Tail(socks[t].toHub) ELSE socks[t].toHub, socks[t].toExt \o sent[t])
  BY <1>1, <1>3, AnsweredDoes
<1>5. \A t \in Socket : socks[t].toExt \o sent[t] = socks[t].toExt
  BY <1>1, SocketFields, Sent
<1>6. QED
  BY <1>1, <1>2, <1>4, <1>5

LEMMA ReadsCloseDoes ==
  ASSUME TypeInv, NEW s \in Socket, ReadsClose(s)
  PROVE  /\ reader[s] = "reading"
         /\ socks[s].toHub # <<>> /\ Head(socks[s].toHub).type = "close"
         /\ reader' \in [Socket -> {"none", "reading", "ended"}]
         /\ reader'[s] = "ended" /\ \A t \in Socket : t # s => reader'[t] = reader[t]
         /\ entered' = entered
         /\ IF s \in entered THEN DOMAIN listed' = {} ELSE listed' = listed
         /\ socks' \in [Socket -> WebSocket]
         /\ \A t \in Socket :
              Is(socks'[t], socks[t].state, socks[t].owner,
                 IF t = s THEN Tail(socks[t].toHub) ELSE socks[t].toHub,
                 IF t = s THEN Append(socks[t].toExt, "end") ELSE socks[t].toExt)
         /\ UNCHANGED <<extVars, up, tokenVars, title, overlapped, faults>>
<1> DEFINE sent == [t \in Socket |-> IF t = s THEN <<"end">> ELSE <<>>]
<1>1. /\ TypeOK /\ reader[s] = "reading" /\ socks[s].toHub # <<>>
      /\ Head(socks[s].toHub).type = "close" /\ socks' = Answered(s, sent)
      /\ reader' = [reader EXCEPT ![s] = "ended"]
      /\ UNCHANGED <<extVars, up, tokenVars, title, overlapped, faults>>
  BY DEF ReadsClose, Reads, TypeInv
<1>2. /\ entered' = entered
      /\ IF s \in entered THEN DOMAIN listed' = {} ELSE listed' = listed
  <2>1. CASE s \in entered /\ Session \in DOMAIN listed
    <3>1. entered' = entered /\ DOMAIN listed' = DOMAIN listed \ {Session}
      BY <2>1 DEF ReadsClose, Directory!Leave
    <3>2. QED
      BY <1>1, <2>1, <3>1 DEF TypeOK
  <2>2. CASE ~(s \in entered /\ Session \in DOMAIN listed)
    <3>1. entered' = entered /\ listed' = listed
      BY <2>2 DEF ReadsClose, directory
    <3>2. QED
      BY <1>1, <2>2, <3>1 DEF TypeOK
  <2>3. QED
    BY <2>1, <2>2
<1>3. sent \in [Socket -> Seq(ExtFrame)]
  <2>1. <<"end">> \in Seq(ExtFrame) /\ <<>> \in Seq(ExtFrame)
    BY DEF ExtFrame
  <2>2. QED
    BY <2>1
<1>4. /\ socks' \in [Socket -> WebSocket]
      /\ \A t \in Socket :
           Is(socks'[t], socks[t].state, socks[t].owner,
              IF t = s THEN Tail(socks[t].toHub) ELSE socks[t].toHub, socks[t].toExt \o sent[t])
  BY <1>1, <1>3, AnsweredDoes
<1>5. \A t \in Socket :
        socks[t].toExt \o sent[t] = IF t = s THEN Append(socks[t].toExt, "end") ELSE socks[t].toExt
  <2>1. "end" \in ExtFrame
    BY DEF ExtFrame
  <2>2. \A t \in Socket : socks[t].toExt \in Seq(ExtFrame)
    BY <1>1, SocketFields
  <2>3. QED
    BY <2>1, <2>2, Sent
<1>6. /\ reader' \in [Socket -> {"none", "reading", "ended"}]
      /\ reader'[s] = "ended" /\ \A t \in Socket : t # s => reader'[t] = reader[t]
  BY <1>1 DEF TypeOK
<1>7. QED
  BY <1>1, <1>2, <1>4, <1>5, <1>6

LEMMA CrashDoes ==
  ASSUME TypeInv, HubCrashes
  PROVE  /\ DOMAIN listed' = {} /\ listed' \in [{} -> Socket]
         /\ reader' \in [Socket -> {"none", "reading", "ended"}]
         /\ \A s \in Socket : reader'[s] = IF reader[s] = "reading" THEN "ended" ELSE reader[s]
         /\ socks' \in [Socket -> WebSocket]
         /\ \A s \in Socket :
              IF reader[s] = "reading"
              THEN Is(socks'[s], socks[s].state, socks[s].owner, socks[s].toHub, Append(socks[s].toExt, "end"))
              ELSE socks'[s] = socks[s]
         /\ up' = FALSE /\ faults < MaxFaults /\ faults' = faults + 1
         /\ UNCHANGED <<extVars, tokenVars, entered, title, overlapped>>
<1>1. TypeOK /\ "end" \in ExtFrame
  BY DEF TypeInv, ExtFrame
<1>2. ASSUME NEW s \in Socket
      PROVE  /\ [socks[s] EXCEPT !.toExt = Append(@, "end")] \in WebSocket
             /\ Is([socks[s] EXCEPT !.toExt = Append(@, "end")], socks[s].state, socks[s].owner,
                   socks[s].toHub, Append(socks[s].toExt, "end"))
  <2>1. /\ socks[s] \in WebSocket /\ socks[s].toHub \in Seq(HubFrame)
        /\ socks[s].toExt \in Seq(ExtFrame) /\ socks[s].state \in ReadyState
    BY <1>1, SocketFields
  <2>2. Append(socks[s].toExt, "end") \in Seq(ExtFrame)
    BY <1>1, <2>1
  <2>3. QED
    BY <2>1, <2>2, SocketChanged
<1>3. socks' = [s \in Socket |-> IF reader[s] = "reading"
                                THEN [socks[s] EXCEPT !.toExt = Append(@, "end")] ELSE socks[s]]
  BY DEF HubCrashes
<1>4. \A s \in Socket : socks[s] \in WebSocket
  BY <1>1, SocketFields
<1>5. /\ reader' \in [Socket -> {"none", "reading", "ended"}]
      /\ \A s \in Socket : reader'[s] = IF reader[s] = "reading" THEN "ended" ELSE reader[s]
  BY <1>1 DEF HubCrashes, TypeOK
<1>6. QED
  BY <1>2, <1>3, <1>4, <1>5 DEF HubCrashes

\* The client that is closed, if there is one.
LEMMA ClosedIs ==
  ASSUME TypeOK, NEW k \in Generation
  PROVE  IF k = client
         THEN /\ Closed(client)[k].closed = TRUE /\ Closed(client)[k].timer = FALSE
              /\ Closed(client)[k].ws = clients[k].ws /\ Closed(client)[k].status = clients[k].status
              /\ Closed(client)[k].name = clients[k].name
         ELSE Closed(client)[k] = clients[k]
<1>1. client = 0 => client # k
  BY DEF Generation
<1>2. clients[k] \in HubClient /\ clients \in [Generation -> HubClient]
  BY DEF TypeOK
<1>3. CASE client = 0
  BY <1>1, <1>3 DEF Closed
<1>4. CASE client # 0
  <2>1. Closed(client) = [clients EXCEPT ![client].closed = TRUE, ![client].timer = FALSE]
    BY <1>4 DEF Closed
  <2>2. CASE k = client
    <3>1. Closed(client)[k] = [clients[k] EXCEPT !.closed = TRUE, !.timer = FALSE]
      BY <1>2, <2>1, <2>2
    <3>2. QED
      BY <1>2, <2>2, <3>1 DEF HubClient
  <2>3. CASE k # client
    BY <1>2, <2>1, <2>3
  <2>4. QED
    BY <2>2, <2>3
<1>5. QED
  BY <1>3, <1>4

LEMMA StartDoes ==
  ASSUME TypeInv, Start
  PROVE  LET k == generation + 1 IN
         /\ k \in Generation /\ generation' = k /\ client' = k
         /\ socks' \in [Socket -> WebSocket] /\ clients' \in [Generation -> HubClient]
         /\ shown' = clients'[k].status
         /\ \A j \in Generation \ {k} : clients'[j] = Closed(client)[j]
         /\ clients'[k].closed = FALSE /\ clients'[k].name = name
         /\ clients'[k].status \in {"connecting", "error"}
         /\ \/ \E s \in Socket :
                 /\ IsNew(s, k)
                 /\ \A t \in Socket : t # s => socks'[t] = HungUp(client)[t]
                 /\ clients'[k].ws = s /\ clients'[k].timer = FALSE
            \/ /\ socks' = HungUp(client)
               /\ clients'[k].ws = None /\ clients'[k].timer = TRUE
         /\ UNCHANGED <<name, hubVars>>
<1> DEFINE k == generation + 1
           cs == [Closed(client) EXCEPT ![k] = NewClient(name)]
<1>1. /\ TypeOK /\ generation < MaxGenerations /\ generation' = k /\ client' = k
      /\ Dial(k, cs, HungUp(client)) /\ UNCHANGED <<name, hubVars>>
  BY DEF Start, TypeInv
<1>2. k \in Generation /\ k \in Nat
  BY <1>1, BoundAssumption DEF TypeOK, Generation
<1>3. NewClient(name) \in HubClient
  BY <1>1, NewClientType DEF TypeOK
<1>4. cs \in [Generation -> HubClient] /\ HungUp(client) \in [Socket -> WebSocket]
  BY <1>1, <1>3, ClosedType, HungUpType
<1>5. cs[k] = NewClient(name) /\ \A j \in Generation \ {k} : cs[j] = Closed(client)[j]
  BY <1>1, <1>2, ClosedType
<1>6. cs[k].closed = FALSE /\ cs[k].name = name /\ cs[k].ws = None /\ cs[k].timer = FALSE
  BY <1>5 DEF NewClient
<1>7. /\ socks' \in [Socket -> WebSocket] /\ clients' \in [Generation -> HubClient]
      /\ shown' = IF k = generation' THEN clients'[k].status ELSE shown
      /\ \A j \in Generation \ {k} : clients'[j] = cs[j]
      /\ clients'[k].closed = cs[k].closed /\ clients'[k].name = cs[k].name
      /\ clients'[k].status \in {"connecting", "error"}
      /\ \/ \E s \in Socket :
              /\ IsNew(s, k)
              /\ \A t \in Socket : t # s => socks'[t] = HungUp(client)[t]
              /\ clients'[k].ws = s /\ clients'[k].timer = cs[k].timer
         \/ /\ socks' = HungUp(client)
            /\ clients'[k].ws = cs[k].ws /\ clients'[k].timer = TRUE
  <2> HIDE DEF k, cs
  <2>1. QED
    BY <1>1, <1>2, <1>4, Dialled
<1> HIDE DEF cs
<1>8. QED
  BY <1>1, <1>2, <1>5, <1>6, <1>7

LEMMA RetryDoes ==
  ASSUME TypeInv, NEW k \in Generation, Retry(k)
  PROVE  /\ clients[k].timer
         /\ socks' \in [Socket -> WebSocket] /\ clients' \in [Generation -> HubClient]
         /\ shown' = IF k = generation THEN clients'[k].status ELSE shown
         /\ \A j \in Generation \ {k} : clients'[j] = clients[j]
         /\ clients'[k].closed = clients[k].closed /\ clients'[k].name = clients[k].name
         /\ clients'[k].status \in {"connecting", "error"}
         /\ \/ \E s \in Socket :
                 /\ IsNew(s, k)
                 /\ \A t \in Socket : t # s => socks'[t] = socks[t]
                 /\ clients'[k].ws = s /\ clients'[k].timer = FALSE
            \/ socks' = socks /\ clients'[k].ws = clients[k].ws
         /\ UNCHANGED <<generation, client, name, hubVars>>
<1> DEFINE cs == [clients EXCEPT ![k].timer = FALSE]
<1>1. /\ TypeOK /\ clients[k].timer /\ generation' = generation
      /\ Dial(k, cs, socks) /\ UNCHANGED <<generation, client, name, hubVars>>
  BY DEF Retry, TypeInv
<1>2. generation' \in Nat
  BY <1>1, BoundAssumption DEF TypeOK
<1>3. clients[k] \in HubClient /\ clients \in [Generation -> HubClient] /\ socks \in [Socket -> WebSocket]
  BY <1>1 DEF TypeOK
<1>4. cs[k] = [clients[k] EXCEPT !.timer = FALSE] /\ \A j \in Generation \ {k} : cs[j] = clients[j]
  BY <1>3
<1>5. /\ cs[k] \in HubClient /\ cs[k].closed = clients[k].closed /\ cs[k].name = clients[k].name
      /\ cs[k].ws = clients[k].ws /\ cs[k].timer = FALSE
  BY <1>3, <1>4 DEF HubClient
<1>6. cs \in [Generation -> HubClient]
  BY <1>3, <1>4, <1>5
<1>7. /\ socks' \in [Socket -> WebSocket] /\ clients' \in [Generation -> HubClient]
      /\ shown' = IF k = generation' THEN clients'[k].status ELSE shown
      /\ \A j \in Generation \ {k} : clients'[j] = cs[j]
      /\ clients'[k].closed = cs[k].closed /\ clients'[k].name = cs[k].name
      /\ clients'[k].status \in {"connecting", "error"}
      /\ \/ \E s \in Socket :
              /\ IsNew(s, k)
              /\ \A t \in Socket : t # s => socks'[t] = socks[t]
              /\ clients'[k].ws = s /\ clients'[k].timer = cs[k].timer
         \/ /\ socks' = socks
            /\ clients'[k].ws = cs[k].ws /\ clients'[k].timer = TRUE
  <2> HIDE DEF cs
  <2>1. QED
    BY <1>1, <1>2, <1>3, <1>6, Dialled
<1> HIDE DEF cs
<1>8. QED
  BY <1>1, <1>4, <1>5, <1>7

LEMMA RenameDoes ==
  ASSUME TypeInv, Rename
  PROVE  LET w == clients[client].ws
             frame == [type |-> "meta_update", name |-> name + 1] IN
         /\ name' = name + 1 /\ name' \in Name /\ frame \in HubFrame
         /\ clients' \in [Generation -> HubClient] /\ socks' \in [Socket -> WebSocket]
         /\ client = 0 => clients' = clients /\ socks' = socks
         /\ client # 0 =>
              /\ client \in Generation
              /\ clients'[client] = [clients[client] EXCEPT !.name = name + 1]
              /\ \A j \in Generation : j # client => clients'[j] = clients[j]
              /\ \/ /\ w \in Socket /\ socks[w].state = "open"
                    /\ Is(socks'[w], "open", socks[w].owner, Append(socks[w].toHub, frame), socks[w].toExt)
                    /\ \A t \in Socket : t # w => socks'[t] = socks[t]
                 \/ socks' = socks /\ ~(w \in Socket /\ socks[w].state = "open")
         /\ UNCHANGED <<generation, client, shown, hubVars>>
<1> DEFINE w == clients[client].ws
           frame == [type |-> "meta_update", name |-> name + 1]
           v == [socks[w] EXCEPT !.toHub = Append(socks[w].toHub, frame)]
<1>1. /\ TypeOK /\ name < MaxRenames /\ name' = name + 1
      /\ UNCHANGED <<generation, client, shown, hubVars>>
  BY DEF Rename, TypeInv
<1>2. name + 1 \in Name
  BY <1>1, BoundAssumption DEF TypeOK, Name
<1>3. frame \in HubFrame
  BY <1>2, FrameTypes
<1>4. CASE client = 0
  BY <1>1, <1>2, <1>3, <1>4 DEF Rename, TypeOK
<1>5. CASE client # 0
  <2>1. client \in Generation /\ clients[client] \in HubClient
    BY <1>1, <1>5, BoundAssumption DEF TypeOK, Generation
  <2>2. clients' = [clients EXCEPT ![client] = [clients[client] EXCEPT !.name = name + 1]]
    BY <1>1, <1>5, <2>1 DEF Rename, TypeOK
  <2>3. [clients[client] EXCEPT !.name = name + 1] \in HubClient
    BY <1>2, <2>1 DEF HubClient
  <2>4. /\ clients' \in [Generation -> HubClient]
        /\ clients'[client] = [clients[client] EXCEPT !.name = name + 1]
        /\ \A j \in Generation : j # client => clients'[j] = clients[j]
    BY <1>1, <2>1, <2>2, <2>3 DEF TypeOK
  <2>5. CASE w \in Socket /\ socks[w].state = "open"
    <3>1. /\ socks[w] \in WebSocket /\ socks[w].toHub \in Seq(HubFrame)
      BY <1>1, <2>5, SocketFields
    <3>2. Append(socks[w].toHub, frame) \in Seq(HubFrame)
      BY <1>3, <3>1
    <3>3. v \in WebSocket /\ Is(v, "open", socks[w].owner, Append(socks[w].toHub, frame), socks[w].toExt)
      BY <2>5, <3>1, <3>2 DEF WebSocket, Is
    <3>4. socks' = [socks EXCEPT ![w] = v]
      BY <1>1, <1>5, <2>5 DEF Rename, Transmit, TypeOK
    <3>5. QED
      BY <1>1, <1>2, <1>3, <1>5, <2>1, <2>4, <2>5, <3>3, <3>4, OneSocket
  <2>6. CASE ~(w \in Socket /\ socks[w].state = "open")
    <3>1. socks' = socks
      BY <1>5, <2>6 DEF Rename, Transmit
    <3>2. QED
      BY <1>1, <1>2, <1>3, <1>5, <2>1, <2>4, <2>6, <3>1 DEF TypeOK
  <2>7. QED
    BY <2>5, <2>6
<1>6. QED
  BY <1>4, <1>5

LEMMA StopDoes ==
  ASSUME TypeInv, Stop
  PROVE  /\ generation' = generation + 1 /\ generation + 1 \in Generation /\ client' = 0
         /\ clients' = Closed(client) /\ clients' \in [Generation -> HubClient]
         /\ socks' = HungUp(client) /\ socks' \in [Socket -> WebSocket]
         /\ shown' = "off"
         /\ UNCHANGED <<name, hubVars>>
<1>1. TypeOK /\ generation < MaxGenerations
  BY DEF Stop, TypeInv
<1>2. generation + 1 \in Generation
  BY <1>1, BoundAssumption DEF TypeOK, Generation
<1>3. QED
  BY <1>1, <1>2, ClosedType, HungUpType DEF Stop

\* A Hub that starts touches the token, and no connection.
LEMMA HubStarts ==
  ASSUME TypeInv, HubLoads \/ HubFindsNone \/ HubWrites
  PROVE  /\ up' \in BOOLEAN /\ raced' \in BOOLEAN /\ faults' \in 0..MaxFaults
         /\ token' \in Token /\ secret' \in Token /\ starting' \in Token /\ made' \in Token
         /\ starting' + made' <= MaxTokens
         /\ UNCHANGED <<extVars, socks, reader, directory, title, overlapped>>
<1>1. /\ MaxTokens \in Nat /\ MaxFaults \in Nat /\ Token = 0..MaxTokens
      /\ token \in Token /\ secret \in Token /\ starting \in Token /\ made \in Token
      /\ up \in BOOLEAN /\ raced \in BOOLEAN /\ faults \in 0..MaxFaults
      /\ starting + made <= MaxTokens
  BY BoundAssumption DEF TypeInv, TypeOK, Token
<1>2. CASE HubLoads
  BY <1>1, <1>2 DEF HubLoads
<1>3. CASE HubFindsNone
  <2>1. faults' \in 0..MaxFaults
    BY <1>1, <1>3 DEF HubFindsNone
  <2>2. starting' \in Token /\ starting' + made' <= MaxTokens /\ made' = made
    BY <1>1, <1>3 DEF HubFindsNone
  <2>3. QED
    BY <1>1, <1>3, <2>1, <2>2 DEF HubFindsNone
<1>4. CASE HubWrites
  <2>1. /\ starting' \in Token /\ made' \in Token /\ token' \in Token
        /\ starting' + made' <= MaxTokens /\ secret' \in Token
    BY <1>1, <1>4 DEF HubWrites
  <2>2. up' \in BOOLEAN /\ raced' \in BOOLEAN
    BY <1>1, <1>4 DEF HubWrites
  <2>3. QED
    BY <1>1, <1>4, <2>1, <2>2 DEF HubWrites
<1>5. QED
  BY <1>2, <1>3, <1>4

\* The steps, for the proofs that split on them.
LEMMA Steps ==
  ASSUME [Next]_vars
  PROVE  \/ \E s \in Socket :
              \/ OnOpen(s) \/ OnRegistered(s) \/ OnCloseFrame(s) \/ OnClose(s) \/ OnRefused(s)
              \/ Accept(s) \/ ReadsRegister(s) \/ ReadsMeta(s) \/ ReadsClose(s)
         \/ \E k \in Generation : Retry(k)
         \/ Start \/ Stop \/ Rename \/ HubCrashes
         \/ HubLoads \/ HubFindsNone \/ HubWrites
         \/ UNCHANGED vars
BY DEF Next, ExtTask, HubTask

-----------------------------------------------------------------------------
(* The types hold                                                          *)

LEMMA InitTypes == Init => TypeInv
<1>1. SUFFICES ASSUME Init PROVE TypeInv
  OBVIOUS
<1>2. 0 \in Name /\ 0 \in Token
  BY BoundAssumption DEF Name, Token
<1>3. clients \in [Generation -> HubClient] /\ socks \in [Socket -> WebSocket]
  BY <1>1, <1>2, NewClientType, UnusedType DEF Init
<1>4. DOMAIN listed = {} /\ entered = {}
  BY <1>1 DEF Init, Directory!DirectoryInit
<1>5. listed \in [DOMAIN listed -> Socket]
  BY <1>1, <1>4 DEF Init, Directory!DirectoryInit
<1>6. TypeOK
  <2>1. /\ generation \in 0..MaxGenerations /\ client \in 0..MaxGenerations
        /\ faults \in 0..MaxFaults /\ name \in Name /\ {token, secret, starting, made} \subseteq Token
    BY <1>1, <1>2, BoundAssumption DEF Init
  <2>2. /\ shown \in ConnectionStatus \cup {"off"} /\ up \in BOOLEAN /\ raced \in BOOLEAN
        /\ overlapped = {}
    BY <1>1 DEF Init
  <2>3. /\ reader \in [Socket -> {"none", "reading", "ended"}] /\ title \in [Socket -> Name]
    BY <1>1, <1>2 DEF Init
  <2>4. QED
    BY <1>3, <1>4, <1>5, <2>1, <2>2, <2>3 DEF TypeOK
<1>7. \A s \in Socket : FreshOK(s)
  BY <1>1 DEF Init, FreshOK, Unused
<1>8. starting + made <= MaxTokens
  BY <1>1, BoundAssumption DEF Init
<1>9. QED
  BY <1>4, <1>6, <1>7, <1>8 DEF TypeInv, ListedReads

\* A step that leaves the directory, the readers and the Hub alone needs its
\* sockets and its clients only.
LEMMA ClientTypes ==
  ASSUME TypeInv, socks' \in [Socket -> WebSocket], clients' \in [Generation -> HubClient],
         generation' \in 0..MaxGenerations, client' \in 0..MaxGenerations,
         shown' \in ConnectionStatus \cup {"off"}, name' \in Name,
         UNCHANGED hubVars, \A s \in Socket : FreshOK(s)'
  PROVE  TypeInv'
<1>1. TypeOK'
  BY DEF TypeInv, TypeOK, hubVars, tokenVars, directory
<1>2. starting' + made' <= MaxTokens /\ ListedReads'
  BY DEF TypeInv, ListedReads, hubVars, tokenVars, directory
<1>3. QED
  BY <1>1, <1>2 DEF TypeInv

\* And a step of the Hub needs its sockets and what it serves.
LEMMA ServerTypes ==
  ASSUME TypeInv, socks' \in [Socket -> WebSocket], UNCHANGED <<extVars, tokenVars>>,
         up' \in BOOLEAN, reader' \in [Socket -> {"none", "reading", "ended"}],
         DOMAIN listed' \subseteq {Session}, listed' \in [DOMAIN listed' -> Socket],
         overlapped' \subseteq entered', entered' \subseteq Socket,
         title' \in [Socket -> Name], faults' \in 0..MaxFaults,
         \A s \in Socket : FreshOK(s)', ListedReads'
  PROVE  TypeInv'
<1>1. TypeOK'
  BY DEF TypeInv, TypeOK, extVars, tokenVars
<1>2. starting' + made' <= MaxTokens
  BY DEF TypeInv, tokenVars
<1>3. QED
  BY <1>1, <1>2 DEF TypeInv

LEMMA ClientTypesStep ==
  ASSUME TypeInv, NEW s \in Socket,
         OnOpen(s) \/ OnRegistered(s) \/ OnCloseFrame(s) \/ OnClose(s) \/ OnRefused(s)
  PROVE  TypeInv'
<1>1. /\ TypeOK /\ \A t \in Socket : FreshOK(t)
      /\ \A t \in Socket : socks[t].state \in ReadyState
  BY SocketFields DEF TypeInv
<1>2. CASE OnOpen(s)
  <2>1. \A t \in Socket : FreshOK(t)'
    BY <1>1, <1>2, OpenDoes DEF FreshOK, Is, hubVars
  <2>2. QED
    BY <1>1, <1>2, <2>1, OpenDoes, ClientTypes DEF extVars, TypeOK
<1>3. CASE OnRegistered(s)
  <2>1. \A t \in Socket : FreshOK(t)'
    <3>1. /\ socks'[s].state = socks[s].state /\ socks'[s].owner = socks[s].owner
          /\ socks[s].state # "unused" /\ reader' = reader
          /\ \A t \in Socket : t # s => socks'[t] = socks[t]
      BY <1>1, <1>3, RegisteredDoes DEF Is, hubVars
    <3>2. QED
      BY <1>1, <3>1 DEF FreshOK
  <2>2. shown' \in ConnectionStatus \cup {"off"}
    BY <1>1, <1>3, RegisteredDoes DEF TypeOK, ConnectionStatus
  <2>3. QED
    BY <1>1, <1>3, <2>1, <2>2, RegisteredDoes, ClientTypes DEF TypeOK
<1>4. CASE OnCloseFrame(s)
  <2>1. \A t \in Socket : FreshOK(t)'
    BY <1>1, <1>4, CloseFrameDoes DEF FreshOK, Is, hubVars
  <2>2. QED
    BY <1>1, <1>4, <2>1, CloseFrameDoes, ClientTypes DEF extVars, TypeOK
<1>5. CASE OnClose(s)
  <2>1. UNCHANGED hubVars
    BY <1>5, CloseDoes, ClosesDoes
  <2>2. \A t \in Socket : FreshOK(t)'
    BY <1>1, <1>5, <2>1, CloseDoes DEF FreshOK, Is, hubVars
  <2>3. shown' \in ConnectionStatus \cup {"off"}
    BY <1>1, <1>5, CloseDoes, ClosesDoes DEF TypeOK, ConnectionStatus
  <2>4. QED
    BY <1>1, <1>5, <2>2, <2>3, CloseDoes, ClosesDoes, ClientTypes DEF TypeOK
<1>6. CASE OnRefused(s)
  <2>1. UNCHANGED hubVars
    BY <1>6, RefusedDoes, ClosesDoes
  <2>2. \A t \in Socket : FreshOK(t)'
    BY <1>1, <1>6, <2>1, RefusedDoes DEF FreshOK, Unused, hubVars
  <2>3. shown' \in ConnectionStatus \cup {"off"}
    BY <1>1, <1>6, RefusedDoes, ClosesDoes DEF TypeOK, ConnectionStatus
  <2>4. QED
    BY <1>1, <1>6, <2>2, <2>3, RefusedDoes, ClosesDoes, ClientTypes DEF TypeOK
<1>7. QED
  BY <1>2, <1>3, <1>4, <1>5, <1>6

LEMMA ServerTypesStep ==
  ASSUME TypeInv, NEW s \in Socket, Accept(s) \/ ReadsRegister(s) \/ ReadsMeta(s) \/ ReadsClose(s)
  PROVE  TypeInv'
<1>1. /\ TypeOK /\ (\A t \in Socket : FreshOK(t)) /\ ListedReads
      /\ up \in BOOLEAN /\ faults \in 0..MaxFaults
  BY DEF TypeInv, TypeOK
<1>2. CASE Accept(s)
  <2>1. \A t \in Socket : FreshOK(t)'
    BY <1>1, <1>2, AcceptDoes DEF FreshOK, Is
  <2>2. ListedReads'
    <3>1. listed' = listed /\ entered' = entered
      BY <1>2, AcceptDoes DEF directory
    <3>2. Session \in DOMAIN listed => listed[Session] \in Socket
      BY <1>1 DEF TypeOK
    <3>3. QED
      BY <1>1, <1>2, <3>1, <3>2, AcceptDoes DEF ListedReads
  <2>3. QED
    BY <1>1, <1>2, <2>1, <2>2, AcceptDoes, ServerTypes DEF TypeOK, directory
<1>3. CASE ReadsRegister(s)
  <2>1. \A t \in Socket : FreshOK(t)'
    BY <1>1, <1>3, ReadsRegisterDoes DEF FreshOK, Is, ListedReads
  <2>2. ListedReads'
    BY <1>3, ReadsRegisterDoes DEF ListedReads
  <2>3. title' \in [Socket -> Name] /\ entered' \subseteq Socket /\ overlapped' \subseteq entered'
    BY <1>1, <1>3, ReadsRegisterDoes DEF TypeOK
  <2>4. QED
    BY <1>1, <1>3, <2>1, <2>2, <2>3, ReadsRegisterDoes, ServerTypes DEF TypeOK
<1>4. CASE ReadsMeta(s)
  <2>1. \A t \in Socket : FreshOK(t)'
    BY <1>1, <1>4, ReadsMetaDoes DEF FreshOK, Is
  <2>2. ListedReads'
    BY <1>1, <1>4, ReadsMetaDoes DEF ListedReads, directory
  <2>3. title' \in [Socket -> Name]
    BY <1>1, <1>4, ReadsMetaDoes DEF TypeOK
  <2>4. QED
    BY <1>1, <1>4, <2>1, <2>2, <2>3, ReadsMetaDoes, ServerTypes DEF TypeOK, directory
<1>5. CASE ReadsClose(s)
  <2>1. \A t \in Socket : FreshOK(t)'
    BY <1>1, <1>5, ReadsCloseDoes DEF FreshOK, Is
  <2>2. Session \in DOMAIN listed' => listed' = listed /\ s \notin entered
    BY <1>5, ReadsCloseDoes
  <2>3. ListedReads'
    <3>1. Session \in DOMAIN listed => listed[Session] \in Socket
      BY <1>1 DEF TypeOK
    <3>2. QED
      BY <1>1, <1>5, <2>2, <3>1, ReadsCloseDoes DEF ListedReads
  <2>4. DOMAIN listed' \subseteq {Session} /\ listed' \in [DOMAIN listed' -> Socket]
    <3>1. CASE s \in entered /\ Session \in DOMAIN listed
      BY <1>1, <1>5, <3>1 DEF ReadsClose, Directory!Leave, TypeOK
    <3>2. CASE ~(s \in entered /\ Session \in DOMAIN listed)
      BY <1>1, <1>5, <3>2 DEF ReadsClose, directory, TypeOK
    <3>3. QED
      BY <3>1, <3>2
  <2>5. QED
    BY <1>1, <1>5, <2>1, <2>3, <2>4, ReadsCloseDoes, ServerTypes DEF TypeOK
<1>6. QED
  BY <1>2, <1>3, <1>4, <1>5

LEMMA StepTypes == TypeInv /\ [Next]_vars => TypeInv'
<1>1. SUFFICES ASSUME TypeInv, [Next]_vars PROVE TypeInv'
  OBVIOUS
<1>2. /\ TypeOK /\ (\A t \in Socket : FreshOK(t)) /\ ListedReads
      /\ \A t \in Socket : socks[t].state \in ReadyState
  BY <1>1, SocketFields DEF TypeInv
<1>3. ASSUME NEW s \in Socket,
             \/ OnOpen(s) \/ OnRegistered(s) \/ OnCloseFrame(s) \/ OnClose(s) \/ OnRefused(s)
             \/ Accept(s) \/ ReadsRegister(s) \/ ReadsMeta(s) \/ ReadsClose(s)
      PROVE  TypeInv'
  BY <1>1, <1>3, ClientTypesStep, ServerTypesStep
<1>4. ASSUME NEW k \in Generation, Retry(k) PROVE TypeInv'
  <2>1. \A t \in Socket : FreshOK(t)'
    <3>1. \A t \in Socket : socks'[t] = socks[t] \/ IsNew(t, k)
      BY <1>1, <1>4, RetryDoes
    <3>2. reader' = reader
      BY <1>1, <1>4, RetryDoes DEF hubVars
    <3>3. QED
      BY <1>2, <3>1, <3>2 DEF FreshOK, IsNew, Is
  <2>2. shown' \in ConnectionStatus \cup {"off"}
    BY <1>1, <1>2, <1>4, RetryDoes DEF TypeOK, ConnectionStatus
  <2>3. QED
    BY <1>1, <1>2, <1>4, <2>1, <2>2, RetryDoes, ClientTypes DEF TypeOK
<1>5. \A t \in Socket : /\ HungUp(client)[t].state = "unused" <=> socks[t].state = "unused"
                        /\ HungUp(client)[t].owner = socks[t].owner
                        /\ HungUp(client)[t].toExt = socks[t].toExt
                        /\ socks[t].state = "unused" => HungUp(client)[t].toHub = socks[t].toHub
  BY <1>2, HungUpType
<1>6. CASE Start
  <2>1. \A t \in Socket : FreshOK(t)'
    <3>1. /\ generation + 1 \in Generation
          /\ \A t \in Socket : socks'[t] = HungUp(client)[t] \/ IsNew(t, generation + 1)
      BY <1>1, <1>6, StartDoes
    <3>2. reader' = reader
      BY <1>1, <1>6, StartDoes DEF hubVars
    <3>3. QED
      BY <1>2, <1>5, <3>1, <3>2 DEF FreshOK, IsNew, Is
  <2>2. generation + 1 \in 0..MaxGenerations /\ name' \in Name /\ UNCHANGED hubVars
    BY <1>1, <1>2, <1>6, StartDoes DEF TypeOK, Generation
  <2>3. shown' \in ConnectionStatus
    BY <1>1, <1>6, StartDoes DEF ConnectionStatus
  <2>4. QED
    BY <1>1, <1>6, <2>1, <2>2, <2>3, StartDoes, ClientTypes
<1>7. CASE Stop
  <2>1. \A t \in Socket : FreshOK(t)'
    BY <1>1, <1>2, <1>5, <1>7, StopDoes DEF FreshOK, hubVars
  <2>2. /\ generation + 1 \in 0..MaxGenerations /\ 0 \in 0..MaxGenerations
        /\ name' \in Name /\ UNCHANGED hubVars
    BY <1>1, <1>2, <1>7, StopDoes, BoundAssumption DEF TypeOK, Generation
  <2>3. QED
    BY <1>1, <1>7, <2>1, <2>2, StopDoes, ClientTypes
<1>8. CASE Rename
  <2>1. \A t \in Socket : FreshOK(t)'
    BY <1>1, <1>2, <1>8, RenameDoes DEF FreshOK, Is, hubVars
  <2>2. QED
    BY <1>1, <1>2, <1>8, <2>1, RenameDoes, ClientTypes DEF TypeOK
<1>9. CASE HubCrashes
  <2>1. \A t \in Socket : FreshOK(t)'
    BY <1>1, <1>2, <1>9, CrashDoes DEF FreshOK, Is
  <2>2. ListedReads' /\ DOMAIN listed' \subseteq {Session} /\ listed' \in [DOMAIN listed' -> Socket]
    BY <1>1, <1>9, CrashDoes DEF ListedReads
  <2>3. faults' \in 0..MaxFaults /\ up' \in BOOLEAN
    BY <1>1, <1>2, <1>9, CrashDoes, BoundAssumption DEF TypeOK
  <2>4. QED
    BY <1>1, <1>2, <1>9, <2>1, <2>2, <2>3, CrashDoes, ServerTypes DEF TypeOK
<1>10. CASE HubLoads \/ HubFindsNone \/ HubWrites
  <2>1. TypeOK' /\ starting' + made' <= MaxTokens
    BY <1>1, <1>2, <1>10, HubStarts DEF TypeOK, extVars, directory
  <2>2. (\A t \in Socket : FreshOK(t)') /\ ListedReads'
    BY <1>1, <1>2, <1>10, HubStarts DEF FreshOK, ListedReads, directory
  <2>3. QED
    BY <2>1, <2>2 DEF TypeInv
<1>11. CASE UNCHANGED vars
  BY <1>1, <1>11 DEF TypeInv, TypeOK, FreshOK, ListedReads, vars, extVars, hubVars, tokenVars, directory
<1>12. QED
  BY <1>1, <1>3, <1>4, <1>6, <1>7, <1>8, <1>9, <1>10, <1>11, Steps

-----------------------------------------------------------------------------
(* Wires: what is on them in each state of a socket                        *)

\* Of a socket w, its reader r and whether it has registered.  The Hub reads until
\* a Close, and a socket is open for as long as no Close is on its wire.
Wired(w, r, stage) ==
  /\ r = "none" => w.state \in {"unused", "connecting", "aborted", "closed"} /\ w.toExt = <<>> /\ stage = "new"
  /\ Has(w.toExt, "end") => r = "ended"
  /\ r = "ended" => w.state = "closed" \/ Has(w.toExt, "end")
  /\ Has(w.toExt, "registered") => stage = "known"
  /\ r = "reading" /\ w.state \notin {"connecting", "open"} => Carries(w.toHub, "close")
  /\ w.state = "unused" => r = "none"
  /\ w.state = "connecting" => w.toHub = <<>> /\ stage = "new"
  /\ w.state = "open" =>
       /\ ~Carries(w.toHub, "close")
       /\ stage = "known" \/ (w.toHub # <<>> /\ w.toHub[1].type = "register")
  /\ Framed(w.toHub, stage)

Stage(s) == IF s \in entered THEN "known" ELSE "new"

WireOK(s) == Wired(socks[s], reader[s], Stage(s))

\* The lemmas follow a socket w, read by r, that becomes v.
LEMMA WiredOpens ==
  ASSUME NEW w \in WebSocket, NEW v \in WebSocket, NEW r, r # "none", NEW stage \in {"known", "new"},
         NEW frame \in HubFrame, frame.type = "register", w.state = "connecting",
         Is(v, "open", w.owner, Append(w.toHub, frame), w.toExt), Wired(w, r, stage)
  PROVE  Wired(v, r, stage)
<1>1. w.toHub = <<>> /\ stage = "new" /\ w.toHub \in Seq(HubFrame)
  BY DEF Wired, WebSocket
<1>2. /\ v.state = "open" /\ v.toHub = Append(w.toHub, frame) /\ v.toExt = w.toExt
  BY DEF Is
<1>3. Framed(w.toHub, stage) /\ ~Carries(w.toHub, "close")
  BY <1>1, EmptyWire
<1>4. Append(w.toHub, frame) # <<>>
  BY <1>1, Grown
<1>5. Framed(v.toHub, stage) /\ v.toHub[1] = frame
  <2>1. /\ Framed(Append(w.toHub, frame), stage)
        /\ w.toHub = <<>> => Append(w.toHub, frame)[1] = frame
    BY <1>1, <1>3, GrownFramed
  <2>2. QED
    BY <1>1, <1>2, <2>1
<1>6. ~Carries(v.toHub, "close")
  <2>1. w.toHub \in Seq(HubFrame) /\ ~Carries(w.toHub, "close")
    BY <1>1, <1>3
  <2>2. Carries(Append(w.toHub, frame), "close") <=> Carries(w.toHub, "close") \/ frame.type = "close"
    BY <2>1, GrownCarries
  <2>3. QED
    BY <1>2, <2>1, <2>2
<1>7. QED
  BY <1>1, <1>2, <1>4, <1>5, <1>6 DEF Wired

LEMMA WiredHears ==
  ASSUME NEW w \in WebSocket, NEW v \in WebSocket, NEW r, NEW stage \in {"known", "new"},
         w.toExt # <<>>, Head(w.toExt) # "end", Wired(w, r, stage),
         \/ Is(v, w.state, w.owner, w.toHub, Tail(w.toExt))
         \/ /\ w.state = "open"
            /\ Is(v, "closing", w.owner, Append(w.toHub, [type |-> "close"]), Tail(w.toExt))
  PROVE  Wired(v, r, stage)
<1>1. w.toHub \in Seq(HubFrame) /\ w.toExt \in Seq(ExtFrame) /\ [type |-> "close"] \in HubFrame
  BY FrameTypes DEF WebSocket
<1>2. v.toExt = Tail(w.toExt)
  BY DEF Is
<1>3. /\ Has(v.toExt, "end") <=> Has(w.toExt, "end")
      /\ Has(v.toExt, "registered") => Has(w.toExt, "registered")
      /\ r # "none"
  BY <1>1, <1>2, ShrunkHas DEF Wired
<1>4. CASE w.state = "open" /\ v.state = "closing" /\ v.toHub = Append(w.toHub, [type |-> "close"])
  <2>1. Framed(v.toHub, stage) /\ Carries(v.toHub, "close")
    BY <1>1, <1>4, GrownFramed, GrownCarries DEF Wired
  <2>2. QED
    BY <1>2, <1>3, <1>4, <2>1 DEF Wired
<1>5. CASE v.state = w.state /\ v.toHub = w.toHub
  BY <1>2, <1>3, <1>5 DEF Wired
<1>6. QED
  BY <1>4, <1>5 DEF Is

LEMMA WiredCloses ==
  ASSUME NEW w \in WebSocket, NEW v \in WebSocket, NEW r, NEW stage \in {"known", "new"},
         (w.toExt # <<>> /\ Head(w.toExt) = "end") \/ w.state = "aborted",
         Is(v, "closed", w.owner, w.toHub, <<>>), Wired(w, r, stage)
  PROVE  Wired(v, r, stage) /\ (w.state # "aborted" => r = "ended")
<1>1. w.toExt \in Seq(ExtFrame)
  BY DEF WebSocket
<1>2. v.state = "closed" /\ v.toExt = <<>> /\ v.toHub = w.toHub
  BY DEF Is
<1>3. w.state # "aborted" => r = "ended"
  BY <1>1, ShrunkHas DEF Wired
<1>4. QED
  BY <1>2, <1>3, EmptyWire DEF Wired

LEMMA WiredFresh ==
  ASSUME NEW v \in WebSocket, Is(v, "connecting", v.owner, <<>>, <<>>) \/ v = Unused
  PROVE  Wired(v, "none", "new")
<1>1. v.state \in {"unused", "connecting"} /\ v.toHub = <<>> /\ v.toExt = <<>>
  BY DEF Is, Unused
<1>2. QED
  BY <1>1, EmptyWire DEF Wired

LEMMA WiredAccepted ==
  ASSUME NEW w \in WebSocket, NEW v \in WebSocket, w.state = "connecting",
         Is(v, w.state, w.owner, w.toHub, w.toExt), NEW stage \in {"known", "new"}, Wired(w, "none", stage)
  PROVE  Wired(v, "reading", stage)
<1>1. v.state = "connecting" /\ v.toHub = <<>> /\ v.toExt = <<>> /\ stage = "new"
  BY DEF Is, Wired
<1>2. QED
  BY <1>1, EmptyWire DEF Wired

\* The Hub reads a frame that is no Close and may acknowledge it.
LEMMA WiredRead ==
  ASSUME NEW w \in WebSocket, NEW v \in WebSocket, NEW stage \in {"known", "new"}, NEW now \in {"known", "new"},
         w.toHub # <<>>, Wired(w, "reading", stage),
         \/ /\ Head(w.toHub).type = "register" /\ now = "known"
            /\ Is(v, w.state, w.owner, Tail(w.toHub), Append(w.toExt, "registered"))
         \/ /\ Head(w.toHub).type = "meta_update" /\ now = stage
            /\ Is(v, w.state, w.owner, Tail(w.toHub), w.toExt)
  PROVE  Wired(v, "reading", now) /\ now = "known"
<1>1. w.toHub \in Seq(HubFrame) /\ w.toExt \in Seq(ExtFrame) /\ "registered" \in ExtFrame
  BY DEF WebSocket, ExtFrame
<1>2. v.state = w.state /\ v.toHub = Tail(w.toHub)
  BY DEF Is
<1>3. /\ Head(w.toHub).type = "register" => stage = "new" /\ Framed(v.toHub, "known")
      /\ Head(w.toHub).type # "register" => Framed(v.toHub, stage)
      /\ Head(w.toHub).type = "meta_update" => stage = "known"
  BY <1>1, <1>2, ShrunkFramed DEF Wired
<1>4. now = "known" /\ Framed(v.toHub, now)
  BY <1>3
<1>5. Carries(v.toHub, "close") <=> Carries(w.toHub, "close")
  BY <1>1, <1>2, ShrunkCarries
<1>6. Has(v.toExt, "end") <=> Has(w.toExt, "end")
  <2>1. Has(Append(w.toExt, "registered"), "end") <=> Has(w.toExt, "end")
    BY <1>1, GrownHas
  <2>2. QED
    BY <2>1 DEF Is
<1>7. w.state # "connecting"
  BY DEF Wired
<1>8. QED
  BY <1>2, <1>4, <1>5, <1>6, <1>7 DEF Wired

\* The Hub is done with a connection: it has read the Close, or it goes down.
LEMMA WiredEnds ==
  ASSUME NEW w \in WebSocket, NEW v \in WebSocket, NEW stage \in {"known", "new"}, Wired(w, "reading", stage),
         \/ /\ w.toHub # <<>> /\ Head(w.toHub).type = "close"
            /\ Is(v, w.state, w.owner, Tail(w.toHub), Append(w.toExt, "end"))
         \/ Is(v, w.state, w.owner, w.toHub, Append(w.toExt, "end"))
  PROVE  Wired(v, "ended", stage)
<1>1. w.toHub \in Seq(HubFrame) /\ w.toExt \in Seq(ExtFrame) /\ "end" \in ExtFrame
  BY DEF WebSocket, ExtFrame
<1>2. v.state = w.state /\ v.toExt = Append(w.toExt, "end")
  BY DEF Is
<1>3. Has(v.toExt, "end") /\ (Has(v.toExt, "registered") => Has(w.toExt, "registered"))
  BY <1>1, <1>2, GrownHas
<1>4. CASE v.toHub = w.toHub
  BY <1>2, <1>3, <1>4 DEF Wired
<1>5. CASE w.toHub # <<>> /\ Head(w.toHub).type = "close" /\ v.toHub = Tail(w.toHub)
  <2>1. Framed(v.toHub, stage) /\ Carries(w.toHub, "close")
    BY <1>1, <1>5, ShrunkFramed, ShrunkCarries DEF Wired
  <2>2. w.state \notin {"open", "connecting"}
    BY <1>5, <2>1 DEF Wired
  <2>3. QED
    BY <1>2, <1>3, <2>1, <2>2 DEF Wired
<1>6. QED
  BY <1>4, <1>5 DEF Is

\* The Hub asks a connection it reads to close.
LEMMA WiredAsked ==
  ASSUME NEW w \in WebSocket, NEW v \in WebSocket, NEW stage \in {"known", "new"}, Wired(w, "reading", stage),
         Is(v, w.state, w.owner, w.toHub, Append(w.toExt, "close"))
  PROVE  Wired(v, "reading", stage)
<1>1. w.toExt \in Seq(ExtFrame) /\ "close" \in ExtFrame
  BY DEF WebSocket, ExtFrame
<1>2. v.state = w.state /\ v.toHub = w.toHub /\ v.toExt = Append(w.toExt, "close")
  BY DEF Is
<1>3. /\ Has(v.toExt, "end") <=> Has(w.toExt, "end")
      /\ Has(v.toExt, "registered") <=> Has(w.toExt, "registered")
  BY <1>1, <1>2, GrownHas
<1>4. QED
  BY <1>2, <1>3 DEF Wired

\* The client closes its socket.
LEMMA WiredHungUp ==
  ASSUME NEW w \in WebSocket, NEW v \in WebSocket, NEW r, NEW stage \in {"known", "new"}, Wired(w, r, stage),
         w.state \in {"connecting", "open"},
         v = [state |-> IF w.state = "open" THEN "closing" ELSE "aborted",
              owner |-> w.owner, token |-> 0,
              toHub |-> Append(w.toHub, [type |-> "close"]), toExt |-> w.toExt]
  PROVE  Wired(v, r, stage)
<1>1. w.toHub \in Seq(HubFrame) /\ [type |-> "close"] \in HubFrame
  BY FrameTypes DEF WebSocket
<1>2. /\ v.state = (IF w.state = "open" THEN "closing" ELSE "aborted")
      /\ v.toHub = Append(w.toHub, [type |-> "close"]) /\ v.toExt = w.toExt
  OBVIOUS
<1>3. Framed(v.toHub, stage) /\ Carries(v.toHub, "close")
  BY <1>1, <1>2, GrownFramed, GrownCarries DEF Wired
<1>4. QED
  BY <1>2, <1>3 DEF Wired

\* A rename goes out on an open socket.
LEMMA WiredRenamed ==
  ASSUME NEW w \in WebSocket, NEW v \in WebSocket, NEW r, NEW stage \in {"known", "new"}, Wired(w, r, stage),
         w.state = "open", NEW frame \in HubFrame, frame.type = "meta_update",
         Is(v, "open", w.owner, Append(w.toHub, frame), w.toExt)
  PROVE  Wired(v, r, stage)
<1>1. w.toHub \in Seq(HubFrame)
  BY DEF WebSocket
<1>2. v.state = "open" /\ v.toHub = Append(w.toHub, frame) /\ v.toExt = w.toExt
  BY DEF Is
<1>3. stage = "known" \/ (w.toHub # <<>> /\ w.toHub[1].type = "register")
  BY DEF Wired
<1>4. Framed(v.toHub, stage) /\ (w.toHub # <<>> => v.toHub[1] = w.toHub[1]) /\ v.toHub # <<>>
  BY <1>1, <1>2, <1>3, GrownFramed, Grown DEF Wired
<1>5. ~Carries(v.toHub, "close")
  BY <1>1, <1>2, GrownCarries DEF Wired
<1>6. QED
  BY <1>2, <1>3, <1>4, <1>5 DEF Wired

LEMMA WiresPrimed ==
  ASSUME \A s \in Socket : Wired(socks'[s], reader'[s], Stage(s)')
  PROVE  (\A s \in Socket : WireOK(s))'
BY DEF WireOK

\* A step that changes socket s only, and neither readers nor the directory.
LEMMA OneWire ==
  ASSUME \A t \in Socket : WireOK(t), NEW s \in Socket, UNCHANGED hubVars,
         \A t \in Socket : t # s => socks'[t] = socks[t],
         Wired(socks'[s], reader[s], Stage(s))
  PROVE  (\A t \in Socket : WireOK(t))'
<1>1. reader' = reader /\ \A t \in Socket : Stage(t)' = Stage(t)
  BY DEF hubVars, directory, Stage
<1>2. \A t \in Socket : Wired(socks'[t], reader'[t], Stage(t)')
  BY <1>1 DEF WireOK
<1>3. QED
  BY <1>2, WiresPrimed

LEMMA InitWires == Init => \A s \in Socket : WireOK(s)
<1>1. SUFFICES ASSUME Init, NEW s \in Socket PROVE Wired(socks[s], reader[s], Stage(s))
  BY DEF WireOK
<1>2. socks[s] = Unused /\ reader[s] = "none" /\ Stage(s) = "new"
  BY <1>1 DEF Init, Directory!DirectoryInit, Stage
<1>3. Wired(Unused, "none", "new")
  BY UnusedType, WiredFresh
<1>4. QED
  BY <1>2, <1>3

LEMMA ClientWires ==
  ASSUME TypeInv, \A t \in Socket : WireOK(t), NEW s \in Socket,
         OnOpen(s) \/ OnRegistered(s) \/ OnCloseFrame(s) \/ OnClose(s) \/ OnRefused(s)
  PROVE  (\A t \in Socket : WireOK(t))'
<1>1. socks[s] \in WebSocket /\ Stage(s) \in {"known", "new"}
  BY SocketFields DEF TypeInv, Stage
<1>2. Wired(socks[s], reader[s], Stage(s))
  BY DEF WireOK
<1>3. CASE OnOpen(s)
  <2>1. /\ socks[s].state = "connecting" /\ reader[s] # "none" /\ socks'[s] \in WebSocket
        /\ [type |-> "register", name |-> clients[socks[s].owner].name] \in HubFrame
        /\ Is(socks'[s], "open", socks[s].owner,
              Append(socks[s].toHub, [type |-> "register", name |-> clients[socks[s].owner].name]),
              socks[s].toExt)
        /\ \A t \in Socket : t # s => socks'[t] = socks[t]
        /\ UNCHANGED hubVars
    BY <1>3, OpenDoes
  <2>2. Wired(socks'[s], reader[s], Stage(s))
    BY <1>1, <1>2, <2>1, WiredOpens
  <2>3. QED
    BY <2>1, <2>2, OneWire
<1>4. CASE OnRegistered(s)
  <2>1. /\ socks[s].toExt # <<>> /\ Head(socks[s].toExt) # "end" /\ socks'[s] \in WebSocket
        /\ Is(socks'[s], socks[s].state, socks[s].owner, socks[s].toHub, Tail(socks[s].toExt))
        /\ \A t \in Socket : t # s => socks'[t] = socks[t]
        /\ UNCHANGED hubVars
    BY <1>4, RegisteredDoes
  <2>2. Wired(socks'[s], reader[s], Stage(s))
    BY <1>1, <1>2, <2>1, WiredHears
  <2>3. QED
    BY <2>1, <2>2, OneWire
<1>5. CASE OnCloseFrame(s)
  <2>1. /\ socks[s].toExt # <<>> /\ Head(socks[s].toExt) # "end" /\ socks'[s] \in WebSocket
        /\ \/ Is(socks'[s], socks[s].state, socks[s].owner, socks[s].toHub, Tail(socks[s].toExt))
           \/ /\ socks[s].state = "open"
              /\ Is(socks'[s], "closing", socks[s].owner,
                    Append(socks[s].toHub, [type |-> "close"]), Tail(socks[s].toExt))
        /\ \A t \in Socket : t # s => socks'[t] = socks[t]
        /\ UNCHANGED hubVars
    BY <1>5, CloseFrameDoes
  <2>2. Wired(socks'[s], reader[s], Stage(s))
    BY <1>1, <1>2, <2>1, WiredHears
  <2>3. QED
    BY <2>1, <2>2, OneWire
<1>6. CASE OnClose(s)
  <2>1. /\ (socks[s].toExt # <<>> /\ Head(socks[s].toExt) = "end") \/ socks[s].state = "aborted"
        /\ Is(socks'[s], "closed", socks[s].owner, socks[s].toHub, <<>>) /\ socks'[s] \in WebSocket
        /\ \A t \in Socket : t # s => socks'[t] = socks[t]
        /\ UNCHANGED hubVars
    BY <1>6, CloseDoes, ClosesDoes
  <2>2. Wired(socks'[s], reader[s], Stage(s))
    BY <1>1, <1>2, <2>1, WiredCloses
  <2>3. QED
    BY <2>1, <2>2, OneWire
<1>7. CASE OnRefused(s)
  <2>1. /\ socks[s].state = "connecting" /\ reader[s] = "none" /\ socks'[s] = Unused
        /\ \A t \in Socket : t # s => socks'[t] = socks[t]
        /\ UNCHANGED hubVars
    BY <1>7, RefusedDoes, ClosesDoes
  <2>2. Stage(s) = "new"
    BY <1>2, <2>1 DEF Wired
  <2>3. Wired(socks'[s], reader[s], Stage(s))
    <3>1. Wired(Unused, "none", "new")
      BY UnusedType, WiredFresh
    <3>2. QED
      BY <2>1, <2>2, <3>1
  <2>4. QED
    BY <2>1, <2>3, OneWire
<1>8. QED
  BY <1>3, <1>4, <1>5, <1>6, <1>7

LEMMA ServerWires ==
  ASSUME TypeInv, \A t \in Socket : WireOK(t), NEW s \in Socket,
         Accept(s) \/ ReadsRegister(s) \/ ReadsMeta(s) \/ ReadsClose(s)
  PROVE  (\A t \in Socket : WireOK(t))'
<1>1. SUFFICES ASSUME NEW t \in Socket PROVE Wired(socks'[t], reader'[t], Stage(t)')
  BY WiresPrimed
<1>2. socks[t] \in WebSocket /\ Stage(t) \in {"known", "new"}
  BY SocketFields DEF TypeInv, Stage
<1>3. Wired(socks[t], reader[t], Stage(t))
  BY DEF WireOK
<1>4. CASE Accept(s)
  <2>1. Stage(t)' = Stage(t) /\ socks'[t] \in WebSocket
    BY <1>4, AcceptDoes DEF Stage, directory
  <2>2. CASE t = s
    BY <1>2, <1>3, <1>4, <2>1, <2>2, AcceptDoes, WiredAccepted
  <2>3. CASE t # s
    BY <1>3, <1>4, <2>1, <2>3, AcceptDoes
  <2>4. QED
    BY <2>2, <2>3
<1>5. CASE ReadsRegister(s)
  <2>1. reader'[t] = reader[t] /\ socks'[t] \in WebSocket /\ s \notin entered /\ reader[s] = "reading"
    BY <1>5, ReadsRegisterDoes
  <2>2. CASE t = s
    <3>1. Stage(t)' = "known"
      BY <1>5, <2>2, ReadsRegisterDoes DEF Stage
    <3>2. /\ socks[t].toHub # <<>> /\ Head(socks[t].toHub).type = "register"
          /\ Is(socks'[t], socks[t].state, socks[t].owner,
                Tail(socks[t].toHub), Append(socks[t].toExt, "registered"))
      BY <1>5, <2>2, ReadsRegisterDoes
    <3>3. QED
      BY <1>2, <1>3, <2>1, <2>2, <3>1, <3>2, WiredRead
  <2>3. CASE t # s
    <3>1. Stage(t)' = Stage(t)
      BY <1>5, <2>3, ReadsRegisterDoes DEF Stage
    <3>2. CASE Session \in DOMAIN listed /\ t = listed[Session]
      <4>1. /\ reader[t] = "reading"
            /\ Is(socks'[t], socks[t].state, socks[t].owner, socks[t].toHub,
                  Append(socks[t].toExt, "close"))
        BY <1>5, <2>3, <3>2, ReadsRegisterDoes DEF TypeInv, ListedReads
      <4>2. QED
        BY <1>2, <1>3, <2>1, <3>1, <4>1, WiredAsked
    <3>3. CASE ~(Session \in DOMAIN listed /\ t = listed[Session])
      <4>1. Is(socks'[t], socks[t].state, socks[t].owner, socks[t].toHub, socks[t].toExt)
        BY <1>5, <2>3, <3>3, ReadsRegisterDoes
      <4>2. QED
        BY <1>3, <2>1, <3>1, <4>1 DEF Is, Wired
    <3>4. QED
      BY <3>2, <3>3
  <2>4. QED
    BY <2>2, <2>3
<1>6. CASE ReadsMeta(s)
  <2>1. reader'[t] = reader[t] /\ reader[s] = "reading" /\ socks'[t] \in WebSocket /\ Stage(t)' = Stage(t)
    BY <1>6, ReadsMetaDoes DEF Stage, directory
  <2>2. CASE t = s
    <3>1. /\ socks[t].toHub # <<>> /\ Head(socks[t].toHub).type = "meta_update"
          /\ Is(socks'[t], socks[t].state, socks[t].owner, Tail(socks[t].toHub), socks[t].toExt)
      BY <1>6, <2>2, ReadsMetaDoes
    <3>2. QED
      BY <1>2, <1>3, <2>1, <2>2, <3>1, WiredRead
  <2>3. CASE t # s
    <3>1. Is(socks'[t], socks[t].state, socks[t].owner, socks[t].toHub, socks[t].toExt)
      BY <1>6, <2>3, ReadsMetaDoes
    <3>2. QED
      BY <1>3, <2>1, <3>1 DEF Is, Wired
  <2>4. QED
    BY <2>2, <2>3
<1>7. CASE ReadsClose(s)
  <2>1. reader[s] = "reading" /\ socks'[t] \in WebSocket /\ Stage(t)' = Stage(t)
    BY <1>7, ReadsCloseDoes DEF Stage
  <2>2. CASE t = s
    <3>1. /\ socks[t].toHub # <<>> /\ Head(socks[t].toHub).type = "close" /\ reader'[t] = "ended"
          /\ Is(socks'[t], socks[t].state, socks[t].owner, Tail(socks[t].toHub),
                Append(socks[t].toExt, "end"))
      BY <1>7, <2>2, ReadsCloseDoes
    <3>2. QED
      BY <1>2, <1>3, <2>1, <2>2, <3>1, WiredEnds
  <2>3. CASE t # s
    <3>1. /\ Is(socks'[t], socks[t].state, socks[t].owner, socks[t].toHub, socks[t].toExt)
          /\ reader'[t] = reader[t]
      BY <1>7, <2>3, ReadsCloseDoes
    <3>2. QED
      BY <1>3, <2>1, <3>1 DEF Is, Wired
  <2>4. QED
    BY <2>2, <2>3
<1>8. QED
  BY <1>4, <1>5, <1>6, <1>7

LEMMA WiresHungUp ==
  ASSUME TypeOK, \A t \in Socket : WireOK(t), NEW s \in Socket
  PROVE  Wired(HungUp(client)[s], reader[s], Stage(s))
<1>1. /\ socks[s] \in WebSocket /\ Stage(s) \in {"known", "new"}
      /\ Wired(socks[s], reader[s], Stage(s)) /\ HungUp(client)[s] \in WebSocket
  BY SocketFields, HungUpType DEF Stage, WireOK
<1>2. CASE s \in InHand(client) /\ socks[s].state \in {"connecting", "open"}
  <2>1. HungUp(client)[s] =
          [state |-> IF socks[s].state = "open" THEN "closing" ELSE "aborted",
           owner |-> socks[s].owner, token |-> 0,
           toHub |-> Append(socks[s].toHub, [type |-> "close"]), toExt |-> socks[s].toExt]
    BY <1>2, HungUpType
  <2>2. QED
    BY <1>1, <1>2, <2>1, WiredHungUp
<1>3. CASE ~(s \in InHand(client) /\ socks[s].state \in {"connecting", "open"})
  <2>1. HungUp(client)[s] = socks[s]
    BY <1>3, HungUpType
  <2>2. QED
    BY <1>1, <2>1
<1>4. QED
  BY <1>2, <1>3

\* A new socket is on no wire yet.
LEMMA NewWired ==
  ASSUME TypeInv, \A t \in Socket : WireOK(t), NEW s \in Socket, NEW k, IsNew(s, k),
         socks'[s] \in WebSocket
  PROVE  Wired(socks'[s], reader[s], Stage(s))
<1>1. Wired(socks[s], reader[s], Stage(s)) /\ socks[s].state = "unused"
  BY DEF WireOK, IsNew
<1>2. reader[s] = "none" /\ Stage(s) = "new"
  BY <1>1 DEF Wired
<1>3. Is(socks'[s], "connecting", socks'[s].owner, <<>>, <<>>)
  BY DEF IsNew, Is
<1>4. QED
  BY <1>2, <1>3, WiredFresh

LEMMA StepWires ==
  ASSUME TypeInv, \A t \in Socket : WireOK(t), [Next]_vars
  PROVE  (\A t \in Socket : WireOK(t))'
<1>1. TypeOK /\ \A t \in Socket : Wired(socks[t], reader[t], Stage(t))
  BY DEF TypeInv, WireOK
<1>2. ASSUME NEW k \in Generation, Retry(k) PROVE (\A t \in Socket : WireOK(t))'
  <2>1. /\ \A t \in Socket : socks'[t] = socks[t] \/ IsNew(t, k)
        /\ socks' \in [Socket -> WebSocket] /\ reader' = reader /\ entered' = entered
    BY <1>2, RetryDoes DEF hubVars, directory
  <2>2. \A t \in Socket : Wired(socks'[t], reader[t], Stage(t))
    BY <1>1, <2>1, NewWired
  <2>3. QED
    BY <2>1, <2>2, WiresPrimed DEF Stage
<1>3. CASE Start
  <2>1. /\ \A t \in Socket : socks'[t] = HungUp(client)[t] \/ IsNew(t, generation + 1)
        /\ socks' \in [Socket -> WebSocket] /\ reader' = reader /\ entered' = entered
    BY <1>3, StartDoes DEF hubVars, directory
  <2>2. \A t \in Socket : Wired(socks'[t], reader[t], Stage(t))
    BY <1>1, <2>1, NewWired, WiresHungUp
  <2>3. QED
    BY <2>1, <2>2, WiresPrimed DEF Stage
<1>4. CASE Stop
  <2>1. socks' = HungUp(client) /\ reader' = reader /\ entered' = entered
    BY <1>4, StopDoes DEF hubVars, directory
  <2>2. \A t \in Socket : Wired(socks'[t], reader[t], Stage(t))
    BY <1>1, <2>1, WiresHungUp
  <2>3. QED
    BY <2>1, <2>2, WiresPrimed DEF Stage
<1>5. CASE Rename
  <2> DEFINE w == clients[client].ws
             frame == [type |-> "meta_update", name |-> name + 1]
  <2>1. /\ socks' \in [Socket -> WebSocket] /\ reader' = reader /\ entered' = entered
        /\ frame \in HubFrame
        /\ \/ /\ w \in Socket /\ socks[w].state = "open"
              /\ Is(socks'[w], "open", socks[w].owner, Append(socks[w].toHub, frame), socks[w].toExt)
              /\ \A t \in Socket : t # w => socks'[t] = socks[t]
           \/ socks' = socks
    BY <1>5, RenameDoes DEF hubVars, directory
  <2>2. \A t \in Socket : Wired(socks'[t], reader[t], Stage(t))
    <3>1. CASE socks' = socks
      BY <1>1, <3>1
    <3>2. CASE /\ w \in Socket /\ socks[w].state = "open"
               /\ Is(socks'[w], "open", socks[w].owner, Append(socks[w].toHub, frame), socks[w].toExt)
               /\ \A t \in Socket : t # w => socks'[t] = socks[t]
      <4>1. /\ socks[w] \in WebSocket /\ socks'[w] \in WebSocket /\ Stage(w) \in {"known", "new"}
            /\ frame.type = "meta_update" /\ Wired(socks[w], reader[w], Stage(w))
        BY <1>1, <2>1, <3>2, SocketFields DEF Stage
      <4>2. Wired(socks'[w], reader[w], Stage(w))
        <5> HIDE DEF frame, w
        <5>1. QED
          BY <2>1, <3>2, <4>1, WiredRenamed
      <4>3. QED
        BY <1>1, <3>2, <4>2
    <3>3. QED
      BY <2>1, <3>1, <3>2
  <2>3. QED
    BY <2>1, <2>2, WiresPrimed DEF Stage
<1>6. CASE HubCrashes
  <2>1. SUFFICES ASSUME NEW t \in Socket PROVE Wired(socks'[t], reader'[t], Stage(t)')
    BY WiresPrimed
  <2>2. Stage(t)' = Stage(t) /\ Stage(t) \in {"known", "new"} /\ socks'[t] \in WebSocket
    BY <1>6, CrashDoes DEF Stage
  <2>3. CASE reader[t] = "reading"
    <3>1. /\ reader'[t] = "ended"
          /\ Is(socks'[t], socks[t].state, socks[t].owner, socks[t].toHub, Append(socks[t].toExt, "end"))
      BY <1>6, <2>3, CrashDoes
    <3>2. socks[t] \in WebSocket
      BY <1>1, SocketFields
    <3>3. QED
      BY <1>1, <2>2, <2>3, <3>1, <3>2, WiredEnds
  <2>4. CASE reader[t] # "reading"
    <3>1. reader'[t] = reader[t] /\ socks'[t] = socks[t]
      BY <1>6, <2>4, CrashDoes
    <3>2. QED
      BY <1>1, <2>2, <3>1
  <2>5. QED
    BY <2>3, <2>4
<1>7. CASE HubLoads \/ HubFindsNone \/ HubWrites \/ UNCHANGED vars
  <2>1. socks' = socks /\ reader' = reader /\ entered' = entered
    BY <1>7, HubStarts DEF directory, vars, hubVars
  <2>2. QED
    BY <1>1, <2>1, WiresPrimed DEF Stage
<1>8. QED
  BY <1>2, <1>3, <1>4, <1>5, <1>6, <1>7, Steps, ClientWires, ServerWires

-----------------------------------------------------------------------------
(* The sockets a client may still have                                     *)

\* Every client but the active one was closed, and its sockets are on their way
\* out; the active one has at most the socket it holds, and a retry ahead only
\* without it.
HeldOK(s) ==
  LET k == socks[s].owner
      state == socks[s].state IN
  state # "unused" =>
    /\ k \in 1..generation /\ (client = 0 => k # generation)
    /\ k # client => clients[k].closed /\ state \notin {"connecting", "open"}
    /\ k = client =>
         /\ state # "aborted"
         /\ state # "closed" => s = clients[client].ws /\ ~clients[client].timer
         /\ state = "closed" => reader[s] = "ended"

\* What the active client says of itself.
ConnectedOK ==
  client # 0 /\ clients[client].status = "connected" =>
    LET w == clients[client].ws IN
      /\ w \in Socket /\ w \in entered
      /\ socks[w].owner = client /\ socks[w].state \in {"open", "closing"}

ClientOK ==
  /\ client \in {0, generation}
  /\ client # 0 => ~clients[client].closed /\ clients[client].name = name
  /\ \A k \in Generation : clients[k].timer => k = client
  /\ ShownIsCurrent

HeldInv == ClientOK /\ ConnectedOK /\ \A s \in Socket : HeldOK(s)

\* A socket that connects or is open is the one the active client holds.
LEMMA LiveIsHeld ==
  ASSUME HeldInv, NEW s \in Socket, socks[s].state \in {"connecting", "open"}
  PROVE  /\ client # 0 /\ socks[s].owner = client /\ s = clients[client].ws /\ ~clients[client].timer
<1>1. socks[s].owner = client /\ socks[s].owner \in 1..generation
  BY DEF HeldInv, HeldOK
<1>2. QED
  BY <1>1 DEF HeldInv, HeldOK

\* The clients a step leaves alone, and the footer with them.
LEMMA HeldPrimed ==
  ASSUME HeldInv, UNCHANGED extVars,
         \A s \in Socket : /\ socks'[s].state = socks[s].state /\ socks'[s].owner = socks[s].owner
                           /\ socks[s].state = "closed" /\ reader[s] = "ended" => reader'[s] = "ended",
         entered \subseteq entered'
  PROVE  HeldInv'
<1>1. ClientOK'
  BY DEF HeldInv, ClientOK, ShownIsCurrent, extVars
<1>2. ConnectedOK'
  BY DEF HeldInv, ConnectedOK, extVars
<1>3. ASSUME NEW s \in Socket PROVE HeldOK(s)'
  BY DEF HeldInv, HeldOK, extVars
<1>4. QED
  BY <1>1, <1>2, <1>3 DEF HeldInv

LEMMA InitHeld == Init => HeldInv
<1>1. SUFFICES ASSUME Init PROVE HeldInv
  OBVIOUS
<1>2. \A s \in Socket : socks[s].state = "unused"
  BY <1>1 DEF Init, Unused
<1>3. \A k \in Generation : ~clients[k].timer
  BY <1>1 DEF Init, NewClient
<1>4. QED
  BY <1>1, <1>2, <1>3 DEF Init, HeldInv, HeldOK, ConnectedOK, ClientOK, ShownIsCurrent

LEMMA OpenHeld ==
  ASSUME TypeInv, HeldInv, NEW s \in Socket, OnOpen(s)
  PROVE  HeldInv'
<1>1. /\ socks[s].state = "connecting" /\ socks'[s].state = "open"
      /\ socks'[s].owner = socks[s].owner
      /\ \A t \in Socket : t # s => socks'[t] = socks[t]
      /\ UNCHANGED <<extVars, hubVars>>
  BY OpenDoes DEF Is
<1>2. client # 0 /\ s = clients[client].ws
  BY <1>1, LiveIsHeld
<1>3. ClientOK'
  BY <1>1 DEF HeldInv, ClientOK, ShownIsCurrent, extVars
<1>4. ConnectedOK'
  BY <1>1, <1>2 DEF HeldInv, ConnectedOK, extVars, hubVars, directory
<1>5. ASSUME NEW t \in Socket PROVE HeldOK(t)'
  BY <1>1 DEF HeldInv, HeldOK, extVars, hubVars
<1>6. QED
  BY <1>3, <1>4, <1>5 DEF HeldInv

LEMMA CloseFrameHeld ==
  ASSUME TypeInv, HeldInv, NEW s \in Socket, OnCloseFrame(s)
  PROVE  HeldInv'
<1>1. /\ socks'[s].state = (IF socks[s].state = "open" THEN "closing" ELSE socks[s].state)
      /\ socks'[s].owner = socks[s].owner
      /\ \A t \in Socket : t # s => socks'[t] = socks[t]
      /\ UNCHANGED <<extVars, hubVars>>
  BY CloseFrameDoes DEF Is
<1>2. ClientOK'
  BY <1>1 DEF HeldInv, ClientOK, ShownIsCurrent, extVars
<1>3. ConnectedOK'
  BY <1>1 DEF HeldInv, ConnectedOK, extVars, hubVars, directory
<1>4. ASSUME NEW t \in Socket PROVE HeldOK(t)'
  BY <1>1 DEF HeldInv, HeldOK, extVars, hubVars
<1>5. QED
  BY <1>2, <1>3, <1>4 DEF HeldInv

\* The acknowledgement of a client that was replaced says nothing of the active one.
LEMMA RegisteredHeld ==
  ASSUME TypeInv, HeldInv, NEW s \in Socket, WireOK(s), OnRegistered(s)
  PROVE  HeldInv'
<1> DEFINE k == socks[s].owner
<1>1. /\ socks[s].state \in {"open", "closing"} /\ k \in Generation
      /\ socks[s].toExt # <<>> /\ Head(socks[s].toExt) = "registered"
      /\ \A t \in Socket : socks'[t].state = socks[t].state /\ socks'[t].owner = socks[t].owner
      /\ clients'[k] = [clients[k] EXCEPT !.status = "connected"]
      /\ \A j \in Generation : j # k => clients'[j] = clients[j]
      /\ shown' = IF k = generation THEN "connected" ELSE shown
      /\ generation' = generation /\ client' = client /\ name' = name
      /\ reader' = reader /\ entered' = entered
  BY RegisteredDoes DEF Is, hubVars, directory
<1>2. /\ clients[k] \in HubClient /\ TypeOK
  BY <1>1, ClientFields DEF TypeInv
<1>3. /\ clients'[k].closed = clients[k].closed /\ clients'[k].ws = clients[k].ws
      /\ clients'[k].timer = clients[k].timer /\ clients'[k].name = clients[k].name
      /\ clients'[k].status = "connected"
  BY <1>1, <1>2 DEF HubClient
<1>4. client # 0 => client \in Generation
  BY <1>2, BoundAssumption DEF TypeOK, Generation
<1>5. s \in entered
  <2>1. socks[s].toExt \in Seq(ExtFrame)
    BY <1>2, SocketFields
  <2>2. Has(socks[s].toExt, "registered")
    BY <1>1, <2>1, ShrunkHas
  <2>3. QED
    BY <2>2 DEF WireOK, Wired, Stage
<1>6. (k = client => s = clients[client].ws) /\ (client = 0 => k # generation)
  BY <1>1 DEF HeldInv, HeldOK
<1>7. ClientOK'
  <2>1. client' \in {0, generation'} /\ (client' # 0 => ~clients'[client'].closed /\ clients'[client'].name = name')
    BY <1>1, <1>3, <1>4 DEF HeldInv, ClientOK
  <2>2. \A j \in Generation : clients'[j].timer => j = client'
    BY <1>1, <1>3 DEF HeldInv, ClientOK
  <2>3. shown' = IF client' = 0 THEN "off" ELSE clients'[client'].status
    BY <1>1, <1>3, <1>4, <1>6 DEF HeldInv, ClientOK, ShownIsCurrent
  <2>4. QED
    BY <2>1, <2>2, <2>3 DEF ClientOK, ShownIsCurrent
<1>8. ConnectedOK'
  <2>1. CASE k = client
    <3>1. clients'[client'].ws = s /\ socks'[s].owner = client' /\ socks'[s].state \in {"open", "closing"}
      BY <1>1, <1>3, <1>6, <2>1
    <3>2. QED
      BY <1>1, <1>5, <3>1 DEF ConnectedOK
  <2>2. CASE k # client
    <3>1. client # 0 => clients'[client] = clients[client]
      BY <1>1, <1>4, <2>2
    <3>2. QED
      BY <1>1, <3>1 DEF HeldInv, ConnectedOK
  <2>3. QED
    BY <2>1, <2>2
<1>9. ASSUME NEW t \in Socket PROVE HeldOK(t)'
  <2>1. /\ socks[t].state # "unused" => socks[t].owner \in Generation
        /\ HeldOK(t)
    BY DEF TypeInv, FreshOK, HeldInv
  <2>2. \A j \in Generation :
          /\ clients'[j].closed = clients[j].closed /\ clients'[j].ws = clients[j].ws
          /\ clients'[j].timer = clients[j].timer
    BY <1>1, <1>3
  <2>3. socks'[t].state = socks[t].state /\ socks'[t].owner = socks[t].owner
    BY <1>1
  <2>4. QED
    BY <1>1, <2>1, <2>2, <2>3 DEF HeldOK
<1>10. QED
  BY <1>7, <1>8, <1>9 DEF HeldInv

\* The "close" event of a socket of client k, which has none left then.
LEMMA ClosesHeld ==
  ASSUME TypeInv, HeldInv, NEW s \in Socket, socks[s].owner \in Generation,
         socks[s].state \notin {"unused", "closed"}, Closes(s),
         \/ socks'[s].state = "unused"
         \/ /\ socks'[s].state = "closed" /\ socks'[s].owner = socks[s].owner
            /\ socks[s].owner = client => reader[s] = "ended",
         \A t \in Socket : t # s => socks'[t] = socks[t]
  PROVE  HeldInv'
<1> DEFINE k == socks[s].owner
<1>1. /\ clients'[k] = [clients[k] EXCEPT !.status = "disconnected", !.timer = ~clients[k].closed]
      /\ \A j \in Generation : j # k => clients'[j] = clients[j]
      /\ shown' = IF k = generation THEN "disconnected" ELSE shown
      /\ generation' = generation /\ client' = client /\ name' = name
      /\ reader' = reader /\ entered' = entered
  BY ClosesDoes DEF hubVars, directory
<1>2. clients[k] \in HubClient /\ TypeOK
  BY ClientFields DEF TypeInv
<1>3. /\ clients'[k].closed = clients[k].closed /\ clients'[k].ws = clients[k].ws
      /\ clients'[k].timer = (~clients[k].closed) /\ clients'[k].name = clients[k].name
      /\ clients'[k].status = "disconnected"
  BY <1>1, <1>2 DEF HubClient
<1>4. client # 0 => client \in Generation
  BY <1>2, BoundAssumption DEF TypeOK, Generation
<1>5. /\ k = client => s = clients[client].ws
      /\ k # client => clients[k].closed
      /\ client = 0 => k # generation
  BY DEF HeldInv, HeldOK
<1>6. ClientOK'
  <2>1. client' \in {0, generation'} /\ (client' # 0 => ~clients'[client'].closed /\ clients'[client'].name = name')
    BY <1>1, <1>3, <1>4 DEF HeldInv, ClientOK
  <2>2. \A j \in Generation : clients'[j].timer => j = client'
    BY <1>1, <1>3, <1>5 DEF HeldInv, ClientOK
  <2>3. shown' = IF client' = 0 THEN "off" ELSE clients'[client'].status
    BY <1>1, <1>3, <1>4, <1>5 DEF HeldInv, ClientOK, ShownIsCurrent
  <2>4. QED
    BY <2>1, <2>2, <2>3 DEF ClientOK, ShownIsCurrent
<1>7. ConnectedOK'
  <2>1. CASE k = client
    BY <1>1, <1>3, <2>1 DEF ConnectedOK
  <2>2. CASE k # client
    <3>1. client # 0 => clients'[client] = clients[client]
      BY <1>1, <1>4, <2>2
    <3>2. QED
      BY <1>1, <2>2, <3>1 DEF HeldInv, ConnectedOK
  <2>3. QED
    BY <2>1, <2>2
<1>8. ASSUME NEW t \in Socket PROVE HeldOK(t)'
  <2>1. \A j \in Generation : clients'[j].closed = clients[j].closed /\ clients'[j].ws = clients[j].ws
    BY <1>1, <1>3
  <2>2. CASE t = s
    <3>1. CASE socks'[s].state = "unused"
      BY <2>2, <3>1 DEF HeldOK
    <3>2. CASE /\ socks'[s].state = "closed" /\ socks'[s].owner = k
               /\ k = client => reader[s] = "ended"
      <4>1. k \in 1..generation
        BY DEF HeldInv, HeldOK
      <4>2. QED
        BY <1>1, <1>3, <1>5, <2>2, <3>2, <4>1 DEF HeldOK
    <3>3. QED
      BY <3>1, <3>2
  <2>3. CASE t # s
    <3>1. socks'[t] = socks[t] /\ HeldOK(t) /\ (socks[t].state # "unused" => socks[t].owner \in Generation)
      BY <2>3 DEF HeldInv, TypeInv, FreshOK
    <3>2. CASE k = client
      <4>1. socks[t].owner = client /\ socks[t].state # "unused" => socks[t].state = "closed"
        BY <1>5, <2>3, <3>1, <3>2 DEF HeldOK
      <4>2. QED
        BY <1>1, <2>1, <3>1, <4>1 DEF HeldOK
    <3>3. CASE k # client
      <4>1. \A j \in Generation : j = client => clients'[j] = clients[j]
        BY <1>1, <3>3
      <4>2. QED
        BY <1>1, <2>1, <3>1, <4>1 DEF HeldOK
    <3>4. QED
      BY <3>2, <3>3
  <2>4. QED
    BY <2>2, <2>3
<1>9. QED
  BY <1>6, <1>7, <1>8 DEF HeldInv

LEMMA EndsHeld ==
  ASSUME TypeInv, HeldInv, NEW s \in Socket, WireOK(s), OnClose(s) \/ OnRefused(s)
  PROVE  HeldInv'
<1>1. CASE OnClose(s)
  <2>1. /\ (socks[s].toExt # <<>> /\ Head(socks[s].toExt) = "end") \/ socks[s].state = "aborted"
        /\ socks[s].state \notin {"unused", "closed"} /\ socks[s].owner \in Generation
        /\ socks'[s].state = "closed" /\ socks'[s].owner = socks[s].owner
        /\ \A t \in Socket : t # s => socks'[t] = socks[t]
        /\ Closes(s)
    BY <1>1, CloseDoes DEF Is
  <2>2. socks[s].owner = client => socks[s].state # "aborted"
    BY <2>1 DEF HeldInv, HeldOK
  <2>3. socks[s].owner = client => reader[s] = "ended"
    <3>1. socks[s].toExt \in Seq(ExtFrame)
      BY SocketFields DEF TypeInv
    <3>2. socks[s].owner = client => Has(socks[s].toExt, "end")
      BY <2>1, <2>2, <3>1, ShrunkHas
    <3>3. QED
      BY <3>2 DEF WireOK, Wired
  <2>4. QED
    BY <2>1, <2>3, ClosesHeld
<1>2. CASE OnRefused(s)
  <2>1. /\ socks[s].state = "connecting" /\ socks[s].owner \in Generation
        /\ socks'[s].state = "unused"
        /\ \A t \in Socket : t # s => socks'[t] = socks[t]
        /\ Closes(s)
    BY <1>2, RefusedDoes DEF Unused
  <2>2. QED
    BY <2>1, ClosesHeld
<1>3. QED
  BY <1>1, <1>2

LEMMA RetryHeld ==
  ASSUME TypeInv, HeldInv, \A s \in Socket : WireOK(s), NEW k \in Generation, Retry(k)
  PROVE  HeldInv'
<1>1. /\ clients[k].timer /\ clients' \in [Generation -> HubClient]
      /\ shown' = IF k = generation THEN clients'[k].status ELSE shown
      /\ \A j \in Generation \ {k} : clients'[j] = clients[j]
      /\ clients'[k].closed = clients[k].closed /\ clients'[k].name = clients[k].name
      /\ clients'[k].status \in {"connecting", "error"}
      /\ generation' = generation /\ client' = client /\ name' = name
      /\ reader' = reader /\ entered' = entered
  BY RetryDoes DEF hubVars, directory
<1>2. k = client /\ client # 0 /\ client = generation /\ generation \in Nat
  BY <1>1, BoundAssumption DEF HeldInv, ClientOK, Generation, TypeInv, TypeOK
<1>3. \A s \in Socket : socks[s].state # "unused" /\ socks[s].owner = client => socks[s].state = "closed"
  BY <1>1, <1>2 DEF HeldInv, HeldOK
<1>4. ClientOK'
  <2>1. client' \in {0, generation'} /\ (client' # 0 => ~clients'[client'].closed /\ clients'[client'].name = name')
    BY <1>1, <1>2 DEF HeldInv, ClientOK
  <2>2. \A j \in Generation : clients'[j].timer => j = client'
    BY <1>1, <1>2 DEF HeldInv, ClientOK
  <2>3. shown' = IF client' = 0 THEN "off" ELSE clients'[client'].status
    BY <1>1, <1>2
  <2>4. QED
    BY <2>1, <2>2, <2>3 DEF ClientOK, ShownIsCurrent
<1>5. ConnectedOK'
  BY <1>1, <1>2 DEF ConnectedOK
<1>6. ASSUME NEW t \in Socket PROVE HeldOK(t)'
  <2>1. HeldOK(t) /\ (socks[t].state # "unused" => socks[t].owner \in Generation)
    BY DEF HeldInv, TypeInv, FreshOK
  <2>2. \A j \in Generation : clients'[j].closed = clients[j].closed
    BY <1>1
  <2>3. CASE socks'[t] = socks[t]
    BY <1>1, <1>2, <1>3, <2>1, <2>2, <2>3 DEF HeldOK
  <2>4. CASE IsNew(t, k) /\ clients'[k].ws = t /\ clients'[k].timer = FALSE
    <3>1. socks'[t].state = "connecting" /\ socks'[t].owner = k
      BY <2>4 DEF IsNew, Is
    <3>2. QED
      BY <1>1, <1>2, <2>4, <3>1 DEF HeldOK
  <2>5. QED
    BY <2>3, <2>4, RetryDoes
<1>7. QED
  BY <1>4, <1>5, <1>6 DEF HeldInv

\* close() leaves the client no socket that lives, and no retry.
LEMMA ClosedHeld ==
  ASSUME TypeInv, HeldInv
  PROVE  /\ \A j \in Generation : ~Closed(client)[j].timer
         /\ \A s \in Socket : socks[s].state # "unused" =>
              /\ HungUp(client)[s].owner = socks[s].owner /\ socks[s].owner \in 1..generation
              /\ HungUp(client)[s].state \notin {"connecting", "open"}
              /\ Closed(client)[socks[s].owner].closed
         /\ \A s \in Socket : socks[s].state = "unused" => HungUp(client)[s] = socks[s]
<1>1. TypeOK
  BY DEF TypeInv
<1>2. \A j \in Generation : ~Closed(client)[j].timer
  BY <1>1, ClosedIs DEF HeldInv, ClientOK
<1>3. ASSUME NEW s \in Socket, socks[s].state # "unused"
      PROVE  /\ HungUp(client)[s].owner = socks[s].owner /\ socks[s].owner \in 1..generation
             /\ HungUp(client)[s].state \notin {"connecting", "open"}
             /\ Closed(client)[socks[s].owner].closed
  <2>1. HeldOK(s) /\ socks[s].owner \in Generation
    BY <1>3 DEF HeldInv, TypeInv, FreshOK
  <2>2. socks[s].owner \in 1..generation
    BY <1>3, <2>1 DEF HeldOK
  <2>3. Closed(client)[socks[s].owner].closed
    BY <1>1, <1>3, <2>1, ClosedIs DEF HeldOK
  <2>4. socks[s].state \in {"connecting", "open"} => s \in InHand(client)
    BY LiveIsHeld DEF InHand
  <2>5. HungUp(client)[s].owner = socks[s].owner /\ HungUp(client)[s].state \notin {"connecting", "open"}
    <3>1. CASE socks[s].state \in {"connecting", "open"}
      BY <1>1, <2>4, <3>1, HungUpType
    <3>2. CASE socks[s].state \notin {"connecting", "open"}
      BY <1>1, <3>2, HungUpType
    <3>3. QED
      BY <3>1, <3>2
  <2>6. QED
    BY <2>2, <2>3, <2>5
<1>4. \A s \in Socket : socks[s].state = "unused" => HungUp(client)[s] = socks[s]
  BY <1>1, HungUpType
<1>5. QED
  BY <1>2, <1>3, <1>4

LEMMA StartHeld ==
  ASSUME TypeInv, HeldInv, Start
  PROVE  HeldInv'
<1> DEFINE k == generation + 1
<1>1. /\ k \in Generation /\ generation' = k /\ client' = k
      /\ shown' = clients'[k].status
      /\ \A j \in Generation \ {k} : clients'[j] = Closed(client)[j]
      /\ clients'[k].closed = FALSE /\ clients'[k].name = name
      /\ clients'[k].status \in {"connecting", "error"} /\ name' = name
  BY StartDoes
<1>2. k \in Nat /\ generation \in Nat /\ k # 0 /\ k \notin 1..generation
  BY BoundAssumption DEF TypeInv, TypeOK
<1>3. ClientOK'
  <2>1. client' \in {0, generation'} /\ (client' # 0 => ~clients'[client'].closed /\ clients'[client'].name = name')
    BY <1>1
  <2>2. \A j \in Generation : clients'[j].timer => j = client'
    BY <1>1, ClosedHeld
  <2>3. shown' = IF client' = 0 THEN "off" ELSE clients'[client'].status
    BY <1>1, <1>2
  <2>4. QED
    BY <2>1, <2>2, <2>3 DEF ClientOK, ShownIsCurrent
<1>4. ConnectedOK'
  BY <1>1 DEF ConnectedOK
<1>5. ASSUME NEW t \in Socket PROVE HeldOK(t)'
  <2>1. CASE socks'[t] = HungUp(client)[t]
    <3>1. CASE socks[t].state = "unused"
      <4>1. socks'[t].state = "unused"
        BY <2>1, <3>1, ClosedHeld
      <4>2. QED
        BY <4>1 DEF HeldOK
    <3>2. CASE socks[t].state # "unused"
      <4>1. /\ socks'[t].owner = socks[t].owner /\ socks[t].owner \in 1..generation
            /\ socks'[t].state \notin {"connecting", "open"}
            /\ Closed(client)[socks[t].owner].closed
        BY <2>1, <3>2, ClosedHeld
      <4>2. socks[t].owner \in Generation \ {k} /\ socks[t].owner \in 1..k
        BY <1>2, <3>2, <4>1 DEF TypeInv, FreshOK
      <4>3. clients'[socks[t].owner].closed
        BY <1>1, <4>1, <4>2
      <4>4. QED
        BY <1>1, <1>2, <4>1, <4>2, <4>3 DEF HeldOK
    <3>3. QED
      BY <3>1, <3>2
  <2>2. CASE IsNew(t, k) /\ clients'[k].ws = t /\ clients'[k].timer = FALSE
    <3>1. socks'[t].state = "connecting" /\ socks'[t].owner = k
      BY <2>2 DEF IsNew, Is
    <3>2. QED
      BY <1>1, <1>2, <2>2, <3>1 DEF HeldOK
  <2>3. QED
    BY <2>1, <2>2, StartDoes
<1>6. QED
  BY <1>3, <1>4, <1>5 DEF HeldInv

LEMMA StopHeld ==
  ASSUME TypeInv, HeldInv, Stop
  PROVE  HeldInv'
<1>1. /\ generation' = generation + 1 /\ client' = 0 /\ shown' = "off"
      /\ clients' = Closed(client) /\ socks' = HungUp(client)
  BY StopDoes
<1>2. generation \in Nat /\ generation + 1 \notin 1..generation
  BY BoundAssumption DEF TypeInv, TypeOK
<1>3. ClientOK'
  BY <1>1, ClosedHeld DEF ClientOK, ShownIsCurrent
<1>4. ConnectedOK'
  BY <1>1 DEF ConnectedOK
<1>5. ASSUME NEW t \in Socket PROVE HeldOK(t)'
  <2>1. CASE socks[t].state = "unused"
    BY <1>1, <2>1, ClosedHeld DEF HeldOK
  <2>2. CASE socks[t].state # "unused"
    <3>1. /\ socks'[t].owner = socks[t].owner /\ socks[t].owner \in 1..generation
          /\ socks'[t].state \notin {"connecting", "open"}
          /\ clients'[socks[t].owner].closed
      BY <1>1, <2>2, ClosedHeld
    <3>2. socks[t].owner \in 1..(generation + 1) /\ socks[t].owner # generation + 1 /\ socks[t].owner # 0
      BY <1>2, <3>1
    <3>3. QED
      BY <1>1, <3>1, <3>2 DEF HeldOK
  <2>3. QED
    BY <2>1, <2>2
<1>6. QED
  BY <1>3, <1>4, <1>5 DEF HeldInv

LEMMA RenameHeld ==
  ASSUME TypeInv, HeldInv, Rename
  PROVE  HeldInv'
<1>1. /\ name' = name + 1 /\ generation' = generation /\ client' = client /\ shown' = shown
      /\ reader' = reader /\ entered' = entered
      /\ \A t \in Socket : socks'[t].state = socks[t].state /\ socks'[t].owner = socks[t].owner
  BY RenameDoes DEF Is, hubVars, directory
<1>2. /\ \A j \in Generation : /\ clients'[j].closed = clients[j].closed /\ clients'[j].ws = clients[j].ws
                               /\ clients'[j].timer = clients[j].timer
                               /\ clients'[j].status = clients[j].status
      /\ client # 0 => client \in Generation /\ clients'[client].name = name + 1
  <2>1. CASE client = 0
    BY <2>1, RenameDoes
  <2>2. CASE client # 0
    <3>1. /\ client \in Generation /\ clients'[client] = [clients[client] EXCEPT !.name = name + 1]
          /\ \A j \in Generation : j # client => clients'[j] = clients[j]
      BY <2>2, RenameDoes
    <3>2. clients[client] \in HubClient
      BY <3>1, ClientFields DEF TypeInv
    <3>3. QED
      BY <3>1, <3>2 DEF HubClient
  <2>3. QED
    BY <2>1, <2>2
<1>3. ClientOK'
  BY <1>1, <1>2 DEF HeldInv, ClientOK, ShownIsCurrent
<1>4. ConnectedOK'
  BY <1>1, <1>2 DEF HeldInv, ConnectedOK
<1>5. ASSUME NEW t \in Socket PROVE HeldOK(t)'
  <2>1. HeldOK(t) /\ (socks[t].state # "unused" => socks[t].owner \in Generation)
    BY DEF HeldInv, TypeInv, FreshOK
  <2>2. QED
    BY <1>1, <1>2, <2>1 DEF HeldOK
<1>6. QED
  BY <1>3, <1>4, <1>5 DEF HeldInv

LEMMA StepHeld ==
  ASSUME TypeInv, \A t \in Socket : WireOK(t), HeldInv, [Next]_vars
  PROVE  HeldInv'
<1>1. ASSUME NEW s \in Socket, Accept(s) PROVE HeldInv'
  <2>1. /\ \A t \in Socket : socks'[t].state = socks[t].state /\ socks'[t].owner = socks[t].owner
        /\ \A t \in Socket : reader[t] = "ended" => reader'[t] = "ended"
        /\ UNCHANGED extVars /\ entered' = entered
    BY <1>1, AcceptDoes DEF Is, directory
  <2>2. QED
    BY <2>1, HeldPrimed
<1>2. ASSUME NEW s \in Socket, ReadsRegister(s) PROVE HeldInv'
  <2>1. /\ \A t \in Socket : socks'[t].state = socks[t].state /\ socks'[t].owner = socks[t].owner
        /\ UNCHANGED extVars /\ reader' = reader /\ entered \subseteq entered'
    BY <1>2, ReadsRegisterDoes DEF Is
  <2>2. QED
    BY <2>1, HeldPrimed
<1>3. ASSUME NEW s \in Socket, ReadsMeta(s) PROVE HeldInv'
  <2>1. /\ \A t \in Socket : socks'[t].state = socks[t].state /\ socks'[t].owner = socks[t].owner
        /\ UNCHANGED extVars /\ reader' = reader /\ entered' = entered
    BY <1>3, ReadsMetaDoes DEF Is, directory
  <2>2. QED
    BY <2>1, HeldPrimed
<1>4. ASSUME NEW s \in Socket, ReadsClose(s) PROVE HeldInv'
  <2>1. /\ \A t \in Socket : socks'[t].state = socks[t].state /\ socks'[t].owner = socks[t].owner
        /\ \A t \in Socket : reader[t] = "ended" => reader'[t] = "ended"
        /\ UNCHANGED extVars /\ entered' = entered
    BY <1>4, ReadsCloseDoes DEF Is
  <2>2. QED
    BY <2>1, HeldPrimed
<1>5. CASE HubCrashes
  <2>1. /\ \A t \in Socket : socks'[t].state = socks[t].state /\ socks'[t].owner = socks[t].owner
        /\ \A t \in Socket : reader[t] = "ended" => reader'[t] = "ended"
        /\ UNCHANGED extVars /\ entered' = entered
    BY <1>5, CrashDoes DEF Is
  <2>2. QED
    BY <2>1, HeldPrimed
<1>6. CASE HubLoads \/ HubFindsNone \/ HubWrites \/ UNCHANGED vars
  <2>1. UNCHANGED <<extVars, socks, reader>> /\ entered' = entered
    BY <1>6, HubStarts DEF directory, vars, hubVars
  <2>2. QED
    BY <2>1, HeldPrimed
<1>7. QED
  BY <1>1, <1>2, <1>3, <1>4, <1>5, <1>6, Steps, OpenHeld, RegisteredHeld, CloseFrameHeld,
     EndsHeld, RetryHeld, StartHeld, StopHeld, RenameHeld

-----------------------------------------------------------------------------
(* The connection the Hub lists                                            *)

\* The active client's connection that registered alone is listed, and the Hub
\* reads no other.
AloneOK(s) ==
  s \in entered \ overlapped /\ reader[s] = "reading" /\ socks[s].owner = client =>
    /\ Session \in DOMAIN listed /\ listed[Session] = s
    /\ \A t \in Socket : reader[t] = "reading" => t = s

HubInv == NoSelfOverlap /\ \A s \in Socket : AloneOK(s)

LEMMA InitHub == Init => HubInv
BY DEF Init, HubInv, NoSelfOverlap, AloneOK, Directory!DirectoryInit

\* A step after which the same sockets are read, of the same clients.
LEMMA HubPrimed ==
  ASSUME HubInv, UNCHANGED <<reader, listed, entered, overlapped, client>>,
         \A s \in Socket : reader[s] = "reading" => socks'[s].owner = socks[s].owner
  PROVE  HubInv'
<1>1. NoSelfOverlap'
  BY DEF HubInv, NoSelfOverlap
<1>2. ASSUME NEW s \in Socket PROVE AloneOK(s)'
  BY DEF HubInv, AloneOK
<1>3. QED
  BY <1>1, <1>2 DEF HubInv

LEMMA AcceptHub ==
  ASSUME TypeInv, \A t \in Socket : WireOK(t), HeldInv, HubInv, NEW s \in Socket, Accept(s)
  PROVE  HubInv'
<1>1. /\ socks[s].state = "connecting" /\ reader[s] = "none"
      /\ reader'[s] = "reading" /\ \A t \in Socket : t # s => reader'[t] = reader[t]
      /\ \A t \in Socket : socks'[t].owner = socks[t].owner
      /\ UNCHANGED <<listed, entered, overlapped, client>>
  BY AcceptDoes DEF Is, extVars, directory
<1>2. socks[s].owner = client /\ s = clients[client].ws
  BY <1>1, LiveIsHeld
<1>3. s \notin entered
  BY <1>1 DEF WireOK, Wired, Stage
<1>4. ASSUME NEW t \in Socket, t # s, reader[t] = "reading" PROVE socks[t].owner # client
  <2>1. socks[t].state # "unused"
    BY <1>4 DEF WireOK, Wired
  <2>2. QED
    BY <1>2, <1>4, <2>1 DEF HeldInv, HeldOK
<1>5. NoSelfOverlap'
  BY <1>1, <1>2, <1>4 DEF HubInv, NoSelfOverlap
<1>6. ASSUME NEW t \in Socket PROVE AloneOK(t)'
  BY <1>1, <1>2, <1>3, <1>4 DEF AloneOK
<1>7. QED
  BY <1>5, <1>6 DEF HubInv

LEMMA RegisterHub ==
  ASSUME TypeInv, HubInv, NEW s \in Socket, ReadsRegister(s)
  PROVE  HubInv'
<1>1. /\ reader[s] = "reading" /\ s \notin entered /\ entered' = entered \cup {s}
      /\ DOMAIN listed' = {Session} /\ listed'[Session] = s
      /\ \A t \in Socket : socks'[t].owner = socks[t].owner
      /\ overlapped' = IF \E t \in Socket \ {s} : reader[t] = "reading"
                       THEN overlapped \cup {s} ELSE overlapped
      /\ UNCHANGED <<client, reader>>
  BY ReadsRegisterDoes DEF Is, extVars
<1>2. NoSelfOverlap'
  BY <1>1 DEF HubInv, NoSelfOverlap
<1>3. ASSUME NEW t \in Socket PROVE AloneOK(t)'
  <2>1. CASE t = s
    <3>1. s \notin overlapped' => \A u \in Socket : reader[u] = "reading" => u = s
      BY <1>1
    <3>2. QED
      BY <1>1, <2>1, <3>1 DEF AloneOK
  <2>2. CASE t # s
    BY <1>1, <2>2 DEF HubInv, AloneOK
  <2>3. QED
    BY <2>1, <2>2
<1>4. QED
  BY <1>2, <1>3 DEF HubInv

\* Readers that end leave alone, or for nothing, those that still read.
LEMMA EndsHub ==
  ASSUME TypeInv, HubInv,
         UNCHANGED <<client, entered, overlapped>>,
         \A t \in Socket : socks'[t].owner = socks[t].owner,
         \A t \in Socket : reader'[t] = "reading" => reader[t] = "reading",
         \/ \E t \in Socket : reader[t] = "reading" /\ reader'[t] # "reading"
         \/ \A t \in Socket : reader'[t] # "reading"
  PROVE  HubInv'
<1>1. NoSelfOverlap'
  BY DEF HubInv, NoSelfOverlap
<1>2. ASSUME NEW t \in Socket PROVE AloneOK(t)'
  BY DEF HubInv, AloneOK
<1>3. QED
  BY <1>1, <1>2 DEF HubInv

\* The sockets of the clients before are none of the new one's.
LEMMA StartHub ==
  ASSUME TypeInv, \A t \in Socket : WireOK(t), HeldInv, HubInv, Start \/ Stop
  PROVE  HubInv'
<1>1. /\ client' \in {0, generation + 1} /\ generation \in Nat
      /\ UNCHANGED <<reader, listed, entered, overlapped>>
  <2>1. generation \in Nat
    BY BoundAssumption DEF TypeInv, TypeOK
  <2>2. CASE Start
    BY <2>1, <2>2, StartDoes DEF hubVars, directory
  <2>3. CASE Stop
    BY <2>1, <2>3, StopDoes DEF hubVars, directory
  <2>4. QED
    BY <2>2, <2>3
<1>2. ASSUME NEW t \in Socket, reader[t] = "reading"
      PROVE  socks'[t].owner = socks[t].owner /\ socks[t].owner \in 1..generation
  <2>1. socks[t].state # "unused"
    BY <1>2 DEF WireOK, Wired
  <2>2. socks'[t] = HungUp(client)[t]
    BY <2>1, StartDoes, StopDoes DEF IsNew
  <2>3. HungUp(client)[t].owner = socks[t].owner /\ socks[t].owner \in 1..generation
    BY <2>1, ClosedHeld
  <2>4. QED
    BY <2>2, <2>3
<1>3. NoSelfOverlap'
  BY <1>1, <1>2 DEF HubInv, NoSelfOverlap
<1>4. ASSUME NEW t \in Socket, reader[t] = "reading" PROVE socks'[t].owner # client'
  BY <1>1, <1>2, <1>4
<1>5. ASSUME NEW t \in Socket PROVE AloneOK(t)'
  BY <1>1, <1>4 DEF AloneOK
<1>6. QED
  BY <1>3, <1>5 DEF HubInv

LEMMA StepHub ==
  ASSUME TypeInv, \A t \in Socket : WireOK(t), HeldInv, HubInv, [Next]_vars
  PROVE  HubInv'
<1>1. ASSUME NEW s \in Socket,
             OnOpen(s) \/ OnRegistered(s) \/ OnCloseFrame(s) \/ OnClose(s) \/ OnRefused(s)
      PROVE  HubInv'
  <2>1. CASE OnOpen(s)
    BY <2>1, OpenDoes, HubPrimed DEF Is, extVars, hubVars, directory
  <2>2. CASE OnRegistered(s)
    <3>1. /\ \A t \in Socket : socks'[t].owner = socks[t].owner
          /\ UNCHANGED <<client, hubVars>>
      BY <2>2, RegisteredDoes DEF Is
    <3>2. QED
      BY <3>1, HubPrimed DEF hubVars, directory
  <2>3. CASE OnCloseFrame(s)
    BY <2>3, CloseFrameDoes, HubPrimed DEF Is, extVars, hubVars, directory
  <2>4. CASE OnClose(s)
    <3>1. /\ \A t \in Socket : socks'[t].owner = socks[t].owner
          /\ UNCHANGED <<client, hubVars>>
      BY <2>4, CloseDoes, ClosesDoes DEF Is
    <3>2. QED
      BY <3>1, HubPrimed DEF hubVars, directory
  <2>5. CASE OnRefused(s)
    <3>1. /\ reader[s] = "none" /\ \A t \in Socket : t # s => socks'[t] = socks[t]
          /\ UNCHANGED <<client, hubVars>>
      BY <2>5, RefusedDoes, ClosesDoes
    <3>2. QED
      BY <3>1, HubPrimed DEF hubVars, directory
  <2>6. QED
    BY <1>1, <2>1, <2>2, <2>3, <2>4, <2>5
<1>2. ASSUME NEW s \in Socket, ReadsMeta(s) PROVE HubInv'
  BY <1>2, ReadsMetaDoes, HubPrimed DEF Is, extVars, directory
<1>3. ASSUME NEW s \in Socket, ReadsClose(s) PROVE HubInv'
  <2>1. /\ reader[s] = "reading" /\ reader'[s] = "ended"
        /\ \A t \in Socket : t # s => reader'[t] = reader[t]
        /\ \A t \in Socket : socks'[t].owner = socks[t].owner
        /\ UNCHANGED <<client, entered, overlapped>>
    BY <1>3, ReadsCloseDoes DEF Is, extVars
  <2>2. QED
    BY <2>1, EndsHub
<1>4. CASE HubCrashes
  <2>1. /\ \A t \in Socket : reader'[t] # "reading"
        /\ \A t \in Socket : socks'[t].owner = socks[t].owner
        /\ UNCHANGED <<client, entered, overlapped>>
    BY <1>4, CrashDoes DEF Is, extVars
  <2>2. QED
    BY <2>1, EndsHub
<1>5. ASSUME NEW k \in Generation, Retry(k) PROVE HubInv'
  <2>1. /\ \A t \in Socket : socks'[t] = socks[t] \/ IsNew(t, k)
        /\ UNCHANGED <<client, reader, listed, entered, overlapped>>
    BY <1>5, RetryDoes DEF hubVars, directory
  <2>2. ASSUME NEW t \in Socket, reader[t] = "reading" PROVE socks'[t].owner = socks[t].owner
    BY <2>1, <2>2 DEF IsNew, WireOK, Wired
  <2>3. QED
    BY <2>1, <2>2, HubPrimed
<1>6. CASE Rename
  BY <1>6, RenameDoes, HubPrimed DEF Is, hubVars, directory
<1>7. CASE HubLoads \/ HubFindsNone \/ HubWrites \/ UNCHANGED vars
  <2>1. UNCHANGED <<socks, reader, listed, entered, overlapped, client>>
    BY <1>7, HubStarts DEF directory, vars, hubVars, extVars
  <2>2. QED
    BY <2>1, HubPrimed
<1>8. QED
  BY <1>1, <1>2, <1>3, <1>4, <1>5, <1>6, <1>7, Steps, AcceptHub, RegisterHub, StartHub

-----------------------------------------------------------------------------
(* The name on its way to the Hub                                          *)

\* What an open socket has last sent, or what the Hub last read of it, is pi's
\* name.  (Another reader may still overwrite the name; it ends first.)
LastSent(s) ==
  socks[s].state = "open" /\ socks[s].toHub # <<>> =>
    socks[s].toHub[Len(socks[s].toHub)].name = name

LastRead(s) ==
  /\ socks[s].state = "open" /\ socks[s].toHub = <<>>
  /\ Session \in DOMAIN listed /\ listed[Session] = s
  /\ \A t \in entered : reader[t] = "reading" => t = s
  => title[s] = name

NamedInv == \A s \in Socket : LastSent(s) /\ LastRead(s)

LEMMA InitNamed == Init => NamedInv
BY DEF Init, Unused, NamedInv, LastSent, LastRead

\* A step that opens no socket, and sends or reads nothing of an open one.
LEMMA NamedPrimed ==
  ASSUME NamedInv, UNCHANGED <<name, reader, listed, entered, title>>,
         \A s \in Socket : socks'[s].state = "open" =>
           socks[s].state = "open" /\ socks'[s].toHub = socks[s].toHub
  PROVE  NamedInv'
BY DEF NamedInv, LastSent, LastRead

LEMMA OpenNamed ==
  ASSUME TypeInv, \A t \in Socket : WireOK(t), HeldInv, NamedInv, NEW s \in Socket, OnOpen(s)
  PROVE  NamedInv'
<1> DEFINE frame == [type |-> "register", name |-> clients[socks[s].owner].name]
<1>1. /\ socks[s].state = "connecting" /\ frame \in HubFrame
      /\ socks'[s].toHub = Append(socks[s].toHub, frame)
      /\ \A t \in Socket : t # s => socks'[t] = socks[t]
      /\ UNCHANGED <<name, reader, listed, entered, title>>
  BY OpenDoes DEF Is, extVars, hubVars, directory
<1>2. clients[socks[s].owner].name = name
  BY <1>1, LiveIsHeld DEF HeldInv, ClientOK
<1>3. /\ socks'[s].toHub # <<>>
      /\ socks'[s].toHub[Len(socks'[s].toHub)] = frame
  BY <1>1, SocketFields, Grown DEF TypeInv
<1>4. ASSUME NEW t \in Socket PROVE LastSent(t)' /\ LastRead(t)'
  <2>1. CASE t = s
    BY <1>1, <1>2, <1>3, <2>1 DEF LastSent, LastRead
  <2>2. CASE t # s
    BY <1>1, <2>2 DEF NamedInv, LastSent, LastRead
  <2>3. QED
    BY <2>1, <2>2
<1>5. QED
  BY <1>4 DEF NamedInv

LEMMA RenameNamed ==
  ASSUME TypeInv, HeldInv, NamedInv, Rename
  PROVE  NamedInv'
<1> DEFINE w == clients[client].ws
           frame == [type |-> "meta_update", name |-> name + 1]
<1>1. /\ name' = name + 1 /\ UNCHANGED <<reader, listed, entered, title>>
      /\ frame \in HubFrame
      /\ \A t \in Socket : socks'[t].state = socks[t].state
  BY RenameDoes DEF Is, hubVars, directory
<1>2. ASSUME NEW t \in Socket, socks[t].state = "open"
      PROVE  /\ socks'[t].toHub # <<>> /\ socks'[t].toHub[Len(socks'[t].toHub)] = frame
  <2>1. client # 0 /\ t = w
    BY <1>2, LiveIsHeld
  <2>2. socks'[t].toHub = Append(socks[t].toHub, frame)
    BY <1>2, <2>1, RenameDoes DEF Is
  <2>3. QED
    BY <1>1, <2>2, SocketFields, Grown DEF TypeInv
<1>3. ASSUME NEW t \in Socket PROVE LastSent(t)' /\ LastRead(t)'
  BY <1>1, <1>2 DEF LastSent, LastRead
<1>4. QED
  BY <1>3 DEF NamedInv

\* The last of a wire whose head is read.
LEMMA LastOfTail ==
  ASSUME NEW S, NEW q \in Seq(S), q # <<>>
  PROVE  /\ Tail(q) # <<>> => Tail(q)[Len(Tail(q))] = q[Len(q)]
         /\ Tail(q) = <<>> => Head(q) = q[Len(q)]
<1>1. /\ Len(q) \in Nat \ {0} /\ Len(Tail(q)) = Len(q) - 1 /\ Tail(q) \in Seq(S)
      /\ \A j \in 1..Len(Tail(q)) : Tail(q)[j] = q[j + 1]
      /\ Head(q) = q[1]
  BY Shrunk
<1>2. Tail(q) # <<>> => Len(Tail(q)) \in 1..Len(Tail(q))
  BY <1>1, EmptySeq
<1>3. Tail(q) = <<>> => Len(q) = 1
  <2>1. Tail(q) = <<>> => Len(Tail(q)) = 0
    BY <1>1, EmptySeq
  <2>2. QED
    BY <1>1, <2>1
<1>4. QED
  BY <1>1, <1>2, <1>3

LEMMA RegisterNamed ==
  ASSUME TypeInv, NamedInv, NEW s \in Socket, ReadsRegister(s)
  PROVE  NamedInv'
<1>1. /\ name' = name /\ listed'[Session] = s /\ socks[s].toHub # <<>>
      /\ title' = [title EXCEPT ![s] = Head(socks[s].toHub).name]
      /\ \A t \in Socket : /\ socks'[t].state = socks[t].state
                           /\ socks'[t].toHub = IF t = s THEN Tail(socks[t].toHub) ELSE socks[t].toHub
  BY ReadsRegisterDoes DEF Is, extVars
<1>2. title'[s] = Head(socks[s].toHub).name
  BY <1>1 DEF TypeInv, TypeOK
<1>3. /\ Tail(socks[s].toHub) # <<>> =>
           Tail(socks[s].toHub)[Len(Tail(socks[s].toHub))] = socks[s].toHub[Len(socks[s].toHub)]
      /\ Tail(socks[s].toHub) = <<>> => Head(socks[s].toHub) = socks[s].toHub[Len(socks[s].toHub)]
  BY <1>1, SocketFields, LastOfTail DEF TypeInv
<1>4. ASSUME NEW t \in Socket PROVE LastSent(t)' /\ LastRead(t)'
  <2>1. CASE t = s
    <3>1. socks[s].state = "open" => socks[s].toHub[Len(socks[s].toHub)].name = name
      BY <1>1 DEF NamedInv, LastSent
    <3>2. socks'[s].state = socks[s].state /\ socks'[s].toHub = Tail(socks[s].toHub)
      BY <1>1
    <3>3. LastSent(s)'
      BY <1>1, <1>3, <3>1, <3>2 DEF LastSent
    <3>4. LastRead(s)'
      BY <1>1, <1>2, <1>3, <3>1, <3>2 DEF LastRead
    <3>5. QED
      BY <2>1, <3>3, <3>4
  <2>2. CASE t # s
    BY <1>1, <2>2 DEF NamedInv, LastSent, LastRead
  <2>3. QED
    BY <2>1, <2>2
<1>5. QED
  BY <1>4 DEF NamedInv

LEMMA MetaNamed ==
  ASSUME TypeInv, \A t \in Socket : WireOK(t), NamedInv, NEW s \in Socket, ReadsMeta(s)
  PROVE  NamedInv'
<1>1. /\ reader[s] = "reading" /\ socks[s].toHub # <<>> /\ Head(socks[s].toHub).type = "meta_update"
      /\ UNCHANGED <<name, reader, listed, entered>>
      /\ title' = IF s \in entered /\ Session \in DOMAIN listed
                  THEN [title EXCEPT ![listed[Session]] = Head(socks[s].toHub).name] ELSE title
      /\ \A t \in Socket : /\ socks'[t].state = socks[t].state
                           /\ socks'[t].toHub = IF t = s THEN Tail(socks[t].toHub) ELSE socks[t].toHub
  BY ReadsMetaDoes DEF Is, extVars, directory
<1>2. s \in entered
  <2>1. socks[s].toHub \in Seq(HubFrame) /\ Stage(s) \in {"known", "new"} /\ Framed(socks[s].toHub, Stage(s))
    BY SocketFields DEF TypeInv, WireOK, Wired, Stage
  <2>2. Stage(s) = "known"
    BY <1>1, <2>1, ShrunkFramed
  <2>3. QED
    BY <2>2 DEF Stage
<1>3. /\ Tail(socks[s].toHub) # <<>> =>
           Tail(socks[s].toHub)[Len(Tail(socks[s].toHub))] = socks[s].toHub[Len(socks[s].toHub)]
      /\ Tail(socks[s].toHub) = <<>> => Head(socks[s].toHub) = socks[s].toHub[Len(socks[s].toHub)]
  BY <1>1, SocketFields, LastOfTail DEF TypeInv
<1>4. Session \in DOMAIN listed /\ listed[Session] = s => title'[s] = Head(socks[s].toHub).name
  BY <1>1, <1>2 DEF TypeInv, TypeOK
<1>5. ASSUME NEW t \in Socket PROVE LastSent(t)' /\ LastRead(t)'
  <2>1. CASE t = s
    BY <1>1, <1>3, <1>4, <2>1 DEF NamedInv, LastSent, LastRead
  <2>2. CASE t # s
    BY <1>1, <1>2, <2>2 DEF NamedInv, LastSent, LastRead
  <2>3. QED
    BY <2>1, <2>2
<1>6. QED
  BY <1>5 DEF NamedInv

LEMMA CloseNamed ==
  ASSUME TypeInv, \A t \in Socket : WireOK(t), NamedInv, NEW s \in Socket, ReadsClose(s)
  PROVE  NamedInv'
<1>1. /\ reader[s] = "reading" /\ socks[s].toHub # <<>> /\ Head(socks[s].toHub).type = "close"
      /\ \A t \in Socket : t # s => reader'[t] = reader[t]
      /\ UNCHANGED <<name, entered, title>>
      /\ IF s \in entered THEN DOMAIN listed' = {} ELSE listed' = listed
      /\ \A t \in Socket : /\ socks'[t].state = socks[t].state
                           /\ t # s => socks'[t].toHub = socks[t].toHub
  BY ReadsCloseDoes DEF Is, extVars
<1>2. socks[s].state # "open"
  <2>1. Carries(socks[s].toHub, "close")
    <3>1. socks[s].toHub \in Seq(HubFrame)
      BY SocketFields DEF TypeInv
    <3>2. QED
      BY <1>1, <3>1, ShrunkCarries
  <2>2. QED
    BY <2>1 DEF WireOK, Wired
<1>3. entered \subseteq Socket
  BY DEF TypeInv, TypeOK
<1>4. ASSUME NEW t \in Socket PROVE LastSent(t)' /\ LastRead(t)'
  <2>1. LastSent(t)'
    BY <1>1, <1>2 DEF NamedInv, LastSent
  <2>2. LastRead(t)'
    <3>1. CASE s \in entered
      BY <1>1, <3>1 DEF LastRead
    <3>2. CASE s \notin entered
      BY <1>1, <1>2, <1>3, <3>2 DEF NamedInv, LastRead
    <3>3. QED
      BY <3>1, <3>2
  <2>3. QED
    BY <2>1, <2>2
<1>5. QED
  BY <1>4 DEF NamedInv

LEMMA AcceptNamed ==
  ASSUME TypeInv, \A t \in Socket : WireOK(t), NamedInv, NEW s \in Socket, Accept(s)
  PROVE  NamedInv'
<1>1. /\ reader[s] = "none" /\ \A t \in Socket : t # s => reader'[t] = reader[t]
      /\ UNCHANGED <<name, listed, entered, title>>
      /\ \A t \in Socket : socks'[t].state = socks[t].state /\ socks'[t].toHub = socks[t].toHub
  BY AcceptDoes DEF Is, extVars, directory
<1>2. s \notin entered /\ entered \subseteq Socket
  BY <1>1 DEF WireOK, Wired, Stage, TypeInv, TypeOK
<1>3. QED
  BY <1>1, <1>2 DEF NamedInv, LastSent, LastRead

LEMMA StepNamed ==
  ASSUME TypeInv, \A t \in Socket : WireOK(t), HeldInv, NamedInv, [Next]_vars
  PROVE  NamedInv'
<1>1. ASSUME NEW s \in Socket,
             OnRegistered(s) \/ OnCloseFrame(s) \/ OnClose(s) \/ OnRefused(s)
      PROVE  NamedInv'
  <2>1. UNCHANGED <<name, reader, listed, entered, title>>
    BY <1>1, RegisteredDoes, CloseFrameDoes, CloseDoes, RefusedDoes, ClosesDoes
    DEF extVars, hubVars, directory
  <2>2. \A t \in Socket : socks'[t].state = "open" =>
          socks[t].state = "open" /\ socks'[t].toHub = socks[t].toHub
    <3>1. \A t \in Socket : t # s => socks'[t] = socks[t]
      BY <1>1, RegisteredDoes, CloseFrameDoes, CloseDoes, RefusedDoes
    <3>2. socks'[s].state = "open" => socks[s].state = "open" /\ socks'[s].toHub = socks[s].toHub
      <4>1. CASE OnRegistered(s)
        BY <4>1, RegisteredDoes DEF Is
      <4>2. CASE OnCloseFrame(s)
        BY <4>2, CloseFrameDoes DEF Is
      <4>3. CASE OnClose(s)
        BY <4>3, CloseDoes DEF Is
      <4>4. CASE OnRefused(s)
        BY <4>4, RefusedDoes DEF Unused
      <4>5. QED
        BY <1>1, <4>1, <4>2, <4>3, <4>4
    <3>3. QED
      BY <3>1, <3>2
  <2>3. QED
    BY <2>1, <2>2, NamedPrimed
<1>2. ASSUME NEW k \in Generation, Retry(k) PROVE NamedInv'
  <2>1. /\ \A t \in Socket : socks'[t] = socks[t] \/ IsNew(t, k)
        /\ UNCHANGED <<name, reader, listed, entered, title>>
    BY <1>2, RetryDoes DEF hubVars, directory
  <2>2. QED
    BY <2>1, NamedPrimed DEF IsNew, Is
<1>3. CASE Start \/ Stop
  <2>1. /\ \A t \in Socket : socks'[t] = HungUp(client)[t] \/ IsNew(t, generation + 1)
        /\ UNCHANGED <<name, reader, listed, entered, title>>
    BY <1>3, StartDoes, StopDoes DEF hubVars, directory
  <2>2. \A t \in Socket : HungUp(client)[t].state = "open" => HungUp(client)[t] = socks[t]
    BY HungUpType DEF TypeInv
  <2>3. QED
    BY <2>1, <2>2, NamedPrimed DEF IsNew, Is
<1>4. CASE HubCrashes
  <2>1. /\ name' = name /\ DOMAIN listed' = {}
        /\ \A t \in Socket : socks'[t].state = socks[t].state /\ socks'[t].toHub = socks[t].toHub
    BY <1>4, CrashDoes DEF Is, extVars
  <2>2. QED
    BY <2>1 DEF NamedInv, LastSent, LastRead
<1>5. CASE HubLoads \/ HubFindsNone \/ HubWrites \/ UNCHANGED vars
  <2>1. UNCHANGED <<socks, name, reader, listed, entered, title>>
    BY <1>5, HubStarts DEF directory, vars, hubVars, extVars
  <2>2. QED
    BY <2>1, NamedPrimed
<1>6. QED
  BY <1>1, <1>2, <1>3, <1>4, <1>5, Steps, OpenNamed, RenameNamed, RegisterNamed, MetaNamed,
     CloseNamed, AcceptNamed

-----------------------------------------------------------------------------
(* The theorems                                                            *)

Inv == TypeInv /\ (\A s \in Socket : WireOK(s)) /\ HeldInv /\ HubInv /\ NamedInv

\* The inductive invariant of the client and the Hub it talks to: every layer
\* above, together.
THEOREM ClientCorrect == Spec => []Inv
<1>1. Init => Inv
  BY InitTypes, InitWires, InitHeld, InitHub, InitNamed DEF Inv
<1>2. Inv /\ [Next]_vars => Inv'
  <2>1. SUFFICES ASSUME Inv, [Next]_vars PROVE Inv'
    OBVIOUS
  <2>2. TypeInv /\ (\A s \in Socket : WireOK(s)) /\ HeldInv /\ HubInv /\ NamedInv
    BY <2>1 DEF Inv
  <2>3. TypeInv' /\ (\A s \in Socket : WireOK(s))'
    BY <2>1, <2>2, StepTypes, StepWires
  <2>4. HeldInv' /\ HubInv' /\ NamedInv'
    BY <2>1, <2>2, StepHeld, StepHub, StepNamed
  <2>5. QED
    BY <2>3, <2>4 DEF Inv
<1>3. QED
  BY <1>1, <1>2, PTL DEF Spec

\* Every variable keeps its type: no bound of the sockets, generations or Hubs is
\* passed, and what is listed is a socket.
THEOREM ClientTypeOK == Spec => []TypeOK
<1>1. Inv => TypeOK
  BY DEF Inv, TypeInv
<1>2. QED
  BY <1>1, ClientCorrect, PTL

\* setStatus: the footer is that of the active client, whatever a replaced one
\* still reports (hub-client.ts, index.ts).
THEOREM FooterIsCurrent == Spec => []ShownIsCurrent
<1>1. Inv => ShownIsCurrent
  BY DEF Inv, HeldInv, ClientOK
<1>2. QED
  BY <1>1, ClientCorrect, PTL

\* One terminal has one connection: close() and the retries leave a second one
\* to nobody.
THEOREM TerminalHasOneSocket == Spec => []OneLiveSocket
<1>1. Inv => OneLiveSocket
  BY LiveIsHeld DEF Inv, OneLiveSocket, Live
<1>2. QED
  BY <1>1, ClientCorrect, PTL

\* What the Hub may take for granted of a connection: it registers first, and
\* once.
THEOREM ConnectionsRegisterFirst == Spec => []RegistersFirst
<1>1. ASSUME Inv PROVE RegistersFirst
  <2>1. \A s \in Socket : Framed(socks[s].toHub, Stage(s))
    BY <1>1 DEF Inv, WireOK, Wired
  <2>2. QED
    BY <2>1 DEF RegistersFirst, Framed, Stage
<1>2. QED
  BY <1>1, ClientCorrect, PTL

\* A client never races its own last connection at the Hub.
THEOREM ClientsTakeTurns == Spec => []NoSelfOverlap
<1>1. Inv => NoSelfOverlap
  BY DEF Inv, HubInv
<1>2. QED
  BY <1>1, ClientCorrect, PTL

\* At rest, a connection the Hub reads and that has registered is open, and the
\* active client's.
LEMMA AtRest ==
  ASSUME Inv, Quiet, NEW s \in Socket, s \in entered, reader[s] = "reading"
  PROVE  socks[s].state = "open" /\ socks[s].toHub = <<>> /\ client # 0 /\ s = clients[client].ws
<1>1. socks[s].toHub = <<>> /\ Wired(socks[s], reader[s], Stage(s)) /\ Stage(s) = "known"
  BY DEF Inv, WireOK, Quiet, Stage
<1>2. ~Carries(socks[s].toHub, "close")
  BY <1>1, EmptyWire
<1>3. socks[s].state = "open"
  BY <1>1, <1>2 DEF Wired
<1>4. QED
  BY <1>1, <1>3, LiveIsHeld DEF Inv

\* updateInfo and the register of every reconnect: at rest the Hub shows pi's
\* name.
THEOREM HubShowsTheName == Spec => []NameCurrent
<1>1. ASSUME Inv, client # 0, Quiet, Session \in DOMAIN listed PROVE title[listed[Session]] = name
  <2> DEFINE s == listed[Session]
  <2>1. s \in Socket /\ s \in entered /\ reader[s] = "reading" /\ entered \subseteq Socket
    BY <1>1 DEF Inv, TypeInv, TypeOK, ListedReads
  <2>2. socks[s].state = "open" /\ socks[s].toHub = <<>> /\ s = clients[client].ws
    BY <1>1, <2>1, AtRest
  <2>3. \A t \in entered : reader[t] = "reading" => t = s
    BY <1>1, <2>1, <2>2, AtRest
  <2>4. QED
    BY <1>1, <2>1, <2>2, <2>3 DEF Inv, NamedInv, LastRead
<1>2. Inv => NameCurrent
  BY <1>1 DEF NameCurrent
<1>3. QED
  BY <1>2, ClientCorrect, PTL

\* "RC: connected" is true: at rest the Hub lists the active client's connection.
THEOREM ConnectedClientIsListed == Spec => []ConnectedIsListed
<1>1. ASSUME Inv, client # 0, shown = "connected", Quiet, clients[client].ws \notin overlapped
      PROVE  Session \in DOMAIN listed /\ listed[Session] = clients[client].ws
  <2> DEFINE w == clients[client].ws
  <2>1. /\ w \in Socket /\ w \in entered
        /\ socks[w].owner = client /\ socks[w].state \in {"open", "closing"}
    BY <1>1 DEF Inv, HeldInv, ClientOK, ConnectedOK, ShownIsCurrent
  <2>2. socks[w].toExt = <<>> /\ Wired(socks[w], reader[w], Stage(w)) /\ Stage(w) = "known"
    BY <1>1, <2>1 DEF Inv, WireOK, Quiet, Stage
  <2>3. reader[w] # "none" /\ reader[w] # "ended"
    BY <2>1, <2>2, EmptyWire DEF Wired
  <2>4. reader[w] = "reading"
    BY <1>1, <2>1, <2>3 DEF Inv, TypeInv, TypeOK
  <2>5. QED
    BY <1>1, <2>1, <2>4 DEF Inv, HubInv, AloneOK
<1>2. Inv => ConnectedIsListed
  BY <1>1 DEF ConnectedIsListed
<1>3. QED
  BY <1>2, ClientCorrect, PTL
=============================================================================
