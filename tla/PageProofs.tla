------------------------------ MODULE PageProofs ------------------------------
(***************************************************************************)
(* Theorems about Page, for any number of sessions, sockets and timers.    *)
(*                                                                         *)
(* NotStranded is inductive with what the two variables hold (Held): the   *)
(* channel a socket to the control endpoint that is not closed, the chat   *)
(* one to a session, and no chat where the list is shown.  OneOwner needs  *)
(* more, where the user does not hurry (RailCalm, ChatCalm): of a call of  *)
(* start, a timer and a socket the list has one at most, and any socket no *)
(* variable holds is already closing.                                      *)
(***************************************************************************)
EXTENDS Page, TLAPS

Sockets == [Socket -> {Closed} \cup [state : ReadyState, to : Target]]

LEMMA Constants ==
  /\ None \notin Session /\ None # "control" /\ None # "sessions" /\ None \notin Socket
  /\ "control" \notin Session /\ "sessions" \notin Session
  /\ MaxPending \in Nat /\ MaxMoves \in Nat /\ MaxLosses \in Nat /\ MaxSockets \in Nat
BY NoneAssumption, RouteAssumption, BoundAssumption DEF Socket

LEMMA SocketIs ==
  ASSUME NEW ss \in Sockets, NEW s \in Socket
  PROVE  \/ ss[s] = Closed /\ ss[s].state = "closed" /\ ss[s].to = None
         \/ ss[s].state \in ReadyState /\ ss[s].to \in Target /\ ss[s].state # "closed"
            /\ ss[s] # Closed /\ ss[s].to # None
            /\ ss[s] \in [state : ReadyState, to : Target]
<1>1. CASE ss[s] = Closed
  BY <1>1 DEF Closed
<1>2. CASE ss[s] \in [state : ReadyState, to : Target]
  <2>1. ss[s].state \in ReadyState /\ ss[s].to \in Target
    BY <1>2
  <2>2. ss[s].state # "closed" /\ ss[s].to # None
    BY <2>1, Constants DEF ReadyState, Target
  <2>3. ss[s] # Closed
    BY <2>2 DEF Closed
  <2>4. QED
    BY <1>2, <2>1, <2>2, <2>3
<1>3. QED
  BY <1>1, <1>2 DEF Sockets

\* close() on x: no socket goes or changes its end, and x is not live after it.
LEMMA HungUpDoes ==
  ASSUME NEW ss \in Sockets, NEW x
  PROVE  /\ HungUp(ss, x) \in Sockets
         /\ \A s \in Socket :
              /\ HungUp(ss, x)[s].to = ss[s].to
              /\ HungUp(ss, x)[s] = Closed <=> ss[s] = Closed
              /\ HungUp(ss, x)[s].state = "closed" <=> ss[s].state = "closed"
              /\ s # x \/ ss[s].state \notin {"connecting", "open"} => HungUp(ss, x)[s] = ss[s]
              /\ s = x /\ ss[s].state = "open" => HungUp(ss, x)[s].state = "closing"
              /\ s = x => HungUp(ss, x)[s].state \notin {"connecting", "open"}
<1> DEFINE Rec == [state : ReadyState, to : Target]
<1>1. SUFFICES ASSUME NEW s \in Socket
               PROVE  /\ HungUp(ss, x)[s] \in {Closed} \cup Rec
                      /\ HungUp(ss, x)[s].to = ss[s].to
                      /\ HungUp(ss, x)[s] = Closed <=> ss[s] = Closed
                      /\ HungUp(ss, x)[s].state = "closed" <=> ss[s].state = "closed"
                      /\ s # x \/ ss[s].state \notin {"connecting", "open"} => HungUp(ss, x)[s] = ss[s]
                      /\ s = x /\ ss[s].state = "open" => HungUp(ss, x)[s].state = "closing"
                      /\ s = x => HungUp(ss, x)[s].state \notin {"connecting", "open"}
  BY DEF HungUp, Sockets
<1>2. ss[s] \in {Closed} \cup Rec
  BY DEF Sockets
<1>3. CASE s = x /\ ss[s].state \in {"connecting", "open"}
  <2> DEFINE v == IF ss[s].state = "connecting" THEN "failing" ELSE "closing"
  <2>1. HungUp(ss, x)[s] = [ss[s] EXCEPT !.state = v]
    BY <1>3 DEF HungUp
  <2>2. ss[s] \in Rec
    BY <1>2, <1>3 DEF Closed
  <2>3. v \in ReadyState /\ v # "closed" /\ v \notin {"connecting", "open"}
    BY DEF ReadyState
  <2>4. /\ HungUp(ss, x)[s] \in Rec /\ HungUp(ss, x)[s].to = ss[s].to
        /\ HungUp(ss, x)[s].state = v
    BY <2>1, <2>2, <2>3
  <2>5. HungUp(ss, x)[s] # Closed /\ ss[s] # Closed
    BY <1>3, <2>3, <2>4 DEF Closed
  <2>6. QED
    BY <1>3, <2>3, <2>4, <2>5
<1>4. CASE ~(s = x /\ ss[s].state \in {"connecting", "open"})
  <2>1. HungUp(ss, x)[s] = ss[s]
    BY <1>4 DEF HungUp
  <2>2. QED
    BY <1>2, <1>4, <2>1
<1>5. QED
  BY <1>3, <1>4

LEMMA DialledDoes ==
  ASSUME NEW ss \in Sockets, NEW s \in Socket, NEW to \in Target
  PROVE  /\ Dialled(ss, s, to) \in Sockets
         /\ Dialled(ss, s, to)[s].state = "connecting" /\ Dialled(ss, s, to)[s].to = to
         /\ \A t \in Socket : t # s => Dialled(ss, s, to)[t] = ss[t]
BY DEF Dialled, Sockets, ReadyState

LEMMA ClosedOne ==
  ASSUME NEW ss \in Sockets, NEW s \in Socket
  PROVE  /\ [ss EXCEPT ![s] = Closed] \in Sockets
         /\ [ss EXCEPT ![s] = Closed][s] = Closed
         /\ \A t \in Socket : t # s => [ss EXCEPT ![s] = Closed][t] = ss[t]
BY DEF Sockets

LEMMA FreshIs ==
  ASSUME NEW ss, NEW held, NEW s \in Fresh(ss, held)
  PROVE  s \in Socket /\ ss[s] = Closed /\ s \notin held
BY DEF Fresh

-----------------------------------------------------------------------------
(* What the steps do                                                       *)

\* A socket s that was closed, and that neither variable held, now connects.
Opens(s, to) ==
  /\ s \in Socket /\ s # channel /\ s # chat /\ socks[s] = Closed
  /\ socks'[s].state = "connecting" /\ socks'[s].to = to
  /\ \A t \in Socket : t # s => socks'[t] = socks[t]

LEMMA ConnectDoes ==
  ASSUME TypeOK, ConnectControl
  PROVE  socks' \in Sockets /\ channel' \in Socket /\ Opens(channel', "control")
<1>1. PICK s \in Fresh(socks, {channel, chat}) : channel' = s /\ socks' = Dialled(socks, s, "control")
  BY DEF ConnectControl
<1>2. s \in Socket /\ socks[s] = Closed /\ s # channel /\ s # chat
  BY <1>1, FreshIs
<1>3. socks \in Sockets /\ "control" \in Target
  BY DEF TypeOK, Sockets, Target
<1>4. QED
  BY <1>1, <1>2, <1>3, DialledDoes DEF Opens

LEMMA ChatDialsDoes ==
  ASSUME TypeOK, ChatTimerFires
  PROVE  /\ \/ chatTimer /\ chatTimer' = FALSE /\ chatOrphans' = chatOrphans
            \/ chatOrphans > 0 /\ chatOrphans' = chatOrphans - 1 /\ chatTimer' = chatTimer
         /\ socks' \in Sockets
         /\ \/ current = None /\ chat' = chat /\ socks' = socks
            \/ current \in Session /\ chat' \in Socket /\ Opens(chat', current)
         /\ current' = current /\ UNCHANGED <<userVars, railVars, hubVars>>
<1>1. socks \in Sockets /\ current \in Session \cup {None}
  BY DEF TypeOK, Sockets
<1>2. CASE current = None
  BY <1>1, <1>2 DEF ChatTimerFires
<1>3. CASE current # None
  <2>1. PICK s \in Fresh(socks, {channel, chat}) : chat' = s /\ socks' = Dialled(socks, s, current)
    BY <1>3 DEF ChatTimerFires
  <2>2. s \in Socket /\ socks[s] = Closed /\ s # channel /\ s # chat
    BY <2>1, FreshIs
  <2>3. current \in Session /\ current \in Target
    BY <1>1, <1>3 DEF Target
  <2>4. socks' \in Sockets /\ chat' \in Socket /\ Opens(chat', current)
    BY <1>1, <2>1, <2>2, <2>3, DialledDoes DEF Opens
  <2>5. QED
    BY <2>3, <2>4 DEF ChatTimerFires
<1>4. QED
  BY <1>2, <1>3

\* Chat.open: nothing, or the socket of before is hung up and a new one opened.
LEMMA OpenChatDoes ==
  ASSUME TypeOK, NEW ss \in Sockets, NEW r \in Session, OpenChat(r, ss)
  PROVE  /\ socks' \in Sockets /\ current' = r /\ chatOrphans' = chatOrphans
         /\ \/ /\ current = r /\ chat # None /\ socks' = ss /\ chat' = chat
               /\ chatTimer' = chatTimer
            \/ /\ ~(current = r /\ chat # None)
               /\ chat' \in Socket /\ chat' # channel /\ chatTimer' = FALSE
               /\ ss[chat'] = Closed /\ socks'[chat'].state = "connecting" /\ socks'[chat'].to = r
               /\ \A t \in Socket : t # chat' => socks'[t] = HungUp(ss, chat)[t]
<1>1. CASE current = r /\ chat # None
  BY <1>1 DEF OpenChat, chatVars
<1>2. CASE ~(current = r /\ chat # None)
  <2>1. PICK s \in Fresh(HungUp(ss, chat), {channel}) :
          /\ chat' = s /\ socks' = Dialled(HungUp(ss, chat), s, r)
          /\ current' = r /\ chatTimer' = FALSE /\ UNCHANGED chatOrphans
    BY <1>2 DEF OpenChat
  <2>2. s \in Socket /\ HungUp(ss, chat)[s] = Closed /\ s # channel
    BY <2>1, FreshIs
  <2>3. HungUp(ss, chat) \in Sockets /\ ss[s] = Closed /\ r \in Target
    BY <2>2, HungUpDoes DEF Target
  <2>4. QED
    BY <1>2, <2>1, <2>2, <2>3, DialledDoes
<1>3. QED
  BY <1>1, <1>2

\* The end of a connection: the socket is gone, and what is hung up besides it
\* was to the same end of the page.
LEMMA EventDoes ==
  ASSUME TypeOK, NEW s \in Socket, OnClose(s) \/ OnFail(s)
  PROVE  /\ socks' \in Sockets /\ socks[s] # Closed /\ socks'[s] = Closed
         /\ \A t \in Socket : t # s =>
              /\ socks'[t].to = socks[t].to
              /\ socks'[t] = Closed <=> socks[t] = Closed
              /\ socks'[t].state = "closed" <=> socks[t].state = "closed"
         /\ socks[s].to = "control" => RailCloses
         /\ socks[s].to # "control" => ChatCloses
         /\ UNCHANGED <<userVars, hubVars>>
<1> DEFINE ss == [socks EXCEPT ![s] = Closed]
<1>1. socks \in Sockets
  BY DEF TypeOK, Sockets
<1>2. ss \in Sockets /\ ss[s] = Closed /\ \A t \in Socket : t # s => ss[t] = socks[t]
  BY <1>1, ClosedOne
<1>3. socks[s] # Closed
  BY DEF OnClose, OnFail, Closed
<1>4. CASE OnClose(s)
  BY <1>2, <1>3, <1>4 DEF OnClose
<1>5. CASE OnFail(s)
  <2>1. CASE socks[s].to = "control"
    <3>1. socks' = HungUp(ss, channel) /\ RailCloses
      BY <1>5, <2>1 DEF OnFail
    <3> HIDE DEF ss
    <3>2. HungUp(ss, channel)[s] = Closed /\ HungUp(ss, channel) \in Sockets
      BY <1>2, HungUpDoes
    <3>3. \A t \in Socket : /\ HungUp(ss, channel)[t].to = ss[t].to
                            /\ HungUp(ss, channel)[t] = Closed <=> ss[t] = Closed
                            /\ HungUp(ss, channel)[t].state = "closed" <=> ss[t].state = "closed"
      BY <1>2, HungUpDoes
    <3>4. QED
      BY <1>2, <1>3, <1>5, <2>1, <3>1, <3>2, <3>3 DEF OnFail
  <2>2. CASE socks[s].to # "control"
    <3>1. socks' = HungUp(ss, chat) /\ ChatCloses
      BY <1>5, <2>2 DEF OnFail
    <3> HIDE DEF ss
    <3>2. HungUp(ss, chat)[s] = Closed /\ HungUp(ss, chat) \in Sockets
      BY <1>2, HungUpDoes
    <3>3. \A t \in Socket : /\ HungUp(ss, chat)[t].to = ss[t].to
                            /\ HungUp(ss, chat)[t] = Closed <=> ss[t] = Closed
                            /\ HungUp(ss, chat)[t].state = "closed" <=> ss[t].state = "closed"
      BY <1>2, HungUpDoes
    <3>4. QED
      BY <1>2, <1>3, <1>5, <2>2, <3>1, <3>2, <3>3 DEF OnFail
  <2>3. QED
    BY <2>1, <2>2
<1>6. QED
  BY <1>4, <1>5

LEMMA OpenDoes ==
  ASSUME TypeOK, NEW s \in Socket, OnOpen(s)
  PROVE  /\ socks' \in Sockets /\ socks[s].state = "connecting" /\ socks'[s].state = "open"
         /\ socks'[s].to = socks[s].to
         /\ \A t \in Socket : t # s => socks'[t] = socks[t]
         /\ UNCHANGED <<userVars, railVars, chatVars, hubVars>>
<1>1. socks \in Sockets /\ socks[s].state = "connecting" /\ socks' = [socks EXCEPT ![s].state = "open"]
  BY DEF OnOpen, TypeOK, Sockets
<1>2. socks[s] \in [state : ReadyState, to : Target]
  BY <1>1, SocketIs
<1>3. /\ [socks[s] EXCEPT !.state = "open"] \in [state : ReadyState, to : Target]
      /\ [socks[s] EXCEPT !.state = "open"].state = "open"
      /\ [socks[s] EXCEPT !.state = "open"].to = socks[s].to
  BY <1>2 DEF ReadyState
<1>4. /\ socks'[s] = [socks[s] EXCEPT !.state = "open"]
      /\ \A t \in Socket : t # s => socks'[t] = socks[t]
  BY <1>1 DEF Sockets
<1>5. socks' \in Sockets
  BY <1>1, <1>3 DEF Sockets
<1>6. QED
  BY <1>1, <1>3, <1>4, <1>5 DEF OnOpen

\* renderRoute: what each of its three branches leaves.
LEMMA MoveDoes ==
  ASSUME TypeOK, NEW r \in Session \cup {"sessions"}, NEW d \in BOOLEAN, Move(r, d)
  PROVE  /\ route' = r /\ desktop' = d /\ moves < MaxMoves /\ moves' = moves + 1
         /\ hurried' = (hurried \/ ~Settled \/ (r # route /\ "sessions" \notin {r, route}))
         /\ UNCHANGED hubVars /\ railOrphans' = railOrphans /\ chatOrphans' = chatOrphans
         /\ IF r = "sessions" \/ d
            THEN /\ channel' = channel /\ railTimer' = railTimer
                 /\ IF channel = None THEN starts < MaxPending /\ starts' = starts + 1
                    ELSE starts' = starts
            ELSE channel' = None /\ railTimer' = FALSE /\ starts' = starts
         /\ socks' \in Sockets
         /\ IF r = "sessions"
            THEN chat' = None /\ current' = None /\ chatTimer' = FALSE /\ socks' = HungUp(socks, chat)
            ELSE r \in Session /\ OpenChat(r, IF d THEN socks ELSE HungUp(socks, channel))
<1>1. socks \in Sockets
  BY DEF TypeOK, Sockets
<1>2. HungUp(socks, chat) \in Sockets /\ HungUp(socks, channel) \in Sockets
  BY <1>1, HungUpDoes
<1>3. /\ route' = r /\ desktop' = d /\ moves < MaxMoves /\ moves' = moves + 1
      /\ hurried' = (hurried \/ ~Settled \/ (r # route /\ "sessions" \notin {r, route}))
      /\ UNCHANGED hubVars
  BY DEF Move, Render
<1>4. CASE r = "sessions"
  BY <1>2, <1>3, <1>4 DEF Move, Render, Start, CloseChat
<1>5. CASE r # "sessions" /\ d
  <2>1. OpenChat(r, socks) /\ Start /\ r \in Session
    BY <1>5 DEF Move, Render
  <2>2. QED
    BY <1>1, <1>3, <1>5, <2>1, OpenChatDoes DEF Start
<1>6. CASE r # "sessions" /\ ~d
  <2>1. OpenChat(r, HungUp(socks, channel)) /\ Stop /\ r \in Session
    BY <1>6 DEF Move, Render
  <2>2. QED
    BY <1>2, <1>3, <1>6, <2>1, OpenChatDoes DEF Stop
<1>7. QED
  BY <1>4, <1>5, <1>6

LEMMA Steps ==
  ASSUME [Next]_vars
  PROVE  \/ \E s \in Socket : OnOpen(s) \/ OnClose(s) \/ OnFail(s)
         \/ FetchReturns \/ RailTimerFires \/ ChatTimerFires
         \/ \E r \in Session \cup {"sessions"}, d \in BOOLEAN : Move(r, d)
         \/ \E gone \in SUBSET Target : Lose(gone)
         \/ Recover
         \/ UNCHANGED vars
BY DEF Next, Event, Target

-----------------------------------------------------------------------------
(* Types                                                                   *)

LEMMA InitTypes == Init => TypeOK
<1>1. SUFFICES ASSUME Init PROVE TypeOK
  OBVIOUS
<1>2. socks \in Sockets /\ chat \in Socket \cup {None} /\ current \in Session \cup {None}
  <2> DEFINE none == [s \in Socket |-> Closed]
  <2>1. none \in Sockets
    BY DEF Sockets
  <2>2. CASE route = "sessions"
    BY <1>1, <2>1, <2>2 DEF Init
  <2>3. CASE route # "sessions"
    <3>1. route \in Session /\ chat = 1 /\ current = route /\ socks = Dialled(none, 1, route)
      BY <1>1, <2>3 DEF Init
    <3>2. 1 \in Socket /\ route \in Target
      BY <3>1, BoundAssumption DEF Socket, Target
    <3>3. QED
      BY <2>1, <3>1, <3>2, DialledDoes
  <2>4. QED
    BY <2>2, <2>3
<1>3. starts \in 0..MaxPending
  BY <1>1, BoundAssumption DEF Init
<1>4. authorized \in BOOLEAN
  BY <1>1 DEF Init, is_authorized_tailscale
<1>5. there \subseteq Target /\ hurried \in BOOLEAN
  BY <1>1 DEF Init
<1>6. /\ route \in Session \cup {"sessions"} /\ desktop \in BOOLEAN
      /\ channel \in Socket \cup {None} /\ railTimer \in BOOLEAN /\ chatTimer \in BOOLEAN
  BY <1>1 DEF Init
<1>7. /\ railOrphans \in 0..MaxPending /\ chatOrphans \in 0..MaxPending
      /\ moves \in 0..MaxMoves /\ losses \in 0..MaxLosses
  BY <1>1, Constants DEF Init
<1>8. QED
  BY <1>2, <1>3, <1>4, <1>5, <1>6, <1>7 DEF TypeOK, Sockets

LEMMA StepTypes == TypeOK /\ [Next]_vars => TypeOK'
<1>1. SUFFICES ASSUME TypeOK, [Next]_vars PROVE TypeOK'
  OBVIOUS
<1>2. /\ socks \in Sockets /\ railTimer \in BOOLEAN /\ chatTimer \in BOOLEAN /\ hurried \in BOOLEAN
      /\ MaxPending \in Nat /\ starts \in 0..MaxPending
      /\ railOrphans \in 0..MaxPending /\ chatOrphans \in 0..MaxPending
  BY <1>1, Constants DEF TypeOK, Sockets
<1>3. ASSUME NEW s \in Socket, OnOpen(s) PROVE TypeOK'
  BY <1>1, <1>3, OpenDoes DEF TypeOK, Sockets, userVars, railVars, chatVars, hubVars
<1>4. ASSUME NEW s \in Socket, OnClose(s) \/ OnFail(s) PROVE TypeOK'
  <2>1. /\ socks' \in Sockets /\ UNCHANGED <<userVars, hubVars>>
        /\ RailCloses \/ ChatCloses
    BY <1>1, <1>4, EventDoes
  <2>2. /\ channel' \in Socket \cup {None} /\ chat' = chat /\ current' = current /\ starts' = starts
    BY <1>1, <2>1 DEF RailCloses, ChatCloses, TypeOK, chatVars, railVars
  <2>3. /\ railTimer' \in BOOLEAN /\ chatTimer' \in BOOLEAN
    BY <1>1, <1>2, <2>1 DEF RailCloses, ChatCloses, chatVars, railVars
  <2>4. /\ railOrphans' \in 0..MaxPending /\ chatOrphans' \in 0..MaxPending
    BY <1>1, <1>2, <2>1 DEF RailCloses, ChatCloses, chatVars, railVars
  <2>5. QED
    BY <1>1, <2>1, <2>2, <2>3, <2>4 DEF TypeOK, Sockets, userVars, hubVars
<1>5. CASE FetchReturns
  <2>1. /\ starts > 0 /\ starts' = starts - 1 /\ UNCHANGED <<railTimer, railOrphans, userVars, chatVars, hubVars>>
        /\ ConnectControl \/ UNCHANGED <<channel, socks>>
    BY <1>5 DEF FetchReturns
  <2>2. socks' \in Sockets /\ channel' \in Socket \cup {None}
    BY <1>1, <1>2, <2>1, ConnectDoes DEF TypeOK
  <2>3. starts' \in 0..MaxPending
    BY <1>2, <2>1
  <2>4. QED
    BY <1>1, <2>1, <2>2, <2>3 DEF TypeOK, Sockets, userVars, chatVars, hubVars
<1>6. CASE RailTimerFires
  <2>1. /\ ConnectControl /\ UNCHANGED <<starts, userVars, chatVars, hubVars>>
        /\ railTimer' \in BOOLEAN /\ railOrphans' \in 0..MaxPending
    <3>1. \/ railTimer' = FALSE /\ railOrphans' = railOrphans
          \/ railOrphans > 0 /\ railOrphans' = railOrphans - 1 /\ railTimer' = railTimer
      BY <1>6 DEF RailTimerFires
    <3>2. railTimer' \in BOOLEAN
      BY <1>2, <3>1
    <3>3. railOrphans' \in 0..MaxPending
      BY <1>2, <3>1
    <3>4. QED
      BY <1>6, <3>2, <3>3 DEF RailTimerFires
  <2>2. socks' \in Sockets /\ channel' \in Socket
    BY <1>1, <2>1, ConnectDoes
  <2>3. QED
    BY <1>1, <2>1, <2>2 DEF TypeOK, Sockets, userVars, chatVars, hubVars
<1>7. CASE ChatTimerFires
  <2>1. chatTimer' \in BOOLEAN /\ chatOrphans' \in 0..MaxPending
    <3>1. \/ chatTimer' = FALSE /\ chatOrphans' = chatOrphans
          \/ chatOrphans > 0 /\ chatOrphans' = chatOrphans - 1 /\ chatTimer' = chatTimer
      BY <1>1, <1>7, ChatDialsDoes
    <3>2. chatTimer' \in BOOLEAN
      BY <1>2, <3>1
    <3>3. chatOrphans' \in 0..MaxPending
      BY <1>2, <3>1
    <3>4. QED
      BY <3>2, <3>3
  <2>2. /\ socks' \in Sockets /\ chat' \in Socket \cup {None}
        /\ current' = current /\ UNCHANGED <<userVars, railVars, hubVars>>
    BY <1>1, <1>7, ChatDialsDoes DEF TypeOK
  <2>3. QED
    BY <1>1, <2>1, <2>2 DEF TypeOK, Sockets, userVars, railVars, hubVars
<1>8. ASSUME NEW r \in Session \cup {"sessions"}, NEW d \in BOOLEAN, Move(r, d) PROVE TypeOK'
  <2>1. socks' \in Sockets /\ route' = r /\ desktop' = d /\ UNCHANGED hubVars
    BY <1>1, <1>8, MoveDoes
  <2>2. /\ moves' \in 0..MaxMoves /\ hurried' \in BOOLEAN
        /\ railOrphans' = railOrphans /\ chatOrphans' = chatOrphans
    <3>1. moves < MaxMoves /\ moves' = moves + 1
      BY <1>1, <1>8, MoveDoes
    <3>2. moves \in 0..MaxMoves /\ MaxMoves \in Nat
      BY <1>1, Constants DEF TypeOK
    <3>3. moves' \in 0..MaxMoves
      BY <3>1, <3>2
    <3>4. hurried' = (hurried \/ ~Settled \/ (r # route /\ "sessions" \notin {r, route}))
      BY <1>1, <1>8, MoveDoes
    <3>5. hurried' \in BOOLEAN
      BY <3>4
    <3>6. QED
      BY <1>1, <1>8, <3>3, <3>5, MoveDoes
  <2>3. channel' \in Socket \cup {None} /\ railTimer' \in BOOLEAN /\ starts' \in 0..MaxPending
    <3>1. \/ /\ channel' = channel /\ railTimer' = railTimer
             /\ \/ starts < MaxPending /\ starts' = starts + 1
                \/ starts' = starts
          \/ channel' = None /\ railTimer' = FALSE /\ starts' = starts
      BY <1>1, <1>8, MoveDoes
    <3>2. channel' \in Socket \cup {None}
      BY <1>1, <3>1 DEF TypeOK
    <3>3. railTimer' \in BOOLEAN
      BY <1>2, <3>1
    <3>4. starts' \in 0..MaxPending
      BY <1>2, <3>1
    <3>5. QED
      BY <3>2, <3>3, <3>4
  <2>4. chat' \in Socket \cup {None} /\ current' \in Session \cup {None} /\ chatTimer' \in BOOLEAN
    <3>1. CASE r = "sessions"
      BY <1>1, <1>8, <3>1, MoveDoes
    <3>2. CASE r # "sessions"
      <4>1. /\ (IF d THEN socks ELSE HungUp(socks, channel)) \in Sockets /\ r \in Session
            /\ OpenChat(r, IF d THEN socks ELSE HungUp(socks, channel))
        BY <1>1, <1>2, <1>8, <3>2, MoveDoes, HungUpDoes
      <4>2. QED
        BY <1>1, <1>2, <4>1, OpenChatDoes DEF TypeOK
    <3>3. QED
      BY <3>1, <3>2
  <2>5. QED
    BY <1>1, <1>2, <2>1, <2>2, <2>3, <2>4 DEF TypeOK, Sockets, hubVars
<1>9. ASSUME NEW gone \in SUBSET Target, Lose(gone) PROVE TypeOK'
  <2>1. losses' \in 0..MaxLosses /\ there' \subseteq Target
    BY <1>1, <1>9, Constants DEF Lose, TypeOK
  <2>2. QED
    BY <1>1, <1>9, <2>1 DEF Lose, TypeOK, userVars, railVars, chatVars
<1>10. CASE Recover
  BY <1>1, <1>10 DEF Recover, TypeOK, userVars, railVars, chatVars
<1>11. CASE UNCHANGED vars
  BY <1>1, <1>11 DEF TypeOK, vars, userVars, railVars, chatVars, hubVars
<1>12. QED
  BY <1>1, <1>3, <1>4, <1>5, <1>6, <1>7, <1>8, <1>9, <1>10, <1>11, Steps

-----------------------------------------------------------------------------
(* What the two variables hold, and that no view is stranded               *)

Held ==
  /\ channel # None => socks[channel].to = "control"
  /\ chat # None => socks[chat].to # "control"
  /\ route = "sessions" => chat = None /\ current = None

\* NotStranded, of the list and of the chat view.
RailOK ==
  RailShown /\ authorized =>
    starts > 0 \/ railTimer \/ railOrphans > 0
      \/ (channel # None /\ socks[channel].state # "closed")

ChatOK ==
  route # "sessions" =>
    /\ current = route
    /\ chatTimer \/ chatOrphans > 0 \/ (chat # None /\ socks[chat].state # "closed")

LEMMA Parts == NotStranded <=> RailOK /\ ChatOK
BY DEF NotStranded, RailOK, ChatOK

\* What a variable holds is not closed as long as it is to an end.
LEMMA ChannelLives ==
  ASSUME TypeOK, Held, channel # None
  PROVE  channel \in Socket /\ socks[channel].state # "closed"
<1>1. channel \in Socket /\ socks \in Sockets /\ socks[channel].to = "control"
  BY DEF TypeOK, Sockets, Held
<1>2. QED
  BY <1>1, SocketIs, Constants

LEMMA InitHeld == Init => Held /\ NotStranded
<1>1. SUFFICES ASSUME Init PROVE Held /\ RailOK /\ ChatOK
  BY Parts
<1>2. TypeOK /\ socks \in Sockets
  BY <1>1, InitTypes DEF TypeOK, Sockets
<1>3. Held /\ ChatOK
  <2>1. CASE route = "sessions"
    BY <1>1, <2>1 DEF Init, Held, ChatOK
  <2>2. CASE route # "sessions"
    <3> DEFINE none == [s \in Socket |-> Closed]
    <3>1. /\ channel = None /\ chat = 1 /\ current = route /\ route \in Session
          /\ socks = Dialled(none, 1, route)
      BY <1>1, <2>2 DEF Init
    <3>2. none \in Sockets /\ 1 \in Socket /\ route \in Target
      BY <3>1, BoundAssumption DEF Sockets, Socket, Target
    <3>3. socks[1].state = "connecting" /\ socks[1].to = route
      BY <3>1, <3>2, DialledDoes
    <3>4. 1 # None /\ route # "control"
      BY <3>1, <3>2, Constants
    <3>5. QED
      BY <2>2, <3>1, <3>3, <3>4 DEF Held, ChatOK
  <2>3. QED
    BY <2>1, <2>2
<1>4. RailOK
  BY <1>1 DEF Init, RailOK, RailShown
<1>5. QED
  BY <1>3, <1>4

\* A step of the list's channel or of the chat's leaves the other what it had.
LEMMA EventHeld ==
  ASSUME TypeOK, Held, NotStranded, NEW s \in Socket, OnClose(s) \/ OnFail(s)
  PROVE  (Held /\ NotStranded)'
<1>1. /\ socks \in Sockets /\ channel \in Socket \cup {None} /\ chat \in Socket \cup {None}
      /\ current \in Session \cup {None} /\ route \in Session \cup {"sessions"}
      /\ chatOrphans \in Nat /\ railOrphans \in Nat
  BY Constants DEF TypeOK, Sockets
<1>2. /\ socks' \in Sockets /\ socks[s] # Closed /\ socks'[s] = Closed
      /\ \A t \in Socket : t # s =>
           socks'[t].to = socks[t].to /\ (socks'[t].state = "closed" <=> socks[t].state = "closed")
      /\ route' = route /\ desktop' = desktop /\ authorized' = authorized
      /\ UNCHANGED <<userVars, hubVars>>
  BY EventDoes DEF userVars, hubVars
<1>3. socks'[s].to # "control"
  BY <1>2, Constants DEF Closed
<1>4. CASE socks[s].to = "control"
  <2>1. /\ channel' = None /\ railTimer' = (railTimer \/ RailShown) /\ starts' = starts
        /\ chat' = chat /\ current' = current /\ chatTimer' = chatTimer /\ chatOrphans' = chatOrphans
    BY <1>4, EventDoes DEF RailCloses, chatVars
  <2>2. chat # s
    BY <1>1, <1>4, Constants DEF Held
  <2>3. Held'
    BY <1>1, <1>2, <2>1, <2>2 DEF Held
  <2>4. RailOK'
    BY <1>2, <2>1 DEF RailOK, RailShown
  <2>5. ChatOK'
    BY <1>1, <1>2, <2>1, <2>2, Parts DEF ChatOK
  <2>6. QED
    BY <2>3, <2>4, <2>5 DEF NotStranded, RailOK, ChatOK
<1>5. CASE socks[s].to # "control"
  <2>1. ChatCloses
    BY <1>5, EventDoes
  <2>2. /\ channel' = channel /\ railTimer' = railTimer /\ starts' = starts /\ railOrphans' = railOrphans
        /\ chat' = chat /\ current' = current
        /\ chatTimer' = (chatTimer \/ (route # "sessions" /\ current # None))
    BY <2>1 DEF ChatCloses, railVars
  <2>3. channel # s
    BY <1>5, Constants DEF Held
  <2>4. Held'
    BY <1>1, <1>2, <1>3, <2>2, <2>3 DEF Held
  <2>5. RailOK'
    BY <1>1, <1>2, <2>2, <2>3, Parts DEF RailOK, RailShown
  <2>6. ChatOK'
    <3>1. route # "sessions" => current = route /\ current # None
      BY <1>1, Parts, Constants DEF ChatOK
    <3>2. QED
      BY <1>2, <2>2, <3>1 DEF ChatOK
  <2>7. QED
    BY <2>4, <2>5, <2>6 DEF NotStranded, RailOK, ChatOK
<1>6. QED
  BY <1>4, <1>5

LEMMA ConnectHeld ==
  ASSUME TypeOK, Held, NotStranded, ConnectControl, UNCHANGED <<userVars, chatVars, hubVars>>
  PROVE  (Held /\ NotStranded)'
<1>1. /\ socks \in Sockets /\ chat \in Socket \cup {None}
      /\ channel' \in Socket /\ Opens(channel', "control")
      /\ UNCHANGED <<route, desktop, authorized, chat, current, chatTimer, chatOrphans>>
  BY ConnectDoes DEF TypeOK, Sockets, userVars, chatVars, hubVars
<1>2. /\ channel' # None /\ chat # channel' /\ socks'[channel'].state = "connecting"
      /\ socks'[channel'].to = "control"
      /\ chat # None => socks'[chat] = socks[chat]
  BY <1>1, Constants DEF Opens
<1>3. Held'
  BY <1>1, <1>2 DEF Held
<1>4. RailOK' /\ ChatOK'
  BY <1>1, <1>2, Parts DEF RailOK, ChatOK
<1>5. QED
  BY <1>3, <1>4 DEF NotStranded, RailOK, ChatOK

LEMMA ChatDialsHeld ==
  ASSUME TypeOK, Held, NotStranded, ChatTimerFires
  PROVE  (Held /\ NotStranded)'
<1>1. /\ socks \in Sockets /\ channel \in Socket \cup {None} /\ current \in Session \cup {None}
      /\ UNCHANGED <<route, desktop, authorized, channel, starts, railTimer, railOrphans, current>>
  BY ChatDialsDoes DEF TypeOK, Sockets, userVars, railVars, hubVars
<1>2. CASE current = None
  <2>1. chat' = chat /\ socks' = socks
    BY <1>2, ChatDialsDoes, Constants
  <2>2. route = "sessions"
    BY <1>2, Parts, Constants DEF ChatOK, TypeOK
  <2>3. QED
    BY <1>1, <2>1, <2>2 DEF Held, NotStranded, RailShown
<1>3. CASE current # None
  <2>1. current \in Session /\ chat' \in Socket /\ Opens(chat', current)
    BY <1>3, ChatDialsDoes
  <2>2. /\ chat' # None /\ channel # chat' /\ socks'[chat'].state = "connecting"
        /\ socks'[chat'].to # "control"
        /\ channel # None => socks'[channel] = socks[channel]
    BY <1>1, <2>1, Constants DEF Opens
  <2>3. route # "sessions"
    BY <1>3 DEF Held
  <2>4. Held'
    BY <1>1, <2>2, <2>3 DEF Held
  <2>5. RailOK' /\ ChatOK'
    BY <1>1, <2>2, Parts DEF RailOK, ChatOK, RailShown
  <2>6. QED
    BY <2>4, <2>5 DEF NotStranded, RailOK, ChatOK
<1>4. QED
  BY <1>2, <1>3

LEMMA MoveHeld ==
  ASSUME TypeOK, Held, NotStranded,
         NEW r \in Session \cup {"sessions"}, NEW d \in BOOLEAN, Move(r, d)
  PROVE  (Held /\ NotStranded)'
<1> DEFINE ss == IF d THEN socks ELSE HungUp(socks, channel)
<1>1. /\ socks \in Sockets /\ ss \in Sockets /\ HungUp(ss, chat) \in Sockets
      /\ channel \in Socket \cup {None} /\ chat \in Socket \cup {None}
      /\ starts \in Nat /\ route' = r /\ desktop' = d
      /\ railOrphans' = railOrphans /\ chatOrphans' = chatOrphans
  <2>1. socks \in Sockets
    BY DEF TypeOK, Sockets
  <2>2. ss \in Sockets
    BY <2>1, HungUpDoes
  <2> HIDE DEF ss
  <2>3. HungUp(ss, chat) \in Sockets
    BY <2>2, HungUpDoes
  <2>4. route' = r /\ desktop' = d /\ railOrphans' = railOrphans /\ chatOrphans' = chatOrphans
    BY MoveDoes
  <2>5. QED
    BY <2>1, <2>2, <2>3, <2>4, Constants DEF TypeOK
<1>2. \A t \in Socket : /\ ss[t].to = socks[t].to /\ HungUp(ss, chat)[t].to = socks[t].to
                        /\ ss[t].state = "closed" <=> socks[t].state = "closed"
                        /\ HungUp(ss, chat)[t].state = "closed" <=> socks[t].state = "closed"
                        /\ HungUp(socks, chat)[t].to = socks[t].to
                        /\ HungUp(socks, chat)[t].state = "closed" <=> socks[t].state = "closed"
  BY <1>1, HungUpDoes
<1>3. \* the chat
      /\ r = "sessions" => /\ chat' = None /\ current' = None
                           /\ \A t \in Socket : socks'[t] = HungUp(socks, chat)[t]
      /\ r # "sessions" =>
           /\ current' = r /\ r \in Session
           /\ \/ /\ current = r /\ chat # None /\ socks' = ss /\ chat' = chat
                 /\ chatTimer' = chatTimer
              \/ /\ chat' \in Socket /\ chat' # channel
                 /\ socks'[chat'].state = "connecting" /\ socks'[chat'].to = r
                 /\ \A t \in Socket : t # chat' => socks'[t] = HungUp(ss, chat)[t]
  <2>1. CASE r = "sessions"
    BY <2>1, MoveDoes
  <2>2. CASE r # "sessions"
    <3>1. r \in Session /\ OpenChat(r, ss)
      BY <2>2, MoveDoes
    <3> HIDE DEF ss
    <3>2. QED
      BY <1>1, <2>2, <3>1, OpenChatDoes
  <2>3. QED
    BY <2>1, <2>2
<1> HIDE DEF ss
<1>4. channel # None => /\ channel \in Socket /\ socks'[channel].to = "control"
                        /\ socks'[channel].state # "closed"
  <2>1. channel # None => channel \in Socket /\ socks[channel].to = "control" /\ socks[channel].state # "closed"
    BY ChannelLives DEF Held
  <2>2. QED
    BY <1>2, <1>3, <2>1
<1>5. \* the list
      IF r = "sessions" \/ d
      THEN channel' = channel /\ (channel = None => starts' = starts + 1)
      ELSE channel' = None
  BY MoveDoes
<1>6. chat' # None => /\ socks'[chat'].to # "control"
                      /\ \/ chat' = chat /\ chatTimer' = chatTimer /\ current = r
                            /\ (socks'[chat].state = "closed" <=> socks[chat].state = "closed")
                         \/ socks'[chat'].state = "connecting"
  <2>1. r \in Session => r # "control"
    BY Constants
  <2>2. QED
    BY <1>1, <1>2, <1>3, <2>1 DEF Held
<1>7. Held'
  BY <1>1, <1>3, <1>4, <1>5, <1>6 DEF Held
<1>8. RailOK'
  <2>1. CASE r = "sessions" \/ d
    BY <1>1, <1>4, <1>5, <2>1 DEF RailOK
  <2>2. CASE ~(r = "sessions" \/ d)
    BY <1>1, <2>2 DEF RailOK, RailShown
  <2>3. QED
    BY <2>1, <2>2
<1>9. ChatOK'
  <2>1. CASE r = "sessions"
    BY <1>1, <2>1 DEF ChatOK
  <2>2. CASE r # "sessions"
    <3>1. chat' # None
      BY <1>3, <2>2, Constants
    <3>2. CASE chat' = chat /\ chatTimer' = chatTimer /\ current = r
               /\ (socks'[chat].state = "closed" <=> socks[chat].state = "closed")
      <4>1. route # "sessions"
        BY <3>1, <3>2 DEF Held
      <4>2. QED
        BY <1>1, <1>3, <2>2, <3>2, <4>1, Parts DEF ChatOK
    <3>3. CASE socks'[chat'].state = "connecting"
      BY <1>1, <1>3, <2>2, <3>1, <3>3 DEF ChatOK
    <3>4. QED
      BY <1>6, <3>1, <3>2, <3>3
  <2>3. QED
    BY <2>1, <2>2
<1>10. QED
  BY <1>7, <1>8, <1>9 DEF NotStranded, RailOK, ChatOK

LEMMA StepHeld ==
  ASSUME TypeOK, Held, NotStranded, [Next]_vars
  PROVE  (Held /\ NotStranded)'
<1>1. ASSUME NEW s \in Socket, OnOpen(s) PROVE (Held /\ NotStranded)'
  <2>1. /\ UNCHANGED <<userVars, railVars, chatVars, hubVars>>
        /\ \A t \in Socket : /\ socks'[t].to = socks[t].to
                             /\ socks'[t].state = "closed" <=> socks[t].state = "closed"
    BY <1>1, OpenDoes
  <2>2. channel \in Socket \cup {None} /\ chat \in Socket \cup {None}
    BY DEF TypeOK
  <2>3. QED
    BY <2>1, <2>2 DEF Held, NotStranded, RailShown, userVars, railVars, chatVars, hubVars
<1>2. CASE FetchReturns
  <2>1. CASE authorized
    BY <1>2, <2>1, ConnectHeld DEF FetchReturns
  <2>2. CASE ~authorized
    BY <1>2, <2>2 DEF FetchReturns, Held, NotStranded, userVars, chatVars, hubVars
  <2>3. QED
    BY <2>1, <2>2
<1>3. CASE RailTimerFires
  BY <1>3, ConnectHeld DEF RailTimerFires
<1>4. ASSUME NEW gone \in SUBSET Target, Lose(gone) PROVE (Held /\ NotStranded)'
  BY <1>4 DEF Lose, Held, NotStranded, RailShown, userVars, railVars, chatVars
<1>5. CASE Recover
  BY <1>5 DEF Recover, Held, NotStranded, RailShown, userVars, railVars, chatVars
<1>6. CASE UNCHANGED vars
  BY <1>6 DEF Held, NotStranded, RailShown, vars, userVars, railVars, chatVars, hubVars
<1>7. QED
  BY <1>1, <1>2, <1>3, <1>4, <1>5, <1>6, Steps, EventHeld, ChatDialsHeld, MoveHeld

-----------------------------------------------------------------------------
(* The user who does not hurry                                             *)

\* Of a call of start, a timer and a socket the list has one at most, where it is
\* shown; where it is not, only a socket that is closing.
RailCalm ==
  /\ railOrphans = 0 /\ starts \in {0, 1}
  /\ channel # None => starts = 0 /\ ~railTimer
  /\ starts = 1 => ~railTimer
  /\ ~RailShown => channel = None /\ starts = 0 /\ ~railTimer
  /\ \A s \in Socket : socks[s].to = "control" =>
       \/ s = channel /\ socks[s].state \in {"connecting", "open"}
       \/ socks[s].state = "closing" /\ ~RailShown

\* The chat view has a timer or a socket, to its session.
ChatCalm ==
  /\ chatOrphans = 0
  /\ route = "sessions" => ~chatTimer
  /\ chatTimer => chat = None \/ socks[chat] = Closed
  /\ \A s \in Socket : socks[s].to \in Session =>
       \/ s = chat /\ socks[s].to = current /\ socks[s].state \in {"connecting", "open"}
       \/ socks[s].state = "closing" /\ route = "sessions"

Calm == RailCalm /\ ChatCalm

LEMMA InitCalm == Init /\ ~hurried => Calm
<1>1. SUFFICES ASSUME Init, ~hurried PROVE RailCalm /\ ChatCalm
  BY DEF Calm
<1> DEFINE none == [s \in Socket |-> Closed]
<1>2. none \in Sockets /\ \A s \in Socket : none[s] = Closed /\ none[s].to = None
  BY DEF Sockets, Closed
<1>3. starts # 2 /\ channel = None /\ railTimer = FALSE /\ railOrphans = 0
      /\ chatTimer = FALSE /\ chatOrphans = 0
      /\ starts \in IF route = "sessions" THEN {1, 2} ELSE IF desktop THEN {1} ELSE {0}
  BY <1>1 DEF Init
<1>4. \/ socks = none
      \/ /\ chat = 1 /\ current = route /\ route \in Session
         /\ socks = Dialled(none, 1, route)
  BY <1>1 DEF Init
<1> HIDE DEF none
<1>5. \A s \in Socket : \/ socks[s].to = None
                        \/ /\ s = chat /\ socks[s].to = current /\ current \in Session
                           /\ socks[s].state = "connecting"
  <2>1. CASE socks = none
    BY <1>2, <2>1
  <2>2. CASE chat = 1 /\ current = route /\ route \in Session /\ socks = Dialled(none, 1, route)
    <3>1. 1 \in Socket /\ route \in Target
      BY <2>2, BoundAssumption DEF Socket, Target
    <3>2. QED
      BY <1>2, <2>2, <3>1, DialledDoes
  <2>3. QED
    BY <1>4, <2>1, <2>2
<1>6. RailCalm
  BY <1>3, <1>5, Constants DEF RailCalm, RailShown
<1>7. ChatCalm
  BY <1>3, <1>5, Constants DEF ChatCalm
<1>8. QED
  BY <1>6, <1>7

LEMMA ConnectCalm ==
  ASSUME TypeOK, Held, Calm, ConnectControl, UNCHANGED <<userVars, chatVars, hubVars>>,
         starts' = 0, railTimer' = FALSE, railOrphans' = railOrphans,
         channel = None, RailShown
  PROVE  Calm'
<1>1. /\ socks \in Sockets /\ chat \in Socket \cup {None}
      /\ channel' \in Socket /\ Opens(channel', "control")
      /\ UNCHANGED <<route, desktop, chat, current, chatTimer, chatOrphans>>
  BY ConnectDoes DEF TypeOK, Sockets, userVars, chatVars, hubVars
<1>2. /\ channel' # chat /\ channel' # None /\ RailShown'
      /\ socks'[channel'].state = "connecting" /\ socks'[channel'].to = "control"
      /\ \A t \in Socket : t # channel' => socks'[t] = socks[t]
  BY <1>1, Constants DEF Opens, RailShown
<1>3. RailCalm'
  BY <1>1, <1>2, Constants DEF Calm, RailCalm
<1>4. ChatCalm'
  BY <1>1, <1>2, Constants DEF Calm, ChatCalm
<1>5. QED
  BY <1>3, <1>4 DEF Calm

LEMMA ChatDialsCalm ==
  ASSUME TypeOK, Held, Calm, ChatTimerFires
  PROVE  Calm'
<1>1. /\ chatTimer /\ chatTimer' = FALSE /\ chatOrphans' = 0
      /\ channel \in Socket \cup {None}
      /\ UNCHANGED <<route, desktop, channel, starts, railTimer, railOrphans, current>>
      /\ UNCHANGED RailShown
  <2>1. chatOrphans = 0 /\ channel \in Socket \cup {None}
    BY DEF Calm, ChatCalm, TypeOK
  <2>2. chatTimer /\ chatTimer' = FALSE /\ chatOrphans' = 0
    BY <2>1, ChatDialsDoes
  <2>3. UNCHANGED <<route, desktop, channel, starts, railTimer, railOrphans, current>>
    BY ChatDialsDoes DEF userVars, railVars
  <2>4. UNCHANGED RailShown
    BY <2>3 DEF RailShown
  <2>5. QED
    BY <2>1, <2>2, <2>3, <2>4
<1>2. CASE current = None
  <2>1. chat' = chat /\ socks' = socks
    BY <1>2, ChatDialsDoes, Constants
  <2>2. QED
    BY <1>1, <2>1 DEF Calm, RailCalm, ChatCalm
<1>3. CASE current # None
  <2>1. current \in Session /\ chat' \in Socket /\ Opens(chat', current)
    BY <1>3, ChatDialsDoes
  <2>2. /\ channel # chat' /\ chat' # None
        /\ socks'[chat'].state = "connecting" /\ socks'[chat'].to = current /\ current # "control"
        /\ \A t \in Socket : t # chat' => socks'[t] = socks[t]
    BY <1>1, <2>1, Constants DEF Opens
  <2>3. RailCalm'
    BY <1>1, <2>2 DEF Calm, RailCalm
  <2>4. \A t \in Socket : socks[t].to \notin Session
    <3>1. route # "sessions" /\ (chat = None \/ socks[chat] = Closed)
      BY <1>1 DEF Calm, ChatCalm
    <3>2. QED
      BY <3>1, Constants DEF Calm, ChatCalm, Closed
  <2>5. ChatCalm'
    BY <1>1, <2>1, <2>2, <2>4 DEF ChatCalm
  <2>6. QED
    BY <2>3, <2>5 DEF Calm
<1>4. QED
  BY <1>2, <1>3

\* A failed connection is the variable's own: its handler closes nothing else.
LEMMA OwnEvent ==
  ASSUME TypeOK, Calm, NEW s \in Socket, OnClose(s) \/ OnFail(s)
  PROVE  /\ socks' \in Sockets /\ socks[s].to \in Target /\ socks'[s] = Closed
         /\ \A t \in Socket : t # s => socks'[t] = socks[t]
<1> DEFINE ss == [socks EXCEPT ![s] = Closed]
<1>1. socks \in Sockets
  BY DEF TypeOK, Sockets
<1>2. ss \in Sockets /\ ss[s] = Closed /\ \A t \in Socket : t # s => ss[t] = socks[t]
  BY <1>1, ClosedOne
<1>3. socks' \in Sockets /\ socks'[s] = Closed /\ socks[s].to \in Target
  <2>1. socks' \in Sockets /\ socks'[s] = Closed /\ socks[s] # Closed
    BY EventDoes
  <2>2. QED
    BY <1>1, <2>1, SocketIs
<1>4. CASE OnClose(s)
  BY <1>2, <1>3, <1>4 DEF OnClose
<1>5. CASE OnFail(s)
  <2>1. /\ socks[s].state \in {"failing", "connecting"}
        /\ socks' = HungUp(ss, IF socks[s].to = "control" THEN channel ELSE chat)
    BY <1>5 DEF OnFail
  <2>2. s = IF socks[s].to = "control" THEN channel ELSE chat
    BY <1>3, <2>1 DEF Calm, RailCalm, ChatCalm, Target
  <2>3. socks' = HungUp(ss, s)
    BY <2>1, <2>2
  <2> HIDE DEF ss
  <2>4. \A t \in Socket : t # s => socks'[t] = ss[t]
    BY <1>2, <2>3, HungUpDoes
  <2>5. QED
    BY <1>2, <1>3, <2>4
<1>6. QED
  BY <1>4, <1>5

LEMMA EventCalm ==
  ASSUME TypeOK, Held, Calm, NEW s \in Socket, OnClose(s) \/ OnFail(s)
  PROVE  Calm'
<1>1. /\ socks[s].to \in Target /\ socks'[s] = Closed /\ socks'[s].to = None
      /\ \A t \in Socket : t # s => socks'[t] = socks[t]
  BY OwnEvent DEF Closed
<1>2. UNCHANGED <<route, desktop, RailShown>>
  BY EventDoes DEF userVars, RailShown
<1>3. channel \in Socket \cup {None} /\ chat \in Socket \cup {None}
  BY DEF TypeOK
<1>4. CASE socks[s].to = "control"
  <2>1. /\ channel' = None /\ railTimer' = (railTimer \/ RailShown) /\ starts' = starts
        /\ railOrphans' = IF RailShown /\ railTimer THEN railOrphans + 1 ELSE railOrphans
        /\ chat' = chat /\ current' = current /\ chatTimer' = chatTimer /\ chatOrphans' = chatOrphans
    BY <1>4, EventDoes DEF RailCloses, chatVars
  <2>2. CASE s = channel
    <3>1. starts = 0 /\ ~railTimer /\ RailShown /\ railOrphans = 0
      BY <1>3, <2>2, Constants DEF Calm, RailCalm
    <3>2. RailCalm'
      BY <1>1, <1>2, <2>1, <2>2, <3>1, Constants DEF Calm, RailCalm
    <3>3. QED
      BY <1>1, <1>2, <1>3, <1>4, <2>1, <3>2, Constants DEF Held, Calm, ChatCalm
  <2>3. CASE s # channel
    <3>1. ~RailShown /\ starts = 0 /\ ~railTimer /\ channel = None /\ railOrphans = 0
      BY <1>4, <2>3 DEF Calm, RailCalm
    <3>2. RailCalm'
      BY <1>1, <1>2, <2>1, <3>1, Constants DEF Calm, RailCalm
    <3>3. QED
      BY <1>1, <1>2, <1>3, <1>4, <2>1, <3>2, Constants DEF Held, Calm, ChatCalm
  <2>4. QED
    BY <2>2, <2>3
<1>5. CASE socks[s].to # "control"
  <2>1. socks[s].to \in Session
    BY <1>1, <1>5 DEF Target
  <2>2. /\ channel' = channel /\ railTimer' = railTimer /\ starts' = starts /\ railOrphans' = railOrphans
        /\ chat' = chat /\ current' = current
        /\ chatTimer' = (chatTimer \/ (route # "sessions" /\ current # None))
        /\ chatOrphans' = IF route # "sessions" /\ current # None /\ chatTimer
                          THEN chatOrphans + 1 ELSE chatOrphans
    BY <1>5, EventDoes DEF ChatCloses, railVars
  <2>3. RailCalm'
    BY <1>1, <1>2, <1>3, <1>5, <2>2, Constants DEF Held, Calm, RailCalm
  <2>4. chatOrphans = 0 /\ (route = "sessions" => ~chatTimer)
        /\ (route # "sessions" => s = chat /\ ~chatTimer)
    <3>1. \/ s = chat /\ socks[s].state \in {"connecting", "open"}
          \/ socks[s].state = "closing" /\ route = "sessions"
      BY <2>1 DEF Calm, ChatCalm
    <3>2. s = chat /\ socks[s].state \in {"connecting", "open"} => chat # None /\ socks[chat] # Closed
      BY Constants DEF Closed
    <3>3. QED
      BY <3>1, <3>2 DEF Calm, ChatCalm
  <2>5. ChatCalm'
    BY <1>1, <1>2, <2>2, <2>4, Constants DEF Calm, ChatCalm
  <2>6. QED
    BY <2>3, <2>5 DEF Calm
<1>6. QED
  BY <1>4, <1>5

LEMMA MoveCalm ==
  ASSUME TypeOK, Held, NotStranded, Calm,
         NEW r \in Session \cup {"sessions"}, NEW d \in BOOLEAN, Move(r, d), ~hurried'
  PROVE  Calm'
<1> DEFINE ss == IF d THEN socks ELSE HungUp(socks, channel)
<1>1. /\ Settled /\ (r = route \/ "sessions" \in {r, route}) /\ route' = r /\ desktop' = d
      /\ RailShown' = (r = "sessions" \/ d)
      /\ railOrphans' = 0 /\ chatOrphans' = 0
  BY MoveDoes DEF Calm, RailCalm, ChatCalm, RailShown
<1>2. /\ socks \in Sockets /\ channel \in Socket \cup {None} /\ chat \in Socket \cup {None}
      /\ starts = 0 /\ railTimer = FALSE /\ chatTimer = FALSE
      /\ \A s \in Socket : socks[s].state # "closing"
  BY <1>1 DEF TypeOK, Sockets, Settled
<1>3. \A s \in Socket : /\ socks[s].to = "control" => s = channel /\ socks[s].state = "open" /\ s # chat
                        /\ socks[s].to \in Session =>
                             s = chat /\ socks[s].to = current /\ socks[s].state = "open" /\ s # channel
  BY <1>1, <1>2, Constants DEF Settled, Calm, RailCalm, ChatCalm, Held
<1>4. \* the list
      /\ railTimer' = FALSE
      /\ IF r = "sessions" \/ d
         THEN channel' = channel /\ starts' = IF channel = None THEN 1 ELSE 0
         ELSE channel' = None /\ starts' = 0
  <2>1. IF r = "sessions" \/ d
        THEN /\ channel' = channel /\ railTimer' = railTimer
             /\ starts' = IF channel = None THEN starts + 1 ELSE starts
        ELSE channel' = None /\ railTimer' = FALSE /\ starts' = starts
    BY MoveDoes
  <2>2. QED
    BY <1>2, <2>1
<1>5. /\ ss \in Sockets /\ (d => ss = socks)
      /\ \A s \in Socket : ss[s].to = socks[s].to /\ (s # channel => ss[s] = socks[s])
      /\ ~d => \A s \in Socket :
                 s = channel /\ socks[s].state = "open" => ss[s].state = "closing"
  <2>1. CASE d
    BY <1>2, <2>1
  <2>2. CASE ~d
    BY <1>2, <2>2, HungUpDoes
  <2>3. QED
    BY <2>1, <2>2
<1> HIDE DEF ss
<1>6. CASE r = "sessions"
  <2>1. /\ chat' = None /\ current' = None /\ chatTimer' = FALSE /\ socks' = HungUp(socks, chat)
    BY <1>6, MoveDoes
  <2>2. \A s \in Socket : /\ socks'[s].to = socks[s].to
                          /\ s # chat => socks'[s] = socks[s]
                          /\ s = chat /\ socks[s].state = "open" => socks'[s].state = "closing"
    BY <1>2, <2>1, HungUpDoes
  <2>3. RailCalm'
    BY <1>1, <1>3, <1>4, <1>6, <2>2 DEF RailCalm
  <2>4. ChatCalm'
    BY <1>1, <1>3, <1>6, <2>1, <2>2 DEF ChatCalm
  <2>5. QED
    BY <2>3, <2>4 DEF Calm
<1>7. CASE r # "sessions"
  <2>1. r \in Session /\ OpenChat(r, ss)
    BY <1>7, MoveDoes DEF ss
  <2>2. CASE route = r
    <3>1. current = r /\ chat # None
      BY <1>1, <1>7, <2>2, Parts DEF ChatOK, Settled
    <3>2. chat' = chat /\ socks' = ss /\ chatTimer' = chatTimer /\ current' = r
      BY <1>5, <2>1, <3>1, OpenChatDoes
    <3>3. RailCalm'
      <4>1. CASE d
        BY <1>1, <1>3, <1>4, <1>5, <1>7, <3>2, <4>1 DEF RailCalm
      <4>2. CASE ~d
        <5>1. ~RailShown' /\ channel' = None /\ starts' = 0 /\ ~railTimer'
          BY <1>1, <1>4, <1>7, <4>2
        <5>2. \A s \in Socket : socks'[s].to = "control" => socks'[s].state = "closing"
          BY <1>3, <1>5, <3>2, <4>2
        <5>3. QED
          BY <1>1, <5>1, <5>2, Constants DEF RailCalm
      <4>3. QED
        BY <4>1, <4>2
    <3>4. ChatCalm'
      <4>1. \A s \in Socket : socks'[s].to \in Session =>
              s = chat /\ socks'[s].to = current /\ socks'[s].state = "open"
        BY <1>3, <1>5, <3>2
      <4>2. QED
        BY <1>1, <1>2, <1>7, <3>1, <3>2, <4>1 DEF ChatCalm
    <3>5. QED
      BY <3>3, <3>4 DEF Calm
  <2>3. CASE route = "sessions"
    <3>1. chat = None /\ current = None
      BY <2>3 DEF Held
    <3>2. /\ current' = r /\ chat' \in Socket /\ chat' # channel /\ chatTimer' = FALSE
          /\ socks'[chat'].state = "connecting" /\ socks'[chat'].to = r
          /\ \A t \in Socket : t # chat' => socks'[t] = HungUp(ss, None)[t]
      BY <1>5, <2>1, <3>1, OpenChatDoes
    <3>3. \A t \in Socket : t # chat' => socks'[t] = ss[t]
      BY <1>5, <3>2, HungUpDoes, Constants
    <3>4. \A t \in Socket : socks[t].to \notin Session
      BY <1>3, <3>1, Constants
    <3>5. RailCalm'
      <4>1. r # "control"
        BY <2>1, Constants
      <4>2. CASE d
        <5>1. \A s \in Socket : socks'[s].to = "control" =>
                s = channel /\ socks'[s].state = "open"
          BY <1>3, <1>5, <3>2, <3>3, <4>1, <4>2
        <5>2. RailShown' /\ channel' = channel /\ starts' = IF channel = None THEN 1 ELSE 0
          BY <1>1, <1>4, <4>2
        <5>3. QED
          BY <1>1, <1>4, <5>1, <5>2 DEF RailCalm
      <4>3. CASE ~d
        <5>1. ~RailShown' /\ channel' = None /\ starts' = 0 /\ ~railTimer'
          BY <1>1, <1>4, <1>7, <4>3
        <5>2. \A s \in Socket : socks'[s].to = "control" => socks'[s].state = "closing"
          BY <1>3, <1>5, <3>2, <3>3, <4>1, <4>3
        <5>3. QED
          BY <1>1, <5>1, <5>2, Constants DEF RailCalm
      <4>4. QED
        BY <4>2, <4>3
    <3>6. ChatCalm'
      <4>1. \A s \in Socket : socks'[s].to \in Session => s = chat'
        BY <1>5, <3>3, <3>4
      <4>2. QED
        BY <1>1, <1>7, <3>2, <4>1 DEF ChatCalm
    <3>7. QED
      BY <3>5, <3>6 DEF Calm
  <2>4. QED
    BY <1>1, <1>7, <2>2, <2>3
<1>8. QED
  BY <1>6, <1>7

LEMMA StepCalm ==
  ASSUME TypeOK, Held, NotStranded, ~hurried => Calm, [Next]_vars, ~hurried'
  PROVE  Calm'
<1>1. CASE \E r \in Session \cup {"sessions"}, d \in BOOLEAN : Move(r, d)
  <2>1. PICK r \in Session \cup {"sessions"}, d \in BOOLEAN : Move(r, d)
    BY <1>1
  <2>2. ~hurried
    BY <2>1, MoveDoes
  <2>3. QED
    BY <2>1, <2>2, MoveCalm
<1>2. ASSUME UNCHANGED userVars PROVE Calm /\ UNCHANGED RailShown
  BY <1>2 DEF userVars, RailShown
<1>3. ASSUME NEW s \in Socket, OnOpen(s) PROVE Calm'
  <2>1. UNCHANGED <<userVars, railVars, chatVars, hubVars>>
    BY <1>3, OpenDoes
  <2>2. Calm /\ UNCHANGED RailShown
    BY <1>2, <2>1
  <2>3. /\ socks[s].state = "connecting" /\ socks'[s].state = "open" /\ socks'[s].to = socks[s].to
        /\ \A t \in Socket : t # s => socks'[t] = socks[t]
    BY <1>3, OpenDoes
  <2>4. RailCalm'
    BY <2>1, <2>2, <2>3 DEF Calm, RailCalm, userVars, railVars
  <2>5. chat \in Socket \cup {None} /\ (chat = s => socks[chat] # Closed)
    BY <2>3 DEF TypeOK, Closed
  <2>6. ChatCalm'
    BY <2>1, <2>2, <2>3, <2>5 DEF Calm, ChatCalm, userVars, chatVars
  <2>7. QED
    BY <2>4, <2>6 DEF Calm
<1>4. ASSUME NEW s \in Socket, OnClose(s) \/ OnFail(s) PROVE Calm'
  BY <1>2, <1>4, EventDoes, EventCalm
<1>5. CASE FetchReturns
  <2>1. UNCHANGED <<userVars, chatVars, hubVars>> /\ starts > 0 /\ starts' = starts - 1
        /\ railTimer' = railTimer /\ railOrphans' = railOrphans
    BY <1>5 DEF FetchReturns
  <2>2. Calm /\ UNCHANGED RailShown
    BY <1>2, <2>1
  <2>3. starts = 1 /\ starts' = 0 /\ ~railTimer /\ railTimer \in BOOLEAN /\ channel = None /\ RailShown
    BY <2>1, <2>2 DEF Calm, RailCalm, TypeOK
  <2>4. CASE authorized
    BY <1>5, <2>1, <2>2, <2>3, <2>4, ConnectCalm DEF FetchReturns
  <2>5. CASE ~authorized
    <3>1. channel' = channel /\ socks' = socks
      BY <1>5, <2>5 DEF FetchReturns
    <3>2. QED
      BY <2>1, <2>2, <2>3, <3>1 DEF Calm, RailCalm, ChatCalm, userVars, chatVars
  <2>6. QED
    BY <2>4, <2>5
<1>6. CASE RailTimerFires
  <2>1. UNCHANGED <<userVars, chatVars, hubVars>> /\ starts' = starts /\ ConnectControl
    BY <1>6 DEF RailTimerFires
  <2>2. Calm /\ UNCHANGED RailShown
    BY <1>2, <2>1
  <2>3. railTimer /\ railTimer' = FALSE /\ railOrphans' = railOrphans
    BY <1>6, <2>2 DEF RailTimerFires, Calm, RailCalm
  <2>4. starts = 0 /\ channel = None /\ RailShown
    BY <2>2, <2>3 DEF Calm, RailCalm
  <2>5. QED
    BY <2>1, <2>2, <2>3, <2>4, ConnectCalm
<1>7. CASE ChatTimerFires
  BY <1>2, <1>7, ChatDialsDoes, ChatDialsCalm
<1>8. CASE UNCHANGED <<userVars, socks, railVars, chatVars>>
  BY <1>2, <1>8 DEF Calm, RailCalm, ChatCalm, userVars, railVars, chatVars
<1>9. QED
  BY <1>1, <1>3, <1>4, <1>5, <1>6, <1>7, <1>8, Steps DEF Lose, Recover, vars

-----------------------------------------------------------------------------
(* Theorems                                                                *)

Inv == TypeOK /\ Held /\ NotStranded /\ (~hurried => Calm)

\* The strengthening of the three properties below holds in every reachable state:
\* what the callbacks of app.js leave in their variables agrees with the sockets.
THEOREM PageCorrect == Spec => []Inv
<1>1. Init => Inv
  BY InitTypes, InitHeld, InitCalm DEF Inv
<1>2. Inv /\ [Next]_vars => Inv'
  BY StepTypes, StepHeld, StepCalm DEF Inv
<1>3. QED
  BY <1>1, <1>2, PTL DEF Spec

\* The variables of the page have their types, and every bound holds.
THEOREM PageTypes == Spec => []TypeOK
<1>1. Inv => TypeOK
  BY DEF Inv
<1>2. QED
  BY <1>1, PageCorrect, PTL

\* Whatever the order of events, timers and moves, a view that is shown has a
\* connection, or something pending that opens one: the guards of
\* scheduleReconnect, start and open never leave it with neither.
THEOREM ViewsAreServed == Spec => []NotStranded
<1>1. Inv => NotStranded
  BY DEF Inv
<1>2. QED
  BY <1>1, PageCorrect, PTL

\* While the user waits for the page to settle and does not go from a chat to
\* another, every live socket is the one Sessions or Chat holds, for what is shown.
THEOREM SocketsHaveOneOwner == Spec => []OneOwner
<1>1. Inv => OneOwner
  <2>1. SUFFICES ASSUME Inv, ~hurried, NEW s \in Socket, socks[s].state \in {"connecting", "open"}
                 PROVE  \/ s = channel /\ socks[s].to = "control" /\ RailShown
                        \/ s = chat /\ socks[s].to = current /\ current = route
    BY DEF OneOwner
  <2>2. socks \in Sockets /\ TypeOK /\ Held /\ RailCalm /\ ChatCalm /\ ChatOK
    BY <2>1, Parts DEF Inv, Calm, TypeOK, Sockets
  <2>3. socks[s].to \in Target
    BY <2>1, <2>2, SocketIs
  <2>4. CASE socks[s].to = "control"
    BY <2>1, <2>2, <2>4, Constants DEF RailCalm
  <2>5. CASE socks[s].to \in Session
    <3>1. s = chat /\ socks[s].to = current
      BY <2>1, <2>2, <2>5 DEF ChatCalm
    <3>2. route # "sessions"
      BY <2>2, <3>1, Constants DEF Held
    <3>3. QED
      BY <2>2, <3>1, <3>2 DEF ChatOK
  <2>6. QED
    BY <2>3, <2>4, <2>5 DEF Target
<1>2. QED
  BY <1>1, PageCorrect, PTL
=============================================================================
