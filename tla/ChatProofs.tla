------------------------------ MODULE ChatProofs ------------------------------
(***************************************************************************)
(* Theorems about ChatTranscript, for a session of any length and any      *)
(* number of losses and of other phones: its types, ActivityTrue and       *)
(* TranscriptExact, with the invariants they need of the answers and       *)
(* events that are under way.                                              *)
(*                                                                         *)
(* Activity (Inv).  What the page will show, once it has read the wire, is *)
(* what the last frame about it says, or what it shows by now if there is  *)
(* none.  From the answer to get_state on that is whether the agent runs   *)
(* (Streams), and from the answer to get_messages on no card of a tool     *)
(* that has ended is left spinning (Spins).                                *)
(*                                                                         *)
(* Transcript (Exact).  The frames on the wire lead the session from what  *)
(* it was when it had sent all the page has read, past[1], step by step to *)
(* what it is (Behind), and if no redraw is to come the page shows past[1] *)
(* (Page): its messages, and of the one being written what Writes says.    *)
(* Sending a frame appends to past and reading one drops its head.         *)
(*                                                                         *)
(* The transcript is built by Picked, a recursive function: what it does   *)
(* with one more element is proved by the least place at which it would    *)
(* do something else (LeastNat, from WFMin).                               *)
(***************************************************************************)
EXTENDS ChatTranscript, SequenceTheorems, WellFoundedInduction, TLAPS

Frame == Event \cup Response

\* The frames of S in a queue: the last of them, if there is one.
LastOf(q, S) ==
  {q[k] : k \in {j \in DOMAIN q : q[j] \in S /\ \A m \in DOMAIN q : m > j => q[m] \notin S}}
NoneOf(q, S) == \A k \in DOMAIN q : q[k] \notin S

LEMMA Empty ==
  \A F : <<>> \in Seq(F)
OBVIOUS

LEMMA Appended ==
  ASSUME NEW F, NEW q \in Seq(F), NEW f \in F, NEW S
  PROVE  /\ Append(q, f) \in Seq(F)
         /\ f \in S => ~NoneOf(Append(q, f), S) /\ LastOf(Append(q, f), S) \subseteq {f}
         /\ f \notin S => /\ NoneOf(Append(q, f), S) => NoneOf(q, S)
                          /\ LastOf(Append(q, f), S) \subseteq LastOf(q, S)
<1> DEFINE a == Append(q, f)
           Ends(s, j) == s[j] \in S /\ \A m \in DOMAIN s : m > j => s[m] \notin S
<1>1. /\ DOMAIN q = 1..Len(q) /\ DOMAIN a = 1..(Len(q) + 1) /\ Len(q) \in Nat /\ a \in Seq(F)
      /\ a[Len(q) + 1] = f /\ \A k \in 1..Len(q) : a[k] = q[k]
  OBVIOUS
<1> HIDE DEF a
<1>2. CASE f \in S
  <2>1. ~NoneOf(a, S)
    BY <1>1, <1>2 DEF NoneOf
  <2>2. \A k \in DOMAIN a : Ends(a, k) => k = Len(q) + 1
    BY <1>1, <1>2
  <2>3. QED
    BY <1>1, <1>2, <2>1, <2>2 DEF LastOf, a
<1>3. CASE f \notin S
  <2>1. NoneOf(a, S) => NoneOf(q, S)
    BY <1>1 DEF NoneOf
  <2>2. \A k \in DOMAIN a : Ends(a, k) => k \in DOMAIN q /\ Ends(q, k) /\ a[k] = q[k]
    <3>1. SUFFICES ASSUME NEW k \in DOMAIN a, Ends(a, k)
                   PROVE  k \in DOMAIN q /\ Ends(q, k) /\ a[k] = q[k]
      OBVIOUS
    <3>2. a[k] \in S /\ k \in 1..Len(q)
      BY <1>1, <1>3, <3>1
    <3>3. \A m \in DOMAIN q : m > k => q[m] \notin S
      BY <1>1, <3>1
    <3>4. QED
      BY <1>1, <3>2, <3>3
  <2>3. LastOf(a, S) \subseteq LastOf(q, S)
    BY <2>2 DEF LastOf
  <2>4. QED
    BY <1>1, <1>3, <2>1, <2>3 DEF a
<1>4. QED
  BY <1>2, <1>3

LEMMA Taken ==
  ASSUME NEW F, NEW q \in Seq(F), q # <<>>, NEW S
  PROVE  /\ Tail(q) \in Seq(F) /\ Head(q) \in F
         /\ LastOf(Tail(q), S) \subseteq LastOf(q, S)
         /\ NoneOf(Tail(q), S) => IF Head(q) \in S THEN Head(q) \in LastOf(q, S) ELSE NoneOf(q, S)
<1> DEFINE t == Tail(q)
           Ends(s, j) == s[j] \in S /\ \A m \in DOMAIN s : m > j => s[m] \notin S
<1>1. /\ DOMAIN q = 1..Len(q) /\ DOMAIN t = 1..(Len(q) - 1) /\ Len(q) \in Nat \ {0} /\ t \in Seq(F)
      /\ Head(q) = q[1] /\ Head(q) \in F /\ \A k \in 1..(Len(q) - 1) : t[k] = q[k + 1]
  OBVIOUS
<1> HIDE DEF t
<1>2. \A j \in 2..Len(q) : j - 1 \in DOMAIN t /\ q[j] = t[j - 1]
  BY <1>1
<1>3. ASSUME NEW k \in DOMAIN t, Ends(t, k)
      PROVE  k + 1 \in DOMAIN q /\ Ends(q, k + 1) /\ t[k] = q[k + 1]
  <2>1. k + 1 \in DOMAIN q /\ t[k] = q[k + 1] /\ q[k + 1] \in S
    BY <1>1, <1>3
  <2>2. ASSUME NEW j \in DOMAIN q, j > k + 1 PROVE q[j] \notin S
    <3>1. j \in 2..Len(q) /\ j - 1 > k
      BY <1>1, <2>2
    <3>2. QED
      BY <1>2, <1>3, <3>1
  <2>3. QED
    BY <2>1, <2>2
<1>4. LastOf(t, S) \subseteq LastOf(q, S)
  BY <1>3 DEF LastOf
<1>5. ASSUME NoneOf(t, S), q[1] \in S PROVE q[1] \in LastOf(q, S)
  <2>1. ASSUME NEW j \in DOMAIN q, j > 1 PROVE q[j] \notin S
    <3>1. j \in 2..Len(q)
      BY <1>1, <2>1
    <3>2. QED
      BY <1>2, <1>5, <3>1 DEF NoneOf
  <2>2. 1 \in DOMAIN q /\ Ends(q, 1)
    BY <1>1, <1>5, <2>1
  <2>3. QED
    BY <2>2 DEF LastOf
<1>6. ASSUME NoneOf(t, S), q[1] \notin S PROVE NoneOf(q, S)
  <2>1. ASSUME NEW j \in DOMAIN q PROVE q[j] \notin S
    <3>1. j = 1 \/ j \in 2..Len(q)
      BY <1>1, <2>1
    <3>2. QED
      BY <1>2, <1>6, <3>1 DEF NoneOf
  <2>2. QED
    BY <2>1 DEF NoneOf
<1>7. QED
  BY <1>1, <1>4, <1>5, <1>6 DEF t

-----------------------------------------------------------------------------
(* The types                                                               *)

\* The part of TypeOK that the session, the connection and the activity have.
SessionTypes ==
  /\ history \in Seq(Message) /\ live \in Message \cup {None}
  /\ live # None => Len(history) < MaxMessages
  /\ running \in BOOLEAN
  /\ begun \in 0..MaxTools /\ tools \subseteq 1..begun

WireTypes ==
  /\ socket \in {"left", "closed", "connecting", "open"} /\ hears \in BOOLEAN
  /\ asks \in {<<>>, <<"get_state">>, <<"get_messages", "get_state">>}
  /\ wire \in Seq(Frame)
  /\ streaming \in BOOLEAN /\ spinning \subseteq Tool

Types == SessionTypes /\ WireTypes

LEMMA Bounds ==
  MaxMessages \in Nat /\ MaxParts \in Nat \ {0} /\ MaxTools \in Nat
BY BoundAssumption

\* A text is one of the message's parts.
LEMMA WholeType ==
  ASSUME NEW n \in Number, NEW k \in 0..MaxParts
  PROVE  Whole(n, k) \in Text
<1>1. Whole(n, k) \in [1..k -> Number \X (1..MaxParts)] /\ k \in Nat
  BY Bounds DEF Whole
<1>2. QED
  BY <1>1 DEF Text

\* What the session sends.
LEMMA FrameTypes ==
  ASSUME SessionTypes
  PROVE  /\ [type |-> "agent_start"] \in Frame /\ [type |-> "agent_settled"] \in Frame
         /\ \A t \in Tool : /\ [type |-> "tool_execution_start", tool |-> t] \in Frame
                            /\ [type |-> "tool_execution_end", tool |-> t] \in Frame
         /\ State \in Frame /\ Messages \in Frame
<1>1. /\ [type |-> "agent_start"] \in Frame /\ [type |-> "agent_settled"] \in Frame
      /\ \A t \in Tool : /\ [type |-> "tool_execution_start", tool |-> t] \in Frame
                         /\ [type |-> "tool_execution_end", tool |-> t] \in Frame
  BY DEF Frame, Event
<1>2. State \in Frame
  BY DEF State, Frame, Response, SessionTypes
<1>3. Messages \in Frame
  <2>1. live # None => Writing \in Number
    BY Bounds DEF SessionTypes, Writing, Number
  <2>2. QED
    BY <2>1 DEF Messages, Frame, Response, SessionTypes
<1>4. QED
  BY <1>1, <1>2, <1>3

-----------------------------------------------------------------------------
(* The invariant of the activity                                           *)

\* A view that is open has its answers only from a bridge that has subscribed.
Heard == socket = "open" /\ asks # <<"get_messages", "get_state">> => hears

\* The frames that say whether the agent runs, and what they say.
Setting == {f \in Frame : f.type \in {"agent_start", "agent_settled", "get_state"}}
SetTo(f) == IF f.type = "get_state" THEN f.isStreaming ELSE f.type = "agent_start"

Streams ==
  socket = "open" /\ asks = <<>> =>
    /\ \A f \in LastOf(wire, Setting) : SetTo(f) = running
    /\ NoneOf(wire, Setting) => streaming = running

\* The frames after which the card of t spins or does not.
Touching(t) ==
  {f \in Frame : \/ f.type = "get_messages"
                 \/ f.type \in {"tool_execution_start", "tool_execution_end"} /\ f.tool = t}

Spins ==
  socket = "open" /\ asks # <<"get_messages", "get_state">> =>
    \A t \in Tool \ tools :
      /\ \A f \in LastOf(wire, Touching(t)) : f.type # "tool_execution_start"
      /\ NoneOf(wire, Touching(t)) => t \notin spinning

Inv == Types /\ Heard /\ Streams /\ Spins

-----------------------------------------------------------------------------
(* The steps                                                               *)

\* What is sent goes to the end of the wire, if the bridge has subscribed.
LEMMA SentWire ==
  ASSUME WireTypes, NEW f \in Frame, Sent(f)
  PROVE  wire' \in Seq(Frame) /\ (hears => wire' = Append(wire, f))
BY DEF WireTypes, Sent

\* An event, or an answer to another phone: what it says of the agent and of
\* the tools is so from now on, and what it does not speak of has not changed.
LEMMA SendPreserves ==
  ASSUME Inv, NEW f \in Frame, Sent(f),
         UNCHANGED <<socket, hears, asks, streaming, spinning>>, SessionTypes',
         IF f \in Setting THEN SetTo(f) = running' ELSE running' = running,
         \A t \in Tool \ tools' : IF f \in Touching(t) THEN f.type # "tool_execution_start"
                                                       ELSE t \notin tools
  PROVE  Inv'
<1>1. Types' /\ (hears => wire' = Append(wire, f)) /\ Heard'
  BY SentWire DEF Inv, Types, WireTypes, Heard
<1>2. Streams'
  <2>1. SUFFICES ASSUME socket = "open", asks = <<>>
                 PROVE  /\ \A g \in LastOf(wire', Setting) : SetTo(g) = running'
                        /\ NoneOf(wire', Setting) => streaming = running'
    BY DEF Streams
  <2>2. wire' = Append(wire, f) /\ wire \in Seq(Frame)
    BY <1>1, <2>1 DEF Inv, Heard, Types, WireTypes
  <2>3. /\ \A g \in LastOf(wire, Setting) : SetTo(g) = running
        /\ NoneOf(wire, Setting) => streaming = running
    BY <2>1 DEF Inv, Streams
  <2>4. /\ f \in Setting => ~NoneOf(wire', Setting) /\ LastOf(wire', Setting) \subseteq {f}
        /\ f \notin Setting => /\ NoneOf(wire', Setting) => NoneOf(wire, Setting)
                               /\ LastOf(wire', Setting) \subseteq LastOf(wire, Setting)
    BY <2>2, Appended
  <2>5. CASE f \in Setting
    BY <2>4, <2>5
  <2>6. CASE f \notin Setting
    BY <2>3, <2>4, <2>6
  <2>7. QED
    BY <2>5, <2>6
<1>3. Spins'
  <2>1. SUFFICES ASSUME socket = "open", asks # <<"get_messages", "get_state">>,
                        NEW t \in Tool \ tools'
                 PROVE  /\ \A g \in LastOf(wire', Touching(t)) : g.type # "tool_execution_start"
                        /\ NoneOf(wire', Touching(t)) => t \notin spinning
    BY DEF Spins, Touching
  <2>2. wire' = Append(wire, f) /\ wire \in Seq(Frame)
    BY <1>1, <2>1 DEF Inv, Heard, Types, WireTypes
  <2>3. /\ f \in Touching(t) => ~NoneOf(wire', Touching(t)) /\ LastOf(wire', Touching(t)) \subseteq {f}
        /\ f \notin Touching(t) => /\ NoneOf(wire', Touching(t)) => NoneOf(wire, Touching(t))
                                   /\ LastOf(wire', Touching(t)) \subseteq LastOf(wire, Touching(t))
    BY <2>2, Appended
  <2>4. CASE f \in Touching(t)
    BY <2>1, <2>3, <2>4
  <2>5. CASE f \notin Touching(t)
    <3>1. /\ \A g \in LastOf(wire, Touching(t)) : g.type # "tool_execution_start"
          /\ NoneOf(wire, Touching(t)) => t \notin spinning
      BY <2>1, <2>5 DEF Inv, Spins
    <3>2. QED
      BY <2>3, <2>5, <3>1
  <2>6. QED
    BY <2>4, <2>5
<1>4. QED
  BY <1>1, <1>2, <1>3 DEF Inv

\* The page's own answers: from each on, the last frame about its subject is true.
LEMMA AnswersPreserves ==
  ASSUME Inv, Answers
  PROVE  Inv'
<1> DEFINE f == IF Head(asks) = "get_messages" THEN Messages ELSE State
<1>1. /\ hears /\ asks \in {<<"get_state">>, <<"get_messages", "get_state">>}
      /\ f \in Frame /\ Sent(f) /\ asks' = Tail(asks) /\ wire \in Seq(Frame)
      /\ UNCHANGED <<sessionVars, socket, hears, streaming, spinning>>
  BY FrameTypes DEF Inv, Types, WireTypes, Answers, pageVars, textVars, toolVars
<1>2. wire' = Append(wire, f) /\ wire' \in Seq(Frame)
  BY <1>1, SentWire DEF Inv, Types
<1>3. \/ asks = <<"get_state">> /\ asks' = <<>> /\ f = State
      \/ asks = <<"get_messages", "get_state">> /\ asks' = <<"get_state">> /\ f = Messages
  <2>1. CASE asks = <<"get_state">>
    <3>1. Head(asks) = "get_state" /\ Tail(asks) = <<>>
      BY <2>1
    <3>2. QED
      BY <1>1, <2>1, <3>1
  <2>2. CASE asks = <<"get_messages", "get_state">>
    <3>1. Head(asks) = "get_messages" /\ Tail(asks) = <<"get_state">>
      BY <2>2
    <3>2. QED
      BY <1>1, <2>2, <3>1
  <2>3. QED
    BY <1>1, <2>1, <2>2
<1>4. Types' /\ Heard'
  BY <1>1, <1>2, <1>3 DEF Inv, Types, SessionTypes, WireTypes, Heard, sessionVars
<1> HIDE DEF f
<1>5. ASSUME asks' = <<>> PROVE f \in Setting /\ SetTo(f) = running
  BY <1>1, <1>3, <1>5 DEF Setting, SetTo, State
<1>6. Streams'
  <2>1. ASSUME asks' = <<>>
        PROVE  ~NoneOf(wire', Setting) /\ LastOf(wire', Setting) \subseteq {f}
    BY <1>1, <1>2, <1>5, <2>1, Appended
  <2>2. QED
    BY <1>1, <1>5, <2>1 DEF Streams, sessionVars
<1>7. Spins'
  <2>1. SUFFICES ASSUME socket = "open", NEW t \in Tool \ tools
                 PROVE  /\ \A g \in LastOf(wire', Touching(t)) : g.type # "tool_execution_start"
                        /\ NoneOf(wire', Touching(t)) => t \notin spinning
    BY <1>1 DEF Spins, Touching, sessionVars
  <2>2. /\ f \in Touching(t) => ~NoneOf(wire', Touching(t)) /\ LastOf(wire', Touching(t)) \subseteq {f}
        /\ f \notin Touching(t) => /\ NoneOf(wire', Touching(t)) => NoneOf(wire, Touching(t))
                                   /\ LastOf(wire', Touching(t)) \subseteq LastOf(wire, Touching(t))
    BY <1>1, <1>2, Appended
  <2>3. CASE f = Messages
    <3>1. f \in Touching(t) /\ f.type # "tool_execution_start"
      BY <1>1, <2>3 DEF Touching, Messages
    <3>2. QED
      BY <2>2, <3>1
  <2>4. CASE f = State /\ asks = <<"get_state">>
    <3>1. f \notin Touching(t)
      BY <2>4 DEF Touching, State
    <3>2. /\ \A g \in LastOf(wire, Touching(t)) : g.type # "tool_execution_start"
          /\ NoneOf(wire, Touching(t)) => t \notin spinning
      BY <2>1, <2>4 DEF Inv, Spins
    <3>3. QED
      BY <2>2, <3>1, <3>2
  <2>5. QED
    BY <1>3, <2>3, <2>4
<1>8. QED
  BY <1>4, <1>6, <1>7 DEF Inv

\* A frame that the page reads: it shows what the frame says, and keeps the rest.
LEMMA ReadPreserves ==
  ASSUME Inv, wire # <<>>, wire' = Tail(wire),
         UNCHANGED <<sessionVars, socket, hears, asks>>,
         streaming' \in BOOLEAN, spinning' \subseteq Tool,
         IF Head(wire) \in Setting THEN streaming' = SetTo(Head(wire)) ELSE streaming' = streaming,
         \A t \in Tool : t \in spinning' =>
           IF Head(wire) \in Touching(t) THEN Head(wire).type = "tool_execution_start"
                                         ELSE t \in spinning
  PROVE  Inv'
<1> DEFINE f == Head(wire)
<1>1. wire \in Seq(Frame) /\ wire' \in Seq(Frame) /\ f \in Frame
  BY Taken DEF Inv, Types, WireTypes
<1>2. Types' /\ Heard'
  BY <1>1 DEF Inv, Types, SessionTypes, WireTypes, Heard, sessionVars
<1>3. \A S : /\ LastOf(wire', S) \subseteq LastOf(wire, S)
             /\ NoneOf(wire', S) => IF f \in S THEN f \in LastOf(wire, S) ELSE NoneOf(wire, S)
  BY <1>1, Taken
<1> HIDE DEF f
<1>4. Streams'
  <2>1. SUFFICES ASSUME socket = "open", asks = <<>>
                 PROVE  /\ \A g \in LastOf(wire', Setting) : SetTo(g) = running
                        /\ NoneOf(wire', Setting) => streaming' = running
    BY DEF Streams, sessionVars
  <2>2. /\ \A g \in LastOf(wire, Setting) : SetTo(g) = running
        /\ NoneOf(wire, Setting) => streaming = running
    BY <2>1 DEF Inv, Streams
  <2>3. /\ LastOf(wire', Setting) \subseteq LastOf(wire, Setting)
        /\ NoneOf(wire', Setting) => IF f \in Setting THEN f \in LastOf(wire, Setting)
                                                      ELSE NoneOf(wire, Setting)
    BY <1>3
  <2>4. IF f \in Setting THEN streaming' = SetTo(f) ELSE streaming' = streaming
    BY DEF f
  <2>5. QED
    BY <2>2, <2>3, <2>4
<1>5. Spins'
  <2>1. SUFFICES ASSUME socket = "open", asks # <<"get_messages", "get_state">>,
                        NEW t \in Tool \ tools
                 PROVE  /\ \A g \in LastOf(wire', Touching(t)) : g.type # "tool_execution_start"
                        /\ NoneOf(wire', Touching(t)) => t \notin spinning'
    BY DEF Spins, Touching, sessionVars
  <2>2. /\ \A g \in LastOf(wire, Touching(t)) : g.type # "tool_execution_start"
        /\ NoneOf(wire, Touching(t)) => t \notin spinning
    BY <2>1 DEF Inv, Spins
  <2>3. /\ LastOf(wire', Touching(t)) \subseteq LastOf(wire, Touching(t))
        /\ NoneOf(wire', Touching(t)) => IF f \in Touching(t) THEN f \in LastOf(wire, Touching(t))
                                                             ELSE NoneOf(wire, Touching(t))
    BY <1>3
  <2>4. t \in spinning' =>
          IF f \in Touching(t) THEN f.type = "tool_execution_start" ELSE t \in spinning
    BY DEF f
  <2>5. QED
    BY <2>2, <2>3, <2>4
<1>6. QED
  BY <1>2, <1>4, <1>5 DEF Inv

\* What the session does, and what it sends.
LEMMA SessionPreserves ==
  ASSUME Inv, SessionStep
  PROVE  Inv'
<1>1. SessionTypes /\ Types
  BY DEF Inv, Types
<1> DEFINE Same == UNCHANGED <<socket, hears, asks, streaming, spinning>>
           Quiet(f) == f \in Frame /\ f \notin Setting /\ \A t \in Tool : f \notin Touching(t)
<1>2. \A f : Forward(f) => Sent(f) /\ Same
  BY DEF Forward, pageVars, textVars, toolVars
<1>3. ASSUME NEW f, Forward(f), Quiet(f), SessionTypes', UNCHANGED <<running, tools>>
      PROVE  Inv'
  BY <1>2, <1>3, SendPreserves
<1>4. ASSUME NEW on \in BOOLEAN, UNCHANGED <<history, live, tools, begun>>, running' = on,
             Forward([type |-> IF on THEN "agent_start" ELSE "agent_settled"])
      PROVE  Inv'
  <2> DEFINE f == [type |-> IF on THEN "agent_start" ELSE "agent_settled"]
  <2>1. f \in Frame /\ f \in Setting /\ SetTo(f) = running' /\ \A t \in Tool : f \notin Touching(t)
    BY <1>1, <1>4, FrameTypes DEF Setting, SetTo, Touching
  <2>2. SessionTypes'
    BY <1>1, <1>4 DEF SessionTypes
  <2>3. Sent(f) /\ Same
    BY <1>2, <1>4
  <2> HIDE DEF f
  <2>4. QED
    BY <1>4, <2>1, <2>2, <2>3, SendPreserves
<1>5. CASE AgentStarts \/ AgentSettles
  <2>1. CASE AgentStarts
    BY <1>4, <2>1 DEF AgentStarts
  <2>2. CASE AgentSettles
    BY <1>4, <2>2 DEF AgentSettles
  <2>3. QED
    BY <1>5, <2>1, <2>2
<1>6. ASSUME NEW role \in Role, MessageStarts(role) PROVE Inv'
  <2> DEFINE f == [type |-> "message_start", n |-> Writing, role |-> role]
  <2>1. Writing \in Number
    BY <1>1, <1>6, Bounds DEF MessageStarts, Writing, Number, SessionTypes
  <2>2. Quiet(f)
    BY <2>1 DEF Frame, Event, Setting, Touching
  <2>3. [role |-> role, parts |-> IF role = "user" THEN 1 ELSE 0] \in Message
    BY Bounds DEF Message
  <2>4. SessionTypes'
    BY <1>1, <1>6, <2>3 DEF MessageStarts, SessionTypes
  <2>5. QED
    BY <1>3, <1>6, <2>2, <2>4 DEF MessageStarts
<1>7. CASE MessageGrows
  <2> DEFINE f == [type |-> "message_update", n |-> Writing, part |-> live.parts + 1]
  <2>1. Writing \in Number /\ live \in Message /\ live.parts + 1 \in 1..MaxParts
    BY <1>1, <1>7, Bounds DEF MessageGrows, Writing, Number, SessionTypes, Message
  <2>2. Quiet(f)
    BY <2>1 DEF Frame, Event, Setting, Touching
  <2>3. [live EXCEPT !.parts = @ + 1] \in Message /\ live # None
    BY <1>7, <2>1, Bounds DEF Message, MessageGrows
  <2>4. SessionTypes'
    BY <1>1, <1>7, <2>3 DEF MessageGrows, SessionTypes
  <2>5. QED
    BY <1>3, <1>7, <2>2, <2>4 DEF MessageGrows
<1>8. CASE MessageEnds
  <2> DEFINE f == [type |-> "message_end", n |-> Writing, role |-> live.role,
                   text |-> Whole(Writing, live.parts)]
  <2>1. /\ Writing \in Number /\ live \in Message
        /\ live.role \in Role /\ live.parts \in 0..MaxParts
    BY <1>1, <1>8, Bounds DEF MessageEnds, Writing, Number, SessionTypes, Message
  <2>2. Whole(Writing, live.parts) \in Text
    BY <2>1, WholeType
  <2>3. Quiet(f)
    BY <2>1, <2>2 DEF Frame, Event, Setting, Touching
  <2>4. SessionTypes'
    BY <1>1, <1>8, <2>1 DEF MessageEnds, SessionTypes
  <2>5. QED
    BY <1>3, <1>8, <2>3, <2>4 DEF MessageEnds
<1>9. CASE ToolStarts
  <2> DEFINE f == [type |-> "tool_execution_start", tool |-> begun + 1]
  <2>1. begun + 1 \in Tool /\ begun + 1 \in 0..MaxTools /\ tools' = tools \cup {begun + 1}
    BY <1>1, <1>9, Bounds DEF ToolStarts, SessionTypes, Tool
  <2>2. f \in Frame /\ f \notin Setting /\ \A t \in Tool : f \in Touching(t) => t = begun + 1
    BY <1>1, <2>1, FrameTypes DEF Setting, Touching
  <2>3. SessionTypes'
    BY <1>1, <1>9, <2>1 DEF ToolStarts, SessionTypes
  <2>4. Sent(f) /\ Same /\ running' = running
    BY <1>2, <1>9 DEF ToolStarts
  <2> HIDE DEF f
  <2>5. QED
    BY <2>1, <2>2, <2>3, <2>4, SendPreserves
<1>10. ASSUME NEW t \in Tool, ToolEnds(t) PROVE Inv'
  <2> DEFINE f == [type |-> "tool_execution_end", tool |-> t]
  <2>1. f \in Frame /\ f \notin Setting /\ f.type # "tool_execution_start" /\ f \in Touching(t)
    BY <1>1, FrameTypes DEF Setting, Touching
  <2>2. SessionTypes'
    BY <1>1, <1>10 DEF ToolEnds, SessionTypes
  <2>3. Sent(f) /\ Same /\ running' = running /\ tools' = tools \ {t}
    BY <1>2, <1>10 DEF ToolEnds
  <2> HIDE DEF f
  <2>4. QED
    BY <2>1, <2>2, <2>3, SendPreserves
<1>11. CASE AnswersOther
  <2>1. SessionTypes' /\ Same /\ UNCHANGED <<running, tools>>
    BY <1>1, <1>11 DEF AnswersOther, SessionTypes, sessionVars, pageVars, textVars, toolVars
  <2>2. Messages \in Frame /\ State \in Frame
    BY <1>1, FrameTypes
  <2>3. CASE Sent(Messages)
    <3>1. /\ Messages \notin Setting /\ Messages.type # "tool_execution_start"
          /\ \A t \in Tool : Messages \in Touching(t)
      BY <2>2 DEF Messages, Setting, Touching
    <3>2. QED
      BY <2>1, <2>2, <2>3, <3>1, SendPreserves
  <2>4. CASE Sent(State)
    <3>1. State \in Setting /\ SetTo(State) = running /\ \A t \in Tool : State \notin Touching(t)
      BY <2>2 DEF State, Setting, SetTo, Touching
    <3>2. QED
      BY <2>1, <2>2, <2>4, <3>1, SendPreserves
  <2>5. QED
    BY <1>11, <2>3, <2>4 DEF AnswersOther
<1>12. QED
  BY <1>5, <1>6, <1>7, <1>8, <1>9, <1>10, <1>11, AnswersPreserves DEF SessionStep

\* The connection comes and goes: until the answer is there, nothing is promised.
LEMMA ConnectionPreserves ==
  ASSUME Inv, Subscribes \/ Open \/ Reconnect \/ OnOpen \/ OnClose \/ Close
  PROVE  Inv'
<1> USE DEF sessionVars, pageVars, textVars, toolVars
<1>1. SessionTypes' /\ UNCHANGED <<running, tools>>
  BY DEF Inv, Types, SessionTypes, Subscribes, Open, Reconnect, OnOpen, OnClose, Close
<1>2. CASE Subscribes
  <2>1. UNCHANGED <<socket, asks, wire, streaming, spinning>> /\ hears' = TRUE
    BY <1>2 DEF Subscribes
  <2>2. Types' /\ Heard'
    BY <1>1, <2>1 DEF Inv, Types, WireTypes, Heard
  <2>3. QED
    BY <1>1, <2>1, <2>2 DEF Inv, Streams, Spins, Touching
<1>3. CASE Open \/ Reconnect \/ OnClose \/ Close
  <2> DEFINE Kept == UNCHANGED <<hears, asks, wire>>
             Lost == hears' = FALSE /\ asks' = <<>> /\ wire' = <<>>
  <2>1. /\ socket' \in {"left", "closed", "connecting"}
        /\ Kept \/ Lost
        /\ UNCHANGED streaming \/ streaming' = FALSE
        /\ UNCHANGED spinning \/ spinning' = {}
    <3>1. CASE Open
      <4>1. socket' = "connecting" /\ Kept /\ UNCHANGED streaming /\ spinning' = {}
        BY <3>1 DEF Open
      <4>2. QED
        BY <4>1
    <3>2. CASE Reconnect
      <4>1. socket' = "connecting" /\ Kept /\ UNCHANGED <<streaming, spinning>>
        BY <3>2 DEF Reconnect
      <4>2. QED
        BY <4>1
    <3>3. CASE OnClose
      BY <3>3 DEF OnClose, Drops
    <3>4. CASE Close
      BY <3>4 DEF Close, Drops, SetStreaming
    <3>5. QED
      BY <1>3, <3>1, <3>2, <3>3, <3>4
  <2>2. /\ hears' \in BOOLEAN /\ streaming' \in BOOLEAN /\ spinning' \subseteq Tool
        /\ wire' \in Seq(Frame)
        /\ asks' \in {<<>>, <<"get_state">>, <<"get_messages", "get_state">>}
    <3>1. CASE Kept
      BY <2>1, <3>1 DEF Inv, Types, WireTypes
    <3>2. CASE Lost
      <4>1. streaming' \in BOOLEAN /\ spinning' \subseteq Tool
        BY <2>1 DEF Inv, Types, WireTypes
      <4>2. hears' \in BOOLEAN /\ wire' \in Seq(Frame)
        BY <3>2, Empty
      <4>3. QED
        BY <3>2, <4>1, <4>2
    <3>3. QED
      BY <2>1, <3>1, <3>2
  <2>3. Types' /\ socket' # "open"
    BY <1>1, <2>1, <2>2 DEF Types, WireTypes
  <2>4. QED
    BY <2>3 DEF Inv, Heard, Streams, Spins
<1>4. CASE OnOpen
  <2>1. /\ socket' = "open" /\ asks' = <<"get_messages", "get_state">>
        /\ UNCHANGED <<hears, wire, streaming, spinning>>
    BY <1>4 DEF OnOpen
  <2>2. Types'
    BY <1>1, <2>1 DEF Inv, Types, WireTypes
  <2>3. asks' # <<>>
    BY <2>1
  <2>4. QED
    BY <2>1, <2>2, <2>3 DEF Inv, Heard, Streams, Spins
<1>5. QED
  BY <1>2, <1>3, <1>4

\* handleEvent
LEMMA HandlePreserves ==
  ASSUME Inv, \/ Redraw \/ OnState \/ OnAgent
              \/ OnMessageStart \/ OnDelta \/ OnMessageEnd
              \/ OnToolStart \/ OnToolEnd
  PROVE  Inv'
<1> DEFINE f == Head(wire)
<1> USE DEF pageVars, textVars, toolVars
<1>1. /\ wire # <<>> /\ wire' = Tail(wire)
      /\ UNCHANGED <<sessionVars, socket, hears, asks>>
  BY DEF Receives, Redraw, OnState, OnAgent, OnMessageStart, OnDelta, OnMessageEnd,
         OnToolStart, OnToolEnd
<1>2. f \in Frame /\ streaming \in BOOLEAN /\ spinning \subseteq Tool
  BY <1>1, Taken DEF Inv, Types, WireTypes
<1> DEFINE Shows == /\ streaming' \in BOOLEAN /\ spinning' \subseteq Tool
                    /\ IF f \in Setting THEN streaming' = SetTo(f) ELSE streaming' = streaming
                    /\ \A t \in Tool : t \in spinning' =>
                         IF f \in Touching(t) THEN f.type = "tool_execution_start"
                                              ELSE t \in spinning
<1>3. Shows => Inv'
  BY <1>1, ReadPreserves
<1>4. CASE Redraw
  <2>1. f.type = "get_messages" /\ spinning' = {} /\ UNCHANGED streaming
    BY <1>4 DEF Redraw, Receives
  <2>2. QED
    BY <1>2, <1>3, <2>1 DEF Setting
<1>5. CASE OnState
  <2>1. f.type = "get_state" /\ streaming' = f.isStreaming /\ UNCHANGED spinning
    BY <1>5 DEF OnState, Receives, SetStreaming
  <2>2. f.isStreaming \in BOOLEAN
    BY <1>2, <2>1 DEF Frame, Event, Response
  <2>3. QED
    BY <1>2, <1>3, <2>1, <2>2 DEF Setting, SetTo, Touching
<1>6. CASE OnAgent
  <2>1. /\ f.type \in {"agent_start", "agent_settled"} /\ UNCHANGED spinning
        /\ streaming' = (f.type = "agent_start")
    BY <1>6 DEF OnAgent, Receives, SetStreaming
  <2>2. QED
    BY <1>2, <1>3, <2>1 DEF Setting, SetTo, Touching
<1>7. CASE OnMessageStart \/ OnDelta \/ OnMessageEnd
  <2>1. /\ f.type \in {"message_start", "message_update", "message_end"}
        /\ UNCHANGED <<streaming, spinning>>
    BY <1>7 DEF OnMessageStart, OnDelta, OnMessageEnd, Receives
  <2>2. QED
    BY <1>2, <1>3, <2>1 DEF Setting, Touching
<1>8. CASE OnToolStart
  <2>1. /\ f.type = "tool_execution_start" /\ spinning' = spinning \cup {f.tool}
        /\ UNCHANGED streaming
    BY <1>8 DEF OnToolStart, Receives
  <2>2. f.tool \in Tool
    BY <1>2, <2>1 DEF Frame, Event, Response
  <2>3. QED
    BY <1>2, <1>3, <2>1, <2>2 DEF Setting, Touching
<1>9. CASE OnToolEnd
  <2>1. /\ f.type = "tool_execution_end" /\ spinning' = spinning \ {f.tool}
        /\ UNCHANGED streaming
    BY <1>9 DEF OnToolEnd, Receives
  <2>2. QED
    BY <1>2, <1>3, <2>1 DEF Setting, Touching
<1>10. QED
  BY <1>4, <1>5, <1>6, <1>7, <1>8, <1>9

-----------------------------------------------------------------------------
(* The theorems about the activity                                         *)

\* The session has not begun and the view is not open.
LEMMA InvHoldsAtFirst ==
  Init => Inv
<1>1. ASSUME Init PROVE Types
  <2>1. SessionTypes
    <3>1. history = <<>> /\ live = None /\ running = FALSE /\ begun = 0 /\ tools = {}
      BY <1>1 DEF Init
    <3>2. 0 \in 0..MaxTools
      BY Bounds
    <3>3. QED
      BY <3>1, <3>2, Empty DEF SessionTypes
  <2>2. WireTypes
    <3>1. /\ socket = "left" /\ hears = FALSE /\ asks = <<>> /\ wire = <<>>
          /\ streaming = FALSE /\ spinning = {}
      BY <1>1 DEF Init
    <3>2. wire \in Seq(Frame) /\ hears \in BOOLEAN /\ streaming \in BOOLEAN
      BY <3>1, Empty
    <3>3. QED
      BY <3>1, <3>2 DEF WireTypes
  <2>3. QED
    BY <2>1, <2>2 DEF Types
<1>2. QED
  BY <1>1 DEF Init, Inv, Heard, Streams, Spins

LEMMA InvIsKept ==
  Inv /\ [Next]_vars => Inv'
<1>1. SUFFICES ASSUME Inv, [Next]_vars PROVE Inv'
  OBVIOUS
<1>2. CASE SessionStep
  BY <1>1, <1>2, SessionPreserves
<1>3. CASE Subscribes \/ Open \/ Reconnect \/ OnOpen \/ OnClose \/ Close
  BY <1>1, <1>3, ConnectionPreserves
<1>4. CASE \/ Redraw \/ OnState \/ OnAgent
           \/ OnMessageStart \/ OnDelta \/ OnMessageEnd
           \/ OnToolStart \/ OnToolEnd
  BY <1>1, <1>4, HandlePreserves
<1>5. CASE UNCHANGED vars
  BY <1>1, <1>5 DEF Inv, Types, SessionTypes, WireTypes, Heard, Streams, Spins, Touching,
                    vars, sessionVars, connectionVars, pageVars, textVars, toolVars
<1>6. QED
  BY <1>1, <1>2, <1>3, <1>4, <1>5 DEF Next, PageStep

\* What a page shows of its session's activity, once it has been answered and has
\* read what is under way, is what the session does: its abort button and its cards
\* (handleEvent of app.js; buildState and buildMessages of command-dispatch.ts).
THEOREM ChatCorrect == Spec => []Inv
BY InvHoldsAtFirst, InvIsKept, PTL DEF Spec

\* At rest the abort button tells whether the agent runs, and no card shows a tool
\* as running that has ended, whatever was lost with a connection before.
THEOREM ActivityIsTrue == Spec => []ActivityTrue
<1>1. Inv => ActivityTrue
  <2>1. SUFFICES ASSUME Inv, AtRest PROVE streaming = running /\ spinning \subseteq tools
    BY DEF ActivityTrue
  <2>2. socket = "open" /\ asks = <<>> /\ asks # <<"get_messages", "get_state">> /\ wire = <<>>
    BY <2>1 DEF AtRest
  <2>3. \A S : NoneOf(wire, S)
    BY <2>2 DEF NoneOf
  <2>4. streaming = running
    BY <2>1, <2>2, <2>3 DEF Inv, Streams
  <2>5. \A t \in Tool \ tools : t \notin spinning
    BY <2>1, <2>2, <2>3 DEF Inv, Spins
  <2>6. QED
    BY <2>1, <2>4, <2>5 DEF Inv, Types, WireTypes
<1>2. QED
  BY <1>1, ChatCorrect, PTL

-----------------------------------------------------------------------------
(* Least numbers, and what Picked picks                                    *)

\* A relation that < implies, and that WFMin applies to.
LEMMA Below ==
  \E R : IsWellFoundedOn(R, Nat) /\ \A m, n \in Nat : m < n => <<m, n>> \in R
<1> DEFINE R == OpToRel(<, Nat)
<1>1. IsWellFoundedOn(R, Nat)
  BY NatLessThanWellFounded
<1>2. \A m, n \in Nat : m < n => <<m, n>> \in R
  BY DEF OpToRel
<1> HIDE DEF R
<1>4. QED
  BY <1>1, <1>2

\* A set of numbers that is not empty has a least one.
LEMMA LeastNat ==
  ASSUME NEW T, T \subseteq Nat, T # {}
  PROVE  \E n \in T : \A m \in T : n <= m
<1>1. PICK R : IsWellFoundedOn(R, Nat) /\ \A m, n \in Nat : m < n => <<m, n>> \in R
  BY Below
<1>6. IsWellFoundedOn(R, Nat)
  BY <1>1
<1>2. \E x \in T : \A y \in T : ~ (<<y, x>> \in R)
  BY <1>6, WFMin
<1>3. PICK x \in T : \A y \in T : ~ (<<y, x>> \in R)
  BY <1>2
<1>4. ASSUME NEW m \in T PROVE x <= m
  <2>1. x \in Nat /\ m \in Nat
    OBVIOUS
  <2>2. ~(<<m, x>> \in R)
    BY <1>3
  <2>3. m < x => <<m, x>> \in R
    BY <1>1, <2>1
  <2>5. ~(m < x)
    BY <2>2, <2>3
  <2>4. QED
    BY <2>1, <2>5
<1>5. QED
  BY <1>4

\* The picks from the first n elements of s, for every n up to k.
Fills(f, s, I, k) ==
  f = [n \in 0..k |-> IF n = 0 THEN <<>>
                      ELSE IF n \in I THEN Append(f[n - 1], s[n]) ELSE f[n - 1]]

\* Picked is the last of them, if there are such functions.
LEMMA PickedIs ==
  ASSUME NEW s, NEW I, NEW g, Fills(g, s, I, Len(s))
  PROVE  \E f : Fills(f, s, I, Len(s)) /\ Picked(s, I) = f[Len(s)]
BY DEF Picked, Fills

\* The function, place by place.
LEMMA FillsAt ==
  ASSUME NEW s, NEW I, NEW k \in Nat, NEW f, Fills(f, s, I, k)
  PROVE  /\ f[0] = <<>>
         /\ \A n \in 1..k : f[n] = IF n \in I THEN Append(f[n - 1], s[n]) ELSE f[n - 1]
<1> DEFINE h == [n \in 0..k |-> IF n = 0 THEN <<>>
                      ELSE IF n \in I THEN Append(f[n - 1], s[n]) ELSE f[n - 1]]
<1>1. f = h
  BY DEF Fills
<1>2. 0 \in 0..k /\ \A n \in 1..k : n \in 0..k /\ n # 0
  OBVIOUS
<1>3. h[0] = <<>> /\ \A n \in 1..k : h[n] = IF n \in I THEN Append(f[n - 1], s[n]) ELSE f[n - 1]
  BY <1>2
<1> HIDE DEF h
<1>4. QED
  BY <1>1, <1>3

\* The recursive definition defines something: else take the least k for which it does not.
LEMMA FillsExist ==
  ASSUME NEW s, NEW I, NEW k \in Nat
  PROVE  \E f : Fills(f, s, I, k)
<1> DEFINE T == {m \in Nat : ~\E f : Fills(f, s, I, m)}
<1>1. SUFFICES ASSUME T # {} PROVE FALSE
  OBVIOUS
<1>2. PICK m \in T : \A j \in T : m <= j
  BY <1>1, LeastNat
<1>3. m \in Nat /\ ~\E f : Fills(f, s, I, m)
  OBVIOUS
<1>4. CASE m = 0
  <2>1. Fills([n \in 0..0 |-> <<>>], s, I, 0)
    BY DEF Fills
  <2>2. QED
    BY <1>3, <1>4, <2>1
<1>5. CASE m # 0
  <2>1. m - 1 \in Nat /\ ~(m <= m - 1)
    BY <1>3, <1>5
  <2>2. m - 1 \notin T
    BY <1>2, <2>1
  <2>3. PICK f : Fills(f, s, I, m - 1)
    BY <2>1, <2>2
  <2>4. /\ f[0] = <<>>
        /\ \A n \in 1..(m - 1) : f[n] = IF n \in I THEN Append(f[n - 1], s[n]) ELSE f[n - 1]
    BY <2>1, <2>3, FillsAt
  <2> DEFINE last == IF m \in I THEN Append(f[m - 1], s[m]) ELSE f[m - 1]
             g == [n \in 0..m |-> IF n = m THEN last ELSE f[n]]
             h == [n \in 0..m |-> IF n = 0 THEN <<>>
                      ELSE IF n \in I THEN Append(g[n - 1], s[n]) ELSE g[n - 1]]
  <2>5. \A n \in 0..m : g[n] = IF n = m THEN last ELSE f[n]
    OBVIOUS
  <2>6. \A n \in 0..m : n # 0 => n - 1 \in 0..m /\ n - 1 # m /\ (n # m => n \in 1..(m - 1))
    BY <1>3
  <2>7. \A n \in 0..m : n # 0 => g[n - 1] = f[n - 1]
    BY <2>5, <2>6
  <2> HIDE DEF last
  <2>8. ASSUME NEW n \in 0..m PROVE g[n] = h[n]
    <3>1. h[n] = IF n = 0 THEN <<>>
                      ELSE IF n \in I THEN Append(g[n - 1], s[n]) ELSE g[n - 1]
      OBVIOUS
    <3> HIDE DEF g, h
    <3>2. CASE n = 0
      BY <1>5, <2>4, <2>5, <3>1, <3>2
    <3>3. CASE n = m
      BY <1>5, <2>5, <2>7, <3>1, <3>3 DEF last
    <3>4. CASE n # 0 /\ n # m
      BY <2>4, <2>5, <2>6, <2>7, <3>1, <3>4
    <3>5. QED
      BY <3>2, <3>3, <3>4
  <2>9. g = h
    BY <2>8
  <2>10. Fills(g, s, I, m)
    BY <2>9 DEF Fills
  <2>11. QED
    BY <1>3, <2>10
<1>6. QED
  BY <1>4, <1>5

\* What is picked from the first k elements depends on nothing else: else take the
\* least place at which the two differ.
LEMMA FillsAgree ==
  ASSUME NEW s, NEW I, NEW k \in Nat, NEW f, Fills(f, s, I, k),
         NEW t, NEW J, NEW l \in Nat, NEW g, Fills(g, t, J, l), k <= l,
         \A n \in 1..k : s[n] = t[n] /\ (n \in I <=> n \in J)
  PROVE  \A n \in 0..k : f[n] = g[n]
<1> DEFINE T == {m \in 0..k : f[m] # g[m]}
<1>1. SUFFICES ASSUME T # {} PROVE FALSE
  OBVIOUS
<1>2. T \subseteq Nat
  OBVIOUS
<1>3. PICK m \in T : \A j \in T : m <= j
  BY <1>1, <1>2, LeastNat
<1>4. m \in 0..k /\ f[m] # g[m]
  OBVIOUS
<1>5. /\ f[0] = <<>>
      /\ \A n \in 1..k : f[n] = IF n \in I THEN Append(f[n - 1], s[n]) ELSE f[n - 1]
  BY FillsAt
<1>6. /\ g[0] = <<>>
      /\ \A n \in 1..l : g[n] = IF n \in J THEN Append(g[n - 1], t[n]) ELSE g[n - 1]
  BY FillsAt
<1>7. m \in 1..k /\ m \in 1..l /\ m - 1 \in 0..k /\ ~(m <= m - 1)
  <2>1. m # 0
    BY <1>4, <1>5, <1>6
  <2>2. QED
    BY <1>4, <2>1
<1>8. f[m - 1] = g[m - 1]
  BY <1>3, <1>7
<1>9. QED
  BY <1>4, <1>5, <1>6, <1>7, <1>8

LEMMA PickedFill ==
  ASSUME NEW S, NEW s \in Seq(S), NEW I
  PROVE  \E f : Fills(f, s, I, Len(s)) /\ Picked(s, I) = f[Len(s)]
<1>1. Len(s) \in Nat
  OBVIOUS
<1>2. PICK g : Fills(g, s, I, Len(s))
  BY <1>1, FillsExist
<1>3. QED
  BY <1>2, PickedIs

\* Only the places in the sequence matter.
LEMMA PickedSame ==
  ASSUME NEW S, NEW s \in Seq(S), NEW I, NEW J, \A n \in DOMAIN s : n \in I <=> n \in J
  PROVE  Picked(s, I) = Picked(s, J)
<1>1. Len(s) \in Nat /\ DOMAIN s = 1..Len(s)
  OBVIOUS
<1>2. PICK f : Fills(f, s, I, Len(s)) /\ Picked(s, I) = f[Len(s)]
  BY PickedFill
<1>3. PICK g : Fills(g, s, J, Len(s)) /\ Picked(s, J) = g[Len(s)]
  BY PickedFill
<1> DEFINE k == Len(s)
<1>10. PICK t : t = s
  OBVIOUS
<1>4. k \in Nat /\ k <= k /\ \A n \in 1..k : s[n] = t[n] /\ (n \in I <=> n \in J)
  BY <1>1, <1>10
<1>5. Fills(f, s, I, k)
  BY <1>2
<1>6. Fills(g, t, J, k)
  BY <1>3, <1>10
<1> HIDE DEF k
<1>7. \A n \in 0..k : f[n] = g[n]
  BY <1>4, <1>5, <1>6, FillsAgree
<1>8. k \in 0..k
  BY <1>4
<1>9. QED
  BY <1>2, <1>3, <1>7, <1>8 DEF k

\* One more element is picked, or passed over.
LEMMA PickedAppend ==
  ASSUME NEW S, NEW s \in Seq(S), NEW x \in S, NEW I
  PROVE  Picked(Append(s, x), I) = IF Len(s) + 1 \in I THEN Append(Picked(s, I), x) ELSE Picked(s, I)
<1> DEFINE t == Append(s, x)
           k == Len(s)
<1>1. /\ k \in Nat /\ t \in Seq(S) /\ Len(t) = k + 1 /\ t[k + 1] = x
      /\ \A n \in 1..k : s[n] = t[n]
  OBVIOUS
<1>2. PICK f : Fills(f, s, I, k) /\ Picked(s, I) = f[k]
  BY PickedFill
<1> HIDE DEF t
<1>3. PICK g : Fills(g, t, I, Len(t)) /\ Picked(t, I) = g[Len(t)]
  BY <1>1, PickedFill
<1> HIDE DEF k
<1>4. k + 1 \in Nat /\ k <= k + 1 /\ k + 1 \in 1..(k + 1) /\ k + 1 - 1 = k /\ k \in 0..k
  BY <1>1
<1>5. Fills(g, t, I, k + 1) /\ Picked(t, I) = g[k + 1]
  BY <1>1, <1>3
<1>6. \A n \in 0..k : f[n] = g[n]
  <2>1. Fills(f, s, I, k)
    BY <1>2
  <2>2. Fills(g, t, I, k + 1)
    BY <1>5
  <2>3. \A n \in 1..k : s[n] = t[n] /\ (n \in I <=> n \in I)
    BY <1>1
  <2>4. QED
    BY <1>1, <1>4, <2>1, <2>2, <2>3, FillsAgree
<1>7. f[k] = g[k]
  BY <1>4, <1>6
<1>8. \A n \in 1..(k + 1) : g[n] = IF n \in I THEN Append(g[n - 1], t[n]) ELSE g[n - 1]
  BY <1>4, <1>5, FillsAt
<1>9. g[k + 1] = IF k + 1 \in I THEN Append(g[k], x) ELSE g[k]
  BY <1>1, <1>4, <1>8
<1>10. QED
  BY <1>2, <1>5, <1>7, <1>9 DEF t, k

\* What is picked is a sequence of the same elements: else take the least place at which it is not.
LEMMA FillsType ==
  ASSUME NEW s, NEW I, NEW k \in Nat, NEW f, Fills(f, s, I, k), NEW S, \A n \in 1..k : s[n] \in S
  PROVE  \A n \in 0..k : f[n] \in Seq(S)
<1>1. /\ f[0] = <<>>
      /\ \A n \in 1..k : f[n] = IF n \in I THEN Append(f[n - 1], s[n]) ELSE f[n - 1]
  BY FillsAt
<1> DEFINE T == {m \in 0..k : f[m] \notin Seq(S)}
<1>2. SUFFICES ASSUME T # {} PROVE FALSE
  OBVIOUS
<1>3. T \subseteq Nat
  OBVIOUS
<1>4. PICK m \in T : \A j \in T : m <= j
  BY <1>2, <1>3, LeastNat
<1>5. m \in 0..k /\ f[m] \notin Seq(S)
  OBVIOUS
<1>6. m # 0
  BY <1>1, <1>5, Empty
<1>7. m \in 1..k /\ m - 1 \in 0..k /\ ~(m <= m - 1)
  BY <1>5, <1>6
<1>8. f[m - 1] \in Seq(S) /\ s[m] \in S
  BY <1>4, <1>7
<1>9. Append(f[m - 1], s[m]) \in Seq(S)
  BY <1>8
<1>10. QED
  BY <1>1, <1>5, <1>7, <1>8, <1>9

LEMMA PickedType ==
  ASSUME NEW S, NEW s \in Seq(S), NEW I
  PROVE  Picked(s, I) \in Seq(S)
<1> DEFINE k == Len(s)
<1>1. k \in Nat /\ k \in 0..k /\ \A n \in 1..k : s[n] \in S
  OBVIOUS
<1>2. PICK f : Fills(f, s, I, k) /\ Picked(s, I) = f[k]
  BY PickedFill
<1>3. Fills(f, s, I, k)
  BY <1>2
<1> HIDE DEF k
<1>4. \A n \in 0..k : f[n] \in Seq(S)
  BY <1>1, <1>3, FillsType
<1>5. QED
  BY <1>1, <1>2, <1>4

-----------------------------------------------------------------------------
(* The bubbles                                                             *)

\* The bubble of message n.
BubbleOf(n, m) == [role |-> m.role, text |-> Whole(n, m.parts)]
\* One for each, and which of them Bubbles has.
BubbleEach(ms) == [n \in DOMAIN ms |-> BubbleOf(n, ms[n])]
Texted(ms) == {n \in DOMAIN ms : ms[n].parts # 0}

LEMMA BubblesAre ==
  ASSUME NEW ms
  PROVE  Bubbles(ms) = Picked(BubbleEach(ms), Texted(ms))
BY DEF Bubbles, BubbleEach, BubbleOf, Texted

LEMMA BubbleType ==
  ASSUME NEW n \in Number, NEW m \in Message
  PROVE  BubbleOf(n, m) \in Bubble
<1>1. m.role \in Role /\ m.parts \in 0..MaxParts
  BY DEF Message
<1>2. Whole(n, m.parts) \in Text
  BY <1>1, WholeType
<1>3. QED
  BY <1>1, <1>2 DEF BubbleOf, Bubble

LEMMA BubbleEachType ==
  ASSUME NEW h \in Seq(Message), Len(h) <= MaxMessages
  PROVE  /\ BubbleEach(h) \in Seq(Bubble) /\ Len(BubbleEach(h)) = Len(h)
         /\ \A n \in 1..Len(h) : BubbleEach(h)[n] = BubbleOf(n, h[n])
<1>1. Len(h) \in Nat /\ DOMAIN h = 1..Len(h) /\ \A n \in 1..Len(h) : h[n] \in Message
  OBVIOUS
<1>2. \A n \in 1..Len(h) : n \in Number
  BY <1>1, Bounds DEF Number
<1> DEFINE b == BubbleEach(h)
<1>3. DOMAIN b = 1..Len(h) /\ \A n \in 1..Len(h) : b[n] = BubbleOf(n, h[n])
  BY <1>1 DEF BubbleEach
<1>4. \A n \in 1..Len(h) : b[n] \in Bubble
  BY <1>1, <1>2, <1>3, BubbleType
<1>5. b \in [1..Len(h) -> Bubble]
  BY <1>1, <1>3, <1>4 DEF BubbleEach
<1> HIDE DEF b
<1>6. b \in Seq(Bubble) /\ Len(b) = Len(h)
  BY <1>1, <1>5
<1>7. QED
  BY <1>3, <1>6 DEF b

LEMMA BubbleEachAppend ==
  ASSUME NEW h \in Seq(Message), NEW m \in Message, Len(h) < MaxMessages
  PROVE  BubbleEach(Append(h, m)) = Append(BubbleEach(h), BubbleOf(Len(h) + 1, m))
<1> DEFINE g == Append(h, m)
           b == BubbleEach(h)
           c == BubbleEach(g)
           x == BubbleOf(Len(h) + 1, m)
           k == Len(h)
<1>1. /\ k \in Nat /\ g \in Seq(Message) /\ Len(g) = k + 1 /\ g[k + 1] = m
      /\ \A n \in 1..k : g[n] = h[n]
  OBVIOUS
<1>2. k <= MaxMessages /\ k + 1 <= MaxMessages /\ k + 1 \in Number
  BY <1>1, Bounds DEF Number
<1> HIDE DEF g
<1>3. /\ b \in Seq(Bubble) /\ Len(b) = k
      /\ \A n \in 1..k : b[n] = BubbleOf(n, h[n])
  BY <1>2, BubbleEachType
<1>4. /\ c \in Seq(Bubble) /\ Len(c) = k + 1
      /\ \A n \in 1..(k + 1) : c[n] = BubbleOf(n, g[n])
  BY <1>1, <1>2, BubbleEachType
<1>5. x \in Bubble
  BY <1>2, BubbleType
<1> HIDE DEF b, c
<1>6. c[k + 1] = x
  BY <1>1, <1>4
<1>10. \A n \in 1..k : c[n] = b[n]
  BY <1>1, <1>3, <1>4
<1> HIDE DEF x, k
<1>7. /\ Append(b, x) \in Seq(Bubble) /\ Len(Append(b, x)) = k + 1
      /\ Append(b, x)[k + 1] = x /\ \A n \in 1..k : Append(b, x)[n] = b[n]
  BY <1>1, <1>3, <1>5
<1>8. \A n \in 1..(k + 1) : c[n] = Append(b, x)[n]
  BY <1>1, <1>6, <1>7, <1>10
<1>9. c = Append(b, x)
  BY <1>4, <1>7, <1>8, SeqEqual
<1>11. QED
  BY <1>9 DEF b, c, x, g, k

LEMMA BubblesType ==
  ASSUME NEW h \in Seq(Message), Len(h) <= MaxMessages
  PROVE  Bubbles(h) \in Seq(Bubble)
BY BubblesAre, BubbleEachType, PickedType

\* One more message is one more bubble, if it has a text.
LEMMA BubblesAppend ==
  ASSUME NEW h \in Seq(Message), NEW m \in Message, Len(h) < MaxMessages
  PROVE  Bubbles(Append(h, m)) = IF m.parts = 0 THEN Bubbles(h)
                                 ELSE Append(Bubbles(h), BubbleOf(Len(h) + 1, m))
<1> DEFINE g == Append(h, m)
           b == BubbleEach(h)
           x == BubbleOf(Len(h) + 1, m)
           k == Len(h)
<1>1. /\ k \in Nat /\ k < MaxMessages /\ k <= MaxMessages /\ k + 1 \in Number
      /\ DOMAIN h = 1..k /\ DOMAIN g = 1..(k + 1)
      /\ g[k + 1] = m /\ \A n \in 1..k : g[n] = h[n]
  BY Bounds DEF Number
<1>2. b \in Seq(Bubble) /\ Len(b) = k
  BY <1>1, BubbleEachType
<1>3. x \in Bubble
  BY <1>1, BubbleType
<1>4. BubbleEach(g) = Append(b, x)
  BY <1>1, BubbleEachAppend
<1> HIDE DEF g, b, x
<1>5. (k + 1 \in Texted(g)) <=> m.parts # 0
  BY <1>1 DEF Texted
<1>6. \A n \in DOMAIN b : (n \in Texted(h)) <=> (n \in Texted(g))
  BY <1>1, <1>2 DEF Texted
<1> HIDE DEF k
<1>7. Picked(Append(b, x), Texted(g)) =
        IF k + 1 \in Texted(g) THEN Append(Picked(b, Texted(g)), x) ELSE Picked(b, Texted(g))
  BY <1>2, <1>3, PickedAppend
<1>8. Picked(b, Texted(h)) = Picked(b, Texted(g))
  BY <1>2, <1>6, PickedSame
<1>9. Bubbles(g) = Picked(Append(b, x), Texted(g)) /\ Bubbles(h) = Picked(b, Texted(h))
  BY <1>4, BubblesAre DEF b
<1>10. QED
  BY <1>5, <1>7, <1>8, <1>9 DEF g, x, k

\* The bubbles of s but those of message t.
Without(s, t) == Picked(s, {k \in DOMAIN s : s[k].text[1][1] # t})

\* One more bubble stays, unless it is of message t.
LEMMA WithoutAppend ==
  ASSUME NEW s \in Seq(Bubble), NEW b \in Bubble, NEW t
  PROVE  Without(Append(s, b), t) = IF b.text[1][1] = t THEN Without(s, t)
                                    ELSE Append(Without(s, t), b)
<1> DEFINE a == Append(s, b)
           k == Len(s)
           Kept(q) == {n \in DOMAIN q : q[n].text[1][1] # t}
<1>1. /\ k \in Nat /\ DOMAIN s = 1..k /\ DOMAIN a = 1..(k + 1)
      /\ a[k + 1] = b /\ \A n \in 1..k : a[n] = s[n]
  OBVIOUS
<1> HIDE DEF a, k
<1>2. (k + 1 \in Kept(a)) <=> b.text[1][1] # t
  BY <1>1
<1>3. \A n \in DOMAIN s : (n \in Kept(s)) <=> (n \in Kept(a))
  BY <1>1
<1>4. Without(s, t) = Picked(s, Kept(s)) /\ Without(a, t) = Picked(a, Kept(a))
  BY DEF Without
<1> HIDE DEF Kept
<1>5. Picked(s, Kept(s)) = Picked(s, Kept(a))
  BY <1>3, PickedSame
<1>6. Picked(a, Kept(a)) = IF k + 1 \in Kept(a) THEN Append(Picked(s, Kept(a)), b)
                           ELSE Picked(s, Kept(a))
  BY PickedAppend DEF a, k
<1>7. QED
  BY <1>2, <1>4, <1>5, <1>6 DEF a

LEMMA UntornIs ==
  ASSUME NEW s
  PROVE  Untorn(s) = Without(s, torn)
BY DEF Untorn, Without

\* The first part of a text is of its message.
LEMMA WholeFirst ==
  ASSUME NEW n, NEW k \in Nat \ {0}
  PROVE  Whole(n, k) # <<>> /\ Whole(n, k)[1][1] = n
<1>1. 1 \in 1..k
  OBVIOUS
<1>2. Whole(n, k)[1] = <<n, 1>> /\ DOMAIN Whole(n, k) = 1..k
  BY <1>1 DEF Whole
<1>3. DOMAIN <<>> = 1..0
  OBVIOUS
<1>4. QED
  BY <1>1, <1>2, <1>3

\* A text with its next part.
LEMMA WholeNext ==
  ASSUME NEW n \in Number, NEW k \in 0..MaxParts, k < MaxParts
  PROVE  Append(Whole(n, k), <<n, k + 1>>) = Whole(n, k + 1)
<1> DEFINE s == Whole(n, k)
           t == Whole(n, k + 1)
           x == <<n, k + 1>>
           U == Number \X (1..MaxParts)
<1>1. k + 1 \in 0..MaxParts /\ k + 1 \in 1..MaxParts /\ k \in Nat
  BY Bounds
<1>2. /\ s \in Seq(U) /\ t \in Seq(U) /\ x \in U
  BY <1>1, WholeType DEF Text
<1>3. /\ Len(s) = k /\ Len(t) = k + 1
      /\ \A p \in 1..k : s[p] = <<n, p>>
      /\ \A p \in 1..(k + 1) : t[p] = <<n, p>>
  BY <1>1 DEF Whole
<1> HIDE DEF s, t, U
<1>4. /\ Append(s, x) \in Seq(U) /\ Len(Append(s, x)) = k + 1
      /\ Append(s, x)[k + 1] = x /\ \A p \in 1..k : Append(s, x)[p] = s[p]
  BY <1>2, <1>3
<1>5. ASSUME NEW p \in 1..(k + 1) PROVE Append(s, x)[p] = t[p]
  <2>1. CASE p = k + 1
    BY <1>3, <1>4, <2>1
  <2>2. CASE p # k + 1
    <3>1. p \in 1..k
      BY <1>1, <2>2
    <3>2. QED
      BY <1>3, <1>4, <3>1
  <2>3. QED
    BY <2>1, <2>2
<1>6. QED
  BY <1>2, <1>3, <1>4, <1>5, SeqEqual DEF s, t

-----------------------------------------------------------------------------
(* The transcript: the invariant                                           *)

\* A state of the session: what it has finished and what it is writing.
Snapshot == {s \in [h : Seq(Message), l : Message \cup {None}] :
               /\ Len(s.h) <= MaxMessages
               /\ s.l # None => Len(s.h) < MaxMessages}
Now == [h |-> history, l |-> live]

\* Frame f takes the session from c to d, or says how it was.
Then(c, f, d) ==
  /\ f.type = "message_start" =>
       /\ c.l = None /\ f.n = Len(c.h) + 1 /\ d.h = c.h
       /\ d.l = [role |-> f.role, parts |-> IF f.role = "user" THEN 1 ELSE 0]
  /\ f.type = "message_update" =>
       /\ c.l # None /\ c.l.role = "assistant" /\ f.n = Len(c.h) + 1 /\ f.part = c.l.parts + 1
       /\ d.h = c.h /\ d.l = [c.l EXCEPT !.parts = @ + 1]
  /\ f.type = "message_end" =>
       /\ c.l # None /\ f.role = c.l.role /\ f.text = Whole(Len(c.h) + 1, c.l.parts)
       /\ d.h = Append(c.h, c.l) /\ d.l = None
  /\ f.type = "get_messages" =>
       f.messages = c.h /\ f.torn = IF c.l = None THEN 0 ELSE Len(c.h) + 1
  /\ f.type = "get_state" /\ c.l # None => f.isStreaming
  /\ f.type = "agent_settled" => c.l = None
  /\ f.type \notin {"message_start", "message_update", "message_end"} => d = c

\* past is what the session was before each frame on the wire, and what it is.
Behind(past) ==
  /\ past \in Seq(Snapshot) /\ Len(past) = Len(wire) + 1 /\ past[Len(past)] = Now
  /\ \A k \in DOMAIN wire : Then(past[k], wire[k], past[k + 1])

\* The bubbles s are those of the messages h, but for the torn one.
Shows(s, h) == Without(s, torn) = Without(Bubbles(h), torn)

\* Message n has come as far as parts after the messages h: it has no bubble yet, or
\* one that a redraw took out of the document, or the last bubble, which has its text
\* or is the torn one's.
Writes(n, parts, h) ==
  \/ /\ current = None /\ (torn = n \/ parts = 0)
     /\ Shows(transcript, h)
  \/ current = Detached /\ torn = n /\ Shows(transcript, h)
  \/ \E rest \in Seq(Bubble) :
       /\ transcript = Append(rest, [role |-> "assistant", text |-> markdown])
       /\ current = Len(transcript)
       /\ Shows(rest, h)
       /\ markdown # <<>> /\ markdown[1][1] = n
       /\ torn = n \/ markdown = Whole(n, parts)

\* What the page shows when it has read as far as the session was at s.
Page(s) ==
  /\ s.l = None => Shows(transcript, s.h)
  /\ s.l # None /\ s.l.role = "user" => Shows(transcript, Append(s.h, s.l))
  /\ s.l # None /\ s.l.role = "assistant" => Writes(Len(s.h) + 1, s.l.parts, s.h)

\* The page's own get_messages was answered, and that redraw and every other is read.
Fresh ==
  /\ socket = "open" /\ asks # <<"get_messages", "get_state">>
  /\ \A k \in DOMAIN wire : wire[k].type # "get_messages"

\* The rest of the types, and what goes with them.
Texts ==
  /\ Len(history) <= MaxMessages
  /\ transcript \in Seq(Bubble) /\ current \in DOMAIN transcript \cup {None, Detached}
  /\ markdown \in Text /\ cards \subseteq Tool /\ torn \in 0..MaxMessages
  /\ losses \in 0..MaxLosses /\ others \in 0..MaxOthers
  /\ live # None => running
  /\ ~hears => wire = <<>>
  /\ current = None => markdown = <<>>
  /\ socket = "left" => current = None

LEMMA SnapshotIs ==
  ASSUME NEW c \in Snapshot
  PROVE  /\ c.h \in Seq(Message) /\ Len(c.h) \in Nat /\ Len(c.h) <= MaxMessages
         /\ c.l # None => /\ c.l \in Message /\ c.l.role \in Role /\ c.l.parts \in 0..MaxParts
                          /\ Len(c.h) < MaxMessages /\ Len(c.h) + 1 \in Number
<1>1. c.h \in Seq(Message) /\ Len(c.h) \in Nat /\ Len(c.h) <= MaxMessages
  BY DEF Snapshot
<1>2. ASSUME c.l # None
      PROVE  c.l \in Message /\ Len(c.h) < MaxMessages
  BY <1>2 DEF Snapshot
<1>3. ASSUME c.l # None
      PROVE  c.l.role \in Role /\ c.l.parts \in 0..MaxParts /\ Len(c.h) + 1 \in Number
  BY <1>1, <1>2, <1>3, Bounds DEF Message, Number
<1>4. QED
  BY <1>1, <1>2, <1>3

\* What becomes of the bubbles when the message being written has ended.
LEMMA Written ==
  ASSUME NEW c \in Snapshot, c.l # None, NEW s \in Seq(Bubble), NEW t,
         Without(s, t) = Without(Bubbles(c.h), t)
  PROVE  /\ t = Len(c.h) + 1 \/ c.l.parts = 0 =>
              Without(s, t) = Without(Bubbles(Append(c.h, c.l)), t)
         /\ c.l.parts # 0 =>
              Without(Append(s, BubbleOf(Len(c.h) + 1, c.l)), t)
                = Without(Bubbles(Append(c.h, c.l)), t)
<1> DEFINE n == Len(c.h) + 1
           b == BubbleOf(n, c.l)
           p == Bubbles(c.h)
           q == Bubbles(Append(c.h, c.l))
<1>1. /\ c.h \in Seq(Message) /\ Len(c.h) <= MaxMessages
      /\ c.l \in Message /\ Len(c.h) < MaxMessages /\ n \in Number /\ c.l.parts \in 0..MaxParts
  BY SnapshotIs
<1>2. b \in Bubble /\ p \in Seq(Bubble)
  BY <1>1, BubbleType, BubblesType
<1>3. q = IF c.l.parts = 0 THEN p ELSE Append(p, b)
  BY <1>1, BubblesAppend
<1>4. c.l.parts # 0 => b.text[1][1] = n
  <2>1. c.l.parts # 0 => c.l.parts \in Nat \ {0}
    BY <1>1, Bounds
  <2>2. b.text = Whole(n, c.l.parts)
    BY DEF BubbleOf
  <2>3. QED
    BY <2>1, <2>2, WholeFirst
<1> HIDE DEF n, b, p, q
<1>5. /\ Without(Append(s, b), t) = IF b.text[1][1] = t THEN Without(s, t)
                                    ELSE Append(Without(s, t), b)
      /\ Without(Append(p, b), t) = IF b.text[1][1] = t THEN Without(p, t)
                                    ELSE Append(Without(p, t), b)
  BY <1>2, WithoutAppend
<1>6. Without(s, t) = Without(p, t)
  BY DEF p
<1>7. t = n \/ c.l.parts = 0 => Without(s, t) = Without(q, t)
  BY <1>3, <1>4, <1>5, <1>6
<1>8. c.l.parts # 0 => Without(Append(s, b), t) = Without(q, t)
  BY <1>3, <1>5, <1>6
<1>9. QED
  BY <1>7, <1>8 DEF n, b, q

\* Another text for the last bubble.
LEMMA LastRewritten ==
  ASSUME NEW rest \in Seq(Bubble), NEW old \in Text, NEW new \in Text
  PROVE  [Append(rest, [role |-> "assistant", text |-> old]) EXCEPT ![Len(rest) + 1].text = new]
           = Append(rest, [role |-> "assistant", text |-> new])
<1> DEFINE a == [role |-> "assistant", text |-> old]
           b == [role |-> "assistant", text |-> new]
           k == Len(rest)
           s == Append(rest, a)
           t == Append(rest, b)
           r == [s EXCEPT ![k + 1] = b]
<1>1. a \in Bubble /\ b \in Bubble /\ [a EXCEPT !.text = new] = b
  BY DEF Bubble, Role
<1> HIDE DEF a, b
<1>2. /\ k \in Nat /\ s \in Seq(Bubble) /\ Len(s) = k + 1 /\ s[k + 1] = a /\ DOMAIN s = 1..(k + 1)
      /\ \A n \in 1..k : s[n] = rest[n]
      /\ t \in Seq(Bubble) /\ Len(t) = k + 1 /\ t[k + 1] = b /\ \A n \in 1..k : t[n] = rest[n]
  BY <1>1
<1>3. k + 1 \in 1..Len(s)
  BY <1>2
<1> HIDE DEF s, t
<1>4. [s EXCEPT ![k + 1].text = new] = r
  BY <1>1, <1>2
<1>5. /\ r \in Seq(Bubble) /\ Len(r) = Len(s)
      /\ \A j \in 1..Len(s) : r[j] = IF j = k + 1 THEN b ELSE s[j]
  BY <1>1, <1>2, <1>3, ExceptSeq
<1> HIDE DEF r, k
<1>6. ASSUME NEW j \in 1..(k + 1) PROVE r[j] = t[j]
  <2>1. CASE j = k + 1
    BY <1>2, <1>5, <2>1
  <2>2. CASE j # k + 1
    <3>1. j \in 1..k
      BY <1>2, <2>2
    <3>2. QED
      BY <1>2, <1>5, <2>2, <3>1
  <2>3. QED
    BY <2>1, <2>2
<1>7. r = t
  BY <1>2, <1>5, <1>6, SeqEqual
<1>8. QED
  BY <1>4, <1>7 DEF s, t, k, a, b

\* Write, by where the bubble is.
LEMMA WriteIs ==
  ASSUME Texts, NEW text \in Text, Write(text)
  PROVE  /\ markdown' = text
         /\ current = None => /\ transcript' = Append(transcript, [role |-> "assistant", text |-> text])
                              /\ current' = Len(transcript) + 1
         /\ current = Detached => UNCHANGED <<transcript, current>>
         /\ current \in DOMAIN transcript =>
              transcript' = [transcript EXCEPT ![current].text = text] /\ UNCHANGED current
         /\ current \in DOMAIN transcript => current \in Nat
         /\ transcript' \in Seq(Bubble) /\ markdown' \in Text
         /\ current' \in DOMAIN transcript' \cup {None, Detached} /\ current' # None
<1> DEFINE b == [role |-> "assistant", text |-> text]
<1>1. /\ None # Detached /\ None \notin Nat /\ Detached \notin Nat
      /\ transcript \in Seq(Bubble) /\ current \in DOMAIN transcript \cup {None, Detached}
  BY ElementAssumption DEF Texts
<1>2. /\ DOMAIN transcript = 1..Len(transcript) /\ Len(transcript) \in Nat
      /\ current \in DOMAIN transcript => /\ current \in Nat /\ current # None /\ current # Detached
                                          /\ transcript[current] \in Bubble
  BY <1>1
<1>3. b \in Bubble
  BY DEF Bubble, Role
<1>4. markdown' = text
  BY DEF Write
<1>5. ASSUME current = None
      PROVE  /\ transcript' = Append(transcript, b) /\ current' = Len(transcript) + 1
             /\ transcript' \in Seq(Bubble) /\ current' \in DOMAIN transcript' /\ current' # None
  <2>1. transcript' = Append(transcript, b) /\ current' = Len(transcript) + 1
    BY <1>1, <1>5 DEF Write
  <2> HIDE DEF b
  <2>2. QED
    BY <1>1, <1>2, <1>3, <2>1
<1>6. ASSUME current = Detached
      PROVE  UNCHANGED <<transcript, current>> /\ transcript' \in Seq(Bubble)
  BY <1>1, <1>6 DEF Write
<1>7. ASSUME current \in DOMAIN transcript
      PROVE  /\ transcript' = [transcript EXCEPT ![current].text = text] /\ UNCHANGED current
             /\ transcript' \in Seq(Bubble) /\ current' \in DOMAIN transcript' /\ current' # None
  <2>1. transcript' = [transcript EXCEPT ![current].text = text] /\ UNCHANGED current
    BY <1>1, <1>2, <1>7 DEF Write
  <2> DEFINE x == [transcript[current] EXCEPT !.text = text]
  <2>2. x \in Bubble
    BY <1>2, <1>7 DEF Bubble
  <2>3. transcript' = [transcript EXCEPT ![current] = x]
    BY <1>1, <1>7, <2>1
  <2> HIDE DEF x
  <2>4. transcript' \in Seq(Bubble) /\ Len(transcript') = Len(transcript)
    BY <1>1, <1>2, <1>7, <2>2, <2>3, ExceptSeq
  <2>5. QED
    BY <1>1, <1>2, <1>7, <2>1, <2>4
<1>8. QED
  <2>1. CASE current = None
    BY <1>1, <1>2, <1>4, <1>5, <2>1
  <2>2. CASE current = Detached
    BY <1>1, <1>2, <1>4, <1>6, <2>2
  <2>3. CASE current \in DOMAIN transcript
    BY <1>1, <1>2, <1>4, <1>7, <2>3
  <2>4. QED
    BY <1>1, <2>1, <2>2, <2>3

-----------------------------------------------------------------------------
(* What the page shows, frame by frame                                     *)

\* Nothing changes, or the bubble is forgotten when no message is being written.
LEMMA PageKept ==
  ASSUME NEW c \in Snapshot, Page(c), UNCHANGED <<transcript, torn>>,
         c.l # None => UNCHANGED <<current, markdown>>
  PROVE  Page(c)'
<1>1. c.l = None => Shows(transcript, c.h)'
  BY DEF Page, Shows
<1>2. c.l # None /\ c.l.role = "user" => Shows(transcript, Append(c.h, c.l))'
  BY DEF Page, Shows
<1>3. c.l # None /\ c.l.role = "assistant" => Writes(Len(c.h) + 1, c.l.parts, c.h)'
  BY DEF Page, Shows, Writes
<1>4. QED
  BY <1>1, <1>2, <1>3 DEF Page

\* Redraw
LEMMA PageRedrawn ==
  ASSUME Texts, NEW c \in Snapshot,
         transcript' = Bubbles(c.h), torn' = IF c.l = None THEN 0 ELSE Len(c.h) + 1,
         current' = IF current = None THEN None ELSE Detached, UNCHANGED markdown
  PROVE  Page(c)'
<1>1. Without(transcript', torn') = Without(Bubbles(c.h), torn')
  OBVIOUS
<1>2. c.l = None => Shows(transcript, c.h)'
  BY <1>1 DEF Shows
<1>3. ASSUME c.l # None PROVE Shows(transcript, Append(c.h, c.l))'
  <2>1. Bubbles(c.h) \in Seq(Bubble)
    BY SnapshotIs, BubblesType
  <2>2. torn' = Len(c.h) + 1
    BY <1>3
  <2>3. Without(Bubbles(c.h), torn') = Without(Bubbles(Append(c.h, c.l)), torn')
    BY <1>3, <2>1, <2>2, Written
  <2>4. QED
    BY <2>3 DEF Shows
<1>4. ASSUME c.l # None PROVE Writes(Len(c.h) + 1, c.l.parts, c.h)'
  <2>1. torn' = Len(c.h) + 1 /\ current' \in {None, Detached} /\ Shows(transcript, c.h)'
    BY <1>1, <1>4 DEF Shows
  <2>2. QED
    BY <2>1 DEF Writes
<1>5. QED
  BY <1>2, <1>3, <1>4 DEF Page

\* OnMessageStart, of the user
LEMMA PageOfUser ==
  ASSUME Texts, NEW c \in Snapshot, NEW d \in Snapshot, NEW f, Then(c, f, d), Page(c),
         f.type = "message_start", f.role = "user",
         transcript' = Append(transcript, [role |-> "user", text |-> Whole(f.n, 1)]), UNCHANGED torn
  PROVE  Page(d)'
<1>1. /\ c.l = None /\ f.n = Len(c.h) + 1 /\ d.h = c.h
      /\ d.l = [role |-> "user", parts |-> 1]
  BY DEF Then
<1>2. d.l # None
  <2>1. [role |-> "user", parts |-> 1] \in Message
    BY Bounds DEF Message, Role
  <2>2. QED
    BY <1>1, <2>1, NullAssumption
<1>3. Without(transcript, torn) = Without(Bubbles(d.h), torn)
  BY <1>1 DEF Page, Shows
<1>4. d.l.parts # 0 /\ d.l.role = "user"
      /\ BubbleOf(Len(d.h) + 1, d.l) = [role |-> "user", text |-> Whole(f.n, 1)]
  BY <1>1 DEF BubbleOf
<1>5. transcript \in Seq(Bubble)
  BY DEF Texts
<1>6. Without(Append(transcript, BubbleOf(Len(d.h) + 1, d.l)), torn)
        = Without(Bubbles(Append(d.h, d.l)), torn)
  BY <1>2, <1>3, <1>4, <1>5, Written
<1>7. Shows(transcript, Append(d.h, d.l))'
  BY <1>4, <1>6 DEF Shows
<1>8. QED
  BY <1>2, <1>4, <1>7 DEF Page

\* OnMessageStart, of the assistant
LEMMA PageOfAssistant ==
  ASSUME NEW c \in Snapshot, NEW d \in Snapshot, NEW f, Then(c, f, d), Page(c),
         f.type = "message_start", f.role # "user",
         current' = None, markdown' = <<>>, UNCHANGED <<transcript, torn>>
  PROVE  Page(d)'
<1>1. /\ c.l = None /\ d.h = c.h
      /\ d.l = [role |-> f.role, parts |-> 0]
  BY DEF Then
<1>2. d.l.parts = 0 /\ d.l.role = f.role
  BY <1>1
<1>3. Shows(transcript, d.h)'
  BY <1>1 DEF Page, Shows
<1>4. Writes(Len(d.h) + 1, d.l.parts, d.h)'
  BY <1>2, <1>3 DEF Writes
<1>5. QED
  BY <1>2, <1>3, <1>4 DEF Page

\* Where the bubble of the message being written is.
LEMMA WritesWhere ==
  ASSUME Texts, NEW n, NEW k, NEW h, Writes(n, k, h)
  PROVE  /\ current = None => (torn = n \/ k = 0) /\ Shows(transcript, h)
         /\ current = Detached => torn = n /\ Shows(transcript, h)
         /\ current # None /\ current # Detached =>
              \E rest \in Seq(Bubble) :
                /\ transcript = Append(rest, [role |-> "assistant", text |-> markdown])
                /\ current = Len(rest) + 1 /\ current = Len(transcript)
                /\ current \in DOMAIN transcript
                /\ Shows(rest, h)
                /\ markdown # <<>> /\ markdown[1][1] = n
                /\ torn = n \/ markdown = Whole(n, k)
<1>1. None # Detached /\ None \notin Nat /\ Detached \notin Nat
  BY ElementAssumption
<1>2. transcript \in Seq(Bubble) /\ markdown \in Text
  BY DEF Texts
<1>3. [role |-> "assistant", text |-> markdown] \in Bubble
  BY <1>2 DEF Bubble, Role
<1>4. ASSUME NEW rest \in Seq(Bubble), current = Len(transcript),
             transcript = Append(rest, [role |-> "assistant", text |-> markdown])
      PROVE  /\ current # None /\ current # Detached
             /\ current = Len(rest) + 1 /\ current \in DOMAIN transcript
  <2>1. current \in Nat
    BY <1>2, <1>4
  <2>2. PICK b \in Bubble : b = [role |-> "assistant", text |-> markdown]
    BY <1>3
  <2>3. current = Len(rest) + 1 /\ current \in DOMAIN transcript
    BY <1>4, <2>2
  <2>4. QED
    BY <1>1, <2>1, <2>3
<1>5. current = None => (torn = n \/ k = 0) /\ Shows(transcript, h)
  BY <1>1, <1>4 DEF Writes
<1>6. current = Detached => torn = n /\ Shows(transcript, h)
  BY <1>1, <1>4 DEF Writes
<1>7. ASSUME current # None, current # Detached
      PROVE  \E rest \in Seq(Bubble) :
                /\ transcript = Append(rest, [role |-> "assistant", text |-> markdown])
                /\ current = Len(rest) + 1 /\ current = Len(transcript)
                /\ current \in DOMAIN transcript
                /\ Shows(rest, h)
                /\ markdown # <<>> /\ markdown[1][1] = n
                /\ torn = n \/ markdown = Whole(n, k)
  <2>1. PICK rest \in Seq(Bubble) :
                /\ transcript = Append(rest, [role |-> "assistant", text |-> markdown])
                /\ current = Len(transcript)
                /\ Shows(rest, h)
                /\ markdown # <<>> /\ markdown[1][1] = n
                /\ torn = n \/ markdown = Whole(n, k)
    BY <1>7 DEF Writes
  <2>2. current = Len(rest) + 1 /\ current \in DOMAIN transcript
    BY <1>4, <2>1
  <2>3. QED
    BY <2>1, <2>2
<1>8. QED
  BY <1>5, <1>6, <1>7

\* OnDelta
LEMMA PageGrown ==
  ASSUME Texts, current = None => markdown = <<>>,
         NEW c \in Snapshot, NEW d \in Snapshot, NEW f \in Frame, Then(c, f, d), Page(c),
         f.type = "message_update",
         Write(Append(markdown, <<f.n, f.part>>)), UNCHANGED torn
  PROVE  Page(d)'
<1> DEFINE n == Len(c.h) + 1
           k == c.l.parts
           text == Append(markdown, <<f.n, f.part>>)
           b == [role |-> "assistant", text |-> text]
<1>1. /\ c.l # None /\ c.l.role = "assistant" /\ f.n = n /\ f.part = k + 1
      /\ d.h = c.h /\ d.l = [c.l EXCEPT !.parts = @ + 1]
  BY DEF Then
<1>2. /\ c.h \in Seq(Message) /\ Len(c.h) <= MaxMessages
      /\ c.l \in Message /\ k \in 0..MaxParts /\ n \in Number
  BY <1>1, SnapshotIs
<1>3. k + 1 \in 0..MaxParts /\ k + 1 \in 1..MaxParts /\ k < MaxParts
  <2>1. f.part \in 1..MaxParts
    BY DEF Frame, Event, Response
  <2>2. QED
    BY <1>1, <1>2, <2>1, Bounds
<1>4. d.l # None /\ d.l.role = "assistant" /\ d.l.parts = k + 1
  <2>1. d.l \in Message
    BY <1>1, <1>2, <1>3 DEF Message
  <2>2. QED
    BY <1>1, <1>2, <2>1, NullAssumption DEF Message
<1>5. /\ text \in Text /\ text # <<>>
      /\ markdown = <<>> => text[1][1] = n
      /\ markdown # <<>> => text[1] = markdown[1]
      /\ markdown = Whole(n, k) => text = Whole(n, k + 1)
  <2> DEFINE x == <<n, k + 1>>
  <2>1. x \in Number \X (1..MaxParts) /\ x[1] = n
    BY <1>2, <1>3
  <2>2. markdown \in Seq(Number \X (1..MaxParts)) /\ text = Append(markdown, x)
    BY <1>1 DEF Texts, Text
  <2>3. markdown = Whole(n, k) => text = Whole(n, k + 1)
    BY <1>2, <1>3, <2>2, WholeNext
  <2> HIDE DEF x, text
  <2>4. text \in Seq(Number \X (1..MaxParts)) /\ text # <<>>
    BY <2>1, <2>2
  <2>5. markdown = <<>> => text[1] = x
    BY <2>2
  <2>6. markdown # <<>> => text[1] = markdown[1]
    BY <2>2
  <2>7. QED
    BY <2>1, <2>3, <2>4, <2>5, <2>6 DEF Text
<1> HIDE DEF text
<1>6. /\ markdown' = text
      /\ current = None => /\ transcript' = Append(transcript, b)
                           /\ current' = Len(transcript) + 1
      /\ current = Detached => UNCHANGED <<transcript, current>>
      /\ current \in DOMAIN transcript =>
              transcript' = [transcript EXCEPT ![current].text = text] /\ UNCHANGED current
      /\ current \in DOMAIN transcript => current \in Nat
  BY <1>5, WriteIs DEF text
<1>7. Writes(n, k, c.h) /\ transcript \in Seq(Bubble) /\ markdown \in Text
  BY <1>1 DEF Page, Texts
<1>8. None # Detached /\ None \notin Nat /\ Detached \notin Nat
  BY ElementAssumption
<1> DEFINE Last(rest) == /\ transcript' = Append(rest, b)
                         /\ current' = Len(transcript')
                         /\ Without(rest, torn) = Without(Bubbles(c.h), torn)
                         /\ text[1][1] = n
                         /\ torn = n \/ text = Whole(n, k + 1)
<1>9. ASSUME NEW rest \in Seq(Bubble), Last(rest) PROVE Writes(n, k + 1, c.h)'
  <2>1. /\ transcript' = Append(rest, [role |-> "assistant", text |-> markdown'])
        /\ current' = Len(transcript') /\ Shows(rest, c.h)'
        /\ markdown' # <<>> /\ markdown'[1][1] = n
        /\ torn' = n \/ markdown' = Whole(n, k + 1)
    BY <1>5, <1>6, <1>9 DEF Shows
  <2>2. QED
    BY <2>1 DEF Writes
<1> HIDE DEF Last
<1>13. SUFFICES Writes(n, k + 1, c.h)'
  BY <1>1, <1>4 DEF Page
<1>10. CASE current = None
  <2>1. markdown = <<>> /\ (torn = n \/ k = 0) /\ Without(transcript, torn) = Without(Bubbles(c.h), torn)
    BY <1>7, <1>10, WritesWhere DEF Shows
  <2>2. /\ transcript' = Append(transcript, b) /\ current' = Len(transcript) + 1
    BY <1>6, <1>10
  <2>3. b \in Bubble
    BY <1>5 DEF Bubble, Role
  <2> HIDE DEF b
  <2>4. current' = Len(transcript')
    BY <1>7, <2>2, <2>3
  <2>5. k = 0 => markdown = Whole(n, k)
    <3>1. Whole(n, 0) = <<>>
      BY DEF Whole
    <3>2. QED
      BY <2>1, <3>1
  <2>6. Last(transcript)
    BY <1>5, <2>1, <2>2, <2>4, <2>5 DEF Last
  <2>7. QED
    BY <1>7, <1>9, <2>6
<1>11. CASE current = Detached
  <2>1. torn = n /\ Shows(transcript, c.h)
    BY <1>7, <1>11, WritesWhere
  <2>2. UNCHANGED <<transcript, current>>
    BY <1>6, <1>11
  <2>3. Shows(transcript, c.h)' /\ current' = Detached /\ torn' = n
    BY <1>11, <2>1, <2>2 DEF Shows
  <2>4. QED
    BY <2>3 DEF Writes
<1>12. CASE current # None /\ current # Detached
  <2>1. PICK rest \in Seq(Bubble) :
          /\ transcript = Append(rest, [role |-> "assistant", text |-> markdown])
          /\ current = Len(rest) + 1 /\ current \in DOMAIN transcript /\ Shows(rest, c.h)
          /\ markdown # <<>> /\ markdown[1][1] = n
          /\ torn = n \/ markdown = Whole(n, k)
    BY <1>7, <1>12, WritesWhere
  <2>3. transcript' = [transcript EXCEPT ![Len(rest) + 1].text = text] /\ UNCHANGED current
    BY <1>6, <2>1
  <2>4. transcript' = Append(rest, b)
    BY <1>5, <1>7, <2>1, <2>3, LastRewritten
  <2>5. b \in Bubble
    BY <1>5 DEF Bubble, Role
  <2> HIDE DEF b
  <2>6. current' = Len(transcript')
    BY <2>1, <2>3, <2>4, <2>5
  <2>7. Last(rest)
    BY <1>5, <2>1, <2>4, <2>6 DEF Shows, Last
  <2>8. QED
    BY <1>9, <2>7
<1>14. QED
  BY <1>10, <1>11, <1>12

\* OnMessageEnd
LEMMA PageEnded ==
  ASSUME Texts, NEW c \in Snapshot, NEW d \in Snapshot, NEW f \in Frame, Then(c, f, d), Page(c),
         f.type = "message_end",
         IF f.role = "assistant" /\ f.text # <<>> THEN Write(f.text) ELSE UNCHANGED textVars,
         UNCHANGED torn
  PROVE  Page(d)'
<1> DEFINE n == Len(c.h) + 1
           k == c.l.parts
           b == BubbleOf(n, c.l)
           q == Bubbles(Append(c.h, c.l))
<1>1. /\ c.l # None /\ f.role = c.l.role /\ f.text = Whole(n, k)
      /\ d.h = Append(c.h, c.l) /\ d.l = None
  BY DEF Then
<1>2. /\ c.h \in Seq(Message) /\ Len(c.h) <= MaxMessages
      /\ c.l \in Message /\ c.l.role \in Role /\ k \in 0..MaxParts /\ n \in Number
  BY <1>1, SnapshotIs
<1>3. k = 0 => f.text = <<>>
  <2>1. Whole(n, 0) = <<>>
    BY DEF Whole
  <2>2. QED
    BY <1>1, <2>1
<1>4. k # 0 => f.text # <<>> /\ f.text[1][1] = n
  <2>1. k # 0 => k \in Nat \ {0}
    BY <1>2, Bounds
  <2>2. QED
    BY <1>1, <2>1, WholeFirst
<1>5. f.text \in Text /\ transcript \in Seq(Bubble) /\ markdown \in Text
  BY <1>1, <1>2, WholeType DEF Texts
<1>6. \A s \in Seq(Bubble) :
        Without(s, torn) = Without(Bubbles(c.h), torn) =>
          /\ torn = n \/ k = 0 => Without(s, torn) = Without(q, torn)
          /\ k # 0 => Without(Append(s, b), torn) = Without(q, torn)
  BY <1>1, Written
<1>7. SUFFICES Without(transcript', torn) = Without(q, torn)
  BY <1>1 DEF Page, Shows
<1> HIDE DEF q
<1>8. CASE c.l.role = "user"
  BY <1>1, <1>8 DEF Page, Shows, textVars, q
<1>9. CASE c.l.role = "assistant"
  <2>1. Writes(n, k, c.h)
    BY <1>1, <1>9 DEF Page
  <2>2. k # 0 => b = [role |-> "assistant", text |-> f.text]
    BY <1>1, <1>9 DEF BubbleOf
  <2>3. k # 0 => Write(f.text)
    BY <1>1, <1>4, <1>9
  <2>4. k = 0 => UNCHANGED transcript
    BY <1>3 DEF textVars
  <2> HIDE DEF b
  <2>5. k # 0 =>
         /\ current = None => transcript' = Append(transcript, b)
         /\ current = Detached => UNCHANGED transcript
         /\ current \in DOMAIN transcript =>
              transcript' = [transcript EXCEPT ![current].text = f.text]
    BY <1>5, <2>2, <2>3, WriteIs
  <2> HIDE DEF n, k
  <2>6. CASE current = None
    <3>1. (torn = n \/ k = 0) /\ Without(transcript, torn) = Without(Bubbles(c.h), torn)
      BY <2>1, <2>6, WritesWhere DEF Shows
    <3>2. CASE k = 0
      BY <1>5, <1>6, <2>4, <3>1, <3>2
    <3>3. CASE k # 0
      <4>1. transcript' = Append(transcript, b)
        BY <2>5, <2>6, <3>3
      <4>2. QED
        BY <1>5, <1>6, <3>1, <3>3, <4>1
    <3>4. QED
      BY <3>2, <3>3
  <2>7. CASE current = Detached
    <3>1. torn = n /\ Without(transcript, torn) = Without(Bubbles(c.h), torn)
      BY <2>1, <2>7, WritesWhere DEF Shows
    <3>2. UNCHANGED transcript
      BY <2>4, <2>5, <2>7
    <3>3. QED
      BY <1>5, <1>6, <3>1, <3>2
  <2>8. CASE current # None /\ current # Detached
    <3>1. PICK rest \in Seq(Bubble) :
            /\ transcript = Append(rest, [role |-> "assistant", text |-> markdown])
            /\ current = Len(rest) + 1 /\ current \in DOMAIN transcript
            /\ Without(rest, torn) = Without(Bubbles(c.h), torn)
            /\ markdown # <<>> /\ markdown[1][1] = n
            /\ torn = n \/ markdown = Whole(n, k)
      BY <2>1, <2>8, WritesWhere DEF Shows
    <3>2. CASE k = 0
      <4>1. torn = n
        <5>1. Whole(n, 0) = <<>>
          BY DEF Whole
        <5>2. QED
          BY <3>1, <3>2, <5>1
      <4>2. PICK x \in Bubble : x = [role |-> "assistant", text |-> markdown]
        BY <1>5 DEF Bubble, Role
      <4>3. x.text[1][1] = torn
        BY <3>1, <4>1, <4>2
      <4>4. Without(transcript, torn) = Without(rest, torn)
        BY <3>1, <4>2, <4>3, WithoutAppend
      <4>5. QED
        BY <1>6, <2>4, <3>1, <3>2, <4>4
    <3>3. CASE k # 0
      <4>1. transcript' = [transcript EXCEPT ![Len(rest) + 1].text = f.text]
        BY <2>5, <3>1, <3>3
      <4>2. [Append(rest, [role |-> "assistant", text |-> markdown])
              EXCEPT ![Len(rest) + 1].text = f.text]
              = Append(rest, [role |-> "assistant", text |-> f.text])
        BY <1>5, LastRewritten
      <4>3. transcript' = Append(rest, b)
        BY <2>2, <3>1, <3>3, <4>1, <4>2
      <4>4. QED
        BY <1>6, <3>1, <3>3, <4>3
    <3>4. QED
      BY <3>2, <3>3
  <2>9. QED
    BY <2>6, <2>7, <2>8
<1>10. QED
  BY <1>2, <1>8, <1>9 DEF Role

\* What the page shows is what the session has.
LEMMA PageExact ==
  ASSUME Texts, NEW c \in Snapshot, Page(c)
  PROVE  Untorn(transcript) = Untorn(Bubbles(IF c.l = None THEN c.h ELSE Append(c.h, c.l)))
<1> DEFINE n == Len(c.h) + 1
           k == c.l.parts
           q == Bubbles(Append(c.h, c.l))
<1>1. SUFFICES Without(transcript, torn)
                 = Without(Bubbles(IF c.l = None THEN c.h ELSE Append(c.h, c.l)), torn)
  BY UntornIs
<1>2. CASE c.l = None
  BY <1>2 DEF Page, Shows
<1>3. CASE c.l # None /\ c.l.role = "user"
  BY <1>3 DEF Page, Shows
<1>4. CASE c.l # None /\ c.l.role = "assistant"
  <2>1. Writes(n, k, c.h) /\ transcript \in Seq(Bubble) /\ markdown \in Text
    BY <1>4 DEF Page, Texts
  <2>2. \A s \in Seq(Bubble) :
          Without(s, torn) = Without(Bubbles(c.h), torn) =>
            /\ torn = n \/ k = 0 => Without(s, torn) = Without(q, torn)
            /\ k # 0 => Without(Append(s, BubbleOf(n, c.l)), torn) = Without(q, torn)
    BY <1>4, Written
  <2>3. k # 0 => BubbleOf(n, c.l) = [role |-> "assistant", text |-> Whole(n, k)]
    BY <1>4 DEF BubbleOf
  <2>4. Whole(n, 0) = <<>>
    BY DEF Whole
  <2> HIDE DEF n, k, q
  <2>5. SUFFICES Without(transcript, torn) = Without(q, torn)
    BY <1>4 DEF q
  <2>6. CASE current = None \/ current = Detached
    BY <2>1, <2>2, <2>6, WritesWhere DEF Shows
  <2>7. CASE current # None /\ current # Detached
    <3>1. PICK rest \in Seq(Bubble) :
            /\ transcript = Append(rest, [role |-> "assistant", text |-> markdown])
            /\ current = Len(rest) + 1 /\ current \in DOMAIN transcript
            /\ Without(rest, torn) = Without(Bubbles(c.h), torn)
            /\ markdown # <<>> /\ markdown[1][1] = n
            /\ torn = n \/ markdown = Whole(n, k)
      BY <2>1, <2>7, WritesWhere DEF Shows
    <3>2. CASE torn = n
      <4>1. PICK x \in Bubble : x = [role |-> "assistant", text |-> markdown]
        BY <2>1 DEF Bubble, Role
      <4>2. x.text[1][1] = torn
        BY <3>1, <3>2, <4>1
      <4>3. Without(transcript, torn) = Without(rest, torn)
        BY <3>1, <4>1, <4>2, WithoutAppend
      <4>4. QED
        BY <2>2, <3>1, <3>2, <4>3
    <3>3. CASE markdown = Whole(n, k)
      <4>1. k # 0
        BY <2>4, <3>1, <3>3
      <4>2. transcript = Append(rest, BubbleOf(n, c.l))
        BY <2>3, <3>1, <3>3, <4>1
      <4>3. QED
        BY <2>2, <3>1, <4>1, <4>2
    <3>4. QED
      BY <3>1, <3>2, <3>3
  <2>8. QED
    BY <2>6, <2>7
<1>5. QED
  BY <1>2, <1>3, <1>4, SnapshotIs DEF Role

-----------------------------------------------------------------------------
(* The wire tells the rest                                                 *)

Told == \E past \in Seq(Snapshot) : Behind(past) /\ (Fresh => Page(past[1]))
Exact == Inv /\ Texts /\ Told

LEMMA NowIs ==
  ASSUME Types, Texts
  PROVE  Now \in Snapshot
BY DEF Types, SessionTypes, Texts, Now, Snapshot

\* No frame is under way.
LEMMA Alone ==
  ASSUME wire = <<>>, Now \in Snapshot, ~Fresh
  PROVE  Told
<1> DEFINE p == <<Now>>
<1>1. /\ p \in Seq(Snapshot) /\ Len(p) = 1 /\ p[1] = Now /\ Len(wire) = 0
      /\ DOMAIN wire = 1..0
  OBVIOUS
<1> HIDE DEF p
<1>2. Len(p) = Len(wire) + 1 /\ p[Len(p)] = Now /\ \A k \in DOMAIN wire : FALSE
  BY <1>1
<1>3. Behind(p)
  BY <1>1, <1>2 DEF Behind
<1>4. QED
  BY <1>1, <1>3 DEF Told

\* A step that leaves the wire, the session and what the page shows of it.
LEMMA TellSame ==
  ASSUME Told, UNCHANGED <<history, live, wire>>,
         Fresh' => Fresh /\ UNCHANGED <<textVars, torn>>
  PROVE  Told'
<1>1. PICK past \in Seq(Snapshot) : Behind(past) /\ (Fresh => Page(past[1]))
  BY DEF Told
<1>2. Behind(past)'
  BY <1>1 DEF Behind, Now
<1>3. ASSUME Fresh' PROVE Page(past[1])'
  <2>1. Page(past[1])
    BY <1>1, <1>3
  <2>2. PICK c \in Snapshot : c = past[1]
    BY <1>1 DEF Behind
  <2>3. Page(c)'
    BY <1>3, <2>1, <2>2, PageKept DEF textVars
  <2>4. QED
    BY <2>2, <2>3
<1>4. QED
  BY <1>2, <1>3 DEF Told

\* A frame is sent.
LEMMA TellMore ==
  ASSUME Exact, NEW f \in Frame, Sent(f), UNCHANGED <<socket, hears, textVars, torn>>,
         Now' \in Snapshot, Then(Now, f, Now'), Fresh' => Fresh
  PROVE  Told'
<1>1. Fresh => hears
  BY DEF Exact, Inv, Heard, Fresh
<1>2. wire \in Seq(Frame)
  BY DEF Exact, Inv, Types, WireTypes
<1>3. CASE ~hears
  <2>1. wire' = <<>> /\ ~Fresh'
    BY <1>1, <1>3 DEF Sent, Exact, Texts
  <2>2. PICK m : m = Now'
    OBVIOUS
  <2> DEFINE p == <<m>>
  <2>3. /\ p \in Seq(Snapshot) /\ Len(p) = 1 /\ p[1] = m /\ Len(wire') = 0
        /\ DOMAIN wire' = 1..0
    BY <2>1, <2>2
  <2> HIDE DEF p
  <2>4. Len(p) = Len(wire') + 1 /\ p[Len(p)] = Now' /\ \A k \in DOMAIN wire' : FALSE
    BY <2>2, <2>3
  <2>5. Behind(p)'
    BY <2>3, <2>4 DEF Behind
  <2>6. QED
    BY <2>1, <2>3, <2>5 DEF Told
<1>4. CASE hears
  <2>1. PICK past \in Seq(Snapshot) : Behind(past) /\ (Fresh => Page(past[1]))
    BY DEF Exact, Told
  <2>2. PICK m : m = Now'
    OBVIOUS
  <2>3. wire' = Append(wire, f)
    BY <1>4 DEF Sent
  <2> DEFINE p == Append(past, m)
             k == Len(wire)
  <2>4. /\ k \in Nat /\ Len(past) = k + 1 /\ past[k + 1] = Now
        /\ \A j \in 1..k : Then(past[j], wire[j], past[j + 1])
        /\ Len(wire') = k + 1 /\ DOMAIN wire' = 1..(k + 1) /\ wire'[k + 1] = f
        /\ \A j \in 1..k : wire'[j] = wire[j]
    BY <1>2, <2>1, <2>3 DEF Behind
  <2>5. /\ p \in Seq(Snapshot) /\ Len(p) = k + 2 /\ p[k + 2] = m
        /\ \A j \in 1..(k + 1) : p[j] = past[j]
    BY <2>1, <2>2, <2>4
  <2> HIDE DEF p, k
  <2>6. ASSUME NEW j \in 1..(k + 1) PROVE Then(p[j], wire'[j], p[j + 1])
    <3>1. CASE j = k + 1
      <4>1. p[j] = Now /\ wire'[j] = f /\ p[j + 1] = Now'
        BY <2>2, <2>4, <2>5, <3>1
      <4>2. QED
        BY <4>1
    <3>2. CASE j # k + 1
      <4>1. j \in 1..k /\ j + 1 \in 1..(k + 1)
        BY <2>4, <3>2
      <4>2. p[j] = past[j] /\ wire'[j] = wire[j] /\ p[j + 1] = past[j + 1]
        BY <2>4, <2>5, <4>1
      <4>3. Then(past[j], wire[j], past[j + 1])
        BY <2>4, <4>1
      <4>4. QED
        BY <4>2, <4>3
    <3>3. QED
      BY <3>1, <3>2
  <2>7. Behind(p)'
    <3>1. p \in Seq(Snapshot) /\ Len(p) = Len(wire') + 1 /\ p[Len(p)] = Now'
      BY <2>2, <2>4, <2>5
    <3>2. QED
      BY <2>4, <2>6, <3>1 DEF Behind
  <2>8. ASSUME Fresh' PROVE Page(p[1])'
    <3>1. PICK c \in Snapshot : c = past[1]
      BY <2>4
    <3>2. p[1] = c
      BY <2>4, <2>5, <3>1
    <3>3. Page(c)
      BY <2>1, <2>8, <3>1
    <3>4. Page(c)'
      BY <3>3, PageKept DEF textVars
    <3>5. QED
      BY <3>2, <3>4
  <2>9. QED
    BY <2>5, <2>7, <2>8 DEF Told
<1>5. QED
  BY <1>3, <1>4 DEF Exact, Inv, Types, WireTypes

\* A frame is read.
LEMMA TellLess ==
  ASSUME Exact, wire # <<>>, wire' = Tail(wire), UNCHANGED <<history, live, socket, asks>>,
         \A c, d \in Snapshot :
           Then(c, Head(wire), d) /\ (Head(wire).type = "get_messages" \/ Page(c)) => Page(d)'
  PROVE  Told'
<1>1. PICK past \in Seq(Snapshot) : Behind(past) /\ (Fresh => Page(past[1]))
  BY DEF Exact, Told
<1> DEFINE p == Tail(past)
           k == Len(wire)
<1>2. /\ wire \in Seq(Frame) /\ k \in Nat \ {0} /\ Head(wire) = wire[1]
      /\ DOMAIN wire = 1..k /\ Len(wire') = k - 1 /\ DOMAIN wire' = 1..(k - 1)
      /\ \A j \in 1..(k - 1) : wire'[j] = wire[j + 1]
  BY DEF Exact, Inv, Types, WireTypes
<1>3. /\ Len(past) = k + 1 /\ past[k + 1] = Now
      /\ \A j \in 1..k : Then(past[j], wire[j], past[j + 1])
  BY <1>1, <1>2 DEF Behind
<1>4. /\ p \in Seq(Snapshot) /\ Len(p) = k
      /\ \A j \in 1..k : p[j] = past[j + 1]
  BY <1>1, <1>2, <1>3
<1> HIDE DEF p, k
<1>5. ASSUME NEW j \in 1..(k - 1) PROVE Then(p[j], wire'[j], p[j + 1])
  <2>1. j \in 1..k /\ j + 1 \in 1..k
    BY <1>2
  <2>2. p[j] = past[j + 1] /\ wire'[j] = wire[j + 1] /\ p[j + 1] = past[(j + 1) + 1]
    BY <1>2, <1>4, <2>1
  <2>3. Then(past[j + 1], wire[j + 1], past[(j + 1) + 1])
    BY <1>3, <2>1
  <2>4. QED
    BY <2>2, <2>3
<1>6. Behind(p)'
  <2>1. p \in Seq(Snapshot) /\ Len(p) = Len(wire') + 1 /\ p[Len(p)] = Now'
    BY <1>2, <1>3, <1>4 DEF Now
  <2>2. QED
    BY <1>2, <1>5, <2>1 DEF Behind
<1>7. ASSUME Fresh' PROVE Page(p[1])'
  <2>1. /\ past[1] \in Snapshot /\ past[2] \in Snapshot /\ p[1] = past[2]
        /\ Then(past[1], wire[1], past[2])
    BY <1>1, <1>2, <1>3, <1>4
  <2>2. ASSUME wire[1].type # "get_messages" PROVE Fresh
    <3>1. ASSUME NEW j \in 1..k PROVE wire[j].type # "get_messages"
      <4>1. CASE j = 1
        BY <2>2, <4>1
      <4>2. CASE j # 1
        <5>1. j - 1 \in 1..(k - 1) /\ (j - 1) + 1 = j
          BY <1>2, <4>2
        <5>2. wire'[j - 1].type # "get_messages"
          BY <1>2, <1>7, <5>1 DEF Fresh
        <5>3. QED
          BY <1>2, <5>1, <5>2
      <4>3. QED
        BY <4>1, <4>2
    <3>2. QED
      BY <1>2, <1>7, <3>1 DEF Fresh
  <2>3. wire[1].type = "get_messages" \/ Page(past[1])
    BY <1>1, <2>2
  <2>4. PICK c \in Snapshot, d \in Snapshot : c = past[1] /\ d = past[2]
    BY <2>1
  <2>5. Page(d)'
    BY <1>2, <2>1, <2>3, <2>4
  <2>6. QED
    BY <2>1, <2>4, <2>5
<1>8. QED
  BY <1>4, <1>6, <1>7 DEF Told

-----------------------------------------------------------------------------
(* The steps, once more                                                    *)

\* What is sent does not make the page fresh.
LEMMA FreshSent ==
  ASSUME wire \in Seq(Frame), NEW f \in Frame, Sent(f), UNCHANGED socket, Fresh',
         hears => asks # <<"get_messages", "get_state">> \/ f.type = "get_messages",
         ~hears => UNCHANGED asks
  PROVE  Fresh
<1>1. CASE ~hears
  BY <1>1 DEF Sent, Fresh
<1>2. CASE hears
  <2>1. wire' = Append(wire, f)
    BY <1>2 DEF Sent
  <2> DEFINE k == Len(wire)
  <2>2. /\ k \in Nat /\ DOMAIN wire = 1..k /\ DOMAIN wire' = 1..(k + 1)
        /\ wire'[k + 1] = f /\ \A j \in 1..k : wire'[j] = wire[j]
    BY <2>1
  <2> HIDE DEF k
  <2>3. \A j \in 1..(k + 1) : wire'[j].type # "get_messages"
    BY <2>2 DEF Fresh
  <2>4. k + 1 \in 1..(k + 1) /\ \A j \in 1..k : j \in 1..(k + 1)
    BY <2>2
  <2>5. f.type # "get_messages"
    BY <2>2, <2>3, <2>4
  <2>6. \A j \in 1..k : wire[j].type # "get_messages"
    BY <2>2, <2>3, <2>4
  <2>7. QED
    BY <1>2, <2>2, <2>5, <2>6 DEF Fresh
<1>3. QED
  BY <1>1, <1>2

\* What the session sends: an event, or an answer.
LEMMA SessionTells ==
  ASSUME Exact, SessionStep
  PROVE  Texts' /\ Told'
<1> USE DEF sessionVars, pageVars, textVars, toolVars
<1>1. /\ Types /\ SessionTypes /\ wire \in Seq(Frame) /\ Texts /\ Inv /\ Heard
      /\ asks \in {<<>>, <<"get_state">>, <<"get_messages", "get_state">>}
      /\ hears \in BOOLEAN
  BY DEF Exact, Inv, Types, WireTypes
<1>2. Inv' /\ SessionTypes'
  <2>1. Inv'
    BY <1>1, SessionPreserves
  <2>2. QED
    BY <2>1 DEF Inv, Types
<1>3. /\ UNCHANGED <<socket, hears, transcript, current, markdown, torn, cards, losses>>
      /\ ~hears => wire' = <<>>
  <2>1. UNCHANGED <<socket, hears, transcript, current, markdown, torn, cards, losses>>
    BY DEF SessionStep, AgentStarts, AgentSettles, MessageStarts, MessageGrows, MessageEnds,
           ToolStarts, ToolEnds, Answers, AnswersOther, Forward
  <2>2. ~hears => wire = <<>>
    BY <1>1 DEF Texts
  <2>3. ~hears => wire' = wire
    BY DEF SessionStep, AgentStarts, AgentSettles, MessageStarts, MessageGrows, MessageEnds,
           ToolStarts, ToolEnds, Answers, AnswersOther, Forward, Sent
  <2>4. QED
    BY <2>1, <2>2, <2>3
<1>4. /\ Len(history') <= MaxMessages
      /\ live' # None => running'
      /\ others' \in 0..MaxOthers
  <2>1. Len(history') <= MaxMessages
    <3>1. CASE MessageEnds
      <4>1. history' = Append(history, live) /\ Len(history) < MaxMessages /\ live \in Message
            /\ history \in Seq(Message)
        BY <1>1, <3>1 DEF MessageEnds, SessionTypes
      <4>2. QED
        BY <4>1, Bounds
    <3>2. CASE ~MessageEnds
      <4>1. history' = history
        BY <3>2 DEF SessionStep, AgentStarts, AgentSettles, MessageStarts, MessageGrows,
                    ToolStarts, ToolEnds, Answers, AnswersOther
      <4>2. QED
        BY <1>1, <4>1 DEF Texts
    <3>3. QED
      BY <3>1, <3>2
  <2>2. live' # None => running'
    BY <1>1 DEF Texts, SessionStep, AgentStarts, AgentSettles, MessageStarts, MessageGrows, MessageEnds,
           ToolStarts, ToolEnds, Answers, AnswersOther
  <2>3. others' \in 0..MaxOthers
    <3>1. MaxOthers \in Nat
      BY BoundAssumption
    <3>2. CASE AnswersOther
      BY <1>1, <3>1, <3>2 DEF Texts, AnswersOther
    <3>3. CASE ~AnswersOther
      <4>1. others' = others
        BY <3>3 DEF SessionStep, AgentStarts, AgentSettles, MessageStarts, MessageGrows, MessageEnds,
             ToolStarts, ToolEnds, Answers, Forward
      <4>2. QED
        BY <1>1, <4>1 DEF Texts
    <3>4. QED
      BY <3>2, <3>3
  <2>4. QED
    BY <2>1, <2>2, <2>3
<1>5. Texts'
  <2>1. /\ transcript' \in Seq(Bubble) /\ current' \in DOMAIN transcript' \cup {None, Detached}
        /\ markdown' \in Text /\ cards' \subseteq Tool /\ torn' \in 0..MaxMessages
        /\ losses' \in 0..MaxLosses
        /\ current' = None => markdown' = <<>>
        /\ socket' = "left" => current' = None
        /\ ~hears' => wire' = <<>>
    BY <1>1, <1>3 DEF Texts
  <2>2. QED
    BY <1>4, <2>1 DEF Texts
<1>6. Now' \in Snapshot
  BY <1>2, <1>5 DEF SessionTypes, Texts, Now, Snapshot
<1> DEFINE Tells(f) == f \in Frame /\ Sent(f) /\ Then(Now, f, Now')
<1>7. ASSUME NEW f, Tells(f), UNCHANGED asks PROVE Told'
  <2>1. Fresh' => Fresh
    <3>1. SUFFICES ASSUME Fresh' PROVE Fresh
      OBVIOUS
    <3>2. asks # <<"get_messages", "get_state">>
      BY <1>7, <3>1 DEF Fresh
    <3>3. QED
      BY <1>1, <1>3, <1>7, <3>1, <3>2, FreshSent
  <2>2. QED
    BY <1>3, <1>6, <1>7, <2>1, TellMore
<1>8. /\ [type |-> "agent_start"] \in Frame /\ [type |-> "agent_settled"] \in Frame
      /\ \A t \in Tool : /\ [type |-> "tool_execution_start", tool |-> t] \in Frame
                         /\ [type |-> "tool_execution_end", tool |-> t] \in Frame
      /\ State \in Frame /\ Messages \in Frame
  BY <1>1, FrameTypes
<1>9. Then(Now, Messages, Now) /\ Then(Now, State, Now)
  <2>1. Then(Now, Messages, Now)
    BY DEF Then, Now, Messages, Writing
  <2>2. live # None => running
    BY <1>1 DEF Texts
  <2>3. Then(Now, State, Now)
    BY <2>2 DEF Then, Now, State
  <2>4. QED
    BY <2>1, <2>3
<1>19. SUFFICES Told'
  BY <1>5
<1>10. CASE AgentStarts \/ AgentSettles
  <2>1. UNCHANGED asks /\ Now' = Now
    BY <1>10 DEF AgentStarts, AgentSettles, Forward, Now
  <2>2. CASE AgentStarts
    <3>1. Then(Now, [type |-> "agent_start"], Now)
      BY DEF Then, Now
    <3>2. Tells([type |-> "agent_start"])
      BY <1>8, <2>1, <2>2, <3>1 DEF AgentStarts, Forward
    <3>3. QED
      BY <1>7, <2>1, <3>2
  <2>3. CASE AgentSettles
    <3>1. live = None
      BY <2>3 DEF AgentSettles
    <3>2. Then(Now, [type |-> "agent_settled"], Now)
      BY <3>1 DEF Then, Now
    <3>3. Tells([type |-> "agent_settled"])
      BY <1>8, <2>1, <2>3, <3>2 DEF AgentSettles, Forward
    <3>4. QED
      BY <1>7, <2>1, <3>3
  <2>4. QED
    BY <1>10, <2>2, <2>3
<1>11. ASSUME NEW role \in Role, MessageStarts(role) PROVE Told'
  <2> DEFINE f == [type |-> "message_start", n |-> Writing, role |-> role]
  <2>1. Writing \in Number
    BY <1>1, <1>11, Bounds DEF MessageStarts, Writing, Number, SessionTypes
  <2>2. f \in Frame
    BY <2>1 DEF Frame, Event
  <2>3. /\ live = None /\ live' = [role |-> role, parts |-> IF role = "user" THEN 1 ELSE 0]
        /\ history' = history /\ Sent(f) /\ UNCHANGED asks
    BY <1>11 DEF MessageStarts, Forward
  <2>4. Then(Now, f, Now')
    BY <2>3 DEF Then, Now, Writing
  <2>5. QED
    BY <1>7, <2>2, <2>3, <2>4
<1>12. CASE MessageGrows
  <2> DEFINE f == [type |-> "message_update", n |-> Writing, part |-> live.parts + 1]
  <2>1. Writing \in Number /\ live \in Message /\ live.parts + 1 \in 1..MaxParts
    BY <1>1, <1>12, Bounds DEF MessageGrows, Writing, Number, SessionTypes, Message
  <2>2. f \in Frame
    BY <2>1 DEF Frame, Event
  <2>3. /\ live # None /\ live.role = "assistant" /\ live' = [live EXCEPT !.parts = @ + 1]
        /\ history' = history /\ Sent(f) /\ UNCHANGED asks
    BY <1>12 DEF MessageGrows, Forward
  <2>4. Then(Now, f, Now')
    BY <2>3 DEF Then, Now, Writing
  <2>5. QED
    BY <1>7, <2>2, <2>3, <2>4
<1>13. CASE MessageEnds
  <2> DEFINE f == [type |-> "message_end", n |-> Writing, role |-> live.role,
                   text |-> Whole(Writing, live.parts)]
  <2>1. /\ Writing \in Number /\ live \in Message
        /\ live.role \in Role /\ live.parts \in 0..MaxParts
    BY <1>1, <1>13, Bounds DEF MessageEnds, Writing, Number, SessionTypes, Message
  <2>2. Whole(Writing, live.parts) \in Text
    BY <2>1, WholeType
  <2>3. f \in Frame
    BY <2>1, <2>2 DEF Frame, Event
  <2>4. /\ live # None /\ history' = Append(history, live) /\ live' = None
        /\ Sent(f) /\ UNCHANGED asks
    BY <1>13 DEF MessageEnds, Forward
  <2>5. Then(Now, f, Now')
    BY <2>4 DEF Then, Now, Writing
  <2>6. QED
    BY <1>7, <2>3, <2>4, <2>5
<1>14. CASE ToolStarts
  <2> DEFINE f == [type |-> "tool_execution_start", tool |-> begun + 1]
  <2>1. begun + 1 \in Tool
    BY <1>1, <1>14, Bounds DEF ToolStarts, SessionTypes, Tool
  <2>2. f \in Frame /\ Sent(f) /\ UNCHANGED asks /\ Now' = Now
    BY <1>8, <1>14, <2>1 DEF ToolStarts, Forward, Now
  <2>3. Then(Now, f, Now)
    BY DEF Then
  <2> HIDE DEF f
  <2>4. QED
    BY <1>7, <2>2, <2>3
<1>15. ASSUME NEW t \in Tool, ToolEnds(t) PROVE Told'
  <2> DEFINE f == [type |-> "tool_execution_end", tool |-> t]
  <2>1. f \in Frame /\ Sent(f) /\ UNCHANGED asks /\ Now' = Now
    BY <1>8, <1>15 DEF ToolEnds, Forward, Now
  <2>2. Then(Now, f, Now)
    BY DEF Then
  <2> HIDE DEF f
  <2>3. QED
    BY <1>7, <2>1, <2>2
<1>16. CASE AnswersOther
  <2>1. UNCHANGED asks /\ Now' = Now /\ (Sent(Messages) \/ Sent(State))
    BY <1>16 DEF AnswersOther, Now
  <2>2. CASE Sent(Messages)
    <3>1. Tells(Messages)
      BY <1>8, <1>9, <2>1, <2>2
    <3>2. QED
      BY <1>7, <2>1, <3>1
  <2>3. CASE Sent(State)
    <3>1. Tells(State)
      BY <1>8, <1>9, <2>1, <2>3
    <3>2. QED
      BY <1>7, <2>1, <3>1
  <2>4. QED
    BY <2>1, <2>2, <2>3
<1>17. CASE Answers
  <2>1. PICK f : f = IF Head(asks) = "get_messages" THEN Messages ELSE State
    OBVIOUS
  <2>2. /\ hears /\ Sent(f) /\ asks # <<>> /\ asks' = Tail(asks) /\ Now' = Now
        /\ f \in Frame /\ Then(Now, f, Now')
    BY <1>8, <1>9, <1>17, <2>1 DEF Answers, Now
  <2>3. asks = <<"get_messages", "get_state">> => f.type = "get_messages"
    <3>1. asks = <<"get_messages", "get_state">> => Head(asks) = "get_messages"
      OBVIOUS
    <3>2. QED
      BY <2>1, <3>1 DEF Messages
  <2>4. Fresh' => Fresh
    BY <1>1, <1>3, <2>2, <2>3, FreshSent
  <2>5. f \in Frame /\ Sent(f) /\ Then(Now, f, Now')
    BY <2>2
  <2>6. QED
    BY <1>3, <1>6, <2>4, <2>5, TellMore
<1>18. QED
  BY <1>10, <1>11, <1>12, <1>13, <1>14, <1>15, <1>16, <1>17 DEF SessionStep

\* The connection comes and goes.
LEMMA ConnectionTells ==
  ASSUME Exact, Subscribes \/ Open \/ Reconnect \/ OnOpen \/ OnClose \/ Close
  PROVE  Texts' /\ Told'
<1> USE DEF sessionVars, pageVars, textVars, toolVars
<1>1. /\ Texts /\ Told /\ Heard /\ Inv /\ SessionTypes
      /\ asks \in {<<>>, <<"get_state">>, <<"get_messages", "get_state">>}
  BY DEF Exact, Inv, Types, WireTypes
<1>2. UNCHANGED <<history, live, running, others>>
  BY DEF Subscribes, Open, Reconnect, OnOpen, OnClose, Close
<1>3. /\ MaxLosses \in Nat /\ <<>> \in Seq(Bubble) /\ <<>> \in Text /\ Len(history) <= MaxMessages
      /\ (live # None => running) /\ others \in 0..MaxOthers /\ losses \in 0..MaxLosses
  BY <1>1, BoundAssumption, Empty DEF Texts, Text
<1>4. Now \in Snapshot
  BY <1>1 DEF SessionTypes, Texts, Now, Snapshot
<1>5. CASE Subscribes \/ Reconnect \/ OnOpen
  <2>1. /\ UNCHANGED <<wire, transcript, current, markdown, torn, cards, losses>>
        /\ socket' # "left"
        /\ ~hears' => UNCHANGED hears
    BY <1>5 DEF Subscribes, Reconnect, OnOpen
  <2>2. ~Fresh'
    <3>1. CASE Subscribes
      BY <1>1, <3>1 DEF Heard, Fresh, Subscribes
    <3>2. CASE Reconnect \/ OnOpen
      BY <3>2 DEF Fresh, Reconnect, OnOpen
    <3>3. QED
      BY <1>5, <3>1, <3>2
  <2>3. Texts'
    BY <1>1, <1>2, <1>3, <2>1 DEF Texts
  <2>4. QED
    BY <1>1, <1>2, <2>1, <2>2, <2>3, TellSame
<1>6. CASE Open
  <2>1. /\ UNCHANGED <<wire, hears, current, markdown, cards, losses>>
        /\ transcript' = <<>> /\ torn' = 0 /\ socket = "left" /\ socket' = "connecting"
    BY <1>6 DEF Open
  <2>2. ~Fresh'
    BY <2>1 DEF Fresh
  <2>3. Texts'
    <3>1. current' = None /\ 0 \in 0..MaxMessages
      BY <1>1, <2>1, Bounds DEF Texts
    <3>2. transcript' \in Seq(Bubble)
      BY <1>3, <2>1
    <3>3. QED
      BY <1>1, <1>2, <1>3, <2>1, <3>1, <3>2 DEF Texts
  <2>4. QED
    BY <1>1, <1>2, <2>1, <2>2, <2>3, TellSame
<1>7. CASE OnClose \/ Close
  <2>1. /\ wire' = <<>> /\ hears' = FALSE /\ losses' = losses + 1 /\ losses < MaxLosses
        /\ UNCHANGED <<transcript, torn>>
        /\ socket' # "open"
        /\ UNCHANGED cards \/ cards' = {}
    BY <1>7 DEF OnClose, Close, Drops
  <2>2. \/ UNCHANGED <<current, markdown>> /\ socket' # "left"
        \/ current' = None /\ markdown' = <<>>
    BY <1>7 DEF OnClose, Close, SetStreaming
  <2>3. ~Fresh' /\ Now' \in Snapshot
    BY <1>2, <1>4, <2>1 DEF Fresh, Now
  <2>4. Told'
    <3>1. PICK p : p = <<Now'>>
      OBVIOUS
    <3>2. /\ p \in Seq(Snapshot) /\ Len(p) = 1 /\ p[1] = Now' /\ Len(wire') = 0
          /\ DOMAIN wire' = 1..0
      BY <2>1, <2>3, <3>1
    <3>3. Len(p) = Len(wire') + 1 /\ p[Len(p)] = Now' /\ \A k \in DOMAIN wire' : FALSE
      BY <3>2
    <3>4. Behind(p)'
      BY <3>2, <3>3 DEF Behind
    <3>5. QED
      BY <2>3, <3>2, <3>4 DEF Told
  <2>5. Texts'
    <3>1. losses' \in 0..MaxLosses /\ cards' \subseteq Tool /\ transcript' \in Seq(Bubble)
          /\ torn' \in 0..MaxMessages
      BY <1>1, <1>3, <2>1 DEF Texts
    <3>2. /\ current' \in DOMAIN transcript' \cup {None, Detached}
          /\ markdown' \in Text /\ (current' = None => markdown' = <<>>)
          /\ (socket' = "left" => current' = None)
      BY <1>1, <1>3, <2>1, <2>2 DEF Texts
    <3>3. QED
      BY <1>2, <1>3, <2>1, <3>1, <3>2 DEF Texts
  <2>6. QED
    BY <2>4, <2>5
<1>8. QED
  BY <1>5, <1>6, <1>7

\* The messages of an answer are those of the session, as it was.
LEMMA AnswerBounded ==
  ASSUME Exact, wire # <<>>, Head(wire).type = "get_messages"
  PROVE  /\ Head(wire).messages \in Seq(Message) /\ Len(Head(wire).messages) <= MaxMessages
         /\ Head(wire).torn \in 0..MaxMessages
<1>1. PICK past \in Seq(Snapshot) : Behind(past)
  BY DEF Exact, Told
<1>2. wire \in Seq(Frame) /\ 1 \in DOMAIN wire /\ Head(wire) = wire[1] /\ Len(wire) \in Nat
      /\ wire[1] \in Frame
  BY DEF Exact, Inv, Types, WireTypes
<1>3. Then(past[1], wire[1], past[2]) /\ 1 \in DOMAIN past
  BY <1>1, <1>2 DEF Behind
<1>4. past[1] \in Snapshot
  BY <1>1, <1>3
<1>5. Head(wire).messages = past[1].h
  BY <1>2, <1>3 DEF Then
<1>6. Head(wire).torn \in 0..MaxMessages
  BY <1>2, Bounds DEF Frame, Event, Response, Number
<1>7. QED
  BY <1>4, <1>5, <1>6, SnapshotIs

\* handleEvent
LEMMA HandleTells ==
  ASSUME Exact, \/ Redraw \/ OnState \/ OnAgent
                \/ OnMessageStart \/ OnDelta \/ OnMessageEnd
                \/ OnToolStart \/ OnToolEnd
  PROVE  Texts' /\ Told'
<1> DEFINE f == Head(wire)
<1> USE DEF pageVars, textVars, toolVars
<1>1. /\ wire # <<>> /\ wire' = Tail(wire) /\ socket = "open"
      /\ UNCHANGED <<history, live, running, socket, hears, asks, losses, others>>
  BY DEF Receives, Redraw, OnState, OnAgent, OnMessageStart, OnDelta, OnMessageEnd,
         OnToolStart, OnToolEnd, sessionVars
<1>2. f \in Frame /\ Texts /\ Told /\ wire \in Seq(Frame)
  BY <1>1, Taken DEF Exact, Inv, Types, WireTypes
<1>3. /\ transcript \in Seq(Bubble) /\ current \in DOMAIN transcript \cup {None, Detached}
      /\ markdown \in Text /\ (current = None => markdown = <<>>) /\ <<>> \in Text
      /\ cards \subseteq Tool /\ torn \in 0..MaxMessages
  BY <1>2, Empty DEF Texts, Text
<1> HIDE DEF f
<1> DEFINE TextTyped == /\ transcript' \in Seq(Bubble)
                        /\ current' \in DOMAIN transcript' \cup {None, Detached}
                        /\ markdown' \in Text
                        /\ current' = None => markdown' = <<>>
           CardsTyped == cards' \subseteq Tool /\ torn' \in 0..MaxMessages
           Shown == \A c, d \in Snapshot :
                      Then(c, f, d) /\ (f.type = "get_messages" \/ Page(c)) => Page(d)'
<1>4. TextTyped /\ CardsTyped => Texts'
  <2>1. hears
    BY <1>1, <1>2 DEF Texts
  <2>2. QED
    BY <1>1, <1>2, <2>1 DEF Texts
<1>5. Shown => Told'
  BY <1>1, TellLess DEF f
<1>6. SUFFICES TextTyped /\ CardsTyped /\ Shown
  BY <1>4, <1>5
<1> USE DEF Receives
<1>7. CASE Redraw
  <2>1. /\ f.type = "get_messages" /\ transcript' = Bubbles(f.messages) /\ torn' = f.torn
        /\ current' = (IF current = None THEN None ELSE Detached)
        /\ UNCHANGED <<markdown, cards>>
    BY <1>7 DEF Redraw, f
  <2>2. f.messages \in Seq(Message) /\ Len(f.messages) <= MaxMessages /\ f.torn \in 0..MaxMessages
    BY <1>1, <2>1, AnswerBounded DEF f
  <2>3. transcript' \in Seq(Bubble)
    BY <2>1, <2>2, BubblesType
  <2>4. TextTyped /\ CardsTyped
    BY <1>3, <2>1, <2>2, <2>3, ElementAssumption
  <2>5. ASSUME NEW c \in Snapshot, NEW d \in Snapshot, Then(c, f, d) PROVE Page(d)'
    <3>1. d = c /\ f.messages = c.h /\ f.torn = IF c.l = None THEN 0 ELSE Len(c.h) + 1
      BY <2>1, <2>5 DEF Then
    <3>2. Page(c)'
      BY <1>2, <2>1, <3>1, PageRedrawn
    <3>3. QED
      BY <3>1, <3>2
  <2>6. QED
    BY <2>4, <2>5
<1>8. CASE OnState \/ OnAgent \/ OnToolStart \/ OnToolEnd
  <2>1. /\ UNCHANGED <<transcript, torn>>
        /\ f.type \in {"get_state", "agent_start", "agent_settled",
                       "tool_execution_start", "tool_execution_end"}
    BY <1>8 DEF OnState, OnAgent, OnToolStart, OnToolEnd, f
  <2>2. cards' \subseteq Tool
    <3>1. CASE OnState \/ OnAgent
      BY <1>3, <3>1 DEF OnState, OnAgent
    <3>2. CASE OnToolStart
      <4>1. f.type = "tool_execution_start" /\ cards' = cards \cup {f.tool}
        BY <3>2 DEF OnToolStart, f
      <4>2. f.tool \in Tool
        BY <1>2, <4>1 DEF Frame, Event, Response
      <4>3. QED
        BY <1>3, <4>1, <4>2
    <3>3. CASE OnToolEnd
      BY <1>3, <3>3 DEF OnToolEnd
    <3>4. QED
      BY <1>8, <3>1, <3>2, <3>3
  <2>3. \/ UNCHANGED <<current, markdown>>
        \/ /\ current' = None /\ markdown' = <<>>
           /\ f.type = "agent_settled" \/ (f.type = "get_state" /\ ~f.isStreaming)
    <3>1. CASE OnState
      BY <3>1 DEF OnState, SetStreaming, f
    <3>2. CASE OnAgent
      BY <3>2 DEF OnAgent, SetStreaming, f
    <3>3. CASE OnToolStart \/ OnToolEnd
      BY <3>3 DEF OnToolStart, OnToolEnd
    <3>4. QED
      BY <1>8, <3>1, <3>2, <3>3
  <2>4. TextTyped /\ CardsTyped
    <3>1. CardsTyped /\ transcript' \in Seq(Bubble) /\ DOMAIN transcript' = DOMAIN transcript
      BY <1>3, <2>1, <2>2
    <3>2. CASE UNCHANGED <<current, markdown>>
      BY <1>3, <3>1, <3>2
    <3>3. CASE current' = None /\ markdown' = <<>>
      BY <1>3, <3>1, <3>3
    <3>4. QED
      BY <2>3, <3>2, <3>3
  <2>5. ASSUME NEW c \in Snapshot, NEW d \in Snapshot, Then(c, f, d), Page(c) PROVE Page(d)'
    <3>1. /\ d = c
          /\ f.type = "get_state" /\ c.l # None => f.isStreaming
          /\ f.type = "agent_settled" => c.l = None
      BY <2>1, <2>5 DEF Then
    <3>2. c.l # None => UNCHANGED <<current, markdown>>
      BY <2>3, <3>1
    <3>3. Page(c)'
      BY <2>1, <2>5, <3>2, PageKept
    <3>4. QED
      BY <3>1, <3>3
  <2>6. QED
    BY <2>1, <2>4, <2>5
<1>9. CASE OnMessageStart
  <2>1. f.type = "message_start" /\ UNCHANGED <<cards, torn>>
    BY <1>9 DEF OnMessageStart, f
  <2>2. f.n \in Number
    BY <1>2, <2>1 DEF Frame, Event, Response
  <2>3. CASE f.role = "user"
    <3> DEFINE b == [role |-> "user", text |-> Whole(f.n, 1)]
    <3>1. transcript' = Append(transcript, b) /\ UNCHANGED <<current, markdown>>
      BY <1>9, <2>3 DEF OnMessageStart, f
    <3>2. b \in Bubble
      <4>1. 1 \in 0..MaxParts
        BY Bounds
      <4>2. Whole(f.n, 1) \in Text
        BY <2>2, <4>1, WholeType
      <4>3. QED
        BY <4>2 DEF Bubble, Role
    <3> HIDE DEF b
    <3>3. transcript' \in Seq(Bubble) /\ DOMAIN transcript \subseteq DOMAIN transcript'
      BY <1>3, <3>1, <3>2
    <3>4. TextTyped /\ CardsTyped
      BY <1>3, <2>1, <3>1, <3>3
    <3>5. ASSUME NEW c \in Snapshot, NEW d \in Snapshot, Then(c, f, d), Page(c) PROVE Page(d)'
      BY <1>2, <2>1, <2>3, <3>1, <3>5, PageOfUser DEF b
    <3>6. QED
      BY <2>1, <3>4, <3>5
  <2>4. CASE f.role # "user"
    <3>1. current' = None /\ markdown' = <<>> /\ UNCHANGED transcript
      BY <1>9, <2>4 DEF OnMessageStart, f
    <3>2. TextTyped /\ CardsTyped
      BY <1>3, <2>1, <3>1
    <3>3. ASSUME NEW c \in Snapshot, NEW d \in Snapshot, Then(c, f, d), Page(c) PROVE Page(d)'
      BY <2>1, <2>4, <3>1, <3>3, PageOfAssistant
    <3>4. QED
      BY <2>1, <3>2, <3>3
  <2>5. QED
    BY <2>3, <2>4
<1>10. CASE OnDelta
  <2>1. /\ f.type = "message_update" /\ UNCHANGED <<cards, torn>>
        /\ Write(Append(markdown, <<f.n, f.part>>))
    BY <1>10 DEF OnDelta, f
  <2>2. Append(markdown, <<f.n, f.part>>) \in Text
    <3>1. f.n \in Number /\ f.part \in 1..MaxParts
      BY <1>2, <2>1 DEF Frame, Event, Response
    <3>2. PICK x \in Number \X (1..MaxParts) : x = <<f.n, f.part>>
      BY <3>1
    <3>3. Append(markdown, x) \in Text
      BY <1>3 DEF Text
    <3>4. QED
      BY <3>2, <3>3
  <2>3. TextTyped /\ CardsTyped
    BY <1>2, <1>3, <2>1, <2>2, WriteIs
  <2>4. ASSUME NEW c \in Snapshot, NEW d \in Snapshot, Then(c, f, d), Page(c) PROVE Page(d)'
    BY <1>2, <1>3, <2>1, <2>4, PageGrown
  <2>5. QED
    BY <2>1, <2>3, <2>4
<1>11. CASE OnMessageEnd
  <2>1. /\ f.type = "message_end" /\ UNCHANGED <<cards, torn>>
        /\ IF f.role = "assistant" /\ f.text # <<>> THEN Write(f.text)
           ELSE UNCHANGED <<transcript, current, markdown>>
    BY <1>11 DEF OnMessageEnd, f
  <2>2. f.text \in Text
    BY <1>2, <2>1 DEF Frame, Event, Response
  <2>3. TextTyped /\ CardsTyped
    <3>1. CASE f.role = "assistant" /\ f.text # <<>>
      <4>1. Write(f.text)
        BY <2>1, <3>1
      <4>2. /\ transcript' \in Seq(Bubble) /\ markdown' \in Text
            /\ current' \in DOMAIN transcript' \cup {None, Detached} /\ current' # None
        BY <1>2, <2>2, <4>1, WriteIs
      <4>3. QED
        BY <1>3, <2>1, <4>2
    <3>2. CASE ~(f.role = "assistant" /\ f.text # <<>>)
      <4>1. UNCHANGED <<transcript, current, markdown>>
        BY <2>1, <3>2
      <4>2. QED
        BY <1>3, <2>1, <4>1
    <3>3. QED
      BY <3>1, <3>2
  <2>4. ASSUME NEW c \in Snapshot, NEW d \in Snapshot, Then(c, f, d), Page(c) PROVE Page(d)'
    BY <1>2, <2>1, <2>4, PageEnded
  <2>5. QED
    BY <2>1, <2>3, <2>4
<1>12. QED
  BY <1>7, <1>8, <1>9, <1>10, <1>11

-----------------------------------------------------------------------------
(* The theorems about the transcript                                       *)

\* The transcript is what the session was when the page had read so far, and what is
\* on the wire leads from there to what it is (handleEvent of app.js, registerEventForwarding
\* of event-bridge.ts and buildMessages of command-dispatch.ts).
THEOREM TranscriptCorrect == Spec => []Exact
<1>1. Init => Exact
  <2>1. SUFFICES ASSUME Init PROVE Texts /\ Told
    BY InvHoldsAtFirst DEF Exact
  <2>2. /\ history = <<>> /\ live = None /\ running = FALSE /\ hears = FALSE /\ socket = "left"
        /\ wire = <<>> /\ transcript = <<>> /\ current = None /\ markdown = <<>>
        /\ cards = {} /\ torn = 0 /\ losses = 0 /\ others = 0
    BY <2>1 DEF Init
  <2>3. /\ 0 \in 0..MaxMessages /\ 0 \in 0..MaxLosses /\ 0 \in 0..MaxOthers /\ Len(<<>>) = 0
        /\ <<>> \in Seq(Bubble) /\ <<>> \in Text /\ <<>> \in Seq(Message)
    BY Empty, BoundAssumption DEF Text
  <2>4. Texts
    BY <2>2, <2>3, Bounds DEF Texts
  <2>5. Now \in Snapshot
    BY <2>2, <2>3, Bounds DEF Now, Snapshot
  <2>6. ~Fresh
    BY <2>2 DEF Fresh
  <2>7. QED
    BY <2>2, <2>4, <2>5, <2>6, Alone
<1>2. Exact /\ [Next]_vars => Exact'
  <2>1. SUFFICES ASSUME Exact, [Next]_vars PROVE Exact'
    OBVIOUS
  <2>2. Inv'
    BY <2>1, InvIsKept DEF Exact
  <2>3. SUFFICES Texts' /\ Told'
    BY <2>2 DEF Exact
  <2>4. CASE SessionStep
    BY <2>1, <2>4, SessionTells
  <2>5. CASE Subscribes \/ Open \/ Reconnect \/ OnOpen \/ OnClose \/ Close
    BY <2>1, <2>5, ConnectionTells
  <2>6. CASE \/ Redraw \/ OnState \/ OnAgent
             \/ OnMessageStart \/ OnDelta \/ OnMessageEnd
             \/ OnToolStart \/ OnToolEnd
    BY <2>1, <2>6, HandleTells
  <2>7. CASE UNCHANGED vars
    <3>1. UNCHANGED <<history, live, wire, socket, asks, hears, running, transcript, current,
                      markdown, torn, cards, losses, others>>
      BY <2>7 DEF vars, sessionVars, connectionVars, pageVars, textVars, toolVars
    <3>2. Texts'
      BY <2>1, <3>1 DEF Exact, Texts
    <3>3. Fresh' => Fresh /\ UNCHANGED <<textVars, torn>>
      BY <3>1 DEF Fresh, textVars
    <3>4. QED
      BY <2>1, <3>1, <3>2, <3>3, TellSame DEF Exact
  <2>8. QED
    BY <2>1, <2>4, <2>5, <2>6, <2>7 DEF Next, PageStep
<1>3. QED
  BY <1>1, <1>2, PTL DEF Spec

\* At rest a page shows the session's transcript: no message with a text is missing,
\* twice or out of its place, and none has another's text, but for one that was being
\* written as the last redraw was read (handleEvent and renderHistoryMessage of app.js).
THEOREM TranscriptIsExact == Spec => []TranscriptExact
<1>1. Exact => TranscriptExact
  <2>1. SUFFICES ASSUME Exact, AtRest
                 PROVE  Untorn(transcript)
                          = Untorn(Bubbles(IF live = None THEN history ELSE Append(history, live)))
    BY DEF TranscriptExact
  <2>2. socket = "open" /\ asks = <<>> /\ asks # <<"get_messages", "get_state">> /\ wire = <<>>
    BY <2>1 DEF AtRest
  <2>3. PICK past \in Seq(Snapshot) : Behind(past) /\ (Fresh => Page(past[1]))
    BY <2>1 DEF Exact, Told
  <2>4. Fresh
    <3>1. DOMAIN <<>> = 1..0
      OBVIOUS
    <3>2. QED
      BY <2>2, <3>1 DEF Fresh
  <2>5. past[1] = Now
    <3>1. Len(wire) = 0
      BY <2>2
    <3>2. QED
      BY <2>3, <3>1 DEF Behind
  <2>6. Now \in Snapshot /\ Page(Now)
    BY <2>1, <2>3, <2>4, <2>5, NowIs DEF Exact, Inv
  <2>7. Untorn(transcript)
          = Untorn(Bubbles(IF Now.l = None THEN Now.h ELSE Append(Now.h, Now.l)))
    BY <2>1, <2>6, PageExact DEF Exact
  <2>8. QED
    BY <2>7 DEF Now
<1>2. QED
  BY <1>1, TranscriptCorrect, PTL

\* Every variable has its type, and currentAssistantBubble is a bubble of the transcript,
\* an element that is out of the document, or null (app.js).
THEOREM ChatTypes == Spec => []TypeOK
<1>1. Exact => TypeOK
  <2>1. SUFFICES ASSUME Exact PROVE TypeOK
    OBVIOUS
  <2>2. SessionTypes /\ WireTypes /\ Texts
    BY <2>1 DEF Exact, Inv, Types
  <2>3. asks \in Seq({"get_messages", "get_state"})
    <3>1. /\ <<>> \in Seq({"get_messages", "get_state"})
          /\ <<"get_state">> \in Seq({"get_messages", "get_state"})
          /\ <<"get_messages", "get_state">> \in Seq({"get_messages", "get_state"})
      OBVIOUS
    <3>2. QED
      BY <2>2, <3>1 DEF WireTypes
  <2>4. /\ history \in Seq(Message) /\ live \in Message \cup {None}
        /\ begun \in 0..MaxTools /\ tools \subseteq 1..begun
        /\ socket \in {"left", "closed", "connecting", "open"}
        /\ wire \in Seq(Event \cup Response)
        /\ spinning \subseteq Tool /\ cards \subseteq Tool
        /\ transcript \in Seq(Bubble) /\ current \in DOMAIN transcript \cup {None, Detached}
        /\ markdown \in Text /\ torn \in 0..MaxMessages
        /\ losses \in 0..MaxLosses /\ others \in 0..MaxOthers
    BY <2>2 DEF SessionTypes, WireTypes, Texts, Frame
  <2>5. running \in BOOLEAN /\ hears \in BOOLEAN /\ streaming \in BOOLEAN
    BY <2>2 DEF SessionTypes, WireTypes
  <2>6. QED
    BY <2>3, <2>4, <2>5 DEF TypeOK
<1>2. QED
  BY <1>1, TranscriptCorrect, PTL
=============================================================================
