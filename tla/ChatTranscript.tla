---------------------------- MODULE ChatTranscript ----------------------------
(***************************************************************************)
(* What one chat view shows of its session: the fold of the session's      *)
(* events and responses that handleEvent of app.js makes, against the      *)
(* session itself (event-bridge.ts and command-dispatch.ts) and another    *)
(* phone on the same session.                                              *)
(*                                                                         *)
(* Between the two is one FIFO wire, from the extension through the Hub's  *)
(* channels (SessionRegistry, PhoneBridge) to the page: events and the     *)
(* responses to every phone travel on it in order, to a page whose bridge  *)
(* has subscribed.  A lost connection takes what is under way with it.     *)
(* The session stays registered and the page does not lag; the timers and  *)
(* sockets of the page are in Page.                                        *)
(*                                                                         *)
(* Messages are numbered in the order the session starts them, and a text  *)
(* is a sequence of parts <<message, part>>, one for each delta.  Thinking *)
(* bubbles, which a redraw only drops, messages of other roles than user   *)
(* and assistant, toasts and dialogs are left out.  When a message ends,   *)
(* the session is taken to have it among its messages at once.             *)
(***************************************************************************)
EXTENDS Naturals, Sequences

CONSTANTS
  None,         \* null
  Detached,     \* an element that a redraw has taken out of the document
  MaxMessages,  \* bound: messages of the session
  MaxParts,     \* bound: deltas of one message
  MaxTools,     \* bound: tools the session runs
  MaxLosses,    \* bound: times the connection is lost or the view left
  MaxOthers,    \* bound: times another phone asks for the messages
  MaxWire       \* bound: frames on the way to the page at a time

ASSUME ElementAssumption == None # Detached /\ {None, Detached} \cap Nat = {}
\* A message of the user has one part.
ASSUME BoundAssumption ==
  /\ {MaxMessages, MaxParts, MaxTools, MaxLosses, MaxOthers, MaxWire} \subseteq Nat
  /\ MaxParts >= 1

VARIABLES
  history,     \* the messages the session has finished
  live,        \* the message it is writing, if any
  running,     \* whether its agent runs: ~ctx.isIdle()
  tools,       \* the tools under way
  begun,       \* how many tools it has started
  socket,      \* the chat connection: "left", "closed", "connecting" or "open"
  hears,       \* whether the bridge of the connection has subscribed
  asks,        \* commands on the way to the session
  wire,        \* events and responses on the way to the page
  transcript,  \* the bubbles of the transcript
  current,     \* currentAssistantBubble: its place in the transcript
  markdown,    \* currentAssistantMarkdown
  streaming,   \* isStreaming
  cards,       \* the keys of toolBubbles
  spinning,    \* tools whose card stands in the transcript as running
  torn,        \* the message that was being written when the last redraw's
               \* messages were read, or 0 (history)
  losses,      \* what MaxLosses bounds (history)
  others       \* what MaxOthers bounds (history)

sessionVars == <<history, live, running, tools, begun>>
connectionVars == <<socket, hears, asks, wire>>
textVars == <<transcript, current, markdown>>
toolVars == <<cards, spinning>>
pageVars == <<textVars, toolVars, streaming, torn>>
vars == <<sessionVars, connectionVars, pageVars, losses, others>>

Role == {"user", "assistant"}
Message == [role : Role, parts : 0..MaxParts]
ASSUME NullAssumption == None \notin Message
Number == 1..MaxMessages
Text == Seq(Number \X (1..MaxParts))
Bubble == [role : Role, text : Text]
Tool == 1..MaxTools

Event ==
  [type : {"agent_start", "agent_settled"}]
    \cup [type : {"message_start"}, n : Number, role : Role]
    \cup [type : {"message_update"}, n : Number, part : 1..MaxParts]
    \cup [type : {"message_end"}, n : Number, role : Role, text : Text]
    \cup [type : {"tool_execution_start", "tool_execution_end"}, tool : Tool]
Response ==
  [type : {"get_messages"}, messages : Seq(Message), torn : Number \cup {0}]
    \cup [type : {"get_state"}, isStreaming : BOOLEAN]

TypeOK ==
  /\ history \in Seq(Message) /\ live \in Message \cup {None}
  /\ running \in BOOLEAN
  /\ begun \in 0..MaxTools /\ tools \subseteq 1..begun
  /\ socket \in {"left", "closed", "connecting", "open"} /\ hears \in BOOLEAN
  /\ asks \in Seq({"get_messages", "get_state"})
  /\ wire \in Seq(Event \cup Response)
  /\ transcript \in Seq(Bubble) /\ current \in DOMAIN transcript \cup {None, Detached}
  /\ markdown \in Text /\ streaming \in BOOLEAN
  /\ spinning \subseteq Tool /\ cards \subseteq Tool
  /\ torn \in 0..MaxMessages
  /\ losses \in 0..MaxLosses /\ others \in 0..MaxOthers

Init ==
  /\ history = <<>> /\ live = None /\ running = FALSE /\ tools = {} /\ begun = 0
  /\ socket = "left" /\ hears = FALSE /\ asks = <<>> /\ wire = <<>>
  /\ transcript = <<>> /\ current = None /\ markdown = <<>>
  /\ streaming = FALSE /\ cards = {} /\ spinning = {}
  /\ torn = 0 /\ losses = 0 /\ others = 0

\* extractText of message n with k parts.
Whole(n, k) == [p \in 1..k |-> <<n, p>>]

\* The elements of s at the places in I: one after the other is appended or passed
\* over, as the loop of handleResponse does with the messages.
Picked(s, I) ==
  LET upTo[n \in 0..Len(s)] ==
        IF n = 0 THEN <<>>
        ELSE IF n \in I THEN Append(upTo[n - 1], s[n]) ELSE upTo[n - 1]
  IN  upTo[Len(s)]

\* The bubbles of the messages ms: those that have a text (renderHistoryMessage).
Bubbles(ms) ==
  Picked([n \in DOMAIN ms |-> [role |-> ms[n].role, text |-> Whole(n, ms[n].parts)]],
         {n \in DOMAIN ms : ms[n].parts # 0})

-----------------------------------------------------------------------------
(* The session                                                             *)

\* The number of the message being written, or of the next.
Writing == Len(history) + 1

\* An event, or a response, goes to whoever is subscribed.
Sent(frame) ==
  /\ Len(wire) < MaxWire
  /\ wire' = IF hears THEN Append(wire, frame) ELSE wire

Forward(event) ==
  Sent(event) /\ UNCHANGED <<socket, hears, asks, pageVars, losses, others>>

AgentStarts ==
  /\ ~running /\ Len(history) < MaxMessages
  /\ running' = TRUE
  /\ Forward([type |-> "agent_start"])
  /\ UNCHANGED <<history, live, tools, begun>>

AgentSettles ==
  /\ running /\ live = None /\ tools = {}
  /\ running' = FALSE
  /\ Forward([type |-> "agent_settled"])
  /\ UNCHANGED <<history, live, tools, begun>>

MessageStarts(role) ==
  /\ running /\ live = None /\ tools = {} /\ Len(history) < MaxMessages
  /\ live' = [role |-> role, parts |-> IF role = "user" THEN 1 ELSE 0]
  /\ Forward([type |-> "message_start", n |-> Writing, role |-> role])
  /\ UNCHANGED <<history, running, tools, begun>>

MessageGrows ==
  /\ live # None /\ live.role = "assistant" /\ live.parts < MaxParts
  /\ live' = [live EXCEPT !.parts = @ + 1]
  /\ Forward([type |-> "message_update", n |-> Writing, part |-> live.parts + 1])
  /\ UNCHANGED <<history, running, tools, begun>>

MessageEnds ==
  /\ live # None
  /\ history' = Append(history, live)
  /\ live' = None
  /\ Forward([type |-> "message_end", n |-> Writing, role |-> live.role,
              text |-> Whole(Writing, live.parts)])
  /\ UNCHANGED <<running, tools, begun>>

ToolStarts ==
  /\ running /\ live = None /\ begun < MaxTools
  /\ begun' = begun + 1 /\ tools' = tools \cup {begun + 1}
  /\ Forward([type |-> "tool_execution_start", tool |-> begun + 1])
  /\ UNCHANGED <<history, live, running>>

ToolEnds(t) ==
  /\ t \in tools
  /\ tools' = tools \ {t}
  /\ Forward([type |-> "tool_execution_end", tool |-> t])
  /\ UNCHANGED <<history, live, running, begun>>

\* buildMessages: what is finished; the message being written is not among them.
Messages == [type |-> "get_messages", messages |-> history,
             torn |-> IF live = None THEN 0 ELSE Writing]

\* buildState, of which the page takes one field.
State == [type |-> "get_state", isStreaming |-> running]

\* The command handler answers in order, once the bridge has read the command,
\* for which it has subscribed.
Answers ==
  /\ hears /\ asks # <<>>
  /\ asks' = Tail(asks)
  /\ Sent(IF Head(asks) = "get_messages" THEN Messages ELSE State)
  /\ UNCHANGED <<sessionVars, socket, hears, pageVars, losses, others>>

\* The responses to another phone that opens this session go to every phone.
AnswersOther ==
  /\ hears /\ others < MaxOthers
  /\ others' = others + 1
  /\ Sent(Messages) \/ Sent(State)
  /\ UNCHANGED <<sessionVars, socket, hears, asks, pageVars, losses>>

-----------------------------------------------------------------------------
(* The connection                                                          *)

\* setStreaming: the end of a run forgets the bubble.
SetStreaming(on) ==
  /\ streaming' = on
  /\ IF on THEN UNCHANGED <<current, markdown>> ELSE current' = None /\ markdown' = <<>>

\* Chat.open, when the view was left.
Open ==
  /\ socket = "left"
  /\ socket' = "connecting"
  /\ transcript' = <<>> /\ spinning' = {} /\ torn' = 0
  /\ UNCHANGED <<sessionVars, hears, asks, wire, current, markdown, streaming, cards, losses, others>>

\* The retry: connect keeps what the page has.
Reconnect ==
  /\ socket = "closed"
  /\ socket' = "connecting"
  /\ UNCHANGED <<sessionVars, hears, asks, wire, pageVars, losses, others>>

\* The bridge subscribes once the connection is up, before or after the page
\* hears that it is.
Subscribes ==
  /\ socket \in {"connecting", "open"} /\ ~hears
  /\ hears' = TRUE
  /\ UNCHANGED <<sessionVars, socket, asks, wire, pageVars, losses, others>>

\* The "open" event.
\* Fault: the page asks for the messages alone.
OnOpenMessages ==
  /\ socket = "connecting"
  /\ socket' = "open"
  /\ asks' = <<"get_messages">>
  /\ UNCHANGED <<sessionVars, hears, wire, pageVars, losses, others>>

OnOpen ==
  /\ socket = "connecting"
  /\ socket' = "open"
  /\ asks' = <<"get_messages", "get_state">>
  /\ UNCHANGED <<sessionVars, hears, wire, pageVars, losses, others>>

\* The connection goes, and with it what was under way.
Drops == hears' = FALSE /\ asks' = <<>> /\ wire' = <<>> /\ losses' = losses + 1

\* The "close" event: nothing of the transcript is touched.
OnClose ==
  /\ socket \in {"connecting", "open"} /\ losses < MaxLosses
  /\ socket' = "closed"
  /\ Drops
  /\ UNCHANGED <<sessionVars, pageVars, others>>

\* Chat.close: the user goes back to the list.
Close ==
  /\ socket # "left" /\ losses < MaxLosses
  /\ socket' = "left"
  /\ Drops
  /\ SetStreaming(FALSE) /\ cards' = {}
  /\ UNCHANGED <<sessionVars, transcript, spinning, torn, others>>

-----------------------------------------------------------------------------
(* handleEvent                                                             *)

Receives(type) ==
  /\ socket = "open" /\ wire # <<>> /\ Head(wire).type = type
  /\ wire' = Tail(wire)
  /\ UNCHANGED <<sessionVars, socket, hears, asks, losses, others>>

\* get_messages: the transcript is drawn again.  The bubble of a message being
\* written is out of the document from then on, and still written to.
\* Fault: the bubble is remembered by its place.
RedrawByPlace ==
  /\ Receives("get_messages")
  /\ transcript' = Bubbles(Head(wire).messages)
  /\ spinning' = {}
  /\ torn' = Head(wire).torn
  /\ UNCHANGED <<current, markdown, streaming, cards>>

Redraw ==
  /\ Receives("get_messages")
  /\ transcript' = Bubbles(Head(wire).messages)
  /\ current' = IF current = None THEN None ELSE Detached
  /\ spinning' = {}
  /\ torn' = Head(wire).torn
  /\ UNCHANGED <<markdown, streaming, cards>>

OnState ==
  /\ Receives("get_state")
  /\ SetStreaming(Head(wire).isStreaming)
  /\ UNCHANGED <<transcript, toolVars, torn>>

OnAgent ==
  /\ \/ Receives("agent_start") /\ SetStreaming(TRUE)
     \/ Receives("agent_settled") /\ SetStreaming(FALSE)
  /\ UNCHANGED <<transcript, toolVars, torn>>

\* Fault: the bubble of the message before is kept.
OnMessageStartKeeps ==
  /\ Receives("message_start")
  /\ transcript' = IF Head(wire).role = "user"
                   THEN Append(transcript, [role |-> "user", text |-> Whole(Head(wire).n, 1)])
                   ELSE transcript
  /\ UNCHANGED <<current, markdown, toolVars, streaming, torn>>

OnMessageStart ==
  /\ Receives("message_start")
  /\ IF Head(wire).role = "user"
     THEN /\ transcript' = Append(transcript, [role |-> "user", text |-> Whole(Head(wire).n, 1)])
          /\ UNCHANGED <<current, markdown>>
     ELSE current' = None /\ markdown' = <<>> /\ UNCHANGED transcript
  /\ UNCHANGED <<toolVars, streaming, torn>>

\* setBubbleContent of the current bubble, appended first if there is none.
Write(text) ==
  /\ markdown' = text
  /\ CASE current = None ->
            /\ transcript' = Append(transcript, [role |-> "assistant", text |-> text])
            /\ current' = Len(transcript) + 1
       [] current = Detached -> UNCHANGED <<transcript, current>>
       [] OTHER -> transcript' = [transcript EXCEPT ![current].text = text] /\ UNCHANGED current

\* handleAssistantDelta
OnDelta ==
  /\ Receives("message_update")
  /\ Write(Append(markdown, <<Head(wire).n, Head(wire).part>>))
  /\ UNCHANGED <<toolVars, streaming, torn>>

OnMessageEnd ==
  /\ Receives("message_end")
  /\ IF Head(wire).role = "assistant" /\ Head(wire).text # <<>>
     THEN Write(Head(wire).text) ELSE UNCHANGED textVars
  /\ UNCHANGED <<toolVars, streaming, torn>>

OnToolStart ==
  /\ Receives("tool_execution_start")
  /\ cards' = cards \cup {Head(wire).tool} /\ spinning' = spinning \cup {Head(wire).tool}
  /\ UNCHANGED <<textVars, streaming, torn>>

\* A card that a redraw has dropped is still found, and forgotten.
OnToolEnd ==
  /\ Receives("tool_execution_end")
  /\ cards' = cards \ {Head(wire).tool} /\ spinning' = spinning \ {Head(wire).tool}
  /\ UNCHANGED <<textVars, streaming, torn>>

-----------------------------------------------------------------------------

SessionStep ==
  \/ AgentStarts \/ AgentSettles
  \/ \E role \in Role : MessageStarts(role)
  \/ MessageGrows \/ MessageEnds
  \/ ToolStarts \/ \E t \in Tool : ToolEnds(t)
  \/ Answers \/ AnswersOther

PageStep ==
  \/ Open \/ Reconnect \/ OnOpen \/ OnClose \/ Close
  \/ Redraw \/ OnState \/ OnAgent
  \/ OnMessageStart \/ OnDelta \/ OnMessageEnd
  \/ OnToolStart \/ OnToolEnd

Next == SessionStep \/ Subscribes \/ PageStep

Spec == Init /\ [][Next]_vars

-----------------------------------------------------------------------------
(* Properties                                                              *)

\* The page is connected and nothing is under way to or from it.
AtRest == socket = "open" /\ hears /\ asks = <<>> /\ wire = <<>>

\* The bubbles of s but those of the torn message.
Untorn(s) == Picked(s, {k \in DOMAIN s : s[k].text[1][1] # torn})

\* At rest the transcript is the session's: every message with a text, each once,
\* in order and with its own whole text, the one being written as far as it has
\* come.  Whatever was lost, asked for twice or redrawn meanwhile, only the
\* message that was being written as the last redraw was read may be missing.
TranscriptExact ==
  AtRest => Untorn(transcript) = Untorn(Bubbles(IF live = None THEN history ELSE Append(history, live)))

\* At rest the abort button and the label of the send button tell whether the
\* agent runs, and no card shows a tool as running that has ended, though the start
\* or the end of either may have been lost with a connection.
ActivityTrue == AtRest => streaming = running /\ spinning \subseteq tools
=============================================================================
