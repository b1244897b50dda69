-------------------------------- MODULE Page --------------------------------
(***************************************************************************)
(* The connections of one page of the phone app (assets/app.js): the       *)
(* control channel of Sessions, the chat connection of Chat, and the       *)
(* router that opens and closes both.                                      *)
(*                                                                         *)
(* JavaScript is single-threaded, so an action is one callback run to its  *)
(* end; what interleaves is the user, the fetch that Sessions.start        *)
(* awaits, the timers and the events of the sockets.  The events of a      *)
(* socket that was closed come later, and act on whatever the variables    *)
(* hold by then.  What is in the list is in ControlClients: what the       *)
(* frames and the responses to the fetches do to it, and the fetch of a    *)
(* page loaded at a chat, which opens no connection.                       *)
(***************************************************************************)
EXTENDS Naturals, FiniteSets

CONSTANTS
  Session,         \* session ids
  None,            \* null
  MaxSockets,      \* bound: sockets of one page at a time
  MaxPending,      \* bound: forgotten timers, and fetches, pending at a time
  MaxMoves,        \* bound: times the user goes elsewhere or resizes
  MaxLosses        \* bound: times the Hub, or a session, becomes unreachable

Socket == 1..MaxSockets
Target == Session \cup {"control"}

ASSUME NoneAssumption == None \notin Session \cup Nat \cup {"sessions", "control"}
ASSUME RouteAssumption == "sessions" \notin Session /\ "control" \notin Session
\* A page begins with a socket to a session, or with two fetches.
ASSUME BoundAssumption ==
  /\ {MaxSockets, MaxPending, MaxMoves, MaxLosses} \subseteq Nat
  /\ MaxSockets >= 1 /\ MaxPending >= 2

VARIABLES
  route,       \* currentRoute(): "sessions", or the session of the chat view
  desktop,     \* isDesktop()
  socks,       \* socket -> its readyState and what it is a connection to
  channel,     \* Sessions.controlSocket
  starts,      \* calls of Sessions.start that await their fetch
  railTimer,   \* whether the timer in Sessions.reconnectTimer is pending
  railOrphans, \* pending timers of Sessions that reconnectTimer has forgotten
  chat,        \* Chat.socket
  current,     \* Chat.currentSessionId
  chatTimer,   \* as railTimer and railOrphans, for Chat
  chatOrphans,
  there,       \* what a new connection can reach
  authorized,  \* whether the page's requests come through Tailscale
  moves,       \* times the user moved (bound)
  losses,      \* times something became unreachable (bound)
  hurried      \* whether a route was rendered before the page had settled (history)

railVars == <<channel, starts, railTimer, railOrphans>>
chatVars == <<chat, current, chatTimer, chatOrphans>>
userVars == <<route, desktop, moves, hurried>>
hubVars == <<there, authorized, losses>>
vars == <<userVars, socks, railVars, chatVars, hubVars>>

\* "failing": closed before it was open; its events are still to come.
ReadyState == {"connecting", "open", "closing", "failing"}
Closed == [state |-> "closed", to |-> None]

TypeOK ==
  /\ route \in Session \cup {"sessions"} /\ desktop \in BOOLEAN
  /\ socks \in [Socket -> {Closed} \cup [state : ReadyState, to : Target]]
  /\ channel \in Socket \cup {None} /\ chat \in Socket \cup {None}
  /\ current \in Session \cup {None}
  /\ starts \in 0..MaxPending
  /\ railTimer \in BOOLEAN /\ chatTimer \in BOOLEAN
  /\ railOrphans \in 0..MaxPending /\ chatOrphans \in 0..MaxPending
  /\ there \subseteq Target /\ authorized \in BOOLEAN /\ hurried \in BOOLEAN
  /\ moves \in 0..MaxMoves /\ losses \in 0..MaxLosses

-----------------------------------------------------------------------------
(* Sockets                                                                 *)

\* The sockets ss after socket?.close() on x.
HungUp(ss, x) ==
  [s \in Socket |->
     IF s = x /\ ss[s].state = "connecting" THEN [ss[s] EXCEPT !.state = "failing"]
     ELSE IF s = x /\ ss[s].state = "open" THEN [ss[s] EXCEPT !.state = "closing"]
     ELSE ss[s]]

\* The socket that new WebSocket returns, with the sockets ss and those of held
\* in variables.
Fresh(ss, held) ==
  LET free == {s \in Socket : ss[s] = Closed /\ s \notin held}
  IN {s \in free : \A t \in free : s <= t}

Dialled(ss, s, to) == [ss EXCEPT ![s] = [state |-> "connecting", to |-> to]]

\* Timing: a retry waits for a second or more, by when the browser, which needs
\* no network for it, has reported a socket that it gave up.
NoneFailing == \A s \in Socket : socks[s].state # "failing"

-----------------------------------------------------------------------------
(* Sessions                                                                *)

\* start, up to its fetch.
\* Fault: without the test for a socket.
StartAlways ==
  /\ starts < MaxPending /\ starts' = starts + 1
  /\ UNCHANGED <<channel, railTimer, railOrphans>>

Start ==
  /\ IF channel = None THEN starts < MaxPending /\ starts' = starts + 1 ELSE starts' = starts
  /\ UNCHANGED <<channel, railTimer, railOrphans>>

\* connectControlChannel, whose caller sees to the timers and starts.
ConnectControl ==
  \E s \in Fresh(socks, {channel, chat}) :
    /\ channel' = s
    /\ socks' = Dialled(socks, s, "control")

\* The fetch is over: unless it was a 401 the channel is opened, whatever the
\* page shows by now.  What its response does to the list is in ControlClients.
FetchReturns ==
  /\ starts > 0 /\ starts' = starts - 1
  /\ IF authorized THEN ConnectControl ELSE UNCHANGED <<channel, socks>>
  /\ UNCHANGED <<railTimer, railOrphans, userVars, chatVars, hubVars>>

RailTimerFires ==
  /\ NoneFailing
  /\ \/ railTimer /\ railTimer' = FALSE /\ UNCHANGED railOrphans
     \/ railOrphans > 0 /\ railOrphans' = railOrphans - 1 /\ UNCHANGED railTimer
  /\ ConnectControl
  /\ UNCHANGED <<starts, userVars, chatVars, hubVars>>

\* stopControlChannel, but for the sockets.
Stop == railTimer' = FALSE /\ channel' = None /\ UNCHANGED <<starts, railOrphans>>

\* Where the control channel is wanted.
RailShown == route = "sessions" \/ desktop

\* The close handler, with scheduleReconnect: it does not ask whose event it is.
\* Fault: the desktop's rail is forgotten.
RailClosesPhone ==
  /\ channel' = None
  /\ railTimer' = (railTimer \/ route = "sessions")
  /\ railOrphans' = IF route = "sessions" /\ railTimer THEN railOrphans + 1 ELSE railOrphans
  /\ railOrphans' <= MaxPending
  /\ UNCHANGED <<starts, chatVars>>

RailCloses ==
  /\ channel' = None
  /\ railTimer' = (railTimer \/ RailShown)
  /\ railOrphans' = IF RailShown /\ railTimer THEN railOrphans + 1 ELSE railOrphans
  /\ railOrphans' <= MaxPending
  /\ UNCHANGED <<starts, chatVars>>

-----------------------------------------------------------------------------
(* Chat                                                                    *)

\* close, but for the sockets.
CloseChat == chat' = None /\ current' = None /\ chatTimer' = FALSE /\ UNCHANGED chatOrphans

\* open, given the sockets so far.
OpenChat(r, ss) ==
  IF current = r /\ chat # None THEN socks' = ss /\ UNCHANGED chatVars
  ELSE \E s \in Fresh(HungUp(ss, chat), {channel}) :
         /\ chat' = s /\ socks' = Dialled(HungUp(ss, chat), s, r)
         /\ current' = r /\ chatTimer' = FALSE /\ UNCHANGED chatOrphans

\* connect, from a timer: to the session of the view by then, if there is one.
\* Fault: without the return when there is none.
ChatTimerDials ==
  /\ NoneFailing
  /\ \/ chatTimer /\ chatTimer' = FALSE /\ UNCHANGED chatOrphans
     \/ chatOrphans > 0 /\ chatOrphans' = chatOrphans - 1 /\ UNCHANGED chatTimer
  /\ \E s \in Fresh(socks, {channel, chat}) :
        chat' = s /\ socks' = Dialled(socks, s, current)
  /\ UNCHANGED <<current, userVars, railVars, hubVars>>

ChatTimerFires ==
  /\ NoneFailing
  /\ \/ chatTimer /\ chatTimer' = FALSE /\ UNCHANGED chatOrphans
     \/ chatOrphans > 0 /\ chatOrphans' = chatOrphans - 1 /\ UNCHANGED chatTimer
  /\ IF current = None THEN UNCHANGED <<chat, socks>>
     ELSE \E s \in Fresh(socks, {channel, chat}) :
            chat' = s /\ socks' = Dialled(socks, s, current)
  /\ UNCHANGED <<current, userVars, railVars, hubVars>>

\* The close handler, with scheduleReconnect.
ChatCloses ==
  LET again == route # "sessions" /\ current # None IN
    /\ chatTimer' = (chatTimer \/ again)
    /\ chatOrphans' = IF again /\ chatTimer THEN chatOrphans + 1 ELSE chatOrphans
    /\ chatOrphans' <= MaxPending
    /\ UNCHANGED <<chat, current, railVars>>

-----------------------------------------------------------------------------
(* Events of a socket                                                      *)

OnOpen(s) ==
  /\ socks[s].state = "connecting" /\ socks[s].to \in there
  /\ socks' = [socks EXCEPT ![s].state = "open"]
  /\ UNCHANGED <<userVars, railVars, chatVars, hubVars>>

\* "close" of a socket that was open: it was closed here, or the Hub is gone.
\* Fault: a chat reconnects after an error only.
OnCloseRail(s) ==
  /\ socks[s].state = "closing" \/ (socks[s].state = "open" /\ there = {})
  /\ socks' = [socks EXCEPT ![s] = Closed]
  /\ IF socks[s].to = "control" THEN RailCloses ELSE UNCHANGED <<railVars, chatVars>>
  /\ UNCHANGED <<userVars, hubVars>>

OnClose(s) ==
  /\ socks[s].state = "closing" \/ (socks[s].state = "open" /\ there = {})
  /\ socks' = [socks EXCEPT ![s] = Closed]
  /\ IF socks[s].to = "control" THEN RailCloses ELSE ChatCloses
  /\ UNCHANGED <<userVars, hubVars>>

\* "error" and "close" of one that was not: the handler of the first closes what
\* the variable holds, which may be a later socket.
OnFail(s) ==
  /\ socks[s].state = "failing" \/ (socks[s].state = "connecting" /\ socks[s].to \notin there)
  /\ LET ss == [socks EXCEPT ![s] = Closed] IN
       IF socks[s].to = "control" THEN socks' = HungUp(ss, channel) /\ RailCloses
                                  ELSE socks' = HungUp(ss, chat) /\ ChatCloses
  /\ UNCHANGED <<userVars, hubVars>>

-----------------------------------------------------------------------------
(* The user and the Hub                                                    *)

\* renderRoute, at route r on a screen as wide as d says.
Render(r, d) ==
  /\ route' = r /\ desktop' = d
  /\ IF r = "sessions"
     THEN CloseChat /\ socks' = HungUp(socks, chat) /\ Start
     ELSE IF d THEN Start /\ OpenChat(r, socks)
     ELSE Stop /\ OpenChat(r, HungUp(socks, channel))

\* The page has nothing under way; a move from a chat to another is never slow
\* enough, as the first socket is still closing when the second is opened.
Settled ==
  /\ starts = 0 /\ ~railTimer /\ ~chatTimer /\ railOrphans = 0 /\ chatOrphans = 0
  /\ \A s \in Socket : socks[s].state \in {"closed", "open"}

\* A hashchange, or a resize across the breakpoint.
Move(r, d) ==
  /\ <<r, d>> # <<route, desktop>> /\ (r = route \/ d = desktop)
  /\ moves < MaxMoves /\ moves' = moves + 1
  /\ hurried' = (hurried \/ ~Settled \/ (r # route /\ "sessions" \notin {r, route}))
  /\ Render(r, d)
  /\ UNCHANGED hubVars

\* What the proxy in front of the Hub stamps on a request: who is asking, and
\* whether it came from the public internet.
Headers == [login : {"absent", "unreadable", "empty", "named"}, funnel : BOOLEAN]

is_authorized_tailscale(headers) == ~headers.funnel /\ headers.login = "named"

\* A page is loaded and renders its route for the first time; without a hash in
\* its URL it sets one, which renders the list a second time.  The fetch of one
\* loaded at a chat, beside that of start, is a call of ControlClients.
Init ==
  /\ route \in Session \cup {"sessions"} /\ desktop \in BOOLEAN
  /\ \E headers \in Headers : authorized = is_authorized_tailscale(headers)
  /\ there = IF authorized THEN Target ELSE {}
  /\ channel = None /\ railTimer = FALSE /\ railOrphans = 0
  /\ starts \in IF route = "sessions" THEN {1, 2} ELSE IF desktop THEN {1} ELSE {0}
  /\ chatTimer = FALSE /\ chatOrphans = 0
  /\ IF route = "sessions"
     THEN chat = None /\ current = None /\ socks = [s \in Socket |-> Closed]
     ELSE chat = 1 /\ current = route /\ socks = Dialled([s \in Socket |-> Closed], 1, route)
  /\ losses = 0 /\ moves = 0 /\ hurried = (starts = 2)

\* The Hub goes away, and its connections with it; or a session alone, whose
\* bridges stay open.
Lose(gone) ==
  /\ authorized /\ there = Target /\ losses < MaxLosses
  /\ there' = there \ gone /\ losses' = losses + 1
  /\ UNCHANGED <<userVars, socks, railVars, chatVars, authorized>>

Recover ==
  /\ authorized /\ there # Target
  /\ there' = Target
  /\ UNCHANGED <<userVars, socks, railVars, chatVars, authorized, losses>>

Event(s) == OnOpen(s) \/ OnClose(s) \/ OnFail(s)

Next ==
  \/ \E s \in Socket : Event(s)
  \/ FetchReturns \/ RailTimerFires \/ ChatTimerFires
  \/ \E r \in Session \cup {"sessions"}, d \in BOOLEAN : Move(r, d)
  \/ \E r \in Session : Lose({r})
  \/ Lose(Target)
  \/ Recover

\* The browser delivers events and fires timers.
Fairness ==
  /\ \A s \in Socket : WF_vars(Event(s))
  /\ WF_vars(FetchReturns) /\ WF_vars(RailTimerFires) /\ WF_vars(ChatTimerFires)

Spec == Init /\ [][Next]_vars
FairSpec == Spec /\ Fairness

-----------------------------------------------------------------------------
(* Properties                                                              *)

\* No order of events, timers and moves leaves a view without a connection and
\* without anything that will open one: each guard of scheduleReconnect, each
\* reset and each early return of start and open must agree with the others.
NotStranded ==
  /\ RailShown /\ authorized =>
       starts > 0 \/ railTimer \/ railOrphans > 0
         \/ (channel # None /\ socks[channel].state # "closed")
  /\ route # "sessions" =>
       /\ current = route
       /\ chatTimer \/ chatOrphans > 0 \/ (chat # None /\ socks[chat].state # "closed")

\* Sessions.start is "a no-op once a socket already exists", "one screen owns the
\* control channel at a time" on the phone, and the chat view is "for one
\* session": while the user moves only when the page has settled, and not from
\* chat to chat, every live socket is the one its variable holds, for what is
\* shown.
OneOwner ==
  ~hurried =>
    \A s \in Socket : socks[s].state \in {"connecting", "open"} =>
      \/ s = channel /\ socks[s].to = "control" /\ RailShown
      \/ s = chat /\ socks[s].to = current /\ current = route

\* A chat view's messages are those of its session: no socket to another one is
\* still open, to be heard by handleEvent.
ChatForOneSession ==
  \A s \in Socket : socks[s].state = "open" /\ socks[s].to \in Session => socks[s].to = current

\* The model has no socket left to open, or no timer to set.
Out == \/ Fresh(socks, {channel, chat}) = {}
       \/ railOrphans = MaxPending \/ chatOrphans = MaxPending

\* The list, where it is shown, gets a live control channel, and a chat view one to
\* its session, after every loss and whatever the user did before.
ViewsLive ==
  /\ RailShown ~> \/ channel # None /\ socks[channel].state = "open"
                  \/ ~RailShown \/ "control" \notin there \/ Out
  /\ \A r \in Session :
       route = r ~> \/ chat # None /\ socks[chat] = [state |-> "open", to |-> r]
                    \/ route # r \/ r \notin there \/ Out
=============================================================================
