---------------------------- MODULE ControlClients ----------------------------
(***************************************************************************)
(* The session list on the phones: the /ws/control connections             *)
(* (server/control.rs), GET /api/sessions (server/sessions_api.rs) and the *)
(* list the page makes of both (assets/app.js), composed with the registry *)
(* and its tasks.                                                          *)
(*                                                                         *)
(* A member of Phone is one connection: the page that reconnects is a new  *)
(* member, with a list that starts from a new snapshot.  The socket is     *)
(* FIFO, so a frame is sent by the Hub and folded by the page in one step; *)
(* how far a phone is behind is what its receiver still holds.  A response *)
(* to a GET has no place in that order: the list it carries is read at one *)
(* moment and replaces the page's at a later one.                          *)
(***************************************************************************)
EXTENDS SessionRegistry

VARIABLES
  phone,    \* connection -> where its /ws/control task and its page are
  view,     \* connection -> `sessions' of app.js: present id -> summary
  skipped,  \* connection -> whether its task was ever told it lagged (history)
  fetch,    \* connection -> call of fetchSnapshot -> how far it is
  answer,   \* connection -> call of fetchSnapshot -> the list of its response
  stale     \* connection -> whether a response replaced what is newer (history)

fetchVars == <<fetch, answer, stale>>
phoneVars == <<phone, view, skipped, fetchVars>>
allVars == <<vars, phoneVars>>

PhonePc == {"off", "subscribed", "live", "closed", "ended"}

\* The calls of fetchSnapshot: the one start waits for, if start opens the
\* connection, and one nobody waits for: that of a page loaded at a chat, or of a
\* second start.
Call == {"start", "warm"}

\* "overtaken": the page folded a frame after the list of the response was read.
FetchPc == {"idle", "asked", "answered", "overtaken"}

NoList == [i \in {} |-> None]

ControlInit ==
  /\ Init
  /\ phone = [p \in Phone |-> "off"]
  /\ view = [p \in Phone |-> NoList]
  /\ skipped = [p \in Phone |-> FALSE]
  /\ fetch \in [Phone -> [Call -> {"idle", "asked"}]]
  /\ answer = [p \in Phone |-> [k \in Call |-> NoList]]
  /\ stale = [p \in Phone |-> FALSE]

-----------------------------------------------------------------------------
(* The /ws/control task of one connection                                  *)

PhoneGoto(p, label) == phone' = [phone EXCEPT ![p] = label]

registryVars == <<sessions, watch, events, status, meta, agentVars, watcherVars>>

\* The page connects, from start once its fetch is over or from its timer, and the
\* task subscribes before it takes its snapshot.
ControlSubscribe(p) ==
  /\ phone[p] = "off" /\ fetch[p]["start"] = "idle"
  /\ control' = Subscribe(control, p)
  /\ PhoneGoto(p, "subscribed")
  /\ UNCHANGED <<registryVars, view, skipped, fetchVars>>

\* SessionRegistry::list
List == [i \in DOMAIN sessions |-> SummaryOf(sessions[i])]

\* What the page folds is newer than the lists read before.
Overtake(p) ==
  fetch' = [fetch EXCEPT ![p] = [k \in Call |-> IF @[k] = "answered" THEN "overtaken" ELSE @[k]]]

\* The sessions_snapshot frame replaces the page's list.
ControlSnapshot(p) ==
  /\ phone[p] = "subscribed"
  /\ view' = [view EXCEPT ![p] = List]
  /\ PhoneGoto(p, "live")
  /\ Overtake(p)
  /\ UNCHANGED <<registryVars, control, skipped, answer, stale>>

\* handleControlFrame: every frame with a summary replaces the entry; a
\* session_disconnected marks the entry the page has, if it has one.
\* Fault: session_disconnected is not handled.
FoldUpserts(list, frame) ==
  IF frame.type \in UpsertType
  THEN [i \in DOMAIN list \cup {frame.id} |->
          IF i = frame.id THEN frame.summary ELSE list[i]]
  ELSE list

Fold(list, frame) ==
  IF frame.type \in UpsertType
  THEN [i \in DOMAIN list \cup {frame.id} |->
          IF i = frame.id THEN frame.summary ELSE list[i]]
  ELSE IF frame.id \in DOMAIN list
       THEN [list EXCEPT ![frame.id].connected = FALSE]
       ELSE list

ControlRelay(p) ==
  /\ phone[p] = "live"
  /\ CanRecv(control, p)
  /\ control' = Received(control, p)
  /\ view' = [view EXCEPT ![p] = Fold(@, Head(control[p].queue))]
  /\ Overtake(p)
  /\ UNCHANGED <<registryVars, phone, skipped, answer, stale>>

\* The frames a slow phone lost are only logged.
ControlLagged(p) ==
  /\ phone[p] \in {"live", "closed"}
  /\ control[p].lagged
  /\ control' = LagReported(control, p)
  /\ skipped' = [skipped EXCEPT ![p] = TRUE]
  /\ UNCHANGED <<registryVars, phone, view, fetchVars>>

\* The page closes its socket, or loses it.
PageCloses(p) ==
  /\ phone[p] = "live"
  /\ PhoneGoto(p, "closed")
  /\ UNCHANGED <<vars, view, skipped, fetchVars>>

\* The loop of the task waits on its receiver only: it finds the socket closed
\* when the next frame cannot be sent, and drops the receiver.
ControlEnds(p) ==
  /\ phone[p] = "closed"
  /\ CanRecv(control, p)
  /\ control' = Unsubscribe(control, p)
  /\ PhoneGoto(p, "ended")
  /\ UNCHANGED <<registryVars, view, skipped, fetchVars>>

-----------------------------------------------------------------------------
(* fetchSnapshot                                                           *)

FetchGoto(p, k, label) == fetch' = [fetch EXCEPT ![p][k] = label]

\* GET /api/sessions: the Hub reads its list.
FetchAnswers(p, k) ==
  /\ fetch[p][k] = "asked"
  /\ answer' = [answer EXCEPT ![p][k] = List]
  /\ FetchGoto(p, k, "answered")
  /\ UNCHANGED <<vars, phone, view, skipped, stale>>

\* The response replaces the page's list, whatever that holds by now.
FetchReturns(p, k) ==
  /\ fetch[p][k] \in {"answered", "overtaken"}
  /\ view' = [view EXCEPT ![p] = answer[p][k]]
  /\ answer' = [answer EXCEPT ![p][k] = NoList]
  /\ stale' = [stale EXCEPT ![p] = @ \/ fetch[p][k] = "overtaken"]
  /\ FetchGoto(p, k, "idle")
  /\ UNCHANGED <<vars, phone, skipped>>

\* It is lost, or not ok: the list stays as it is.
FetchFails(p, k) ==
  /\ fetch[p][k] # "idle"
  /\ answer' = [answer EXCEPT ![p][k] = NoList]
  /\ FetchGoto(p, k, "idle")
  /\ UNCHANGED <<vars, phone, view, skipped, stale>>

FetchStep(p, k) == FetchAnswers(p, k) \/ FetchReturns(p, k) \/ FetchFails(p, k)

-----------------------------------------------------------------------------

ControlTask(p) ==
  ControlSnapshot(p) \/ ControlRelay(p) \/ ControlLagged(p) \/ ControlEnds(p)

ControlNext ==
  \/ Next /\ UNCHANGED phoneVars
  \/ \E p \in Phone : ControlTask(p) \/ ControlSubscribe(p) \/ PageCloses(p)
  \/ \E p \in Phone, k \in Call : FetchStep(p, k)

ControlFairness ==
  WF_allVars(\/ (\E c \in Conn : HubTask(c)) /\ UNCHANGED phoneVars
             \/ \E p \in Phone : ControlTask(p))

ControlSpec == ControlInit /\ [][ControlNext]_allVars
FairControlSpec == ControlSpec /\ ControlFairness

-----------------------------------------------------------------------------
(* Properties                                                              *)

Users(i) == {c \in Conn : sid[c] = i}
Shared(i) == \E c, d \in Users(i) : c # d

\* Nothing is under way that concerns i, and the phone has read all it was sent.
AtRest(p, i) ==
  /\ phone[p] = "live"
  /\ ~control[p].lagged /\ control[p].queue = <<>>
  /\ \A c \in Users(i) : /\ pc[c] \in {"reading", "ended"}
                         /\ watcher[c] \notin {"updating", "sending"}

ShownConnected(p, i) == i \in DOMAIN view[p] /\ view[p][i].connected

\* The list agrees with the registry: a phone at rest that lost no frame shows
\* as connected exactly the registered sessions, for an id that one connection
\* has used and that has forwarded no event (a session_update may overtake, as
\* NoGhostSession says).  Subscribing before the snapshot is what this needs.  A
\* response to a GET does no harm unless the page folded a frame between the
\* moment its list was read and the moment it replaced the page's (stale):
\* not even one that comes beside the open channel.
ListExact ==
  \A p \in Phone, i \in Id :
    AtRest(p, i) /\ ~skipped[p] /\ ~stale[p] /\ ~Shared(i) /\ (\A c \in Users(i) : published[c] = 0)
      => (ShownConnected(p, i) <=> i \in DOMAIN sessions)

\* Its summaries agree: for a registered session of one connection the phone at
\* rest shows the status the watcher derived, if there was no rename, and the
\* last name, if there was no event.  No change of either is left unannounced,
\* whenever the phone came, and no response brings an old one back unless a frame
\* overtook it.
SummaryExact ==
  \A p \in Phone, i \in DOMAIN sessions :
    AtRest(p, i) /\ ~skipped[p] /\ ~stale[p] /\ ~Shared(i)
      => /\ i \in DOMAIN view[p]
         /\ meta[sessions[i]] = 0 => view[p][i].status = status[sessions[i]]
         /\ published[sessions[i]] = 0 => view[p][i].meta = meta[sessions[i]]

\* The end of a session that forwarded nothing reaches every phone that stays, and
\* from then on the phone shows it so.
DisconnectShown ==
  \A c \in Conn, p \in Phone, i \in Id :
    <>[](pc[c] = "ended" /\ sid[c] = i /\ published[c] = 0
           => Shared(i) \/ phone[p] # "live" \/ skipped[p] \/ stale[p] \/ ~ShownConnected(p, i))

\* What the documentation says, and the code does not do.
\* ARCHITECTURE.md, Registry changes: connects, disconnects, renames and derived
\* status changes are broadcast, and GET /api/sessions returns a snapshot, "so the
\* session list can render immediately and then stay current".

\* A session that is gone is not shown as connected by a phone at rest, whatever
\* its watcher still had to say.
NoGhostSession ==
  \A p \in Phone, i \in Id \ DOMAIN sessions :
    AtRest(p, i) /\ ~skipped[p] /\ ~stale[p] => ~ShownConnected(p, i)
=============================================================================
