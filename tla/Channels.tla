------------------------------ MODULE Channels ------------------------------
(***************************************************************************)
(* The two tokio channels the Hub is built on, as far as the Hub uses      *)
(* them (they are library code: modelled from their use, not translated).  *)
(*                                                                         *)
(* broadcast: every receiver has a position of its own in a ring of fixed  *)
(*   capacity.  A channel is the function from its live receivers to what  *)
(*   each has still to read.  A receiver the sender overruns loses the     *)
(*   oldest messages, and its next recv() reports that it lagged.          *)
(*                                                                         *)
(* watch: one value and, per receiver, whether it has a version it has not *)
(*   seen.  Two facts of the library matter to the Hub: send() FAILS and   *)
(*   leaves the value as it was when there is no receiver, and a receiver  *)
(*   that subscribes counts the present value as seen.                     *)
(***************************************************************************)
EXTENDS Naturals, Sequences

Receivers(Msg) == [queue : Seq(Msg), lagged : BOOLEAN]

\* A broadcast channel of Msg that members of S may have subscribed to.
IsChannel(ch, S, Msg) ==
  DOMAIN ch \subseteq S /\ ch \in [DOMAIN ch -> Receivers(Msg)]

\* broadcast::channel, once its first receiver has been dropped
NoReceivers == [r \in {} |-> <<>>]

Subscribe(ch, r) ==
  [x \in DOMAIN ch \cup {r} |->
     IF x = r THEN [queue |-> <<>>, lagged |-> FALSE] ELSE ch[x]]

Unsubscribe(ch, r) == [x \in DOMAIN ch \ {r} |-> ch[x]]

\* What one receiver has to read after a send on a ring of `cap` messages.
Deliver(rx, msg, cap) ==
  IF Len(rx.queue) < cap
  THEN [rx EXCEPT !.queue = Append(@, msg)]
  ELSE [queue |-> Append(Tail(rx.queue), msg), lagged |-> TRUE]

Send(ch, msg, cap) == [r \in DOMAIN ch |-> Deliver(ch[r], msg, cap)]

\* recv() returning Err(Lagged): the receiver resumes at the oldest message kept.
LagReported(ch, r) == [ch EXCEPT ![r].lagged = FALSE]

\* recv() returning Ok(Head(ch[r].queue))
CanRecv(ch, r) == r \in DOMAIN ch /\ ~ch[r].lagged /\ ch[r].queue # <<>>
Received(ch, r) == [ch EXCEPT ![r].queue = Tail(@)]

-----------------------------------------------------------------------------

\* A watch channel of a Boolean that members of S may have subscribed to.
IsWatch(w, S) ==
  /\ w = [value |-> w.value, unseen |-> w.unseen]
  /\ w.value \in BOOLEAN
  /\ DOMAIN w.unseen \subseteq S
  /\ w.unseen \in [DOMAIN w.unseen -> BOOLEAN]

NewWatch(v) == [value |-> v, unseen |-> [r \in {} |-> FALSE]]

WatchSubscribe(w, r) ==
  [value  |-> w.value,
   unseen |-> [x \in DOMAIN w.unseen \cup {r} |->
                 IF x = r THEN FALSE ELSE w.unseen[x]]]

WatchUnsubscribe(w, r) ==
  [value |-> w.value, unseen |-> [x \in DOMAIN w.unseen \ {r} |-> w.unseen[x]]]

WatchSend(w, v) ==
  IF DOMAIN w.unseen = {}
  THEN w
  ELSE [value |-> v, unseen |-> [r \in DOMAIN w.unseen |-> TRUE]]

\* changed() is ready
WatchChanged(w, r) == r \in DOMAIN w.unseen /\ w.unseen[r]
=============================================================================
