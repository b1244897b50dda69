------------------------------- MODULE Handoff -------------------------------
(***************************************************************************)
(* RC across session replacement: the handoff file that all pi processes   *)
(* of a user share (handoff.ts), and the parts of index.ts and             *)
(* command-dispatch.ts that write, consume and drop its entries.           *)
(*                                                                         *)
(* A process runs one callback at a time, but nothing locks the file: a    *)
(* read, the truncation and the write of an operation are steps between    *)
(* which other processes come.  A truncated file reads as no entries.  The *)
(* clients themselves are in AgentClient; here RC is on or off.  Process   *)
(* numbers are not reused.                                                 *)
(***************************************************************************)
EXTENDS Naturals, FiniteSets

CONSTANTS
  Proc,         \* pi processes, by their pids
  File,         \* session files
  None,         \* no value
  MaxMoves,     \* bound: what users and phones ask for, in all
  MaxFailures   \* bound: writes that fail

ASSUME NoneAssumption == None \notin Proc \cup File
ASSUME BoundAssumption == {MaxMoves, MaxFailures} \subseteq Nat

VARIABLES
  handoff,   \* the file: session file -> pid, for the entries it has
  pi,        \* process -> its session, its RC and the callback it runs
  asked,     \* process -> whether RC was asked for, by /rc or by a phone's replacement,
             \* and was not ended since (history)
  ran,       \* process -> whether RC was on when its last runtime went down (history)
  shared,    \* session files open in two live processes at once (history)
  spoiled,   \* whether operations overlapped, or one was cut short (history)
  moves, failures

history == <<asked, ran, shared>>
vars == <<handoff, pi, history, spoiled, moves, failures>>

Empty == [f \in {} |-> None]
Entries == UNION {[S -> Proc] : S \in SUBSET File}

\* closing: the socket of a client that was closed is not, so commands still come.
Terminal == [at : {"off", "idle", "starting", "stopping", "quitting", "preparing",
                   "checking", "consuming", "gone", "crashed"},
             file : File \cup {None}, previous : File \cup {None}, active : File \cup {None},
             rc : BOOLEAN, closing : BOOLEAN, commandable : BOOLEAN,
             pending : BOOLEAN, remote : BOOLEAN,
             io : {"read", "truncate", "write"}, copy : Entries]

TypeOK ==
  /\ handoff \in Entries
  /\ pi \in [Proc -> Terminal]
  /\ asked \in [Proc -> BOOLEAN]
  /\ ran \in [Proc -> BOOLEAN]
  /\ shared \subseteq File
  /\ spoiled \in BOOLEAN
  /\ moves \in 0..MaxMoves /\ failures \in 0..MaxFailures

Off == [at |-> "off", file |-> None, previous |-> None, active |-> None, rc |-> FALSE,
        closing |-> FALSE, commandable |-> FALSE, pending |-> FALSE, remote |-> FALSE,
        io |-> "read", copy |-> Empty]

Init ==
  /\ handoff = Empty
  /\ pi = [p \in Proc |-> Off]
  /\ asked = [p \in Proc |-> FALSE] /\ ran = [p \in Proc |-> FALSE]
  /\ shared = {} /\ spoiled = FALSE
  /\ moves = 0 /\ failures = 0

\* processAlive
Alive(p) == pi[p].at \notin {"off", "gone", "crashed"}

-----------------------------------------------------------------------------
(* handoff.ts                                                              *)

\* The file the operation under way is about.
Target(p) ==
  CASE pi[p].at = "starting" -> pi[p].file
    [] pi[p].at \in {"checking", "consuming"} -> pi[p].previous
    [] OTHER -> pi[p].active

InOperation(p) == Alive(p) /\ pi[p].at # "idle"

\* hasHandoff: an entry counts if its process is this one or lives.
\* Fault: any entry does.
FoundAny(p, map) == Target(p) \in DOMAIN map

Found(p, map) == Target(p) \in DOMAIN map /\ Alive(map[Target(p)])

\* Whether the operation goes on to write what it read: markHandoff always,
\* dropHandoff if there is an entry, hasHandoff to prune one that does not count.
Writes(p, map) ==
  \/ pi[p].at = "starting"
  \/ Target(p) \in DOMAIN map /\ ~(pi[p].at = "checking" /\ Found(p, map))

\* Fault: a dropped entry keeps its place.
RewrittenInPlace(p) ==
  LET f == Target(p) IN
    [g \in DOMAIN pi[p].copy \cup {f} |->
       IF g = f THEN (IF pi[p].at = "starting" THEN p ELSE None) ELSE pi[p].copy[g]]

Rewritten(p) ==
  LET map == pi[p].copy
      f == Target(p) IN
    IF pi[p].at = "starting"
    THEN [g \in DOMAIN map \cup {f} |-> IF g = f THEN p ELSE map[g]]
    ELSE [g \in DOMAIN map \ {f} |-> map[g]]

\* What the callback does once its operation is over.
Done(p) == [pi[p] EXCEPT !.at = "idle", !.io = "read", !.copy = Empty]

\* session_start, after hasHandoff and after dropHandoff.
AfterCheck(p, found) == IF found THEN [Done(p) EXCEPT !.at = "consuming"] ELSE Done(p)

\* Fault: the new client is started without a mark.
AfterConsumeUnmarked(p) == [Done(p) EXCEPT !.rc = TRUE, !.active = pi[p].file]

AfterConsume(p) == [Done(p) EXCEPT !.at = "starting", !.active = pi[p].file]

After(p, found) ==
  CASE pi[p].at = "starting" -> [Done(p) EXCEPT !.rc = TRUE]
    [] pi[p].at = "stopping" -> [Done(p) EXCEPT !.active = None]
    [] pi[p].at = "quitting" -> [Done(p) EXCEPT !.at = "gone", !.active = None]
    [] pi[p].at = "preparing" -> [Done(p) EXCEPT !.rc = FALSE, !.closing = @ \/ pi[p].rc,
                                                 !.active = None, !.pending = TRUE]
    [] pi[p].at = "checking" -> AfterCheck(p, found)
    [] pi[p].at = "consuming" -> AfterConsume(p)

\* read(), and all of the operation if it has nothing to write.
ReadFile(p) ==
  /\ InOperation(p) /\ pi[p].io = "read"
  /\ pi' = [pi EXCEPT ![p] =
              IF Writes(p, handoff) THEN [@ EXCEPT !.io = "truncate", !.copy = handoff]
              ELSE After(p, Found(p, handoff))]
  /\ spoiled' = (spoiled \/ \E q \in Proc :
                   pi[q].io = "write" \/ (pi[q].io = "truncate" /\ Writes(p, handoff)))
  /\ UNCHANGED <<handoff, history, moves, failures>>

\* write(): writeFileSync opens the file, which empties it, ...
Truncate(p) ==
  /\ pi[p].io = "truncate" /\ Alive(p)
  /\ handoff' = Empty
  /\ pi' = [pi EXCEPT ![p].io = "write"]
  /\ UNCHANGED <<history, spoiled, moves, failures>>

\* ... and writes the map.
WriteFile(p) ==
  /\ pi[p].io = "write" /\ Alive(p)
  /\ handoff' = Rewritten(p)
  /\ pi' = [pi EXCEPT ![p] = After(p, FALSE)]
  /\ UNCHANGED <<history, spoiled, moves, failures>>

\* Either fails: pruning and dropping go on as if they had not; markHandoff
\* throws, and start with it, before it touches the client.
WriteFails(p) ==
  /\ pi[p].io # "read" /\ Alive(p) /\ failures < MaxFailures
  /\ pi' = [pi EXCEPT ![p] = IF @.at = "starting" THEN Done(p) ELSE After(p, FALSE)]
  /\ spoiled' = TRUE /\ failures' = failures + 1
  /\ UNCHANGED <<handoff, history, moves>>

-----------------------------------------------------------------------------
(* index.ts, command-dispatch.ts                                           *)

\* What begins a callback: p waits for input, and its callbacks are done.
Begins(p) == pi[p].at = "idle"
Asks(p) == Begins(p) /\ moves < MaxMoves /\ moves' = moves + 1

\* Sessions that a live process other than p has open, or is leaving.
OpenElsewhere(p) ==
  UNION {{pi[q].file} \cup (IF pi[q].at \in {"checking", "consuming"} THEN {pi[q].previous} ELSE {}) :
         q \in {q \in Proc \ {p} : Alive(q)}}

\* pi is started, with a new session or a given one: session_start has no
\* previous session and does nothing.
Launch(p, f) ==
  /\ pi[p].at = "off"
  /\ pi' = [pi EXCEPT ![p].at = "idle", ![p].file = f]
  /\ shared' = shared \cup ({f} \cap OpenElsewhere(p))
  /\ UNCHANGED <<handoff, asked, ran, spoiled, moves, failures>>

\* start, from the handler of /rc, whose context commands need later.
Starts(p, remote) ==
  /\ pi' = [pi EXCEPT ![p].at = "starting", ![p].active = pi[p].file,
                      ![p].commandable = TRUE, ![p].remote = remote]
  /\ UNCHANGED <<handoff, ran, shared, spoiled, failures>>

Rc(p) ==
  /\ Asks(p)
  /\ Starts(p, pi[p].remote)
  /\ asked' = [asked EXCEPT ![p] = TRUE]

\* /rc sent to itself by the reconnect callback of a remote replacement.
RcMessage(p) ==
  /\ Begins(p) /\ pi[p].remote
  /\ Starts(p, FALSE)
  /\ UNCHANGED <<asked, moves>>

\* stop, and the drop it begins if there is a session to drop.
\* Fault: the drop is left out.
StopOnly(p, dropping, after) ==
  pi' = [pi EXCEPT ![p].rc = FALSE, ![p].closing = @ \/ pi[p].rc,
                   ![p].at = after, ![p].active = None]

Stop(p, dropping, after) ==
  pi' = [pi EXCEPT ![p].rc = FALSE, ![p].closing = @ \/ pi[p].rc,
                   ![p].at = IF pi[p].active # None THEN dropping ELSE after]

\* It does not end what a phone has under way.
RcStop(p) ==
  /\ Asks(p)
  /\ Stop(p, "stopping", "idle")
  /\ asked' = [asked EXCEPT ![p] = pi[p].pending \/ pi[p].remote]
  /\ UNCHANGED <<handoff, ran, shared, spoiled, failures>>

\* The socket of the closed client is closed at last, or lost.
SocketCloses(p) ==
  /\ Begins(p) /\ pi[p].closing
  /\ pi' = [pi EXCEPT ![p].closing = FALSE]
  /\ UNCHANGED <<handoff, history, spoiled, moves, failures>>

\* session_shutdown with "quit", then the process ends.
Quit(p) ==
  /\ Begins(p)
  /\ Stop(p, "quitting", "gone")
  /\ UNCHANGED <<handoff, history, spoiled, moves, failures>>

\* session_shutdown in the old runtime, which keeps the entry, then session_start
\* in the new one, with the session it follows.  f is a fresh session, another or
\* the same (/new, /resume, /fork, /reload).  What the old runtime's closing socket
\* still brings finds a stale context.
NewRuntime(p, f, remote) ==
  /\ pi' = [pi EXCEPT ![p] = [Off EXCEPT !.at = "checking", !.file = f,
                                         !.previous = pi[p].file, !.remote = remote]]
  /\ ran' = [ran EXCEPT ![p] = pi[p].rc]
  /\ shared' = shared \cup ({f} \cap OpenElsewhere(p))

\* Typed in the terminal.
Replace(p, f) ==
  /\ Asks(p) /\ ~pi[p].pending /\ ~pi[p].remote
  /\ NewRuntime(p, f, FALSE)
  /\ UNCHANGED <<handoff, asked, spoiled, failures>>

\* handleNewSession, handleSwitchSession, handleFork, of a command from the
\* phone: they need the context of a /rc typed in this runtime, not that RC is on,
\* and the handler of messages does not ask whether the client was closed.  They
\* prepare by dropping the entry, if a session is active, and stopping.  A second
\* command meanwhile is left to pi.
CommandArrives(p) ==
  (pi[p].rc \/ pi[p].closing) /\ pi[p].commandable /\ ~pi[p].pending /\ ~pi[p].remote

\* Fault: the entry is not dropped.
RemoteStops(p) ==
  /\ Asks(p) /\ CommandArrives(p)
  /\ pi' = [pi EXCEPT ![p].rc = FALSE, ![p].closing = TRUE,
                      ![p].active = None, ![p].pending = TRUE]
  /\ asked' = [asked EXCEPT ![p] = TRUE]
  /\ UNCHANGED <<handoff, ran, shared, spoiled, failures>>

Remote(p) ==
  /\ Asks(p) /\ CommandArrives(p)
  /\ pi' = [pi EXCEPT ![p] = IF @.active # None THEN [@ EXCEPT !.at = "preparing"]
                             ELSE [@ EXCEPT !.pending = TRUE]]
  /\ asked' = [asked EXCEPT ![p] = TRUE]
  /\ UNCHANGED <<handoff, ran, shared, spoiled, failures>>

\* pi has replaced the session the phone asked it to.  The terminal stayed live
\* since, so /rc may be on again.
Replaced(p, f) ==
  /\ Begins(p) /\ pi[p].pending
  /\ NewRuntime(p, f, TRUE)
  /\ UNCHANGED <<handoff, asked, spoiled, moves, failures>>

\* pi, or another extension, cancels the replacement: nothing starts RC again,
\* and the response finds no open socket.
Cancelled(p) ==
  /\ Begins(p) /\ pi[p].pending
  /\ pi' = [pi EXCEPT ![p].pending = FALSE]
  /\ asked' = [asked EXCEPT ![p] = pi[p].rc]
  /\ UNCHANGED <<handoff, ran, shared, spoiled, moves, failures>>

\* The process is killed, anywhere.
Crash(p) ==
  /\ Alive(p)
  /\ pi' = [pi EXCEPT ![p].at = "crashed", ![p].rc = FALSE, ![p].io = "read"]
  /\ spoiled' = (spoiled \/ pi[p].io = "write")
  /\ UNCHANGED <<handoff, history, moves, failures>>

-----------------------------------------------------------------------------

FileStep(p) == ReadFile(p) \/ Truncate(p) \/ WriteFile(p) \/ WriteFails(p)

Next == \E p \in Proc :
  \/ FileStep(p)
  \/ Rc(p) \/ RcMessage(p) \/ RcStop(p) \/ Quit(p) \/ SocketCloses(p) \/ Crash(p)
  \/ Remote(p) \/ Cancelled(p)
  \/ \E f \in File : Launch(p, f) \/ Replace(p, f) \/ Replaced(p, f)

Spec == Init /\ [][Next]_vars

-----------------------------------------------------------------------------
(* Properties                                                              *)

\* What an entry of a process stands for: RC that is on in its session, an
\* operation that is about to write or drop it, or the session it comes from.
Holds(p, f) ==
  \/ pi[p].active = f
  \/ pi[p].previous = f /\ pi[p].at \in {"checking", "consuming"}

\* No entry outlives what it stands for: not /rc stop, not a clean quit, not the
\* replacement that consumed it.  Only a crash leaves one.
EntriesOwned ==
  \A f \in DOMAIN handoff :
    spoiled \/ pi[handoff[f]].at = "crashed" \/ Holds(handoff[f], f)

AtRest(p) == pi[p].at = "idle" /\ ~pi[p].pending /\ ~pi[p].remote

\* While every operation on the file had it to itself, RC at rest is on exactly
\* where it was asked for: it follows each replacement, typed or remote, and
\* comes on in no session, be it resumed after a crash, where nobody asked.  Who
\* asks is the one who types /rc, or a phone whose command replaces the session:
\* a stop typed before that command arrives, or while pi replaces the session,
\* does not keep RC off.  What ends RC is any other stop, or a replacement for a
\* phone that pi refuses.  A session open in two terminals is the exception:
\* hasHandoff takes the entry of one for the other's.
RcAsAsked ==
  \A p \in Proc : AtRest(p) => pi[p].rc = asked[p] \/ spoiled \/ shared # {}

\* session_start turns RC on only after a runtime in which it was on: a remote
\* replacement, which reconnects by /rc, is not followed a second time.
HookOnlyFollows ==
  \A p \in Proc :
    pi[p].at = "consuming" => ran[p] \/ spoiled \/ pi[p].previous \in shared

Written == \A q \in Proc : pi[q].io # "write"

\* The entry of a session in which RC is on waits for the next replacement.
EntryReady ==
  \A p \in Proc :
    pi[p].at = "idle" /\ pi[p].rc /\ ~spoiled /\ shared = {} /\ Written
      => pi[p].file \in DOMAIN handoff /\ handoff[pi[p].file] = p
=============================================================================
