--------------------------- MODULE HeadlessProcess ---------------------------
(***************************************************************************)
(* The headless session: a `pi --mode rpc' child of the Hub (rpc/process.rs*)
(* and rpc/mod.rs) and the tasks of main.rs that share it.  Three parties  *)
(* meet on two tokio mutexes: the phone bridges that write commands to the *)
(* child's stdin, the task that waits for its exit, and the shutdown that  *)
(* Ctrl+C starts.  The child runs, and may exit, from the moment main has  *)
(* spawned it: before it is registered, and before the Hub has an address. *)
(*                                                                         *)
(* A command is a line of Chunks pieces, each of which one write() puts in *)
(* the pipe; a line of output is well formed or not.                       *)
(***************************************************************************)
EXTENDS Naturals, Sequences

CONSTANTS
  Sender,         \* phone bridges, each with one command to send
  Main,           \* main's own task, as a holder of a lock
  Waiter,         \* the task that waits for the child's exit
  Free,           \* no holder
  Chunks,         \* writes one command takes
  PipeCapacity,   \* pieces the stdin pipe holds
  MaxOutput       \* bound: lines the child prints

ASSUME PartyAssumption == Main # Free /\ Waiter # Free /\ Main # Waiter /\ {Main, Waiter, Free} \cap Sender = {}
ASSUME SizeAssumption == Chunks \in Nat \ {0} /\ PipeCapacity \in Nat \ {0} /\ MaxOutput \in Nat

VARIABLES
  child,      \* the child process: "none", "running" or "exited"
  stdin,      \* PiProcess.stdin: its holder
  childLock,  \* PiProcess.child: its holder
  input,      \* every piece written to the child, in order
  consumed,   \* how many of them the child has read
  eof,        \* whether the Hub's end of stdin is closed
  sender,     \* bridge -> where its send() is
  written,    \* bridge -> pieces of its command written
  waiter,     \* the task that waits
  listed,     \* whether the registry holds the session
  main,       \* main's own task
  stdout,     \* the task that reads the child's stdout: "reading" or "ended"
  printed,    \* the lines the child has printed
  scanned,    \* how many of them the stdout task has read
  relayed     \* the events it has broadcast

stdinVars == <<stdin, input, consumed, eof, sender, written>>
exitVars == <<childLock, waiter, listed, main>>
stdoutVars == <<stdout, printed, scanned, relayed>>
vars == <<child, stdinVars, exitVars, stdoutVars>>

Wellformed(line) == line.json

Line == [json : BOOLEAN, n : 1..MaxOutput]

TypeOK ==
  /\ child \in {"none", "running", "exited"}
  /\ stdin \in Sender \cup {Main, Free}
  /\ childLock \in {Main, Waiter, Free}
  /\ input \in Seq(Sender \X (1..Chunks))
  /\ consumed \in 0..Len(input)
  /\ eof \in BOOLEAN
  /\ sender \in [Sender -> {"idle", "locking", "writing", "sent", "failed"}]
  /\ written \in [Sender -> 0..Chunks]
  /\ waiter \in {"none", "locking", "waiting", "unregistering", "done"}
  /\ listed \in BOOLEAN
  /\ main \in {"spawning", "registering", "binding", "serving", "closing", "killing", "exited"}
  /\ stdout \in {"reading", "ended"}
  /\ printed \in Seq(Line)
  /\ scanned \in 0..Len(printed)
  /\ relayed \in Seq(Line)

\* main has a project directory, and so a headless session to start.
Init ==
  /\ child = "none"
  /\ stdin = Free /\ childLock = Free
  /\ input = <<>> /\ consumed = 0 /\ eof = FALSE
  /\ sender = [s \in Sender |-> "idle"]
  /\ written = [s \in Sender |-> 0]
  /\ waiter = "none"
  /\ listed = FALSE
  /\ main = "spawning"
  /\ stdout = "reading" /\ printed = <<>> /\ scanned = 0 /\ relayed = <<>>

\* The tasks of the Hub run until main returns.
HubRuns == main # "exited"

-----------------------------------------------------------------------------
(* main: up to the server                                                  *)

\* Once main returns the runtime goes, and the ends of the pipes with it.
Exits == main' = "exited" /\ eof' = TRUE

\* PiProcess::spawn: the child and the task that reads its output.
Spawns ==
  /\ main = "spawning"
  /\ main' = "registering"
  /\ child' = "running"
  /\ UNCHANGED <<stdinVars, childLock, waiter, listed, stdoutVars>>

\* The registration, and the task that waits for the child.
Registers ==
  /\ main = "registering"
  /\ main' = "binding"
  /\ listed' = TRUE
  /\ waiter' = "locking"
  /\ UNCHANGED <<child, stdinVars, childLock, stdoutVars>>

Binds ==
  /\ main = "binding"
  /\ main' = "serving"
  /\ UNCHANGED <<child, stdinVars, childLock, waiter, listed, stdoutVars>>

\* pi cannot be run, or the address is taken: main returns the error at once,
\* with no shutdown of what it has spawned.
StartFails ==
  /\ main \in {"spawning", "binding"}
  /\ Exits
  /\ UNCHANGED <<child, stdin, input, consumed, sender, written,
                 childLock, waiter, listed, stdoutVars>>

-----------------------------------------------------------------------------
(* send: one command, under the stdin lock                                 *)

SendStarts(s) ==
  /\ main \in {"serving", "closing", "killing"} /\ sender[s] = "idle"
  /\ sender' = [sender EXCEPT ![s] = "locking"]
  /\ UNCHANGED <<child, stdin, input, consumed, eof, written, exitVars, stdoutVars>>

\* Fault: no lock.
SendLocksFreely(s) ==
  /\ HubRuns /\ sender[s] = "locking"
  /\ sender' = [sender EXCEPT ![s] = "writing"]
  /\ UNCHANGED <<child, stdin, input, consumed, eof, written, exitVars, stdoutVars>>

SendLocks(s) ==
  /\ HubRuns /\ sender[s] = "locking"
  /\ stdin = Free
  /\ stdin' = s
  /\ sender' = [sender EXCEPT ![s] = "writing"]
  /\ UNCHANGED <<child, input, consumed, eof, written, exitVars, stdoutVars>>

\* write_all: the pieces of one line, the pipe permitting, then flush.
\* Fault: one piece too many.
SendWritesOneMore(s) ==
  /\ HubRuns /\ sender[s] = "writing"
  /\ child = "running" /\ ~eof
  /\ Len(input) - consumed < PipeCapacity
  /\ input' = Append(input, <<s, written[s] + 1>>)
  /\ written' = [written EXCEPT ![s] = @ + 1]
  /\ IF written[s] = Chunks
     THEN /\ sender' = [sender EXCEPT ![s] = "sent"]
          /\ stdin' = Free
     ELSE UNCHANGED <<sender, stdin>>
  /\ UNCHANGED <<child, consumed, eof, exitVars, stdoutVars>>

SendWrites(s) ==
  /\ HubRuns /\ sender[s] = "writing"
  /\ child = "running" /\ ~eof
  /\ Len(input) - consumed < PipeCapacity
  /\ input' = Append(input, <<s, written[s] + 1>>)
  /\ written' = [written EXCEPT ![s] = @ + 1]
  /\ IF written[s] + 1 = Chunks
     THEN /\ sender' = [sender EXCEPT ![s] = "sent"]
          /\ stdin' = Free
     ELSE UNCHANGED <<sender, stdin>>
  /\ UNCHANGED <<child, consumed, eof, exitVars, stdoutVars>>

\* The pipe is broken or closed: the error leaves send, and the lock with it.
\* Fault: the lock is kept.
SendFailsLocked(s) ==
  /\ HubRuns /\ sender[s] = "writing"
  /\ child = "exited" \/ eof
  /\ sender' = [sender EXCEPT ![s] = "failed"]
  /\ UNCHANGED <<child, stdin, input, consumed, eof, written, exitVars, stdoutVars>>

SendFails(s) ==
  /\ HubRuns /\ sender[s] = "writing"
  /\ child = "exited" \/ eof
  /\ sender' = [sender EXCEPT ![s] = "failed"]
  /\ stdin' = Free
  /\ UNCHANGED <<child, input, consumed, eof, written, exitVars, stdoutVars>>

-----------------------------------------------------------------------------
(* The task that waits (main.rs), with PiProcess::wait                     *)

\* The lock is taken before the wait and kept until the child has exited.
WaitLocks ==
  /\ HubRuns /\ waiter = "locking"
  /\ childLock = Free
  /\ childLock' = Waiter
  /\ waiter' = "waiting"
  /\ UNCHANGED <<child, stdinVars, listed, main, stdoutVars>>

\* Fault: the error of the wait ends the task.
WaitFails ==
  /\ HubRuns /\ waiter = "waiting"
  /\ child = "exited"
  /\ childLock' = Free
  /\ waiter' = "done"
  /\ UNCHANGED <<child, stdinVars, listed, main, stdoutVars>>

WaitReturns ==
  /\ HubRuns /\ waiter = "waiting"
  /\ child = "exited"
  /\ childLock' = Free
  /\ waiter' = "unregistering"
  /\ UNCHANGED <<child, stdinVars, listed, main, stdoutVars>>

\* The whole of SessionRegistry's unregister, whose steps that module has.
Unregister ==
  /\ HubRuns /\ waiter = "unregistering"
  /\ listed' = FALSE
  /\ waiter' = "done"
  /\ UNCHANGED <<child, stdinVars, childLock, main, stdoutVars>>

-----------------------------------------------------------------------------
(* main: serve, then shut down                                             *)

CtrlC ==
  /\ main = "serving"
  /\ main' = "closing"
  /\ UNCHANGED <<child, stdinVars, childLock, waiter, listed, stdoutVars>>

\* axum::serve fails: main returns the error at once, with no shutdown.
ServeFails ==
  /\ main = "serving"
  /\ Exits
  /\ UNCHANGED <<child, stdin, input, consumed, sender, written,
                 childLock, waiter, listed, stdoutVars>>

\* shutdown, first block.  Whether the library's shutdown of a child's stdin
\* closes the pipe is left open.
ShutdownStdin ==
  /\ main = "closing"
  /\ stdin = Free
  /\ \E closed \in {eof, TRUE} : eof' = closed
  /\ main' = "killing"
  /\ UNCHANGED <<child, stdin, input, consumed, sender, written,
                 childLock, waiter, listed, stdoutVars>>

\* start_kill, under the child lock; main returns.
ShutdownKills ==
  /\ main = "killing"
  /\ childLock = Free
  /\ child' = "exited"
  /\ Exits
  /\ UNCHANGED <<stdin, input, consumed, sender, written,
                 childLock, waiter, listed, stdoutVars>>

-----------------------------------------------------------------------------
(* The child, and the task that reads its stdout                           *)

ChildReads ==
  /\ child = "running" /\ consumed < Len(input)
  /\ consumed' = consumed + 1
  /\ UNCHANGED <<child, stdin, input, eof, sender, written, exitVars, stdoutVars>>

ChildPrints(json) ==
  /\ child = "running" /\ Len(printed) < MaxOutput
  /\ printed' = Append(printed, [json |-> json, n |-> Len(printed) + 1])
  /\ UNCHANGED <<child, stdinVars, exitVars, stdout, scanned, relayed>>

\* It crashes, is told to quit, or sees the end of its input.
ChildExits ==
  /\ child = "running"
  /\ child' = "exited"
  /\ UNCHANGED <<stdinVars, exitVars, stdoutVars>>

\* JsonLineReader::next and the loop around it: a line that does not parse is
\* logged and skipped.
StdoutReads ==
  /\ HubRuns /\ stdout = "reading" /\ scanned < Len(printed)
  /\ scanned' = scanned + 1
  /\ relayed' = IF Wellformed(printed[scanned + 1])
                THEN Append(relayed, printed[scanned + 1]) ELSE relayed
  /\ UNCHANGED <<child, stdinVars, exitVars, stdout, printed>>

\* Ok(None): the loop ends with the stream, when all of it has been read.
\* Fault: it ends with a line that does not parse, too.
StdoutBreaks ==
  /\ HubRuns /\ stdout = "reading"
  /\ IF scanned = Len(printed) THEN child = "exited" ELSE ~Wellformed(printed[scanned + 1])
  /\ stdout' = "ended"
  /\ UNCHANGED <<child, stdinVars, exitVars, printed, scanned, relayed>>

StdoutEnds ==
  /\ HubRuns /\ stdout = "reading"
  /\ scanned = Len(printed) /\ child = "exited"
  /\ stdout' = "ended"
  /\ UNCHANGED <<child, stdinVars, exitVars, printed, scanned, relayed>>

-----------------------------------------------------------------------------

StartStep == Spawns \/ Registers \/ Binds \/ StartFails
SendStep(s) == SendLocks(s) \/ SendWrites(s) \/ SendFails(s)
WaitStep == WaitLocks \/ WaitReturns \/ Unregister
ShutdownStep == ShutdownStdin \/ ShutdownKills
StdoutStep == StdoutReads \/ StdoutEnds
ChildStep == ChildReads \/ ChildExits \/ \E json \in BOOLEAN : ChildPrints(json)

Next ==
  \/ \E s \in Sender : SendStarts(s) \/ SendStep(s)
  \/ StartStep \/ WaitStep \/ ShutdownStep \/ CtrlC \/ ServeFails
  \/ ChildStep \/ StdoutStep

Spec == Init /\ [][Next]_vars

\* The Hub's tasks run, and tokio's mutexes serve their waiters in turn; nothing
\* is assumed of the child.
Fairness ==
  /\ \A s \in Sender : SF_vars(SendLocks(s)) /\ WF_vars(SendWrites(s) \/ SendFails(s))
  /\ WF_vars(StartStep) /\ SF_vars(WaitStep) /\ SF_vars(ShutdownStep) /\ WF_vars(StdoutStep)

FairSpec == Spec /\ Fairness

-----------------------------------------------------------------------------
(* Properties                                                              *)

\* The commands of concurrent phones never mix: in what is written to the child
\* the pieces of one line follow each other, though the pipe may fill between
\* two of them.
WholeLines ==
  \A k \in 1..Len(input) :
    input[k][2] > 1 => k > 1 /\ input[k - 1] = <<input[k][1], input[k][2] - 1>>

\* A line that parses reaches the bridges, whatever the child prints before it
\* and though the child exits before it is read, unless the Hub exits.
OutputArrives ==
  \A n \in 1..MaxOutput :
    (n \in DOMAIN printed /\ Wellformed(printed[n]))
      ~> (main = "exited" \/ \E k \in 1..Len(relayed) : relayed[k].n = n)

\* The exit of the child, even one before its session is listed, unlists the
\* session for good, unless the Hub exits.
ExitUnlists == child = "exited" ~> [](~listed \/ main = "exited")

\* The exit of the child frees every bridge that is writing or waits to write.
ExitFreesSenders ==
  \A s \in Sender : (child = "exited" /\ sender[s] \in {"locking", "writing"})
                    ~> (sender[s] \in {"sent", "failed"} \/ main = "exited")

\* What the documentation says, and the code does not do.

\* process.rs, shutdown: "closes stdin [...] and asks the OS to terminate the
\* process if it doesn't" exit.
ShutdownEnds == main = "closing" ~> main = "exited"
=============================================================================
