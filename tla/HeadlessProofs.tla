---------------------------- MODULE HeadlessProofs ----------------------------
(***************************************************************************)
(* Theorems about HeadlessProcess, for every number of bridges, every      *)
(* length of a command and every capacity of the pipe.                     *)
(*                                                                         *)
(* WholeLines is not inductive: that the next piece of a command follows   *)
(* the last one needs Writer, which says that whoever writes holds the     *)
(* lock and that the last piece in the pipe is its own.                    *)
(***************************************************************************)
EXTENDS HeadlessProcess, TLAPS

\* A bridge in the middle of its command holds stdin, has pieces left, and wrote
\* the last piece there is; one that has not got the lock has written none.
Writer ==
  /\ \A s \in Sender : sender[s] = "writing" =>
       /\ stdin = s /\ written[s] < Chunks
       /\ written[s] > 0 => Len(input) > 0 /\ input[Len(input)] = <<s, written[s]>>
  /\ \A s \in Sender : sender[s] \in {"idle", "locking"} => written[s] = 0

LinesInv == TypeOK /\ Writer /\ WholeLines

-----------------------------------------------------------------------------

\* Nothing is spawned and nothing written.
LEMMA InitLines == Init => LinesInv
<1>1. SUFFICES ASSUME Init PROVE LinesInv
  OBVIOUS
<1>2. input \in Seq(Sender \X (1..Chunks)) /\ Len(input) = 0
  BY <1>1 DEF Init
<1>3. printed \in Seq(Line) /\ relayed \in Seq(Line) /\ Len(printed) = 0
  BY <1>1 DEF Init
<1>4. written \in [Sender -> 0..Chunks]
  BY <1>1, SizeAssumption DEF Init
<1>5. consumed \in 0..Len(input) /\ scanned \in 0..Len(printed)
  BY <1>1, <1>2, <1>3 DEF Init
<1>6. TypeOK
  BY <1>1, <1>2, <1>3, <1>4, <1>5 DEF Init, TypeOK
<1>7. Writer /\ WholeLines
  BY <1>1, <1>2 DEF Init, Writer, WholeLines
<1>8. QED
  BY <1>6, <1>7 DEF LinesInv

\* A step that touches neither the commands nor the lock of stdin.
LEMMA OtherLines ==
  ASSUME LinesInv, stdin' = stdin, input' = input, sender' = sender, written' = written, TypeOK'
  PROVE  LinesInv'
BY DEF LinesInv, Writer, WholeLines

\* main starts, or fails to; it is told to stop and returns.
LEMMA MainLines ==
  ASSUME LinesInv, StartStep \/ ShutdownStep \/ CtrlC \/ ServeFails
  PROVE  LinesInv'
<1>1. CASE Spawns \/ Registers \/ Binds \/ CtrlC
  <2>1. TypeOK'
    BY <1>1 DEF LinesInv, TypeOK, Spawns, Registers, Binds, CtrlC, stdinVars, stdoutVars
  <2>2. QED
    BY <1>1, <2>1, OtherLines DEF Spawns, Registers, Binds, CtrlC, stdinVars
<1>2. CASE StartFails \/ ServeFails
  <2>1. TypeOK'
    BY <1>2 DEF LinesInv, TypeOK, StartFails, ServeFails, Exits, stdoutVars
  <2>2. QED
    BY <1>2, <2>1, OtherLines DEF StartFails, ServeFails
<1>3. CASE ShutdownStdin
  <2>1. eof' \in BOOLEAN
    BY <1>3 DEF ShutdownStdin, LinesInv, TypeOK
  <2>2. TypeOK'
    BY <1>3, <2>1 DEF LinesInv, TypeOK, ShutdownStdin, stdoutVars
  <2>3. QED
    BY <1>3, <2>2, OtherLines DEF ShutdownStdin
<1>4. CASE ShutdownKills
  <2>1. TypeOK'
    BY <1>4 DEF LinesInv, TypeOK, ShutdownKills, Exits, stdoutVars
  <2>2. QED
    BY <1>4, <2>1, OtherLines DEF ShutdownKills
<1>5. QED
  BY <1>1, <1>2, <1>3, <1>4 DEF StartStep, ShutdownStep

\* The task that waits for the child, and the one that reads its output.
LEMMA TaskLines ==
  ASSUME LinesInv, WaitStep \/ StdoutStep
  PROVE  LinesInv'
<1>1. CASE WaitStep
  <2>1. TypeOK'
    BY <1>1 DEF LinesInv, TypeOK, WaitStep, WaitLocks, WaitReturns, Unregister, stdinVars, stdoutVars
  <2>2. QED
    BY <1>1, <2>1, OtherLines DEF WaitStep, WaitLocks, WaitReturns, Unregister, stdinVars
<1>2. CASE StdoutReads
  <2>1. scanned + 1 \in 1..Len(printed) /\ printed[scanned + 1] \in Line
    BY <1>2 DEF LinesInv, TypeOK, StdoutReads
  <2>2. scanned' \in 0..Len(printed)' /\ relayed' \in Seq(Line)
    BY <1>2, <2>1 DEF LinesInv, TypeOK, StdoutReads
  <2>3. TypeOK'
    BY <1>2, <2>2 DEF LinesInv, TypeOK, StdoutReads, stdinVars, exitVars
  <2>4. QED
    BY <1>2, <2>3, OtherLines DEF StdoutReads, stdinVars
<1>3. CASE StdoutEnds
  <2>1. TypeOK'
    BY <1>3 DEF LinesInv, TypeOK, StdoutEnds, stdinVars, exitVars
  <2>2. QED
    BY <1>3, <2>1, OtherLines DEF StdoutEnds, stdinVars
<1>4. QED
  BY <1>1, <1>2, <1>3 DEF StdoutStep

\* The child takes its input, prints and exits as it likes.
LEMMA ChildLines ==
  ASSUME LinesInv, ChildStep
  PROVE  LinesInv'
<1>1. CASE ChildReads
  <2>1. consumed' \in 0..Len(input)
    BY <1>1 DEF LinesInv, TypeOK, ChildReads
  <2>2. TypeOK'
    BY <1>1, <2>1 DEF LinesInv, TypeOK, ChildReads, exitVars, stdoutVars
  <2>3. QED
    BY <1>1, <2>2, OtherLines DEF ChildReads
<1>2. CASE ChildExits
  <2>1. TypeOK'
    BY <1>2 DEF LinesInv, TypeOK, ChildExits, stdinVars, exitVars, stdoutVars
  <2>2. QED
    BY <1>2, <2>1, OtherLines DEF ChildExits, stdinVars
<1>3. ASSUME NEW json \in BOOLEAN, ChildPrints(json)
      PROVE  LinesInv'
  <2>1. [json |-> json, n |-> Len(printed) + 1] \in Line
    BY <1>3, SizeAssumption DEF LinesInv, TypeOK, ChildPrints, Line
  <2>2. printed' \in Seq(Line) /\ Len(printed') = Len(printed) + 1
    BY <1>3, <2>1 DEF LinesInv, TypeOK, ChildPrints
  <2>3. scanned' \in 0..Len(printed')
    BY <1>3, <2>2 DEF LinesInv, TypeOK, ChildPrints
  <2>4. TypeOK'
    BY <1>3, <2>2, <2>3 DEF LinesInv, TypeOK, ChildPrints, stdinVars, exitVars
  <2>5. QED
    BY <1>3, <2>4, OtherLines DEF ChildPrints, stdinVars
<1>4. QED
  BY <1>1, <1>2, <1>3 DEF ChildStep

\* A bridge asks for the lock, gets it, and lets go of it with an error.
LEMMA LockLines ==
  ASSUME LinesInv, NEW s \in Sender, SendStarts(s) \/ SendLocks(s) \/ SendFails(s)
  PROVE  LinesInv'
<1>1. CASE SendStarts(s)
  <2>1. TypeOK'
    BY <1>1 DEF LinesInv, TypeOK, SendStarts, exitVars, stdoutVars
  <2>2. Writer' /\ WholeLines'
    BY <1>1 DEF LinesInv, TypeOK, Writer, WholeLines, SendStarts
  <2>3. QED
    BY <2>1, <2>2 DEF LinesInv
<1>2. CASE SendLocks(s)
  <2>1. TypeOK'
    BY <1>2 DEF LinesInv, TypeOK, SendLocks, exitVars, stdoutVars
  <2>2. \A t \in Sender : sender[t] # "writing"
    BY <1>2, PartyAssumption DEF LinesInv, Writer, SendLocks
  <2>3. sender' = [sender EXCEPT ![s] = "writing"] /\ stdin' = s /\ written[s] = 0
    BY <1>2 DEF LinesInv, Writer, SendLocks
  <2>4. Writer'
    BY <1>2, <2>2, <2>3, SizeAssumption DEF LinesInv, TypeOK, Writer, SendLocks
  <2>5. WholeLines'
    BY <1>2 DEF LinesInv, WholeLines, SendLocks
  <2>6. QED
    BY <2>1, <2>4, <2>5 DEF LinesInv
<1>3. CASE SendFails(s)
  <2>1. TypeOK'
    BY <1>3 DEF LinesInv, TypeOK, SendFails, exitVars, stdoutVars
  <2>2. \A t \in Sender : t # s => sender[t] # "writing"
    BY <1>3 DEF LinesInv, Writer, SendFails
  <2>3. Writer' /\ WholeLines'
    BY <1>3, <2>2 DEF LinesInv, TypeOK, Writer, WholeLines, SendFails
  <2>4. QED
    BY <2>1, <2>3 DEF LinesInv
<1>4. QED
  BY <1>1, <1>2, <1>3

\* The step that matters: the piece goes behind the last one of its own command.
LEMMA WriteLines ==
  ASSUME LinesInv, NEW s \in Sender, SendWrites(s)
  PROVE  LinesInv'
<1> USE SizeAssumption
<1> DEFINE piece == <<s, written[s] + 1>>
<1>1. /\ input \in Seq(Sender \X (1..Chunks))
      /\ sender[s] = "writing" /\ written[s] \in Nat /\ written[s] < Chunks
      /\ written[s] > 0 => Len(input) > 0 /\ input[Len(input)] = <<s, written[s]>>
  BY DEF LinesInv, TypeOK, Writer, SendWrites
<1>2. \A t \in Sender : t # s => sender[t] # "writing"
  BY <1>1 DEF LinesInv, Writer
<1>3. piece \in Sender \X (1..Chunks)
  BY <1>1
<1>4. /\ input' \in Seq(Sender \X (1..Chunks))
      /\ Len(input') = Len(input) + 1
      /\ input'[Len(input) + 1] = piece
      /\ \A k \in 1..Len(input) : input'[k] = input[k]
  BY <1>1, <1>3 DEF SendWrites
<1>5. /\ written' \in [Sender -> 0..Chunks]
      /\ written'[s] = written[s] + 1
      /\ \A t \in Sender : t # s => written'[t] = written[t]
  BY <1>1 DEF LinesInv, TypeOK, SendWrites
<1>6. /\ sender' \in [Sender -> {"idle", "locking", "writing", "sent", "failed"}]
      /\ \A t \in Sender : t # s => sender'[t] = sender[t]
      /\ \/ written[s] + 1 = Chunks /\ sender'[s] = "sent" /\ stdin' = Free
         \/ written[s] + 1 # Chunks /\ sender'[s] = "writing" /\ stdin' = stdin
  BY <1>1 DEF LinesInv, TypeOK, SendWrites
<1>7. TypeOK'
  <2>1. consumed' \in 0..Len(input')
    BY <1>4 DEF LinesInv, TypeOK, SendWrites
  <2>2. QED
    BY <1>4, <1>5, <1>6, <2>1 DEF LinesInv, TypeOK, SendWrites, exitVars, stdoutVars
<1>8. Writer'
  <2>1. \A t \in Sender : t # s => sender'[t] # "writing"
    BY <1>2, <1>6
  <2>2. sender'[s] = "writing" => stdin' = s /\ written'[s] < Chunks
    BY <1>1, <1>5, <1>6 DEF LinesInv, Writer
  <2>3. input'[Len(input')] = <<s, written'[s]>> /\ Len(input') > 0
    BY <1>1, <1>4, <1>5
  <2>4. \A t \in Sender : sender'[t] \in {"idle", "locking"} => written'[t] = 0
    BY <1>5, <1>6 DEF LinesInv, Writer
  <2>5. QED
    BY <2>1, <2>2, <2>3, <2>4 DEF Writer
<1>9. WholeLines'
  <2>1. SUFFICES ASSUME NEW k \in 1..Len(input'), input'[k][2] > 1
                 PROVE  k > 1 /\ input'[k - 1] = <<input'[k][1], input'[k][2] - 1>>
    BY DEF WholeLines
  <2>2. CASE k \in 1..Len(input)
    <3>1. k > 1 /\ input[k - 1] = <<input[k][1], input[k][2] - 1>>
      BY <1>4, <2>1, <2>2 DEF LinesInv, WholeLines
    <3>2. k - 1 \in 1..Len(input)
      BY <1>1, <2>2, <3>1
    <3>3. input'[k] = input[k] /\ input'[k - 1] = input[k - 1]
      BY <1>4, <2>2, <3>2
    <3>4. QED
      BY <3>1, <3>3
  <2>3. CASE k = Len(input) + 1
    <3>1. input'[k] = piece /\ written[s] > 0
      BY <1>1, <1>4, <2>1, <2>3
    <3>2. Len(input) \in Nat /\ Len(input) > 0 /\ k - 1 = Len(input)
      BY <1>1, <2>3, <3>1
    <3>3. Len(input) \in 1..Len(input) /\ input[Len(input)] = <<s, written[s]>>
      BY <1>1, <3>1, <3>2
    <3>4. input'[k - 1] = <<s, written[s]>>
      BY <1>4, <3>2, <3>3
    <3>5. piece[1] = s /\ piece[2] - 1 = written[s]
      BY <1>1
    <3>6. QED
      BY <2>3, <3>1, <3>2, <3>4, <3>5
  <2>4. Len(input) \in Nat /\ k \in 1..(Len(input) + 1)
    BY <1>1, <1>4
  <2>5. k \in 1..Len(input) \/ k = Len(input) + 1
    BY <2>4
  <2>6. QED
    BY <2>2, <2>3, <2>5
<1>10. QED
  BY <1>7, <1>8, <1>9 DEF LinesInv

\* Every step keeps the invariant.
LEMMA StepLines == LinesInv /\ [Next]_vars => LinesInv'
<1>1. SUFFICES ASSUME LinesInv, [Next]_vars PROVE LinesInv'
  OBVIOUS
<1>2. CASE UNCHANGED vars
  <2>1. TypeOK'
    BY <1>1, <1>2 DEF LinesInv, TypeOK, vars, stdinVars, exitVars, stdoutVars
  <2>2. QED
    BY <1>1, <1>2, <2>1, OtherLines DEF vars, stdinVars
<1>3. ASSUME NEW s \in Sender, SendStarts(s) \/ SendStep(s)
      PROVE  LinesInv'
  BY <1>1, <1>3, LockLines, WriteLines DEF SendStep
<1>4. CASE StartStep \/ ShutdownStep \/ CtrlC \/ ServeFails
  BY <1>1, <1>4, MainLines
<1>5. CASE WaitStep \/ StdoutStep
  BY <1>1, <1>5, TaskLines
<1>6. CASE ChildStep
  BY <1>1, <1>6, ChildLines
<1>7. QED
  BY <1>1, <1>2, <1>3, <1>4, <1>5, <1>6 DEF Next

\* The inductive invariant of the commands on stdin.
THEOREM LinesCorrect == Spec => []LinesInv
BY InitLines, StepLines, PTL DEF Spec

-----------------------------------------------------------------------------

\* Every reachable state of the child, main and the tasks around it is well typed.
THEOREM HeadlessTypeOK == Spec => []TypeOK
<1>1. LinesInv => TypeOK
  BY DEF LinesInv
<1>2. QED
  BY <1>1, LinesCorrect, PTL

\* However many phones write, however long their commands and small the pipe, no
\* two commands mix on the child's stdin.
THEOREM LinesWhole == Spec => []WholeLines
<1>1. LinesInv => WholeLines
  BY DEF LinesInv
<1>2. QED
  BY <1>1, LinesCorrect, PTL
=============================================================================
