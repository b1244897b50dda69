\* Two bridges on a pipe smaller than a line, output that does not parse, a child that
\* may stall or exit, under fair scheduling of the Hub's tasks.
SPECIFICATION FairSpec
CONSTANTS
  s1 = s1  s2 = s2
  Sender = {s1, s2}
  Main = Main
  Waiter = Waiter
  Free = Free
  Chunks = 2
  PipeCapacity = 1
  MaxOutput = 2
CHECK_DEADLOCK FALSE
INVARIANTS TypeOK WholeLines
PROPERTIES OutputArrives ExitUnlists ExitFreesSenders
