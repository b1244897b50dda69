\* Ctrl+C while the child runs on.
SPECIFICATION FairSpec
CONSTANTS
  s1 = s1  s2 = s2
  Sender = {s1}
  Main = Main
  Waiter = Waiter
  Free = Free
  Chunks = 2
  PipeCapacity = 2
  MaxOutput = 0
CHECK_DEADLOCK FALSE
PROPERTY ShutdownEnds
