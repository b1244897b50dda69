\* Two terminals and three session files: overlapping writes, a crash at any step,
\* a write that fails.
SPECIFICATION Spec
CONSTANTS
  p1 = p1  p2 = p2  f1 = f1  f2 = f2  f3 = f3
  Proc = {p1, p2}
  File = {f1, f2, f3}
  None = None
  MaxMoves = 4
  MaxFailures = 1
CHECK_DEADLOCK FALSE
SYMMETRY MCSymmetry
INVARIANTS TypeOK EntriesOwned  HookOnlyFollows EntryReady
