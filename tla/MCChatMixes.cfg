\* The same page, for what a chat view hears.
SPECIFICATION FairSpec
CONSTANTS
  Session = {A, B}
  None = None
  MaxSockets = 3
  MaxPending = 2
  MaxMoves = 2
  MaxLosses = 1
CHECK_DEADLOCK FALSE
INVARIANT ChatForOneSession
