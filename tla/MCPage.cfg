\* A page of two sessions whose user moves twice, and a Hub or a session that goes once.
SPECIFICATION FairSpec
CONSTANTS
  Session = {A, B}
  None = None
  MaxSockets = 3
  MaxPending = 2
  MaxMoves = 2
  MaxLosses = 1
CHECK_DEADLOCK FALSE
INVARIANTS TypeOK NotStranded OneOwner
PROPERTIES ViewsLive
