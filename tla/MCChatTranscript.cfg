\* A session of two messages and a tool, a page that loses its connection or is left, and
\* another phone that opens the session.
SPECIFICATION Spec
CONSTANTS
  None = None
  Detached = Detached
  MaxMessages = 2
  MaxParts = 2
  MaxTools = 1
  MaxLosses = 2
  MaxOthers = 1
  MaxWire = 3
CHECK_DEADLOCK FALSE
INVARIANTS TypeOK TranscriptExact ActivityTrue
