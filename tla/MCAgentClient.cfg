\* Two clients of a terminal and a third generation, a rename, a Hub that starts late and goes down once, or two that start at once.
SPECIFICATION FairSpec
CONSTANTS
  Session = Session
  None = None
  MaxSockets = 3
  MaxGenerations = 3
  MaxRenames = 1
  MaxFaults = 1
  MaxTokens = 2
CHECK_DEADLOCK FALSE
INVARIANTS TypeOK ShownIsCurrent OneLiveSocket RegistersFirst NoSelfOverlap NameCurrent ConnectedIsListed
PROPERTIES Reconnects StopUnlists
