\* Two connections on two ids, one of which they may share, a bridge, and events that
\* overrun its receiver and the watchers: both connections may publish on one handle.
SPECIFICATION BridgeSpec
CONSTANTS
  c1 = c1  c2 = c2  i1 = i1  i2 = i2  b1 = b1
  Conn = {c1, c2}
  Id = {i1, i2}
  Phone = {}
  Bridge = {b1}
  Watcher = Watcher
  None = None
  Ack = Ack
  Close = Close
  Event <- MCDeltas
  MaxEvents = 1
  MaxRenames = 0
  MaxCommands = 0
  ControlCapacity = 4
  EventCapacity = 1
CHECK_DEADLOCK FALSE
SYMMETRY MCSymmetry
INVARIANTS BridgeTypeOK EntriesLive MissingOnlyIfShared OpenBridgeHears NoLeakedReceiver
PROPERTIES ImplementsDirectory RetirementIsNoticed
