\* Fair scheduling: a command to one of two connections of an id arrives, and what is
\* over, a replaced connection or a forwarder, winds down.
SPECIFICATION FairBridgeSpec
CONSTANTS
  c1 = c1  c2 = c2  i1 = i1  i2 = i2  b1 = b1
  Conn = {c1, c2}
  Id = {i1}
  Phone = {}
  Bridge = {b1}
  Watcher = Watcher
  None = None
  Ack = Ack
  Close = Close
  Event = {}
  MaxEvents = 0
  MaxRenames = 0
  MaxCommands = 1
  ControlCapacity = 4
  EventCapacity = 1
CHECK_DEADLOCK FALSE
PROPERTIES CommandArrives ReplacedConnectionEnds ForwarderStops

