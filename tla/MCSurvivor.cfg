\* A replaced connection's unregister against the registration that replaced it.
SPECIFICATION Spec
CONSTANTS
  c1 = c1  c2 = c2  i1 = i1
  Conn = {c1, c2}
  Id = {i1}
  Phone = {}
  Bridge = {}
  Watcher = Watcher
  None = None
  Event = {}
  MaxEvents = 0
  MaxRenames = 0
  ControlCapacity = 4
  EventCapacity = 1
CHECK_DEADLOCK FALSE
INVARIANT SurvivorStaysListed
