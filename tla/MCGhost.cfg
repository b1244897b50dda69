\* A session_update sent after the session_disconnected of its session.
SPECIFICATION ControlSpec
CONSTANTS
  c1 = c1  i1 = i1  p1 = p1  text = text
  Conn = {c1}
  Id = {i1}
  Phone = {p1}
  Bridge = {}
  Watcher = Watcher
  None = None
  Event <- MCStarts
  MaxEvents = 1
  MaxRenames = 0
  ControlCapacity = 8
  EventCapacity = 2
CHECK_DEADLOCK FALSE
INVARIANT NoGhostSession
