\* The whole life of one session, with status changes and a rename, and a slow phone that
\* comes at any time, with a fetch it waits for and one it does not; fair scheduling.
SPECIFICATION FairControlSpec
CONSTANTS
  c1 = c1  i1 = i1  p1 = p1  text = text
  Conn = {c1}
  Id = {i1}
  Phone = {p1}
  Bridge = {}
  Watcher = Watcher
  None = None
  Event <- MCStatusEvents
  MaxEvents = 2
  MaxRenames = 1
  ControlCapacity = 2
  EventCapacity = 2
CHECK_DEADLOCK FALSE
INVARIANTS ListExact SummaryExact
PROPERTIES DisconnectShown WatcherEnds
