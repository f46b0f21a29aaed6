SPECIFICATION Spec
CONSTANTS
  c1 = c1
  Conns = {c1}
  NoConn = NoConn
  Names = {0, 1}
  Requests <- QuitRequests
  Leftovers = {}
  Stale = {"none"}
INVARIANTS QuitOnlyDisconnects
CHECK_DEADLOCK FALSE
