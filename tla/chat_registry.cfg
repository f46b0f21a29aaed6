\* Two connections, the names 1 and 2 and the empty one, all requests.
SPECIFICATION Spec
CONSTANTS
  c1 = c1
  c2 = c2
  Conns = {c1, c2}
  NoConn = NoConn
  Names = {0, 1, 2}
  Requests <- AllRequests
  Leftovers <- LeftRequests
  Stale = {"none", "N"}
SYMMETRY Symmetry
INVARIANTS TypeOK RegistryAgrees ClosedWindow
CHECK_DEADLOCK FALSE
