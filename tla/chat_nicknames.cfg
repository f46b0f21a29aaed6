SPECIFICATION Spec
CONSTANTS
  c1 = c1
  c2 = c2
  Conns = {c1, c2}
  NoConn = NoConn
  Names = {0, 1, 2}
  Requests <- RenameRequests
  Leftovers = {}
  Stale = {"none"}
SYMMETRY Symmetry
INVARIANTS NicknamesUnique
CHECK_DEADLOCK FALSE
