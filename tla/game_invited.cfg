SPECIFICATION GameSpec
CONSTANTS
  c1 = c1
  c2 = c2
  c3 = c3
  Conns = {c1, c2, c3}
  Gamers = {c1, c2}
  NoConn = NoConn
  NoGame = NoGame
  Names = {0, 1, 2, 3}
  Requests <- InviteRequests
  Leftovers = {}
  Stale = {"none"}
  Steady = TRUE
  Polite = TRUE
INVARIANTS InvitedMayPlay
SYMMETRY Symmetry
CHECK_DEADLOCK FALSE
