SPECIFICATION MidFairSpec
CONSTANTS
  c1 = c1
  c2 = c2
  c3 = c3
  Conns = {c1, c2}
  Gamers = {c1, c2}
  NoConn = NoConn
  NoGame = NoGame
  Names = {0, 1, 2, 3}
  Requests <- LiveRequests
  Leftovers = {}
  Stale = {"none"}
  Steady = FALSE
  Polite = FALSE
PROPERTIES FinishedIsReset GoneIsDropped
CHECK_DEADLOCK FALSE
