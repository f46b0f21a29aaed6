SPECIFICATION MidSpec
CONSTANTS
  c1 = c1
  c2 = c2
  c3 = c3
  Conns = {c1, c2}
  Gamers = {c1, c2}
  NoConn = NoConn
  NoGame = NoGame
  Names = {0, 1, 2}
  Requests <- GameRequests
  Leftovers = {}
  Stale = {"none"}
  Steady = TRUE
  Polite = FALSE
INVARIANTS GameTypeOK ResetPending TurnHeld
CONSTRAINT Ending
CHECK_DEADLOCK FALSE
