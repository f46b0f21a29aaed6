SPECIFICATION GameSpec
CONSTANTS
  c1 = c1
  c2 = c2
  c3 = c3
  Conns = {c1, c2}
  Gamers = {c1, c2}
  NoConn = NoConn
  NoGame = NoGame
  Names = {0, 1, 2}
  Requests <- PoliteRequests
  Leftovers = {}
  Stale = {"none"}
  Steady = TRUE
  Polite = TRUE
INVARIANTS PoliteIsSafe DropsOnlyFinished WinnerMovedLast ResetPending
PROPERTIES ImplementsChat
SYMMETRY Symmetry
CONSTRAINT Centre
CHECK_DEADLOCK FALSE
