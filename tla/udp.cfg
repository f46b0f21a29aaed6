SPECIFICATION Spec
CONSTANTS
  n1 = n1
  n2 = n2
  Nicks = {n1, n2, n3}
  Addrs = {a1}
  NoAddr = NoAddr
  ZeroAddr = ZeroAddr
  NoState = NoState
  Threads = {t1, t2}
  Arrivals <- Arriving
SYMMETRY Symmetry
INVARIANTS TypeOK NobodyMadeUp UpUnlessRaced
PROPERTIES ImplementsRounds
CHECK_DEADLOCK FALSE
