SPECIFICATION ResendSpec
CONSTANTS
  Keys = {0, 1, 2, 3}
  Values <- AllPackets
  Size = 3
  Nodes = {m1, m2, m3, m4}
  NoNode = NoNode
  Cycle = 4
  Senders = {t1, t2}
  NoPacket = NoPacket
  MaxSent = 5
SYMMETRY Symmetry
INVARIANTS Bounded NoDangling LatestFound FoundWhenHeld ResendsAcked
PROPERTIES ImplementsStore
CHECK_DEADLOCK FALSE
