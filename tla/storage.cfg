SPECIFICATION Spec
CONSTANTS
  Nodes = {1, 2, 3}
  Absent = Absent
  Star = Star
  Threads = {t1, t2}
  NoJob = NoJob
  Arrivals <- Arriving
SYMMETRY Symmetry
INVARIANTS TypeOK
PROPERTIES ReadsRegular ImplementsGraph
CHECK_DEADLOCK FALSE
