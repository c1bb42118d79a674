SPECIFICATION FairSpec
CONSTANTS
  Workers = {w1, w2}
  Clients = {c1}
  Owner = o
  Tasks = {a, b}
  Markers = {m1, m2}
  Plans <- Deinit
  Capacity = 4
  NoThread = NoThread
  Empty = Empty
INVARIANT RunsOnce
PROPERTIES AcceptedRuns ShutdownReturns
CHECK_DEADLOCK FALSE
