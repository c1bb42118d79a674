SPECIFICATION Spec
CONSTANTS
  Workers = {w1, w2}
  Clients = {c1}
  Owner = o
  Tasks = {a, b}
  Markers = {m1, m2}
  Plans <- Deinit
  Capacity = 1
  NoThread = NoThread
  Empty = Empty
INVARIANT RunsOnce
CHECK_DEADLOCK FALSE
