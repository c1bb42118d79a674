SPECIFICATION PartSpec
CONSTANTS
  Workers = {w1, w2}
  Clients = {c1, c2}
  Owner = o
  Tasks = {a, b, c}
  Markers = {m1, m2, m3, m4}
  Plans <- AnyShutdown
  Capacity = 2
  NoThread = NoThread
  Empty = Empty
  Main = main
  Blocks = {b1, b2, b3}
  None = None
  Codes = {0}
  StillActive = 259
  MaxInits = 2
SYMMETRY Symmetry
INVARIANTS NoUseAfterFree ThreadsAccounted
CHECK_DEADLOCK FALSE
