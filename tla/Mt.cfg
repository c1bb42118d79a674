SPECIFICATION Spec
CONSTANTS
  Threads = {t1, t2, t3}
  Values = {a, b, c}
  Capacity = 2
  NoThread = NoThread
  Empty = Empty
SYMMETRY Symmetry
INVARIANTS PermitsBalance EndsApart
PROPERTIES DequeSpec RefusedOnlyWhenFull
CHECK_DEADLOCK FALSE
