SPECIFICATION Spec
CONSTANTS
  Threads = {t1, t2, t3}
  Capacity = 2
  WordSize = 256
  MaxPos = 7
  NoThread = NoThread
SYMMETRY Symmetry
INVARIANTS OnePlace CountsRight
CHECK_DEADLOCK FALSE
