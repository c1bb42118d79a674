SPECIFICATION Spec
CONSTANTS
  Threads = {t1, t2}
  Capacity = 2
  WordSize = 256
  MaxPos = 7
  NoThread = NoThread
INVARIANT FreeBlocksStored
CHECK_DEADLOCK FALSE
