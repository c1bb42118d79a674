SPECIFICATION FairSpec
CONSTANTS
  Threads = {t1, t2, t3}
  Values = {a, b}
  Capacity = 2
  WordSize = 256
  MaxPos = 3
INVARIANTS SlotExclusive NeverSpins SizeQueriesAgree ItemInv
PROPERTIES StoreSpec CallsReturn
CHECK_DEADLOCK FALSE
