SPECIFICATION AnySpec
CONSTANTS
  nhandles = 3
  GenSize = 8
  MaxTurns = 7
  Kinds = {"arena"}
  Values = {1, 2}
  RingSize = 3
  StackCaps = {1, 2}
  StackMax = 4
  ArrayNames = {1, 2}
  MaxElems = 3
  Reserve = 1
  SizeMod = 16
  Nodes = {1, 2, 3, 4}
  BlockCaps = {4, 8}
  Sizes = {1, 2}
  BlockMax = 12
  MaxHunks = 3
  BitsPerCell = 3
  BitSizes = {0, 3, 4}
  FlagSets = {{"auto"}}
  Fails = FALSE
  MapKeys <- EightKeys
  MapEntries <- EightEntries
  HashFn <- Collisions
  LeastCap = 8
  MostCap = 16
  Wants = {1, 7}
  TextMax = 5
  TextLimits = {0, 3, 5}
  TextSources <- SomeTexts
  Letters = {"a", "b"}
  PathStrings <- SomePaths
  PathMax = 6
  None = None
  Empty = Empty
  Tomb = Tomb
  Junk = Junk
  Lost = Lost
INVARIANTS HunksInside
CHECK_DEADLOCK FALSE
