SPECIFICATION AnySpec
CONSTANTS
  nhandles = 3
  GenSize = 8
  MaxTurns = 7
  Kinds = {"handles", "hash", "tree", "ring", "stack", "array", "list", "arena", "text", "string", "path", "utf", "memory", "bits"}
  Values = {1, 2}
  RingSize = 3
  StackCaps = {1, 2}
  StackMax = 4
  ArrayNames = {1, 2}
  MaxElems = 3
  Reserve = 1
  SizeMod = 16
  Nodes = {1, 2, 3, 4}
  BlockCaps = {4, 8}
  Sizes = {1, 2}
  BlockMax = 12
  MaxHunks = 3
  BitsPerCell = 3
  BitSizes = {0, 3, 4}
  FlagSets = {{}, {"auto"}, {"less"}, {"auto", "less"}}
  Fails = TRUE
  MapKeys <- EightKeys
  MapEntries <- EightEntries
  HashFn <- Collisions
  LeastCap = 8
  MostCap = 16
  Wants = {1, 7}
  TextMax = 5
  TextLimits = {0, 3, 5}
  TextSources <- SomeTexts
  Letters = {"a", "b"}
  PathStrings <- SomePaths
  PathMax = 6
  None = None
  Empty = Empty
  Tomb = Tomb
  Junk = Junk
  Lost = Lost
INVARIANTS HeldAreValid StaleAreRejected GenerationInv MapFinds TreeHolds EnumeratesBusy SequencesHold TextsConvert MemoryHeld
CHECK_DEADLOCK FALSE
