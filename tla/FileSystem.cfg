SPECIFICATION PartSpec
CONSTANTS
  id1 = id1
  id2 = id2
  id3 = id3
  path1 = path1
  name1 = name1
  Threads = {t1, t2}
  Ids = {id1, id2, id3}
  LongIds = {id2, id3}
  CutIds = {id3}
  Paths = {path1}
  EmptyPath = EmptyPath
  Entries = 3
  MaxDepth = 2
  Zero = Zero
  Size = Size
  Null = Null
  None = None
  nhandles = 2
  GenSize = 8
  MaxTurns = 4
  Buffers = {b}
  BufSize = 2
  Files <- AllFiles
  MaxFile = 2
  SizeMod = 8
  Values <- ShortValues
  Offsets <- SomeOffsets
  Nothing = Nothing
  Names = {name1}
  NoPath = NoPath
  t1 = t1
  top = top
  sub = sub
  TreePaths <- ThreePaths
  Dot = Dot
  Registries <- OneRegistered
INVARIANTS NamesKept OwnObject ReadsBack MkdirTells ListedOnce
CHECK_DEADLOCK FALSE
