SPECIFICATION PartSpec
CONSTANTS
  Size = 3
  UI = UI
  Pushers = {p1}
  Windows = {w}
  Keys = {k}
  Sizes = {1, 2}
  MaxEvents = 3
  None = None
  Objects = {o1, o2, o3, o4}
  Blocks = {b1, b2}
  Null = Null
  Unset = Unset
  Values = {v1, v2}
  Texts = {v1, v2}
  Foreign = Foreign
  Image = Image
  SYSUI_MAX_USERDATA = 2
  MaxShow = 1
  MaxCount = 3
  Files = {f1, f2, f3}
  Broken = {f3}
  Exported <- OneSymbol
  Symbols = {s1, s2}
  Handles = {h1, h2, h3}
INVARIANTS EventsTell DeathIsLast PartsWhole WindowsOwnData DesktopGivenBack ProcsCallable
PROPERTIES FifoSpec EventsArrive
