SPECIFICATION MachineSpec
CONSTANTS
  KeyCapacity = 2
  ScanCapacity = 4
  Batch = 2
  MaxKeys = 3
  MaxReads = 2
  Services = {"wait", "cli", "sti_isr", "end"}
  PanelRows = 5
  DisplayFaults = {"alloc", "submit", "timeout"}
  SegmentLimit = 5
  MemoryEnd = 4
  FileNames = {"a", "d"}
  FileSize <- MCSize
  Special <- MCSpecial
  Patterns <- MCPatterns
  FileSlots = 2
  MaxRead = 1
  FileFaults = {"open", "read", "close", "stat"}
  Day = 3
  RolloverSize = 3
  MaxStep = 7
  MaxTime = 12
  HalfSize = 2
  PitModes = {2, 3}
  Rows = 2
  Narrow = 1
  TextPages = 2
  VramCells = 4
  Characters = {"a"}
  Windows <- MCWindows
  MaxCount = 3
  MaxPaper = 5
  Strokes = {"letter", "enter", "backspace", "break", "bracket", "escape", "up", "end", "delete"}
  MaxStrokes = 3
  Programs <- MCPrograms
  Instructions = {"inc", "rcl", "lahf", "shl_cl"}
  ByteSize = 2
  Paragraph = 2
  AddressSpace = 8
  PrimarySize = 1
  PageSize = 2
  PageCount = 2
  WindowFirst = 6
  WindowSize = 1
  Segments = {0, 1, 2, 3}
  HeapRoom = 2
  Inputs <- MCInputs
INVARIANTS
  MachineTypeOK
  OneUnacknowledged
  HandlerFindsCode
  KeysInOrder
  DrawnIsIdle
  PanelIsWhole
  BlocksDisjoint
  StreamsAreOwned
  SearchFindsAll
  ElapsedIsRight
  PairsAreWhole
  SpeakerFollowsPorts
  BdaFollows
  TeletypeLikePaper
  KeystrokesDecode
  FlagsAreFresh
  OutputIsRight
PROPERTIES
  ScansImplementStream
  MemoryIsRam
