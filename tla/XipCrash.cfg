SPECIFICATION Spec
CONSTANTS
  game1 = game1
  game2 = game2
  tool = tool
  broken = broken
  GAME = GAME
  TOOL = TOOL
  File = {game1, game2, tool, broken}
  ValidFile = {game1, game2, tool}
  Command <- Commands
  CommandOf <- FileCommand
  Env = {e1}
  Raw = Raw
  NoFile = NoFile
  NoCommand = NoCommand
  Slots = 5
  Extents = 2
  Sectors = 2
  Capacity = 2
  Faults = {"crash", "reloc_crash", "copy_error", "map_error", "reloc_error"}
INVARIANTS
  RebootKeepsCatalog
  CommittedIsComplete
  ActiveRunsIntact
PROPERTIES
  AppendOnly
  ExtentsAppendOnly
