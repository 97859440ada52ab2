SPECIFICATION FairSpec
CONSTANTS
  game1 = game1
  game2 = game2
  tool = tool
  broken = broken
  GAME = GAME
  TOOL = TOOL
  File = {game1, game2, tool}
  ValidFile = {game1, game2, tool}
  Command <- Commands
  CommandOf <- FileCommand
  Env = {e1, e2}
  Raw = Raw
  NoFile = NoFile
  NoCommand = NoCommand
  Slots = 4
  Extents = 2
  Sectors = 1
  Capacity = 1
  Faults = {"crash", "reloc_crash", "flush_crash", "patch_error"}
INVARIANTS
  RebootKeepsCatalog
PROPERTIES
  ImplementsCatalog
  StartupCreated
