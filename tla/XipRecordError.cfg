SPECIFICATION Spec
CONSTANTS
  game1 = game1
  game2 = game2
  tool = tool
  broken = broken
  GAME = GAME
  TOOL = TOOL
  File = {game1, tool}
  ValidFile = {game1, tool}
  Command <- Commands
  CommandOf <- FileCommand
  Env = {e1}
  Raw = Raw
  NoFile = NoFile
  NoCommand = NoCommand
  Slots = 3
  Extents = 2
  Sectors = 1
  Capacity = 2
  Faults = {"crash", "record_error", "smudge"}
PROPERTIES
  ListedKeepsItsExtent
