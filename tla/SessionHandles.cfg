SPECIFICATION Spec
CONSTANTS
  vc = vc
  alley = alley
  None = None
  Cmd = {vc, alley}
  BuiltIn <- Firmware
  Scripts <- StartScripts
  Installed <- FirstModules
  ModuleCapacity = 2
  Batch = 2
  UartCapacity = 3
  Typable <- Typed
  MaxTyped = 3
  MaxHandle = 3
  Faults = {"irom", "drom", "build", "load", "install"}
INVARIANTS
  HandlesReleased
