SPECIFICATION FairSpec
CONSTANTS
  vc = vc
  alley = alley
  None = None
  Cmd = {vc, alley}
  BuiltIn <- Firmware
  Scripts <- StartScripts
  Installed <- FirstModules
  ModuleCapacity = 1
  Batch = 3
  UartCapacity = 3
  Typable <- Typed
  MaxTyped = 4
  MaxHandle = 2
  Faults = {"irom", "relocate", "build", "load", "install"}
INVARIANTS
  SessionIsolated
  ProgramStaysMapped
  HandlesReleased
  PressUsedOnce
PROPERTIES
  InstallsAlone
  EndReturns
