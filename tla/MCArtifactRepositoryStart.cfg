SPECIFICATION Spec
CONSTANTS
  b1 = b1  b2 = b2  upgrade = upgrade  mod = mod  r1 = r1  r2 = r2
  None = None  Builtin = Builtin
  Module = {mod}
  Archive = {b1, b2, upgrade}
  ModuleOf <- MCModuleOf
  VersionOf <- MCVersionOf
  UserRequest = {r1}
  Build <- MCBuild
  MaxEdits = 2
  MaxStarts = 3
  MaxCrashes = 1
  MaxFaults = 1
CHECK_DEADLOCK FALSE
INVARIANT StartRecovers
