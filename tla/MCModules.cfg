SPECIFICATION PartSpec
CONSTANTS
  b1 = b1  b2 = b2  upgrade = upgrade  mod = mod  r1 = r1  r2 = r2
  None = None  Builtin = Builtin
  Module = {mod}
  Archive = {b1, b2, upgrade}
  ModuleOf <- MCModuleOf
  VersionOf <- MCVersionOf
  UserRequest = {r1}
  Build <- MCBuild
  MaxEdits = 2
  MaxStarts = 3
  MaxCrashes = 1
  MaxFaults = 1
  Call = {"r1", "r2", "r3", "s1"}
  Correlation = {"x"}
  Requests = {"r1", "r2", "r3"}
  Target <- TargetFirst
  Identity <- IdentityShared
  Within <- NestedOnce
  MaxFamilies = 2
  Activation = {a, b}
  ScheduleId = {daily}
  Observer = {o}
  Delivery = {d1, d2}
  MaxChanges = 2
INVARIANTS TypesOK FilesAndCatalogAgree
PROPERTIES EditsSurvive FramesFindTheirOwn ModulesSettle
CHECK_DEADLOCK FALSE
