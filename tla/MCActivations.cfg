SPECIFICATION PartSpec
CONSTANTS
  Activation = {a, b}
  ScheduleId = {daily}
  Lease = {l1, l2}
  User = User
  None = None
  MaxFaults = 2
  MaxChanges = 1
  Session = {s1}
  CaptureLoop = {k1, k2}
  MaxRestarts = 2
  MaxReactivations = 1
  MaxFailedWrites = 1
SYMMETRY LeaseSymmetry
INVARIANTS TypeOK TableAndSchedulerAgree OverlayFollowsTable ReleasedOwnsNothing
PROPERTIES SessionsComeBackOnce
CHECK_DEADLOCK FALSE
