SPECIFICATION Spec
CONSTANTS
  Activation = {a}
  ScheduleId = {daily}
  Lease = {l1}
  User = User
  None = None
  MaxFaults = 0
  MaxChanges = 0
INVARIANTS ReleasedIsFinal
CHECK_DEADLOCK FALSE
