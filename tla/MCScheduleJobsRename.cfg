SPECIFICATION JobsSpec
CONSTANTS
  daily = daily  old = old  new = new
  first = first  renamed = renamed
  ScheduleId = {daily}
  Digest = {old}
  Source = {first, renamed}
  None = None
  Triggered = {}
  MaxVersion = 2
  MaxRoutes = 1
CHECK_DEADLOCK FALSE
INVARIANTS
  AcceptedKeepsRunning
