SPECIFICATION FairServerSpec
CONSTANTS
  Connection = {c1, c2}
  Rude = {}
  MaxEvents = 1
PROPERTY StopIsNotBlocked
CHECK_DEADLOCK FALSE
