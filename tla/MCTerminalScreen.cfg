SPECIFICATION Spec
CONSTANTS
  MaxAttach = 2
  MaxOutput = 2
INVARIANTS FinalScreenKept
CHECK_DEADLOCK FALSE
