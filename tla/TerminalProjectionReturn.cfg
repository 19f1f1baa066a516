SPECIFICATION Spec
CONSTANTS
  Terminal = {t1}
  None = None
  MaxRevision = 1
  MaxLists = 2
CHECK_DEADLOCK FALSE
PROPERTIES
  ListsNeverResurrect
