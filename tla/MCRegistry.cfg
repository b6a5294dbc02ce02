SPECIFICATION Spec
CONSTANTS
  MaxDevices = 3
  Ids        <- MCIds
  Objects    = {o1, o2, o3, o4}
  NULL       = NULL
INVARIANTS TypeOK NoDangling
PROPERTIES ImplementsDirectory
\* the clean up ends the run
CHECK_DEADLOCK FALSE
