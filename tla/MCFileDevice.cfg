SPECIFICATION BoundedSpec
CONSTANTS
  WordMax   = 127
  Written   <- MCWritten
  Modes     <- MCModes
  Padding   <- MCPadding
  Earlier   <- MCEarlier
  MayFail   = TRUE
  MaxWrites = 2
  MaxBytes  = 18
INVARIANTS TypeOK NoStrayBytes CrashLeavesPrefix ClosedIsComplete
PROPERTY ReadsAdvance
