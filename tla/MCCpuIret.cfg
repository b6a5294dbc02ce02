SPECIFICATION Spec
CONSTANTS
  WordMax      = 31
  MaxMemory    = 7
  MaxData      = 7
  MaxVectors   = 2
  DmemSize     = 7
  Handlers     <- MCHandlers
  DeviceSets   <- Both
  Programs     <- ReturningHandler
  Garbage      <- MCGarbage
  Bytes        <- OneKey
  MaxKeys      = 0
  CharIsSigned = TRUE
  Padding      <- MCPadding
  Earlier      <- NoFile
  MayFail      = FALSE
  MaxWrites    = 8
  MaxBytes     = 64
PROPERTY IretReturns
\* a run ends
CHECK_DEADLOCK FALSE
