SPECIFICATION FairSpec
CONSTANTS
  WordMax      = 63
  MaxMemory    = 7
  MaxData      = 7
  MaxVectors   = 2
  DmemSize     = 7
  Handlers     <- MCHandlers
  DeviceSets   <- AnyDevices
  Programs     <- AllPrograms
  Garbage      <- MCGarbage
  Bytes        <- OneKey
  MaxKeys      = 2
  CharIsSigned = TRUE
  Padding      <- MCPadding
  Earlier      <- LongFile
  MayFail      = FALSE
  MaxWrites    = 8
  MaxBytes     = 64
INVARIANT TypeOK
PROPERTIES ImplementsInterrupts ImplementsTerminal ImplementsFile TreadStatus
           Halts EveryKeyIsRead KeyEntersHandler
\* a run ends
CHECK_DEADLOCK FALSE
