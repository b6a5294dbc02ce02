SPECIFICATION Spec
CONSTANTS
  Bytes        <- MCBytes
  MaxKeys      = 3
  CharIsSigned = TRUE
  Modes        <- MCModes
  Values       <- MCValues
INVARIANTS TypeOK RequestHasByte ReadyIffUnread
PROPERTIES LostOnlyByOpen ImplementsChannel
