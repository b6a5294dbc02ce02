SPECIFICATION BoundedSpec
CONSTANTS
  WordMax   = 127
  Written   <- MCWritten
  Modes     <- MCModes
  Padding   <- MCPadding
  Earlier   <- NoEarlier
  MayFail   = FALSE
  MaxWrites = 2
  MaxBytes  = 18
PROPERTY FirstReadSucceeds
