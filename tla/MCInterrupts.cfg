SPECIFICATION FairSpec
CONSTANTS
  MaxMemory  = 2
  MaxData    = 2
  MaxVectors = 2
  Devices    <- MCDevices
  irq_vector <- MCIrqVector
  Values     <- MCValues
INVARIANT TypeOK
PROPERTIES ReturnAddressKept EntryIsPrecise RequestEndsInItsHandler HandlerLeftByReturn
           RaisedLineIsTaken
