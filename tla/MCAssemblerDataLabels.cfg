SPECIFICATION Spec
CONSTANTS
  WordMax           = 31
  MaxMemory         = 27
  MaxData           = 27
  MaxLabels         = 128
  MaxUnresolvedRefs = 256
  Texts             <- MCTexts
  Literals          <- MCLiterals
  Others            <- MCOthers
  Sources           <- MemoryDemo
INVARIANTS DataLabelsServe
\* the assembly ends
CHECK_DEADLOCK FALSE
