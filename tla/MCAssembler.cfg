SPECIFICATION Spec
CONSTANTS
  WordMax           = 31
  MaxMemory         = 2
  MaxData           = 2
  MaxLabels         = 2
  MaxUnresolvedRefs = 4
  Texts             <- MCTexts
  Literals          <- MCLiterals
  Others            <- MCOthers
  Sources           <- ShortFiles
INVARIANTS TypeOK HolesRecorded JumpsLand
PROPERTIES OnlyHolesFilled ImplementsTranslation
\* the assembly ends
CHECK_DEADLOCK FALSE
