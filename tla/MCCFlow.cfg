SPECIFICATION CSpec
CONSTANTS
  Block <- MCBlock
  Label <- MCLabel
  None <- MCNone
  Main = "M"
  Programs <- MCPrograms
  GosubLimit = 3
  MaxCalls = 3
CHECK_DEADLOCK FALSE
INVARIANTS CTypeOK GosubStackSound
PROPERTY CallersLabelsKept
