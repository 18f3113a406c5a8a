SPECIFICATION CSpec
CONSTANTS
  Block <- MCBlock
  Label <- MCLabel
  None <- MCNone
  Main = "M"
  Programs <- ReturnInsideGosub
  GosubLimit = 3
  MaxCalls = 3
CHECK_DEADLOCK FALSE
PROPERTY ReturnPopsOwnFrame
