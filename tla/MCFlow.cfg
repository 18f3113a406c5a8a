SPECIFICATION Spec
CONSTANTS
  Block <- MCBlock
  Label <- MCLabel
  None <- MCNone
  Main = "M"
  Programs <- MCPrograms
  MaxDepth = 7
  GosubLimit = 8
INVARIANTS TypeOK StackNested
PROPERTIES CallsEndAlone GosubsResume ExitsLeaveOneLoop RefinesC RefinesLlvm
CHECK_DEADLOCK FALSE
