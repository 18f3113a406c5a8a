SPECIFICATION Spec
CONSTANTS
  Char = {"a", "b"}
  LF = "LF"
  MaxBytes = 2
  MaxOut = 5
  MaxDepth = 2
INVARIANTS TypeOK NoByteLost
CHECK_DEADLOCK FALSE
