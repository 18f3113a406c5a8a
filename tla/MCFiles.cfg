SPECIFICATION Spec
CONSTANTS
  Name = {a, b}
  Modes = {0, 1, 32, 48, 2052}
  Text <- MCText
  Counts <- MCCounts
  Offsets <- MCOffsets
  Slots = 5
  LineMax = 2
  MaxOpens = 3
  MaxLen = 2
  MaxDepth = 2
INVARIANTS TypeOK EnginesInStep
SYMMETRY NameSymmetry
CHECK_DEADLOCK FALSE
