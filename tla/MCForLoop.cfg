SPECIFICATION Spec
CONSTANTS
  MinInt <- MCMinInt
  MaxInt = 7
  MinPtr <- MCMinPtr
  MaxPtr = 12
  Headers <- MCHeaders
  Engines <- AllEngines
  Assignable <- Discipline
  Value <- MCValue
  MaxPass = 12
INVARIANTS TypeOK IterationsExact
PROPERTY RegularLoopsEnd
CHECK_DEADLOCK FALSE
