SPECIFICATION Spec
CONSTANTS
  Exprs <- MCExprs
  Few <- MCFew
  Bodies <- MCBodies
  DataLists <- MCDataLists
INVARIANTS
  TextStable
  RoundTrip
CHECK_DEADLOCK FALSE
