SPECIFICATION Spec
CONSTANTS
  Local = {"x", "y"}
  Shared = {"s"}
  Value = {0, 1}
  Zero = 0
  Code = {0, 1}
  Lines = 2
  DataLen = 1
  ArgLists <- MCArgLists
  MayAlias = FALSE
  MaxDepth = 3
INVARIANTS TypeOK ByRefTransparent InputInOrder ErrorCodeIsLast
CHECK_DEADLOCK FALSE
