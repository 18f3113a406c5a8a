CONSTANTS
    Families <- MCFamilies
    Excused <- AllButSwap
SPECIFICATION Spec
INVARIANT
    InterpreterKeepsNames
CHECK_DEADLOCK FALSE
