CONSTANTS
    Families <- MCFamilies
    Excused <- Everything
SPECIFICATION Spec
INVARIANTS
    InterpreterKeepsNames
    CProgramKeepsNames
CHECK_DEADLOCK FALSE
