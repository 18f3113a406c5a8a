SPECIFICATION Spec
CHECK_DEADLOCK FALSE
CONSTANTS
    Kinds <- MCKinds
    Sizes <- MCSizes
    Excused <- MCExcused
    Inner = 1
    MaxIndex = 2
    MaxSteps = 5
INVARIANTS
    InterpreterKeepsArrays
    CProgramKeepsArrays
    LlvmKeepsArrays
