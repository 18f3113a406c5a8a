SPECIFICATION Spec
INVARIANTS ExpressionsReadBack StatementsReadInPlace SelectsRunTheirMatches
CHECK_DEADLOCK FALSE
