SPECIFICATION Spec
CONSTANT Windows <- MCWindows
CONSTANT Letters = {"a", "b"}
CONSTANT MaxKeys = 4
CONSTANT MaxFaults = 1
CONSTANT MaxTries = 1
CONSTANT MaxPauses = 1
INVARIANT ScreenMatches
PROPERTY OrderKept
INVARIANT CounterExact
PROPERTY EditsInOrder
CHECK_DEADLOCK FALSE
