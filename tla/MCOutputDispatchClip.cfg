SPECIFICATION Spec
CONSTANT Windows <- ClipboardWindows
CONSTANT Letters = {"a", "b"}
CONSTANT MaxKeys = 4
CONSTANT MaxFaults = 0
CONSTANT MaxTries = 1
CONSTANT MaxPauses = 0
INVARIANT ScreenMatches
CHECK_DEADLOCK FALSE
