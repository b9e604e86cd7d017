CONSTANTS
  Pieces = {first, second}
  Configs <- MCConfigs
  Holds <- MCHolds
  Controls = {"edit", "other"}
  MaxCommands = 3
  MaxDisturbances = 1
  MaxEvents = 4
  MaxMoves = 1
SYMMETRY Symmetry
SPECIFICATION ClipboardSpec
INVARIANT CopySurvives
PROPERTY ClipboardShared
PROPERTY ReplacesItsOwn
INVARIANT CycleFromOrigin
CHECK_DEADLOCK FALSE
