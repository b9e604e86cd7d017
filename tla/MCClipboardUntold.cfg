CONSTANTS
  Pieces = {first, second}
  Configs <- MCConfigs
  Holds <- MCHolds
  Controls = {"edit", "rich", "other"}
  MaxCommands = 3
  MaxDisturbances = 0
  MaxEvents = 4
  MaxMoves = 1
SYMMETRY Symmetry
SPECIFICATION ClipboardSpec
PROPERTY SelectionCopied
CHECK_DEADLOCK FALSE
