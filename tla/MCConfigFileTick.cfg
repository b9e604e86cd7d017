SPECIFICATION Spec
CONSTANTS
  Kinds = {}
  HeldKeys = {"method"}
  Editions = {"classic"}
  Starts = {"none"}
  Reasons = {"tick"}
  MaxEdits = 2
  MaxTied = 1
  MaxTroubles = 1
  NoThread = "noThread"
  NoKind = "noKind"
PROPERTY LoadGivesFile
CHECK_DEADLOCK FALSE
