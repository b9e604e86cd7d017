SPECIFICATION Spec
CONSTANTS
  Kinds = {"macro"}
  HeldKeys = {"method"}
  Editions = {"sciter"}
  Starts = {"none"}
  Reasons = {}
  MaxEdits = 2
  MaxTied = 0
  MaxTroubles = 1
  NoThread = "noThread"
  NoKind = "noKind"
PROPERTY SettingsKeepTrigger
CHECK_DEADLOCK FALSE
