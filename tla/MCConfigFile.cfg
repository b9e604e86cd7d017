VIEW UpToVersions
SPECIFICATION Spec
CONSTANTS
  Kinds = {"macro"}
  HeldKeys = {"method"}
  Editions = {"sciter", "classic"}
  Starts = {"none"}
  Reasons = {"timeout", "unreadable", "refused", "exit", "tick"}
  MaxEdits = 2
  MaxTied = 2
  MaxTroubles = 1
  NoThread = "noThread"
  NoKind = "noKind"
INVARIANT WritersExclude
INVARIANT LoadIsCurrent
INVARIANT PickedLands
PROPERTY OthersKept
CHECK_DEADLOCK FALSE
