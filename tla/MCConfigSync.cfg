SPECIFICATION Spec
CONSTANTS
  Tables = {"unicode", "tcvn"}
  Unicode = "unicode"
  Apps = {"plain", "tcvnApp"}
  Override <- MCOverride
  NoTable = "noTable"
  NoApp = "noApp"
  Uses = {"edit", "list", "menu", "table"}
  MaxUses = 2
  MaxFocus = 1
INVARIANTS EngineFollows
PROPERTIES ChangesArrive
CHECK_DEADLOCK FALSE
