SPECIFICATION Spec
CONSTANTS
  Tables = {"unicode", "tcvn"}
  Unicode = "unicode"
  Apps = {"plain", "tcvnApp"}
  Override <- MCOverride
  NoTable = "noTable"
  NoApp = "noApp"
  Uses = {"table"}
  MaxUses = 1
  MaxFocus = 1
INVARIANT PickedTableKept
CHECK_DEADLOCK FALSE
