\* Smart switch, a forced application and a toggle.
SPECIFICATION Spec
CONSTANTS
    Apps = {plain, forced}
    NoApp = NoApp
    Excluded = {}
    Forced = {forced}
    Tsf = {}
    CjkApps = {}
    HelperApps = {}
    SmartSwitch = TRUE
    CjkAutoSwitch = FALSE
    MaxEntries = 1
    MaxWindows = 2
    MaxToggles = 1
    MaxLayouts = 0
    MaxTips = 0
    MaxEvents = 3
INVARIANTS LockNotRemembered
PROPERTIES Settles
CHECK_DEADLOCK FALSE
