\* Entering an application with a Japanese layout.
SPECIFICATION Spec
CONSTANTS
    Apps = {plain, japanese}
    NoApp = NoApp
    Excluded = {}
    Forced = {}
    Tsf = {}
    CjkApps = {japanese}
    HelperApps = {}
    SmartSwitch = TRUE
    CjkAutoSwitch = TRUE
    MaxEntries = 2
    MaxWindows = 2
    MaxToggles = 0
    MaxLayouts = 0
    MaxTips = 0
    MaxEvents = 3
PROPERTIES SavesModeLeft
CHECK_DEADLOCK FALSE
