\* Entering an application with a TSF TIP that is not active.
SPECIFICATION Spec
CONSTANTS
    Apps = {plain, tsf}
    NoApp = NoApp
    Excluded = {}
    Forced = {}
    Tsf = {tsf}
    CjkApps = {}
    HelperApps = {}
    SmartSwitch = FALSE
    CjkAutoSwitch = FALSE
    MaxEntries = 2
    MaxWindows = 1
    MaxToggles = 0
    MaxLayouts = 0
    MaxTips = 2
    MaxEvents = 3
PROPERTIES SyncBringsDecision
CHECK_DEADLOCK FALSE
