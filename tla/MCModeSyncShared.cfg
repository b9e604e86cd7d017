\* The DLL, the CJK switch and an excluded application.
SPECIFICATION Spec
CONSTANTS
    Apps = {tsf, excl}
    NoApp = NoApp
    Excluded = {excl}
    Forced = {}
    Tsf = {tsf}
    CjkApps = {tsf}
    HelperApps = {tsf}
    SmartSwitch = FALSE
    CjkAutoSwitch = TRUE
    MaxEntries = 2
    MaxWindows = 1
    MaxToggles = 1
    MaxLayouts = 1
    MaxTips = 1
    MaxEvents = 3
INVARIANTS LayoutFollowed
PROPERTIES ModesAgree
CHECK_DEADLOCK FALSE
