\* The hook thread and the main thread signal the worker; two windows.
SPECIFICATION FCSpec
CONSTANTS
    Signalers = {hook, main}
    Hook = hook
    Main = main
    Intervals <- CadenceMs
    MaxStarts = 1
    MaxWindows = 2
INVARIANTS NoLostWakeup FocusNotForgotten LatestWindowClassified
PROPERTIES TypingResumesTicks
CHECK_DEADLOCK FALSE
