CONSTANTS
    Producers = {worker, main}
    Classifier = worker
    Hook = hook
    MaxPosts = 2
    MaxCount = 1
    MaxStarts = 2
SPECIFICATION MailboxSpec
CHECK_DEADLOCK FALSE
INVARIANTS NoStrandedCommand ConfigNotLost
PROPERTIES NoMidWordSwap CommandsDrained
