SPECIFICATION LimiterFairSpec
CONSTANTS
    Threads = {t1, t2}
    NoThread = NoThread
    MaxCount = 2
    Window = 2
    MaxTime = 5
    MaxDepth = 3
\* Threads that wait for a mutex one of them holds twice have stopped.
CHECK_DEADLOCK FALSE
INVARIANTS
    FrequencyIsBounded
PROPERTIES
    OnlyExcessIsRefused
    FailureEndsOrHangs
