SPECIFICATION FairSpec
CONSTANTS
    MaxRequests = 3
    Pieces = 2
    KeepAliveEnabled = TRUE
    MaxKeepAliveRequests = 2
    Encrypted = TRUE
INVARIANTS
    RequestIsOwned
    TimerNeverRearms
    ReuseIsDecided
    WaitingIsBounded
PROPERTIES
    NothingTakenAfterTimeout
    PromiseKept
    ConnectionEnds
