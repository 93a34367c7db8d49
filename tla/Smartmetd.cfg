SPECIFICATION FairSpec
CONSTANTS
    Signals = {"SIGTERM", "SIGINT", "SIGWINCH"}
    MaxSignals = 7
    WatchdogPolls = 7
    MayHang = {{}, {"pools"}, {"reactor"}, {"init"}}
INVARIANTS
    OnlyToldToStop
    AbortNeedsSignals
PROPERTIES
    InterruptEnds
    EndOfAPartEndsAll
