SPECIFICATION FairSpec
CONSTANTS
    Workers = {w1, w2, w3}
    MaxPolls = 2
    MaxCalls = 2
INVARIANTS
    PoolsGoInBetween
PROPERTIES
    PoolsStayGone
    ShutdownEnds
