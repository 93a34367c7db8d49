SPECIFICATION FairSpec
CONSTANTS
    Lower <- MCLower
    Configs <- MCConfigs
    Handlers <- MCHandlers
    MaxTime = 3
INVARIANTS
    LimitsAsConfigured
PROPERTIES
    EndsForOwnReason
    QueuedIsHandled
    LimitIsSet
