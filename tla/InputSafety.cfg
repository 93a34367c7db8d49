SPECIFICATION FairSpec
CONSTANTS
    Scripts <- MCScripts
    SocketBuffer = 3
    itsMaxHeaderSize = 3
    itsMaxRequestSize = 6
INVARIANTS
    LimitsHold
    InterimIsExpected
PROPERTIES
    NobodyHoldsForEver
