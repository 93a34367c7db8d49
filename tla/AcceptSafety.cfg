SPECIFICATION LoopSpec
CONSTANTS
    Connections = {c1, c2, c3, c4, c5}
    itsMaxConnections = 3
INVARIANTS
    CountIsExact
    LoggedOncePerEpisode
PROPERTIES
    SlotsArePromised
