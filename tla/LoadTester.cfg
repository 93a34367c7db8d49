CONSTANTS
    Requests = {r1, r2, r3}
    Workers = {w1, w2}
    Idle = Idle
    timeout = TRUE
    MaxSlices = 2
SPECIFICATION Spec
CHECK_DEADLOCK FALSE
INVARIANTS
    ResultsAreCounted
PROPERTIES
    EndIsFinal
    RunEnds
