CONSTANTS
    Requests = {r1, r2}
    Workers = {w1}
    Idle = Idle
    timeout = FALSE
    MaxSlices = 0
SPECIFICATION Spec
CHECK_DEADLOCK FALSE
INVARIANT
    QuitPrints
