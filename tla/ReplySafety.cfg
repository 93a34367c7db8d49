SPECIFICATION Spec
CONSTANTS
    MaxBody = 3
    QueueMayFill = TRUE
INVARIANTS
    ReuseIsAgreed
    CompleteMeansWhole
    StreamsAreLogged
    BackendOutcomeReported
