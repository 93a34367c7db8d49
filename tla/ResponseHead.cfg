CONSTANTS
    Lower <- MCLower
    Requests <- MCRequests
    Answers <- MCAnswers
    Codings <- MCCodings
    StaleDirectives <- MCStaleDirectives
    itsKeepAliveEnabled = TRUE
    MaxKeepAliveRequests = 2
    MaxData = 1
    MaxStored = 2
SPECIFICATION Spec
CHECK_DEADLOCK FALSE
INVARIANTS
    PersistenceIsAgreed
    TagsAreTrue
    AppliedOnce
    RequestMeansTheSame
