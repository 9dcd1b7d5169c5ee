\* Two callers, three attempts each, one slot.  The provider may fail, hang or
\* panic, the limiter may give up early, fail or never admit, contexts may end.
CONSTANTS
    Callers = {c1, c2}
    FailureThreshold = 2
    SuccessThreshold = 2
    OpenTimeout = 2
    Outcomes <- MCOutcomes
    CallsPanic = TRUE
    MaxAttempts = 3
    InitialDelay = 1
    MaxDelay = 2
    BackoffFactor = 2
    JitterNum = 1
    JitterDen = 2
    Hints = {0, 3}
    Timeout = 1
    Slots = 1
    Rejections <- MCRejections
    CallerEnds = {"canceled", "deadline"}
SPECIFICATION ChFairSpec
INVARIANTS
    ChTypeOK
    GivesUpInTheEnd
    
PROPERTIES
    BlamesProviderOnly
    CompleteReturns
