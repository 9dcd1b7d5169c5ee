\* Four concurrent callers, both thresholds 2, every interleaving of late
\* results.  Calls return, time passes and callers keep arriving.
CONSTANTS
    Callers = {c1, c2, c3, c4}
    FailureThreshold = 2
    SuccessThreshold = 2
    OpenTimeout = 2
    Outcomes <- MCOutcomes
    CallsPanic = FALSE
SPECIFICATION HBusySpec
INVARIANTS
    CountersBounded
    GateHasOwner
    SingleFlight
PROPERTIES
    StreaksDecide
    OpenExpires
    Recovers
