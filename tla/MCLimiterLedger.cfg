\* Safety and the refinement: two callers, both dimensions limited.
CONSTANTS
    Callers = {c1, c2}
    Capacity = 2
    MaxConcurrency = 2
    RateNum = 2
    RateDen = 3
    MaxWait = 3
    PollInterval = 2
    Requests <- MCRequests
    Usages <- MCUsages
    CtxEnds = {"canceled"}
    MaxGap = 10
    MaxNow = 4
SPECIFICATION LSpec
SYMMETRY Symmetry
INVARIANTS
    NeverMints
    SlotsAccounted
    NeverOversleeps
PROPERTY
    KeepsPromise
\* The history's clock is bounded; a bounded instance may stop.
CHECK_DEADLOCK FALSE
