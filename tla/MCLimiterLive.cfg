\* Without MaxWait: a Reserve returns when its context ends, and capacity is
\* not lost while contexts stay live.
CONSTANTS
    Callers = {c1, c2}
    Capacity = 2
    MaxConcurrency = 2
    RateNum = 2
    RateDen = 3
    MaxWait = 0
    PollInterval = 1
    Requests <- MCRequests
    Usages <- MCUsages
    CtxEnds = {"deadline"}
    MaxGap = 10
SPECIFICATION FairSpec
PROPERTIES
    EndedCtxReturns
    SomeoneIsAdmitted
