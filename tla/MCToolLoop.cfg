\* A run of up to two tool turns under every hook.
CONSTANTS
    Requests <- MCRequests
    Hooks <- MCHooks
    Responses <- MCResponses
    MaxIterations = 2
SPECIFICATION FairSpec
INVARIANTS
    AlwaysSendable
    ContextDecides
    PromptSurvives
    ReasoningUnedited
    SummaryRolls
    KeepLastIsUsable
PROPERTY
    RunReturns
\* A run ends.
CHECK_DEADLOCK FALSE
