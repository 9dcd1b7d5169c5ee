\* Two calls of one function in a turn, as the Gemini adapter converts them.
CONSTANTS
    Requests <- TaskOnly
    Hooks <- NoHook
    Responses <- GeminiResponses
    MaxIterations = 2
SPECIFICATION Spec
INVARIANT
    LimitIsWellFormed
CHECK_DEADLOCK FALSE
