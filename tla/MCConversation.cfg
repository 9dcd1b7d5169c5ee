\* Conversations of up to five messages through five adapters; every setting on
\* a conversation of five.
CONSTANTS
    Providers <- AllProviders
    Settings <- MCSettings
    Replies <- MCReplies
    Questions <- MCQuestions
    MaxMessages = 5
    MaxInt32 = 4
SPECIFICATION Spec
INVARIANTS
    AcceptedIsSent
    NothingLost
    ReasoningStaysHome
    AnthropicAccepts
    AppliedIsSent
    UsageAddsUp
\* A conversation ends.
CHECK_DEADLOCK FALSE
