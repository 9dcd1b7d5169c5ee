\* Two tool turns of Ollama, whose calls share an id, then Gemini.
CONSTANTS
    Providers <- OllamaThenGoogle
    Settings <- Brief
    Replies <- OneCall
    Questions <- MCQuestions
    MaxMessages = 5
    MaxInt32 = 4
SPECIFICATION Spec
INVARIANT
    ResponsesNameTheirCall
CHECK_DEADLOCK FALSE
