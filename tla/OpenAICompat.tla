----------------------------- MODULE OpenAICompat -----------------------------
(***************************************************************************)
(* The adapter for servers that speak Chat Completions                     *)
(* (llms/providers/openaicompat/convert.go).                               *)
(***************************************************************************)
EXTENDS Content

\* joinTextParts: the texts of a user message are one content.
Texts(parts) ==
    LET texts == Only("text", parts) IN [i \in DOMAIN texts |-> Text(texts[i].body, FALSE)]
TextsOk(parts) == \A i \in DOMAIN parts : parts[i].kind = "text" => parts[i].body # Empty

\* An assistant message has one content and a list of calls.
Calls(parts) ==
    LET calls == Only("tool_call", parts)
    IN  [i \in DOMAIN calls |-> ToolCall(calls[i].id, calls[i].name, NoSignature)]
assistantMessage(parts) == Turn("assistant", Texts(parts) \o Calls(parts))

\* Mutant: a tool message is one message, for its first result.
ToolMessagesFirst(parts) == <<Turn("tool", <<Unmarked(parts[1])>>)>>

\* A message for each result.
ToolMessages(parts) == [j \in DOMAIN parts |-> Turn("tool", <<Unmarked(parts[j])>>)]

Messages(m) ==
    CASE m.role = "user" -> <<Turn("user", Texts(m.parts))>>
      [] m.role = "assistant" -> <<assistantMessage(m.parts)>>
      [] m.role = "tool" -> ToolMessages(m.parts)

MessageOk(m) ==
    LET allowed == CASE m.role = "user" -> {"text"}
                     [] m.role = "assistant" -> {"text", "tool_call"}
                     [] m.role = "tool" -> {"tool_result"}
    IN  /\ \A j \in DOMAIN m.parts : m.parts[j].kind \in allowed
        /\ m.role # "tool" => m.parts # <<>> /\ TextsOk(m.parts)

\* The system prompt goes first, as a message.
buildMessages(req) ==
    LET msgs == ReasoningFrom("openai-compat", req.messages)
        turns == FlattenSeq([i \in DOMAIN msgs |-> Messages(msgs[i])])
    IN  [turns |-> turns,
         ok |-> (\A i \in DOMAIN msgs : MessageOk(msgs[i])) /\ turns # <<>>]

\* buildTools: the schema must be an object.
SchemaVerdict(schema) == OkIf(schema \notin {"null", "array", "otherType", "typeList"})

toolChoice(req) ==
    ToolChoice(req, [auto |-> "auto", none |-> "none", required |-> "required",
                     tool |-> "function"])

Effort == <<"reasoning_effort">>

\* mapEffort: the field sent, and what it expresses.
ReasoningFields(r) == IF r.effort \in AllEfforts THEN Field(Effort, r.effort) ELSE NoFields
mapEffort(r) ==
    IF r.effort \in AllEfforts THEN [effort |-> r.effort, budget |-> 0] ELSE NoControl

toParams(req) ==
    LET messages == buildMessages(req)
        verdict == First(<<SystemVerdict(req), OkIf(messages.ok)>>
                         \o SchemaVerdicts(req, SchemaVerdict) \o <<ChoiceVerdict(req)>>)
    IN  IF verdict # "ok" THEN Stops(verdict)
        ELSE Sends(messages.turns, SystemText(req), ToolNames(req), toolChoice(req),
                   ReasoningFields(req.reasoning))

Applied(req) ==
    IF Overrides(req.params["openai-compat"].set, Effort) THEN NoControl
    ELSE mapEffort(req.reasoning)

-----------------------------------------------------------------------------
\* The first choice: its content if there is one, then its calls.
toResponse(message) ==
    Turn("assistant", Picked(message, {i \in DOMAIN message : Says(message[i])})
                      \o Only("tool_call", message))

\* Mutant: the reasoning count is taken as reported.
buildUsageUnclamped(n) ==
    UsageOf(n.input, Most(n.output - n.reasoning, 0), n.reasoning, n.output,
            CacheRead(n.input, n.read), CacheWrite(n.input, n.read, n.write))

\* The output count includes the reasoning; some servers report more
\* reasoning than output.
buildUsage(n) ==
    LET reasoning == Least(Most(n.reasoning, 0), n.output)
    IN  UsageOf(n.input, n.output - reasoning, reasoning, n.output,
                CacheRead(n.input, n.read), CacheWrite(n.input, n.read, n.write))
===============================================================================
