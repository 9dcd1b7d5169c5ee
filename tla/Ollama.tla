-------------------------------- MODULE Ollama --------------------------------
(***************************************************************************)
(* The Ollama adapter (llms/providers/ollama/wire.go).                     *)
(***************************************************************************)
EXTENDS Content

\* partAllowed
Allowed(role, p) ==
    CASE p.kind = "text" -> role \in {"user", "assistant"}
      [] p.kind = "tool_call" -> role = "assistant"
      [] p.kind = "tool_result" -> role = "tool"
      [] OTHER -> FALSE

\* messageParts: a message for each result, then one for text and calls.
Texts(parts) ==
    LET texts == Only("text", parts) IN [i \in DOMAIN texts |-> Text(texts[i].body, FALSE)]
Calls(parts) ==
    LET calls == Only("tool_call", parts)
    IN  [i \in DOMAIN calls |-> ToolCall(calls[i].id, calls[i].name, NoSignature)]

messageParts(m) ==
    LET results == Only("tool_result", m.parts)
        rest == Texts(m.parts) \o Calls(m.parts)
    IN  [j \in DOMAIN results |-> Turn("tool", <<Unmarked(results[j])>>)]
            \o IF rest = <<>> THEN <<>> ELSE <<Turn(m.role, rest)>>

MessageOk(m) ==
    \A j \in DOMAIN m.parts :
        /\ Allowed(m.role, m.parts[j])
        /\ m.parts[j].kind = "text" => m.parts[j].body # Empty

\* buildTools: the schema must be an object, of type "object" if its type is a
\* string.
SchemaVerdict(schema) == OkIf(schema \notin {"null", "array", "otherType"})

\* Ollama has no tool choice: a named tool must at least be offered.
validateToolChoice(req) ==
    OkIf(/\ RequiresTools(req.choice) => req.tools # <<>>
         /\ req.choice.type = "tool" =>
               /\ req.choice.name # NoName
               /\ \E i \in DOMAIN req.tools : req.tools[i].name = req.choice.name)

\* Mutant: the tools are offered whatever the choice.
OfferedAlways(req) == ToolNames(req)

\* No tools are offered when none may be called.
Offered(req) == IF req.choice.type = "none" THEN <<>> ELSE ToolNames(req)

Levels == [none |-> "false", low |-> "low", medium |-> "medium", high |-> "high"]
Think == <<"think">>

\* mapReasoning: the field sent, and what it expresses.
ReasoningFields(r) ==
    IF r.effort \in DOMAIN Levels THEN Field(Think, Levels[r.effort]) ELSE NoFields
mapReasoning(r) ==
    IF r.effort \in DOMAIN Levels THEN [effort |-> r.effort, budget |-> 0] ELSE NoControl

toWire(req) ==
    LET msgs == ReasoningFrom("ollama", req.messages)
        turns == FlattenSeq([i \in DOMAIN msgs |-> messageParts(msgs[i])])
        verdict == First(<<SystemVerdict(req), OkIf(\A i \in DOMAIN msgs : MessageOk(msgs[i])),
                           OkIf(turns # <<>>)>>
                         \o SchemaVerdicts(req, SchemaVerdict) \o <<validateToolChoice(req)>>)
    IN  IF verdict # "ok" THEN Stops(verdict)
        ELSE Sends(turns, SystemText(req), Offered(req), NoChoice,
                   ReasoningFields(req.reasoning))

Applied(req) ==
    IF Overrides(req.params["ollama"].set, Think) THEN NoControl
    ELSE mapReasoning(req.reasoning)

-----------------------------------------------------------------------------
NoId == "none"

\* Ollama gives calls no ids: a call gets its place in the reply as its id.
SyntheticId(call, i) == IF call.id = NoId THEN "call_" \o ToString(i - 1) ELSE call.id

toChatResponse(message) ==
    LET calls == Only("tool_call", message)
    IN  Turn("assistant",
             Picked(message, {i \in DOMAIN message : Says(message[i])})
             \o [i \in DOMAIN calls |->
                    ToolCall(SyntheticId(calls[i], i), calls[i].name, NoSignature)])

Usage(n) == UsageOf(n.input, n.output, 0, n.output, 0, 0)
===============================================================================
