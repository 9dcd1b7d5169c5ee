-------------------------------- MODULE Gemini --------------------------------
(***************************************************************************)
(* The Google adapter (llms/providers/google/convert.go).                  *)
(***************************************************************************)
EXTENDS Content

CONSTANT MaxInt32       \* math.MaxInt32

NoId == "none"

\* roleFor
Side(role) == IF role = "assistant" THEN "model" ELSE "user"

\* toolCallNames: one map for the whole conversation, a later call with the
\* same id replaces the earlier.
CallsOf(msgs) == FlattenSeq([i \in DOMAIN msgs |-> Only("tool_call", msgs[i].parts)])
NameOf(msgs, id) ==
    LET calls == SelectSeq(CallsOf(msgs), LAMBDA c : c.id = id)
    IN  IF calls = <<>> THEN id ELSE Last(calls).name

\* Mutant: the response does not say that it is an error.
FunctionResponseUnmarked(name, isError) ==
    [kind |-> "tool_result", name |-> name, isError |-> FALSE]

\* A function response has no id, only the name.
FunctionResponse(name, isError) ==
    [kind |-> "tool_result", name |-> name, isError |-> isError]

Part(msgs, p) ==
    CASE p.kind = "text" -> Text(p.body, FALSE)
      [] p.kind = "tool_result" -> FunctionResponse(NameOf(msgs, p.id), p.isError)
      [] OTHER -> p

Content(msgs, m) ==
    Turn(Side(m.role), [j \in DOMAIN m.parts |-> Part(msgs, m.parts[j])])

PartOk(p) == p.kind # "reasoning" /\ (p.kind = "text" => p.body # Empty)

\* A message that has no part left is skipped.
buildContents(req) ==
    LET msgs == ReasoningFrom("google", req.messages)
        contents == [i \in DOMAIN msgs |-> Content(msgs, msgs[i])]
        turns == Picked(contents, {i \in DOMAIN contents : contents[i].parts # <<>>})
    IN  [turns |-> turns,
         ok |-> /\ \A i \in DOMAIN msgs : \A j \in DOMAIN msgs[i].parts : PartOk(msgs[i].parts[j])
                /\ turns # <<>>]

\* jsonSchemaToGenai: the type at the top is overwritten (a null schema has no
\* map to write it to), a nested type must be known.
SchemaVerdict(schema) ==
    CASE schema = "null" -> "panic"
      [] schema \in {"array", "otherType", "nested"} -> "refused"
      [] OTHER -> "ok"

toolConfig(req) ==
    ToolChoice(req, [auto |-> "AUTO", none |-> "NONE", required |-> "ANY", tool |-> "ANY"])

Levels == [minimal |-> "MINIMAL", low |-> "LOW", medium |-> "MEDIUM", high |-> "HIGH"]
Level == <<"generationConfig", "thinkingConfig", "thinkingLevel">>
Budget == <<"generationConfig", "thinkingConfig", "thinkingBudget">>

\* mapReasoning: the fields sent, and what they express; the budget is an int32.
ReasoningFields(r) ==
    Merged(IF r.effort \in DOMAIN Levels THEN Field(Level, Levels[r.effort]) ELSE NoFields,
           IF r.budget > 0 THEN Field(Budget, Least(r.budget, MaxInt32)) ELSE NoFields)

mapReasoning(r) ==
    [effort |-> IF r.effort \in DOMAIN Levels THEN r.effort ELSE NoEffort,
     budget |-> IF r.budget > 0 THEN Least(r.budget, MaxInt32) ELSE 0]

withoutOverridden(applied, extra) ==
    [effort |-> IF Overrides(extra, Level) THEN NoEffort ELSE applied.effort,
     budget |-> IF Overrides(extra, Budget) THEN 0 ELSE applied.budget]

toParams(req) ==
    LET contents == buildContents(req)
        verdict == First(<<SystemVerdict(req), OkIf(contents.ok)>>
                         \o SchemaVerdicts(req, SchemaVerdict) \o <<ChoiceVerdict(req)>>)
    IN  IF verdict # "ok" THEN Stops(verdict)
        ELSE Sends(contents.turns, SystemText(req), ToolNames(req), toolConfig(req),
                   ReasoningFields(req.reasoning))

Applied(req) == withoutOverridden(mapReasoning(req.reasoning), req.params["google"].set)

-----------------------------------------------------------------------------
\* Gemini correlates by name.
CallId(fc) == IF fc.id = NoId THEN fc.name ELSE fc.id

\* Mutant: the signature stays behind.
ReceivedUnsigned(part) ==
    IF part.kind = "tool_call" THEN ToolCall(CallId(part), part.name, NoSignature) ELSE part

\* A call keeps the signature, which Gemini demands back.
Received(part) ==
    IF part.kind = "tool_call" THEN ToolCall(CallId(part), part.name, part.signature) ELSE part

\* The parts of the first candidate; thoughts and empty text are left out.
toChatResponse(parts) ==
    LET kept == Picked(parts, {i \in DOMAIN parts :
            parts[i].kind = "tool_call" \/ Says(parts[i])})
    IN  Turn("assistant", [i \in DOMAIN kept |-> Received(kept[i])])

\* Thoughts are counted beside the candidates; no cache writes.
Usage(n) ==
    UsageOf(n.input, n.output, n.reasoning, n.output + n.reasoning,
            CacheRead(n.input, n.read), 0)
===============================================================================
