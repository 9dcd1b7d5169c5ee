-------------------------------- MODULE OpenAI --------------------------------
(***************************************************************************)
(* The OpenAI adapter, which speaks the Responses API                      *)
(* (llms/providers/openai/chatconvert.go).                                 *)
(***************************************************************************)
EXTENDS Content

\* Every part is an input item of its own; ItemOk refuses any other kind.
Item(role, p) ==
    CASE p.kind = "text" -> Turn(role, <<Text(p.body, FALSE)>>)
      [] p.kind = "tool_call" -> Turn("function_call", <<ToolCall(p.id, p.name, NoSignature)>>)
      [] p.kind = "tool_result" -> Turn("function_call_output", <<Unmarked(p)>>)
      [] OTHER -> Turn(role, <<p>>)

ItemOk(role, p) ==
    /\ p.kind # "reasoning"
    /\ p.kind = "text" => p.body # Empty /\ role \in {"user", "assistant"}

Items(m) == [j \in DOMAIN m.parts |-> Item(m.role, m.parts[j])]

buildInput(req) ==
    LET msgs == ReasoningFrom("openai", req.messages)
        items == FlattenSeq([i \in DOMAIN msgs |-> Items(msgs[i])])
    IN  [turns |-> items,
         ok |-> /\ \A i \in DOMAIN msgs : \A j \in DOMAIN msgs[i].parts :
                      ItemOk(msgs[i].role, msgs[i].parts[j])
                /\ items # <<>>]

\* buildTools writes the type into the decoded object: a null schema decodes
\* to a nil map.
SchemaVerdict(schema) ==
    CASE schema = "null" -> "panic"
      [] schema \in {"array", "otherType", "typeList"} -> "refused"
      [] OTHER -> "ok"

toolChoice(req) ==
    ToolChoice(req, [auto |-> "auto", none |-> "none", required |-> "required",
                     tool |-> "function"])

Effort == <<"reasoning", "effort">>

\* mapEffort: the field sent, and what it expresses.
ReasoningFields(r) == IF r.effort \in AllEfforts THEN Field(Effort, r.effort) ELSE NoFields
mapEffort(r) ==
    IF r.effort \in AllEfforts THEN [effort |-> r.effort, budget |-> 0] ELSE NoControl

toParams(req) ==
    LET input == buildInput(req)
        verdict == First(<<SystemVerdict(req), OkIf(input.ok)>>
                         \o SchemaVerdicts(req, SchemaVerdict) \o <<ChoiceVerdict(req)>>)
    IN  IF verdict # "ok" THEN Stops(verdict)
        ELSE Sends(input.turns, SystemText(req), ToolNames(req), toolChoice(req),
                   ReasoningFields(req.reasoning))

Applied(req) ==
    IF Overrides(req.params["openai"].set, Effort) THEN NoControl ELSE mapEffort(req.reasoning)

-----------------------------------------------------------------------------
\* Calls and the text of messages, in the order of the output; reasoning items
\* and empty text are left out.
toChatResponse(output) ==
    Turn("assistant", Picked(output, {i \in DOMAIN output :
        output[i].kind = "tool_call" \/ Says(output[i])}))

\* The output count includes the reasoning.
Usage(n) ==
    UsageOf(n.input, Most(n.output - n.reasoning, 0), n.reasoning, n.output,
            CacheRead(n.input, n.read), CacheWrite(n.input, n.read, n.write))
===============================================================================
