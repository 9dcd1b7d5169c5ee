------------------------------ MODULE Anthropic ------------------------------
(***************************************************************************)
(* The Anthropic adapter (llms/providers/anthropic/convert.go).            *)
(***************************************************************************)
EXTENDS Content

MaxMarkers == 4         \* anthropicMaxCacheBreakpoints

NoSeal == "none"

\* thinkingBlockParam: a thinking block needs its signature and a redacted one
\* its data; both are the seal here.
Replayable(data) == data.seal # NoSeal

Marked(parts) == Picked(parts, {i \in DOMAIN parts : parts[i].kind = "text" /\ parts[i].marked})
MarkedSystem(req) == \E i \in DOMAIN req.system : req.system[i].marked
CountMarked(msgs) == Len(FlattenSeq([i \in DOMAIN msgs |-> Marked(msgs[i].parts)]))

\* Mutant: the marker of the system prompt is not counted.
SkipContentOnly(req) == Most(CountMarked(req.messages) - MaxMarkers, 0)

\* How many of the marked parts, the first ones, go out unmarked.
Skip(req) ==
    LET budget == IF MarkedSystem(req) THEN MaxMarkers - 1 ELSE MaxMarkers
    IN  Most(CountMarked(req.messages) - budget, 0)

\* honor: text keeps its mark once skip marked parts have been seen.
Block(s, p, skip) ==
    CASE p.kind = "text" ->
            [s EXCEPT !.others = Append(@, Text(p.body, p.marked /\ s.seen >= skip)),
                      !.seen = IF p.marked THEN @ + 1 ELSE @,
                      !.ok = @ /\ p.body # Empty]
      [] p.kind = "tool_call" ->
            [s EXCEPT !.others = Append(@, ToolCall(p.id, p.name, NoSignature))]
      [] p.kind = "tool_result" -> [s EXCEPT !.results = Append(@, p)]
      [] p.kind = "reasoning" ->
            [s EXCEPT !.others = Append(@, p), !.ok = @ /\ Replayable(p.data)]

blocksForParts(parts, skip, seen) ==
    LET blocks[n \in 0 .. Len(parts)] ==
            IF n = 0 THEN [results |-> <<>>, others |-> <<>>, seen |-> seen, ok |-> TRUE]
            ELSE Block(blocks[n - 1], parts[n], skip)
    IN  blocks[Len(parts)]

hasReply(parts) == HasKind("text", parts) \/ HasKind("tool_call", parts)

\* What is buffered of the user's side becomes a turn.
Flushed(s) == IF s.buf = <<>> THEN s.out ELSE Append(s.out, Turn("user", s.buf))

\* Mutant: every message of the user's side is a turn of its own.
AddUnmerged(s, b) ==
    [s EXCEPT !.out = Flushed(s), !.buf = b.results \o b.others, !.seen = b.seen, !.ok = @ /\ b.ok]

\* A message of the user or of a tool adds to the turn, its results first.
Add(s, b) ==
    [s EXCEPT !.buf = @ \o b.results \o b.others, !.seen = b.seen, !.ok = @ /\ b.ok]

\* An assistant message closes the turn before it.
Reply(s, m, b) ==
    [s EXCEPT !.out = Append(Flushed(s), Turn("assistant", b.others)), !.buf = <<>>,
              !.seen = b.seen, !.ok = @ /\ b.ok /\ hasReply(m.parts)]

Take(s, m, skip) ==
    LET b == blocksForParts(m.parts, skip, s.seen)
    IN  IF m.role = "assistant" THEN Reply(s, m, b) ELSE Add(s, b)

Taken(msgs, skip) ==
    LET taken[n \in 0 .. Len(msgs)] ==
            IF n = 0 THEN [out |-> <<>>, buf |-> <<>>, seen |-> 0, ok |-> TRUE]
            ELSE Take(taken[n - 1], msgs[n], skip)
    IN  taken[Len(msgs)]

buildMessages(req) ==
    LET end == Taken(ReasoningFrom("anthropic", req.messages), Skip(req))
        turns == Flushed(end)
    IN  [turns |-> turns,
         ok |-> end.ok /\ turns # <<>> /\ Head(turns).role = "user"]

\* A null schema is read as one without fields; a type other than the string
\* "object" is refused; nested schemas are passed through.
parseToolSchema(schema) == OkIf(schema \notin {"array", "otherType", "typeList"})

toolChoice(req) ==
    ToolChoice(req, [auto |-> "auto", none |-> "none", required |-> "any", tool |-> "tool"])

\* Effort none and a budget share the thinking field; the budget wins.
Disables(r) == r.effort = "none" /\ r.budget <= 0
SetsEffort(r) == r.effort \in {"low", "medium", "high", "xhigh", "max"}

Thinking == <<"thinking", "type">>
Budget == <<"thinking", "budget_tokens">>
Effort == <<"output_config", "effort">>

\* mapReasoning: the fields sent, and what they express.
ReasoningFields(r) ==
    Merged(IF SetsEffort(r) THEN Field(Effort, r.effort) ELSE NoFields,
           CASE r.budget > 0 -> Merged(Field(Thinking, "enabled"), Field(Budget, r.budget))
             [] Disables(r) -> Field(Thinking, "disabled")
             [] OTHER -> NoFields)

mapReasoning(r) ==
    [effort |-> IF SetsEffort(r) \/ Disables(r) THEN r.effort ELSE NoEffort,
     budget |-> IF r.budget > 0 THEN r.budget ELSE 0]

withoutOverridden(applied, extra) ==
    [effort |-> IF \/ applied.effort = "none" /\ Overrides(extra, Thinking)
                   \/ applied.effort # "none" /\ Overrides(extra, Effort)
                THEN NoEffort ELSE applied.effort,
     budget |-> IF Overrides(extra, Thinking) \/ Overrides(extra, Budget)
                THEN 0 ELSE applied.budget]

\* The system parts become one block, marked if any of them was.
SystemBlock(req) ==
    IF SystemText(req) = <<>> THEN <<>> ELSE <<Text("system", MarkedSystem(req))>>

toParams(req) ==
    LET messages == buildMessages(req)
        verdict == First(<<SystemVerdict(req), OkIf(messages.ok)>>
                         \o SchemaVerdicts(req, parseToolSchema) \o <<ChoiceVerdict(req)>>)
    IN  IF verdict # "ok" THEN Stops(verdict)
        ELSE Sends(messages.turns, SystemBlock(req), ToolNames(req), toolChoice(req),
                   ReasoningFields(req.reasoning))

Applied(req) == withoutOverridden(mapReasoning(req.reasoning), req.params["anthropic"].set)

-----------------------------------------------------------------------------
\* A response is a sequence of blocks in the order of the reply; text is kept
\* as it is, an empty one too.
Received(block) ==
    CASE block.kind = "thinking" -> Reasoning("anthropic", block.data)
      [] block.kind = "tool_call" -> ToolCall(block.id, block.name, NoSignature)
      [] OTHER -> block

toResponse(blocks) == Turn("assistant", [i \in DOMAIN blocks |-> Received(blocks[i])])

\* Thinking is part of the output count; input_tokens leaves the cache out.
buildUsage(n) ==
    LET reasoning == IF n.detailed THEN Least(Most(n.reasoning, 0), n.output) ELSE 0
        read == Most(n.read, 0)
        write == Most(n.write, 0)
    IN  UsageOf(Most(n.input, 0) + read + write, n.output - reasoning, reasoning, n.output,
                read, write)
==============================================================================
