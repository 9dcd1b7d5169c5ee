------------------------------- MODULE Content -------------------------------
(***************************************************************************)
(* Messages part by part, chat requests, and what every adapter does alike *)
(* with them (llms/message.go, llms/chat.go, llms/tool.go,                 *)
(* llms/reasoning.go, llms/usage.go).                                      *)
(*                                                                         *)
(* A text is a body, one of them empty; a tool call has an id, a name and  *)
(* perhaps the signature of its provider; reasoning has the provider that  *)
(* issued it and its opaque data; a tool result has the id of its call and *)
(* whether it is an error.  Parameters of calls and contents of results    *)
(* are left out: every adapter copies them.                                *)
(***************************************************************************)
EXTENDS Transcript, ExtraParams

Empty == "empty"
NoSignature == "none"
NoName == "none"

Text(body, marked) == [kind |-> "text", body |-> body, marked |-> marked]
ToolCall(id, name, signature) ==
    [kind |-> "tool_call", id |-> id, name |-> name, signature |-> signature]
ToolResult(id, isError) == [kind |-> "tool_result", id |-> id, isError |-> isError]
Reasoning(provider, data) == [kind |-> "reasoning", provider |-> provider, data |-> data]

\* A message of the application, and a turn on the wire.
Turn(role, parts) == [role |-> role, parts |-> parts]

Kinds == {"text", "tool_call", "tool_result", "reasoning"}
Roles == {"user", "assistant", "tool"}

\* Of the adapters only Anthropic's emits reasoning.
IsPart(p) == p.kind \in Kinds /\ (p.kind = "reasoning" => p.provider = "anthropic")

IsSequence(s) == s \in Seq(Range(s))
IsMessage(m) ==
    m.role \in Roles /\ IsSequence(m.parts) /\ \A i \in DOMAIN m.parts : IsPart(m.parts[i])
AreMessages(msgs) == IsSequence(msgs) /\ \A i \in DOMAIN msgs : IsMessage(msgs[i])

\* The parts at some places, in order.
Picked(parts, places) ==
    LET picked[n \in 0 .. Len(parts)] ==
            IF n = 0 THEN <<>>
            ELSE IF n \in places THEN Append(picked[n - 1], parts[n]) ELSE picked[n - 1]
    IN  picked[Len(parts)]

Only(kind, parts) == Picked(parts, {i \in DOMAIN parts : parts[i].kind = kind})

\* Text that says something.
Says(p) == p.kind = "text" /\ p.body # Empty
HasKind(kind, parts) == \E i \in DOMAIN parts : parts[i].kind = kind
IdsOf(parts) == [i \in DOMAIN parts |-> parts[i].id]

\* A result on a wire that has no place for IsError.
Unmarked(result) == ToolResult(result.id, FALSE)

\* What ValidateMessages sees of a message; reasoning parts name their provider.
Outline(m) ==
    LET texts == Only("text", m.parts)
    IN  Message(m.role,
                IF texts = <<>> THEN "none"
                ELSE IF \A i \in DOMAIN texts : texts[i].body = Empty THEN "empty" ELSE "some",
                IdsOf(Only("tool_call", m.parts)), IdsOf(Only("tool_result", m.parts)),
                IF HasKind("reasoning", m.parts) THEN Bound ELSE NoReasoning, "none")

Outlines(msgs) == [i \in DOMAIN msgs |-> Outline(msgs[i])]

\* Mutant: nothing is filtered.
ReasoningFromAnyone(provider, msgs) == msgs

\* The places of the parts that a provider may see.
SeenBy(provider, parts) ==
    {i \in DOMAIN parts : parts[i].kind = "reasoning" => parts[i].provider = provider}

\* The transcript without the reasoning of other providers.
ReasoningFrom(provider, msgs) ==
    [i \in DOMAIN msgs |->
        Turn(msgs[i].role, Picked(msgs[i].parts, SeenBy(provider, msgs[i].parts)))]

-----------------------------------------------------------------------------
(***************************************************************************)
(* Requests.  A request has system parts, messages, tools (a name and what *)
(* kind of input schema), a tool choice, a reasoning control, and for each *)
(* provider the body fields the application overrides.                     *)
(***************************************************************************)

\* validateChatRequest: text-only System, then the messages.
ValidRequest(req) ==
    /\ \A i \in DOMAIN req.system : req.system[i].kind = "text"
    /\ ValidateMessages(Outlines(req.messages))

\* What a step of a conversion says; the first that is not "ok" decides.
First(verdicts) ==
    LET bad == {i \in DOMAIN verdicts : verdicts[i] # "ok"}
    IN  IF bad = {} THEN "ok" ELSE verdicts[Min(bad)]

OkIf(test) == IF test THEN "ok" ELSE "refused"

\* systemText: the parts are joined; empty ones leave nothing.
SystemVerdict(req) == OkIf(\A i \in DOMAIN req.system : req.system[i].kind = "text")
SystemText(req) ==
    Picked(req.system, {i \in DOMAIN req.system : req.system[i].body # Empty})

RequiresTools(choice) == choice.type \in {"required", "tool"}

NoChoice == [mode |-> "unset", name |-> NoName]

\* The tool choice in an adapter's words; without tools, or for a type it does
\* not know, none is sent.
ToolChoice(req, words) ==
    IF req.tools = <<>> \/ req.choice.type \notin DOMAIN words THEN NoChoice
    ELSE [mode |-> words[req.choice.type],
          name |-> IF req.choice.type = "tool" THEN req.choice.name ELSE NoName]

ChoiceVerdict(req) ==
    OkIf(IF req.tools = <<>> THEN ~RequiresTools(req.choice)
         ELSE req.choice.type = "tool" => req.choice.name # NoName)

ToolNames(req) == [i \in DOMAIN req.tools |-> req.tools[i].name]
SchemaVerdicts(req, verdict(_)) == [i \in DOMAIN req.tools |-> verdict(req.tools[i].schema)]

\* What an adapter makes of a request: what it sends, or a bad request.  body
\* holds the fields of the reasoning control.
Sends(turns, system, tools, choice, body) ==
    [out |-> "ok", turns |-> turns, system |-> system, tools |-> tools,
     choice |-> choice, body |-> body]
Stops(verdict) == [out |-> verdict]

\* For: fields that do not marshal to JSON are a bad request; else they are
\* merged into what toParams made.
Complete(req, provider, params) ==
    CASE ~req.params[provider].valid -> Stops("refused")
      [] params.out # "ok" /\ req.params[provider].valid -> params
      [] OTHER -> [params EXCEPT !.body = Merged(@, req.params[provider].set)]

-----------------------------------------------------------------------------
(***************************************************************************)
(* Reasoning controls and usage.                                           *)
(***************************************************************************)
NoEffort == "unset"
NoControl == [effort |-> NoEffort, budget |-> 0]
AllEfforts == {"none", "minimal", "low", "medium", "high", "xhigh", "max"}

\* An object of the body with one field, and the one without any.
Field(path, value) == [p \in {path} |-> value]
NoFields == [p \in {} |-> ""]

Least(a, b) == IF a < b THEN a ELSE b
Most(a, b) == IF a > b THEN a ELSE b

\* Reads and writes of a cache as parts of the input.
CacheRead(input, read) == Least(Most(read, 0), Most(input, 0))
CacheWrite(input, read, write) ==
    Least(Most(write, 0), Most(input, 0) - CacheRead(input, read))

UsageOf(input, visible, reasoning, billable, read, write) ==
    [input |-> input, output |-> visible, reasoning |-> reasoning,
     billable |-> billable, read |-> read, write |-> write]
==============================================================================
