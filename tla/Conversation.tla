----------------------------- MODULE Conversation -----------------------------
(***************************************************************************)
(* A conversation that moves between providers: an application holds the   *)
(* transcript, sends it through any of the five adapters, appends what the *)
(* adapter makes of the reply, runs the tools, speaks again.  The adapters *)
(* are stateless: whatever a provider needs of an earlier turn must come   *)
(* back to it through the transcript.                                      *)
(***************************************************************************)
EXTENDS Content

CONSTANTS
    Providers,      \* the adapters the application uses
    Settings,       \* [start, system, tools, choice, reasoning, params, counts]
    Replies,        \* what a provider may say: sequences of the kinds below
    Questions,      \* the parts of what the user says next
    MaxMessages,    \* bound: the application adds nothing to a transcript this long
    MaxInt32

ASSUME ProvidersAssumption ==
    Providers \subseteq {"anthropic", "openai", "openai-compat", "google", "ollama"}
ASSUME MaxInt32Assumption == MaxInt32 \in Nat \ {0}

\* A conversation begins with messages, and a tool has a name.  What servers
\* count of input and output is not negative; the details may be.
ASSUME SettingsAssumption ==
    \A s \in Settings :
        /\ AreMessages(s.start) /\ IsSequence(s.system)
        /\ IsSequence(s.tools) /\ \A i \in DOMAIN s.tools : s.tools[i].name # NoName
        /\ s.reasoning.budget \in Int
        /\ s.counts \in [input : Nat, output : Nat, reasoning : Int, read : Int, write : Int,
                         detailed : BOOLEAN]

ASSUME RepliesAssumption == \A reply \in Replies : reply \in Seq(STRING)
ASSUME QuestionsAssumption ==
    \A parts \in Questions : IsSequence(parts) /\ \A i \in DOMAIN parts : IsPart(parts[i])

\* Only a provider issues reasoning and signatures: the application has none of
\* its own, neither at the beginning nor in what it says next.
Unissued(parts) ==
    \A i \in DOMAIN parts :
        /\ parts[i].kind # "reasoning"
        /\ parts[i].kind = "tool_call" => parts[i].signature = NoSignature

ASSUME UnissuedAssumption ==
    /\ \A s \in Settings : \A i \in DOMAIN s.start : Unissued(s.start[i].parts)
    /\ \A parts \in Questions : Unissued(parts)

VARIABLES
    settings,       \* of the conversation: everything of a request but its messages
    messages,       \* the transcript
    asked,          \* the provider that has the request, or Nobody
    wire,           \* what the adapter last made of a request
    response,       \* what the last answer reported, until the next request
    answers         \* history: the wire form of each answer, with its provider

vars == <<settings, messages, asked, wire, response, answers>>

Nobody == "nobody"

AnthropicAdapter == INSTANCE Anthropic
GoogleAdapter == INSTANCE Gemini
OpenAIAdapter == INSTANCE OpenAI
CompatAdapter == INSTANCE OpenAICompat
OllamaAdapter == INSTANCE Ollama

\* The request the application makes of the transcript.
Request == [system |-> settings.system, messages |-> messages, tools |-> settings.tools,
            choice |-> settings.choice, reasoning |-> settings.reasoning,
            params |-> settings.params]

Params(p, req) ==
    CASE p = "anthropic" -> AnthropicAdapter!toParams(req)
      [] p = "google" -> GoogleAdapter!toParams(req)
      [] p = "openai" -> OpenAIAdapter!toParams(req)
      [] p = "openai-compat" -> CompatAdapter!toParams(req)
      [] p = "ollama" -> OllamaAdapter!toWire(req)

Applied(p, req) ==
    CASE p = "anthropic" -> AnthropicAdapter!Applied(req)
      [] p = "google" -> GoogleAdapter!Applied(req)
      [] p = "openai" -> OpenAIAdapter!Applied(req)
      [] p = "openai-compat" -> CompatAdapter!Applied(req)
      [] p = "ollama" -> OllamaAdapter!Applied(req)

Reply(p, blocks) ==
    CASE p = "anthropic" -> AnthropicAdapter!toResponse(blocks)
      [] p = "google" -> GoogleAdapter!toChatResponse(blocks)
      [] p = "openai" -> OpenAIAdapter!toChatResponse(blocks)
      [] p = "openai-compat" -> CompatAdapter!toResponse(blocks)
      [] p = "ollama" -> OllamaAdapter!toChatResponse(blocks)

Usage(p, counts) ==
    CASE p = "anthropic" -> AnthropicAdapter!buildUsage(counts)
      [] p = "google" -> GoogleAdapter!Usage(counts)
      [] p = "openai" -> OpenAIAdapter!Usage(counts)
      [] p = "openai-compat" -> CompatAdapter!buildUsage(counts)
      [] p = "ollama" -> OllamaAdapter!Usage(counts)

-----------------------------------------------------------------------------
(***************************************************************************)
(* The providers.  A reply is a sequence of kinds: "text", "void" (an      *)
(* empty text), "think" (a thinking block, sealed by Anthropic), and the   *)
(* name of a function to call.                                             *)
(***************************************************************************)

CountCalls(parts) == Len(Only("tool_call", parts))
CallsSoFar == FoldLeft(LAMBDA n, m : n + CountCalls(m.parts), 0, messages)

\* A fresh token of the provider: the how-many'th of its kind.
Token(word, n) == word \o ToString(n)

\* Ollama gives no ids and Gemini may leave them out; Gemini signs its calls.
Block(p, kind, n) ==
    CASE kind = "text" -> Text("answer", FALSE)
      [] kind = "void" -> Text(Empty, FALSE)
      [] kind = "think" -> [kind |-> "thinking",
                            data |-> [type |-> "thinking", seal |-> Token("seal", n)]]
      [] OTHER -> ToolCall(IF p \in {"ollama", "google"} THEN "none" ELSE Token("id", n), kind,
                           IF p = "google" THEN Token("signature", n) ELSE NoSignature)

Blocks(p, reply) == [i \in DOMAIN reply |-> Block(p, reply[i], CallsSoFar + i)]

\* The controls a provider reads in a body: the inverse of what the adapters
\* write.  Anthropic has two places for an effort.
At(body, path) == IF path \in DOMAIN body THEN {body[path]} ELSE {}

GoogleLevels == [MINIMAL |-> "minimal", LOW |-> "low", MEDIUM |-> "medium", HIGH |-> "high"]
GoogleConfig(key) == <<"generationConfig", "thinkingConfig", key>>

Efforts(p, body) ==
    CASE p = "anthropic" ->
            At(body, <<"output_config", "effort">>)
                \cup IF At(body, <<"thinking", "type">>) = {"disabled"} THEN {"none"} ELSE {}
      [] p = "google" ->
            {e \in AllEfforts : \E level \in At(body, GoogleConfig("thinkingLevel")) :
                level \in DOMAIN GoogleLevels /\ GoogleLevels[level] = e}
      [] p = "openai" -> At(body, <<"reasoning", "effort">>)
      [] p = "openai-compat" -> At(body, <<"reasoning_effort">>)
      [] p = "ollama" ->
            {IF think = "false" THEN "none" ELSE think : think \in At(body, <<"think">>)}

Budgets(p, body) ==
    CASE p = "anthropic" ->
            IF At(body, <<"thinking", "type">>) = {"enabled"}
            THEN At(body, <<"thinking", "budget_tokens">>) ELSE {}
      [] p = "google" -> At(body, GoogleConfig("thinkingBudget"))
      [] OTHER -> {}

-----------------------------------------------------------------------------
(***************************************************************************)
(* The application.                                                        *)
(***************************************************************************)
NoResponse == [by |-> Nobody]

Init ==
    /\ settings \in Settings
    /\ messages = settings.start
    /\ asked = Nobody
    /\ wire = Stops("unsent")
    /\ response = NoResponse
    /\ answers = <<>>

\* The calls of the last answer that have no result yet.
OpenCalls ==
    LET spoken == {i \in DOMAIN messages : messages[i].role = "assistant"}
        last == Max(spoken)
        calls == IF spoken = {} THEN <<>> ELSE Only("tool_call", messages[last].parts)
        given == IF spoken = {} THEN 0
                 ELSE Len(FlattenSeq([i \in 1 .. Len(messages) - last |-> messages[last + i].parts]))
    IN  SubSeq(calls, given + 1, Len(calls))

Sent(p) == Complete(Request, p, Params(p, Request))

Ask(p) ==
    /\ asked = Nobody
    /\ Last(messages).role # "assistant"
    /\ asked' = p
    /\ wire' = Sent(p)
    /\ response' = NoResponse
    /\ UNCHANGED <<settings, messages, answers>>

\* The adapter refuses, the provider fails or the call is cancelled.
Fail ==
    /\ asked # Nobody
    /\ asked' = Nobody
    /\ UNCHANGED <<settings, messages, wire, response, answers>>

\* No provider answers a transcript with calls that have no result.
Answer(reply) ==
    /\ asked # Nobody /\ wire.out = "ok" /\ ValidRequest(Request)
    /\ messages' = Append(messages, Reply(asked, Blocks(asked, reply)))
    /\ answers' = Append(answers, [by |-> asked, blocks |-> Blocks(asked, reply)])
    /\ response' = [by |-> asked, applied |-> Applied(asked, Request),
                    usage |-> Usage(asked, settings.counts)]
    /\ asked' = Nobody
    /\ UNCHANGED <<settings, wire>>

Say(m) ==
    /\ asked = Nobody
    /\ Len(messages) < MaxMessages
    /\ messages' = Append(messages, m)
    /\ UNCHANGED <<settings, asked, wire, response, answers>>

\* The results of all open calls in one message, or of the first alone; any of
\* them may be an error.
RunTools(n) ==
    /\ n \in {1, Len(OpenCalls)} /\ OpenCalls # <<>>
    /\ \E isError \in [1 .. n -> BOOLEAN] :
          Say(Turn("tool", [i \in 1 .. n |-> ToolResult(OpenCalls[i].id, isError[i])]))

Speak(parts) == OpenCalls = <<>> /\ Say(Turn("user", parts))

Next ==
    \/ \E p \in Providers : Ask(p)
    \/ Fail
    \/ \E reply \in Replies : Answer(reply)
    \/ \E n \in 1 .. Len(OpenCalls) : RunTools(n)
    \/ \E parts \in Questions : Speak(parts)

Spec == Init /\ [][Next]_vars

-----------------------------------------------------------------------------
(***************************************************************************)
(* What the adapters owe the application.                                  *)
(***************************************************************************)
Sending == asked # Nobody
Delivered == Sending /\ wire.out = "ok" /\ ValidRequest(Request)

Plain(parts) == \A i \in DOMAIN parts :
    /\ parts[i].kind = "text" => parts[i].body # Empty
    /\ parts[i].kind = "reasoning" => parts[i].data.seal # "none"

\* What a caller can see of a request that it is in order: it passes the
\* validation, the user begins, no text is empty, the schemas are objects, the
\* tool choice can be met and the extra fields are JSON.
InOrder ==
    /\ ValidRequest(Request)
    /\ Head(messages).role = "user"
    /\ \A i \in DOMAIN messages : Plain(messages[i].parts)
    /\ \A i \in DOMAIN settings.tools : settings.tools[i].schema \in {"none", "object", "untyped"}
    /\ RequiresTools(settings.choice) => settings.tools # <<>>
    /\ settings.choice.type = "tool" =>
          \E i \in DOMAIN settings.tools : settings.tools[i].name = settings.choice.name
    /\ \A p \in Providers : settings.params[p].valid

\* A transcript moves between providers: what is in order is accepted by every
\* adapter, whichever adapters' answers it holds (message.go, Reasoning.Provider).
AcceptedIsSent == Sending /\ InOrder => wire.out = "ok"

\* Who says what, in order.
Side(role) == IF role \in {"assistant", "model", "function_call"} THEN "assistant" ELSE "user"

\* The providers that can be told that a tool result is an error.
HearsErrors == {"anthropic", "google"}

\* What a part says, reasoning nothing.  Gemini's function responses have a name
\* instead of an id.
Atom(p, role, part) ==
    IF part.kind = "reasoning" THEN <<>>
    ELSE IF part.kind = "text" THEN << <<Side(role), part.body>> >>
    ELSE IF part.kind = "tool_call" THEN << <<Side(role), part.id, part.name>> >>
    ELSE << <<Side(role), IF p = "google" THEN "response" ELSE part.id,
              IF p \in HearsErrors /\ part.isError THEN "error" ELSE "result">> >>

Atoms(p, turns) ==
    FlattenSeq([i \in DOMAIN turns |->
        FlattenSeq([j \in DOMAIN turns[i].parts |-> Atom(p, turns[i].role, turns[i].parts[j])])])

\* Chat Completions and Ollama have one text beside the calls of a message.
TextFirst(parts) ==
    Only("text", parts) \o Picked(parts, {i \in DOMAIN parts : parts[i].kind # "text"})
Meant(p) ==
    IF p \in {"openai-compat", "ollama"}
    THEN [i \in DOMAIN messages |-> Turn(messages[i].role, TextFirst(messages[i].parts))]
    ELSE messages

\* The tool choice: no call is possible where none is allowed, a call that is
\* required is demanded of a provider that can be told (Ollama cannot), and
\* nothing is chosen where nothing is offered.
IntentKept ==
    LET forced == wire.choice.mode \in {"any", "required", "ANY", "tool", "function"}
    IN  /\ settings.choice.type = "none" =>
              wire.tools = <<>> \/ wire.choice.mode \in {"none", "NONE"}
        /\ RequiresTools(settings.choice) =>
              /\ wire.tools = ToolNames(Request)
              /\ asked # "ollama" => forced
        /\ settings.choice.type = "tool" /\ asked # "ollama" =>
              wire.choice.name = settings.choice.name
        /\ wire.choice # NoChoice => wire.tools # <<>>
        /\ settings.choice.type = "auto" => ~forced /\ wire.tools = ToolNames(Request)

\* Everything the transcript says reaches the provider once, in order and by
\* the one who said it, and the tool choice is not lost (message.go: "a
\* conversation round-trips unambiguously").  That a tool result is an error
\* reaches Anthropic and Google; the others' adapters drop it.
NothingLost ==
    Delivered => Atoms(asked, wire.turns) = Atoms(asked, Meant(asked)) /\ IntentKept

\* What a provider needs back: its sealed thinking, its signatures.
Secret(x) ==
    IF x.kind \in {"thinking", "reasoning"} THEN <<x.data.seal>>
    ELSE IF x.kind = "tool_call" /\ x.signature # NoSignature THEN <<x.signature>>
    ELSE <<>>

\* Of what the provider p said, what it wants to see again.
Wanted(p, by, x) ==
    IF by = p /\ (p = "anthropic" \/ (p = "google" /\ x.kind = "tool_call"))
    THEN Secret(x) ELSE <<>>

Issued(p) ==
    FlattenSeq([k \in DOMAIN answers |->
        FlattenSeq([i \in DOMAIN answers[k].blocks |->
            Wanted(p, answers[k].by, answers[k].blocks[i])])])

Returned ==
    FlattenSeq([i \in DOMAIN wire.turns |->
        FlattenSeq([j \in DOMAIN wire.turns[i].parts |-> Secret(wire.turns[i].parts[j])])])

\* A provider gets back exactly the reasoning and the signatures it issued,
\* unchanged and in order, however many others answered in between, and none
\* of theirs (reasoning.go, ADR-0010, ADR-0021).
ReasoningStaysHome == Delivered => Returned = Issued(asked)

\* The cache marks of the texts, in order.
Mark(x) == IF x.kind = "text" THEN <<x.marked>> ELSE <<>>
Marks(turns) ==
    FlattenSeq([i \in DOMAIN turns |->
        FlattenSeq([j \in DOMAIN turns[i].parts |-> Mark(turns[i].parts[j])])])

\* The marks that go out are the last ones, as many as there is room for.
MarkersFit ==
    LET out == Marks(wire.turns)
        meant == Marks(messages)
        honored == {i \in DOMAIN out : out[i]}
        wanted == {i \in DOMAIN meant : meant[i]}
        used == Cardinality(honored) + Cardinality({i \in DOMAIN wire.system : wire.system[i].marked})
    IN  /\ used <= 4
        /\ honored \subseteq wanted
        /\ \A i \in honored, j \in wanted : i < j => j \in honored
        /\ honored = wanted \/ used = 4

\* What Anthropic demands of a request: the user begins, the turns alternate,
\* the turn after tool calls starts with their results, and at most four cache
\* markers, which are the last of those asked for (convert.go, buildMessages
\* and cacheBudget).
AnthropicAccepts ==
    Delivered /\ asked = "anthropic" =>
        /\ \A i \in DOMAIN wire.turns :
              wire.turns[i].role = IF i % 2 = 1 THEN "user" ELSE "assistant"
        /\ \A i \in DOMAIN wire.turns :
              LET calls == Only("tool_call", wire.turns[i].parts)
                  next == wire.turns[i + 1].parts
              IN  calls # <<>> =>
                     /\ i < Len(wire.turns) /\ Len(calls) <= Len(next)
                     /\ \A j \in DOMAIN next :
                           j <= Len(calls) <=> next[j].kind = "tool_result"
                     /\ {next[j].id : j \in DOMAIN calls} = Range(IdsOf(calls))
        /\ MarkersFit

\* AppliedReasoning says what the body said after the application's own fields
\* were merged into it; without such fields it says all of it (ADR-0022,
\* ADR-0024).
AppliedIsSent ==
    response # NoResponse =>
        LET by == response.by
            applied == response.applied
            own == settings.params[by].set = NoFields
        IN  /\ IF applied.effort # NoEffort THEN applied.effort \in Efforts(by, wire.body)
               ELSE own => Efforts(by, wire.body) = {}
            /\ IF applied.budget # 0 THEN applied.budget \in Budgets(by, wire.body)
               ELSE own => Budgets(by, wire.body) = {}

\* Output and reasoning make up what is billed, the cache counts are parts of
\* the input, and no part is negative, whatever details a server adds to its
\* input and output counts (usage.go, ADR-0016, ADR-0023). OpenAI's adapter
\* trusts its provider not to count more reasoning than output, and it and
\* Google's that the reasoning is not negative.
UsageAddsUp ==
    response # NoResponse =>
        LET u == response.usage
        IN  /\ \/ u.billable = u.output + u.reasoning
               \/ response.by = "openai" /\ settings.counts.reasoning > settings.counts.output
            /\ u.read >= 0 /\ u.write >= 0 /\ u.read + u.write <= u.input
            /\ u.output >= 0
            /\ \/ u.reasoning >= 0
               \/ response.by \in {"openai", "google"} /\ settings.counts.reasoning < 0

-----------------------------------------------------------------------------
\* The name of the call that a result of the message i answers: a call of the
\* last assistant message before it.
Answered(i, id) ==
    LET turn == Max({j \in 1 .. i : messages[j].role = "assistant"})
    IN  Head(SelectSeq(messages[turn].parts, LAMBDA x : x.kind = "tool_call" /\ x.id = id)).name

\* google/convert.go, buildContents: the real name of a function response is
\* resolved from the matching prior tool call.
ResponsesNameTheirCall ==
    Delivered /\ asked = "google" =>
        LET names(turns, name(_, _)) == FlattenSeq([i \in DOMAIN turns |->
                LET results == Only("tool_result", turns[i].parts)
                IN  [j \in DOMAIN results |-> name(i, results[j])]])
        IN  names(wire.turns, LAMBDA i, r : r.name)
                = names(messages, LAMBDA i, r : Answered(i, r.id))
===============================================================================
