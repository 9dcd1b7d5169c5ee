------------------------------- MODULE ToolLoop -------------------------------
(***************************************************************************)
(* The synchronous tool loop (llms/toolloop/run.go): one Run, its          *)
(* transcript, the calls to the provider, the executors and the compaction *)
(* hook, and the run's context, which may end at any moment.               *)
(*                                                                         *)
(* The provider, the executors and the hook are the environment: they      *)
(* answer anything the interfaces allow.  An error is the set of sentinels *)
(* errors.Is and errors.As find in it.                                     *)
(***************************************************************************)
EXTENDS Compact

CONSTANTS
    Requests,       \* transcripts a Run may start from
    Hooks,          \* the hooks a Config may carry: [policy, keep, early]
    Responses,      \* the assistant messages a provider may answer with
    MaxIterations

ASSUME MaxIterationsAssumption == MaxIterations \in Nat \ {0}

\* Reasoning goes stale by an edit of the run, so none is stale before it.
Fresh(m) == m \in MessageType /\ m.reasoning # Stale

\* A run starts from a transcript that could be sent as it is.
ASSUME RequestsAssumption ==
    \A msgs \in Requests :
        msgs \in Seq(MessageType) /\ ValidateMessages(msgs) /\ \A i \in DOMAIN msgs : Fresh(msgs[i])

\* Every adapter makes an assistant message of what its provider said, and
\* names the provider of reasoning; the ids of calls are the provider's.
ASSUME ResponsesAssumption ==
    \A m \in Responses :
        /\ Fresh(m) /\ m.reasoning # Unowned
        /\ m.role = "assistant" /\ m.tag = NoTag /\ m.results = <<>>

ASSUME HooksAssumption ==
    Hooks \subseteq [policy : {"none", "keepLast", "summarize", "app"}, keep : Nat, early : BOOLEAN]

VARIABLES
    request, hook,  \* what the Config says
    ctx,            \* "live", or what ctx.Err() says
    pc,
    transcript,     \* req.Messages
    iterations,
    retried,        \* send has compacted after an overflow
    full,           \* the last response's usage reached the hook's AtTokens
    executed,       \* how many calls of the turn have their result
    outcome

config == <<request, hook>>
vars == <<config, ctx, pc, transcript, iterations, retried, full, executed, outcome>>

CtxEnds == {"canceled", "deadline"}
Policies == {"none", "keepLast", "summarize", "app"}

Canceled == {"canceled"}
Overflow == {"context_length"}
Other == {"other"}

\* The errors a call made under the run's context may return: a call may derive
\* a context of its own, so a cancellation or a deadline is not always the
\* run's.
Errors == {Canceled, {"deadline"}, Overflow, Other}

NotYet == [kind |-> "running", err |-> {}]

Init ==
    /\ request \in Requests
    /\ hook \in Hooks
    /\ ctx = "live"
    /\ pc = "beforeTurn"
    /\ transcript = request
    /\ iterations = 0
    /\ retried = FALSE
    /\ full = FALSE
    /\ executed = 0
    /\ outcome = NotYet

-----------------------------------------------------------------------------
(***************************************************************************)
(* Stops                                                                   *)
(***************************************************************************)

\* The run's context is authoritative; a cancellation under a live context may
\* come from a derived one.
classifyStop(err, fallback) ==
    IF ctx \in CtxEnds THEN [kind |-> ctx, err |-> err \cup {ctx}]
    ELSE [kind |-> IF Canceled \subseteq err THEN "canceled" ELSE fallback, err |-> err]

llmErrorKind(err) == IF Overflow \subseteq err THEN "context_exceeded" ELSE "llm_error"

Stop(result) == pc' = "done" /\ outcome' = result

StopAs(kind) == Stop([kind |-> kind, err |-> {}])

GoTo(place) == pc' = place /\ UNCHANGED outcome

-----------------------------------------------------------------------------
(***************************************************************************)
(* Compaction: compaction.send and compaction.run, and the hooks of        *)
(* package compact                                                         *)
(***************************************************************************)

NoChange == [messages |-> <<>>, changed |-> FALSE, err |-> {}]
Changed(msgs) == [messages |-> msgs, changed |-> TRUE, err |-> {}]
Failed(err) == [messages |-> <<>>, changed |-> FALSE, err |-> err]

KeepLast ==
    IF Drops(transcript, hook.keep)
    THEN {Changed(Kept(transcript, hook.keep, <<>>))}
    ELSE {NoChange}

\* A summary, the summarizer's own error, or an empty summary.
Summarize ==
    IF Drops(transcript, hook.keep)
    THEN {Changed(Kept(transcript, hook.keep, <<UserMsg(SummaryTag)>>))}
            \cup {Failed(e) : e \in Errors}
    ELSE {NoChange}

\* An application's hook may drop any message or all from some point, leave
\* the transcript alone, or fail.
AppHook ==
    {NoChange, Changed(transcript)}
        \cup {Failed(e) : e \in Errors}
        \cup {Changed(RemoveAt(transcript, i)) : i \in DOMAIN transcript}
        \cup {Changed(SubSeq(transcript, 1, n)) : n \in 0 .. Len(transcript) - 1}

\* due: the hooks of package compact act before a turn only past AtTokens.
HookAnswers(reason) ==
    IF hook.policy = "app" THEN AppHook
    ELSE IF reason = "beforeTurn" /\ ~(hook.early /\ full) THEN {NoChange}
    ELSE IF hook.policy = "keepLast" THEN KeepLast
    ELSE Summarize

\* The next call continues from the transcript, so it must be sendable and
\* not end with the model's own words.
Usable(msgs) == ValidateMessages(msgs) /\ Last(msgs).role # "assistant"

Adopt(msgs) ==
    /\ transcript' = Edited(msgs)
    /\ GoTo("calling")

\* A hook that fails, or whose transcript is of no use, ends the run.
CompactionFails(err) ==
    /\ Stop(classifyStop({"compaction"} \cup err, "compaction_error"))
    /\ UNCHANGED transcript

Applied(answer) ==
    \/ answer.changed /\ Usable(answer.messages) /\ Adopt(answer.messages)
    \/ answer.changed /\ ~Usable(answer.messages) /\ CompactionFails({})
    \/ answer.err # {} /\ CompactionFails(answer.err)

BeforeTurn ==
    /\ pc = "beforeTurn"
    /\ retried' = FALSE
    /\ \/ /\ hook.policy = "none" \/ NoChange \in HookAnswers("beforeTurn")
          /\ GoTo("calling")
          /\ UNCHANGED transcript
       \/ /\ hook.policy # "none"
          /\ \E answer \in HookAnswers("beforeTurn") : Applied(answer)
    /\ UNCHANGED <<config, ctx, iterations, full, executed>>

\* Mutant: the retry is not remembered.
CompactAfterOverflowAgain ==
    /\ pc = "overflow"
    /\ \E answer \in HookAnswers("overflow") :
          \/ Applied(answer)
          \/ /\ answer = NoChange
             /\ Stop(classifyStop(Overflow, llmErrorKind(Overflow)))
             /\ UNCHANGED transcript
    /\ UNCHANGED <<config, ctx, iterations, retried, full, executed>>

\* Mutant: a hook that declines leaves the kind of the overflow as it was.
CompactAfterOverflowUnclassified ==
    /\ pc = "overflow"
    /\ retried' = TRUE
    /\ \E answer \in HookAnswers("overflow") :
          \/ Applied(answer)
          \/ /\ answer = NoChange
             /\ Stop([kind |-> "context_exceeded", err |-> Overflow])
             /\ UNCHANGED transcript
    /\ UNCHANGED <<config, ctx, iterations, full, executed>>

\* One compaction and one retry after an overflow; a hook that declines leaves
\* the overflow, classified again, since the context may have ended meanwhile.
CompactAfterOverflow ==
    /\ pc = "overflow"
    /\ retried' = TRUE
    /\ \E answer \in HookAnswers("overflow") :
          \/ Applied(answer)
          \/ /\ answer = NoChange
             /\ Stop(classifyStop(Overflow, llmErrorKind(Overflow)))
             /\ UNCHANGED transcript
    /\ UNCHANGED <<config, ctx, iterations, full, executed>>

-----------------------------------------------------------------------------
(***************************************************************************)
(* The provider's answer                                                   *)
(***************************************************************************)

\* isEmptyResponse.
Empty(m) == m.calls = <<>> /\ m.text # "some"

\* Mutant: the limit ends the run before the calls of its last turn are executed.
RespondAtLimit(m) ==
    /\ pc = "calling"
    /\ transcript' = IF Empty(m) THEN transcript ELSE Append(transcript, m)
    /\ full' \in BOOLEAN
    /\ \/ Empty(m) /\ StopAs("empty_response") /\ UNCHANGED <<iterations, executed>>
       \/ /\ ~Empty(m) /\ m.calls = <<>> /\ StopAs("final_answer")
          /\ UNCHANGED <<iterations, executed>>
       \/ /\ m.calls # <<>>
          /\ iterations' = iterations + 1 /\ executed' = 0
          /\ IF iterations' >= MaxIterations THEN StopAs("max_iterations") ELSE GoTo("executing")
    /\ UNCHANGED <<config, ctx, retried>>

\* An empty response ends the run and is not appended; one without calls is
\* the final answer; calls are executed.
Respond(m) ==
    /\ pc = "calling"
    /\ transcript' = IF Empty(m) THEN transcript ELSE Append(transcript, m)
    /\ full' \in BOOLEAN
    /\ \/ Empty(m) /\ StopAs("empty_response") /\ UNCHANGED <<iterations, executed>>
       \/ /\ ~Empty(m) /\ m.calls = <<>> /\ StopAs("final_answer")
          /\ UNCHANGED <<iterations, executed>>
       \/ /\ m.calls # <<>> /\ GoTo("executing")
          /\ iterations' = iterations + 1 /\ executed' = 0
    /\ UNCHANGED <<config, ctx, retried>>

\* An overflow is answered by the hook, once a turn; any other error, and a
\* context that is over, ends the run.
CallFails(err) ==
    /\ pc = "calling"
    /\ LET stop == classifyStop(err, llmErrorKind(err))
       IN  \/ /\ stop.kind = "context_exceeded" /\ hook.policy # "none" /\ ~retried
              /\ GoTo("overflow")
           \/ /\ stop.kind # "context_exceeded" \/ hook.policy = "none" \/ retried
              /\ Stop(stop)
    /\ UNCHANGED <<config, ctx, transcript, iterations, retried, full, executed>>

-----------------------------------------------------------------------------
(***************************************************************************)
(* The turn's calls: executeCalls                                          *)
(***************************************************************************)

Calls == Last(transcript).calls

\* A result the model sees, good or bad (an unknown tool gives a bad one).
\* After the last call the turn ends, at the limit with the run.
CallReturns ==
    /\ pc = "executing"
    /\ executed' = executed + 1
    /\ \/ /\ executed' < Len(Calls)
          /\ UNCHANGED <<pc, outcome, transcript>>
       \/ /\ executed' = Len(Calls)
          /\ transcript' = Append(transcript, ToolMsg(Calls))
          /\ \/ iterations >= MaxIterations /\ StopAs("max_iterations")
             \/ iterations < MaxIterations /\ GoTo("beforeTurn")
    /\ UNCHANGED <<config, ctx, iterations, retried, full>>

\* Mutant: the calls after the terminal one get no result.
CallStopsShort ==
    /\ pc = "executing"
    /\ executed' = executed + 1
    /\ transcript' = Append(transcript, ToolMsg(SubSeq(Calls, 1, executed + 1)))
    /\ StopAs("terminal_tool")
    /\ UNCHANGED <<config, ctx, iterations, retried, full>>

\* A terminal result ends the turn and the run: the calls after it get the
\* result that they were not executed.
CallStops ==
    /\ pc = "executing"
    /\ executed' = executed + 1
    /\ transcript' = Append(transcript, ToolMsg(Calls))
    /\ StopAs("terminal_tool")
    /\ UNCHANGED <<config, ctx, iterations, retried, full>>

\* An executor's error, which a result that is terminal and bad at once is too.
ExecutorFails(err) ==
    /\ pc = "executing"
    /\ Stop(classifyStop(err, "tool_error"))
    /\ UNCHANGED <<config, ctx, transcript, iterations, retried, full, executed>>

-----------------------------------------------------------------------------
CtxEnd ==
    /\ pc # "done" /\ ctx = "live"
    /\ ctx' \in CtxEnds
    /\ UNCHANGED <<config, pc, transcript, iterations, retried, full, executed, outcome>>

Step ==
    \/ BeforeTurn \/ CompactAfterOverflow
    \/ \E m \in Responses : Respond(m)
    \/ \E e \in Errors : CallFails(e) \/ ExecutorFails(e)
    \/ CallReturns \/ CallStops

Next == Step \/ CtxEnd

Spec == Init /\ [][Next]_vars

\* Every call of the loop returns.
FairSpec == Spec /\ WF_vars(Step)

-----------------------------------------------------------------------------
(***************************************************************************)
(* Properties                                                              *)
(***************************************************************************)

\* Every outcome but a failed or aborted execution.
Resumable == {"final_answer", "empty_response", "terminal_tool", "max_iterations",
              "llm_error", "context_exceeded", "compaction_error"}

\* Whatever is sent to the provider, after any turn, any edit and any retry,
\* answers every call exactly once before anything else is said, and what such
\* an outcome leaves behind does too, so that the caller can go on (Run,
\* compaction.run, ValidateMessages; types.go, OutcomeKind).
AlwaysSendable ==
    pc = "calling" \/ outcome.kind \in Resumable => WellFormed(transcript)

\* types.go, OutcomeMaxIterations: the results of the last turn are appended, so
\* Messages is well-formed, by the repository's own check.
LimitIsWellFormed == outcome.kind = "max_iterations" => ValidateMessages(transcript)

\* When the run's context is over, an error outcome says so, in kind and in
\* error, whatever the call that failed returned; under a live context no
\* outcome claims the run's deadline, and only a cancellation is one
\* (classifyStop).
ContextDecides ==
    pc = "done" /\ outcome.err # {} =>
        /\ ctx \in CtxEnds => outcome.kind = ctx /\ ctx \in outcome.err
        /\ ctx = "live" =>
              /\ outcome.kind # "deadline"
              /\ outcome.kind = "canceled" <=> "canceled" \in outcome.err

\* What a request is about: the task, its first user message, and the question,
\* its last run of prompts, unless it ends with an answer.
Asked(msgs) ==
    LET prompts == {i \in DOMAIN msgs : IsPrompt(msgs[i])}
        task == {i \in DOMAIN msgs : IsUser(msgs[i]) /\ \A j \in 1 .. i - 1 : ~IsUser(msgs[j])}
        question == {i \in prompts : \A j \in prompts : i .. j \subseteq prompts}
    IN  {msgs[i] : i \in task \cup IF Last(msgs).role = "assistant" THEN {} ELSE question}

BuiltIn == hook.policy \in {"keepLast", "summarize"}

\* The task statement and the question being answered outlive every compaction
\* of the hooks of package compact (ADR-0038).
PromptSurvives == BuiltIn => Asked(request) \subseteq ToSet(transcript)

\* No reasoning is sent after an edit of the history it was bound to
\* (WithoutReasoning, ADR-0021).
ReasoningUnedited ==
    BuiltIn /\ pc = "calling" =>
        \A i \in DOMAIN transcript : transcript[i].reasoning # Stale

\* Summaries roll: a new one replaces the one before (Summarize).
SummaryRolls ==
    LET summaries == {i \in DOMAIN transcript : transcript[i].tag = SummaryTag}
    IN  \A i, j \in summaries : i = j

\* KeepLast makes no compaction fail, on a request whose last word is not the
\* model's: what it keeps is always a transcript the loop can use.
KeepLastIsUsable ==
    hook.policy = "keepLast" /\ Last(request).role # "assistant" =>
        outcome.kind # "compaction_error"

\* A run of calls that return ends (MaxIterations, one retry a turn).
RunReturns == <>(pc = "done")
===============================================================================
