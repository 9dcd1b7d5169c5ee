---------------------------- MODULE ToolLoopProofs ----------------------------
(***************************************************************************)
(* Theorems about ToolLoop, for any requests, hooks, responses and limit.  *)
(***************************************************************************)
EXTENDS ToolLoop, CompactProofs

-----------------------------------------------------------------------------
(***************************************************************************)
(* The end of the context                                                  *)
(***************************************************************************)

\* The kinds an error outcome has when the run's context is live and no call
\* was canceled.
Fallbacks == {"llm_error", "context_exceeded", "compaction_error", "tool_error"}

\* While the run goes on it has no outcome; when it is over the outcome is the
\* verdict of the context, which does not end any more.
ContextInv ==
    /\ ctx \in {"live"} \cup CtxEnds
    /\ pc # "done" => outcome = NotYet
    /\ ContextDecides

\* classifyStop gives a verdict that the context backs.
LEMMA ClassifyStopDecides ==
    ASSUME NEW err, NEW fallback \in Fallbacks,
           ctx \in {"live"} \cup CtxEnds,
           Stop(classifyStop(err, fallback)), UNCHANGED ctx
    PROVE  ContextInv'
<1>1. CASE ctx \in CtxEnds
    BY <1>1 DEF classifyStop, Stop, ContextInv, ContextDecides, CtxEnds
<1>2. CASE ctx = "live"
    BY <1>2 DEF classifyStop, Stop, ContextInv, ContextDecides, CtxEnds, Canceled, Fallbacks
<1> QED BY <1>1, <1>2

\* A stop without an error claims nothing.
LEMMA StopAsDecides ==
    ASSUME NEW kind, ctx \in {"live"} \cup CtxEnds, StopAs(kind), UNCHANGED ctx
    PROVE  ContextInv'
BY DEF StopAs, Stop, ContextInv, ContextDecides

\* A step to another place of the run leaves it without an outcome.
LEMMA GoToDecides ==
    ASSUME NEW place, place # "done", ContextInv, pc # "done", GoTo(place), UNCHANGED ctx
    PROVE  ContextInv'
BY DEF GoTo, ContextInv, ContextDecides

\* What the hook answers is adopted or ends the run.
LEMMA AppliedDecides ==
    ASSUME NEW answer, ContextInv, pc # "done", Applied(answer), UNCHANGED ctx
    PROVE  ContextInv'
<1>1. CASE Adopt(answer.messages)
    BY <1>1, GoToDecides DEF Adopt
<1>2. CASE \E err : CompactionFails(err)
  <2>1. PICK err : Stop(classifyStop({"compaction"} \cup err, "compaction_error"))
      BY <1>2 DEF CompactionFails
  <2> QED BY <2>1, ClassifyStopDecides DEF ContextInv, Fallbacks
<1> QED BY <1>1, <1>2 DEF Applied

\* A declined overflow stays one of the loop's model.
LEMMA LlmErrorKindIsFallback == ASSUME NEW err PROVE llmErrorKind(err) \in Fallbacks
BY DEF llmErrorKind, Fallbacks

\* Every step keeps the invariant.
LEMMA ContextStep == ContextInv /\ [Next]_vars => ContextInv'
<1> SUFFICES ASSUME ContextInv, [Next]_vars PROVE ContextInv'
    OBVIOUS
<1>1. CASE UNCHANGED vars
    BY <1>1 DEF vars, ContextInv, ContextDecides
<1>2. CASE CtxEnd
    BY <1>2 DEF CtxEnd, ContextInv, ContextDecides, CtxEnds
<1>3. CASE BeforeTurn
  <2>1. pc # "done" /\ UNCHANGED ctx
      BY <1>3 DEF BeforeTurn
  <2>2. GoTo("calling") \/ \E answer : Applied(answer)
      BY <1>3 DEF BeforeTurn
  <2> QED BY <2>1, <2>2, GoToDecides, AppliedDecides
<1>4. CASE CompactAfterOverflow
  <2>1. pc # "done" /\ UNCHANGED ctx
      BY <1>4 DEF CompactAfterOverflow
  <2>2. \/ \E answer : Applied(answer)
        \/ Stop(classifyStop(Overflow, llmErrorKind(Overflow)))
      BY <1>4 DEF CompactAfterOverflow
  <2> QED BY <2>1, <2>2, AppliedDecides, LlmErrorKindIsFallback, ClassifyStopDecides DEF ContextInv
<1>5. ASSUME NEW m \in Responses, Respond(m) PROVE ContextInv'
  <2>1. pc # "done" /\ UNCHANGED ctx
      BY <1>5 DEF Respond
  <2>2. StopAs("empty_response") \/ StopAs("final_answer") \/ GoTo("executing")
      BY <1>5 DEF Respond
  <2> QED BY <2>1, <2>2, StopAsDecides, GoToDecides DEF ContextInv
<1>6. ASSUME NEW e \in Errors, CallFails(e) PROVE ContextInv'
  <2>1. pc # "done" /\ UNCHANGED ctx
      BY <1>6 DEF CallFails
  <2>2. GoTo("overflow") \/ Stop(classifyStop(e, llmErrorKind(e)))
      BY <1>6 DEF CallFails
  <2> QED BY <2>1, <2>2, GoToDecides, LlmErrorKindIsFallback, ClassifyStopDecides DEF ContextInv
<1>7. ASSUME NEW e \in Errors, ExecutorFails(e) PROVE ContextInv'
  <2>1. UNCHANGED ctx /\ Stop(classifyStop(e, "tool_error"))
      BY <1>7 DEF ExecutorFails
  <2> QED BY <2>1, ClassifyStopDecides DEF ContextInv, Fallbacks
<1>8. CASE CallReturns
  <2>1. pc # "done" /\ UNCHANGED ctx
      BY <1>8 DEF CallReturns
  <2>2. UNCHANGED <<pc, outcome>> \/ StopAs("max_iterations") \/ GoTo("beforeTurn")
      BY <1>8 DEF CallReturns
  <2>3. CASE UNCHANGED <<pc, outcome>>
      BY <2>1, <2>3 DEF ContextInv, ContextDecides
  <2> QED BY <2>1, <2>2, <2>3, StopAsDecides, GoToDecides DEF ContextInv
<1>9. CASE CallStops
    BY <1>9, StopAsDecides DEF CallStops, ContextInv
<1> QED BY <1>1, <1>2, <1>3, <1>4, <1>5, <1>6, <1>7, <1>8, <1>9 DEF Next, Step

\* An ended context decides the outcome, and nothing else claims its end
\* (classifyStop).
THEOREM ContextIsAuthoritative == Spec => []ContextDecides
<1>1. Init => ContextInv
    BY DEF Init, ContextInv, ContextDecides, CtxEnds
<1>2. ContextInv => ContextDecides
    BY DEF ContextInv
<1> QED BY <1>1, <1>2, ContextStep, PTL DEF Spec
-----------------------------------------------------------------------------
(***************************************************************************)
(* What a step does with the transcript                                    *)
(***************************************************************************)

\* The places between the turns, where the transcript may be sent.
Sending == {"beforeTurn", "calling", "overflow"}

TypeInv ==
    /\ request \in Requests /\ hook \in Hooks
    /\ ctx \in {"live"} \cup CtxEnds
    /\ pc \in Sending \cup {"executing", "done"}
    /\ transcript \in Transcripts

Waits == UNCHANGED <<transcript, pc, outcome>>

Proceeds == pc \in Sending /\ pc' \in Sending /\ UNCHANGED <<transcript, outcome>>

\* The hook's answer is of no use, or an error.
Unusable(answer) == answer.err # {} \/ (answer.changed /\ ~Usable(answer.messages))

Ends ==
    /\ pc # "done" /\ pc' = "done" /\ UNCHANGED transcript
    /\ pc = "executing" => outcome'.kind \notin Resumable
    /\ outcome'.kind = "compaction_error" =>
          pc \in Sending /\ \E reason : \E answer \in HookAnswers(reason) : Unusable(answer)

Compacts ==
    /\ pc \in Sending /\ pc' = "calling" /\ UNCHANGED outcome
    /\ \E reason : \E answer \in HookAnswers(reason) :
          answer.changed /\ Usable(answer.messages) /\ transcript' = Edited(answer.messages)

Says(m) ==
    /\ pc = "calling" /\ ~Empty(m) /\ transcript' = Append(transcript, m)
    /\ \/ m.calls = <<>> /\ pc' = "done" /\ outcome'.kind = "final_answer"
       \/ m.calls # <<>> /\ pc' = "executing" /\ UNCHANGED outcome

TurnReturns ==
    /\ pc = "executing" /\ transcript' = Append(transcript, ToolMsg(Calls))
    /\ \/ pc' = "beforeTurn" /\ UNCHANGED outcome
       \/ pc' = "done" /\ outcome'.kind \in {"terminal_tool", "max_iterations"}

Moves ==
    \/ Waits \/ Proceeds \/ Ends \/ Compacts \/ TurnReturns
    \/ \E m \in Responses : Says(m)

\* The kind of a stop is the context's, a cancellation, or the given one.
LEMMA StopKind ==
    ASSUME NEW err, NEW fallback, ctx \in {"live"} \cup CtxEnds,
           Stop(classifyStop(err, fallback))
    PROVE  outcome'.kind \in CtxEnds \cup {fallback} /\ pc' = "done"
BY DEF Stop, classifyStop, CtxEnds

\* What the hook answers is adopted or ends the run.
LEMMA AppliedMoves ==
    ASSUME NEW reason, NEW answer \in HookAnswers(reason), pc \in Sending,
           ctx \in {"live"} \cup CtxEnds, Applied(answer)
    PROVE  Ends \/ Compacts
<1>1. CASE answer.changed /\ Usable(answer.messages) /\ Adopt(answer.messages)
    BY <1>1 DEF Adopt, GoTo, Compacts
<1>2. ASSUME NEW err, CompactionFails(err), Unusable(answer) PROVE Ends
  <2>1. /\ Stop(classifyStop({"compaction"} \cup err, "compaction_error"))
        /\ UNCHANGED transcript
      BY <1>2 DEF CompactionFails
  <2>2. pc' = "done"
      BY <2>1, StopKind
  <2> QED
      BY <1>2, <2>1, <2>2 DEF Ends, Sending
<1> QED
    BY <1>1, <1>2 DEF Applied, Unusable

\* Every step is one of the moves.
LEMMA StepMoves ==
    ASSUME TypeInv, [Next]_vars
    PROVE  Moves /\ UNCHANGED <<request, hook>> /\ ctx' \in {"live"} \cup CtxEnds
<1> USE DEF TypeInv
<1>1. CASE UNCHANGED vars
    BY <1>1 DEF vars, config, Moves, Waits
<1>2. CASE CtxEnd
    BY <1>2 DEF CtxEnd, config, Moves, Waits
<1>3. CASE BeforeTurn
  <2>1. pc = "beforeTurn" /\ UNCHANGED <<request, hook, ctx>> /\ pc \in Sending
      BY <1>3 DEF BeforeTurn, config, Sending
  <2>2. CASE GoTo("calling") /\ UNCHANGED transcript
      BY <2>1, <2>2 DEF GoTo, Moves, Proceeds, Sending
  <2>3. CASE \E answer \in HookAnswers("beforeTurn") : Applied(answer)
      BY <2>1, <2>3, AppliedMoves DEF Moves
  <2> QED
      BY <1>3, <2>1, <2>2, <2>3 DEF BeforeTurn
<1>4. CASE CompactAfterOverflow
  <2>1. pc = "overflow" /\ UNCHANGED <<request, hook, ctx>> /\ pc \in Sending
      BY <1>4 DEF CompactAfterOverflow, config, Sending
  <2>2. CASE Stop(classifyStop(Overflow, llmErrorKind(Overflow))) /\ UNCHANGED transcript
    <3>1. outcome'.kind # "compaction_error" /\ pc' = "done"
        BY <2>2, StopKind DEF llmErrorKind, CtxEnds
    <3> QED
        BY <2>1, <2>2, <3>1 DEF Moves, Ends
  <2>3. CASE \E answer \in HookAnswers("overflow") : Applied(answer)
      BY <2>1, <2>3, AppliedMoves DEF Moves
  <2> QED
      BY <1>4, <2>1, <2>2, <2>3 DEF CompactAfterOverflow
<1>5. ASSUME NEW m \in Responses, Respond(m)
      PROVE  Moves /\ UNCHANGED <<request, hook, ctx>>
  <2>1. pc = "calling" /\ UNCHANGED <<request, hook, ctx>>
      BY <1>5 DEF Respond, config
  <2>2. CASE Empty(m)
    <3>1. m.calls = <<>> /\ UNCHANGED transcript
        BY <1>5, <2>2 DEF Respond, Empty
    <3>2. StopAs("empty_response")
        BY <1>5, <2>2, <3>1 DEF Respond
    <3> QED
        BY <2>1, <3>1, <3>2 DEF StopAs, Stop, Moves, Ends
  <2>3. CASE ~Empty(m)
    <3>1. transcript' = Append(transcript, m)
        BY <1>5, <2>3 DEF Respond
    <3>2. \/ m.calls = <<>> /\ StopAs("final_answer")
          \/ m.calls # <<>> /\ GoTo("executing")
        BY <1>5, <2>3 DEF Respond
    <3>3. Says(m)
        BY <2>1, <2>3, <3>1, <3>2 DEF StopAs, Stop, GoTo, Says
    <3> QED
        BY <2>1, <3>3 DEF Moves
  <2> QED
      BY <2>2, <2>3
<1>6. ASSUME NEW e \in Errors, CallFails(e)
      PROVE  Moves /\ UNCHANGED <<request, hook, ctx>>
  <2>1. pc = "calling" /\ UNCHANGED <<request, hook, ctx, transcript>>
      BY <1>6 DEF CallFails, config
  <2>2. CASE GoTo("overflow")
      BY <2>1, <2>2 DEF GoTo, Moves, Proceeds, Sending
  <2>3. CASE Stop(classifyStop(e, llmErrorKind(e)))
    <3>1. outcome'.kind # "compaction_error" /\ pc' = "done"
        BY <2>3, StopKind DEF llmErrorKind, CtxEnds
    <3> QED
        BY <2>1, <3>1 DEF Moves, Ends
  <2> QED
      BY <1>6, <2>1, <2>2, <2>3 DEF CallFails
<1>7. ASSUME NEW e \in Errors, ExecutorFails(e)
      PROVE  Moves /\ UNCHANGED <<request, hook, ctx>>
  <2>1. /\ pc = "executing" /\ UNCHANGED <<request, hook, ctx, transcript>>
        /\ Stop(classifyStop(e, "tool_error"))
      BY <1>7 DEF ExecutorFails, config
  <2>2. outcome'.kind \in CtxEnds \cup {"tool_error"} /\ pc' = "done"
      BY <2>1, StopKind
  <2> QED
      BY <2>1, <2>2 DEF CtxEnds, Resumable, Moves, Ends
<1>8. CASE CallReturns
  <2>1. pc = "executing" /\ UNCHANGED <<request, hook, ctx>>
      BY <1>8 DEF CallReturns, config
  <2>2. CASE UNCHANGED <<pc, outcome, transcript>>
      BY <2>1, <2>2 DEF Moves, Waits
  <2>3. CASE /\ transcript' = Append(transcript, ToolMsg(Calls))
             /\ StopAs("max_iterations") \/ GoTo("beforeTurn")
      BY <2>1, <2>3 DEF StopAs, Stop, GoTo, Moves, TurnReturns
  <2> QED
      BY <1>8, <2>1, <2>2, <2>3 DEF CallReturns
<1>9. CASE CallStops
    BY <1>9 DEF CallStops, config, StopAs, Stop, Moves, TurnReturns
<1> QED
    BY <1>1, <1>2, <1>3, <1>4, <1>5, <1>6, <1>7, <1>8, <1>9 DEF Next, Step

-----------------------------------------------------------------------------
(***************************************************************************)
(* What the hooks answer                                                   *)
(***************************************************************************)

\* A summary may be inserted, and so may nothing.
LEMMA SummaryIsInsertable == Insertable(<<>>) /\ Insertable(<<UserMsg(SummaryTag)>>)
<1> DEFINE summary == UserMsg(SummaryTag)
           msgs == <<summary>>
<1>1. Insertable(<<>>)
    BY NothingPasses DEF Insertable
<1>2. /\ summary \in MessageType /\ summary.role = "user" /\ summary.tag = SummaryTag
      /\ summary.text = "some" /\ summary.calls = <<>> /\ summary.results = <<>>
      /\ summary.reasoning = NoReasoning
    BY DEF UserMsg, Message, MessageType, NoReasoning
<1> HIDE DEF summary
<1>3. msgs \in Transcripts /\ Len(msgs) = 1 /\ msgs[1] = summary
    BY <1>2 DEF Transcripts
<1> HIDE DEF msgs
<1>4. Pending(msgs)[0] = {} /\ Pending(msgs)[1] = PendingAfter({}, summary)
  <2>1. 1 \in DOMAIN msgs /\ 1 - 1 = 0
      BY <1>3 DEF Transcripts
  <2>2. Pending(msgs)[0] = {} /\ Pending(msgs)[1] = PendingAfter(Pending(msgs)[1 - 1], msgs[1])
      BY <1>3, <2>1, PendingSteps
  <2> QED
      BY <1>3, <2>1, <2>2
<1>5. PendingAfter({}, summary) = {}
    BY <1>2 DEF PendingAfter
<1>6. Passes(msgs)
  <2>1. ASSUME NEW n \in 1 .. Len(msgs)
        PROVE  /\ HasNonReasoning(msgs[n]) /\ PartsLegal(msgs[n])
               /\ Pairs(Pending(msgs)[n - 1], msgs[n])
    <3>1. n = 1
        BY <1>3
    <3>2. PartsLegal(summary)
      <4>1. Range(<<>>) = {}
          BY DEF Range
      <4> QED
          BY <1>2, <4>1 DEF PartsLegal, NoReasoning, Unowned
    <3> QED
        BY <1>2, <1>3, <1>4, <3>1, <3>2 DEF HasNonReasoning, Pairs
  <2> QED
      BY <1>3, <1>4, <1>5, <2>1 DEF Passes
<1>7. \A k \in 1 .. Len(msgs) : IsSummary(msgs[k])
  <2>1. \A k \in 1 .. Len(msgs) : k = 1
      BY <1>3
  <2> QED
      BY <1>2, <1>3, <2>1 DEF IsSummary, IsUser
<1> QED
    BY <1>1, <1>3, <1>6, <1>7 DEF Insertable, msgs, summary

\* An answer of the hooks of package compact that changes the transcript is
\* what the cut rule keeps.
LEMMA BuiltInKeeps ==
    ASSUME NEW reason, NEW answer \in HookAnswers(reason), hook.policy # "app",
           answer.changed
    PROVE  /\ Drops(transcript, hook.keep)
           /\ \E insert : /\ Insertable(insert)
                         /\ answer.messages = Kept(transcript, hook.keep, insert)
BY SummaryIsInsertable
   DEF HookAnswers, NoChange, KeepLast, Summarize, Changed, Failed

\* KeepLast never fails.
LEMMA KeepLastNeverFails ==
    ASSUME NEW reason, NEW answer \in HookAnswers(reason), hook.policy = "keepLast"
    PROVE  answer.err = {}
BY DEF HookAnswers, NoChange, KeepLast, Changed

\* What is left of a transcript without a message, or from some point.
LEMMA Removed ==
    ASSUME NEW msgs \in Transcripts, NEW i \in DOMAIN msgs
    PROVE  /\ RemoveAt(msgs, i) \in Transcripts
           /\ Len(RemoveAt(msgs, i)) = Len(msgs) - 1
           /\ \A k \in 1 .. Len(msgs) - 1 :
                 RemoveAt(msgs, i)[k] = IF k < i THEN msgs[k] ELSE msgs[k + 1]
<1> DEFINE before == SubSeq(msgs, 1, i - 1)
           after == SubSeq(msgs, i + 1, Len(msgs))
           r == RemoveAt(msgs, i)
<1>1. Len(msgs) \in Nat /\ i \in 1 .. Len(msgs) /\ 0 + 1 = 1
    BY DEF Transcripts
<1>2. /\ before \in Transcripts /\ Len(before) = i - 1
      /\ \A k \in 1 .. i - 1 : before[k] = msgs[k]
    BY <1>1 DEF Transcripts
<1>3. /\ after \in Transcripts /\ Len(after) = Len(msgs) - i
      /\ \A k \in 1 .. Len(msgs) - i : after[k] = msgs[i + k]
    BY <1>1, StretchParts
<1>4. r = before \o after
    BY DEF RemoveAt
<1> HIDE DEF before, after, r
<1>5. /\ r \in Transcripts /\ Len(r) = Len(before) + Len(after)
      /\ \A k \in 1 .. Len(before) : r[k] = before[k]
      /\ \A k \in 1 .. Len(after) : r[Len(before) + k] = after[k]
    BY <1>2, <1>3, <1>4, Together
<1>6. ASSUME NEW k \in 1 .. Len(msgs) - 1
      PROVE  r[k] = IF k < i THEN msgs[k] ELSE msgs[k + 1]
  <2>1. CASE k < i
    <3>1. k \in 1 .. i - 1
        BY <1>1, <2>1
    <3>2. k \in 1 .. Len(before)
        BY <1>2, <3>1, Zenon
    <3>3. r[k] = before[k] /\ before[k] = msgs[k]
        BY <1>2, <1>5, <3>1, <3>2, Zenon
    <3> QED
        BY <2>1, <3>3, Zenon
  <2>2. CASE ~ (k < i)
    <3>1. PICK d \in 1 .. Len(msgs) - i : k = (i - 1) + d /\ i + d = k + 1
      <4>1. /\ k - (i - 1) \in 1 .. Len(msgs) - i
            /\ k = (i - 1) + (k - (i - 1)) /\ i + (k - (i - 1)) = k + 1
          BY <1>1, <2>2
      <4> QED
          BY <1>1, <4>1
    <3>2. r[(i - 1) + d] = after[d]
        BY <1>2, <1>3, <1>5, <3>1
    <3>3. after[d] = msgs[i + d]
        BY <1>3, <3>1
    <3> QED
        BY <2>2, <3>1, <3>2, <3>3, Zenon
  <2> QED
      BY <1>1, <2>1, <2>2
<1>7. Len(r) = Len(msgs) - 1
    BY <1>1, <1>2, <1>3, <1>5
<1> QED
    BY <1>5, <1>6, <1>7 DEF r

LEMMA Shortened ==
    ASSUME NEW msgs \in Transcripts, NEW n \in 0 .. Len(msgs) - 1
    PROVE  /\ SubSeq(msgs, 1, n) \in Transcripts /\ Len(SubSeq(msgs, 1, n)) = n
           /\ \A k \in 1 .. n : SubSeq(msgs, 1, n)[k] = msgs[k]
BY DEF Transcripts

\* Whatever the hook answers with is a transcript.
LEMMA AnswerIsTranscript ==
    ASSUME TypeInv, NEW reason, NEW answer \in HookAnswers(reason), answer.changed
    PROVE  answer.messages \in Transcripts
<1>1. CASE hook.policy = "app"
  <2>1. answer \in AppHook
      BY <1>1 DEF HookAnswers
  <2>2. CASE answer = NoChange
      BY <2>2 DEF NoChange
  <2>3. CASE \E e \in Errors : answer = Failed(e)
      BY <2>3 DEF Failed
  <2>4. CASE answer = Changed(transcript)
      BY <2>4 DEF Changed, TypeInv
  <2>5. CASE \E i \in DOMAIN transcript : answer = Changed(RemoveAt(transcript, i))
      BY <2>5, Removed DEF Changed, TypeInv
  <2>6. CASE \E n \in 0 .. Len(transcript) - 1 : answer = Changed(SubSeq(transcript, 1, n))
      BY <2>6, Shortened DEF Changed, TypeInv
  <2> QED
      BY <2>1, <2>2, <2>3, <2>4, <2>5, <2>6 DEF AppHook
<1>2. CASE hook.policy # "app"
  <2>1. PICK insert : Insertable(insert) /\ answer.messages = Kept(transcript, hook.keep, insert)
      BY <1>2, BuiltInKeeps
  <2>2. hook.keep \in Nat
      BY HooksAssumption DEF TypeInv
  <2> QED
      BY <2>1, <2>2, KeptIsBare DEF TypeInv, Insertable
<1> QED
    BY <1>1, <1>2

-----------------------------------------------------------------------------
(***************************************************************************)
(* Types                                                                   *)
(***************************************************************************)

LEMMA AppendIsTranscript ==
    ASSUME NEW msgs \in Transcripts, NEW m \in MessageType
    PROVE  /\ Append(msgs, m) \in Transcripts
           /\ Len(msgs) \in Nat /\ Len(Append(msgs, m)) = Len(msgs) + 1
           /\ \A i \in 1 .. Len(msgs) : Append(msgs, m)[i] = msgs[i]
           /\ Append(msgs, m)[Len(msgs) + 1] = m
           /\ Last(Append(msgs, m)) = m /\ Append(msgs, m) # <<>>
BY DEF Transcripts, Last

\* A tool message answers any calls.
LEMMA ToolMsgIsMessage ==
    ASSUME NEW ids \in Seq(STRING)
    PROVE  /\ ToolMsg(ids) \in MessageType /\ ToolMsg(ids).role = "tool"
           /\ ToolMsg(ids).reasoning = NoReasoning /\ ToolMsg(ids).tag = NoTag
BY DEF ToolMsg, Message, MessageType, NoReasoning, NoTag

LEMMA ResponseIsMessage ==
    ASSUME NEW m \in Responses
    PROVE  /\ m \in MessageType /\ m.role = "assistant" /\ m.reasoning # Stale
           /\ m.tag = NoTag /\ m.calls \in Seq(STRING)
BY ResponsesAssumption DEF Fresh, MessageType

\* While a turn's calls are executed, its message is the last.
TurnOpen ==
    \E base \in Transcripts, m \in Responses :
        transcript = Append(base, m) /\ m.calls # <<>>

TypeAndTurn == TypeInv /\ (pc = "executing" => TurnOpen)

LEMMA OpenTurn ==
    ASSUME TurnOpen
    PROVE  /\ transcript \in Transcripts /\ Calls \in Seq(STRING)
           /\ ToolMsg(Calls) \in MessageType
BY ResponseIsMessage, AppendIsTranscript, ToolMsgIsMessage DEF TurnOpen, Calls

LEMMA TypeInit == Init => TypeAndTurn
BY RequestsAssumption DEF Init, TypeAndTurn, TypeInv, Transcripts, Sending, CtxEnds

LEMMA TypeStep == TypeAndTurn /\ [Next]_vars => TypeAndTurn'
<1> SUFFICES ASSUME TypeAndTurn, [Next]_vars PROVE TypeAndTurn'
    OBVIOUS
<1>1. /\ TypeInv /\ Moves /\ UNCHANGED <<request, hook>>
      /\ ctx' \in {"live"} \cup CtxEnds
    BY StepMoves DEF TypeAndTurn
<1>2. SUFFICES /\ transcript' \in Transcripts
               /\ pc' \in Sending \cup {"executing", "done"}
               /\ pc' = "executing" => TurnOpen'
    BY <1>1 DEF TypeAndTurn, TypeInv
<1>3. CASE Waits
    BY <1>1, <1>3 DEF Waits, TypeAndTurn, TypeInv, TurnOpen
<1>4. CASE Proceeds \/ Ends
    BY <1>1, <1>4 DEF Proceeds, Ends, TypeInv, Sending
<1>5. CASE Compacts
  <2>1. PICK msgs \in Transcripts : transcript' = Edited(msgs)
      BY <1>1, <1>5, AnswerIsTranscript DEF Compacts
  <2>2. transcript' \in Transcripts
      BY <2>1, EditedIsAlike
  <2> QED
      BY <1>5, <2>2 DEF Compacts, Sending
<1>6. ASSUME NEW m \in Responses, Says(m)
      PROVE  /\ transcript' \in Transcripts
             /\ pc' \in Sending \cup {"executing", "done"}
             /\ pc' = "executing" => TurnOpen'
  <2>1. transcript \in Transcripts /\ transcript' = Append(transcript, m)
      BY <1>1, <1>6 DEF TypeInv, Says
  <2>2. transcript' \in Transcripts
      BY <2>1, ResponseIsMessage, AppendIsTranscript
  <2>3. pc' = "executing" => m.calls # <<>>
      BY <1>6 DEF Says
  <2>4. pc' \in {"executing", "done"}
      BY <1>6 DEF Says
  <2> QED
      BY <2>1, <2>2, <2>3, <2>4 DEF TurnOpen
<1>7. CASE TurnReturns
  <2>1. TurnOpen /\ transcript' = Append(transcript, ToolMsg(Calls))
      BY <1>7 DEF TurnReturns, TypeAndTurn
  <2>2. transcript' \in Transcripts
      BY <2>1, OpenTurn, AppendIsTranscript
  <2> QED
      BY <1>7, <2>2 DEF TurnReturns, Sending
<1> QED
    BY <1>1, <1>3, <1>4, <1>5, <1>6, <1>7 DEF Moves

-----------------------------------------------------------------------------
(***************************************************************************)
(* Reasoning                                                               *)
(***************************************************************************)

NoneStale(msgs) == \A i \in 1 .. Len(msgs) : msgs[i].reasoning # Stale

ReasoningInv == TypeAndTurn /\ (BuiltIn => NoneStale(transcript))

LEMMA AppendNotStale ==
    ASSUME NEW msgs \in Transcripts, NEW m \in MessageType, NoneStale(msgs),
           m.reasoning # Stale
    PROVE  NoneStale(Append(msgs, m))
<1> SUFFICES ASSUME NEW i \in 1 .. Len(Append(msgs, m))
             PROVE  Append(msgs, m)[i].reasoning # Stale
    BY DEF NoneStale
<1>1. i \in 1 .. Len(msgs) \/ i = Len(msgs) + 1
    BY AppendIsTranscript
<1> QED
    BY <1>1, AppendIsTranscript DEF NoneStale

LEMMA ReasoningStep == ReasoningInv /\ [Next]_vars => ReasoningInv'
<1> SUFFICES ASSUME ReasoningInv, [Next]_vars PROVE ReasoningInv'
    OBVIOUS
<1>1. TypeInv /\ Moves /\ UNCHANGED <<request, hook>> /\ TypeAndTurn'
    BY StepMoves, TypeStep DEF TypeAndTurn, ReasoningInv
<1>2. SUFFICES ASSUME BuiltIn, NoneStale(transcript) PROVE NoneStale(transcript')
    BY <1>1 DEF ReasoningInv, BuiltIn
<1>3. CASE UNCHANGED transcript
    BY <1>2, <1>3
<1>4. CASE Compacts
  <2>1. PICK reason : \E answer \in HookAnswers(reason) :
            answer.changed /\ transcript' = Edited(answer.messages)
      BY <1>4 DEF Compacts
  <2>2. PICK insert : Insertable(insert) /\ transcript' = Edited(Kept(transcript, hook.keep, insert))
      BY <1>2, <2>1, BuiltInKeeps DEF BuiltIn
  <2>3. hook.keep \in Nat /\ transcript \in Transcripts
      BY <1>1, HooksAssumption DEF TypeInv
  <2>4. transcript' = Kept(transcript, hook.keep, insert)
      BY <2>2, <2>3, KeptIsBare DEF Insertable
  <2>5. \A i \in 1 .. Len(transcript') : transcript'[i].reasoning = NoReasoning
      BY <2>2, <2>3, <2>4, KeptIsBare DEF Insertable
  <2> QED
      BY <2>5 DEF NoneStale, NoReasoning, Stale
<1>5. ASSUME NEW m \in Responses, Says(m) PROVE NoneStale(transcript')
    BY <1>1, <1>2, <1>5, ResponseIsMessage, AppendNotStale DEF Says, TypeInv
<1>6. CASE TurnReturns
  <2>1. TurnOpen /\ transcript' = Append(transcript, ToolMsg(Calls))
      BY <1>6 DEF TurnReturns, ReasoningInv, TypeAndTurn
  <2>2. Calls \in Seq(STRING) /\ transcript \in Transcripts
      BY <2>1, OpenTurn
  <2>3. ToolMsg(Calls) \in MessageType /\ ToolMsg(Calls).reasoning # Stale
      BY <2>2, ToolMsgIsMessage DEF NoReasoning, Stale
  <2> QED
      BY <1>2, <2>1, <2>2, <2>3, AppendNotStale
<1> QED
    BY <1>1, <1>3, <1>4, <1>5, <1>6 DEF Moves, Waits, Proceeds, Ends

\* No reasoning is sent that an edit made stale: the hooks of package compact
\* take all of it away (WithoutReasoning, ADR-0021).
THEOREM ReasoningIsUnedited == Spec => []ReasoningUnedited
<1>1. Init => ReasoningInv
  <2> SUFFICES ASSUME Init PROVE NoneStale(transcript)
      BY TypeInit DEF ReasoningInv
  <2>1. /\ transcript \in Transcripts
        /\ \A i \in DOMAIN transcript : Fresh(transcript[i])
      BY RequestsAssumption DEF Init, Transcripts
  <2> QED
      BY <2>1 DEF NoneStale, Fresh, Transcripts
<1>2. ReasoningInv => ReasoningUnedited
    BY DEF ReasoningInv, TypeAndTurn, TypeInv, NoneStale, ReasoningUnedited, Transcripts
<1> QED
    BY <1>1, <1>2, ReasoningStep, PTL DEF Spec

-----------------------------------------------------------------------------
(***************************************************************************)
(* The transcript at every call                                            *)
(***************************************************************************)

\* Every call of an answer has an id of its own.  The Gemini adapter may make
\* other answers, for it names a call by its function, and others keep
\* whatever id the server gave.
UsableIds ==
    \A m \in Responses : EmptyId \notin Range(m.calls) /\ IsInjective(m.calls)

LEMMA ResponseIsLegal ==
    ASSUME NEW m \in Responses, EmptyId \notin Range(m.calls)
    PROVE  PartsLegal(m)
<1>1. Range(<<>>) = {}
    BY DEF Range
<1> QED
    BY <1>1, ResponsesAssumption DEF PartsLegal

\* While a turn's calls are executed, what precedes its message is valid.
ValidTurnOpen ==
    \E base \in Transcripts, m \in Responses :
        /\ transcript = Append(base, m) /\ m.calls # <<>>
        /\ ValidateMessages(base)

MaySend == pc \in Sending \/ outcome.kind \in Resumable

SendInv ==
    /\ TypeAndTurn
    /\ pc # "done" => outcome = NotYet
    /\ MaySend => ValidateMessages(transcript)
    /\ pc = "executing" => ValidTurnOpen

LEMMA EditedIsValid ==
    ASSUME NEW msgs \in Transcripts, ValidateMessages(msgs)
    PROVE  ValidateMessages(Edited(msgs))
<1>1. msgs # <<>> /\ Passes(msgs)
    BY ValidIsPassing
<1>2. Edited(msgs) \in Transcripts /\ Passes(Edited(msgs)) /\ Len(Edited(msgs)) = Len(msgs)
    BY <1>1, EditedPasses, EditedIsAlike
<1>3. Edited(msgs) # <<>>
    BY <1>1, <1>2 DEF Transcripts
<1> QED
    BY <1>2, <1>3, ValidIsPassing

LEMMA AnswerIsValid ==
    ASSUME NEW msgs \in Transcripts, ValidateMessages(msgs), NEW m \in Responses,
           ~Empty(m), m.calls = <<>>
    PROVE  ValidateMessages(Append(msgs, m))
<1>1. HasNonReasoning(m)
    BY DEF Empty, HasNonReasoning
<1>2. PartsLegal(m)
    BY ResponseIsLegal DEF Range
<1>3. Append(msgs, m) \in Transcripts /\ Passes(Append(msgs, m))
    BY <1>1, <1>2, ResponseIsMessage, ValidIsPassing, AnswerPasses
<1>4. Append(msgs, m) # <<>>
    BY ResponseIsMessage, AppendIsTranscript
<1> QED
    BY <1>3, <1>4, ValidIsPassing

LEMMA TurnIsValid ==
    ASSUME UsableIds, ValidTurnOpen
    PROVE  ValidateMessages(Append(transcript, ToolMsg(Calls)))
<1>1. PICK base \in Transcripts, m \in Responses :
          transcript = Append(base, m) /\ m.calls # <<>> /\ ValidateMessages(base)
    BY DEF ValidTurnOpen
<1>2. Calls = m.calls
    BY <1>1, ResponseIsMessage, AppendIsTranscript DEF Calls
<1>3. /\ Append(transcript, ToolMsg(Calls)) \in Transcripts
      /\ Passes(Append(transcript, ToolMsg(Calls)))
    BY <1>1, <1>2, ResponseIsMessage, ResponseIsLegal, ValidIsPassing, TurnPasses
       DEF UsableIds
<1>4. transcript \in Transcripts
    BY <1>1, ResponseIsMessage, AppendIsTranscript
<1>5. Append(transcript, ToolMsg(Calls)) # <<>>
    BY <1>4 DEF Transcripts
<1> QED
    BY <1>3, <1>5, ValidIsPassing

LEMMA SendStep == UsableIds /\ SendInv /\ [Next]_vars => SendInv'
<1> SUFFICES ASSUME UsableIds, SendInv, [Next]_vars PROVE SendInv'
    OBVIOUS
<1>1. TypeInv /\ Moves /\ TypeAndTurn'
    BY StepMoves, TypeStep DEF TypeAndTurn, SendInv
<1>2. NotYet.kind \notin Resumable
    BY DEF NotYet, Resumable
<1>3. SUFFICES /\ pc' # "done" => outcome' = NotYet
               /\ MaySend' => ValidateMessages(transcript')
               /\ pc' = "executing" => ValidTurnOpen'
    BY <1>1 DEF SendInv
<1>4. CASE Waits
    BY <1>4 DEF Waits, SendInv, MaySend, ValidTurnOpen
<1>5. CASE Proceeds
    BY <1>5 DEF Proceeds, SendInv, MaySend, Sending
<1>6. CASE Ends
  <2>1. outcome'.kind \in Resumable => pc \in Sending
      BY <1>1, <1>6 DEF Ends, TypeInv
  <2> QED
      BY <1>6, <2>1 DEF Ends, SendInv, MaySend, Sending
<1>7. CASE Compacts
  <2>1. PICK msgs \in Transcripts : Usable(msgs) /\ transcript' = Edited(msgs)
      BY <1>1, <1>7, AnswerIsTranscript DEF Compacts
  <2>2. ValidateMessages(transcript')
      BY <2>1, EditedIsValid DEF Usable
  <2> QED
      BY <1>7, <2>2 DEF Compacts, SendInv, Sending
<1>8. ASSUME NEW m \in Responses, Says(m)
      PROVE  /\ pc' # "done" => outcome' = NotYet
             /\ MaySend' => ValidateMessages(transcript')
             /\ pc' = "executing" => ValidTurnOpen'
  <2>1. /\ pc = "calling" /\ outcome = NotYet /\ ~Empty(m)
        /\ transcript' = Append(transcript, m)
        /\ transcript \in Transcripts /\ ValidateMessages(transcript)
      BY <1>1, <1>8 DEF Says, SendInv, MaySend, Sending, TypeInv
  <2>2. CASE m.calls = <<>>
    <3>1. ValidateMessages(transcript') /\ pc' = "done"
        BY <1>8, <2>1, <2>2, AnswerIsValid DEF Says
    <3> QED
        BY <3>1
  <2>3. CASE m.calls # <<>>
    <3>1. pc' = "executing" /\ outcome' = NotYet
        BY <1>8, <2>1, <2>3 DEF Says
    <3>2. ValidTurnOpen'
        BY <2>1, <2>3 DEF ValidTurnOpen
    <3> QED
        BY <1>2, <3>1, <3>2 DEF MaySend, Sending
  <2> QED
      BY <2>2, <2>3
<1>9. CASE TurnReturns
  <2>1. ValidateMessages(transcript')
      BY <1>9, TurnIsValid DEF TurnReturns, SendInv
  <2> QED
      BY <1>9, <2>1 DEF TurnReturns, SendInv
<1> QED
    BY <1>1, <1>4, <1>5, <1>6, <1>7, <1>8, <1>9 DEF Moves

LEMMA SendInit == Init => SendInv
BY TypeInit, RequestsAssumption DEF Init, SendInv, MaySend, Resumable, NotYet

\* Whatever is sent, and what a resumable outcome leaves behind, answers every
\* call exactly once before anything else is said, whatever the hooks do, as
\* long as no answer of the provider names two calls alike (Run,
\* compaction.run, ValidateMessages).
THEOREM TranscriptIsSendable == UsableIds /\ Spec => []AlwaysSendable
<1>1. SendInv => AlwaysSendable
  <2> SUFFICES ASSUME SendInv, pc = "calling" \/ outcome.kind \in Resumable
               PROVE  WellFormed(transcript)
      BY DEF AlwaysSendable
  <2>1. transcript \in Transcripts /\ ValidateMessages(transcript)
      BY DEF SendInv, MaySend, Sending, TypeAndTurn, TypeInv
  <2> QED
      BY <2>1, ValidIsWellFormed
<1>2. SUFFICES ASSUME UsableIds PROVE Spec => []AlwaysSendable
    OBVIOUS
<1>3. SendInv /\ [Next]_vars => SendInv'
    BY <1>2, SendStep
<1> QED
    BY <1>1, <1>3, SendInit, PTL DEF Spec

-----------------------------------------------------------------------------
(***************************************************************************)
(* The last word                                                           *)
(***************************************************************************)

\* If the request does not end with the model's words, what is sent never does.
RunInv ==
    /\ SendInv
    /\ Last(request).role # "assistant" /\ pc \in Sending =>
          Last(transcript).role # "assistant"

LEMMA EditedEnds ==
    ASSUME NEW msgs \in Transcripts, msgs # <<>>
    PROVE  Last(Edited(msgs)).role = Last(msgs).role
<1>1. Len(msgs) \in 1 .. Len(msgs)
    BY DEF Transcripts
<1>2. Len(Edited(msgs)) = Len(msgs) /\ Alike(Edited(msgs)[Len(msgs)], msgs[Len(msgs)])
    BY <1>1, EditedIsAlike
<1> QED
    BY <1>2 DEF Alike, Last

LEMMA RunInit == Init => RunInv
BY SendInit DEF Init, RunInv

LEMMA RunStep == UsableIds /\ RunInv /\ [Next]_vars => RunInv'
<1> SUFFICES ASSUME UsableIds, RunInv, [Next]_vars PROVE RunInv'
    OBVIOUS
<1>1. TypeInv /\ Moves /\ UNCHANGED <<request, hook>> /\ SendInv'
    BY StepMoves, SendStep DEF TypeAndTurn, SendInv, RunInv
<1>2. SUFFICES ASSUME Last(request).role # "assistant", pc' \in Sending
               PROVE  Last(transcript').role # "assistant"
    BY <1>1 DEF RunInv
<1>3. CASE Waits \/ Proceeds \/ Ends
    BY <1>2, <1>3 DEF Waits, Proceeds, Ends, RunInv, Sending
<1>4. CASE Compacts
  <2>1. PICK msgs \in Transcripts : Usable(msgs) /\ transcript' = Edited(msgs)
      BY <1>1, <1>4, AnswerIsTranscript DEF Compacts
  <2> QED
      BY <2>1, EditedEnds DEF Usable, ValidateMessages
<1>5. ASSUME NEW m \in Responses, Says(m) PROVE FALSE
    BY <1>2, <1>5 DEF Says, Sending
<1>6. CASE TurnReturns
  <2>1. TurnOpen /\ transcript' = Append(transcript, ToolMsg(Calls))
      BY <1>6 DEF TurnReturns, RunInv, SendInv, TypeAndTurn
  <2>2. /\ transcript \in Transcripts /\ ToolMsg(Calls) \in MessageType
        /\ ToolMsg(Calls).role = "tool"
      BY <2>1, OpenTurn, ToolMsgIsMessage
  <2> QED
      BY <2>1, <2>2, AppendIsTranscript
<1> QED
    BY <1>1, <1>3, <1>4, <1>5, <1>6 DEF Moves

KeepLastInv == RunInv /\ KeepLastIsUsable

LEMMA KeepLastStep == UsableIds /\ KeepLastInv /\ [Next]_vars => KeepLastInv'
<1> SUFFICES ASSUME UsableIds, KeepLastInv, [Next]_vars PROVE KeepLastInv'
    OBVIOUS
<1>1. TypeInv /\ Moves /\ UNCHANGED <<request, hook>> /\ RunInv'
    BY StepMoves, RunStep DEF TypeAndTurn, SendInv, RunInv, KeepLastInv
<1>2. SUFFICES ASSUME hook.policy = "keepLast", Last(request).role # "assistant"
               PROVE  outcome'.kind # "compaction_error"
    BY <1>1 DEF KeepLastInv, KeepLastIsUsable
<1>3. CASE Waits \/ Proceeds \/ Compacts
    BY <1>2, <1>3 DEF Waits, Proceeds, Compacts, KeepLastInv, KeepLastIsUsable
<1>4. CASE Ends
  <2>1. SUFFICES ASSUME outcome'.kind = "compaction_error" PROVE FALSE
      OBVIOUS
  <2>2. PICK reason : pc \in Sending /\ \E answer \in HookAnswers(reason) : Unusable(answer)
      BY <1>4, <2>1 DEF Ends
  <2>3. PICK answer \in HookAnswers(reason) : Unusable(answer)
      BY <2>2
  <2>4. answer.changed /\ ~Usable(answer.messages)
      BY <1>2, <2>3, KeepLastNeverFails DEF Unusable
  <2>5. /\ transcript \in Transcripts /\ hook.keep \in Nat
        /\ ValidateMessages(transcript) /\ Last(transcript).role # "assistant"
      BY <1>1, <1>2, <2>2, HooksAssumption
         DEF TypeInv, KeepLastInv, RunInv, SendInv, MaySend
  <2>6. /\ Drops(transcript, hook.keep)
        /\ \E insert : /\ Insertable(insert)
                      /\ answer.messages = Kept(transcript, hook.keep, insert)
      BY <1>2, <2>4, BuiltInKeeps
  <2>7. Usable(answer.messages)
      BY <2>5, <2>6, KeptIsUsable DEF Usable
  <2> QED
      BY <2>4, <2>7
<1>5. ASSUME NEW m \in Responses, Says(m) PROVE outcome'.kind # "compaction_error"
    BY <1>2, <1>5 DEF Says, KeepLastInv, KeepLastIsUsable
<1>6. CASE TurnReturns
    BY <1>2, <1>6 DEF TurnReturns, KeepLastInv, KeepLastIsUsable
<1> QED
    BY <1>1, <1>3, <1>4, <1>5, <1>6 DEF Moves

\* KeepLast makes no compaction fail on a request whose last word is not the
\* model's: what it keeps of what is sent can be sent (KeepLast, usable).
THEOREM KeepLastNeverEndsTheRun == UsableIds /\ Spec => []KeepLastIsUsable
<1>1. Init => KeepLastInv
    BY RunInit DEF Init, KeepLastInv, KeepLastIsUsable, NotYet
<1>2. KeepLastInv => KeepLastIsUsable
    BY DEF KeepLastInv
<1>3. SUFFICES ASSUME UsableIds PROVE Spec => []KeepLastIsUsable
    OBVIOUS
<1>4. KeepLastInv /\ [Next]_vars => KeepLastInv'
    BY <1>3, KeepLastStep
<1> QED
    BY <1>1, <1>2, <1>4, PTL DEF Spec

-----------------------------------------------------------------------------
(***************************************************************************)
(* Summaries                                                               *)
(***************************************************************************)

\* A request that an earlier run summarized has the summary where Summarize
\* puts it.
SummariesInPlace == \A msgs \in Requests : SummaryInPlace(msgs)

OneSummary(msgs) ==
    \A i, j \in 1 .. Len(msgs) :
        msgs[i].tag = SummaryTag /\ msgs[j].tag = SummaryTag => i = j

SummaryInv ==
    /\ SendInv
    /\ hook.policy # "app" => SummaryInPlace(transcript)
    /\ OneSummary(transcript)

LEMMA InPlaceIsOne ==
    ASSUME NEW msgs, SummaryInPlace(msgs) PROVE OneSummary(msgs)
BY DEF SummaryInPlace, OneSummary

LEMMA AppendInPlace ==
    ASSUME NEW msgs \in Transcripts, NEW m \in MessageType, m.tag # SummaryTag, ~IsUser(m)
    PROVE  /\ SummaryInPlace(msgs) => SummaryInPlace(Append(msgs, m))
           /\ OneSummary(msgs) => OneSummary(Append(msgs, m))
<1> DEFINE t == Append(msgs, m)
<1>1. /\ t \in Transcripts /\ Len(msgs) \in Nat /\ Len(t) = Len(msgs) + 1
      /\ \A i \in 1 .. Len(msgs) : t[i] = msgs[i]
      /\ t[Len(msgs) + 1] = m
    BY AppendIsTranscript
<1> HIDE DEF t
<1>2. \A i \in 1 .. Len(t) : t[i].tag = SummaryTag => i \in 1 .. Len(msgs) /\ t[i] = msgs[i]
  <2> SUFFICES ASSUME NEW i \in 1 .. Len(t), t[i].tag = SummaryTag
               PROVE  i \in 1 .. Len(msgs) /\ t[i] = msgs[i]
      OBVIOUS
  <2>1. i \in 1 .. Len(msgs) \/ i = Len(msgs) + 1
      BY <1>1
  <2> QED
      BY <1>1, <2>1
<1>3. OneSummary(msgs) => OneSummary(t)
    BY <1>2 DEF OneSummary
<1>4. ASSUME SummaryInPlace(msgs) PROVE SummaryInPlace(t)
  <2>1. /\ HeadLen(msgs) \in 0 .. Len(msgs)
        /\ \A i \in 1 .. HeadLen(msgs) - 1 : ~IsUser(msgs[i])
        /\ \/ HeadLen(msgs) \in 1 .. Len(msgs) /\ IsUser(msgs[HeadLen(msgs)])
           \/ HeadLen(msgs) = Len(msgs) /\ \A i \in 1 .. Len(msgs) : ~IsUser(msgs[i])
      BY HeadEnds
  <2>2. CASE HeadLen(msgs) \in 1 .. Len(msgs) /\ IsUser(msgs[HeadLen(msgs)])
    <3>1. PICK h \in 1 .. Len(msgs) :
              /\ h = HeadLen(msgs) /\ IsUser(msgs[h])
              /\ \A i \in 1 .. h - 1 : ~IsUser(msgs[i])
        BY <2>1, <2>2
    <3>2. /\ h \in 1 .. Len(t) /\ IsUser(t[h])
          /\ \A i \in 1 .. h - 1 : i \in 1 .. Len(msgs)
        BY <1>1, <3>1
    <3>3. \A i \in 1 .. h - 1 : ~IsUser(t[i])
        BY <1>1, <3>1, <3>2
    <3>4. HeadLen(t) = h
        BY <1>1, <3>2, <3>3, HeadIs
    <3> QED
        BY <1>2, <1>4, <3>1, <3>4 DEF SummaryInPlace
  <2>3. CASE HeadLen(msgs) = Len(msgs)
    <3>1. \A i \in 1 .. Len(msgs) : i # Len(msgs) + 1
        BY <1>1
    <3>2. \A i \in 1 .. Len(t) : t[i].tag # SummaryTag
        BY <1>2, <1>4, <2>3, <3>1 DEF SummaryInPlace
    <3> QED
        BY <3>2 DEF SummaryInPlace
  <2> QED
      BY <2>1, <2>2, <2>3
<1> QED
    BY <1>3, <1>4 DEF t

LEMMA EditedIsOne ==
    ASSUME NEW msgs \in Transcripts, OneSummary(msgs) PROVE OneSummary(Edited(msgs))
BY EditedIsAlike DEF OneSummary

\* An application's hook adds no message.
LEMMA AppKeepsOne ==
    ASSUME NEW reason, NEW answer \in HookAnswers(reason), hook.policy = "app",
           answer.changed, transcript \in Transcripts, OneSummary(transcript)
    PROVE  answer.messages \in Transcripts /\ OneSummary(answer.messages)
<1>1. answer \in AppHook /\ Len(transcript) \in Nat
    BY DEF HookAnswers, Transcripts
<1>2. CASE answer = NoChange
    BY <1>2 DEF NoChange
<1>3. CASE \E e \in Errors : answer = Failed(e)
    BY <1>3 DEF Failed
<1>4. CASE answer = Changed(transcript)
    BY <1>4 DEF Changed
<1>5. CASE \E i \in DOMAIN transcript : answer = Changed(RemoveAt(transcript, i))
  <2>1. PICK i \in DOMAIN transcript : answer.messages = RemoveAt(transcript, i)
      BY <1>5 DEF Changed
  <2>2. /\ answer.messages \in Transcripts
        /\ Len(answer.messages) = Len(transcript) - 1
        /\ \A k \in 1 .. Len(transcript) - 1 :
              answer.messages[k] = IF k < i THEN transcript[k] ELSE transcript[k + 1]
      BY <2>1, Removed
  <2>3. i \in 1 .. Len(transcript)
      BY DEF Transcripts
  <2>4. \A k \in 1 .. Len(transcript) - 1 :
            k \in 1 .. Len(transcript) /\ k + 1 \in 1 .. Len(transcript)
      BY <1>1
  <2>5. OneSummary(answer.messages)
    <3> SUFFICES ASSUME NEW k \in 1 .. Len(transcript) - 1, NEW j \in 1 .. Len(transcript) - 1,
                        answer.messages[k].tag = SummaryTag,
                        answer.messages[j].tag = SummaryTag
                 PROVE  k = j
        BY <2>2 DEF OneSummary
    <3>1. (IF k < i THEN k ELSE k + 1) = (IF j < i THEN j ELSE j + 1)
        BY <2>2, <2>4 DEF OneSummary
    <3> QED
        BY <2>3, <3>1
  <2> QED
      BY <2>2, <2>5
<1>6. CASE \E n \in 0 .. Len(transcript) - 1 : answer = Changed(SubSeq(transcript, 1, n))
  <2>1. PICK n \in 0 .. Len(transcript) - 1 : answer.messages = SubSeq(transcript, 1, n)
      BY <1>6 DEF Changed
  <2>2. /\ answer.messages \in Transcripts /\ Len(answer.messages) = n
        /\ \A k \in 1 .. n : answer.messages[k] = transcript[k]
      BY <2>1, Shortened
  <2>3. \A k \in 1 .. n : k \in 1 .. Len(transcript)
      BY <1>1
  <2> QED
      BY <2>2, <2>3 DEF OneSummary
<1> QED
    BY <1>1, <1>2, <1>3, <1>4, <1>5, <1>6 DEF AppHook

LEMMA SummaryStep == UsableIds /\ SummaryInv /\ [Next]_vars => SummaryInv'
<1> SUFFICES ASSUME UsableIds, SummaryInv, [Next]_vars PROVE SummaryInv'
    OBVIOUS
<1>1. TypeInv /\ Moves /\ UNCHANGED <<request, hook>> /\ SendInv'
    BY StepMoves, SendStep DEF TypeAndTurn, SendInv, SummaryInv
<1>2. /\ transcript \in Transcripts /\ hook.keep \in Nat
      /\ OneSummary(transcript)
      /\ hook.policy # "app" => SummaryInPlace(transcript)
    BY <1>1, HooksAssumption DEF TypeInv, SummaryInv
<1>3. SUFFICES /\ hook.policy # "app" => SummaryInPlace(transcript')
               /\ OneSummary(transcript')
    BY <1>1 DEF SummaryInv
<1>4. CASE UNCHANGED transcript
    BY <1>2, <1>4
<1>5. CASE Compacts
  <2>1. PICK reason : pc \in Sending /\ \E answer \in HookAnswers(reason) :
            answer.changed /\ transcript' = Edited(answer.messages)
      BY <1>5 DEF Compacts
  <2>2. PICK answer \in HookAnswers(reason) :
            answer.changed /\ transcript' = Edited(answer.messages)
      BY <2>1
  <2>3. CASE hook.policy = "app"
    <3>1. answer.messages \in Transcripts /\ OneSummary(answer.messages)
        BY <1>2, <2>2, <2>3, AppKeepsOne
    <3> QED
        BY <2>2, <2>3, <3>1, EditedIsOne
  <2>4. CASE hook.policy # "app"
    <3>1. ValidateMessages(transcript)
        BY <2>1 DEF SummaryInv, SendInv, MaySend
    <3>2. Drops(transcript, hook.keep)
        BY <2>2, <2>4, BuiltInKeeps
    <3>3. PICK insert : /\ Insertable(insert)
                        /\ answer.messages = Kept(transcript, hook.keep, insert)
        BY <2>2, <2>4, BuiltInKeeps
    <3>4. transcript' = Kept(transcript, hook.keep, insert)
        BY <1>2, <2>2, <3>3, KeptIsBare DEF Insertable
    <3>5. SummaryInPlace(transcript')
        BY <1>2, <2>4, <3>1, <3>2, <3>3, <3>4, KeptSummary
    <3> QED
        BY <3>5, InPlaceIsOne
  <2> QED
      BY <2>3, <2>4
<1>6. ASSUME NEW m \in Responses, Says(m)
      PROVE  /\ hook.policy # "app" => SummaryInPlace(transcript')
             /\ OneSummary(transcript')
  <2>1. m \in MessageType /\ m.tag # SummaryTag /\ ~IsUser(m)
      BY ResponseIsMessage DEF NoTag, SummaryTag, IsUser
  <2> QED
      BY <1>2, <1>6, <2>1, AppendInPlace DEF Says
<1>7. CASE TurnReturns
  <2>1. TurnOpen /\ transcript' = Append(transcript, ToolMsg(Calls))
      BY <1>7 DEF TurnReturns, SummaryInv, SendInv, TypeAndTurn
  <2>2. Calls \in Seq(STRING)
      BY <2>1, OpenTurn
  <2>3. /\ ToolMsg(Calls) \in MessageType /\ ToolMsg(Calls).tag # SummaryTag
        /\ ~IsUser(ToolMsg(Calls))
      BY <2>2, ToolMsgIsMessage DEF NoTag, SummaryTag, IsUser
  <2> QED
      BY <1>2, <2>1, <2>3, AppendInPlace
<1> QED
    BY <1>1, <1>4, <1>5, <1>6, <1>7 DEF Moves, Waits, Proceeds, Ends

\* A new summary replaces the one before, so there is never more than one
\* (Summarize), whatever an application's hook drops.
THEOREM OneSummaryAtATime == UsableIds /\ SummariesInPlace /\ Spec => []SummaryRolls
<1>1. SummariesInPlace /\ Init => SummaryInv
    BY SendInit, InPlaceIsOne DEF Init, SummaryInv, SummariesInPlace
<1>2. SummaryInv => SummaryRolls
    BY DEF SummaryInv, SendInv, TypeAndTurn, TypeInv, OneSummary, SummaryRolls, Transcripts
<1>3. SUFFICES ASSUME UsableIds, SummariesInPlace PROVE Spec => []SummaryRolls
    OBVIOUS
<1>4. Init => SummaryInv
    BY <1>1, <1>3
<1>5. SummaryInv /\ [Next]_vars => SummaryInv'
    BY <1>3, SummaryStep
<1> QED
    BY <1>2, <1>4, <1>5, PTL DEF Spec

-----------------------------------------------------------------------------
(***************************************************************************)
(* The task and the question                                               *)
(***************************************************************************)

HasUser(msgs) == \E i \in 1 .. Len(msgs) : IsUser(msgs[i])

\* The first user message, where HeadLen says it is.
HeadOf(msgs, h) == h = HeadLen(msgs) /\ h \in 1 .. Len(msgs) /\ IsUser(msgs[h])

LEMMA HeadIsThere ==
    ASSUME NEW msgs \in Transcripts, HasUser(msgs)
    PROVE  /\ HeadOf(msgs, HeadLen(msgs))
           /\ \A i \in 1 .. HeadLen(msgs) - 1 : ~IsUser(msgs[i])
BY HeadEnds DEF HasUser, HeadOf

LEMMA HeldIsThere ==
    ASSUME NEW msgs \in Transcripts, NEW h, HeadOf(msgs, h)
    PROVE  Held(msgs) \subseteq ToSet(msgs)
<1>1. /\ Len(msgs) \in Nat /\ DOMAIN msgs = 1 .. Len(msgs)
      /\ PromptStart(msgs) \in h .. PromptEnd(msgs) /\ PromptEnd(msgs) \in h .. Len(msgs)
    BY LastRun DEF HeadOf, Transcripts
<1>2. \A i \in PromptStart(msgs) + 1 .. PromptEnd(msgs) : i \in 1 .. Len(msgs)
    BY <1>1 DEF HeadOf
<1> QED
    BY <1>1, <1>2 DEF Held, HeadOf, ToSet

\* What is said after the prompts takes none of them away.
LEMMA AppendHolds ==
    ASSUME NEW msgs \in Transcripts, NEW h, HeadOf(msgs, h), NEW m \in MessageType, ~IsUser(m)
    PROVE  /\ HeadOf(Append(msgs, m), h) /\ Append(msgs, m)[h] = msgs[h]
           /\ Held(msgs) \subseteq Held(Append(msgs, m))
<1>1. PICK t : t = Append(msgs, m)
    OBVIOUS
<1>2. /\ t \in Transcripts /\ Len(msgs) \in Nat /\ Len(t) = Len(msgs) + 1
      /\ \A i \in 1 .. Len(msgs) : t[i] = msgs[i]
      /\ t[Len(msgs) + 1] = m
    BY <1>1, AppendIsTranscript
<1>3. /\ h = HeadLen(msgs) /\ h \in 1 .. Len(msgs) /\ IsUser(msgs[h])
      /\ \A i \in 1 .. h - 1 : ~IsUser(msgs[i])
    BY HeadEnds DEF HeadOf
<1>4. \A i \in 1 .. h - 1 : i \in 1 .. Len(msgs)
    BY <1>2, <1>3
<1>5. h \in 1 .. Len(t) /\ t[h] = msgs[h] /\ IsUser(t[h])
    BY <1>2, <1>3
<1>6. \A i \in 1 .. h - 1 : ~IsUser(t[i])
    BY <1>2, <1>3, <1>4
<1>7. HeadLen(t) = h
    BY <1>2, <1>5, <1>6, HeadIs
<1>8. PICK s \in Nat, e \in Nat :
          /\ s = PromptStart(msgs) /\ e = PromptEnd(msgs)
          /\ h <= s /\ s <= e /\ e <= Len(msgs)
          /\ \A j \in s + 1 .. e : IsPrompt(msgs[j])
          /\ \A j \in e + 1 .. Len(msgs) : ~IsPrompt(msgs[j])
  <2>1. /\ PromptStart(msgs) \in h .. PromptEnd(msgs) /\ PromptEnd(msgs) \in h .. Len(msgs)
        /\ \A j \in PromptStart(msgs) + 1 .. PromptEnd(msgs) : IsPrompt(msgs[j])
        /\ \A j \in PromptEnd(msgs) + 1 .. Len(msgs) : ~IsPrompt(msgs[j])
      BY <1>3, LastRun
  <2>2. /\ PromptStart(msgs) \in Nat /\ PromptEnd(msgs) \in Nat
        /\ h <= PromptStart(msgs) /\ PromptStart(msgs) <= PromptEnd(msgs)
        /\ PromptEnd(msgs) <= Len(msgs)
      BY <1>2, <1>3, <2>1
  <2> QED
      BY <2>1, <2>2
<1>9. Held(msgs) = {msgs[h]} \cup {msgs[i] : i \in s + 1 .. e}
    BY <1>3, <1>8 DEF Held
<1>10. msgs[h] \in Held(t)
    BY <1>5, <1>7 DEF Held
<1>11. CASE s = e
  <2>1. s + 1 .. e = {}
      BY <1>11
  <2> QED
      BY <1>1, <1>5, <1>7, <1>9, <1>10, <2>1 DEF HeadOf
<1>12. CASE s < e
  <2>1. PICK r \in Nat \ {0} : s + r = e
    <3>1. e - s \in Nat \ {0} /\ s + (e - s) = e
        BY <1>12
    <3> QED
        BY <3>1
  <2>2. HeadLen(t) <= s /\ s + r <= Len(t)
      BY <1>2, <1>7, <1>8, <2>1
  <2>3. ASSUME NEW k \in 1 .. r PROVE t[s + k] = msgs[s + k] /\ IsPrompt(msgs[s + k])
    <3>1. s + k \in s + 1 .. e /\ s + k \in 1 .. Len(msgs)
        BY <1>2, <1>8, <2>1, InRun, Zenon
    <3> QED
        BY <1>2, <1>8, <3>1
  <2>4. ASSUME NEW j \in s + r + 1 .. Len(t) PROVE ~IsPrompt(t[j])
    <3>1. j \in e + 1 .. Len(msgs) \/ j = Len(msgs) + 1
        BY <1>2, <2>1
    <3>2. CASE j \in e + 1 .. Len(msgs)
      <4>1. j \in 1 .. Len(msgs)
          BY <1>2, <3>2
      <4> QED
          BY <1>2, <1>8, <3>2, <4>1
    <3>3. CASE j = Len(msgs) + 1
        BY <1>2, <3>3 DEF IsPrompt
    <3> QED
        BY <3>1, <3>2, <3>3
  <2>5. {msgs[i] : i \in s + 1 .. s + r} \subseteq Held(t)
      BY <1>2, <2>2, <2>3, <2>4, RunIsHeld
  <2> QED
      BY <1>1, <1>5, <1>7, <1>9, <1>10, <2>1, <2>5 DEF HeadOf
<1>13. s <= e
    BY <1>8, Zenon
<1>14. s = e \/ s < e
    BY <1>13
<1> QED
    BY <1>11, <1>12, <1>14

Prompts(msgs) == {i \in DOMAIN msgs : IsPrompt(msgs[i])}

\* A prompt that only prompts separate from the last one is held.
LEMMA QuestionIsHeld ==
    ASSUME NEW msgs \in Transcripts, HasUser(msgs), NEW i \in Prompts(msgs),
           \A j \in Prompts(msgs) : i .. j \subseteq Prompts(msgs)
    PROVE  msgs[i] \in Held(msgs)
<1>1. PICK h \in Nat, n \in Nat :
          /\ h = HeadLen(msgs) /\ n = Len(msgs) /\ 1 <= h /\ h <= n /\ i \in 1 .. n
          /\ DOMAIN msgs = 1 .. n /\ \A k \in 1 .. h - 1 : ~IsUser(msgs[k])
    BY HeadIsThere DEF HeadOf, Prompts, Transcripts
<1>2. PICK s \in Nat, e \in Nat :
          /\ s = PromptStart(msgs) /\ e = PromptEnd(msgs)
          /\ h <= s /\ s <= e /\ e <= n
          /\ \A j \in e + 1 .. n : ~IsPrompt(msgs[j])
          /\ \A k \in h .. e : (\A j \in k + 1 .. e : IsPrompt(msgs[j])) => s <= k
  <2>1. /\ PromptStart(msgs) \in h .. PromptEnd(msgs) /\ PromptEnd(msgs) \in h .. n
        /\ \A j \in PromptEnd(msgs) + 1 .. n : ~IsPrompt(msgs[j])
        /\ \A k \in h .. PromptEnd(msgs) :
              (\A j \in k + 1 .. PromptEnd(msgs) : IsPrompt(msgs[j])) => PromptStart(msgs) <= k
      BY <1>1, LastRun
  <2>2. /\ PromptStart(msgs) \in Nat /\ PromptEnd(msgs) \in Nat
        /\ h <= PromptStart(msgs) /\ PromptStart(msgs) <= PromptEnd(msgs)
        /\ PromptEnd(msgs) <= n
      BY <1>1, <2>1
  <2> QED
      BY <2>1, <2>2
<1>3. Held(msgs) = {msgs[h]} \cup {msgs[k] : k \in s + 1 .. e}
    BY <1>1, <1>2 DEF Held
<1>4. IsPrompt(msgs[i]) /\ IsUser(msgs[i])
    BY DEF Prompts, IsPrompt
<1>5. h <= i
    BY <1>1, <1>4
<1>6. CASE i = h
    BY <1>3, <1>6
<1>7. CASE i # h
  <2>1. i \in h + 1 .. n /\ i \in Nat
      BY <1>1, <1>5, <1>7
  <2>2. i <= e
      BY <1>1, <1>2, <1>4, <2>1
  <2>3. e \in Prompts(msgs)
    <3> DEFINE S == {HeadLen(msgs)} \cup {k \in HeadLen(msgs) + 1 .. Len(msgs) : IsPrompt(msgs[k])}
    <3>1. S \in SUBSET Nat /\ S # {} /\ \A y \in S : y <= n
        BY <1>1
    <3>2. Max(S) \in S
        BY <1>1, <3>1, MaxNat
    <3>3. e = Max(S)
        BY <1>2 DEF PromptEnd
    <3>4. e # h
        BY <2>1, <2>2
    <3> QED
        BY <1>1, <3>2, <3>3, <3>4 DEF Prompts
  <2>4. i .. e \subseteq Prompts(msgs)
      BY <2>3
  <2>5. i - 1 \in h .. e /\ (i - 1) + 1 = i
      BY <1>1, <2>1, <2>2
  <2>6. \A j \in (i - 1) + 1 .. e : IsPrompt(msgs[j])
      BY <2>4, <2>5 DEF Prompts
  <2>7. s <= i - 1
      BY <1>2, <2>5, <2>6
  <2>8. i \in s + 1 .. e
      BY <2>1, <2>2, <2>7
  <2> QED
      BY <1>3, <2>8
<1> QED
    BY <1>6, <1>7

\* What a transcript asks is held by it, and with the model's words at the end
\* it is the first user message alone.
LEMMA AskedIsHeld ==
    ASSUME NEW msgs \in Transcripts
    PROVE  /\ Asked(msgs) # {} => HasUser(msgs)
           /\ Last(msgs).role = "assistant" => Asked(msgs) \subseteq {msgs[HeadLen(msgs)]}
           /\ HasUser(msgs) => Asked(msgs) \subseteq Held(msgs)
<1> DEFINE task == {i \in DOMAIN msgs : IsUser(msgs[i]) /\ \A j \in 1 .. i - 1 : ~IsUser(msgs[j])}
           question == {i \in Prompts(msgs) :
                          \A j \in Prompts(msgs) : i .. j \subseteq Prompts(msgs)}
<1>1. Asked(msgs) = {msgs[i] : i \in task \cup IF Last(msgs).role = "assistant"
                                              THEN {} ELSE question}
    BY DEF Asked, Prompts
<1>2. DOMAIN msgs = 1 .. Len(msgs)
    BY DEF Transcripts
<1>3. \A i \in task : IsUser(msgs[i]) /\ i = HeadLen(msgs)
    BY <1>2, HeadIs
<1>4. \A i \in question : IsUser(msgs[i]) /\ i \in DOMAIN msgs
    BY DEF Prompts, IsPrompt
<1>5. HasUser(msgs) => \A i \in question : msgs[i] \in Held(msgs)
    BY QuestionIsHeld
<1>6. msgs[HeadLen(msgs)] \in Held(msgs)
    BY DEF Held
<1>7. \A i \in task \cup question : HasUser(msgs)
    BY <1>2, <1>4 DEF HasUser
<1> HIDE DEF task, question
<1> QED
    BY <1>1, <1>3, <1>5, <1>6, <1>7

\* The task stays where HeadLen finds it, and the question is held.
PromptInv ==
    /\ RunInv
    /\ BuiltIn /\ HasUser(request) =>
          /\ \E h : HeadOf(transcript, h) /\ transcript[h] = request[HeadLen(request)]
          /\ Last(request).role # "assistant" => Held(request) \subseteq Held(transcript)

LEMMA PromptInit == Init => PromptInv
<1> SUFFICES ASSUME Init PROVE PromptInv
    OBVIOUS
<1>1. request \in Transcripts /\ transcript = request
    BY RequestsAssumption DEF Init, Transcripts
<1> QED
    BY <1>1, RunInit, HeadIsThere DEF PromptInv

LEMMA PromptStep == UsableIds /\ PromptInv /\ [Next]_vars => PromptInv'
<1> SUFFICES ASSUME UsableIds, PromptInv, [Next]_vars PROVE PromptInv'
    OBVIOUS
<1>1. TypeInv /\ Moves /\ UNCHANGED <<request, hook>> /\ RunInv'
    BY StepMoves, RunStep DEF TypeAndTurn, SendInv, RunInv, PromptInv
<1>2. SUFFICES ASSUME BuiltIn, HasUser(request)
               PROVE  /\ \E h : HeadOf(transcript', h) /\ transcript'[h] = request[HeadLen(request)]
                      /\ Last(request).role # "assistant" =>
                            Held(request) \subseteq Held(transcript')
    BY <1>1 DEF PromptInv, BuiltIn
<1>3. PICK h : HeadOf(transcript, h) /\ transcript[h] = request[HeadLen(request)]
    BY <1>2 DEF PromptInv
<1>4. /\ transcript \in Transcripts /\ hook.keep \in Nat
      /\ Last(request).role # "assistant" => Held(request) \subseteq Held(transcript)
    BY <1>1, <1>2, HooksAssumption DEF PromptInv, TypeInv
<1>5. CASE UNCHANGED transcript
    BY <1>3, <1>4, <1>5
<1>6. CASE Compacts
  <2>1. PICK reason : pc \in Sending /\ \E answer \in HookAnswers(reason) :
            answer.changed /\ transcript' = Edited(answer.messages)
      BY <1>6 DEF Compacts
  <2>2. PICK answer \in HookAnswers(reason) :
            answer.changed /\ transcript' = Edited(answer.messages)
      BY <2>1
  <2>3. Drops(transcript, hook.keep)
      BY <1>2, <2>2, BuiltInKeeps DEF BuiltIn
  <2>4. PICK insert : /\ Insertable(insert)
                      /\ answer.messages = Kept(transcript, hook.keep, insert)
      BY <1>2, <2>2, BuiltInKeeps DEF BuiltIn
  <2>5. transcript' = Kept(transcript, hook.keep, insert) /\ insert \in Transcripts
      BY <1>4, <2>2, <2>4, KeptIsBare DEF Insertable
  <2>6. /\ ValidateMessages(transcript)
        /\ Last(request).role # "assistant" => Last(transcript).role # "assistant"
      BY <2>1 DEF PromptInv, RunInv, SendInv, MaySend
  <2>7. HeadOf(transcript', h) /\ transcript'[h] = transcript[h]
      BY <1>3, <1>4, <2>3, <2>5, <2>6, KeptHead DEF HeadOf
  <2>8. Last(transcript).role # "assistant" => Held(transcript) \subseteq Held(transcript')
      BY <1>4, <2>3, <2>4, <2>5, <2>6, KeptHolds
  <2> QED
      BY <1>3, <1>4, <2>6, <2>7, <2>8
<1>7. ASSUME NEW m \in MessageType, ~IsUser(m), transcript' = Append(transcript, m)
      PROVE  /\ \E k : HeadOf(transcript', k) /\ transcript'[k] = request[HeadLen(request)]
             /\ Last(request).role # "assistant" =>
                   Held(request) \subseteq Held(transcript')
  <2>1. /\ HeadOf(transcript', h) /\ transcript'[h] = transcript[h]
        /\ Held(transcript) \subseteq Held(transcript')
      BY <1>3, <1>4, <1>7, AppendHolds
  <2> QED
      BY <1>3, <1>4, <2>1
<1>8. ASSUME NEW m \in Responses, Says(m)
      PROVE  m \in MessageType /\ ~IsUser(m) /\ transcript' = Append(transcript, m)
    BY <1>8, ResponseIsMessage DEF Says, IsUser
<1>9. CASE TurnReturns
  <2>1. TurnOpen /\ transcript' = Append(transcript, ToolMsg(Calls))
      BY <1>9 DEF TurnReturns, PromptInv, RunInv, SendInv, TypeAndTurn
  <2>2. Calls \in Seq(STRING)
      BY <2>1, OpenTurn
  <2>3. ToolMsg(Calls) \in MessageType /\ ~IsUser(ToolMsg(Calls))
      BY <2>2, ToolMsgIsMessage DEF IsUser
  <2> QED
      BY <1>7, <2>1, <2>3
<1> QED
    BY <1>1, <1>5, <1>6, <1>7, <1>8, <1>9 DEF Moves, Waits, Proceeds, Ends

\* The task statement and the question being answered outlive every compaction
\* of the hooks of package compact, early and after an overflow (headLen,
\* inFlightRun, ADR-0038).
THEOREM TaskAndQuestionSurvive == UsableIds /\ Spec => []PromptSurvives
<1>1. PromptInv => PromptSurvives
  <2> SUFFICES ASSUME PromptInv, BuiltIn PROVE Asked(request) \subseteq ToSet(transcript)
      BY DEF PromptSurvives
  <2>1. request \in Transcripts /\ transcript \in Transcripts
      BY RequestsAssumption DEF PromptInv, RunInv, SendInv, TypeAndTurn, TypeInv, Transcripts
  <2>2. CASE ~HasUser(request)
      BY <2>1, <2>2, AskedIsHeld
  <2>3. CASE HasUser(request)
    <3>1. PICK h : HeadOf(transcript, h) /\ transcript[h] = request[HeadLen(request)]
        BY <2>3 DEF PromptInv
    <3>2. transcript[h] \in ToSet(transcript) /\ Held(transcript) \subseteq ToSet(transcript)
        BY <2>1, <3>1, HeldIsThere DEF HeadOf, ToSet, Transcripts
    <3>3. Last(request).role # "assistant" => Held(request) \subseteq Held(transcript)
        BY <2>3 DEF PromptInv
    <3> QED
        BY <2>1, <2>3, <3>1, <3>2, <3>3, AskedIsHeld
  <2> QED
      BY <2>2, <2>3
<1>2. SUFFICES ASSUME UsableIds PROVE Spec => []PromptSurvives
    OBVIOUS
<1>3. PromptInv /\ [Next]_vars => PromptInv'
    BY <1>2, PromptStep
<1> QED
    BY <1>1, <1>3, PromptInit, PTL DEF Spec
===============================================================================
