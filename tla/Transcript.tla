------------------------------ MODULE Transcript ------------------------------
(***************************************************************************)
(* Transcripts (llms/message.go, llms/reasoning.go) and the structural     *)
(* check of llms/middleware/validation.go.                                 *)
(*                                                                         *)
(* A message keeps what the code tells apart: its role, whether it has     *)
(* text (and whether that text is empty), the ids of its tool calls and    *)
(* tool results in order, whether it carries reasoning (and whether that   *)
(* names its provider), and a tag that says which user message it is.      *)
(* Reasoning is bound to the conversation before it: an edit of the        *)
(* history makes it stale.                                                 *)
(***************************************************************************)
EXTENDS Integers, SequencesExt

NoReasoning == "none"
Bound == "bound"
Stale == "stale"
Unowned == "unowned"    \* without its Provider

EmptyId == ""

\* Summarize's message: a user message that starts with the summary header.
SummaryTag == "summary"

\* The tag of a message that is not the user's.
NoTag == "none"

MessageType ==
    [role : {"user", "assistant", "tool"}, text : {"none", "empty", "some"},
     calls : Seq(STRING), results : Seq(STRING),
     reasoning : {NoReasoning, Bound, Stale, Unowned}, tag : {NoTag, SummaryTag} \cup STRING]

Message(role, text, calls, results, reasoning, tag) ==
    [role |-> role, text |-> text, calls |-> calls, results |-> results,
     reasoning |-> reasoning, tag |-> tag]

UserMsg(tag) == Message("user", "some", <<>>, <<>>, NoReasoning, tag)

\* One result for each of the given calls (ToolResultMessage).
ToolMsg(ids) == Message("tool", "none", <<>>, ids, NoReasoning, NoTag)

AssistantMsg(text, calls, reasoning) ==
    Message("assistant", text, calls, <<>>, reasoning, NoTag)

-----------------------------------------------------------------------------
(***************************************************************************)
(* ValidateMessages                                                        *)
(***************************************************************************)

HasNonReasoning(m) == m.text # "none" \/ m.calls # <<>> \/ m.results # <<>>

\* validateParts: ids and the reasoning's provider are there, and each part is
\* one its role may carry; with pairingState.tool, a tool message carries
\* results and nothing else.
PartsLegal(m) ==
    /\ EmptyId \notin Range(m.calls) \cup Range(m.results)
    /\ m.reasoning # Unowned
    /\ m.calls # <<>> => m.role = "assistant"
    /\ m.reasoning # NoReasoning => m.role = "assistant"
    /\ m.results # <<>> => m.role = "tool"
    /\ m.role = "tool" => m.text = "none"

\* Mutant: the calls of the turn before are forgotten.
PairsForgetful(pending, m) ==
    CASE m.role = "assistant" -> IsInjective(m.calls)
      [] m.role = "tool" -> IsInjective(m.results) /\ Range(m.results) \subseteq pending
      [] OTHER -> pending = {}

\* pairingState: whether m may follow while the calls pending have no result.
Pairs(pending, m) ==
    CASE m.role = "assistant" -> pending = {} /\ IsInjective(m.calls)
      [] m.role = "tool" -> IsInjective(m.results) /\ Range(m.results) \subseteq pending
      [] OTHER -> pending = {}

\* What is pending after m.
PendingAfter(pending, m) ==
    IF m.role = "assistant" THEN Range(m.calls) ELSE pending \ Range(m.results)

\* The calls pending after each prefix of the messages.
Pending(msgs) ==
    LET pending[n \in 0 .. Len(msgs)] ==
            IF n = 0 THEN {} ELSE PendingAfter(pending[n - 1], msgs[n])
    IN  pending

ValidateMessages(msgs) ==
    /\ msgs # <<>>
    /\ \A n \in DOMAIN msgs :
          /\ HasNonReasoning(msgs[n]) /\ PartsLegal(msgs[n])
          /\ Pairs(Pending(msgs)[n - 1], msgs[n])
    /\ Pending(msgs)[Len(msgs)] = {}

\* An edit of the history before reasoning makes it stale.
Edited(msgs) ==
    [i \in DOMAIN msgs |->
        IF msgs[i].reasoning = Bound THEN [msgs[i] EXCEPT !.reasoning = Stale] ELSE msgs[i]]

WithoutReasoning(msgs) == [i \in DOMAIN msgs |-> [msgs[i] EXCEPT !.reasoning = NoReasoning]]

-----------------------------------------------------------------------------
(***************************************************************************)
(* What a provider requires of a transcript, said without a scan.          *)
(***************************************************************************)

IsTool(m) == m.role = "tool"

\* The tool messages that answer the assistant message i: those that follow
\* it directly.
Answering(msgs, i) ==
    {j \in i + 1 .. Len(msgs) : \A k \in i + 1 .. j : IsTool(msgs[k])}

\* Every call is answered exactly once, before anything else is said, and
\* nothing else is answered.
WellFormed(msgs) ==
    /\ msgs # <<>>
    /\ \A i \in DOMAIN msgs : HasNonReasoning(msgs[i]) /\ PartsLegal(msgs[i])
    /\ \A i \in DOMAIN msgs : msgs[i].role = "assistant" =>
          /\ IsInjective(msgs[i].calls)
          /\ \A j \in Answering(msgs, i) : IsInjective(msgs[j].results)
          /\ \A j, k \in Answering(msgs, i) :
                j # k => Range(msgs[j].results) \cap Range(msgs[k].results) = {}
          /\ UNION {Range(msgs[j].results) : j \in Answering(msgs, i)} = Range(msgs[i].calls)
    /\ \A j \in DOMAIN msgs : IsTool(msgs[j]) =>
          \E i \in 1 .. j - 1 : msgs[i].role = "assistant" /\ j \in Answering(msgs, i)
===============================================================================
