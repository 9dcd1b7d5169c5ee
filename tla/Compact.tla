-------------------------------- MODULE Compact --------------------------------
(***************************************************************************)
(* The cut rule of llms/toolloop/compact: which messages of a transcript   *)
(* KeepLast and Summarize keep.  A cut is a number of messages: cut after  *)
(* the first k.                                                            *)
(***************************************************************************)
EXTENDS Transcript

IsUser(m) == m.role = "user"

\* Mutant: a summary is taken for a prompt.
IsSummaryNever(m) == IsUser(m) /\ m.tag = "none"

IsSummary(m) == IsUser(m) /\ m.tag = SummaryTag

IsPrompt(m) == IsUser(m) /\ ~IsSummary(m)

\* Everything through the first user message.
HeadLen(msgs) ==
    LET users == {i \in DOMAIN msgs : IsUser(msgs[i])}
    IN  IF users = {} THEN Len(msgs) ELSE Min(users)

\* Mutant: a turn starts after its calls.
TurnStartLate(msgs, i) == i

\* The cut before the turn of the assistant message i: the user messages just
\* before it belong to it.
TurnStart(msgs, i) ==
    Min({k \in HeadLen(msgs) .. i - 1 : \A j \in k + 1 .. i - 1 : IsUser(msgs[j])})

Turns(msgs) == {i \in HeadLen(msgs) + 1 .. Len(msgs) : msgs[i].role = "assistant"}

\* The trailing user messages, not yet answered, are kept when no turn is.
Unanswered(msgs) ==
    Min({k \in HeadLen(msgs) .. Len(msgs) : \A j \in k + 1 .. Len(msgs) : IsUser(msgs[j])})

Cut(msgs, keep) ==
    LET turns == Turns(msgs)
        later(i) == Cardinality({j \in turns : j > i})
    IN  IF keep = 0 THEN Unanswered(msgs)
        ELSE IF Cardinality(turns) <= keep THEN HeadLen(msgs)
        ELSE TurnStart(msgs, CHOOSE i \in turns : later(i) = keep - 1)

\* The in-flight prompt, as the cuts before and after it: the last run of
\* prompts after the head, unless the transcript ends with an answer to it.
InFlight(msgs) ==
    LET head == HeadLen(msgs)
        end == Max({head} \cup {i \in head + 1 .. Len(msgs) : IsPrompt(msgs[i])})
        pin == Min({k \in head .. end : \A j \in k + 1 .. end : IsPrompt(msgs[j])})
    IN  IF msgs = <<>> \/ Last(msgs).role = "assistant"
        THEN [pin |-> head, end |-> head]
        ELSE [pin |-> pin, end |-> end]

\* Mutant: the in-flight prompt is dropped with the turns before the cut.
PinnedNone(msgs, keep) == [pin |-> Cut(msgs, keep), end |-> Cut(msgs, keep)]

\* The prompt is lifted out when it lies before the cut.
Pinned(msgs, keep) ==
    LET cut == Cut(msgs, keep)
        prompt == InFlight(msgs)
    IN  IF prompt.pin < prompt.end /\ prompt.end <= cut
        THEN prompt
        ELSE [pin |-> cut, end |-> cut]

Drops(msgs, keep) ==
    Cut(msgs, keep) - HeadLen(msgs) > Pinned(msgs, keep).end - Pinned(msgs, keep).pin

\* What is kept: the head, what is inserted, the in-flight prompt and the last
\* turns.
Spliced(msgs, keep, insert) ==
    LET p == Pinned(msgs, keep)
    IN  SubSeq(msgs, 1, HeadLen(msgs)) \o insert \o SubSeq(msgs, p.pin + 1, p.end)
            \o SubSeq(msgs, Cut(msgs, keep) + 1, Len(msgs))

\* Mutant: the reasoning after the edit is kept.
KeptWithReasoning(msgs, keep, insert) == Spliced(msgs, keep, insert)

Kept(msgs, keep, insert) == WithoutReasoning(Spliced(msgs, keep, insert))
===============================================================================
