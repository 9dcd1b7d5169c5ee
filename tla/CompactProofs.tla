----------------------------- MODULE CompactProofs -----------------------------
(***************************************************************************)
(* Proofs about the transcript check and the cut rule, for transcripts of  *)
(* any length: what ValidateMessages accepts is well formed, and what a    *)
(* compaction keeps of an accepted transcript is accepted.                 *)
(*                                                                         *)
(* The lemmas go by induction over the messages of a transcript.  A fact   *)
(* to be proved for every number is stated as a set of numbers.            *)
(***************************************************************************)
EXTENDS Compact, FiniteSetTheorems, TLAPS

-----------------------------------------------------------------------------
(***************************************************************************)
(* Numbers                                                                 *)
(***************************************************************************)

\* A set of numbers that is not empty has a least element.
LEMMA LeastElement ==
    ASSUME NEW T \in SUBSET Nat, T # {}
    PROVE  \E x \in T : \A y \in T : x <= y
<1> DEFINE R == {ss \in Nat \X Nat : ss[1] < ss[2]}
<1>1. IsWellFoundedOn(R, Nat)
    BY NatLessThanWellFounded DEF OpToRel
<1>2. PICK x \in T : \A y \in T : ~ (<<y, x>> \in R)
  <2> HIDE DEF R
  <2> QED
      BY <1>1, WFMin
<1>3. \A y \in T : ~ (y < x)
    BY <1>2
<1> QED
    BY <1>3

\* Induction: a set with 0 and with the successor of each of its numbers has
\* them all.
LEMMA Induction ==
    ASSUME NEW T, 0 \in T, \A n \in Nat : n \in T => n + 1 \in T
    PROVE  Nat \subseteq T
<1> SUFFICES ASSUME Nat \ T # {} PROVE FALSE
    OBVIOUS
<1>1. PICK x \in Nat \ T : \A y \in Nat \ T : x <= y
    BY LeastElement
<1>2. x # 0 /\ x - 1 \in Nat /\ ~ (x <= x - 1)
    BY <1>1
<1>3. x - 1 \in T
    BY <1>1, <1>2
<1>4. (x - 1) + 1 = x
    BY <1>1
<1> QED
    BY <1>1, <1>2, <1>3, <1>4

\* Induction over a stretch of numbers.
LEMMA StretchInduction ==
    ASSUME NEW T, NEW a \in Nat, NEW b \in Nat, a \in T,
           \A n \in a .. b - 1 : n \in T => n + 1 \in T
    PROVE  \A n \in a .. b : n \in T
<1> DEFINE S == {k \in Nat : a + k <= b => a + k \in T}
<1>1. 0 \in S
    OBVIOUS
<1>2. ASSUME NEW k \in Nat, k \in S PROVE k + 1 \in S
  <2>1. CASE a + (k + 1) <= b
    <3>1. a + k \in a .. b - 1 /\ a + k \in T /\ (a + k) + 1 = a + (k + 1)
        BY <1>2, <2>1
    <3>2. a + (k + 1) \in T
        BY <3>1
    <3> QED
        BY <3>2
  <2>2. CASE ~ (a + (k + 1) <= b)
      BY <2>2
  <2> QED
      BY <2>1, <2>2
<1> HIDE DEF S
<1>3. Nat \subseteq S
    BY <1>1, <1>2, Induction
<1> SUFFICES ASSUME NEW n \in a .. b PROVE n \in T
    OBVIOUS
<1>4. n - a \in Nat /\ a + (n - a) = n /\ n <= b
    OBVIOUS
<1>5. n - a \in S
    BY <1>3, <1>4
<1> QED
    BY <1>4, <1>5 DEF S

\* Min of numbers.
LEMMA MinNat ==
    ASSUME NEW S \in SUBSET Nat, S # {}
    PROVE  Min(S) \in S /\ \A y \in S : Min(S) <= y
BY LeastElement DEF Min

\* Max of numbers that stay below a bound.
LEMMA MaxNat ==
    ASSUME NEW S \in SUBSET Nat, S # {}, NEW b \in Nat, \A y \in S : y <= b
    PROVE  Max(S) \in S /\ \A y \in S : y <= Max(S)
<1> DEFINE U == {n \in Nat : \A y \in S : y <= n}
<1>1. U \in SUBSET Nat /\ U # {}
    OBVIOUS
<1>2. PICK n \in U : \A m \in U : n <= m
    BY <1>1, LeastElement
<1>3. n \in S
  <2> SUFFICES ASSUME n \notin S PROVE FALSE
      OBVIOUS
  <2>1. \A y \in S : y <= n - 1 /\ n - 1 \in Nat
      BY <1>2
  <2>2. n - 1 \in U
      BY <2>1
  <2> QED
      BY <1>2, <2>2
<1>4. \E x \in S : \A y \in S : x >= y
    BY <1>2, <1>3
<1>5. Max(S) \in S /\ \A y \in S : Max(S) >= y
    BY <1>4 DEF Max
<1> QED
    BY <1>5

-----------------------------------------------------------------------------
(***************************************************************************)
(* Transcripts                                                             *)
(***************************************************************************)

Transcripts == Seq(MessageType)

\* The messages of a transcript and their parts.
LEMMA MessageParts ==
    ASSUME NEW msgs \in Transcripts, NEW i \in DOMAIN msgs
    PROVE  /\ msgs[i] \in MessageType
           /\ i \in 1 .. Len(msgs)
           /\ msgs[i].calls \in Seq(STRING)
           /\ msgs[i].results \in Seq(STRING)
<1>1. i \in 1 .. Len(msgs)
    BY DEF Transcripts
<1>2. msgs[i] \in MessageType
    BY <1>1 DEF Transcripts
<1> QED
    BY <1>1, <1>2 DEF MessageType

\* The scan is the one its definition describes.
LEMMA PendingUnfolds ==
    ASSUME NEW msgs \in Transcripts
    PROVE  Pending(msgs) = [n \in 0 .. Len(msgs) |->
               IF n = 0 THEN {} ELSE PendingAfter(Pending(msgs)[n - 1], msgs[n])]
<1> DEFINE Rule(g, k) == [n \in 0 .. k |->
               IF n = 0 THEN {} ELSE PendingAfter(g[n - 1], msgs[n])]
           T == {k \in Nat : \E g : g = Rule(g, k)}
<1>1. 0 \in T
  <2> DEFINE g == [n \in 0 .. 0 |-> {}]
  <2>1. g = Rule(g, 0)
      OBVIOUS
  <2> QED
      BY <2>1, Zenon
<1>2. ASSUME NEW k \in Nat, k \in T PROVE k + 1 \in T
  <2>1. PICK g : g = Rule(g, k)
      BY <1>2
  <2> DEFINE h == [n \in 0 .. k + 1 |->
                      IF n = k + 1 THEN PendingAfter(g[k], msgs[k + 1]) ELSE g[n]]
  <2>2. \A n \in 0 .. k : h[n] = g[n]
      OBVIOUS
  <2>3. ASSUME NEW n \in 0 .. k + 1
        PROVE  h[n] = IF n = 0 THEN {} ELSE PendingAfter(h[n - 1], msgs[n])
    <3>1. CASE n = k + 1
        BY <2>2, <3>1
    <3>2. CASE n \in 0 .. k
      <4>1. g[n] = IF n = 0 THEN {} ELSE PendingAfter(g[n - 1], msgs[n])
          BY <2>1, <3>2
      <4>2. n # 0 => n - 1 \in 0 .. k
          BY <3>2
      <4> QED
          BY <2>2, <3>2, <4>1, <4>2
    <3> QED
        BY <3>1, <3>2
  <2>4. h = Rule(h, k + 1)
    <3> HIDE DEF h
    <3>1. h = [n \in 0 .. k + 1 |-> h[n]]
        BY DEF h
    <3> QED
        BY <2>3, <3>1
  <2>5. \E f : f = Rule(f, k + 1)
      BY <2>4, Zenon
  <2>6. k + 1 \in Nat
      OBVIOUS
  <2> QED
      BY <2>5, <2>6, Zenon
<1> HIDE DEF T, Rule
<1>3. Nat \subseteq T
    BY <1>1, <1>2, Induction
<1>4. Len(msgs) \in Nat
    BY DEF Transcripts
<1>5. PICK g : g = Rule(g, Len(msgs))
    BY <1>3, <1>4 DEF T
<1>6. Pending(msgs) = CHOOSE f : f = Rule(f, Len(msgs))
    BY Zenon DEF Pending, Rule
<1>7. Pending(msgs) = Rule(Pending(msgs), Len(msgs))
    BY <1>5, <1>6, Zenon
<1> QED
    BY <1>7, Zenon DEF Rule

\* The scan, message by message.
LEMMA PendingSteps ==
    ASSUME NEW msgs \in Transcripts
    PROVE  /\ Pending(msgs)[0] = {}
           /\ \A n \in DOMAIN msgs :
                 Pending(msgs)[n] = PendingAfter(Pending(msgs)[n - 1], msgs[n])
<1> DEFINE p == Pending(msgs)
<1>1. p = [n \in 0 .. Len(msgs) |->
               IF n = 0 THEN {} ELSE PendingAfter(p[n - 1], msgs[n])]
    BY PendingUnfolds
<1> HIDE DEF p
<1>2. Len(msgs) \in Nat /\ DOMAIN msgs = 1 .. Len(msgs)
    BY DEF Transcripts
<1>3. 0 \in 0 .. Len(msgs) /\ \A n \in 1 .. Len(msgs) : n \in 0 .. Len(msgs) /\ n # 0
    BY <1>2
<1>4. p[0] = {}
    BY <1>1, <1>3
<1>5. \A n \in 1 .. Len(msgs) : p[n] = PendingAfter(p[n - 1], msgs[n])
    BY <1>1, <1>3
<1> QED
    BY <1>2, <1>4, <1>5 DEF p

\* What the check has made sure of each message.
LEMMA ValidSteps ==
    ASSUME NEW msgs \in Transcripts, ValidateMessages(msgs)
    PROVE  /\ Len(msgs) \in Nat \ {0} /\ DOMAIN msgs = 1 .. Len(msgs)
           /\ Pending(msgs)[0] = {} /\ Pending(msgs)[Len(msgs)] = {}
           /\ \A n \in 1 .. Len(msgs) :
                 /\ msgs[n] \in MessageType
                 /\ HasNonReasoning(msgs[n]) /\ PartsLegal(msgs[n])
                 /\ Pairs(Pending(msgs)[n - 1], msgs[n])
                 /\ Pending(msgs)[n] = PendingAfter(Pending(msgs)[n - 1], msgs[n])
<1>1. msgs # <<>> /\ msgs \in Seq(MessageType)
    BY DEF Transcripts, ValidateMessages
<1>2. Len(msgs) \in Nat \ {0} /\ DOMAIN msgs = 1 .. Len(msgs)
    BY <1>1
<1>3. \A n \in 1 .. Len(msgs) : msgs[n] \in MessageType
    BY <1>1, <1>2
<1> QED
    BY <1>2, <1>3, PendingSteps DEF ValidateMessages

\* A message of the user, or of the assistant, comes when nothing is pending.
LEMMA NothingPendingBefore ==
    ASSUME NEW msgs \in Transcripts, ValidateMessages(msgs),
           NEW n \in 1 .. Len(msgs), ~IsTool(msgs[n])
    PROVE  Pending(msgs)[n - 1] = {}
BY ValidSteps DEF Pairs, IsTool

\* No result settles anything after a message of the user.
LEMMA NothingPendingAfterUser ==
    ASSUME NEW msgs \in Transcripts, ValidateMessages(msgs),
           NEW n \in 1 .. Len(msgs), IsUser(msgs[n])
    PROVE  Pending(msgs)[n] = {}
<1>1. Pending(msgs)[n - 1] = {}
    BY NothingPendingBefore DEF IsUser, IsTool
<1>2. Pending(msgs)[n] = Pending(msgs)[n - 1] \ Range(msgs[n].results)
    BY ValidSteps DEF PendingAfter, IsUser
<1> QED
    BY <1>1, <1>2

\* Calls are pending only in a turn: between an assistant message and the
\* last tool message that follows it directly.
LEMMA PendingInTurn ==
    ASSUME NEW msgs \in Transcripts, ValidateMessages(msgs),
           NEW n \in 0 .. Len(msgs), Pending(msgs)[n] # {}
    PROVE  \E i \in 1 .. n : /\ msgs[i].role = "assistant"
                             /\ \A k \in i + 1 .. n : IsTool(msgs[k])
<1> DEFINE p == Pending(msgs)
           Open(m) == \E i \in 1 .. m : /\ msgs[i].role = "assistant"
                                        /\ \A k \in i + 1 .. m : IsTool(msgs[k])
           T == {m \in Nat : p[m] # {} => Open(m)}
<1>1. 0 \in T
    BY ValidSteps
<1>2. ASSUME NEW m \in 0 .. Len(msgs) - 1, m \in T PROVE m + 1 \in T
  <2>a. m + 1 \in 1 .. Len(msgs) /\ (m + 1) - 1 = m /\ m + 1 \in Nat /\ m \in Nat
      BY ValidSteps
  <2>1. /\ Pairs(p[m], msgs[m + 1])
        /\ p[m + 1] = PendingAfter(p[m], msgs[m + 1])
      BY <2>a, ValidSteps
  <2> HIDE DEF p
  <2>2. CASE msgs[m + 1].role = "assistant"
    <3>1. \A k \in (m + 1) + 1 .. m + 1 : FALSE
        BY <2>a
    <3> QED
        BY <2>2, <2>a, <3>1
  <2>3. CASE msgs[m + 1].role # "assistant" /\ p[m + 1] # {}
    <3>1. p[m] # {}
        BY <2>1, <2>3 DEF PendingAfter
    <3>2. IsTool(msgs[m + 1])
        BY <2>1, <2>3, <3>1 DEF Pairs, IsTool
    <3>3. PICK i \in 1 .. m : /\ msgs[i].role = "assistant"
                              /\ \A k \in i + 1 .. m : IsTool(msgs[k])
        BY <1>2, <3>1
    <3>4. i \in 1 .. m + 1 /\ \A k \in i + 1 .. m + 1 : IsTool(msgs[k])
      <4>1. \A k \in i + 1 .. m + 1 : k \in i + 1 .. m \/ k = m + 1
          BY <2>a
      <4> QED
          BY <2>a, <3>2, <3>3, <4>1
    <3> QED
        BY <2>a, <3>3, <3>4
  <2> QED
      BY <2>a, <2>2, <2>3
<1> HIDE DEF T
<1>3. \A m \in 0 .. Len(msgs) : m \in T
  <2>1. Len(msgs) \in Nat /\ 0 \in Nat
      BY ValidSteps
  <2> QED
      BY <1>1, <1>2, <2>1, StretchInduction
<1> QED
    BY <1>3 DEF T

\* In the turn of the assistant message i, what is pending are its calls but
\* those answered so far.
LEMMA PendingOfTurn ==
    ASSUME NEW msgs \in Transcripts, ValidateMessages(msgs),
           NEW i \in 1 .. Len(msgs), msgs[i].role = "assistant",
           NEW n \in i .. Len(msgs), \A k \in i + 1 .. n : IsTool(msgs[k])
    PROVE  Pending(msgs)[n] =
               Range(msgs[i].calls) \ UNION {Range(msgs[j].results) : j \in i + 1 .. n}
<1> DEFINE p == Pending(msgs)
           Given(m) == UNION {Range(msgs[j].results) : j \in i + 1 .. m}
           T == {m \in Nat : (\A k \in i + 1 .. m : IsTool(msgs[k]))
                                 => p[m] = Range(msgs[i].calls) \ Given(m)}
<1>a. Len(msgs) \in Nat /\ i \in Nat
    BY ValidSteps
<1>1. i \in T
  <2>1. p[i] = Range(msgs[i].calls)
      BY ValidSteps DEF PendingAfter
  <2>2. i + 1 .. i = {}
      BY <1>a
  <2>3. Given(i) = {}
      BY <2>2
  <2> QED
      BY <1>a, <2>1, <2>3
<1>2. ASSUME NEW m \in i .. Len(msgs) - 1, m \in T PROVE m + 1 \in T
  <2>a. m + 1 \in 1 .. Len(msgs) /\ (m + 1) - 1 = m /\ m + 1 \in Nat /\ m \in Nat
      BY <1>a
  <2> SUFFICES ASSUME \A k \in i + 1 .. m + 1 : IsTool(msgs[k])
               PROVE  p[m + 1] = Range(msgs[i].calls) \ Given(m + 1)
      BY <2>a
  <2>1. (\A k \in i + 1 .. m : k \in i + 1 .. m + 1) /\ m + 1 \in i + 1 .. m + 1
      BY <1>a
  <2>2. p[m] = Range(msgs[i].calls) \ Given(m)
      BY <1>2, <2>1
  <2>3. p[m + 1] = p[m] \ Range(msgs[m + 1].results)
    <3>1. IsTool(msgs[m + 1])
        BY <2>1
    <3>2. p[m + 1] = PendingAfter(p[m], msgs[m + 1])
        BY <2>a, ValidSteps
    <3> QED
        BY <3>1, <3>2 DEF PendingAfter, IsTool
  <2>4. Given(m + 1) = Given(m) \cup Range(msgs[m + 1].results)
    <3>1. i + 1 .. m + 1 = (i + 1 .. m) \cup {m + 1}
        BY <1>a, <2>a
    <3> QED
        BY <3>1
  <2> HIDE DEF p, Given
  <2> QED
      BY <2>2, <2>3, <2>4
<1> HIDE DEF T
<1>3. \A m \in i .. Len(msgs) : m \in T
    BY <1>1, <1>2, <1>a, StretchInduction
<1> QED
    BY <1>3 DEF T

-----------------------------------------------------------------------------
(***************************************************************************)
(* The check is sound                                                      *)
(***************************************************************************)

\* A turn ends: with the transcript, or with a message that is no result.
LEMMA TurnEnds ==
    ASSUME NEW msgs \in Transcripts, NEW i \in DOMAIN msgs
    PROVE  \E n \in i .. Len(msgs) :
              /\ Answering(msgs, i) = i + 1 .. n
              /\ n < Len(msgs) => ~IsTool(msgs[n + 1])
<1> DEFINE S == {n \in i .. Len(msgs) : n < Len(msgs) => ~IsTool(msgs[n + 1])}
<1>a. Len(msgs) \in Nat /\ i \in 1 .. Len(msgs)
    BY DEF Transcripts
<1>1. S \in SUBSET Nat /\ Len(msgs) \in S
    BY <1>a
<1>2. PICK n \in S : \A m \in S : n <= m
    BY <1>1, LeastElement
<1>3. \A k \in i + 1 .. n : IsTool(msgs[k])
  <2> SUFFICES ASSUME NEW k \in i + 1 .. n, ~IsTool(msgs[k]) PROVE FALSE
      OBVIOUS
  <2>1. k - 1 \in i .. Len(msgs) /\ (k - 1) + 1 = k /\ ~ (n <= k - 1)
      BY <1>a, <1>2
  <2>2. k - 1 \in S
      BY <2>1
  <2> QED
      BY <1>2, <2>1, <2>2
<1>4. Answering(msgs, i) = i + 1 .. n
  <2>1. ASSUME NEW j \in i + 1 .. n PROVE j \in Answering(msgs, i)
    <3>1. j \in i + 1 .. Len(msgs) /\ \A k \in i + 1 .. j : k \in i + 1 .. n
        BY <1>a, <1>2, <2>1
    <3> QED
        BY <1>3, <3>1 DEF Answering
  <2>2. ASSUME NEW j \in Answering(msgs, i) PROVE j \in i + 1 .. n
    <3> SUFFICES ASSUME j \notin i + 1 .. n PROVE FALSE
        OBVIOUS
    <3>1. j \in i + 1 .. Len(msgs) /\ \A k \in i + 1 .. j : IsTool(msgs[k])
        BY DEF Answering
    <3>2. n + 1 \in i + 1 .. j /\ n < Len(msgs)
        BY <1>a, <1>2, <3>1
    <3> QED
        BY <1>2, <3>1, <3>2
  <2> QED
      BY <2>1, <2>2
<1> QED
    BY <1>2, <1>4

\* In an accepted transcript the results of a turn are those of its calls,
\* each once.
LEMMA TurnAnswered ==
    ASSUME NEW msgs \in Transcripts, ValidateMessages(msgs),
           NEW i \in DOMAIN msgs, msgs[i].role = "assistant"
    PROVE  /\ IsInjective(msgs[i].calls)
           /\ \A j \in Answering(msgs, i) : IsInjective(msgs[j].results)
           /\ \A j, k \in Answering(msgs, i) :
                 j # k => Range(msgs[j].results) \cap Range(msgs[k].results) = {}
           /\ UNION {Range(msgs[j].results) : j \in Answering(msgs, i)} = Range(msgs[i].calls)
<1> DEFINE p == Pending(msgs)
           Given(m) == UNION {Range(msgs[j].results) : j \in i + 1 .. m}
<1>a. Len(msgs) \in Nat /\ i \in 1 .. Len(msgs)
    BY ValidSteps
<1>1. PICK n \in i .. Len(msgs) :
          /\ Answering(msgs, i) = i + 1 .. n
          /\ n < Len(msgs) => ~IsTool(msgs[n + 1])
    BY TurnEnds
<1>2. \A j \in i + 1 .. n : \A k \in i + 1 .. j : IsTool(msgs[k])
    BY <1>1 DEF Answering
<1>3. ASSUME NEW j \in i + 1 .. n
      PROVE  /\ j \in 1 .. Len(msgs)
             /\ IsInjective(msgs[j].results)
             /\ Range(msgs[j].results) \subseteq Range(msgs[i].calls) \ Given(j - 1)
  <2>1. /\ j \in 1 .. Len(msgs) /\ j - 1 \in i .. Len(msgs)
        /\ j \in i + 1 .. j /\ \A k \in i + 1 .. j - 1 : k \in i + 1 .. j
      BY <1>a, <1>1
  <2>2. IsTool(msgs[j]) /\ \A k \in i + 1 .. j - 1 : IsTool(msgs[k])
      BY <1>2, <2>1
  <2>3. IsInjective(msgs[j].results) /\ Range(msgs[j].results) \subseteq p[j - 1]
      BY <2>1, <2>2, ValidSteps DEF Pairs, IsTool
  <2>4. p[j - 1] = Range(msgs[i].calls) \ Given(j - 1)
      BY <1>a, <2>1, <2>2, PendingOfTurn
  <2> QED
      BY <2>1, <2>3, <2>4
<1>4. p[n] = Range(msgs[i].calls) \ Given(n)
  <2>1. n = i \/ n \in i + 1 .. n
      BY <1>a, <1>1
  <2>2. \A k \in i + 1 .. n : IsTool(msgs[k])
      BY <1>2, <1>a, <1>1
  <2> QED
      BY <1>a, <1>1, <2>2, PendingOfTurn
<1>5. p[n] = {}
  <2>1. CASE n = Len(msgs)
      BY <2>1, ValidSteps
  <2>2. CASE n < Len(msgs)
    <3>1. n + 1 \in 1 .. Len(msgs) /\ (n + 1) - 1 = n
        BY <1>a, <1>1, <2>2
    <3> QED
        BY <1>1, <2>2, <3>1, NothingPendingBefore
  <2> QED
      BY <1>a, <1>1, <2>1, <2>2
<1>6. IsInjective(msgs[i].calls)
    BY <1>a, ValidSteps DEF Pairs
<1>7. ASSUME NEW j \in i + 1 .. n, NEW k \in i + 1 .. n, j < k
      PROVE  Range(msgs[j].results) \cap Range(msgs[k].results) = {}
  <2>1. j \in i + 1 .. k - 1
      BY <1>a, <1>1, <1>7
  <2>2. Range(msgs[j].results) \subseteq Given(k - 1)
      BY <2>1
  <2>3. Range(msgs[k].results) \cap Given(k - 1) = {}
      BY <1>3
  <2> HIDE DEF Given
  <2> QED
      BY <2>2, <2>3
<1>8. \A j, k \in i + 1 .. n :
          j # k => Range(msgs[j].results) \cap Range(msgs[k].results) = {}
  <2> SUFFICES ASSUME NEW j \in i + 1 .. n, NEW k \in i + 1 .. n, j # k
               PROVE  Range(msgs[j].results) \cap Range(msgs[k].results) = {}
      OBVIOUS
  <2>1. j < k \/ k < j
      BY <1>a, <1>1
  <2> QED
      BY <1>7, <2>1
<1>9. Given(n) = Range(msgs[i].calls)
  <2>1. Given(n) \subseteq Range(msgs[i].calls)
      BY <1>3
  <2>2. Range(msgs[i].calls) \subseteq Given(n)
      BY <1>4, <1>5
  <2> HIDE DEF Given
  <2> QED
      BY <2>1, <2>2
<1> QED
    BY <1>1, <1>3, <1>6, <1>8, <1>9

\* Whatever ValidateMessages accepts, of any length, answers every call
\* exactly once before anything else is said, and nothing else.
THEOREM ValidIsWellFormed ==
    ASSUME NEW msgs \in Transcripts, ValidateMessages(msgs)
    PROVE  WellFormed(msgs)
<1>1. msgs # <<>> /\ \A i \in DOMAIN msgs : HasNonReasoning(msgs[i]) /\ PartsLegal(msgs[i])
    BY DEF ValidateMessages
<1>2. ASSUME NEW j \in DOMAIN msgs, IsTool(msgs[j])
      PROVE  \E i \in 1 .. j - 1 : msgs[i].role = "assistant" /\ j \in Answering(msgs, i)
  <2>1. j \in 1 .. Len(msgs) /\ Len(msgs) \in Nat /\ j - 1 \in 0 .. Len(msgs)
      BY ValidSteps
  <2>2. Pending(msgs)[j - 1] # {}
    <3>1. /\ msgs[j].results # <<>> /\ msgs[j].results \in Seq(STRING)
          /\ Range(msgs[j].results) \subseteq Pending(msgs)[j - 1]
        BY <1>2, <2>1, ValidSteps, MessageParts
           DEF HasNonReasoning, PartsLegal, Pairs, IsTool
    <3>2. 1 \in DOMAIN msgs[j].results
        BY <3>1
    <3>3. Range(msgs[j].results) # {}
        BY <3>2 DEF Range
    <3> QED
        BY <3>1, <3>3
  <2>3. PICK i \in 1 .. j - 1 : /\ msgs[i].role = "assistant"
                                /\ \A k \in i + 1 .. j - 1 : IsTool(msgs[k])
      BY <2>1, <2>2, PendingInTurn
  <2>4. \A k \in i + 1 .. j : k \in i + 1 .. j - 1 \/ k = j
      BY <2>1
  <2>5. j \in i + 1 .. Len(msgs) /\ \A k \in i + 1 .. j : IsTool(msgs[k])
      BY <1>2, <2>1, <2>3, <2>4
  <2> QED
      BY <2>3, <2>5 DEF Answering
<1> QED
    BY <1>1, <1>2, TurnAnswered DEF WellFormed

-----------------------------------------------------------------------------
(***************************************************************************)
(* Parts of accepted transcripts                                           *)
(***************************************************************************)

\* Two messages the check does not tell apart, but that x may lack reasoning
\* that y has.
Alike(x, y) ==
    /\ x.role = y.role /\ x.text = y.text /\ x.calls = y.calls /\ x.results = y.results
    /\ x.reasoning # NoReasoning => y.reasoning # NoReasoning
    /\ x.reasoning = Unowned => y.reasoning = Unowned

\* What the check wants of each message and of the last.
Passes(msgs) ==
    /\ \A n \in 1 .. Len(msgs) :
          /\ HasNonReasoning(msgs[n]) /\ PartsLegal(msgs[n])
          /\ Pairs(Pending(msgs)[n - 1], msgs[n])
    /\ Pending(msgs)[Len(msgs)] = {}

LEMMA ValidIsPassing ==
    ASSUME NEW msgs \in Transcripts
    PROVE  ValidateMessages(msgs) <=> msgs # <<>> /\ Passes(msgs)
<1>1. DOMAIN msgs = 1 .. Len(msgs)
    BY DEF Transcripts
<1> QED
    BY <1>1 DEF ValidateMessages, Passes

\* The scans of u after a and of v after b agree, and the next n messages of
\* each are alike.
StretchesAlike(u, a, v, b, n) ==
    /\ a \in Nat /\ b \in Nat /\ n \in Nat /\ a + n <= Len(u) /\ b + n <= Len(v)
    /\ Pending(u)[a] = Pending(v)[b]
    /\ \A k \in 1 .. n : Alike(u[a + k], v[b + k])

\* Two scans that have the same calls pending at some point keep agreeing on
\* what follows, as long as the messages are alike.
LEMMA ScansAgree ==
    ASSUME NEW u \in Transcripts, NEW v \in Transcripts, NEW a, NEW b, NEW n,
           StretchesAlike(u, a, v, b, n)
    PROVE  \A k \in 0 .. n : Pending(u)[a + k] = Pending(v)[b + k]
<1> DEFINE p == Pending(u)
           q == Pending(v)
           T == {k \in Nat : p[a + k] = q[b + k]}
<1>a. a \in Nat /\ b \in Nat /\ n \in Nat /\ a + n <= Len(u) /\ b + n <= Len(v)
    BY DEF StretchesAlike
<1>1. 0 \in T
    BY <1>a DEF StretchesAlike
<1>2. ASSUME NEW k \in 0 .. n - 1, k \in T PROVE k + 1 \in T
  <2>1. /\ Len(u) \in Nat /\ DOMAIN u = 1 .. Len(u) /\ Len(v) \in Nat /\ DOMAIN v = 1 .. Len(v)
      BY DEF Transcripts
  <2>2. /\ k + 1 \in 1 .. n /\ a + (k + 1) \in DOMAIN u /\ b + (k + 1) \in DOMAIN v
        /\ (a + (k + 1)) - 1 = a + k /\ (b + (k + 1)) - 1 = b + k
      BY <1>a, <2>1
  <2>3. /\ p[a + (k + 1)] = PendingAfter(p[a + k], u[a + (k + 1)])
        /\ q[b + (k + 1)] = PendingAfter(q[b + k], v[b + (k + 1)])
      BY <2>2, PendingSteps
  <2>4. Alike(u[a + (k + 1)], v[b + (k + 1)])
      BY <2>2 DEF StretchesAlike
  <2>5. p[a + k] = q[b + k]
      BY <1>2
  <2> HIDE DEF p, q
  <2>6. p[a + (k + 1)] = q[b + (k + 1)]
      BY <2>3, <2>4, <2>5 DEF Alike, PendingAfter
  <2> QED
      BY <2>6, <2>2
<1> HIDE DEF T
<1>3. \A k \in 0 .. n : k \in T
    BY <1>a, <1>1, <1>2, StretchInduction
<1> QED
    BY <1>3 DEF T

\* What is wanted of a message is wanted of one alike.
LEMMA AlikeIsLegal ==
    ASSUME NEW x, NEW y, NEW pending, Alike(x, y)
    PROVE  /\ HasNonReasoning(y) => HasNonReasoning(x)
           /\ PartsLegal(y) => PartsLegal(x)
           /\ Pairs(pending, y) => Pairs(pending, x)
BY DEF Alike, HasNonReasoning, PartsLegal, Pairs

\* A transcript alike to one that passes passes.
LEMMA AlikePasses ==
    ASSUME NEW u \in Transcripts, NEW v \in Transcripts, Len(u) = Len(v), Passes(v),
           \A k \in 1 .. Len(u) : Alike(u[k], v[k])
    PROVE  Passes(u)
<1>1. Len(u) \in Nat
    BY DEF Transcripts
<1>2. Pending(u)[0] = Pending(v)[0]
    BY PendingSteps
<1>3. StretchesAlike(u, 0, v, 0, Len(u))
    BY <1>1, <1>2 DEF StretchesAlike
<1>4. \A k \in 0 .. Len(u) : Pending(u)[k] = Pending(v)[k]
    BY <1>3, ScansAgree
<1>5. \A k \in 1 .. Len(u) : k - 1 \in 0 .. Len(u)
    BY <1>1
<1>6. ASSUME NEW n \in 1 .. Len(u)
      PROVE  /\ HasNonReasoning(u[n])
             /\ PartsLegal(u[n])
             /\ Pairs(Pending(u)[n - 1], u[n])
  <2>1. Pending(u)[n - 1] = Pending(v)[n - 1]
      BY <1>4, <1>5, Zenon
  <2>2. /\ HasNonReasoning(v[n])
        /\ PartsLegal(v[n])
        /\ Pairs(Pending(v)[n - 1], v[n])
      BY Zenon DEF Passes
  <2>3. Alike(u[n], v[n])
      OBVIOUS
  <2> QED
      BY <2>1, <2>2, <2>3, AlikeIsLegal, Zenon
<1>7. Len(u) \in 0 .. Len(u)
    BY <1>1
<1>8. Pending(u)[Len(u)] = {}
    BY <1>4, <1>7, Zenon DEF Passes
<1> QED
    BY <1>6, <1>8, Zenon DEF Passes

\* A stretch of a transcript that passes, from one point where nothing is
\* pending to another, passes.
LEMMA StretchPasses ==
    ASSUME NEW msgs \in Transcripts, Passes(msgs),
           NEW a \in 0 .. Len(msgs), NEW b \in a .. Len(msgs),
           Pending(msgs)[a] = {}, Pending(msgs)[b] = {}
    PROVE  SubSeq(msgs, a + 1, b) \in Transcripts /\ Passes(SubSeq(msgs, a + 1, b))
<1> DEFINE s == SubSeq(msgs, a + 1, b)
<1>a. PICK n \in Nat : n = b - a
    BY DEF Transcripts
<1>1. Len(msgs) \in Nat /\ a \in Nat /\ b \in Nat /\ n \in Nat /\ a + n = b
    BY <1>a DEF Transcripts
<1>2. s \in Transcripts /\ Len(s) = n /\ \A k \in 1 .. n : s[k] = msgs[a + k]
    BY <1>1 DEF Transcripts
<1> HIDE DEF s
<1>3. Pending(s)[0] = Pending(msgs)[a]
    BY <1>2, PendingSteps
<1>4. StretchesAlike(s, 0, msgs, a, n)
  <2>1. a + n <= Len(msgs) /\ 0 + n <= Len(s)
      BY <1>1, <1>2
  <2>2. \A k \in 1 .. n : Alike(s[0 + k], msgs[a + k])
      BY <1>2 DEF Alike
  <2> QED
      BY <1>1, <1>3, <2>1, <2>2, Zenon DEF StretchesAlike
<1>5. \A k \in 0 .. n : Pending(s)[k] = Pending(msgs)[a + k]
    BY <1>2, <1>4, ScansAgree
<1>6. ASSUME NEW k \in 1 .. Len(s)
      PROVE  /\ HasNonReasoning(s[k]) /\ PartsLegal(s[k])
             /\ Pairs(Pending(s)[k - 1], s[k])
  <2>1. /\ a + k \in 1 .. Len(msgs) /\ k - 1 \in 0 .. n
        /\ a + (k - 1) = (a + k) - 1 /\ k \in 1 .. n
      BY <1>1, <1>2
  <2>2. Pending(s)[k - 1] = Pending(msgs)[(a + k) - 1]
      BY <1>5, <2>1
  <2> QED
      BY <1>2, <2>1, <2>2 DEF Passes
<1>7. Pending(s)[Len(s)] = {}
  <2>1. n \in 0 .. n /\ a + n = b
      BY <1>1
  <2> QED
      BY <1>2, <1>5, <2>1
<1> QED
    BY <1>2, <1>6, <1>7 DEF Passes, s

\* The messages of one transcript after another.
LEMMA Together ==
    ASSUME NEW u \in Transcripts, NEW v \in Transcripts
    PROVE  /\ Len(u) \in Nat /\ Len(v) \in Nat
           /\ u \o v \in Transcripts /\ Len(u \o v) = Len(u) + Len(v)
           /\ \A k \in 1 .. Len(u) : (u \o v)[k] = u[k]
           /\ \A k \in 1 .. Len(v) : (u \o v)[Len(u) + k] = v[k]
<1> DEFINE s == u \o v
           a == Len(u)
           n == Len(v)
<1>1. a \in Nat /\ n \in Nat /\ s \in Transcripts /\ Len(s) = a + n
    BY DEF Transcripts
<1>2. \A k \in 1 .. a + n : s[k] = IF k <= a THEN u[k] ELSE v[k - a]
    BY <1>1 DEF Transcripts
<1>3. \A k \in 1 .. n : a + k \in 1 .. a + n /\ ~ (a + k <= a) /\ (a + k) - a = k
    BY <1>1
<1> HIDE DEF s
<1>4. \A k \in 1 .. a : s[k] = u[k]
    BY <1>1, <1>2
<1>5. \A k \in 1 .. n : s[a + k] = v[k]
    BY <1>1, <1>2, <1>3
<1> QED
    BY <1>1, <1>4, <1>5 DEF s

\* s is u and then v.
Joined(s, u, v) ==
    /\ Len(u) \in Nat /\ Len(v) \in Nat /\ s \in Transcripts
    /\ Len(s) = Len(u) + Len(v)
    /\ \A k \in 1 .. Len(u) : s[k] = u[k]
    /\ \A k \in 1 .. Len(v) : s[Len(u) + k] = v[k]

LEMMA TogetherIsJoined ==
    ASSUME NEW u \in Transcripts, NEW v \in Transcripts
    PROVE  Joined(u \o v, u, v) /\ u \o v \in Transcripts
BY Together, Zenon DEF Joined

\* Four transcripts one after the other.
LEMMA FourJoined ==
    ASSUME NEW a, NEW b, NEW c, NEW d, NEW ab, NEW abc, NEW s,
           Joined(ab, a, b), Joined(abc, ab, c), Joined(s, abc, d)
    PROVE  /\ s \in Transcripts /\ Len(s) = ((Len(a) + Len(b)) + Len(c)) + Len(d)
           /\ \A k \in 1 .. Len(a) : s[k] = a[k]
           /\ \A k \in 1 .. Len(b) : s[Len(a) + k] = b[k]
           /\ \A k \in 1 .. Len(c) : s[(Len(a) + Len(b)) + k] = c[k]
           /\ \A k \in 1 .. Len(d) : s[((Len(a) + Len(b)) + Len(c)) + k] = d[k]
<1>1. /\ Len(a) \in Nat /\ Len(b) \in Nat /\ Len(c) \in Nat /\ Len(d) \in Nat
      /\ Len(ab) = Len(a) + Len(b) /\ Len(abc) = Len(ab) + Len(c)
      /\ Len(s) = Len(abc) + Len(d) /\ s \in Transcripts
    BY DEF Joined
<1>2. /\ \A k \in 1 .. Len(a) : k \in 1 .. Len(ab) /\ k \in 1 .. Len(abc)
      /\ \A k \in 1 .. Len(b) : Len(a) + k \in 1 .. Len(ab) /\ Len(a) + k \in 1 .. Len(abc)
      /\ \A k \in 1 .. Len(c) : Len(ab) + k \in 1 .. Len(abc)
    BY <1>1
<1>3. \A k \in 1 .. Len(a) : s[k] = a[k]
    BY <1>2 DEF Joined
<1>4. \A k \in 1 .. Len(b) : s[Len(a) + k] = b[k]
    BY <1>2 DEF Joined
<1>5. \A k \in 1 .. Len(c) : s[Len(ab) + k] = c[k]
    BY <1>2 DEF Joined
<1>6. \A k \in 1 .. Len(d) : s[Len(abc) + k] = d[k]
    BY DEF Joined
<1> QED
    BY <1>1, <1>3, <1>4, <1>5, <1>6

\* One transcript that passes after another makes one that passes.
LEMMA TogetherPasses ==
    ASSUME NEW u \in Transcripts, NEW v \in Transcripts, Passes(u), Passes(v)
    PROVE  Passes(u \o v)
<1> DEFINE s == u \o v
           a == Len(u)
           n == Len(v)
<1>1. /\ a \in Nat /\ n \in Nat /\ s \in Transcripts /\ Len(s) = a + n
      /\ \A k \in 1 .. a : s[k] = u[k]
      /\ \A k \in 1 .. n : s[a + k] = v[k]
    BY Together
<1> HIDE DEF s
<1>2. \A k \in 0 .. a : Pending(s)[k] = Pending(u)[k]
  <2>1. Pending(s)[0] = Pending(u)[0]
      BY <1>1, PendingSteps
  <2>2. StretchesAlike(s, 0, u, 0, a)
      BY <1>1, <2>1 DEF StretchesAlike, Alike
  <2> QED
      BY <1>1, <2>2, ScansAgree
<1>3. \A k \in 0 .. n : Pending(s)[a + k] = Pending(v)[k]
  <2>1. Pending(s)[a] = Pending(v)[0]
    <3>1. a \in 0 .. a /\ Pending(u)[a] = {} /\ Pending(v)[0] = {}
        BY <1>1, PendingSteps DEF Passes
    <3> QED
        BY <1>2, <3>1
  <2>2. StretchesAlike(s, a, v, 0, n)
      BY <1>1, <2>1 DEF StretchesAlike, Alike
  <2> QED
      BY <1>1, <2>2, ScansAgree
<1>4. ASSUME NEW k \in 1 .. Len(s)
      PROVE  /\ HasNonReasoning(s[k]) /\ PartsLegal(s[k])
             /\ Pairs(Pending(s)[k - 1], s[k])
  <2>1. CASE k \in 1 .. a
    <3>1. k - 1 \in 0 .. a
        BY <1>1, <2>1
    <3> QED
        BY <1>1, <1>2, <2>1, <3>1 DEF Passes
  <2>2. CASE k \notin 1 .. a
    <3>1. /\ k - a \in 1 .. n /\ a + (k - a) = k /\ (k - a) - 1 \in 0 .. n
          /\ a + ((k - a) - 1) = k - 1
        BY <1>1, <2>2
    <3>2. s[k] = v[k - a] /\ Pending(s)[k - 1] = Pending(v)[(k - a) - 1]
        BY <1>1, <1>3, <3>1
    <3> QED
        BY <3>1, <3>2 DEF Passes
  <2> QED
      BY <2>1, <2>2
<1>5. Pending(s)[Len(s)] = {}
  <2>1. n \in 0 .. n
      BY <1>1
  <2> QED
      BY <1>1, <1>3, <2>1 DEF Passes
<1> QED
    BY <1>1, <1>4, <1>5 DEF Passes, s

\* An edit leaves transcripts alike, message by message; a message without
\* reasoning is the same.
LEMMA EditedIsAlike ==
    ASSUME NEW msgs \in Transcripts
    PROVE  /\ Edited(msgs) \in Transcripts /\ Len(Edited(msgs)) = Len(msgs)
           /\ \A i \in 1 .. Len(msgs) :
                 /\ Alike(Edited(msgs)[i], msgs[i])
                 /\ msgs[i].reasoning = NoReasoning => Edited(msgs)[i] = msgs[i]
                 /\ Edited(msgs)[i].tag = msgs[i].tag
<1>1. DOMAIN msgs = 1 .. Len(msgs) /\ Len(msgs) \in Nat
    BY DEF Transcripts
<1>2. \A i \in 1 .. Len(msgs) : msgs[i] \in MessageType
    BY MessageParts, <1>1
<1>3. Edited(msgs) \in Transcripts /\ Len(Edited(msgs)) = Len(msgs)
  <2> DEFINE e(i) == IF msgs[i].reasoning = Bound
                     THEN [msgs[i] EXCEPT !.reasoning = Stale] ELSE msgs[i]
  <2>1. \A i \in 1 .. Len(msgs) : e(i) \in MessageType
      BY <1>2 DEF MessageType
  <2>2. Edited(msgs) = [i \in 1 .. Len(msgs) |-> e(i)]
      BY <1>1 DEF Edited
  <2> HIDE DEF e
  <2> QED
      BY <1>1, <2>1, <2>2 DEF Transcripts
<1>4. ASSUME NEW i \in 1 .. Len(msgs)
      PROVE  /\ Alike(Edited(msgs)[i], msgs[i])
             /\ msgs[i].reasoning = NoReasoning => Edited(msgs)[i] = msgs[i]
             /\ Edited(msgs)[i].tag = msgs[i].tag
  <2>1. Edited(msgs)[i] = IF msgs[i].reasoning = Bound
                          THEN [msgs[i] EXCEPT !.reasoning = Stale] ELSE msgs[i]
      BY <1>1 DEF Edited
  <2> QED
      BY <1>2, <2>1 DEF Alike, MessageType, NoReasoning, Bound, Stale, Unowned
<1> QED
    BY <1>3, <1>4

\* So does dropping all reasoning, which leaves none.
LEMMA WithoutReasoningIsAlike ==
    ASSUME NEW msgs \in Transcripts
    PROVE  /\ WithoutReasoning(msgs) \in Transcripts
           /\ Len(WithoutReasoning(msgs)) = Len(msgs)
           /\ \A i \in 1 .. Len(msgs) :
                 /\ Alike(WithoutReasoning(msgs)[i], msgs[i])
                 /\ WithoutReasoning(msgs)[i].reasoning = NoReasoning
                 /\ msgs[i].reasoning = NoReasoning => WithoutReasoning(msgs)[i] = msgs[i]
                 /\ WithoutReasoning(msgs)[i].tag = msgs[i].tag
<1>1. DOMAIN msgs = 1 .. Len(msgs) /\ Len(msgs) \in Nat
    BY DEF Transcripts
<1>2. \A i \in 1 .. Len(msgs) : msgs[i] \in MessageType
    BY MessageParts, <1>1
<1>3. /\ WithoutReasoning(msgs) \in Transcripts
      /\ Len(WithoutReasoning(msgs)) = Len(msgs)
  <2> DEFINE e(i) == [msgs[i] EXCEPT !.reasoning = NoReasoning]
  <2>1. \A i \in 1 .. Len(msgs) : e(i) \in MessageType
      BY <1>2 DEF MessageType
  <2>2. WithoutReasoning(msgs) = [i \in 1 .. Len(msgs) |-> e(i)]
      BY <1>1 DEF WithoutReasoning
  <2> HIDE DEF e
  <2> QED
      BY <1>1, <2>1, <2>2 DEF Transcripts
<1>4. ASSUME NEW i \in 1 .. Len(msgs)
      PROVE  /\ Alike(WithoutReasoning(msgs)[i], msgs[i])
             /\ WithoutReasoning(msgs)[i].reasoning = NoReasoning
             /\ msgs[i].reasoning = NoReasoning => WithoutReasoning(msgs)[i] = msgs[i]
             /\ WithoutReasoning(msgs)[i].tag = msgs[i].tag
  <2>1. WithoutReasoning(msgs)[i] = [msgs[i] EXCEPT !.reasoning = NoReasoning]
      BY <1>1 DEF WithoutReasoning
  <2>2. msgs[i] \in MessageType
      BY <1>2
  <2>3. msgs[i].reasoning = NoReasoning =>
            [msgs[i] EXCEPT !.reasoning = NoReasoning] = msgs[i]
      BY <2>2 DEF MessageType
  <2> QED
      BY <2>1, <2>2, <2>3 DEF Alike, MessageType, NoReasoning, Unowned
<1> QED
    BY <1>3, <1>4

LEMMA EditedPasses ==
    ASSUME NEW msgs \in Transcripts, Passes(msgs)
    PROVE  Passes(Edited(msgs)) /\ Passes(WithoutReasoning(msgs))
BY EditedIsAlike, WithoutReasoningIsAlike, AlikePasses

\* An answer of the model without calls may be appended.
LEMMA AnswerPasses ==
    ASSUME NEW msgs \in Transcripts, Passes(msgs), NEW m \in MessageType,
           m.role = "assistant", PartsLegal(m), HasNonReasoning(m), m.calls = <<>>
    PROVE  Append(msgs, m) \in Transcripts /\ Passes(Append(msgs, m))
<1> DEFINE s == <<m>>
<1>1. s \in Transcripts /\ Len(s) = 1 /\ s[1] = m /\ DOMAIN s = {1}
    BY DEF Transcripts
<1>2. Append(msgs, m) = msgs \o s
    BY DEF Transcripts
<1> HIDE DEF s
<1>3. Pending(s)[0] = {} /\ Pending(s)[1] = PendingAfter({}, m)
  <2>1. 1 \in DOMAIN s /\ 1 - 1 = 0
      BY <1>1
  <2>2. /\ Pending(s)[0] = {}
        /\ \A n \in DOMAIN s : Pending(s)[n] = PendingAfter(Pending(s)[n - 1], s[n])
      BY <1>1, PendingSteps
  <2>3. Pending(s)[1] = PendingAfter(Pending(s)[1 - 1], s[1])
      BY <2>1, <2>2, Zenon
  <2> QED
      BY <1>1, <2>1, <2>2, <2>3
<1>4. Range(m.calls) = {}
    BY DEF Range
<1>5. Passes(s)
  <2>1. Pairs({}, m)
      BY DEF Pairs, IsInjective
  <2>2. \A n \in 1 .. Len(s) : n = 1 /\ n - 1 = 0
      BY <1>1
  <2> QED
      BY <1>1, <1>3, <1>4, <2>1, <2>2 DEF Passes, PendingAfter
<1> QED
    BY <1>1, <1>2, <1>5, Together, TogetherPasses

\* So may a turn: calls with different ids and the results of all.
LEMMA TurnPasses ==
    ASSUME NEW msgs \in Transcripts, Passes(msgs), NEW m \in MessageType,
           m.role = "assistant", PartsLegal(m), m.calls # <<>>, IsInjective(m.calls)
    PROVE  /\ Append(Append(msgs, m), ToolMsg(m.calls)) \in Transcripts
           /\ Passes(Append(Append(msgs, m), ToolMsg(m.calls)))
<1> DEFINE t == ToolMsg(m.calls)
           s == <<m, t>>
<1>1. /\ t \in MessageType /\ t.role = "tool" /\ t.text = "none" /\ t.calls = <<>>
      /\ t.results = m.calls /\ t.reasoning = NoReasoning
  <2>1. m.calls \in Seq(STRING) /\ <<>> \in Seq(STRING)
      BY DEF MessageType
  <2>2. t = [role |-> "tool", text |-> "none", calls |-> <<>>, results |-> m.calls,
             reasoning |-> NoReasoning, tag |-> NoTag]
      BY DEF ToolMsg, Message
  <2> HIDE DEF t
  <2>3. "tool" \in {"user", "assistant", "tool"} /\ "none" \in {"none", "empty", "some"}
        /\ NoReasoning \in {NoReasoning, Bound, Stale, Unowned}
        /\ NoTag \in {NoTag, SummaryTag} \cup STRING
      OBVIOUS
  <2>4. t \in MessageType
      BY <2>1, <2>2, <2>3, Zenon DEF MessageType
  <2> QED
      BY <2>2, <2>4
<1> HIDE DEF t
<1>2. s \in Transcripts /\ Len(s) = 2 /\ s[1] = m /\ s[2] = t /\ DOMAIN s = {1, 2}
    BY <1>1 DEF Transcripts
<1>3. Append(Append(msgs, m), t) = msgs \o s
    BY <1>1 DEF Transcripts
<1> HIDE DEF s
<1>4. /\ Pending(s)[0] = {} /\ Pending(s)[1] = PendingAfter({}, m)
      /\ Pending(s)[2] = PendingAfter(Pending(s)[1], t)
  <2>1. 1 \in DOMAIN s /\ 1 - 1 = 0 /\ 2 \in DOMAIN s /\ 2 - 1 = 1
      BY <1>2
  <2>2. /\ Pending(s)[0] = {}
        /\ \A n \in DOMAIN s : Pending(s)[n] = PendingAfter(Pending(s)[n - 1], s[n])
      BY <1>2, PendingSteps
  <2>3. /\ Pending(s)[1] = PendingAfter(Pending(s)[1 - 1], s[1])
        /\ Pending(s)[2] = PendingAfter(Pending(s)[2 - 1], s[2])
      BY <2>1, <2>2, Zenon
  <2> QED
      BY <1>2, <2>1, <2>2, <2>3
<1>5. Pending(s)[1] = Range(m.calls) /\ Pending(s)[2] = {}
    BY <1>1, <1>4 DEF PendingAfter
<1>6. Passes(s)
  <2>1. /\ Pairs({}, m) /\ Pairs(Range(m.calls), t)
        /\ HasNonReasoning(m) /\ HasNonReasoning(t)
      BY <1>1 DEF Pairs, HasNonReasoning, PartsLegal
  <2>3. PartsLegal(t)
    <3>1. EmptyId \notin Range(t.calls) /\ EmptyId \notin Range(t.results)
      <4>1. Range(<<>>) = {}
        BY DEF Range
      <4> QED
        BY <1>1, <4>1 DEF PartsLegal
    <3> QED
      BY <1>1, <3>1 DEF PartsLegal, NoReasoning, Unowned
  <2>2. \A n \in 1 .. Len(s) : (n = 1 /\ n - 1 = 0) \/ (n = 2 /\ n - 1 = 1)
      BY <1>2
  <2> QED
      BY <1>2, <1>4, <1>5, <2>1, <2>2, <2>3 DEF Passes
<1> QED
    BY <1>2, <1>3, <1>6, Together, TogetherPasses DEF t

-----------------------------------------------------------------------------
(***************************************************************************)
(* The cut rule                                                            *)
(***************************************************************************)

\* The head ends with the first user message, or is the whole transcript.
LEMMA HeadEnds ==
    ASSUME NEW msgs \in Transcripts
    PROVE  /\ Len(msgs) \in Nat /\ HeadLen(msgs) \in 0 .. Len(msgs)
           /\ \A i \in 1 .. HeadLen(msgs) - 1 : ~IsUser(msgs[i])
           /\ \/ HeadLen(msgs) \in 1 .. Len(msgs) /\ IsUser(msgs[HeadLen(msgs)])
              \/ HeadLen(msgs) = Len(msgs) /\ \A i \in 1 .. Len(msgs) : ~IsUser(msgs[i])
<1> DEFINE users == {i \in 1 .. Len(msgs) : IsUser(msgs[i])}
<1>1. Len(msgs) \in Nat /\ DOMAIN msgs = 1 .. Len(msgs)
    BY DEF Transcripts
<1>2. HeadLen(msgs) = IF users = {} THEN Len(msgs) ELSE Min(users)
    BY <1>1 DEF HeadLen
<1>3. CASE users = {}
    BY <1>1, <1>2, <1>3
<1>4. CASE users # {}
  <2>1. users \in SUBSET Nat
      BY <1>1
  <2>2. Min(users) \in users /\ \A y \in users : Min(users) <= y
    <3> HIDE DEF users
    <3> QED
        BY <1>4, <2>1, MinNat
  <2>3. HeadLen(msgs) = Min(users)
    <3> HIDE DEF users
    <3> QED
        BY <1>2, <1>4
  <2>4. HeadLen(msgs) \in users /\ \A y \in users : HeadLen(msgs) <= y
    <3> HIDE DEF users
    <3> QED
        BY <2>2, <2>3
  <2>5. \A i \in 1 .. HeadLen(msgs) - 1 : i \in 1 .. Len(msgs) /\ ~ (HeadLen(msgs) <= i)
      BY <1>1, <2>4
  <2> QED
      BY <1>1, <2>4, <2>5
<1> QED
    BY <1>3, <1>4

\* The number below one of a range, and what lies above that.
LEMMA OneBelow ==
    ASSUME NEW h \in Nat, NEW n \in Nat, NEW c \in Int, c > h, c <= n
    PROVE  /\ c - 1 \in h .. n
           /\ \A j \in (c - 1) + 1 .. n : j = c \/ j \in c + 1 .. n
OBVIOUS

\* A cut moved back over the user messages before n stops after a message that
\* is no user's, or after the head.
LEMMA CutBack ==
    ASSUME NEW msgs \in Transcripts, NEW n \in HeadLen(msgs) .. Len(msgs),
           NEW cut,
           cut = Min({k \in HeadLen(msgs) .. n : \A j \in k + 1 .. n : IsUser(msgs[j])})
    PROVE  /\ cut \in HeadLen(msgs) .. n
           /\ \A j \in cut + 1 .. n : IsUser(msgs[j])
           /\ cut > HeadLen(msgs) => ~IsUser(msgs[cut])
<1> DEFINE h == HeadLen(msgs)
           S == {k \in h .. n : \A j \in k + 1 .. n : IsUser(msgs[j])}
<1>1. Len(msgs) \in Nat /\ h \in Nat /\ n \in Nat /\ h <= n
    BY HeadEnds
<1> HIDE DEF h
<1>2. S \in SUBSET Nat /\ n \in S
    BY <1>1
<1>3. cut \in S /\ \A k \in S : cut <= k
  <2> HIDE DEF S
  <2>1. cut = Min(S)
      BY DEF S, h
  <2>2. Min(S) \in S /\ \A k \in S : Min(S) <= k
      BY <1>2, MinNat
  <2> QED
      BY <2>1, <2>2, Zenon
<1>4. ASSUME cut > h, IsUser(msgs[cut]) PROVE FALSE
  <2>a. cut \in h .. n /\ \A j \in cut + 1 .. n : IsUser(msgs[j])
      BY <1>3, Zenon
  <2> HIDE DEF S
  <2>b. cut \in Int /\ cut <= n
      BY <1>1, <2>a
  <2>1. /\ cut - 1 \in h .. n
        /\ \A j \in (cut - 1) + 1 .. n : j = cut \/ j \in cut + 1 .. n
      BY <1>1, <1>4, <2>b, OneBelow, Zenon
  <2>2. \A j \in (cut - 1) + 1 .. n : IsUser(msgs[j])
      BY <1>4, <2>a, <2>1, Zenon
  <2>3. cut - 1 \in S
      BY <2>1, <2>2, Zenon DEF S
  <2>4. cut <= cut - 1
      BY <1>3, <2>3, Zenon
  <2> QED
      BY <2>b, <2>4
<1> QED
    BY <1>3, <1>4 DEF h

\* Every number below their count is the number of turns after some turn.
LEMMA TurnWithLater ==
    ASSUME NEW turns \in SUBSET Nat, IsFiniteSet(turns), NEW b \in Nat,
           \A i \in turns : i <= b,
           NEW k \in Nat, k < Cardinality(turns)
    PROVE  \E i \in turns : Cardinality({j \in turns : j > i}) = k
<1> DEFINE Later(i) == {j \in turns : j > i}
           T == {m \in Nat : m < Cardinality(turns) =>
                                \E i \in turns : Cardinality(Later(i)) = m}
<1>a. \A i \in turns : i \in Nat
    OBVIOUS
<1>1. 0 \in T
  <2>1. SUFFICES ASSUME 0 < Cardinality(turns)
                 PROVE  \E i \in turns : Cardinality(Later(i)) = 0
      OBVIOUS
  <2>2. turns # {}
      BY <2>1, FS_EmptySet
  <2>3. Max(turns) \in turns /\ \A j \in turns : j <= Max(turns)
      BY <2>2, MaxNat
  <2>4. Later(Max(turns)) = {}
    <3> DEFINE x == Max(turns)
    <3>1. x \in turns /\ \A j \in turns : j <= x
        BY <2>3
    <3> HIDE DEF x
    <3>2. \A j \in turns : ~ (j > x)
        BY <1>a, <3>1
    <3>3. {j \in turns : j > x} = {}
        BY <3>2, Zenon
    <3> QED
        BY <3>3 DEF x
  <2>5. Cardinality(Later(Max(turns))) = 0
      BY <2>4, FS_EmptySet
  <2> QED
      BY <2>3, <2>5, Zenon
<1>2. ASSUME NEW m \in Nat, m \in T PROVE m + 1 \in T
  <2>1. SUFFICES ASSUME m + 1 < Cardinality(turns)
                 PROVE  \E i \in turns : Cardinality(Later(i)) = m + 1
      OBVIOUS
  <2>2. Cardinality(turns) \in Nat
      BY FS_CardinalityType
  <2>3. PICK i \in turns : Cardinality(Later(i)) = m
    <3>1. m < Cardinality(turns)
        BY <2>1, <2>2
    <3> QED
        BY <1>2, <3>1
  <2>4. IsFiniteSet(Later(i)) /\ i \notin Later(i)
      BY FS_Subset
  <2>5. Cardinality(Later(i) \cup {i}) = m + 1
    <3> HIDE DEF Later
    <3> QED
        BY <2>3, <2>4, FS_AddElement
  <2> DEFINE Before == {j \in turns : j < i}
  <2>6. Before # {}
    <3> SUFFICES ASSUME Before = {} PROVE FALSE
        OBVIOUS
    <3>1. turns = Later(i) \cup {i}
      <4>1. \A j \in turns : ~ (j < i)
          OBVIOUS
      <4>2. \A j \in turns : j > i \/ j = i
          BY <1>a, <4>1
      <4> QED
          BY <4>2, Zenon
    <3>2. Cardinality(turns) = m + 1
        BY <2>5, <3>1, Zenon
    <3> QED
        BY <2>1, <2>2, <3>2
  <2>7. Max(Before) \in Before /\ \A j \in Before : j <= Max(Before)
    <3>1. \A j \in turns : j < i => j <= i
        BY <1>a
    <3>2. Before \in SUBSET Nat /\ \A j \in Before : j <= i
        BY <3>1, Zenon
    <3> HIDE DEF Before
    <3> QED
        BY <2>6, <3>2, MaxNat
  <2>8. Later(Max(Before)) = Later(i) \cup {i}
    <3> DEFINE p == Max(Before)
    <3>1. p \in turns /\ p < i /\ \A j \in turns : j < i => j <= p
        BY <2>7
    <3> HIDE DEF p
    <3>2. \A j \in turns : j > p <=> j > i \/ j = i
        BY <1>a, <3>1
    <3>3. {j \in turns : j > p} = Later(i) \cup {i}
        BY <3>2, Zenon
    <3> QED
        BY <3>3 DEF p
  <2>9. Cardinality(Later(Max(Before))) = m + 1
      BY <2>5, <2>8, Zenon
  <2>10. Max(Before) \in turns
      BY <2>7
  <2> QED
      BY <2>9, <2>10, Zenon
<1> HIDE DEF T
<1>3. Nat \subseteq T
    BY <1>1, <1>2, Induction
<1>4. k \in T
    BY <1>3
<1> QED
    BY <1>4 DEF T

\* Where a cut falls: before a message of the user or of the assistant, and
\* never after a message of the user, unless it keeps all but the head or none.
LEMMA CutFalls ==
    ASSUME NEW msgs \in Transcripts, NEW keep \in Nat
    PROVE  /\ Cut(msgs, keep) \in HeadLen(msgs) .. Len(msgs)
           /\ Cut(msgs, keep) > HeadLen(msgs) =>
                 /\ ~IsUser(msgs[Cut(msgs, keep)])
                 /\ Cut(msgs, keep) < Len(msgs) => ~IsTool(msgs[Cut(msgs, keep) + 1])
<1> DEFINE h == HeadLen(msgs)
           turns == Turns(msgs)
           later(i) == Cardinality({j \in turns : j > i})
<1>1. Len(msgs) \in Nat /\ h \in 0 .. Len(msgs)
    BY HeadEnds
<1>2. CASE keep = 0
  <2>1. Cut(msgs, keep) = Unanswered(msgs)
      BY <1>2 DEF Cut
  <2>2. /\ Unanswered(msgs) \in h .. Len(msgs)
        /\ \A j \in Unanswered(msgs) + 1 .. Len(msgs) : IsUser(msgs[j])
        /\ Unanswered(msgs) > h => ~IsUser(msgs[Unanswered(msgs)])
      BY <1>1, CutBack DEF Unanswered
  <2>3. Unanswered(msgs) < Len(msgs) =>
            Unanswered(msgs) + 1 \in Unanswered(msgs) + 1 .. Len(msgs)
      BY <1>1, <2>2
  <2> QED
      BY <2>1, <2>2, <2>3 DEF IsUser, IsTool
<1>3. CASE keep # 0 /\ Cardinality(turns) <= keep
  <2>1. Cut(msgs, keep) = h
      BY <1>3 DEF Cut
  <2> QED
      BY <1>1, <2>1
<1>4. CASE keep # 0 /\ ~ (Cardinality(turns) <= keep)
  <2> DEFINE i == CHOOSE i \in turns : later(i) = keep - 1
             c == TurnStart(msgs, i)
  <2>1. Cut(msgs, keep) = c
      BY <1>4, Zenon DEF Cut
  <2>2. \E x \in turns : later(x) = keep - 1
    <3>1. turns \in SUBSET Nat /\ turns \subseteq h + 1 .. Len(msgs)
        BY <1>1 DEF Turns
    <3>2. IsFiniteSet(turns)
      <4>1. h + 1 \in Int /\ Len(msgs) \in Int
          BY <1>1
      <4>2. IsFiniteSet(h + 1 .. Len(msgs))
          BY <4>1, FS_Interval, Zenon
      <4> QED
          BY <3>1, <4>2, FS_Subset, Zenon
    <3>3. \A x \in turns : x <= Len(msgs)
        BY <1>1, <3>1
    <3>4. keep - 1 \in Nat /\ keep - 1 < Cardinality(turns)
      <4>1. Cardinality(turns) \in Nat
          BY <3>2, FS_CardinalityType
      <4> QED
          BY <1>4, <4>1
    <3> HIDE DEF turns
    <3> QED
        BY <1>1, <3>1, <3>2, <3>3, <3>4, TurnWithLater
  <2>3. i \in turns
    <3> HIDE DEF turns, later
    <3> QED
        BY <2>2, Zenon
  <2> HIDE DEF i
  <2>4. i \in h + 1 .. Len(msgs) /\ msgs[i].role = "assistant"
      BY <2>3 DEF Turns
  <2>5. i - 1 \in h .. Len(msgs)
      BY <1>1, <2>4
  <2>6. /\ c \in h .. i - 1
        /\ \A j \in c + 1 .. i - 1 : IsUser(msgs[j])
        /\ c > h => ~IsUser(msgs[c])
      BY <2>5, CutBack DEF TurnStart
  <2>7. c + 1 = i \/ c + 1 \in c + 1 .. i - 1
      BY <1>1, <2>4, <2>6
  <2>8. ~IsTool(msgs[c + 1])
      BY <2>4, <2>6, <2>7 DEF IsUser, IsTool
  <2>9. c \in h .. Len(msgs)
      BY <1>1, <2>5, <2>6
  <2> HIDE DEF c
  <2> QED
      BY <2>1, <2>6, <2>8, <2>9
<1> QED
    BY <1>2, <1>3, <1>4

\* The last run of prompts after the head, as the cuts before and after it.
PromptEnd(msgs) ==
    Max({HeadLen(msgs)} \cup {i \in HeadLen(msgs) + 1 .. Len(msgs) : IsPrompt(msgs[i])})

PromptStart(msgs) ==
    Min({k \in HeadLen(msgs) .. PromptEnd(msgs) :
            \A j \in k + 1 .. PromptEnd(msgs) : IsPrompt(msgs[j])})

LEMMA InFlightIsLastRun ==
    ASSUME NEW msgs
    PROVE  InFlight(msgs) =
               IF msgs = <<>> \/ Last(msgs).role = "assistant"
               THEN [pin |-> HeadLen(msgs), end |-> HeadLen(msgs)]
               ELSE [pin |-> PromptStart(msgs), end |-> PromptEnd(msgs)]
BY Zenon DEF InFlight, PromptStart, PromptEnd

\* Where that run lies, and that it is the last and cannot be made longer.
LEMMA LastRun ==
    ASSUME NEW msgs \in Transcripts
    PROVE  /\ PromptStart(msgs) \in HeadLen(msgs) .. PromptEnd(msgs)
           /\ PromptEnd(msgs) \in HeadLen(msgs) .. Len(msgs)
           /\ \A j \in PromptStart(msgs) + 1 .. PromptEnd(msgs) : IsPrompt(msgs[j])
           /\ \A j \in PromptEnd(msgs) + 1 .. Len(msgs) : ~IsPrompt(msgs[j])
           /\ \A k \in HeadLen(msgs) .. PromptEnd(msgs) :
                 (\A j \in k + 1 .. PromptEnd(msgs) : IsPrompt(msgs[j]))
                     => PromptStart(msgs) <= k
<1> DEFINE h == HeadLen(msgs)
           e == PromptEnd(msgs)
           P == {h} \cup {i \in h + 1 .. Len(msgs) : IsPrompt(msgs[i])}
           S == {k \in h .. e : \A j \in k + 1 .. e : IsPrompt(msgs[j])}
<1>1. Len(msgs) \in Nat /\ h \in 0 .. Len(msgs)
    BY HeadEnds
<1>2. e = Max(P) /\ PromptStart(msgs) = Min(S)
    BY Zenon DEF PromptEnd, PromptStart
<1> HIDE DEF h, e
<1>3. P \in SUBSET Nat /\ P # {} /\ \A y \in P : y <= Len(msgs)
    BY <1>1
<1>4. e \in P /\ \A y \in P : y <= e
  <2> HIDE DEF P
  <2>1. Max(P) \in P /\ \A y \in P : y <= Max(P)
      BY <1>1, <1>3, MaxNat
  <2> QED
      BY <1>2, <2>1, Zenon
<1>5. e \in h .. Len(msgs)
    BY <1>1, <1>3, <1>4
<1>6. \A j \in e + 1 .. Len(msgs) : ~IsPrompt(msgs[j])
  <2> SUFFICES ASSUME NEW j \in e + 1 .. Len(msgs), IsPrompt(msgs[j]) PROVE FALSE
      OBVIOUS
  <2>1. j \in h + 1 .. Len(msgs) /\ ~ (j <= e)
      BY <1>1, <1>5
  <2> QED
      BY <1>4, <2>1
<1>7. S \in SUBSET Nat /\ e \in S
    BY <1>1, <1>5
<1>8. Min(S) \in S /\ \A k \in S : Min(S) <= k
  <2> HIDE DEF S
  <2> QED
      BY <1>7, MinNat
<1>9. PromptStart(msgs) \in S /\ \A k \in S : PromptStart(msgs) <= k
  <2> HIDE DEF S
  <2> QED
      BY <1>2, <1>8, Zenon
<1> QED
    BY <1>5, <1>6, <1>9 DEF h, e

\* What is lifted out: the run, or nothing, between the head and the cut.
LEMMA PinnedLies ==
    ASSUME NEW msgs \in Transcripts, NEW keep \in Nat
    PROVE  /\ Pinned(msgs, keep).pin \in HeadLen(msgs) .. Pinned(msgs, keep).end
           /\ Pinned(msgs, keep).end \in HeadLen(msgs) .. Cut(msgs, keep)
           /\ \A j \in Pinned(msgs, keep).pin + 1 .. Pinned(msgs, keep).end :
                 IsPrompt(msgs[j])
<1> DEFINE h == HeadLen(msgs)
           c == Cut(msgs, keep)
           f == InFlight(msgs)
           p == Pinned(msgs, keep)
<1>1. Len(msgs) \in Nat /\ h \in 0 .. Len(msgs) /\ c \in h .. Len(msgs)
    BY HeadEnds, CutFalls
<1>2. p = IF f.pin < f.end /\ f.end <= c THEN f ELSE [pin |-> c, end |-> c]
    BY Zenon DEF Pinned
<1>3. \/ f.pin = h /\ f.end = h
      \/ f.pin = PromptStart(msgs) /\ f.end = PromptEnd(msgs)
    BY InFlightIsLastRun
<1>4. /\ f.pin \in h .. f.end /\ f.end \in h .. Len(msgs)
      /\ \A j \in f.pin + 1 .. f.end : IsPrompt(msgs[j])
  <2>1. CASE f.pin = h /\ f.end = h
      BY <1>1, <2>1
  <2>2. CASE f.pin = PromptStart(msgs) /\ f.end = PromptEnd(msgs)
      BY <2>2, LastRun
  <2> QED
      BY <1>3, <2>1, <2>2
<1> HIDE DEF h, c, f, p
<1>5. /\ p.pin \in h .. p.end /\ p.end \in h .. c
      /\ \A j \in p.pin + 1 .. p.end : IsPrompt(msgs[j])
  <2>1. CASE f.pin < f.end /\ f.end <= c
    <3>1. p = f
        BY <1>2, <2>1
    <3> QED
        BY <1>1, <1>4, <2>1, <3>1
  <2>2. CASE ~ (f.pin < f.end /\ f.end <= c)
    <3>1. p.pin = c /\ p.end = c
        BY <1>2, <2>2
    <3> QED
        BY <1>1, <3>1
  <2> QED
      BY <2>1, <2>2
<1> QED
    BY <1>5 DEF h, c, p

\* The messages of a stretch.
LEMMA StretchParts ==
    ASSUME NEW msgs \in Transcripts, NEW a \in 0 .. Len(msgs), NEW b \in a .. Len(msgs)
    PROVE  /\ SubSeq(msgs, a + 1, b) \in Transcripts
           /\ Len(SubSeq(msgs, a + 1, b)) = b - a
           /\ \A k \in 1 .. b - a : SubSeq(msgs, a + 1, b)[k] = msgs[a + k]
<1>1. Len(msgs) \in Nat /\ a \in Nat /\ b \in Nat
    BY DEF Transcripts
<1> QED
    BY <1>1 DEF Transcripts

\* s is the first h messages, the b that are inserted, those from the cut pin
\* to the cut end, and those after the last cut.
Splices(s, msgs, insert, h, b, pin, end, cut) ==
    \E run \in Nat, rest \in Nat :
        /\ pin + run = end /\ cut + rest = Len(msgs) /\ s \in Transcripts
        /\ Len(s) = ((h + b) + run) + rest
        /\ \A k \in 1 .. h : s[k] = msgs[k]
        /\ \A k \in 1 .. b : s[h + k] = insert[k]
        /\ \A k \in 1 .. run : s[(h + b) + k] = msgs[pin + k]
        /\ \A k \in 1 .. rest : s[((h + b) + run) + k] = msgs[cut + k]

\* The messages of what is kept: head, insert, prompt, last turns.
LEMMA SplicedParts ==
    ASSUME NEW msgs \in Transcripts, NEW keep \in Nat, NEW insert \in Transcripts,
           NEW h, NEW pin, NEW end, NEW cut, NEW b, NEW s,
           h = HeadLen(msgs), pin = Pinned(msgs, keep).pin, end = Pinned(msgs, keep).end,
           cut = Cut(msgs, keep), b = Len(insert), s = Spliced(msgs, keep, insert)
    PROVE  Splices(s, msgs, insert, h, b, pin, end, cut)
<1>1. /\ Len(msgs) \in Nat /\ h \in 0 .. Len(msgs) /\ cut \in h .. Len(msgs)
      /\ pin \in h .. end /\ end \in h .. cut
    BY HeadEnds, CutFalls, PinnedLies
<1>a. PICK run \in Nat : run = end - pin /\ pin + run = end
  <2>1. end - pin \in Nat /\ pin + (end - pin) = end
      BY <1>1
  <2> QED
      BY <2>1, Zenon
<1>b. PICK rest \in Nat : rest = Len(msgs) - cut /\ cut + rest = Len(msgs)
  <2>1. Len(msgs) - cut \in Nat /\ cut + (Len(msgs) - cut) = Len(msgs)
      BY <1>1
  <2> QED
      BY <2>1, Zenon
<1>c. b \in Nat
    BY HeadEnds
<1> DEFINE a == SubSeq(msgs, 1, h)
           c == SubSeq(msgs, pin + 1, end)
           d == SubSeq(msgs, cut + 1, Len(msgs))
<1>2. s = ((a \o insert) \o c) \o d
    BY Zenon DEF Spliced
<1>3. a \in Transcripts /\ Len(a) = h /\ \A k \in 1 .. h : a[k] = msgs[k]
    BY <1>1 DEF Transcripts
<1>4. c \in Transcripts /\ Len(c) = run /\ \A k \in 1 .. run : c[k] = msgs[pin + k]
  <2>1. pin \in 0 .. Len(msgs) /\ end \in pin .. Len(msgs)
      BY <1>1
  <2> QED
      BY <1>a, <2>1, StretchParts, Zenon
<1>5. d \in Transcripts /\ Len(d) = rest /\ \A k \in 1 .. rest : d[k] = msgs[cut + k]
  <2>1. cut \in 0 .. Len(msgs) /\ Len(msgs) \in cut .. Len(msgs)
      BY <1>1
  <2> QED
      BY <1>b, <2>1, StretchParts, Zenon
<1> HIDE DEF a, c, d
<1>6. \E ab, abc : Joined(ab, a, insert) /\ Joined(abc, ab, c) /\ Joined(s, abc, d)
  <2>1. a \in Transcripts /\ c \in Transcripts /\ d \in Transcripts
      BY <1>3, <1>4, <1>5
  <2>2. Joined(a \o insert, a, insert) /\ a \o insert \in Transcripts
      BY <2>1, TogetherIsJoined, Zenon
  <2>3. /\ Joined((a \o insert) \o c, a \o insert, c)
        /\ (a \o insert) \o c \in Transcripts
      BY <2>1, <2>2, TogetherIsJoined, Zenon
  <2>4. Joined(((a \o insert) \o c) \o d, (a \o insert) \o c, d)
      BY <2>1, <2>3, TogetherIsJoined, Zenon
  <2> QED
      BY <1>2, <2>2, <2>3, <2>4, Zenon
<1>7. /\ s \in Transcripts /\ Len(s) = ((Len(a) + b) + Len(c)) + Len(d)
      /\ \A k \in 1 .. Len(a) : s[k] = a[k]
      /\ \A k \in 1 .. b : s[Len(a) + k] = insert[k]
      /\ \A k \in 1 .. Len(c) : s[(Len(a) + b) + k] = c[k]
      /\ \A k \in 1 .. Len(d) : s[((Len(a) + b) + Len(c)) + k] = d[k]
    BY <1>6, FourJoined
<1>8. \A k \in 1 .. h : s[k] = msgs[k]
    BY <1>3, <1>7
<1>9. \A k \in 1 .. b : s[h + k] = insert[k]
    BY <1>3, <1>7
<1>10. \A k \in 1 .. run : s[(h + b) + k] = msgs[pin + k]
    BY <1>3, <1>4, <1>7
<1>11. \A k \in 1 .. rest : s[((h + b) + run) + k] = msgs[cut + k]
    BY <1>3, <1>4, <1>5, <1>7
<1>12. Len(s) = ((h + b) + run) + rest
    BY <1>3, <1>4, <1>5, <1>7
<1> QED
    BY <1>a, <1>b, <1>7, <1>8, <1>9, <1>10, <1>11, <1>12, Zenon DEF Splices

\* A message without its reasoning.
Bare(m) == [m EXCEPT !.reasoning = NoReasoning]

LEMMA BareMessage ==
    ASSUME NEW m \in MessageType
    PROVE  /\ Bare(m) \in MessageType /\ Bare(m).reasoning = NoReasoning
           /\ Bare(m).role = m.role /\ Bare(m).tag = m.tag
           /\ m.reasoning = NoReasoning => Bare(m) = m
BY DEF Bare, MessageType

\* A transcript without reasoning is not changed by an edit.
LEMMA NothingToEdit ==
    ASSUME NEW msgs \in Transcripts,
           \A i \in 1 .. Len(msgs) : msgs[i].reasoning = NoReasoning
    PROVE  Edited(msgs) = msgs
<1>1. DOMAIN msgs = 1 .. Len(msgs) /\ msgs = [i \in DOMAIN msgs |-> msgs[i]]
    BY DEF Transcripts
<1>2. Edited(msgs) = [i \in DOMAIN msgs |->
          IF msgs[i].reasoning = Bound THEN [msgs[i] EXCEPT !.reasoning = Stale] ELSE msgs[i]]
    BY Zenon DEF Edited
<1>3. \A i \in DOMAIN msgs : msgs[i].reasoning # Bound
    BY <1>1 DEF NoReasoning, Bound
<1> QED
    BY <1>1, <1>2, <1>3

\* What a compaction keeps is typed and carries no reasoning.
LEMMA KeptIsBare ==
    ASSUME NEW msgs \in Transcripts, NEW keep \in Nat, NEW insert \in Transcripts
    PROVE  /\ Kept(msgs, keep, insert) \in Transcripts
           /\ \A i \in 1 .. Len(Kept(msgs, keep, insert)) :
                 Kept(msgs, keep, insert)[i].reasoning = NoReasoning
           /\ Edited(Kept(msgs, keep, insert)) = Kept(msgs, keep, insert)
<1> DEFINE s == Spliced(msgs, keep, insert)
           t == Kept(msgs, keep, insert)
<1>1. s \in Transcripts
  <2>1. Splices(s, msgs, insert, HeadLen(msgs), Len(insert), Pinned(msgs, keep).pin,
                Pinned(msgs, keep).end, Cut(msgs, keep))
      BY SplicedParts, Zenon
  <2> QED
      BY <2>1, Zenon DEF Splices
<1>2. t = WithoutReasoning(s)
    BY Zenon DEF Kept
<1> HIDE DEF s, t
<1>3. t \in Transcripts /\ \A i \in 1 .. Len(t) : t[i].reasoning = NoReasoning
    BY <1>1, <1>2, WithoutReasoningIsAlike
<1> QED
    BY <1>3, NothingToEdit DEF t

\* A place in a stretch of y messages after x, of n in all.
LEMMA Within ==
    ASSUME NEW x \in Nat, NEW y \in Nat, NEW n \in Nat, x + y <= n
    PROVE  \A k \in 1 .. y : x + k \in 1 .. n
OBVIOUS

\* The messages of what a compaction keeps, of those of the transcript without
\* their reasoning.
KeptOf(t, msgs, insert, h, b, pin, end, cut) ==
    /\ h \in Nat /\ b \in Nat /\ pin \in Nat /\ end \in Nat /\ cut \in Nat
    /\ Len(msgs) \in Nat
    /\ \E run \in Nat, rest \in Nat :
            /\ pin + run = end /\ cut + rest = Len(msgs)
            /\ Len(t) = ((h + b) + run) + rest
            /\ \A k \in 1 .. h : t[k] = Bare(msgs[k])
            /\ \A k \in 1 .. b : t[h + k] = Bare(insert[k])
            /\ \A k \in 1 .. run : t[(h + b) + k] = Bare(msgs[pin + k])
            /\ \A k \in 1 .. rest : t[((h + b) + run) + k] = Bare(msgs[cut + k])

LEMMA KeptParts ==
    ASSUME NEW msgs \in Transcripts, NEW keep \in Nat, NEW insert \in Transcripts,
           NEW h, NEW pin, NEW end, NEW cut, NEW b, NEW t,
           h = HeadLen(msgs), pin = Pinned(msgs, keep).pin, end = Pinned(msgs, keep).end,
           cut = Cut(msgs, keep), b = Len(insert), t = Kept(msgs, keep, insert)
    PROVE  KeptOf(t, msgs, insert, h, b, pin, end, cut)
<1> DEFINE s == Spliced(msgs, keep, insert)
<1>a. Splices(s, msgs, insert, h, b, pin, end, cut)
  <2>1. s = Spliced(msgs, keep, insert)
      OBVIOUS
  <2> HIDE DEF s
  <2> QED
      BY <2>1, SplicedParts
<1>1. PICK run \in Nat, rest \in Nat :
              /\ pin + run = end /\ cut + rest = Len(msgs) /\ s \in Transcripts
              /\ Len(s) = ((h + b) + run) + rest
              /\ \A k \in 1 .. h : s[k] = msgs[k]
              /\ \A k \in 1 .. b : s[h + k] = insert[k]
              /\ \A k \in 1 .. run : s[(h + b) + k] = msgs[pin + k]
              /\ \A k \in 1 .. rest : s[((h + b) + run) + k] = msgs[cut + k]
    BY <1>a, Zenon DEF Splices
<1>2. t = WithoutReasoning(s)
    BY Zenon DEF Kept
<1> HIDE DEF s
<1>3. DOMAIN s = 1 .. Len(s) /\ Len(t) = Len(s)
    BY <1>1, <1>2, WithoutReasoningIsAlike DEF Transcripts
<1>4. \A i \in 1 .. Len(s) : t[i] = Bare(s[i])
    BY <1>2, <1>3 DEF WithoutReasoning, Bare
<1>5. h \in Nat /\ b \in Nat
    BY HeadEnds
<1>6. /\ \A k \in 1 .. h : k \in 1 .. Len(s)
      /\ \A k \in 1 .. b : h + k \in 1 .. Len(s)
      /\ \A k \in 1 .. run : (h + b) + k \in 1 .. Len(s)
      /\ \A k \in 1 .. rest : ((h + b) + run) + k \in 1 .. Len(s)
  <2>1. Len(s) = ((h + b) + run) + rest
      BY <1>1
  <2>2. \A k \in 1 .. h : k \in 1 .. Len(s)
      BY <1>5, <2>1
  <2>3. \A k \in 1 .. b : h + k \in 1 .. Len(s)
      BY <1>5, <2>1
  <2>a. h + b \in Nat /\ (h + b) + run \in Nat /\ Len(s) \in Nat
      BY <1>5, <2>1
  <2>b. (h + b) + run <= Len(s) /\ ((h + b) + run) + rest <= Len(s)
      BY <2>1, <2>a
  <2>4. \A k \in 1 .. run : (h + b) + k \in 1 .. Len(s)
      BY <2>a, <2>b, Within, Zenon
  <2>5. \A k \in 1 .. rest : ((h + b) + run) + k \in 1 .. Len(s)
      BY <2>a, <2>b, Within, Zenon
  <2> QED
      BY <2>2, <2>3, <2>4, <2>5
<1>7. \A k \in 1 .. h : t[k] = Bare(msgs[k])
    BY <1>1, <1>4, <1>6
<1>8. \A k \in 1 .. b : t[h + k] = Bare(insert[k])
    BY <1>1, <1>4, <1>6
<1>9. \A k \in 1 .. run : t[(h + b) + k] = Bare(msgs[pin + k])
    BY <1>1, <1>4, <1>6
<1>10. \A k \in 1 .. rest : t[((h + b) + run) + k] = Bare(msgs[cut + k])
    BY <1>1, <1>4, <1>6
<1>11. Len(t) = ((h + b) + run) + rest
    BY <1>1, <1>3
<1>12. \E r1 \in Nat, r2 \in Nat :
            /\ pin + r1 = end /\ cut + r2 = Len(msgs)
            /\ Len(t) = ((h + b) + r1) + r2
            /\ \A k \in 1 .. h : t[k] = Bare(msgs[k])
            /\ \A k \in 1 .. b : t[h + k] = Bare(insert[k])
            /\ \A k \in 1 .. r1 : t[(h + b) + k] = Bare(msgs[pin + k])
            /\ \A k \in 1 .. r2 : t[((h + b) + r1) + k] = Bare(msgs[cut + k])
    BY <1>1, <1>7, <1>8, <1>9, <1>10, <1>11, Zenon
<1>13. pin \in Nat /\ end \in Nat /\ cut \in Nat /\ Len(msgs) \in Nat
  <2>1. /\ HeadLen(msgs) \in 0 .. Len(msgs) /\ Len(msgs) \in Nat
        /\ Cut(msgs, keep) \in HeadLen(msgs) .. Len(msgs)
        /\ Pinned(msgs, keep).pin \in HeadLen(msgs) .. Pinned(msgs, keep).end
        /\ Pinned(msgs, keep).end \in HeadLen(msgs) .. Cut(msgs, keep)
      BY HeadEnds, CutFalls, PinnedLies
  <2> QED
      BY <2>1
<1> QED
    BY <1>5, <1>12, <1>13, Zenon DEF KeptOf

\* A cut before a message of the user or the assistant, or after one of the
\* user, leaves no call without its result.
LEMMA NothingPendingAt ==
    ASSUME NEW msgs \in Transcripts, ValidateMessages(msgs), NEW n \in 0 .. Len(msgs),
           \/ n = 0 \/ n = Len(msgs)
           \/ n < Len(msgs) /\ ~IsTool(msgs[n + 1])
           \/ n > 0 /\ IsUser(msgs[n])
    PROVE  Pending(msgs)[n] = {}
<1>1. Len(msgs) \in Nat
    BY ValidSteps
<1>2. CASE n = 0 \/ n = Len(msgs)
    BY <1>2, ValidSteps
<1>3. CASE n < Len(msgs) /\ ~IsTool(msgs[n + 1])
  <2>1. n + 1 \in 1 .. Len(msgs) /\ (n + 1) - 1 = n
      BY <1>1, <1>3
  <2> QED
      BY <1>3, <2>1, NothingPendingBefore
<1>4. CASE n > 0 /\ IsUser(msgs[n])
  <2>1. n \in 1 .. Len(msgs)
      BY <1>1, <1>4
  <2> QED
      BY <1>4, <2>1, NothingPendingAfterUser
<1> QED
    BY <1>2, <1>3, <1>4

\* No messages at all have nothing wrong.
LEMMA NothingPasses == <<>> \in Transcripts /\ Passes(<<>>)
<1> DEFINE s == <<>>
<1>1. s \in Transcripts /\ Len(s) = 0
    BY DEF Transcripts
<1> HIDE DEF s
<1>2. Pending(s)[0] = {}
    BY <1>1, PendingSteps
<1>3. Passes(s)
    BY <1>1, <1>2 DEF Passes
<1> QED
    BY <1>1, <1>3 DEF s

\* What a compaction keeps of an accepted transcript passes the check.
LEMMA KeptPasses ==
    ASSUME NEW msgs \in Transcripts, NEW keep \in Nat, NEW insert \in Transcripts,
           ValidateMessages(msgs), Passes(insert)
    PROVE  Passes(Kept(msgs, keep, insert))
<1> DEFINE h == HeadLen(msgs)
           pin == Pinned(msgs, keep).pin
           end == Pinned(msgs, keep).end
           cut == Cut(msgs, keep)
           a == SubSeq(msgs, 0 + 1, h)
           c == SubSeq(msgs, pin + 1, end)
           d == SubSeq(msgs, cut + 1, Len(msgs))
           Quiet(n) == n \in 0 .. Len(msgs) /\ Pending(msgs)[n] = {}
<1>1. /\ Len(msgs) \in Nat /\ h \in 0 .. Len(msgs) /\ cut \in h .. Len(msgs)
      /\ pin \in h .. end /\ end \in h .. cut
      /\ \A j \in pin + 1 .. end : IsUser(msgs[j])
    BY HeadEnds, CutFalls, PinnedLies DEF IsPrompt
<1>2. Passes(msgs)
    BY ValidIsPassing
<1>3. Quiet(0) /\ Quiet(Len(msgs))
    BY <1>1, NothingPendingAt
<1>4. Quiet(h)
  <2>1. h = Len(msgs) \/ (h > 0 /\ IsUser(msgs[h]))
      BY HeadEnds
  <2> QED
      BY <1>1, <2>1, NothingPendingAt
<1>5. Quiet(cut)
  <2>1. CASE cut = h
      BY <1>4, <2>1
  <2>2. CASE cut > h /\ cut < Len(msgs)
    <3>1. ~IsTool(msgs[cut + 1])
        BY <2>2, CutFalls
    <3> QED
        BY <1>1, <2>2, <3>1, NothingPendingAt
  <2>3. CASE cut = Len(msgs)
      BY <1>3, <2>3
  <2> QED
      BY <1>1, <2>1, <2>2, <2>3
<1>6. pin = end \/ (Quiet(pin) /\ Quiet(end))
  <2>1. CASE pin < end
    <3>1. pin + 1 \in pin + 1 .. end /\ end \in pin + 1 .. end
        BY <1>1, <2>1
    <3>2. IsUser(msgs[pin + 1]) /\ IsUser(msgs[end])
        BY <1>1, <3>1
    <3>3. /\ pin \in 0 .. Len(msgs) /\ pin < Len(msgs) /\ ~IsTool(msgs[pin + 1])
          /\ end \in 0 .. Len(msgs) /\ end > 0
        BY <1>1, <2>1, <3>2 DEF IsUser, IsTool
    <3>4. Pending(msgs)[pin] = {}
        BY <3>3, NothingPendingAt
    <3>5. Pending(msgs)[end] = {}
        BY <3>2, <3>3, NothingPendingAt
    <3> QED
        BY <3>3, <3>4, <3>5
  <2> QED
      BY <1>1, <2>1
<1>7. a \in Transcripts /\ Passes(a)
  <2>1. 0 \in 0 .. Len(msgs) /\ h \in 0 .. Len(msgs)
      BY <1>1
  <2> QED
      BY <1>2, <1>3, <1>4, <2>1, StretchPasses, Zenon
<1>8. c \in Transcripts /\ Passes(c)
  <2>1. CASE pin = end
    <3>1. c = <<>>
        BY <1>1, <2>1
    <3> QED
        BY <3>1, NothingPasses
  <2>2. CASE Quiet(pin) /\ Quiet(end)
    <3>1. pin \in 0 .. Len(msgs) /\ end \in pin .. Len(msgs)
        BY <1>1
    <3> QED
        BY <1>2, <2>2, <3>1, StretchPasses, Zenon
  <2> QED
      BY <1>6, <2>1, <2>2
<1>9. d \in Transcripts /\ Passes(d)
  <2>1. cut \in 0 .. Len(msgs) /\ Len(msgs) \in cut .. Len(msgs)
      BY <1>1
  <2> QED
      BY <1>2, <1>3, <1>5, <2>1, StretchPasses, Zenon
<1>10. Spliced(msgs, keep, insert) = ((a \o insert) \o c) \o d
  <2>1. 0 + 1 = 1
      OBVIOUS
  <2> QED
      BY <2>1, Zenon DEF Spliced
<1> HIDE DEF a, c, d
<1>11. a \o insert \in Transcripts /\ Passes(a \o insert)
    BY <1>7, TogetherIsJoined, TogetherPasses, Zenon
<1>12. (a \o insert) \o c \in Transcripts /\ Passes((a \o insert) \o c)
    BY <1>8, <1>11, TogetherIsJoined, TogetherPasses, Zenon
<1>13. ((a \o insert) \o c) \o d \in Transcripts /\ Passes(((a \o insert) \o c) \o d)
    BY <1>9, <1>12, TogetherIsJoined, TogetherPasses, Zenon
<1> QED
    BY <1>10, <1>13, EditedPasses, Zenon DEF Kept

\* The insert of a compaction: nothing, or a summary.
Insertable(insert) ==
    /\ insert \in Transcripts /\ Passes(insert) /\ Len(insert) \in {0, 1}
    /\ \A k \in 1 .. Len(insert) : IsSummary(insert[k])

\* A message of the user in an accepted transcript has no reasoning to lose.
LEMMA UserIsBare ==
    ASSUME NEW msgs \in Transcripts, ValidateMessages(msgs),
           NEW i \in 1 .. Len(msgs), IsUser(msgs[i])
    PROVE  Bare(msgs[i]) = msgs[i]
<1>1. msgs[i] \in MessageType /\ PartsLegal(msgs[i])
    BY ValidSteps
<1>2. msgs[i].reasoning = NoReasoning
    BY <1>1 DEF PartsLegal, IsUser
<1> QED
    BY <1>1, <1>2, BareMessage

\* A compaction that drops something cuts after the head, which ends with the
\* first message of the user.
LEMMA DropsAfterHead ==
    ASSUME NEW msgs \in Transcripts, NEW keep \in Nat, Drops(msgs, keep)
    PROVE  /\ Cut(msgs, keep) > HeadLen(msgs)
           /\ HeadLen(msgs) \in 1 .. Len(msgs) /\ IsUser(msgs[HeadLen(msgs)])
<1> DEFINE h == HeadLen(msgs)
           pin == Pinned(msgs, keep).pin
           end == Pinned(msgs, keep).end
           cut == Cut(msgs, keep)
<1>1. /\ Len(msgs) \in Nat /\ h \in 0 .. Len(msgs) /\ cut \in h .. Len(msgs)
      /\ pin \in h .. end /\ end \in h .. cut
    BY HeadEnds, CutFalls, PinnedLies
<1>2. cut - h > end - pin
    BY Zenon DEF Drops
<1>3. \/ h \in 1 .. Len(msgs) /\ IsUser(msgs[h])
      \/ h = Len(msgs)
    BY HeadEnds
<1> HIDE DEF h, pin, end, cut
<1>4. cut > h /\ h # Len(msgs)
    BY <1>1, <1>2
<1>5. h \in 1 .. Len(msgs) /\ IsUser(msgs[h])
    BY <1>3, <1>4
<1> QED
    BY <1>4, <1>5 DEF h, cut

\* Which message ends the head.
LEMMA HeadIs ==
    ASSUME NEW msgs \in Transcripts, NEW h \in 1 .. Len(msgs), IsUser(msgs[h]),
           \A i \in 1 .. h - 1 : ~IsUser(msgs[i])
    PROVE  HeadLen(msgs) = h
<1> DEFINE g == HeadLen(msgs)
<1>1. /\ Len(msgs) \in Nat /\ g \in 0 .. Len(msgs)
      /\ \A i \in 1 .. g - 1 : ~IsUser(msgs[i])
      /\ \/ g \in 1 .. Len(msgs) /\ IsUser(msgs[g])
         \/ g = Len(msgs) /\ \A i \in 1 .. Len(msgs) : ~IsUser(msgs[i])
    BY HeadEnds
<1> HIDE DEF g
<1>2. g \in 1 .. Len(msgs) /\ IsUser(msgs[g])
    BY <1>1
<1>3. ~ (g < h)
  <2>1. g < h => g \in 1 .. h - 1
      BY <1>1, <1>2
  <2> QED
      BY <1>2, <2>1
<1>4. ~ (h < g)
  <2>1. h < g => h \in 1 .. g - 1
      BY <1>1, <1>2
  <2> QED
      BY <1>1, <2>1
<1> QED
    BY <1>1, <1>3, <1>4 DEF g

\* The head of what is kept is the head, and the task its last message.
LEMMA KeptHead ==
    ASSUME NEW msgs \in Transcripts, NEW keep \in Nat, NEW insert \in Transcripts,
           ValidateMessages(msgs), Drops(msgs, keep),
           NEW h, h = HeadLen(msgs), NEW t, t = Kept(msgs, keep, insert)
    PROVE  /\ h \in 1 .. Len(t) /\ t[h] = msgs[h] /\ IsUser(t[h])
           /\ HeadLen(t) = h
<1> DEFINE pin == Pinned(msgs, keep).pin
           end == Pinned(msgs, keep).end
           cut == Cut(msgs, keep)
           b == Len(insert)
<1>1. KeptOf(t, msgs, insert, h, b, pin, end, cut)
    BY KeptParts, Zenon
<1>2. PICK run \in Nat, rest \in Nat :
        /\ Len(t) = ((h + b) + run) + rest
        /\ \A k \in 1 .. h : t[k] = Bare(msgs[k])
    BY <1>1, Zenon DEF KeptOf
<1>3. h \in 1 .. Len(msgs) /\ IsUser(msgs[h]) /\ b \in Nat /\ Len(msgs) \in Nat
    BY DropsAfterHead, HeadEnds
<1>4. t \in Transcripts
    BY KeptIsBare
<1> HIDE DEF b
<1>5. h \in 1 .. Len(t)
    BY <1>2, <1>3
<1>6. t[h] = msgs[h]
  <2>1. h \in 1 .. h
      BY <1>3
  <2>2. Bare(msgs[h]) = msgs[h]
      BY <1>3, UserIsBare
  <2> QED
      BY <1>2, <2>1, <2>2
<1>7. \A i \in 1 .. h - 1 : ~IsUser(t[i])
  <2> SUFFICES ASSUME NEW i \in 1 .. h - 1 PROVE ~IsUser(t[i])
      OBVIOUS
  <2>1. i \in 1 .. h /\ i \in 1 .. Len(msgs)
      BY <1>3
  <2>2. t[i] = Bare(msgs[i]) /\ msgs[i] \in MessageType
      BY <1>2, <2>1, MessageParts DEF Transcripts
  <2>3. ~IsUser(msgs[i])
      BY HeadEnds
  <2> QED
      BY <2>2, <2>3, BareMessage DEF IsUser
<1> QED
    BY <1>3, <1>4, <1>5, <1>6, <1>7, HeadIs

\* A place in four stretches is in one of them.
LEMMA FourPlaces ==
    ASSUME NEW h \in Nat, NEW b \in Nat, NEW run \in Nat, NEW rest \in Nat,
           NEW i \in 1 .. ((h + b) + run) + rest
    PROVE  \/ i \in 1 .. h
           \/ \E k \in 1 .. b : i = h + k
           \/ \E k \in 1 .. run : i = (h + b) + k
           \/ \E k \in 1 .. rest : i = ((h + b) + run) + k
<1>1. CASE i <= h
    BY <1>1
<1>2. CASE h < i /\ i <= h + b
  <2>1. i - h \in 1 .. b /\ i = h + (i - h)
      BY <1>2
  <2> QED
      BY <2>1
<1>3. CASE h + b < i /\ i <= (h + b) + run
  <2>1. i - (h + b) \in 1 .. run /\ i = (h + b) + (i - (h + b))
      BY <1>3
  <2> QED
      BY <2>1
<1>4. CASE (h + b) + run < i
  <2>1. i - ((h + b) + run) \in 1 .. rest /\ i = ((h + b) + run) + (i - ((h + b) + run))
      BY <1>4
  <2> QED
      BY <2>1
<1> QED
    BY <1>1, <1>2, <1>3, <1>4

\* The message i of what is kept is one of the head, the insert, the lifted
\* prompt or the last turns, each after those before it.
ComesFrom(t, i, msgs, insert, h, b, pin, end, cut) ==
    \/ i \in 1 .. h /\ t[i] = Bare(msgs[i])
    \/ \E k \in 1 .. b : i = h + k /\ t[i] = Bare(insert[k])
    \/ \E j \in pin + 1 .. end : t[i] = Bare(msgs[j])
    \/ \E j \in cut + 1 .. Len(msgs) :
          /\ i + cut = ((h + b) + (end - pin)) + j
          /\ t[i] = Bare(msgs[j])

LEMMA KeptComesFrom ==
    ASSUME NEW t, NEW msgs, NEW insert, NEW h, NEW b, NEW pin, NEW end, NEW cut,
           KeptOf(t, msgs, insert, h, b, pin, end, cut), NEW i \in 1 .. Len(t)
    PROVE  ComesFrom(t, i, msgs, insert, h, b, pin, end, cut)
<1>1. PICK run \in Nat, rest \in Nat :
        /\ pin + run = end /\ cut + rest = Len(msgs)
        /\ Len(t) = ((h + b) + run) + rest
        /\ \A k \in 1 .. h : t[k] = Bare(msgs[k])
        /\ \A k \in 1 .. b : t[h + k] = Bare(insert[k])
        /\ \A k \in 1 .. run : t[(h + b) + k] = Bare(msgs[pin + k])
        /\ \A k \in 1 .. rest : t[((h + b) + run) + k] = Bare(msgs[cut + k])
    BY Zenon DEF KeptOf
<1>a. /\ h \in Nat /\ b \in Nat /\ pin \in Nat /\ end \in Nat /\ cut \in Nat
      /\ Len(msgs) \in Nat
    BY Zenon DEF KeptOf
<1>2. i \in 1 .. ((h + b) + run) + rest
    BY <1>1
<1>3. CASE i \in 1 .. h
    BY <1>1, <1>3 DEF ComesFrom
<1>4. CASE \E k \in 1 .. b : i = h + k
  <2>1. PICK k \in 1 .. b : i = h + k
      BY <1>4
  <2>2. t[h + k] = Bare(insert[k])
      BY <1>1
  <2> QED
      BY <2>1, <2>2 DEF ComesFrom
<1>5. CASE \E k \in 1 .. run : i = (h + b) + k
  <2>1. PICK k \in 1 .. run : i = (h + b) + k
      BY <1>5
  <2>2. t[(h + b) + k] = Bare(msgs[pin + k])
      BY <1>1
  <2>3. pin + k \in pin + 1 .. end
      BY <1>1, <1>a
  <2> QED
      BY <2>1, <2>2, <2>3 DEF ComesFrom
<1>6. CASE \E k \in 1 .. rest : i = ((h + b) + run) + k
  <2>1. PICK k \in 1 .. rest : i = ((h + b) + run) + k
      BY <1>6
  <2>2. t[((h + b) + run) + k] = Bare(msgs[cut + k])
      BY <1>1
  <2>3. cut + k \in cut + 1 .. Len(msgs)
      BY <1>1, <1>a
  <2>4. run = end - pin
      BY <1>1, <1>a
  <2>5. i + cut = ((h + b) + (end - pin)) + (cut + k)
      BY <1>a, <2>1, <2>4
  <2> QED
      BY <2>1, <2>2, <2>3, <2>5 DEF ComesFrom
<1> QED
    BY <1>a, <1>2, <1>3, <1>4, <1>5, <1>6, FourPlaces

\* The last message kept of the last turns is their last.
LEMMA KeptEnds ==
    ASSUME NEW t, NEW msgs, NEW insert, NEW h, NEW b, NEW pin, NEW end, NEW cut,
           KeptOf(t, msgs, insert, h, b, pin, end, cut),
           NEW j \in cut + 1 .. Len(msgs),
           Len(t) + cut = ((h + b) + (end - pin)) + j
    PROVE  j = Len(msgs)
<1>1. PICK run \in Nat, rest \in Nat :
        /\ pin + run = end /\ cut + rest = Len(msgs)
        /\ Len(t) = ((h + b) + run) + rest
    BY Zenon DEF KeptOf
<1>2. /\ h \in Nat /\ b \in Nat /\ pin \in Nat /\ end \in Nat /\ cut \in Nat
      /\ Len(msgs) \in Nat
    BY Zenon DEF KeptOf
<1>3. end - pin = run
    BY <1>1, <1>2
<1> QED
    BY <1>1, <1>2, <1>3

\* The numbers of a compaction, and what it keeps by them.
LEMMA KeptNumbers ==
    ASSUME NEW msgs \in Transcripts, NEW keep \in Nat, NEW insert \in Transcripts
    PROVE  \E h \in Nat, b \in Nat, pin \in Nat, end \in Nat, cut \in Nat :
              /\ h = HeadLen(msgs) /\ b = Len(insert) /\ cut = Cut(msgs, keep)
              /\ pin = Pinned(msgs, keep).pin /\ end = Pinned(msgs, keep).end
              /\ h <= pin /\ pin <= end /\ end <= cut /\ cut <= Len(msgs) /\ Len(msgs) \in Nat
              /\ KeptOf(Kept(msgs, keep, insert), msgs, insert, h, b, pin, end, cut)
<1>1. /\ HeadLen(msgs) \in 0 .. Len(msgs) /\ Len(msgs) \in Nat /\ Len(insert) \in Nat
      /\ Cut(msgs, keep) \in HeadLen(msgs) .. Len(msgs)
      /\ Pinned(msgs, keep).pin \in HeadLen(msgs) .. Pinned(msgs, keep).end
      /\ Pinned(msgs, keep).end \in HeadLen(msgs) .. Cut(msgs, keep)
    BY HeadEnds, CutFalls, PinnedLies
<1>2. /\ HeadLen(msgs) \in Nat /\ Cut(msgs, keep) \in Nat
      /\ Pinned(msgs, keep).pin \in Nat /\ Pinned(msgs, keep).end \in Nat
      /\ HeadLen(msgs) <= Pinned(msgs, keep).pin
      /\ Pinned(msgs, keep).pin <= Pinned(msgs, keep).end
      /\ Pinned(msgs, keep).end <= Cut(msgs, keep) /\ Cut(msgs, keep) <= Len(msgs)
    BY <1>1
<1>3. KeptOf(Kept(msgs, keep, insert), msgs, insert, HeadLen(msgs), Len(insert),
             Pinned(msgs, keep).pin, Pinned(msgs, keep).end, Cut(msgs, keep))
    BY KeptParts, Zenon
<1> QED
    BY <1>1, <1>2, <1>3, Zenon

\* What KeepLast and Summarize keep of a transcript the loop could send can be
\* sent: every call kept has its results, and it does not end with the model's
\* words.
THEOREM KeptIsUsable ==
    ASSUME NEW msgs \in Transcripts, NEW keep \in Nat, NEW insert, Insertable(insert),
           ValidateMessages(msgs), Last(msgs).role # "assistant", Drops(msgs, keep)
    PROVE  /\ ValidateMessages(Kept(msgs, keep, insert))
           /\ Last(Kept(msgs, keep, insert)).role # "assistant"
<1>a. insert \in Transcripts /\ Passes(insert) /\ \A k \in 1 .. Len(insert) : IsUser(insert[k])
    BY DEF Insertable, IsSummary
<1>b. PICK t : t = Kept(msgs, keep, insert)
    OBVIOUS
<1>c. PICK h \in Nat, b \in Nat, pin \in Nat, end \in Nat, cut \in Nat :
              /\ h = HeadLen(msgs) /\ b = Len(insert) /\ cut = Cut(msgs, keep)
              /\ pin = Pinned(msgs, keep).pin /\ end = Pinned(msgs, keep).end
              /\ h <= pin /\ pin <= end /\ end <= cut /\ cut <= Len(msgs) /\ Len(msgs) \in Nat
              /\ KeptOf(t, msgs, insert, h, b, pin, end, cut)
    BY <1>a, <1>b, KeptNumbers, Zenon
<1>1. t \in Transcripts /\ Passes(t)
    BY <1>a, <1>b, KeptIsBare, KeptPasses
<1>2. h \in 1 .. Len(t) /\ IsUser(t[h])
    BY <1>a, <1>b, <1>c, KeptHead
<1>3. Len(t) \in Nat \ {0} /\ DOMAIN t = 1 .. Len(t)
    BY <1>1, <1>2 DEF Transcripts
<1>4. ValidateMessages(t)
  <2>1. t # <<>>
      BY <1>3
  <2> QED
      BY <1>1, <2>1, ValidIsPassing
<1>5. Last(msgs) = msgs[Len(msgs)] /\ Last(t) = t[Len(t)]
    BY DEF Last
<1>6. \A j \in 1 .. Len(msgs) : msgs[j] \in MessageType /\ Bare(msgs[j]).role = msgs[j].role
    BY ValidSteps, BareMessage
<1>7. t[Len(t)].role # "assistant"
  <2>0. PICK i : i = Len(t)
      OBVIOUS
  <2>1. ComesFrom(t, i, msgs, insert, h, b, pin, end, cut)
    <3>1. i \in 1 .. Len(t) /\ Len(msgs) \in Nat
        BY <1>3, <1>c, <2>0
    <3>2. KeptOf(t, msgs, insert, h, b, pin, end, cut)
        BY <1>c
    <3> QED
        BY <3>1, <3>2, KeptComesFrom
  <2>2. CASE i \in 1 .. h
    <3>1. i = h
        BY <1>2, <2>0, <2>2
    <3> QED
        BY <1>2, <2>0, <3>1 DEF IsUser
  <2>3. CASE \E k \in 1 .. b : t[i] = Bare(insert[k])
    <3>1. PICK k \in 1 .. b : t[i] = Bare(insert[k])
        BY <2>3
    <3>2. IsUser(insert[k]) /\ insert[k] \in MessageType
        BY <1>a, <1>c, MessageParts DEF Transcripts
    <3> QED
        BY <2>0, <3>1, <3>2, BareMessage DEF IsUser
  <2>4. CASE \E j \in pin + 1 .. end : t[i] = Bare(msgs[j])
    <3>1. PICK j \in pin + 1 .. end : t[i] = Bare(msgs[j])
        BY <2>4
    <3>2. IsUser(msgs[j])
        BY <1>c, PinnedLies DEF IsPrompt
    <3>3. j \in 1 .. Len(msgs)
        BY <1>c
    <3> QED
        BY <1>6, <2>0, <3>1, <3>2, <3>3 DEF IsUser
  <2>5. CASE \E j \in cut + 1 .. Len(msgs) :
                /\ i + cut = ((h + b) + (end - pin)) + j
                /\ t[i] = Bare(msgs[j])
    <3>1. PICK j \in cut + 1 .. Len(msgs) :
                /\ i + cut = ((h + b) + (end - pin)) + j
                /\ t[i] = Bare(msgs[j])
        BY <2>5
    <3>3. j = Len(msgs)
        BY <1>c, <2>0, <3>1, KeptEnds
    <3>4. Len(msgs) \in 1 .. Len(msgs)
        BY ValidSteps
    <3> QED
        BY <1>5, <1>6, <2>0, <3>1, <3>3, <3>4
  <2> QED
      BY <2>1, <2>2, <2>3, <2>4, <2>5 DEF ComesFrom
<1> QED
    BY <1>4, <1>5, <1>7, <1>b

-----------------------------------------------------------------------------
(***************************************************************************)
(* What a compaction keeps of the task, the question and the summary       *)
(***************************************************************************)

\* A summary follows the head, so there is one at most.
SummaryInPlace(msgs) ==
    \A i \in 1 .. Len(msgs) : msgs[i].tag = SummaryTag => i = HeadLen(msgs) + 1

LEMMA KeptSummary ==
    ASSUME NEW msgs \in Transcripts, NEW keep \in Nat, NEW insert, Insertable(insert),
           ValidateMessages(msgs), Drops(msgs, keep), SummaryInPlace(msgs)
    PROVE  SummaryInPlace(Kept(msgs, keep, insert))
<1>a. insert \in Transcripts /\ Len(insert) \in {0, 1}
    BY DEF Insertable
<1>b. PICK t : t = Kept(msgs, keep, insert)
    OBVIOUS
<1>c. PICK h \in Nat, b \in Nat, pin \in Nat, end \in Nat, cut \in Nat :
              /\ h = HeadLen(msgs) /\ b = Len(insert) /\ cut = Cut(msgs, keep)
              /\ pin = Pinned(msgs, keep).pin /\ end = Pinned(msgs, keep).end
              /\ h <= pin /\ pin <= end /\ end <= cut /\ cut <= Len(msgs) /\ Len(msgs) \in Nat
              /\ KeptOf(t, msgs, insert, h, b, pin, end, cut)
    BY <1>a, <1>b, KeptNumbers, Zenon
<1>1. HeadLen(t) = h
    BY <1>a, <1>b, <1>c, KeptHead
<1>2. \A j \in 1 .. Len(msgs) : msgs[j] \in MessageType /\ Bare(msgs[j]).tag = msgs[j].tag
    BY ValidSteps, BareMessage
<1>3. cut > h
    BY <1>c, DropsAfterHead
<1>4. ASSUME NEW i \in 1 .. Len(t), t[i].tag = SummaryTag PROVE i = h + 1
  <2>1. ComesFrom(t, i, msgs, insert, h, b, pin, end, cut)
      BY <1>c, KeptComesFrom
  <2>2. ASSUME NEW j \in 1 .. Len(msgs), t[i] = Bare(msgs[j])
        PROVE  j = h + 1
      BY <1>2, <1>4, <1>c, <2>2 DEF SummaryInPlace
  <2>3. CASE i \in 1 .. h /\ t[i] = Bare(msgs[i])
    <3>1. i \in 1 .. Len(msgs) /\ i # h + 1
        BY <1>c, <2>3
    <3> QED
        BY <2>2, <2>3, <3>1
  <2>4. CASE \E k \in 1 .. b : i = h + k
    <3>1. PICK k \in 1 .. b : i = h + k
        BY <2>4
    <3>2. k = 1
        BY <1>a, <1>c, <3>1
    <3> QED
        BY <3>1, <3>2
  <2>5. CASE \E j \in pin + 1 .. end : t[i] = Bare(msgs[j])
    <3>1. PICK j \in pin + 1 .. end : t[i] = Bare(msgs[j])
        BY <2>5
    <3>2. j \in 1 .. Len(msgs)
        BY <1>c
    <3>3. msgs[j].tag # SummaryTag
        BY <1>c, PinnedLies DEF IsPrompt, IsSummary
    <3> QED
        BY <1>2, <1>4, <3>1, <3>2, <3>3
  <2>6. CASE \E j \in cut + 1 .. Len(msgs) : t[i] = Bare(msgs[j])
    <3>1. PICK j \in cut + 1 .. Len(msgs) : t[i] = Bare(msgs[j])
        BY <2>6
    <3>2. j \in 1 .. Len(msgs) /\ j # h + 1
        BY <1>c, <1>3
    <3> QED
        BY <2>2, <3>1, <3>2
  <2> QED
      BY <2>1, <2>3, <2>4, <2>5, <2>6 DEF ComesFrom
<1> QED
    BY <1>1, <1>4, <1>b DEF SummaryInPlace

\* Where the last run of prompts is, or ends at least.
LEMMA LastRunIs ==
    ASSUME NEW t \in Transcripts, NEW o \in Nat, NEW r \in Nat \ {0},
           HeadLen(t) <= o, o + r <= Len(t),
           \A k \in 1 .. r : IsPrompt(t[o + k]),
           \A j \in o + r + 1 .. Len(t) : ~IsPrompt(t[j])
    PROVE  PromptEnd(t) = o + r /\ PromptStart(t) <= o /\ PromptStart(t) \in Nat
<1> DEFINE h == HeadLen(t)
           e == PromptEnd(t)
           s == PromptStart(t)
           P == {h} \cup {i \in h + 1 .. Len(t) : IsPrompt(t[i])}
<1>1. /\ Len(t) \in Nat /\ h \in 0 .. Len(t) /\ e \in h .. Len(t) /\ s \in h .. e
      /\ \A j \in e + 1 .. Len(t) : ~IsPrompt(t[j])
    BY HeadEnds, LastRun
<1>2. \A k \in h .. e : (\A j \in k + 1 .. e : IsPrompt(t[j])) => s <= k
    BY LastRun
<1>3. e = h \/ IsPrompt(t[e])
  <2>1. e = Max(P)
      BY Zenon DEF PromptEnd
  <2>2. P \in SUBSET Nat /\ P # {} /\ \A y \in P : y <= Len(t)
    <3> HIDE DEF h
    <3> QED
        BY <1>1
  <2>3. Max(P) \in P
    <3> HIDE DEF P
    <3> QED
        BY <1>1, <2>2, MaxNat
  <2> QED
      BY <2>1, <2>3
<1> HIDE DEF h, e, s
<1>4. HeadLen(t) = h
    BY DEF h
<1>5. IsPrompt(t[o + r]) /\ r \in 1 .. r
    OBVIOUS
<1>6. o + r <= e
  <2>1. ~ (o + r \in e + 1 .. Len(t))
      BY <1>1, <1>5
  <2> QED
      BY <1>1, <2>1
<1>7. e <= o + r
  <2>1. SUFFICES ASSUME e > o + r PROVE FALSE
      BY <1>1
  <2>2. e \in o + r + 1 .. Len(t) /\ e # h
      BY <1>1, <1>4, <2>1
  <2> QED
      BY <1>3, <2>2
<1>8. e = o + r
    BY <1>1, <1>6, <1>7
<1>9. \A j \in o + 1 .. e : IsPrompt(t[j])
  <2> SUFFICES ASSUME NEW j \in o + 1 .. e PROVE IsPrompt(t[j])
      OBVIOUS
  <2>1. j - o \in 1 .. r /\ o + (j - o) = j
      BY <1>8
  <2>2. IsPrompt(t[o + (j - o)])
      BY <2>1
  <2> QED
      BY <2>1, <2>2
<1>10. s <= o
  <2>1. o \in h .. e
      BY <1>1, <1>4, <1>8
  <2> QED
      BY <1>2, <1>9, <2>1
<1> QED
    BY <1>1, <1>8, <1>10 DEF e, s

\* The task and the last run of prompts.
Held(msgs) ==
    {msgs[HeadLen(msgs)]} \cup {msgs[i] : i \in PromptStart(msgs) + 1 .. PromptEnd(msgs)}

\* What is a run of prompts of a transcript, wherever it came from, is held.
LEMMA RunIsHeld ==
    ASSUME NEW t \in Transcripts, NEW msgs \in Transcripts, NEW o \in Nat,
           NEW s \in Nat, NEW r \in Nat \ {0},
           HeadLen(t) <= o, o + r <= Len(t),
           \A k \in 1 .. r : t[o + k] = msgs[s + k] /\ IsPrompt(msgs[s + k]),
           \A j \in o + r + 1 .. Len(t) : ~IsPrompt(t[j])
    PROVE  {msgs[i] : i \in s + 1 .. s + r} \subseteq Held(t)
<1>1. PromptEnd(t) = o + r /\ PromptStart(t) <= o /\ PromptStart(t) \in Nat
    BY LastRunIs
<1> SUFFICES ASSUME NEW i \in s + 1 .. s + r PROVE msgs[i] \in Held(t)
    OBVIOUS
<1>2. i - s \in 1 .. r /\ s + (i - s) = i
    OBVIOUS
<1>3. t[o + (i - s)] = msgs[i]
    BY <1>2
<1>4. o + (i - s) \in PromptStart(t) + 1 .. PromptEnd(t)
    BY <1>1, <1>2
<1> QED
    BY <1>3, <1>4 DEF Held

LEMMA BarePrompt ==
    ASSUME NEW m \in MessageType
    PROVE  IsPrompt(Bare(m)) <=> IsPrompt(m)
BY BareMessage DEF IsPrompt, IsSummary, IsUser

\* A cut among the prompts of the last run is the cut before it, or the run
\* comes after the cut.
LEMMA RunAfterCut ==
    ASSUME NEW msgs \in Transcripts, NEW keep \in Nat, Drops(msgs, keep),
           PromptEnd(msgs) > Cut(msgs, keep)
    PROVE  PromptStart(msgs) >= Cut(msgs, keep)
<1> DEFINE h == HeadLen(msgs)
           s == PromptStart(msgs)
           e == PromptEnd(msgs)
           cut == Cut(msgs, keep)
<1>1. /\ Len(msgs) \in Nat /\ h \in Nat /\ s \in h .. e /\ e \in h .. Len(msgs)
      /\ cut \in h .. Len(msgs) /\ cut > h /\ e > cut
      /\ \A j \in s + 1 .. e : IsPrompt(msgs[j])
    BY HeadEnds, LastRun, CutFalls, DropsAfterHead
<1>2. ~IsUser(msgs[cut])
    BY <1>1, CutFalls
<1> HIDE DEF h, s, e, cut
<1>3. s < cut => cut \in s + 1 .. e
    BY <1>1
<1>4. ~ (s < cut)
    BY <1>1, <1>2, <1>3 DEF IsPrompt
<1> QED
    BY <1>1, <1>4 DEF s, cut

\* Places inside a run, and behind it.
LEMMA InRun ==
    ASSUME NEW s \in Nat, NEW r \in Nat, NEW e \in Nat, NEW n \in Nat,
           s + r = e, e <= n, NEW k \in 1 .. r
    PROVE  s + k \in s + 1 .. e /\ s + k \in 1 .. n
OBVIOUS

LEMMA BehindRun ==
    ASSUME NEW c \in Nat, NEW r \in Nat, NEW e \in Nat, NEW n \in Nat,
           c + r = n, e <= c, NEW k \in 1 .. r
    PROVE  c + k \in e + 1 .. n /\ c + k \in 1 .. n
OBVIOUS

\* The task and the question being answered outlive a compaction.
LEMMA KeptHolds ==
    ASSUME NEW msgs \in Transcripts, NEW keep \in Nat, NEW insert, Insertable(insert),
           ValidateMessages(msgs), Last(msgs).role # "assistant", Drops(msgs, keep)
    PROVE  Held(msgs) \subseteq Held(Kept(msgs, keep, insert))
<1>a. insert \in Transcripts
    BY DEF Insertable
<1>b. PICK t : t = Kept(msgs, keep, insert)
    OBVIOUS
<1>c. PICK h \in Nat, b \in Nat, pin \in Nat, end \in Nat, cut \in Nat :
              /\ h = HeadLen(msgs) /\ b = Len(insert) /\ cut = Cut(msgs, keep)
              /\ pin = Pinned(msgs, keep).pin /\ end = Pinned(msgs, keep).end
              /\ h <= pin /\ pin <= end /\ end <= cut /\ cut <= Len(msgs) /\ Len(msgs) \in Nat
              /\ KeptOf(t, msgs, insert, h, b, pin, end, cut)
    BY <1>a, <1>b, KeptNumbers, Zenon
<1>d. PICK run \in Nat, rest \in Nat :
        /\ pin + run = end /\ cut + rest = Len(msgs)
        /\ Len(t) = ((h + b) + run) + rest
        /\ \A k \in 1 .. run : t[(h + b) + k] = Bare(msgs[pin + k])
        /\ \A k \in 1 .. rest : t[((h + b) + run) + k] = Bare(msgs[cut + k])
    BY <1>c, Zenon DEF KeptOf
<1>e. PICK s \in Nat, e \in Nat :
        /\ s = PromptStart(msgs) /\ e = PromptEnd(msgs)
        /\ h <= s /\ s <= e /\ e <= Len(msgs)
        /\ \A j \in s + 1 .. e : IsPrompt(msgs[j])
        /\ \A j \in e + 1 .. Len(msgs) : ~IsPrompt(msgs[j])
  <2>1. /\ PromptStart(msgs) \in h .. PromptEnd(msgs)
        /\ PromptEnd(msgs) \in h .. Len(msgs)
        /\ \A j \in PromptStart(msgs) + 1 .. PromptEnd(msgs) : IsPrompt(msgs[j])
        /\ \A j \in PromptEnd(msgs) + 1 .. Len(msgs) : ~IsPrompt(msgs[j])
      BY <1>c, LastRun
  <2>2. /\ PromptStart(msgs) \in Nat /\ PromptEnd(msgs) \in Nat
        /\ h <= PromptStart(msgs) /\ PromptStart(msgs) <= PromptEnd(msgs)
        /\ PromptEnd(msgs) <= Len(msgs)
      BY <1>c, <2>1
  <2> QED
      BY <2>1, <2>2
<1>f. cut + rest = Len(msgs) /\ e <= Len(msgs) /\ Len(msgs) \in Nat
    BY <1>c, <1>d, <1>e, Zenon
<1>1. t \in Transcripts /\ HeadLen(t) = h /\ t[h] = msgs[h]
    BY <1>a, <1>b, <1>c, KeptIsBare, KeptHead
<1>2. Held(msgs) = {msgs[h]} \cup {msgs[i] : i \in s + 1 .. e}
    BY <1>c, <1>e DEF Held
<1>3. msgs[h] \in Held(t)
    BY <1>1 DEF Held
<1>4. \A j \in 1 .. Len(msgs) :
          /\ IsPrompt(Bare(msgs[j])) <=> IsPrompt(msgs[j])
          /\ IsPrompt(msgs[j]) => Bare(msgs[j]) = msgs[j]
  <2> SUFFICES ASSUME NEW j \in 1 .. Len(msgs)
               PROVE  /\ IsPrompt(Bare(msgs[j])) <=> IsPrompt(msgs[j])
                      /\ IsPrompt(msgs[j]) => Bare(msgs[j]) = msgs[j]
      OBVIOUS
  <2>1. msgs[j] \in MessageType
      BY ValidSteps
  <2>2. IsPrompt(msgs[j]) => Bare(msgs[j]) = msgs[j]
      BY UserIsBare DEF IsPrompt
  <2> QED
      BY <2>1, <2>2, BarePrompt
<1>5. /\ pin = IF s < e /\ e <= cut THEN s ELSE cut
      /\ end = IF s < e /\ e <= cut THEN e ELSE cut
  <2>1. msgs # <<>>
      BY DEF ValidateMessages
  <2>2. InFlight(msgs).pin = s /\ InFlight(msgs).end = e
      BY <1>e, <2>1, InFlightIsLastRun
  <2>3. Pinned(msgs, keep) = IF InFlight(msgs).pin < InFlight(msgs).end
                                    /\ InFlight(msgs).end <= Cut(msgs, keep)
                             THEN InFlight(msgs)
                             ELSE [pin |-> Cut(msgs, keep), end |-> Cut(msgs, keep)]
      BY Zenon DEF Pinned
  <2> QED
      BY <1>c, <2>2, <2>3
<1>6. CASE s = e
  <2>1. s + 1 .. e = {}
      BY <1>6
  <2> QED
      BY <1>2, <1>3, <1>b, <2>1
<1>8. CASE s < e /\ e <= cut
  <2>1. pin = s /\ end = e /\ run \in Nat \ {0} /\ s + run = e
      BY <1>5, <1>8, <1>d
  <2>2. PICK o \in Nat : o = h + b
      OBVIOUS
  <2>3. /\ HeadLen(t) <= o /\ o + run <= Len(t)
      BY <1>1, <1>d, <2>2
  <2>4. ASSUME NEW k \in 1 .. run PROVE t[o + k] = msgs[s + k] /\ IsPrompt(msgs[s + k])
    <3>1. s + k \in s + 1 .. e /\ s + k \in 1 .. Len(msgs)
        BY <1>c, <1>e, <2>1, InRun, Zenon
    <3>2. t[o + k] = Bare(msgs[s + k])
        BY <1>d, <2>1, <2>2
    <3> QED
        BY <1>4, <1>e, <3>1, <3>2
  <2>5. ASSUME NEW j \in o + run + 1 .. Len(t) PROVE ~IsPrompt(t[j])
    <3>1. PICK k \in 1 .. rest : j = (o + run) + k
      <4>1. j - (o + run) \in 1 .. rest /\ j = (o + run) + (j - (o + run))
          BY <1>d, <2>2
      <4> QED
          BY <4>1
    <3>2. t[j] = Bare(msgs[cut + k])
        BY <1>d, <2>2, <3>1
    <3>3. cut + k \in e + 1 .. Len(msgs) /\ cut + k \in 1 .. Len(msgs)
        BY <1>8, <1>c, <1>d, BehindRun, Zenon
    <3> QED
        BY <1>4, <1>e, <3>2, <3>3
  <2>6. {msgs[i] : i \in s + 1 .. s + run} \subseteq Held(t)
      BY <1>1, <2>1, <2>3, <2>4, <2>5, RunIsHeld
  <2> QED
      BY <1>2, <1>3, <1>b, <2>1, <2>6
<1>9. CASE s < e /\ e > cut
  <2>1. s >= cut
      BY <1>9, <1>c, <1>e, RunAfterCut
  <2>2. pin = cut /\ end = cut /\ run = 0
      BY <1>5, <1>9, <1>d, <1>e
  <2>3. PICK r \in Nat \ {0} : s + r = e
    <3>1. e - s \in Nat \ {0} /\ s + (e - s) = e
        BY <1>9
    <3> QED
        BY <3>1
  <2>4. PICK g \in Nat : cut + g = s
    <3>1. s - cut \in Nat /\ cut + (s - cut) = s
        BY <2>1
    <3> QED
        BY <3>1
  <2>5. PICK o \in Nat : o = (h + b) + g
      BY <2>4
  <2>6. HeadLen(t) <= o /\ o + r <= Len(t)
      BY <1>1, <1>d, <1>e, <2>2, <2>3, <2>4, <2>5
  <2>7. \A k \in 1 .. rest : t[(h + b) + k] = Bare(msgs[cut + k])
    <3>1. (h + b) + run = h + b
        BY <2>2
    <3> QED
        BY <1>d, <3>1
  <2>8. ASSUME NEW k \in 1 .. r PROVE t[o + k] = msgs[s + k] /\ IsPrompt(msgs[s + k])
    <3>1. s + k \in s + 1 .. e /\ s + k \in 1 .. Len(msgs)
        BY <1>c, <1>e, <2>3, InRun, Zenon
    <3>2. g + k \in 1 .. rest /\ (h + b) + (g + k) = o + k /\ cut + (g + k) = s + k
        BY <1>f, <2>3, <2>4, <2>5
    <3>3. t[o + k] = Bare(msgs[s + k])
        BY <2>7, <3>2
    <3> QED
        BY <1>4, <1>e, <3>1, <3>3
  <2>9. ASSUME NEW j \in o + r + 1 .. Len(t) PROVE ~IsPrompt(t[j])
    <3>1. PICK k \in 1 .. rest : j = (h + b) + k
      <4>1. j - (h + b) \in 1 .. rest /\ j = (h + b) + (j - (h + b))
          BY <1>d, <2>2, <2>5
      <4> QED
          BY <4>1
    <3>2. t[j] = Bare(msgs[cut + k])
        BY <2>7, <3>1
    <3>3. cut + k \in e + 1 .. Len(msgs) /\ cut + k \in 1 .. Len(msgs)
        BY <1>f, <2>3, <2>4, <2>5, <3>1
    <3> QED
        BY <1>4, <1>e, <3>2, <3>3
  <2>10. {msgs[i] : i \in s + 1 .. s + r} \subseteq Held(t)
      BY <1>1, <2>3, <2>6, <2>8, <2>9, RunIsHeld
  <2> QED
      BY <1>2, <1>3, <1>b, <2>3, <2>10
<1> QED
    BY <1>e, <1>6, <1>8, <1>9
================================================================================
