-------------------------- MODULE ConversationProofs --------------------------
(***************************************************************************)
(* Theorems about Conversation, for any settings, replies and questions:   *)
(* what a response reports of its reasoning controls is what was sent, its *)
(* counts add up, and a transcript in order is accepted by every adapter.  *)
(*                                                                         *)
(* The first sections are about sequences: functions defined by recursion  *)
(* over prefixes, what is picked of a sequence, and sequences joined.      *)
(***************************************************************************)
EXTENDS Conversation, CompactProofs

-----------------------------------------------------------------------------
(***************************************************************************)
(* Functions over prefixes                                                 *)
(***************************************************************************)

\* The functions over 0 .. n with a first value and a step.
Recursions(n, D, first, step) ==
    {f \in [0 .. n -> D] : f[0] = first /\ \A k \in 1 .. n : f[k] = step[<<f[k - 1], k>>]}

\* There is one.
LEMMA Recursion ==
    ASSUME NEW n \in Nat, NEW D, NEW first \in D, NEW step \in [D \X (1 .. n) -> D]
    PROVE  Recursions(n, D, first, step) # {}
<1> DEFINE Good(f, m) == f[0] = first /\ \A k \in 1 .. m : f[k] = step[<<f[k - 1], k>>]
           T == {m \in 0 .. n : \E f \in [0 .. m -> D] : Good(f, m)}
<1>1. 0 \in T
  <2>1. [k \in 0 .. 0 |-> first] \in [0 .. 0 -> D] /\ Good([k \in 0 .. 0 |-> first], 0)
    OBVIOUS
  <2>2. 0 \in 0 .. n
    OBVIOUS
  <2> QED BY <2>1, <2>2, Zenon
<1>2. ASSUME NEW m \in 0 .. n - 1, m \in T PROVE m + 1 \in T
  <2>1. PICK f \in [0 .. m -> D] : Good(f, m)
    BY <1>2, Zenon
  <2> DEFINE g == [k \in 0 .. m + 1 |-> IF k = m + 1 THEN step[<<f[m], m + 1>>] ELSE f[k]]
  <2>2. m \in Nat /\ m + 1 \in 1 .. n /\ m + 1 \in 0 .. n
    OBVIOUS
  <2>3. f[m] \in D /\ step[<<f[m], m + 1>>] \in D
    BY <2>2
  <2>4. g \in [0 .. m + 1 -> D] /\ g[m + 1] = step[<<f[m], m + 1>>]
    BY <2>2, <2>3
  <2>5. \A k \in 0 .. m : g[k] = f[k]
    BY <2>2
  <2>6. ASSUME NEW k \in 1 .. m + 1 PROVE g[k] = step[<<g[k - 1], k>>]
    <3>1. CASE k = m + 1
      <4>1. k - 1 = m /\ m \in 0 .. m
        BY <2>2, <3>1
      <4> QED BY <2>4, <2>5, <3>1, <4>1
    <3>2. CASE k # m + 1
      <4>1. k \in 1 .. m /\ k \in 0 .. m /\ k - 1 \in 0 .. m
        BY <2>2, <3>2
      <4> QED BY <2>1, <2>5, <4>1
    <3> QED BY <3>1, <3>2
  <2>7. g[0] = first
    <3>1. 0 \in 0 .. m
      BY <2>2
    <3> QED BY <2>1, <2>5, <3>1
  <2> HIDE DEF g
  <2> QED BY <2>2, <2>4, <2>6, <2>7, Zenon
<1> HIDE DEF T
<1>3. \A m \in 0 .. n : m \in T
  BY <1>1, <1>2, StretchInduction
<1>4. n \in T
  BY <1>3
<1> QED BY <1>4, Zenon DEF T, Recursions

SameUpTo(n, f, g) == \A k \in 0 .. n : f[k] = g[k]

\* And there is no other.
LEMMA OnlyOne ==
    ASSUME NEW n \in Nat, NEW f, NEW g, f[0] = g[0],
           \A k \in 1 .. n : f[k - 1] = g[k - 1] => f[k] = g[k]
    PROVE  SameUpTo(n, f, g)
<1> DEFINE T == {k \in 0 .. n : f[k] = g[k]}
<1>1. 0 \in T
  OBVIOUS
<1>2. ASSUME NEW k \in 0 .. n - 1, k \in T PROVE k + 1 \in T
  <2>1. k + 1 \in 1 .. n /\ k + 1 \in 0 .. n /\ (k + 1) - 1 = k
    OBVIOUS
  <2>2. f[(k + 1) - 1] = g[(k + 1) - 1] => f[k + 1] = g[k + 1]
    BY <2>1, Zenon
  <2> QED BY <1>2, <2>1, <2>2
<1> HIDE DEF T
<1>3. \A k \in 0 .. n : k \in T
  BY <1>1, <1>2, StretchInduction
<1> QED BY <1>3 DEF T, SameUpTo

\* What is picked of a sequence, place by place.
LEMMA PickedUnfolds ==
    ASSUME NEW parts, IsSequence(parts), NEW places
    PROVE  \E f \in [0 .. Len(parts) -> Seq(Range(parts))] :
              /\ f[0] = <<>> /\ Picked(parts, places) = f[Len(parts)]
              /\ \A k \in 1 .. Len(parts) :
                    f[k] = IF k \in places THEN Append(f[k - 1], parts[k]) ELSE f[k - 1]
<1> DEFINE n == Len(parts)
           D == Seq(Range(parts))
           Next1(s, k) == IF k \in places THEN Append(s, parts[k]) ELSE s
           step == [x \in D \X (1 .. n) |-> Next1(x[1], x[2])]
           Rule(f) == [k \in 0 .. n |-> IF k = 0 THEN <<>> ELSE Next1(f[k - 1], k)]
<1>1. n \in Nat /\ \A k \in 1 .. n : parts[k] \in Range(parts)
  BY DEF IsSequence, Range
<1>2. <<>> \in D /\ \A s \in D, k \in 1 .. n : Next1(s, k) \in D
  BY <1>1
<1>3. step \in [D \X (1 .. n) -> D] /\ \A s \in D, k \in 1 .. n : step[<<s, k>>] = Next1(s, k)
  BY <1>2
<1> HIDE DEF step, D, n, Next1
<1>a. n \in Nat /\ <<>> \in D /\ step \in [D \X (1 .. n) -> D]
  BY <1>1, <1>2, <1>3, Zenon
<1>b. Recursions(n, D, <<>>, step) # {}
  BY <1>a, Recursion, Zenon
<1>4. PICK f \in [0 .. n -> D] : f[0] = <<>> /\ \A k \in 1 .. n : f[k] = step[<<f[k - 1], k>>]
  BY <1>b, Zenon DEF Recursions
<1>5. ASSUME NEW k \in 1 .. n PROVE k - 1 \in 0 .. n /\ f[k] = Next1(f[k - 1], k)
  <2>1. k - 1 \in 0 .. n
    BY <1>a
  <2>2. f[k - 1] \in D
    BY <2>1
  <2> QED BY <1>3, <1>4, <2>1, <2>2
<1>6. f = Rule(f)
  BY <1>1, <1>4, <1>5
<1> DEFINE g == CHOOSE g : g = Rule(g)
<1>7. g = Rule(g)
  BY <1>6, Zenon
<1>8. Picked(parts, places) = g[n]
  BY Zenon DEF Picked, Next1, n
<1>9. f[0] = g[0]
  <2>1. 0 \in 0 .. n
    BY <1>a
  <2>2. g[0] = <<>>
    BY <1>7, <2>1
  <2> QED BY <1>4, <2>1, <2>2
<1>10. \A k \in 1 .. n : f[k - 1] = g[k - 1] => f[k] = g[k]
  <2> SUFFICES ASSUME NEW k \in 1 .. n, f[k - 1] = g[k - 1] PROVE f[k] = g[k]
    BY Zenon
  <2>1. k \in 0 .. n /\ k # 0
    BY <1>a
  <2>2. g[k] = Next1(g[k - 1], k)
    BY <1>7, <2>1
  <2> QED BY <1>5, <2>2
<1> HIDE DEF g
<1>11. SameUpTo(n, f, g)
  BY <1>a, <1>9, <1>10, OnlyOne, Zenon
<1>12. Picked(parts, places) = f[n]
  <2>1. n \in 0 .. n
    BY <1>a
  <2> QED BY <1>8, <1>11, <2>1 DEF SameUpTo
<1> QED BY <1>4, <1>5, <1>12, Zenon DEF Next1, D, n

\* A sequence with one more at its end.
LEMMA OneMore ==
    ASSUME NEW S, NEW s \in Seq(S), NEW x \in S
    PROVE  /\ Append(s, x) \in Seq(S)
           /\ DOMAIN Append(s, x) = DOMAIN s \cup {Len(s) + 1}
           /\ Append(s, x)[Len(s) + 1] = x
           /\ \A j \in DOMAIN s : Append(s, x)[j] = s[j]
OBVIOUS

\* What is picked of a sequence is in it, at one of the places, and nothing at
\* those places is missing.
LEMMA PickedAre ==
    ASSUME NEW parts, IsSequence(parts), NEW places, NEW s, s = Picked(parts, places)
    PROVE  /\ IsSequence(s)
           /\ \A j \in DOMAIN s : \E i \in DOMAIN parts : i \in places /\ s[j] = parts[i]
           /\ \A i \in DOMAIN parts : i \in places => \E j \in DOMAIN s : s[j] = parts[i]
<1> DEFINE n == Len(parts)
           S == Range(parts)
<1>1. /\ n \in Nat /\ DOMAIN parts = 1 .. n
      /\ \A k \in 1 .. n : parts[k] \in S
  BY DEF IsSequence, Range
<1>2. PICK f \in [0 .. n -> Seq(S)] :
        /\ f[0] = <<>> /\ Picked(parts, places) = f[n]
        /\ \A k \in 1 .. n :
              f[k] = IF k \in places THEN Append(f[k - 1], parts[k]) ELSE f[k - 1]
  BY PickedUnfolds
<1> HIDE DEF n, S
<1> DEFINE In(k) == \A j \in DOMAIN f[k] : \E i \in 1 .. k : i \in places /\ f[k][j] = parts[i]
           All(k) == \A i \in 1 .. k : i \in places => \E j \in DOMAIN f[k] : f[k][j] = parts[i]
           T == {k \in 0 .. n : In(k) /\ All(k)}
<1>3. 0 \in T
  <2>1. 0 \in 0 .. n
    BY <1>1
  <2> QED BY <1>2, <2>1
<1>4. ASSUME NEW k \in 0 .. n - 1, k \in T PROVE k + 1 \in T
  <2>1. /\ k \in Nat /\ k + 1 \in 1 .. n /\ k + 1 \in 0 .. n /\ (k + 1) - 1 = k
        /\ k + 1 \in 1 .. k + 1
        /\ \A i \in 1 .. k : i \in 1 .. k + 1
        /\ \A i \in 1 .. k + 1 : i \in 1 .. k \/ i = k + 1
    BY <1>1
  <2>2. f[k] \in Seq(S) /\ parts[k + 1] \in S
    BY <1>1, <1>2, <2>1
  <2>3. f[k + 1] = IF k + 1 \in places THEN Append(f[k], parts[k + 1]) ELSE f[k]
    BY <1>2, <2>1
  <2>4. In(k) /\ All(k)
    BY <1>4
  <2>5. CASE k + 1 \in places
    <3>1. /\ DOMAIN f[k + 1] = DOMAIN f[k] \cup {Len(f[k]) + 1}
          /\ f[k + 1][Len(f[k]) + 1] = parts[k + 1]
          /\ \A j \in DOMAIN f[k] : f[k + 1][j] = f[k][j]
      BY <2>2, <2>3, <2>5, OneMore
    <3>2. In(k + 1)
      <4> SUFFICES ASSUME NEW j \in DOMAIN f[k + 1]
                   PROVE  \E i \in 1 .. k + 1 : i \in places /\ f[k + 1][j] = parts[i]
        BY Zenon
      <4>1. CASE j \in DOMAIN f[k]
        <5>1. PICK i \in 1 .. k : i \in places /\ f[k][j] = parts[i]
          BY <2>4, <4>1, Zenon
        <5>2. f[k + 1][j] = f[k][j] /\ i \in 1 .. k + 1
          BY <2>1, <3>1, <4>1, Zenon
        <5> QED BY <5>1, <5>2, Zenon
      <4>2. CASE j = Len(f[k]) + 1
        BY <2>1, <2>5, <3>1, <4>2, Zenon
      <4> QED BY <3>1, <4>1, <4>2, Zenon
    <3>3. All(k + 1)
      BY <2>1, <2>4, <3>1, Zenon
    <3> QED BY <2>1, <3>2, <3>3, Zenon
  <2>6. CASE k + 1 \notin places
    <3>1. f[k + 1] = f[k]
      BY <2>3, <2>6, Zenon
    <3>2. In(k + 1) /\ All(k + 1)
      BY <2>1, <2>4, <2>6, <3>1, Zenon
    <3> QED BY <2>1, <3>2, Zenon
  <2> QED BY <2>5, <2>6, Zenon
<1> HIDE DEF T
<1>5. \A k \in 0 .. n : k \in T
  BY <1>1, <1>3, <1>4, StretchInduction
<1>6. n \in 0 .. n
  BY <1>1
<1>7. In(n) /\ All(n)
  BY <1>5, <1>6, Zenon DEF T
<1>8. IsSequence(s)
  <2>1. s \in Seq(S)
    BY <1>2, <1>6
  <2> QED BY <2>1 DEF IsSequence, Range
<1> QED BY <1>1, <1>2, <1>7, <1>8, Zenon

\* Sequences put one after the other, as far as the k+1st, for each k.
Flattenings(S, seqs, n) ==
    {f \in [0 .. n -> Seq(S)] :
        /\ f[0] = seqs[1] /\ FlattenSeq(seqs) = f[n]
        /\ \A k \in 1 .. n : f[k] = f[k - 1] \o seqs[k + 1]}

\* FlattenSeq is such a function: it joins one sequence after the other.
LEMMA FlattenUnfolds ==
    ASSUME NEW S, NEW seqs \in Seq(Seq(S)), NEW n \in Nat, Len(seqs) = n + 1
    PROVE  Flattenings(S, seqs, n) # {}
<1> DEFINE D == Seq(S)
           Next1(s, k) == s \o seqs[k + 1]
           step == [x \in D \X (1 .. n) |-> Next1(x[1], x[2])]
           Rule(f) == [i \in 1 .. Len(seqs) |-> IF i = 1 THEN seqs[i] ELSE f[i - 1] \o seqs[i]]
<1>1. \A k \in 0 .. n : k + 1 \in 1 .. Len(seqs) /\ seqs[k + 1] \in D
  OBVIOUS
<1>2. \A s \in D, k \in 1 .. n : Next1(s, k) \in D
  <2> SUFFICES ASSUME NEW s \in D, NEW k \in 1 .. n PROVE Next1(s, k) \in D
    OBVIOUS
  <2>1. seqs[k + 1] \in Seq(S)
    BY <1>1
  <2> QED BY <2>1
<1>3. step \in [D \X (1 .. n) -> D] /\ \A s \in D, k \in 1 .. n : step[<<s, k>>] = Next1(s, k)
  BY <1>2
<1>4. seqs[1] \in D
  BY <1>1
<1> HIDE DEF step, D, Next1
<1>a. n \in Nat /\ seqs[1] \in D /\ step \in [D \X (1 .. n) -> D]
  BY <1>3, <1>4, Zenon
<1>b. Recursions(n, D, seqs[1], step) # {}
  BY <1>a, Recursion, Zenon
<1>5. PICK f \in [0 .. n -> D] : f[0] = seqs[1] /\ \A k \in 1 .. n : f[k] = step[<<f[k - 1], k>>]
  BY <1>b, Zenon DEF Recursions
<1>6. ASSUME NEW k \in 1 .. n PROVE k - 1 \in 0 .. n /\ f[k] = Next1(f[k - 1], k)
  <2>1. k - 1 \in 0 .. n
    BY <1>a
  <2>2. f[k - 1] \in D
    BY <2>1
  <2> QED BY <1>3, <1>5, <2>1, <2>2
<1> DEFINE h == [i \in 1 .. Len(seqs) |-> f[i - 1]]
<1>7. h = Rule(h)
  <2>1. ASSUME NEW i \in 1 .. Len(seqs), i # 1 PROVE h[i] = h[i - 1] \o seqs[i]
    <3>1. i - 1 \in 1 .. n /\ i - 1 \in 1 .. Len(seqs) /\ (i - 1) + 1 = i
      BY <2>1
    <3>2. f[i - 1] = f[(i - 1) - 1] \o seqs[i]
      BY <1>6, <3>1 DEF Next1
    <3> QED BY <3>1, <3>2
  <2>2. 1 \in 1 .. Len(seqs) => h[1] = seqs[1]
    BY <1>5
  <2>3. ASSUME NEW i \in 1 .. Len(seqs)
        PROVE  h[i] = IF i = 1 THEN seqs[i] ELSE h[i - 1] \o seqs[i]
    BY <2>1, <2>2
  <2> QED BY <2>3
<1> HIDE DEF h
<1> DEFINE g == CHOOSE g : g = Rule(g)
           G == [k \in 0 .. n |-> g[k + 1]]
<1>8. g = Rule(g)
  BY <1>7, Zenon
<1>9. FlattenSeq(seqs) = g[Len(seqs)]
  <2>1. Len(seqs) # 0
    OBVIOUS
  <2> QED BY <2>1, Zenon DEF FlattenSeq
<1> HIDE DEF g
<1>10. f[0] = G[0]
  <2>1. 0 \in 0 .. n /\ 1 \in 1 .. Len(seqs)
    OBVIOUS
  <2>2. g[1] = seqs[1]
    BY <1>8, <2>1
  <2> QED BY <1>5, <2>1, <2>2
<1>11. \A k \in 1 .. n : f[k - 1] = G[k - 1] => f[k] = G[k]
  <2> SUFFICES ASSUME NEW k \in 1 .. n, f[k - 1] = G[k - 1] PROVE f[k] = G[k]
    BY Zenon
  <2>1. /\ k \in 0 .. n /\ k - 1 \in 0 .. n
        /\ k + 1 \in 1 .. Len(seqs) /\ k + 1 # 1 /\ (k + 1) - 1 = k /\ (k - 1) + 1 = k
    OBVIOUS
  <2>2. g[k + 1] = g[k] \o seqs[k + 1]
    BY <1>8, <2>1
  <2> QED BY <1>6, <2>1, <2>2 DEF Next1
<1> HIDE DEF G
<1>12. SameUpTo(n, f, G)
  BY <1>10, <1>11, OnlyOne, Zenon
<1>13. FlattenSeq(seqs) = f[n]
  <2>1. n \in 0 .. n /\ n + 1 = Len(seqs)
    OBVIOUS
  <2> QED BY <1>9, <1>12, <2>1 DEF SameUpTo, G
<1> QED BY <1>5, <1>6, <1>13, Zenon DEF Flattenings, Next1, D

\* Sequences one after the other make a sequence, empty only if all of them
\* are.
LEMMA FlattenedAre ==
    ASSUME NEW S, NEW seqs \in Seq(Seq(S))
    PROVE  /\ FlattenSeq(seqs) \in Seq(S)
           /\ \A i \in DOMAIN seqs : seqs[i] # <<>> => FlattenSeq(seqs) # <<>>
<1>1. CASE Len(seqs) = 0
  <2>1. FlattenSeq(seqs) = seqs
    BY <1>1, Zenon DEF FlattenSeq
  <2> QED BY <1>1, <2>1
<1>2. CASE Len(seqs) # 0
  <2>1. PICK n \in Nat : Len(seqs) = n + 1
    BY <1>2
  <2>2. PICK f \in [0 .. n -> Seq(S)] :
          /\ f[0] = seqs[1] /\ FlattenSeq(seqs) = f[n]
          /\ \A k \in 1 .. n : f[k] = f[k - 1] \o seqs[k + 1]
    <3>1. Flattenings(S, seqs, n) # {}
      BY <2>1, FlattenUnfolds, Zenon
    <3> QED BY <3>1, Zenon DEF Flattenings
  <2> DEFINE T == {k \in 0 .. n : \A i \in 1 .. k + 1 : seqs[i] # <<>> => f[k] # <<>>}
  <2>3. 0 \in T
    BY <2>2
  <2>4. ASSUME NEW k \in 0 .. n - 1, k \in T PROVE k + 1 \in T
    <3>1. /\ k + 1 \in 0 .. n /\ k + 1 \in 1 .. n /\ (k + 1) - 1 = k /\ k \in 0 .. n
          /\ (k + 1) + 1 \in 1 .. Len(seqs)
          /\ \A i \in 1 .. (k + 1) + 1 : i \in 1 .. k + 1 \/ i = (k + 1) + 1
      BY <2>1
    <3>2. f[k + 1] = f[k] \o seqs[(k + 1) + 1]
      BY <2>2, <3>1
    <3>3. f[k] \in Seq(S) /\ seqs[(k + 1) + 1] \in Seq(S)
      BY <2>2, <3>1
    <3>4. f[k] # <<>> \/ seqs[(k + 1) + 1] # <<>> => f[k + 1] # <<>>
      BY <3>2, <3>3
    <3> QED BY <2>4, <3>1, <3>4
  <2> HIDE DEF T
  <2>5. \A k \in 0 .. n : k \in T
    BY <2>3, <2>4, StretchInduction
  <2>6. n \in 0 .. n /\ DOMAIN seqs = 1 .. n + 1
    BY <2>1
  <2>7. n \in T
    BY <2>5, <2>6, Zenon
  <2> QED BY <2>2, <2>6, <2>7 DEF T
<1> QED BY <1>1, <1>2

-----------------------------------------------------------------------------
(***************************************************************************)
(* Sequences of anything                                                   *)
(***************************************************************************)

\* A sequence is empty if and only if it has no places.
LEMMA EmptySequence ==
    ASSUME NEW s, IsSequence(s)
    PROVE  /\ DOMAIN s = 1 .. Len(s) /\ Len(s) \in Nat
           /\ s = <<>> <=> DOMAIN s = {}
BY DEF IsSequence

\* What is a function on 1 .. n is a sequence.
LEMMA AnySequence ==
    ASSUME NEW n \in Nat, NEW s, s = [i \in 1 .. n |-> s[i]]
    PROVE  IsSequence(s) /\ DOMAIN s = 1 .. n /\ Len(s) = n
<1>1. DOMAIN s = 1 .. n
  OBVIOUS
<1>2. \A i \in 1 .. n : s[i] \in Range(s)
  BY <1>1 DEF Range
<1>3. s \in [1 .. n -> Range(s)]
  BY <1>1, <1>2, Zenon
<1>4. s \in Seq(Range(s)) /\ Len(s) = n
  BY <1>3
<1> QED BY <1>1, <1>4 DEF IsSequence

\* A sequence is a function.
LEMMA IsFunction == ASSUME NEW S, NEW s \in Seq(S) PROVE s = [i \in 1 .. Len(s) |-> s[i]]
OBVIOUS

\* One thing is a sequence.
LEMMA Single == ASSUME NEW x PROVE IsSequence(<<x>>) /\ <<x>> # <<>>
BY DEF IsSequence, Range

\* A sequence that has the elements of two.
JoinOf(u, s, t) ==
    /\ IsSequence(u)
    /\ s # <<>> \/ t # <<>> => u # <<>>
    /\ \A i \in DOMAIN u :
          (\E j \in DOMAIN s : u[i] = s[j]) \/ (\E j \in DOMAIN t : u[i] = t[j])

\* Two sequences joined are such a sequence.
LEMMA BothJoin ==
    ASSUME NEW s, NEW t, IsSequence(s), IsSequence(t), NEW u, u = s \o t
    PROVE  JoinOf(u, s, t)
<1>1. /\ Len(s) \in Nat /\ DOMAIN s = 1 .. Len(s) /\ Len(t) \in Nat /\ DOMAIN t = 1 .. Len(t)
      /\ s = <<>> <=> DOMAIN s = {}
      /\ t = <<>> <=> DOMAIN t = {}
  BY EmptySequence
<1>2. u = [i \in 1 .. Len(s) + Len(t) |-> IF i <= Len(s) THEN s[i] ELSE t[i - Len(s)]]
  <2> DEFINE S == Range(s) \cup Range(t)
  <2>1. s \in Seq(S) /\ t \in Seq(S)
    BY DEF IsSequence
  <2> HIDE DEF S
  <2>2. u \in Seq(S) /\ Len(u) = Len(s) + Len(t)
    BY <2>1
  <2>3. \A i \in 1 .. Len(s) + Len(t) : u[i] = IF i <= Len(s) THEN s[i] ELSE t[i - Len(s)]
    BY <2>1
  <2>4. u = [i \in 1 .. Len(s) + Len(t) |-> u[i]]
    <3>1. u = [i \in 1 .. Len(u) |-> u[i]]
      BY <2>2, IsFunction, Zenon
    <3> QED BY <2>2, <3>1, Zenon
  <2> QED BY <2>3, <2>4, Zenon
<1>3. IsSequence(u) /\ DOMAIN u = 1 .. Len(s) + Len(t)
  <2>1. u = [i \in 1 .. Len(s) + Len(t) |-> u[i]] /\ Len(s) + Len(t) \in Nat
    BY <1>1, <1>2
  <2> QED BY <2>1, AnySequence
<1>4. s # <<>> \/ t # <<>> => u # <<>>
  BY <1>1, <1>3
<1>5. ASSUME NEW i \in DOMAIN u
      PROVE  (\E j \in DOMAIN s : u[i] = s[j]) \/ (\E j \in DOMAIN t : u[i] = t[j])
  <2>1. CASE i <= Len(s)
    BY <1>1, <1>2, <1>3, <2>1
  <2>2. CASE ~(i <= Len(s))
    <3>1. i - Len(s) \in DOMAIN t /\ u[i] = t[i - Len(s)]
      BY <1>1, <1>2, <1>3, <2>2
    <3> QED BY <3>1
  <2> QED BY <2>1, <2>2
<1> QED BY <1>3, <1>4, <1>5 DEF JoinOf

\* Sequences of which one is not empty do not join to nothing.
LEMMA FlattenedSay ==
    ASSUME NEW seqs, IsSequence(seqs), \A i \in DOMAIN seqs : IsSequence(seqs[i]),
           NEW i \in DOMAIN seqs, seqs[i] # <<>>
    PROVE  FlattenSeq(seqs) # <<>>
<1> DEFINE S == UNION {Range(seqs[k]) : k \in DOMAIN seqs}
<1>1. Len(seqs) \in Nat /\ DOMAIN seqs = 1 .. Len(seqs)
  BY EmptySequence
<1>2. ASSUME NEW k \in DOMAIN seqs PROVE seqs[k] \in Seq(S)
  <2>1. \A j \in DOMAIN seqs[k] : seqs[k][j] \in S
    BY DEF Range
  <2>2. /\ Len(seqs[k]) \in Nat
        /\ DOMAIN seqs[k] = 1 .. Len(seqs[k])
        /\ seqs[k] = [j \in 1 .. Len(seqs[k]) |-> seqs[k][j]]
    BY DEF IsSequence
  <2> HIDE DEF S
  <2> QED BY <2>1, <2>2
<1> HIDE DEF S
<1>3. seqs = [k \in 1 .. Len(seqs) |-> seqs[k]]
  BY DEF IsSequence
<1>4. seqs \in Seq(Seq(S))
  BY <1>1, <1>2, <1>3
<1> QED BY <1>4, FlattenedAre

\* What was picked of a sequence, said of the result.
PickOf(s, parts, places) ==
    /\ IsSequence(s)
    /\ \A j \in DOMAIN s : \E i \in DOMAIN parts : i \in places /\ s[j] = parts[i]
    /\ \A i \in DOMAIN parts : i \in places => \E j \in DOMAIN s : s[j] = parts[i]

\* Picked is such a result.
LEMMA PicksAre ==
    ASSUME NEW parts, IsSequence(parts), NEW places
    PROVE  PickOf(Picked(parts, places), parts, places)
<1> DEFINE s == Picked(parts, places)
<1>1. s = Picked(parts, places)
  OBVIOUS
<1> HIDE DEF s
<1>2. PickOf(s, parts, places)
  BY <1>1, PickedAre DEF PickOf
<1> QED BY <1>1, <1>2, Zenon

\* The parts of one kind.
LEMMA OnlyAre ==
    ASSUME NEW parts, IsSequence(parts), NEW kind, NEW s, s = Only(kind, parts)
    PROVE  /\ IsSequence(s)
           /\ \A j \in DOMAIN s : \E i \in DOMAIN parts : s[j] = parts[i] /\ parts[i].kind = kind
           /\ s # <<>> <=> HasKind(kind, parts)
           /\ IdsOf(s) # <<>> <=> HasKind(kind, parts)
<1> DEFINE places == {i \in DOMAIN parts : parts[i].kind = kind}
<1>1. s = Picked(parts, places)
  BY DEF Only
<1>2. /\ IsSequence(s)
      /\ \A j \in DOMAIN s : \E i \in DOMAIN parts : i \in places /\ s[j] = parts[i]
      /\ \A i \in DOMAIN parts : i \in places => \E j \in DOMAIN s : s[j] = parts[i]
  <2> HIDE DEF places
  <2> QED BY <1>1, PickedAre
<1>3. HasKind(kind, parts) <=> DOMAIN s # {}
  BY <1>2 DEF HasKind
<1>4. IdsOf(s) = <<>> <=> DOMAIN s = {}
  <2>1. IdsOf(s) = [i \in 1 .. Len(s) |-> s[i].id] /\ Len(s) \in Nat /\ DOMAIN s = 1 .. Len(s)
    BY <1>2, EmptySequence DEF IdsOf
  <2> QED BY <2>1
<1>5. s = <<>> <=> DOMAIN s = {}
  BY <1>2, EmptySequence
<1> QED BY <1>2, <1>3, <1>4, <1>5

-----------------------------------------------------------------------------
(***************************************************************************)
(* Joining, one more at a time                                             *)
(***************************************************************************)

\* A sequence of sequences.
AreSequences(ss) == IsSequence(ss) /\ \A i \in DOMAIN ss : IsSequence(ss[i])

\* The elements are of some type.
Typed(ss) == \E S : ss \in Seq(Seq(S))

LEMMA CommonType == ASSUME NEW ss, AreSequences(ss) PROVE Typed(ss)
<1> DEFINE S == UNION {Range(ss[k]) : k \in DOMAIN ss}
<1>1. Len(ss) \in Nat /\ DOMAIN ss = 1 .. Len(ss)
  BY EmptySequence DEF AreSequences
<1>2. ASSUME NEW k \in DOMAIN ss PROVE ss[k] \in Seq(S)
  <2>1. \A j \in DOMAIN ss[k] : ss[k][j] \in S
    BY DEF Range
  <2>2. /\ Len(ss[k]) \in Nat
        /\ DOMAIN ss[k] = 1 .. Len(ss[k])
        /\ ss[k] = [j \in 1 .. Len(ss[k]) |-> ss[k][j]]
    BY DEF IsSequence, AreSequences
  <2> HIDE DEF S
  <2> QED BY <2>1, <2>2
<1> HIDE DEF S
<1>3. ss = [k \in 1 .. Len(ss) |-> ss[k]]
  BY DEF IsSequence, AreSequences
<1>4. ss \in Seq(Seq(S))
  BY <1>1, <1>2, <1>3
<1> QED BY <1>4, Zenon DEF Typed

\* What has a type is a sequence.
LEMMA TypedIsSequence == ASSUME NEW S, NEW s \in Seq(S) PROVE IsSequence(s)
<1>1. s = [i \in 1 .. Len(s) |-> s[i]]
  BY IsFunction, Zenon
<1>2. Len(s) \in Nat
  OBVIOUS
<1> QED BY <1>1, <1>2, AnySequence

\* Nothing joined is nothing.
LEMMA FlattenNone == FlattenSeq(<<>>) = <<>>
<1>1. Len(<<>>) = 0
  OBVIOUS
<1> QED BY <1>1, Zenon DEF FlattenSeq

\* A sequence of n things with one more at its end.
OneMoreThan(t, s, n, x) ==
    /\ IsSequence(t) /\ Len(t) = n + 1 /\ DOMAIN t = 1 .. n + 1
    /\ t[n + 1] = x
    /\ \A j \in 1 .. n : t[j] = s[j]

LEMMA AppendTo ==
    ASSUME NEW s, IsSequence(s), NEW n, n = Len(s), NEW x
    PROVE  OneMoreThan(Append(s, x), s, n, x)
<1> DEFINE S == Range(s) \cup {x}
           t == Append(s, x)
<1>1. s \in Seq(S) /\ x \in S
  BY DEF IsSequence
<1> HIDE DEF S
<1>2. t \in Seq(S) /\ Len(t) = Len(s) + 1 /\ DOMAIN t = 1 .. Len(s) + 1
      /\ t[Len(s) + 1] = x /\ \A j \in 1 .. Len(s) : t[j] = s[j]
  BY <1>1
<1>3. IsSequence(t)
  BY <1>2, TypedIsSequence
<1> QED BY <1>2, <1>3 DEF OneMoreThan

\* Two sequences with the same elements are the same.
LEMMA SameElements ==
    ASSUME NEW s, NEW t, IsSequence(s), IsSequence(t), Len(s) = Len(t),
           \A j \in 1 .. Len(s) : s[j] = t[j]
    PROVE  s = t
<1>1. s = [i \in 1 .. Len(s) |-> s[i]] /\ t = [i \in 1 .. Len(t) |-> t[i]]
  BY IsFunction, Zenon DEF IsSequence
<1> QED BY <1>1, Zenon

\* The elements of two sequences joined, of n and m things.
EndToEnd(u, s, n, t, m) ==
    /\ IsSequence(u) /\ Len(u) = n + m
    /\ \A j \in 1 .. n : u[j] = s[j]
    /\ \A j \in 1 .. m : u[n + j] = t[j]

LEMMA JoinElements ==
    ASSUME NEW s, NEW t, IsSequence(s), IsSequence(t), NEW n, n = Len(s), NEW m, m = Len(t)
    PROVE  EndToEnd(s \o t, s, n, t, m)
<1> DEFINE S == Range(s) \cup Range(t)
           u == s \o t
<1>1. s \in Seq(S) /\ t \in Seq(S)
  BY DEF IsSequence
<1> HIDE DEF S
<1>2. u \in Seq(S) /\ Len(u) = Len(s) + Len(t)
      /\ \A j \in 1 .. Len(s) : u[j] = s[j]
  BY <1>1
<1>3. ASSUME NEW j \in 1 .. Len(t) PROVE u[Len(s) + j] = t[j]
  <2>1. Len(s) \in Nat /\ Len(t) \in Nat
    BY <1>1
  <2>2. Len(s) + j \in 1 .. Len(s) + Len(t) /\ ~(Len(s) + j <= Len(s)) /\ (Len(s) + j) - Len(s) = j
    BY <2>1
  <2> QED BY <1>1, <2>2
<1>4. IsSequence(u)
  BY <1>2, TypedIsSequence
<1> QED BY <1>2, <1>3, <1>4 DEF EndToEnd

LEMMA JoinIsSequence ==
    ASSUME NEW s, NEW t, IsSequence(s), IsSequence(t) PROVE IsSequence(s \o t)
BY JoinElements, Zenon DEF EndToEnd

\* Nothing joined to a sequence leaves it as it is,
LEMMA JoinNothing ==
    ASSUME NEW s, IsSequence(s) PROVE <<>> \o s = s /\ s \o <<>> = s
BY DEF IsSequence

\* and it does not matter what is joined first.
Associate(s, t, u) == (s \o t) \o u = s \o (t \o u)

LEMMA JoinAssociates ==
    ASSUME NEW s, NEW t, NEW u, IsSequence(s), IsSequence(t), IsSequence(u)
    PROVE  Associate(s, t, u)
<1> DEFINE S == Range(s) \cup Range(t) \cup Range(u)
<1>1. s \in Seq(S) /\ t \in Seq(S) /\ u \in Seq(S)
  BY DEF IsSequence
<1> HIDE DEF S
<1> QED BY <1>1 DEF Associate

\* Appending is joining one.
LEMMA AppendJoins ==
    ASSUME NEW s, IsSequence(s), NEW x PROVE Append(s, x) = s \o <<x>>
<1> DEFINE S == Range(s) \cup {x}
<1>1. s \in Seq(S) /\ x \in S
  BY DEF IsSequence
<1> HIDE DEF S
<1> QED BY <1>1

\* The first n of a sequence.
UpTo(s, n) == [i \in 1 .. n |-> s[i]]

LEMMA UpToGrows ==
    ASSUME NEW s, IsSequence(s)
    PROVE  /\ UpTo(s, 0) = <<>>
           /\ \A n \in 0 .. Len(s) - 1 : UpTo(s, n + 1) = Append(UpTo(s, n), s[n + 1])
           /\ \A n \in 0 .. Len(s) : IsSequence(UpTo(s, n)) /\ Len(UpTo(s, n)) = n
           /\ UpTo(s, Len(s)) = s
<1>1. Len(s) \in Nat
  BY DEF IsSequence
<1>2. ASSUME NEW n \in 0 .. Len(s) PROVE IsSequence(UpTo(s, n)) /\ Len(UpTo(s, n)) = n
  <2> DEFINE t == UpTo(s, n)
  <2>1. n \in Nat
    BY <1>1
  <2>a. t = [i \in 1 .. n |-> t[i]]
    BY <2>1 DEF UpTo
  <2> HIDE DEF t
  <2>2. IsSequence(t) /\ Len(t) = n
    BY <2>1, <2>a, AnySequence
  <2> QED BY <2>2 DEF t
<1>3. ASSUME NEW n \in 0 .. Len(s) - 1 PROVE UpTo(s, n + 1) = Append(UpTo(s, n), s[n + 1])
  <2> DEFINE t == UpTo(s, n)
             a == Append(t, s[n + 1])
             u == UpTo(s, n + 1)
  <2>1. n \in 0 .. Len(s) /\ n + 1 \in 0 .. Len(s) /\ n \in Nat
    BY <1>1
  <2>2. IsSequence(t) /\ Len(t) = n /\ IsSequence(u) /\ Len(u) = n + 1
    BY <1>2, <2>1
  <2>3. (\A i \in 1 .. n : t[i] = s[i]) /\ \A i \in 1 .. n + 1 : u[i] = s[i]
    BY <2>1 DEF UpTo
  <2> HIDE DEF t, u
  <2>4. /\ IsSequence(a) /\ Len(a) = n + 1 /\ a[n + 1] = s[n + 1]
        /\ \A j \in 1 .. n : a[j] = t[j]
    <3>1. OneMoreThan(a, t, n, s[n + 1])
      BY <2>2, AppendTo, Zenon
    <3> QED BY <3>1 DEF OneMoreThan
  <2> HIDE DEF a
  <2>5. \A j \in 1 .. n + 1 : u[j] = a[j]
    <3>1. \A j \in 1 .. n + 1 : j \in 1 .. n \/ j = n + 1
      BY <2>1
    <3> QED BY <2>3, <2>4, <3>1, Zenon
  <2>6. u = a
    BY <2>2, <2>4, <2>5, SameElements
  <2> QED BY <2>6 DEF u, a, t
<1>4. UpTo(s, Len(s)) = s
  <2>1. s = [i \in 1 .. Len(s) |-> s[i]]
    BY IsFunction, Zenon DEF IsSequence
  <2> QED BY <2>1, Zenon DEF UpTo
<1>5. UpTo(s, 0) = <<>>
  <2> DEFINE t == UpTo(s, 0)
  <2>1. IsSequence(t) /\ Len(t) = 0
    BY <1>1, <1>2
  <2> HIDE DEF t
  <2>2. t = <<>>
    BY <2>1, EmptySequence
  <2> QED BY <2>2 DEF t
<1> QED BY <1>1, <1>2, <1>3, <1>4, <1>5

\* One more sequence is joined at the end.
LEMMA FlattenMore ==
    ASSUME NEW ss, AreSequences(ss), NEW s, IsSequence(s), NEW tt, tt = Append(ss, s)
    PROVE  /\ AreSequences(tt) /\ IsSequence(FlattenSeq(ss))
           /\ FlattenSeq(tt) = FlattenSeq(ss) \o s
<1> DEFINE n == Len(ss)
<1>1. IsSequence(ss) /\ n \in Nat /\ DOMAIN ss = 1 .. n /\ \A i \in 1 .. n : IsSequence(ss[i])
  BY EmptySequence DEF AreSequences
<1>2. /\ IsSequence(tt) /\ Len(tt) = n + 1 /\ DOMAIN tt = 1 .. n + 1
      /\ tt[n + 1] = s /\ \A i \in 1 .. n : tt[i] = ss[i]
  <2>1. OneMoreThan(tt, ss, n, s)
    BY <1>1, AppendTo, Zenon
  <2> QED BY <2>1 DEF OneMoreThan
<1> HIDE DEF n
<1>3. AreSequences(tt)
  <2>1. \A i \in 1 .. n + 1 : i \in 1 .. n \/ i = n + 1
    BY <1>1
  <2> QED BY <1>1, <1>2, <2>1, Zenon DEF AreSequences
<1>4. PICK S : tt \in Seq(Seq(S))
  BY <1>3, CommonType, Zenon DEF Typed
<1>5. ss \in Seq(Seq(S)) /\ s \in Seq(S)
  <2>1. \A i \in 1 .. n + 1 : tt[i] \in Seq(S)
    <3>1. \A i \in 1 .. Len(tt) : tt[i] \in Seq(S)
      BY <1>4
    <3> QED BY <1>2, <3>1
  <2>2. \A i \in 1 .. n : ss[i] \in Seq(S)
    <3>1. \A i \in 1 .. n : i \in 1 .. n + 1
      BY <1>1
    <3> QED BY <1>2, <2>1, <3>1, Zenon
  <2>3. s \in Seq(S)
    <3>1. n + 1 \in 1 .. n + 1
      BY <1>1
    <3> QED BY <1>2, <2>1, <3>1, Zenon
  <2>4. ss = [i \in 1 .. n |-> ss[i]]
    BY <1>1, IsFunction, Zenon DEF IsSequence, n
  <2>5. ss \in [1 .. n -> Seq(S)]
    BY <2>2, <2>4, Zenon
  <2>6. ss \in Seq(Seq(S))
    BY <1>1, <2>5
  <2> QED BY <2>3, <2>6
<1>6. FlattenSeq(ss) \in Seq(S)
  BY <1>5, FlattenedAre
<1>7. IsSequence(FlattenSeq(ss))
  BY <1>6, TypedIsSequence
<1>8. FlattenSeq(tt) = FlattenSeq(ss) \o s
  <2>1. CASE n = 0
    <3>1. ss = <<>>
      BY <1>1, <2>1, EmptySequence
    <3>2. FlattenSeq(ss) = <<>>
      BY <3>1, FlattenNone, Zenon
    <3>3. Flattenings(S, tt, 0) # {}
      <4>1. Len(tt) = 0 + 1 /\ 0 \in Nat
        BY <1>2, <2>1
      <4> QED BY <1>4, <4>1, FlattenUnfolds, Zenon
    <3>4. FlattenSeq(tt) = tt[1]
      BY <3>3, Zenon DEF Flattenings
    <3>5. tt[1] = s
      BY <1>2, <2>1
    <3>6. <<>> \o s = s
      BY JoinNothing, Zenon
    <3> QED BY <3>2, <3>4, <3>5, <3>6, Zenon
  <2>2. CASE n # 0
    <3>1. PICK k \in Nat : n = k + 1
      <4>1. n - 1 \in Nat /\ n = (n - 1) + 1
        BY <1>1, <2>2
      <4> QED BY <4>1, Zenon
    <3>2. Flattenings(S, tt, n) # {} /\ Flattenings(S, ss, k) # {}
      <4>1. Len(ss) = k + 1
        BY <3>1 DEF n
      <4> QED BY <1>1, <1>2, <1>4, <1>5, <4>1, FlattenUnfolds, Zenon
    <3>3. PICK f \in [0 .. n -> Seq(S)] :
            /\ f[0] = tt[1] /\ FlattenSeq(tt) = f[n]
            /\ \A i \in 1 .. n : f[i] = f[i - 1] \o tt[i + 1]
      BY <3>2, Zenon DEF Flattenings
    <3>4. PICK g \in [0 .. k -> Seq(S)] :
            /\ g[0] = ss[1] /\ FlattenSeq(ss) = g[k]
            /\ \A i \in 1 .. k : g[i] = g[i - 1] \o ss[i + 1]
      BY <3>2, Zenon DEF Flattenings
    <3>5. f[0] = g[0]
      BY <1>1, <1>2, <3>1, <3>3, <3>4
    <3>6. \A i \in 1 .. k : f[i - 1] = g[i - 1] => f[i] = g[i]
      <4>1. \A i \in 1 .. k : i \in 1 .. n /\ i + 1 \in 1 .. n
        BY <3>1
      <4> QED BY <1>2, <3>3, <3>4, <4>1, Zenon
    <3>7. SameUpTo(k, f, g)
      BY <3>5, <3>6, OnlyOne, Zenon
    <3>8. f[k] = g[k]
      BY <3>7 DEF SameUpTo
    <3>9. f[n] = f[n - 1] \o tt[n + 1] /\ n - 1 = k
      <4>1. n \in 1 .. n /\ n - 1 = k
        BY <3>1
      <4> QED BY <3>3, <4>1, Zenon
    <3> QED BY <1>2, <3>3, <3>4, <3>8, <3>9
  <2> QED BY <2>1, <2>2
<1> QED BY <1>3, <1>7, <1>8

\* Joined as far as each place.
Grows(ss) ==
    /\ FlattenSeq(UpTo(ss, 0)) = <<>>
    /\ \A n \in 0 .. Len(ss) - 1 :
          FlattenSeq(UpTo(ss, n + 1)) = FlattenSeq(UpTo(ss, n)) \o ss[n + 1]
    /\ \A n \in 0 .. Len(ss) : IsSequence(FlattenSeq(UpTo(ss, n)))
    /\ FlattenSeq(UpTo(ss, Len(ss))) = FlattenSeq(ss)

\* The first n of a sequence of sequences are sequences.
LEMMA UpToAreSequences ==
    ASSUME NEW ss, AreSequences(ss), NEW n \in 0 .. Len(ss) PROVE AreSequences(UpTo(ss, n))
<1>1. IsSequence(ss) /\ Len(ss) \in Nat /\ DOMAIN ss = 1 .. Len(ss)
  BY EmptySequence DEF AreSequences
<1>2. IsSequence(UpTo(ss, n))
  BY <1>1, UpToGrows
<1>3. \A i \in 1 .. n : i \in DOMAIN ss
  BY <1>1
<1>4. DOMAIN UpTo(ss, n) = 1 .. n /\ \A i \in 1 .. n : UpTo(ss, n)[i] = ss[i]
  BY DEF UpTo
<1> QED BY <1>2, <1>3, <1>4, Zenon DEF AreSequences

LEMMA FlattenGrows == ASSUME NEW ss, AreSequences(ss) PROVE Grows(ss)
<1>1. IsSequence(ss) /\ Len(ss) \in Nat /\ DOMAIN ss = 1 .. Len(ss)
  BY EmptySequence DEF AreSequences
<1>2. ASSUME NEW n \in 0 .. Len(ss) PROVE IsSequence(FlattenSeq(UpTo(ss, n)))
  <2>1. AreSequences(UpTo(ss, n))
    BY UpToAreSequences
  <2> QED BY <2>1, Single, FlattenMore, Zenon
<1>3. ASSUME NEW n \in 0 .. Len(ss) - 1
      PROVE  FlattenSeq(UpTo(ss, n + 1)) = FlattenSeq(UpTo(ss, n)) \o ss[n + 1]
  <2>1. n \in 0 .. Len(ss) /\ n + 1 \in DOMAIN ss
    BY <1>1
  <2>2. AreSequences(UpTo(ss, n)) /\ IsSequence(ss[n + 1])
    BY <2>1, UpToAreSequences DEF AreSequences
  <2>3. UpTo(ss, n + 1) = Append(UpTo(ss, n), ss[n + 1])
    BY <1>1, UpToGrows
  <2> QED BY <2>2, <2>3, FlattenMore, Zenon
<1>4. UpTo(ss, 0) = <<>> /\ UpTo(ss, Len(ss)) = ss
  BY <1>1, UpToGrows
<1> QED BY <1>2, <1>3, <1>4, FlattenNone DEF Grows

LEMMA FlattenIsSequence == ASSUME NEW ss, AreSequences(ss) PROVE IsSequence(FlattenSeq(ss))
BY Single, FlattenMore, Zenon

\* What begins with s and grows by each of ss in turn ends as s and all of ss.
LEMMA FlattenFrom ==
    ASSUME NEW ss, AreSequences(ss), NEW g, NEW n, n = Len(ss), IsSequence(g[0]),
           \A k \in 0 .. n - 1 : g[k + 1] = g[k] \o ss[k + 1]
    PROVE  g[n] = g[0] \o FlattenSeq(ss)
<1> DEFINE T == {k \in 0 .. n : g[k] = g[0] \o FlattenSeq(UpTo(ss, k))}
<1>1. IsSequence(ss) /\ n \in Nat /\ DOMAIN ss = 1 .. n
  BY EmptySequence DEF AreSequences
<1>2. Grows(ss)
  BY FlattenGrows
<1>3. 0 \in T
  <2>1. 0 \in 0 .. n /\ FlattenSeq(UpTo(ss, 0)) = <<>>
    BY <1>1, <1>2 DEF Grows
  <2>2. g[0] \o <<>> = g[0]
    BY JoinNothing, Zenon
  <2> QED BY <2>1, <2>2
<1>4. ASSUME NEW k \in 0 .. n - 1, k \in T PROVE k + 1 \in T
  <2>1. k \in 0 .. n /\ k + 1 \in 0 .. n /\ k + 1 \in DOMAIN ss
    BY <1>1
  <2>2. g[k + 1] = (g[0] \o FlattenSeq(UpTo(ss, k))) \o ss[k + 1]
    BY <1>4
  <2>3. IsSequence(FlattenSeq(UpTo(ss, k))) /\ IsSequence(ss[k + 1])
    BY <1>2, <2>1 DEF Grows, AreSequences
  <2>4. g[k + 1] = g[0] \o (FlattenSeq(UpTo(ss, k)) \o ss[k + 1])
    <3>1. Associate(g[0], FlattenSeq(UpTo(ss, k)), ss[k + 1])
      BY <2>3, JoinAssociates, Zenon
    <3> QED BY <2>2, <3>1, Zenon DEF Associate
  <2>5. FlattenSeq(UpTo(ss, k + 1)) = FlattenSeq(UpTo(ss, k)) \o ss[k + 1]
    BY <1>2 DEF Grows
  <2> QED BY <2>1, <2>4, <2>5
<1> HIDE DEF T
<1>5. \A k \in 0 .. n : k \in T
  BY <1>1, <1>3, <1>4, StretchInduction
<1>6. n \in T
  BY <1>1, <1>5
<1> QED BY <1>2, <1>6 DEF T, Grows

\* If each is nothing, so is the whole.
LEMMA FlattenNothing ==
    ASSUME NEW ss, IsSequence(ss), \A i \in DOMAIN ss : ss[i] = <<>>
    PROVE  FlattenSeq(ss) = <<>>
<1> DEFINE n == Len(ss)
           g == [k \in 0 .. n |-> <<>>]
<1>1. IsSequence(<<>>)
  BY DEF IsSequence
<1>2. AreSequences(ss) /\ n \in Nat /\ DOMAIN ss = 1 .. n
  BY <1>1, EmptySequence DEF AreSequences
<1>3. 0 \in 0 .. n /\ n \in 0 .. n
  BY <1>2
<1>4. \A k \in 0 .. n - 1 : k \in 0 .. n /\ k + 1 \in 0 .. n /\ k + 1 \in DOMAIN ss
  BY <1>2
<1> HIDE DEF n
<1>5. \A k \in 0 .. n : g[k] = <<>>
  OBVIOUS
<1> HIDE DEF g
<1>6. \A k \in 0 .. n - 1 : g[k + 1] = g[k] \o ss[k + 1]
  BY <1>1, <1>4, <1>5, JoinNothing, Zenon
<1>7. g[n] = g[0] \o FlattenSeq(ss)
  BY <1>1, <1>2, <1>3, <1>5, <1>6, FlattenFrom DEF n
<1>8. IsSequence(FlattenSeq(ss))
  BY <1>2, FlattenIsSequence
<1> QED BY <1>3, <1>5, <1>7, <1>8, JoinNothing, Zenon

\* Joining is joining what is joined of the halves.
LEMMA FlattenJoined ==
    ASSUME NEW ss, NEW tt, AreSequences(ss), AreSequences(tt)
    PROVE  /\ AreSequences(ss \o tt)
           /\ FlattenSeq(ss \o tt) = FlattenSeq(ss) \o FlattenSeq(tt)
<1> DEFINE n == Len(tt)
           g == [k \in 0 .. n |-> FlattenSeq(ss \o UpTo(tt, k))]
           T == {k \in 0 .. n : AreSequences(ss \o UpTo(tt, k))}
<1>1. IsSequence(ss) /\ IsSequence(tt) /\ n \in Nat /\ DOMAIN tt = 1 .. n
  BY EmptySequence DEF AreSequences
<1>2. UpTo(tt, 0) = <<>> /\ UpTo(tt, n) = tt /\ ss \o <<>> = ss
  BY <1>1, UpToGrows, JoinNothing
<1>3. ASSUME NEW k \in 0 .. n - 1
      PROVE  /\ ss \o UpTo(tt, k + 1) = Append(ss \o UpTo(tt, k), tt[k + 1])
             /\ IsSequence(tt[k + 1]) /\ k \in 0 .. n /\ k + 1 \in 0 .. n
  <2> DEFINE t == UpTo(tt, k)
             x == tt[k + 1]
  <2>1. UpTo(tt, k + 1) = Append(t, x) /\ IsSequence(t)
    BY <1>1, UpToGrows
  <2>2. k \in 0 .. n /\ k + 1 \in 0 .. n /\ k + 1 \in DOMAIN tt
    BY <1>1
  <2>3. IsSequence(x)
    BY <2>2 DEF AreSequences
  <2> HIDE DEF t, x
  <2>4. IsSequence(<<x>>) /\ IsSequence(ss \o t)
    BY <1>1, <2>1, Single, JoinIsSequence
  <2>5. Append(t, x) = t \o <<x>> /\ Append(ss \o t, x) = (ss \o t) \o <<x>>
    BY <2>1, <2>4, AppendJoins
  <2>6. (ss \o t) \o <<x>> = ss \o (t \o <<x>>)
    <3>1. Associate(ss, t, <<x>>)
      BY <1>1, <2>1, <2>4, JoinAssociates, Zenon
    <3> QED BY <3>1, Zenon DEF Associate
  <2>7. ss \o UpTo(tt, k + 1) = Append(ss \o t, x)
    BY <2>1, <2>5, <2>6
  <2> QED BY <2>2, <2>3, <2>7 DEF t, x
<1> HIDE DEF n
<1>4. 0 \in T
  <2>1. 0 \in 0 .. n
    BY <1>1
  <2>2. ss \o UpTo(tt, 0) = ss
    BY <1>2, Zenon
  <2> QED BY <2>1, <2>2, Zenon
<1>5. ASSUME NEW k \in 0 .. n - 1, k \in T PROVE k + 1 \in T
  <2>1. AreSequences(ss \o UpTo(tt, k))
    BY <1>5
  <2>2. AreSequences(Append(ss \o UpTo(tt, k), tt[k + 1]))
    BY <1>3, <2>1, FlattenMore, Zenon
  <2> QED BY <1>3, <2>2
<1> HIDE DEF T
<1>6. \A k \in 0 .. n : k \in T
  BY <1>1, <1>4, <1>5, StretchInduction
<1>7. \A k \in 0 .. n : AreSequences(ss \o UpTo(tt, k)) /\ g[k] = FlattenSeq(ss \o UpTo(tt, k))
  BY <1>6 DEF T
<1> HIDE DEF g
<1>8. ASSUME NEW k \in 0 .. n - 1 PROVE g[k + 1] = g[k] \o tt[k + 1]
  <2>1. g[k + 1] = FlattenSeq(Append(ss \o UpTo(tt, k), tt[k + 1]))
    BY <1>3, <1>7, Zenon
  <2>2. AreSequences(ss \o UpTo(tt, k)) /\ IsSequence(tt[k + 1])
    BY <1>3, <1>7, Zenon
  <2>3. FlattenSeq(Append(ss \o UpTo(tt, k), tt[k + 1])) = FlattenSeq(ss \o UpTo(tt, k)) \o tt[k + 1]
    BY <2>2, FlattenMore, Zenon
  <2> QED BY <1>3, <1>7, <2>1, <2>3, Zenon
<1>9. 0 \in 0 .. n /\ n \in 0 .. n
  BY <1>1
<1>10. g[0] = FlattenSeq(ss) /\ IsSequence(g[0])
  BY <1>2, <1>7, <1>9, FlattenIsSequence
<1>11. g[n] = g[0] \o FlattenSeq(tt)
  BY <1>8, <1>10, FlattenFrom DEF n
<1> QED BY <1>2, <1>7, <1>9, <1>10, <1>11

\* What is picked, one place more.
LEMMA PickedMore ==
    ASSUME NEW s, IsSequence(s), NEW x, NEW places
    PROVE  Picked(Append(s, x), places) =
              IF Len(s) + 1 \in places THEN Append(Picked(s, places), x) ELSE Picked(s, places)
<1> DEFINE t == Append(s, x)
           n == Len(s)
<1>1. OneMoreThan(t, s, n, x)
  BY AppendTo, Zenon
<1> HIDE DEF t, n
<1>2. IsSequence(t) /\ Len(t) = n + 1 /\ t[n + 1] = x /\ \A i \in 1 .. n : t[i] = s[i]
  BY <1>1 DEF OneMoreThan
<1>3. n \in Nat
  BY EmptySequence DEF n
<1>4. PICK f \in [0 .. Len(t) -> Seq(Range(t))] :
        /\ f[0] = <<>> /\ Picked(t, places) = f[Len(t)]
        /\ \A k \in 1 .. Len(t) :
              f[k] = IF k \in places THEN Append(f[k - 1], t[k]) ELSE f[k - 1]
  BY <1>2, PickedUnfolds, Zenon
<1>5. PICK g \in [0 .. Len(s) -> Seq(Range(s))] :
        /\ g[0] = <<>> /\ Picked(s, places) = g[Len(s)]
        /\ \A k \in 1 .. Len(s) :
              g[k] = IF k \in places THEN Append(g[k - 1], s[k]) ELSE g[k - 1]
  BY PickedUnfolds, Zenon
<1>6. f[0] = g[0]
  BY <1>4, <1>5, Zenon
<1>7. \A k \in 1 .. n : f[k - 1] = g[k - 1] => f[k] = g[k]
  <2>1. \A k \in 1 .. n : k \in 1 .. Len(t) /\ k \in 1 .. Len(s)
    BY <1>2, <1>3 DEF n
  <2> QED BY <1>2, <1>4, <1>5, <2>1, Zenon
<1>8. SameUpTo(n, f, g)
  BY <1>3, <1>6, <1>7, OnlyOne, Zenon
<1>9. f[n] = g[n] /\ n + 1 \in 1 .. Len(t) /\ (n + 1) - 1 = n
  BY <1>2, <1>3, <1>8 DEF SameUpTo
<1>10. f[n + 1] = IF n + 1 \in places THEN Append(f[n], x) ELSE f[n]
  BY <1>2, <1>4, <1>9, Zenon
<1>11. Picked(t, places) = IF n + 1 \in places THEN Append(Picked(s, places), x) ELSE Picked(s, places)
  <2>1. Picked(s, places) = f[n] /\ Picked(t, places) = f[n + 1]
    BY <1>2, <1>4, <1>5, <1>9, Zenon DEF n
  <2> QED BY <1>10, <2>1, Zenon
<1> QED BY <1>11, Zenon DEF t, n

\* Nothing can be picked of nothing.
LEMMA PickedNone == ASSUME NEW places PROVE Picked(<<>>, places) = <<>>
<1>1. IsSequence(<<>>) /\ Len(<<>>) = 0
  BY DEF IsSequence
<1> DEFINE t == Picked(<<>>, places)
<1>2. PickOf(t, <<>>, places)
  BY <1>1, PicksAre, Zenon
<1> HIDE DEF t
<1>3. IsSequence(t) /\ DOMAIN t = {}
  BY <1>2 DEF PickOf
<1>4. t = <<>>
  BY <1>3, EmptySequence
<1> QED BY <1>4 DEF t

\* What is picked as far as each place.
PickGrows(s, places) ==
    /\ Picked(UpTo(s, 0), places) = <<>>
    /\ \A n \in 0 .. Len(s) - 1 :
          Picked(UpTo(s, n + 1), places) =
             IF n + 1 \in places THEN Append(Picked(UpTo(s, n), places), s[n + 1])
             ELSE Picked(UpTo(s, n), places)
    /\ \A n \in 0 .. Len(s) : IsSequence(Picked(UpTo(s, n), places))
    /\ Picked(UpTo(s, Len(s)), places) = Picked(s, places)

LEMMA PickedIsSequence ==
    ASSUME NEW s, IsSequence(s), NEW places PROVE IsSequence(Picked(s, places))
<1>1. PickOf(Picked(s, places), s, places)
  BY PicksAre, Zenon
<1> QED BY <1>1, Zenon DEF PickOf

LEMMA PickedGrows == ASSUME NEW s, IsSequence(s), NEW places PROVE PickGrows(s, places)
<1>1. /\ UpTo(s, 0) = <<>> /\ UpTo(s, Len(s)) = s
      /\ \A n \in 0 .. Len(s) : IsSequence(UpTo(s, n)) /\ Len(UpTo(s, n)) = n
      /\ \A n \in 0 .. Len(s) - 1 : UpTo(s, n + 1) = Append(UpTo(s, n), s[n + 1])
  BY UpToGrows, Zenon
<1>2. \A n \in 0 .. Len(s) : IsSequence(Picked(UpTo(s, n), places))
  BY <1>1, PickedIsSequence, Zenon
<1>3. ASSUME NEW n \in 0 .. Len(s) - 1
      PROVE  Picked(UpTo(s, n + 1), places) =
                IF n + 1 \in places THEN Append(Picked(UpTo(s, n), places), s[n + 1])
                ELSE Picked(UpTo(s, n), places)
  <2>1. n \in 0 .. Len(s)
    BY EmptySequence
  <2>2. IsSequence(UpTo(s, n)) /\ Len(UpTo(s, n)) = n /\ UpTo(s, n + 1) = Append(UpTo(s, n), s[n + 1])
    BY <1>1, <2>1, Zenon
  <2>3. Picked(Append(UpTo(s, n), s[n + 1]), places) =
          IF Len(UpTo(s, n)) + 1 \in places THEN Append(Picked(UpTo(s, n), places), s[n + 1])
          ELSE Picked(UpTo(s, n), places)
    BY <2>2, PickedMore, Zenon
  <2> QED BY <2>2, <2>3
<1> QED BY <1>1, <1>2, <1>3, PickedNone, Zenon DEF PickGrows

\* The function h applied to each.
Each(h, s) == [i \in DOMAIN s |-> h[s[i]]]

ImageOf(e, h, s) ==
    /\ IsSequence(e) /\ DOMAIN e = DOMAIN s /\ Len(e) = Len(s)
    /\ \A i \in DOMAIN s : e[i] = h[s[i]]

LEMMA EachIsSequence == ASSUME NEW h, NEW s, IsSequence(s) PROVE ImageOf(Each(h, s), h, s)
<1> DEFINE e == Each(h, s)
<1>1. DOMAIN s = 1 .. Len(s) /\ Len(s) \in Nat
  BY EmptySequence
<1>2. e = [i \in 1 .. Len(s) |-> e[i]] /\ DOMAIN e = DOMAIN s /\ \A i \in DOMAIN s : e[i] = h[s[i]]
  BY <1>1 DEF Each
<1> HIDE DEF e
<1>3. IsSequence(e) /\ Len(e) = Len(s)
  BY <1>1, <1>2, AnySequence
<1> QED BY <1>2, <1>3 DEF e, ImageOf

LEMMA EachNone == ASSUME NEW h PROVE Each(h, <<>>) = <<>>
<1> DEFINE e == Each(h, <<>>)
<1>1. IsSequence(<<>>) /\ DOMAIN <<>> = {}
  BY DEF IsSequence
<1>2. ImageOf(e, h, <<>>)
  BY <1>1, EachIsSequence, Zenon
<1> HIDE DEF e
<1>3. e = <<>>
  BY <1>1, <1>2, EmptySequence DEF ImageOf
<1> QED BY <1>3 DEF e

LEMMA EachMore ==
    ASSUME NEW h, NEW s, IsSequence(s), NEW x
    PROVE  Each(h, Append(s, x)) = Append(Each(h, s), h[x])
<1> DEFINE n == Len(s)
           t == Append(s, x)
           d == Each(h, s)
           e == Each(h, t)
           a == Append(d, h[x])
<1>1. OneMoreThan(t, s, n, x)
  BY AppendTo, Zenon
<1>2. n \in Nat /\ DOMAIN s = 1 .. n
  BY EmptySequence
<1> HIDE DEF n, t
<1>3. /\ IsSequence(t) /\ Len(t) = n + 1 /\ DOMAIN t = 1 .. n + 1
      /\ t[n + 1] = x /\ \A i \in 1 .. n : t[i] = s[i]
  BY <1>1 DEF OneMoreThan
<1>a. ImageOf(d, h, s) /\ ImageOf(e, h, t)
  BY <1>3, EachIsSequence, Zenon
<1>4. IsSequence(d) /\ Len(d) = n /\ \A i \in 1 .. n : d[i] = h[s[i]]
  BY <1>2, <1>a DEF n, ImageOf
<1>5. IsSequence(e) /\ Len(e) = n + 1 /\ \A i \in 1 .. n + 1 : e[i] = h[t[i]]
  BY <1>3, <1>a DEF ImageOf
<1> HIDE DEF d, e
<1>6. OneMoreThan(a, d, n, h[x])
  BY <1>4, AppendTo, Zenon
<1> HIDE DEF a
<1>7. IsSequence(a) /\ Len(a) = n + 1 /\ a[n + 1] = h[x] /\ \A i \in 1 .. n : a[i] = d[i]
  BY <1>6 DEF OneMoreThan
<1>8. ASSUME NEW i \in 1 .. n + 1 PROVE e[i] = a[i]
  <2>1. i \in 1 .. n \/ i = n + 1
    BY <1>2
  <2>2. e[i] = h[t[i]]
    BY <1>5, Zenon
  <2>3. CASE i \in 1 .. n
    BY <1>3, <1>4, <1>7, <2>2, <2>3, Zenon
  <2>4. CASE i = n + 1
    BY <1>3, <1>7, <2>2, <2>4, Zenon
  <2> QED BY <2>1, <2>3, <2>4, Zenon
<1>9. e = a
  BY <1>5, <1>7, <1>8, SameElements
<1> QED BY <1>9 DEF e, a, d, t

LEMMA EachJoined ==
    ASSUME NEW h, NEW s, NEW t, IsSequence(s), IsSequence(t)
    PROVE  Each(h, s \o t) = Each(h, s) \o Each(h, t)
<1> DEFINE n == Len(s)
           m == Len(t)
           u == s \o t
           e == Each(h, u)
           d == Each(h, s)
           c == Each(h, t)
           a == d \o c
<1>1. /\ IsSequence(u) /\ Len(u) = n + m
      /\ \A j \in 1 .. n : u[j] = s[j]
      /\ \A j \in 1 .. m : u[n + j] = t[j]
  <2>1. EndToEnd(u, s, n, t, m)
    BY JoinElements, Zenon
  <2> HIDE DEF u, n, m
  <2> QED BY <2>1, Zenon DEF EndToEnd
<1>2. n \in Nat /\ DOMAIN s = 1 .. n /\ m \in Nat /\ DOMAIN t = 1 .. m
  BY EmptySequence
<1> HIDE DEF n, m, u
<1>3. IsSequence(e) /\ Len(e) = n + m /\ \A j \in 1 .. n + m : e[j] = h[u[j]]
  <2>1. DOMAIN u = 1 .. n + m
    BY <1>1, EmptySequence
  <2>2. ImageOf(e, h, u)
    BY <1>1, EachIsSequence, Zenon
  <2> QED BY <1>1, <2>1, <2>2 DEF ImageOf
<1>a. ImageOf(d, h, s) /\ ImageOf(c, h, t)
  BY EachIsSequence, Zenon
<1>4. IsSequence(d) /\ Len(d) = n /\ \A j \in 1 .. n : d[j] = h[s[j]]
  BY <1>2, <1>a DEF n, ImageOf
<1>5. IsSequence(c) /\ Len(c) = m /\ \A j \in 1 .. m : c[j] = h[t[j]]
  BY <1>2, <1>a DEF m, ImageOf
<1> HIDE DEF e, d, c
<1>7. /\ IsSequence(a) /\ Len(a) = n + m
      /\ \A j \in 1 .. n : a[j] = d[j]
      /\ \A j \in 1 .. m : a[n + j] = c[j]
  <2>1. EndToEnd(a, d, n, c, m)
    BY <1>4, <1>5, JoinElements, Zenon
  <2> QED BY <2>1, Zenon DEF EndToEnd
<1> HIDE DEF a
<1>8. ASSUME NEW i \in 1 .. n + m PROVE e[i] = a[i]
  <2>1. i \in 1 .. n \/ (i - n \in 1 .. m /\ n + (i - n) = i)
    BY <1>2
  <2>2. e[i] = h[u[i]]
    BY <1>3, Zenon
  <2>3. CASE i \in 1 .. n
    BY <1>1, <1>4, <1>7, <2>2, <2>3, Zenon
  <2>4. CASE i - n \in 1 .. m /\ n + (i - n) = i
    <3>1. u[i] = t[i - n] /\ a[i] = c[i - n] /\ c[i - n] = h[t[i - n]]
      BY <1>1, <1>5, <1>7, <2>4, Zenon
    <3> QED BY <2>2, <3>1, Zenon
  <2> QED BY <2>1, <2>3, <2>4, Zenon
<1>9. e = a
  BY <1>3, <1>7, <1>8, SameElements
<1> QED BY <1>9 DEF a, c, d, e, u

\* Picking and applying a function may change places.
LEMMA EachPicked ==
    ASSUME NEW h, NEW s, IsSequence(s), NEW places
    PROVE  Each(h, Picked(s, places)) = Picked(Each(h, s), places)
<1> DEFINE e == Each(h, s)
           n == Len(s)
           T == {k \in 0 .. n : Each(h, Picked(UpTo(s, k), places)) = Picked(UpTo(e, k), places)}
<1>1. n \in Nat /\ DOMAIN s = 1 .. n
  BY EmptySequence
<1>2. IsSequence(e) /\ Len(e) = n /\ \A i \in 1 .. n : e[i] = h[s[i]]
  <2>1. ImageOf(e, h, s)
    BY EachIsSequence, Zenon
  <2> QED BY <1>1, <2>1 DEF n, ImageOf
<1>3. PickGrows(s, places) /\ PickGrows(e, places)
  BY <1>2, PickedGrows, Zenon
<1> HIDE DEF e, n
<1>4. 0 \in T
  <2>1. Picked(UpTo(s, 0), places) = <<>> /\ Picked(UpTo(e, 0), places) = <<>>
    BY <1>3, Zenon DEF PickGrows
  <2>2. 0 \in 0 .. n
    BY <1>1
  <2> QED BY <2>1, <2>2, EachNone, Zenon
<1>5. ASSUME NEW k \in 0 .. n - 1, k \in T PROVE k + 1 \in T
  <2>1. k \in 0 .. n /\ k + 1 \in 0 .. n /\ k + 1 \in 1 .. n
    BY <1>1
  <2> DEFINE p == Picked(UpTo(s, k), places)
             q == Picked(UpTo(e, k), places)
  <2>2. Each(h, p) = q
    BY <1>5
  <2>3. /\ IsSequence(p)
        /\ Picked(UpTo(s, k + 1), places) = IF k + 1 \in places THEN Append(p, s[k + 1]) ELSE p
    BY <1>3, <2>1, Zenon DEF PickGrows, n
  <2>4. Picked(UpTo(e, k + 1), places) = IF k + 1 \in places THEN Append(q, e[k + 1]) ELSE q
    <3>1. k \in 0 .. Len(e) - 1
      BY <1>2
    <3> QED BY <1>3, <3>1, Zenon DEF PickGrows
  <2>5. e[k + 1] = h[s[k + 1]]
    BY <1>2, <2>1, Zenon
  <2> HIDE DEF p, q
  <2>6. Each(h, Append(p, s[k + 1])) = Append(q, e[k + 1])
    BY <2>2, <2>3, <2>5, EachMore
  <2>7. Each(h, Picked(UpTo(s, k + 1), places)) = Picked(UpTo(e, k + 1), places)
    BY <2>2, <2>3, <2>4, <2>6
  <2> QED BY <2>1, <2>7, Zenon
<1> HIDE DEF T
<1>6. \A k \in 0 .. n : k \in T
  BY <1>1, <1>4, <1>5, StretchInduction
<1>7. n \in T
  BY <1>1, <1>6
<1>8. Picked(UpTo(s, n), places) = Picked(s, places) /\ Picked(UpTo(e, n), places) = Picked(e, places)
  BY <1>2, <1>3, Zenon DEF PickGrows, n
<1> QED BY <1>7, <1>8, Zenon DEF T, e

\* The places that are picked, and nothing at the others.
LEMMA FlattenPicked ==
    ASSUME NEW es, AreSequences(es), NEW places, NEW ss,
           ss = [i \in DOMAIN es |-> IF i \in places THEN es[i] ELSE <<>>]
    PROVE  FlattenSeq(Picked(es, places)) = FlattenSeq(ss)
<1> DEFINE n == Len(es)
           g == [k \in 0 .. n |-> FlattenSeq(Picked(UpTo(es, k), places))]
<1>0. IsSequence(<<>>)
  BY DEF IsSequence
<1>1. IsSequence(es) /\ n \in Nat /\ DOMAIN es = 1 .. n /\ \A i \in 1 .. n : IsSequence(es[i])
  BY EmptySequence DEF AreSequences
<1>2. /\ AreSequences(ss) /\ Len(ss) = n
      /\ \A i \in 1 .. n : ss[i] = IF i \in places THEN es[i] ELSE <<>>
  <2>1. \A i \in 1 .. n : ss[i] = IF i \in places THEN es[i] ELSE <<>>
    BY <1>1
  <2>2. ss = [i \in 1 .. n |-> ss[i]]
    BY <1>1
  <2>3. IsSequence(ss) /\ DOMAIN ss = 1 .. n /\ Len(ss) = n
    BY <1>1, <2>2, AnySequence
  <2> QED BY <1>0, <1>1, <2>1, <2>3, Zenon DEF AreSequences
<1>3. PickGrows(es, places)
  BY <1>1, PickedGrows, Zenon
<1> HIDE DEF n
<1>4. ASSUME NEW k \in 0 .. n PROVE AreSequences(Picked(UpTo(es, k), places))
  <2> DEFINE u == UpTo(es, k)
             p == Picked(u, places)
  <2>1. AreSequences(u)
    BY UpToAreSequences DEF n
  <2> HIDE DEF u
  <2>2. PickOf(p, u, places)
    BY <2>1, PicksAre, Zenon DEF AreSequences
  <2> HIDE DEF p
  <2>3. AreSequences(p)
    BY <2>1, <2>2 DEF AreSequences, PickOf
  <2> QED BY <2>3, Zenon DEF p, u
<1>5. \A k \in 0 .. n : g[k] = FlattenSeq(Picked(UpTo(es, k), places))
  OBVIOUS
<1> HIDE DEF g
<1>6. ASSUME NEW k \in 0 .. n - 1 PROVE g[k + 1] = g[k] \o ss[k + 1]
  <2> DEFINE p == Picked(UpTo(es, k), places)
  <2>1. k \in 0 .. n /\ k + 1 \in 0 .. n /\ k + 1 \in 1 .. n
    BY <1>1
  <2>2. Picked(UpTo(es, k + 1), places) = IF k + 1 \in places THEN Append(p, es[k + 1]) ELSE p
    BY <1>3, Zenon DEF PickGrows, n
  <2>3. g[k] = FlattenSeq(p) /\ AreSequences(p) /\ IsSequence(es[k + 1])
    BY <1>1, <1>4, <1>5, <2>1, Zenon
  <2>4. g[k + 1] = FlattenSeq(Picked(UpTo(es, k + 1), places))
    BY <1>5, <2>1, Zenon
  <2>5. ss[k + 1] = IF k + 1 \in places THEN es[k + 1] ELSE <<>>
    BY <1>2, <2>1, Zenon
  <2> HIDE DEF p
  <2>6. CASE k + 1 \in places
    <3>1. FlattenSeq(Append(p, es[k + 1])) = FlattenSeq(p) \o es[k + 1]
      BY <2>3, FlattenMore, Zenon
    <3> QED BY <2>2, <2>3, <2>4, <2>5, <2>6, <3>1
  <2>7. CASE k + 1 \notin places
    <3>1. IsSequence(g[k])
      BY <2>3, FlattenIsSequence, Zenon
    <3>2. g[k] \o <<>> = g[k]
      BY <3>1, JoinNothing, Zenon
    <3> QED BY <2>2, <2>3, <2>4, <2>5, <2>7, <3>2
  <2> QED BY <2>6, <2>7
<1>7. 0 \in 0 .. n /\ n \in 0 .. n
  BY <1>1
<1>8. g[0] = <<>>
  <2>1. Picked(UpTo(es, 0), places) = <<>>
    BY <1>3, Zenon DEF PickGrows
  <2> QED BY <1>5, <1>7, <2>1, FlattenNone, Zenon
<1>9. g[n] = g[0] \o FlattenSeq(ss)
  BY <1>0, <1>2, <1>6, <1>8, FlattenFrom
<1>10. g[n] = FlattenSeq(Picked(es, places))
  <2>1. Picked(UpTo(es, n), places) = Picked(es, places)
    BY <1>3, Zenon DEF PickGrows, n
  <2> QED BY <1>5, <1>7, <2>1, Zenon
<1>11. <<>> \o FlattenSeq(ss) = FlattenSeq(ss)
  BY <1>2, FlattenIsSequence, JoinNothing, Zenon
<1> QED BY <1>8, <1>9, <1>10, <1>11

\* A sequence made place by place.
LEMMA MadeIsSequence ==
    ASSUME NEW s, IsSequence(s), NEW t, t = [i \in DOMAIN s |-> t[i]]
    PROVE  IsSequence(t) /\ DOMAIN t = DOMAIN s /\ Len(t) = Len(s)
<1>1. DOMAIN s = 1 .. Len(s) /\ Len(s) \in Nat
  BY EmptySequence
<1>2. t = [i \in 1 .. Len(s) |-> t[i]] /\ DOMAIN t = DOMAIN s
  BY <1>1
<1> QED BY <1>1, <1>2, AnySequence

\* It does not matter whether the inner or the outer sequences are joined first.
LEMMA FlattenTwice ==
    ASSUME NEW sss, AreSequences(sss), \A i \in DOMAIN sss : AreSequences(sss[i]),
           NEW ss, ss = [i \in DOMAIN sss |-> FlattenSeq(sss[i])]
    PROVE  AreSequences(FlattenSeq(sss)) /\ FlattenSeq(FlattenSeq(sss)) = FlattenSeq(ss)
<1> DEFINE n == Len(sss)
           f == [k \in 0 .. n |-> FlattenSeq(UpTo(sss, k))]
           g == [k \in 0 .. n |-> FlattenSeq(f[k])]
           T == {k \in 0 .. n : AreSequences(f[k])}
<1>1. n \in Nat /\ DOMAIN sss = 1 .. n
  BY EmptySequence DEF AreSequences
<1>2. Grows(sss)
  BY FlattenGrows
<1>3. /\ f[0] = <<>> /\ f[n] = FlattenSeq(sss)
      /\ \A k \in 0 .. n - 1 : f[k + 1] = f[k] \o sss[k + 1]
  <2>1. 0 \in 0 .. n /\ n \in 0 .. n /\ \A k \in 0 .. n - 1 : k \in 0 .. n /\ k + 1 \in 0 .. n
    BY <1>1
  <2>2. \A k \in 0 .. n : f[k] = FlattenSeq(UpTo(sss, k))
    OBVIOUS
  <2> HIDE DEF f
  <2> QED BY <1>2, <2>1, <2>2, Zenon DEF Grows
<1>4. \A k \in 0 .. n : g[k] = FlattenSeq(f[k])
  OBVIOUS
<1> HIDE DEF f, g, n
<1>5. AreSequences(<<>>)
  BY DEF AreSequences, IsSequence
<1>6. 0 \in T
  BY <1>1, <1>3, <1>5
<1>7. ASSUME NEW k \in 0 .. n - 1, k \in T PROVE k + 1 \in T
  <2>1. k + 1 \in 0 .. n /\ k + 1 \in DOMAIN sss
    BY <1>1
  <2>2. AreSequences(f[k]) /\ AreSequences(sss[k + 1])
    BY <1>7, <2>1
  <2>3. AreSequences(f[k] \o sss[k + 1])
    BY <2>2, FlattenJoined, Zenon
  <2> QED BY <1>3, <2>1, <2>3
<1> HIDE DEF T
<1>8. \A k \in 0 .. n : k \in T
  BY <1>1, <1>6, <1>7, StretchInduction
<1>9. \A k \in 0 .. n : AreSequences(f[k])
  BY <1>8 DEF T
<1>10. /\ AreSequences(ss) /\ Len(ss) = n
       /\ \A i \in DOMAIN sss : ss[i] = FlattenSeq(sss[i])
  <2>1. \A i \in DOMAIN sss : ss[i] = FlattenSeq(sss[i])
    OBVIOUS
  <2>2. \A i \in DOMAIN sss : IsSequence(FlattenSeq(sss[i]))
    BY FlattenIsSequence, Zenon
  <2>3. ss = [i \in DOMAIN sss |-> ss[i]] /\ IsSequence(sss)
    BY DEF AreSequences
  <2>4. IsSequence(ss) /\ DOMAIN ss = DOMAIN sss /\ Len(ss) = n
    BY <2>3, MadeIsSequence DEF n
  <2> QED BY <2>1, <2>2, <2>4, Zenon DEF AreSequences
<1>11. ASSUME NEW k \in 0 .. n - 1 PROVE g[k + 1] = g[k] \o ss[k + 1]
  <2>1. k \in 0 .. n /\ k + 1 \in 0 .. n /\ k + 1 \in DOMAIN sss
    BY <1>1
  <2>2. FlattenSeq(f[k] \o sss[k + 1]) = FlattenSeq(f[k]) \o FlattenSeq(sss[k + 1])
    <3>1. AreSequences(f[k]) /\ AreSequences(sss[k + 1])
      BY <1>9, <2>1
    <3> QED BY <3>1, FlattenJoined, Zenon
  <2>3. ss[k + 1] = FlattenSeq(sss[k + 1])
    BY <1>10, <2>1
  <2>4. f[k + 1] = f[k] \o sss[k + 1]
    BY <1>3
  <2>5. g[k] = FlattenSeq(f[k]) /\ g[k + 1] = FlattenSeq(f[k + 1])
    BY <1>4, <2>1
  <2> QED BY <2>2, <2>3, <2>4, <2>5, Zenon
<1>12. 0 \in 0 .. n /\ n \in 0 .. n
  BY <1>1
<1>13. g[0] = <<>> /\ g[n] = FlattenSeq(FlattenSeq(sss)) /\ AreSequences(FlattenSeq(sss))
  BY <1>3, <1>4, <1>9, <1>12, FlattenNone, Zenon
<1>14. g[n] = g[0] \o FlattenSeq(ss)
  <2>1. IsSequence(<<>>)
    BY <1>5, Zenon DEF AreSequences
  <2>2. AreSequences(ss) /\ n = Len(ss) /\ IsSequence(g[0])
    BY <1>10, <1>13, <2>1
  <2>3. \A k \in 0 .. n - 1 : g[k + 1] = g[k] \o ss[k + 1]
    BY <1>11, Zenon
  <2> QED BY <2>2, <2>3, FlattenFrom, Zenon
<1>15. <<>> \o FlattenSeq(ss) = FlattenSeq(ss)
  BY <1>10, FlattenIsSequence, JoinNothing, Zenon
<1> QED BY <1>13, <1>14, <1>15

\* Joining and applying a function may change places.
LEMMA EachFlattened ==
    ASSUME NEW h, NEW ss, AreSequences(ss), NEW es, es = [i \in DOMAIN ss |-> Each(h, ss[i])]
    PROVE  AreSequences(es) /\ Each(h, FlattenSeq(ss)) = FlattenSeq(es)
<1> DEFINE n == Len(ss)
           f == [k \in 0 .. n |-> FlattenSeq(UpTo(ss, k))]
           g == [k \in 0 .. n |-> Each(h, f[k])]
<1>1. n \in Nat /\ DOMAIN ss = 1 .. n /\ \A i \in DOMAIN ss : IsSequence(ss[i])
  BY EmptySequence DEF AreSequences
<1>2. Grows(ss)
  BY FlattenGrows
<1>3. /\ f[0] = <<>> /\ f[n] = FlattenSeq(ss)
      /\ \A k \in 0 .. n - 1 : f[k + 1] = f[k] \o ss[k + 1]
      /\ \A k \in 0 .. n : IsSequence(f[k])
  <2>1. 0 \in 0 .. n /\ n \in 0 .. n /\ \A k \in 0 .. n - 1 : k \in 0 .. n /\ k + 1 \in 0 .. n
    BY <1>1
  <2>2. \A k \in 0 .. n : f[k] = FlattenSeq(UpTo(ss, k))
    OBVIOUS
  <2> HIDE DEF f
  <2> QED BY <1>2, <2>1, <2>2, Zenon DEF Grows
<1>4. \A k \in 0 .. n : g[k] = Each(h, f[k])
  OBVIOUS
<1> HIDE DEF f, g, n
<1>5. /\ AreSequences(es) /\ Len(es) = n
      /\ \A i \in DOMAIN ss : es[i] = Each(h, ss[i])
  <2>1. \A i \in DOMAIN ss : es[i] = Each(h, ss[i])
    OBVIOUS
  <2>2. \A i \in DOMAIN ss : IsSequence(Each(h, ss[i]))
    BY <1>1, EachIsSequence, Zenon DEF ImageOf
  <2>3. es = [i \in DOMAIN ss |-> es[i]] /\ IsSequence(ss)
    BY DEF AreSequences
  <2>4. IsSequence(es) /\ DOMAIN es = DOMAIN ss /\ Len(es) = n
    BY <2>3, MadeIsSequence DEF n
  <2> QED BY <2>1, <2>2, <2>4, Zenon DEF AreSequences
<1>6. ASSUME NEW k \in 0 .. n - 1 PROVE g[k + 1] = g[k] \o es[k + 1]
  <2>1. k \in 0 .. n /\ k + 1 \in 0 .. n /\ k + 1 \in DOMAIN ss
    BY <1>1
  <2>2. Each(h, f[k] \o ss[k + 1]) = Each(h, f[k]) \o Each(h, ss[k + 1])
    BY <1>1, <1>3, <2>1, EachJoined, Zenon
  <2>3. es[k + 1] = Each(h, ss[k + 1])
    BY <1>5, <2>1
  <2>4. f[k + 1] = f[k] \o ss[k + 1]
    BY <1>3
  <2>5. g[k] = Each(h, f[k]) /\ g[k + 1] = Each(h, f[k + 1])
    BY <1>4, <2>1
  <2> QED BY <2>2, <2>3, <2>4, <2>5, Zenon
<1>7. 0 \in 0 .. n /\ n \in 0 .. n
  BY <1>1
<1>8. g[0] = <<>> /\ g[n] = Each(h, FlattenSeq(ss))
  BY <1>3, <1>4, <1>7, EachNone, Zenon
<1>9. IsSequence(<<>>)
  BY DEF IsSequence
<1>10. g[n] = g[0] \o FlattenSeq(es)
  BY <1>5, <1>6, <1>8, <1>9, FlattenFrom
<1>11. <<>> \o FlattenSeq(es) = FlattenSeq(es)
  BY <1>5, FlattenIsSequence, JoinNothing, Zenon
<1> QED BY <1>5, <1>8, <1>10, <1>11

\* What the function h finds in each of a sequence, one after the other.
Gather(h, s) == FlattenSeq(Each(h, s))

\* h finds sequences.
Yields(h, s) == IsSequence(s) /\ \A i \in DOMAIN s : IsSequence(h[s[i]])

LEMMA YieldsSequences ==
    ASSUME NEW h, NEW s, Yields(h, s)
    PROVE  AreSequences(Each(h, s)) /\ IsSequence(Gather(h, s))
<1>1. IsSequence(s)
  BY DEF Yields
<1>2. /\ IsSequence(Each(h, s)) /\ DOMAIN Each(h, s) = DOMAIN s
      /\ \A i \in DOMAIN s : Each(h, s)[i] = h[s[i]]
  <2>1. ImageOf(Each(h, s), h, s)
    BY <1>1, EachIsSequence, Zenon
  <2> QED BY <2>1, Zenon DEF ImageOf
<1>3. AreSequences(Each(h, s))
  BY <1>2, Zenon DEF Yields, AreSequences
<1> QED BY <1>3, FlattenIsSequence, Zenon DEF Gather

LEMMA GatherNone == ASSUME NEW h PROVE Gather(h, <<>>) = <<>>
BY EachNone, FlattenNone, Zenon DEF Gather

LEMMA GatherMore ==
    ASSUME NEW h, NEW s, Yields(h, s), NEW x, IsSequence(h[x])
    PROVE  Gather(h, Append(s, x)) = Gather(h, s) \o h[x]
<1>1. Each(h, Append(s, x)) = Append(Each(h, s), h[x])
  BY EachMore, Zenon DEF Yields
<1>2. AreSequences(Each(h, s))
  BY YieldsSequences, Zenon
<1> QED BY <1>1, <1>2, FlattenMore, Zenon DEF Gather

LEMMA GatherJoined ==
    ASSUME NEW h, NEW s, NEW t, Yields(h, s), Yields(h, t)
    PROVE  Gather(h, s \o t) = Gather(h, s) \o Gather(h, t)
<1>1. Each(h, s \o t) = Each(h, s) \o Each(h, t)
  BY EachJoined, Zenon DEF Yields
<1>2. AreSequences(Each(h, s)) /\ AreSequences(Each(h, t))
  BY YieldsSequences, Zenon
<1> QED BY <1>1, <1>2, FlattenJoined, Zenon DEF Gather

\* What h finds at the places that are picked, g finds at all.
LEMMA GatherPicked ==
    ASSUME NEW h, NEW s, Yields(h, s), NEW places, NEW g,
           \A i \in DOMAIN s : g[s[i]] = IF i \in places THEN h[s[i]] ELSE <<>>
    PROVE  Gather(h, Picked(s, places)) = Gather(g, s)
<1> DEFINE es == Each(h, s)
           ss == [i \in DOMAIN es |-> IF i \in places THEN es[i] ELSE <<>>]
<1>1. IsSequence(s)
  BY DEF Yields
<1>2. /\ IsSequence(es) /\ DOMAIN es = DOMAIN s
      /\ \A i \in DOMAIN s : es[i] = h[s[i]]
  <2>1. ImageOf(es, h, s)
    BY <1>1, EachIsSequence, Zenon
  <2> QED BY <2>1, Zenon DEF ImageOf
<1>3. AreSequences(es)
  BY YieldsSequences, Zenon
<1>4. Each(h, Picked(s, places)) = Picked(es, places)
  BY <1>1, EachPicked
<1> HIDE DEF es
<1>5. FlattenSeq(Picked(es, places)) = FlattenSeq(ss)
  BY <1>3, FlattenPicked, Zenon
<1>6. ss = Each(g, s)
  BY <1>2 DEF Each
<1> QED BY <1>4, <1>5, <1>6, Zenon DEF Gather

\* What h finds in sequences that are joined, it finds in each of them.
LEMMA GatherFlattened ==
    ASSUME NEW h, NEW ss, AreSequences(ss), \A i \in DOMAIN ss : Yields(h, ss[i]),
           NEW gs, gs = [i \in DOMAIN ss |-> Gather(h, ss[i])]
    PROVE  Gather(h, FlattenSeq(ss)) = FlattenSeq(gs)
<1> DEFINE es == [i \in DOMAIN ss |-> Each(h, ss[i])]
<1>1. AreSequences(es) /\ Each(h, FlattenSeq(ss)) = FlattenSeq(es)
  BY EachFlattened, Zenon
<1>2. DOMAIN es = DOMAIN ss /\ \A i \in DOMAIN ss : es[i] = Each(h, ss[i])
  OBVIOUS
<1>3. \A i \in DOMAIN es : AreSequences(es[i])
  BY <1>2, YieldsSequences, Zenon
<1>4. gs = [i \in DOMAIN es |-> FlattenSeq(es[i])]
  BY <1>2, Zenon DEF Gather
<1> HIDE DEF es
<1>5. FlattenSeq(FlattenSeq(es)) = FlattenSeq(gs)
  BY <1>1, <1>3, <1>4, FlattenTwice, Zenon
<1> QED BY <1>1, <1>5, Zenon DEF Gather

-----------------------------------------------------------------------------
(***************************************************************************)
(* Merging                                                                 *)
(***************************************************************************)

\* The paths of the fields the adapters set.
Words == {"reasoning", "effort", "reasoning_effort", "think", "thinking", "type",
          "budget_tokens", "output_config", "generationConfig", "thinkingConfig",
          "thinkingLevel", "thinkingBudget"}
Path == Seq(Words)

\* A path clashes with itself.
LEMMA ClashesItself == ASSUME NEW p \in Path PROVE Clash(p, p)
<1>1. Len(p) <= Len(p) /\ p = SubSeq(p, 1, Len(p))
  BY DEF Path
<1> QED BY <1>1 DEF Clash, Leads

\* Paths of one length clash only if they are the same.
LEMMA ClashOfEquals ==
    ASSUME NEW p \in Path, NEW q \in Path, Len(p) = Len(q), Clash(p, q) PROVE p = q
<1>1. SubSeq(p, 1, Len(p)) = p /\ SubSeq(q, 1, Len(q)) = q
  BY DEF Path
<1> QED BY <1>1 DEF Clash, Leads

\* A field that the other object does not override survives the merge.
LEMMA MergeKeeps ==
    ASSUME NEW dst, NEW src, NEW path \in Path, path \in DOMAIN dst, ~Overrides(src, path)
    PROVE  path \in DOMAIN Merged(dst, src) /\ Merged(dst, src)[path] = dst[path]
<1>1. path \notin DOMAIN src
  BY ClashesItself DEF Overrides
<1>2. path \in {q \in DOMAIN dst : \A r \in DOMAIN src : ~Clash(r, q)}
  BY DEF Overrides
<1> QED BY <1>1, <1>2 DEF Merged

\* What the other object has is in the merged one.
LEMMA MergeTakes ==
    ASSUME NEW dst, NEW src, NEW path, path \in DOMAIN src
    PROVE  path \in DOMAIN Merged(dst, src) /\ Merged(dst, src)[path] = src[path]
BY DEF Merged

\* What neither has the merged object has not.
LEMMA MergeAddsNothing ==
    ASSUME NEW dst, NEW src, NEW path, path \in DOMAIN Merged(dst, src)
    PROVE  path \in DOMAIN dst \/ path \in DOMAIN src
BY DEF Merged

\* Nothing overrides, and merges into nothing.
LEMMA NothingOverrides ==
    ASSUME NEW dst, NEW path
    PROVE  /\ ~Overrides(NoFields, path)
           /\ path \in DOMAIN Merged(dst, NoFields) <=> path \in DOMAIN dst
           /\ path \in DOMAIN dst => Merged(dst, NoFields)[path] = dst[path]
<1>1. DOMAIN NoFields = {}
  BY DEF NoFields
<1>2. ~Overrides(NoFields, path)
  BY <1>1 DEF Overrides
<1>3. Merged(dst, NoFields) = [q \in DOMAIN dst |-> dst[q]]
  BY <1>1, Zenon DEF Merged
<1> QED BY <1>2, <1>3

-----------------------------------------------------------------------------
(***************************************************************************)
(* What is sent and what is reported, as functions of the settings         *)
(***************************************************************************)

\* The fields an adapter makes of a reasoning control.
Fields(p, r) ==
    CASE p = "anthropic" -> AnthropicAdapter!ReasoningFields(r)
      [] p = "google" -> GoogleAdapter!ReasoningFields(r)
      [] p = "openai" -> OpenAIAdapter!ReasoningFields(r)
      [] p = "openai-compat" -> CompatAdapter!ReasoningFields(r)
      [] p = "ollama" -> OllamaAdapter!ReasoningFields(r)

BodyOf(p) == Merged(Fields(p, settings.reasoning), settings.params[p].set)

\* What it says of them when the application sends fields of its own.
Controls(p, r, set) ==
    CASE p = "anthropic" ->
            AnthropicAdapter!withoutOverridden(AnthropicAdapter!mapReasoning(r), set)
      [] p = "google" -> GoogleAdapter!withoutOverridden(GoogleAdapter!mapReasoning(r), set)
      [] p = "openai" ->
            IF Overrides(set, OpenAIAdapter!Effort) THEN NoControl ELSE OpenAIAdapter!mapEffort(r)
      [] p = "openai-compat" ->
            IF Overrides(set, CompatAdapter!Effort) THEN NoControl ELSE CompatAdapter!mapEffort(r)
      [] p = "ollama" ->
            IF Overrides(set, OllamaAdapter!Think) THEN NoControl ELSE OllamaAdapter!mapReasoning(r)

\* The adapters merge and compare paths as this module does.
LEMMA SameMerging ==
    ASSUME NEW dst, NEW src, NEW path
    PROVE  /\ AnthropicAdapter!Merged(dst, src) = Merged(dst, src)
           /\ GoogleAdapter!Merged(dst, src) = Merged(dst, src)
           /\ AnthropicAdapter!Overrides(src, path) = Overrides(src, path)
           /\ GoogleAdapter!Overrides(src, path) = Overrides(src, path)
           /\ OpenAIAdapter!Overrides(src, path) = Overrides(src, path)
           /\ CompatAdapter!Overrides(src, path) = Overrides(src, path)
           /\ OllamaAdapter!Overrides(src, path) = Overrides(src, path)
BY DEF Merged, Overrides, Clash, Leads,
    AnthropicAdapter!Merged, AnthropicAdapter!Clash, AnthropicAdapter!Leads,
    GoogleAdapter!Merged, GoogleAdapter!Clash, GoogleAdapter!Leads,
    AnthropicAdapter!Overrides, GoogleAdapter!Overrides,
    OpenAIAdapter!Overrides, OpenAIAdapter!Clash, OpenAIAdapter!Leads,
    CompatAdapter!Overrides, CompatAdapter!Clash, CompatAdapter!Leads,
    OllamaAdapter!Overrides, OllamaAdapter!Clash, OllamaAdapter!Leads

\* An accepted request has the fields of the control in its body.
LEMMA ParamsBody ==
    ASSUME NEW p \in Providers, Params(p, Request).out = "ok"
    PROVE  \E turns, system, tools, choice :
              Params(p, Request)
                  = Sends(turns, system, tools, choice, Fields(p, settings.reasoning))
<1>1. Request.reasoning = settings.reasoning
  BY DEF Request
<1>2. CASE p = "anthropic"
  BY <1>1, <1>2 DEF Params, Fields, Sends, AnthropicAdapter!toParams,
      AnthropicAdapter!Sends, AnthropicAdapter!Stops
<1>3. CASE p = "google"
  BY <1>1, <1>3 DEF Params, Fields, Sends, GoogleAdapter!toParams,
      GoogleAdapter!Sends, GoogleAdapter!Stops
<1>4. CASE p = "openai"
  BY <1>1, <1>4 DEF Params, Fields, Sends, OpenAIAdapter!toParams,
      OpenAIAdapter!Sends, OpenAIAdapter!Stops
<1>5. CASE p = "openai-compat"
  BY <1>1, <1>5 DEF Params, Fields, Sends, CompatAdapter!toParams,
      CompatAdapter!Sends, CompatAdapter!Stops
<1>6. CASE p = "ollama"
  BY <1>1, <1>6 DEF Params, Fields, Sends, OllamaAdapter!toWire,
      OllamaAdapter!Sends, OllamaAdapter!Stops
<1> QED BY <1>2, <1>3, <1>4, <1>5, <1>6, ProvidersAssumption DEF ProvidersAssumption

\* What is sent has them too, with the application's own fields merged in.
LEMMA SentBody ==
    ASSUME NEW p \in Providers, Sent(p).out = "ok" PROVE Sent(p).body = BodyOf(p)
<1>1. Request.params = settings.params
  BY DEF Request
<1>2. CASE ~Request.params[p].valid
  BY <1>2 DEF Sent, Complete, Stops
<1>3. CASE Request.params[p].valid /\ Params(p, Request).out # "ok"
  BY <1>3 DEF Sent, Complete
<1>4. CASE Request.params[p].valid /\ Params(p, Request).out = "ok"
  <2>1. Sent(p) = [Params(p, Request) EXCEPT !.body = Merged(@, settings.params[p].set)]
    BY <1>1, <1>4 DEF Sent, Complete
  <2> QED BY <1>4, <2>1, ParamsBody DEF Sends, BodyOf
<1> QED BY <1>2, <1>3, <1>4

\* What an adapter reports depends on the control and the application's fields.
LEMMA AppliedControls ==
    ASSUME NEW p \in Providers
    PROVE  Applied(p, Request) = Controls(p, settings.reasoning, settings.params[p].set)
<1>1. Request.reasoning = settings.reasoning /\ Request.params = settings.params
  BY DEF Request
<1>2. CASE p = "anthropic"
  BY <1>1, <1>2 DEF Applied, Controls, AnthropicAdapter!Applied
<1>3. CASE p = "google"
  BY <1>1, <1>3 DEF Applied, Controls, GoogleAdapter!Applied
<1>4. CASE p = "openai"
  BY <1>1, <1>4, SameMerging DEF Applied, Controls, OpenAIAdapter!Applied,
      OpenAIAdapter!NoControl, OpenAIAdapter!NoEffort, NoControl, NoEffort
<1>5. CASE p = "openai-compat"
  BY <1>1, <1>5, SameMerging DEF Applied, Controls, CompatAdapter!Applied,
      CompatAdapter!NoControl, CompatAdapter!NoEffort, NoControl, NoEffort
<1>6. CASE p = "ollama"
  BY <1>1, <1>6, SameMerging DEF Applied, Controls, OllamaAdapter!Applied,
      OllamaAdapter!NoControl, OllamaAdapter!NoEffort, NoControl, NoEffort
<1> QED BY <1>2, <1>3, <1>4, <1>5, <1>6, ProvidersAssumption DEF ProvidersAssumption

-----------------------------------------------------------------------------
(***************************************************************************)
(* What is reported is what the body says                                  *)
(***************************************************************************)

\* The body agrees with what is reported of it; without fields of the
\* application's own it says no more than that.
Agree(p, applied, body, set) ==
    /\ IF applied.effort # NoEffort THEN applied.effort \in Efforts(p, body)
       ELSE set = NoFields => Efforts(p, body) = {}
    /\ IF applied.budget # 0 THEN applied.budget \in Budgets(p, body)
       ELSE set = NoFields => Budgets(p, body) = {}

\* A provider reads the field that was not overridden.
LEMMA ReadsKept ==
    ASSUME NEW dst, NEW src, NEW path \in Path, path \in DOMAIN dst, ~Overrides(src, path)
    PROVE  At(Merged(dst, src), path) = {dst[path]}
BY MergeKeeps DEF At

\* It reads nothing where nothing was set.
LEMMA ReadsNothing ==
    ASSUME NEW dst, NEW path, path \notin DOMAIN dst
    PROVE  At(Merged(dst, NoFields), path) = {}
BY NothingOverrides DEF At

\* And what was set, when nothing is merged into it.
LEMMA ReadsSet ==
    ASSUME NEW dst, NEW path, path \in DOMAIN dst
    PROVE  At(Merged(dst, NoFields), path) = {dst[path]}
BY NothingOverrides DEF At

\* The OpenAI adapter has an effort in one field.
LEMMA OpenAIAgrees ==
    ASSUME NEW r, NEW set
    PROVE  Agree("openai", Controls("openai", r, set), Merged(Fields("openai", r), set), set)
<1> DEFINE E == <<"reasoning", "effort">>
           F == Fields("openai", r)
           C == Controls("openai", r, set)
<1>1. E \in Path
  BY DEF Path, Words
<1>2. CASE r.effort \in AllEfforts
  <2>1. E \in DOMAIN F /\ F[E] = r.effort
    BY <1>2 DEF Fields, OpenAIAdapter!ReasoningFields, OpenAIAdapter!AllEfforts, AllEfforts,
        OpenAIAdapter!Field, OpenAIAdapter!Effort
  <2>2. CASE Overrides(set, E)
    <3>1. C = NoControl
      BY <2>2 DEF Controls, OpenAIAdapter!Effort
    <3>2. set # NoFields
      BY <2>2, NothingOverrides
    <3> QED BY <3>1, <3>2 DEF Agree, NoControl
  <2>3. CASE ~Overrides(set, E)
    <3>1. C = [effort |-> r.effort, budget |-> 0]
      BY <1>2, <2>3 DEF Controls, OpenAIAdapter!Effort, OpenAIAdapter!mapEffort,
          OpenAIAdapter!AllEfforts, AllEfforts
    <3>2. At(Merged(F, set), E) = {r.effort}
      BY <1>1, <2>1, <2>3, ReadsKept
    <3>3. r.effort # NoEffort
      BY <1>2 DEF AllEfforts, NoEffort
    <3> QED BY <3>1, <3>2, <3>3 DEF Agree, Efforts, Budgets
  <2> QED BY <2>2, <2>3
<1>3. CASE r.effort \notin AllEfforts
  <2>1. E \notin DOMAIN F
    BY <1>3 DEF Fields, OpenAIAdapter!ReasoningFields, OpenAIAdapter!AllEfforts, AllEfforts,
        OpenAIAdapter!NoFields
  <2>2. C = NoControl
    BY <1>3 DEF Controls, OpenAIAdapter!mapEffort, OpenAIAdapter!AllEfforts, AllEfforts,
        OpenAIAdapter!NoControl, OpenAIAdapter!NoEffort, NoControl, NoEffort
  <2>3. At(Merged(F, NoFields), E) = {}
    BY <2>1, ReadsNothing
  <2> QED BY <2>2, <2>3 DEF Agree, Efforts, Budgets, NoControl
<1> QED BY <1>2, <1>3

\* So has the adapter for Chat Completions.
LEMMA CompatAgrees ==
    ASSUME NEW r, NEW set
    PROVE  Agree("openai-compat", Controls("openai-compat", r, set),
                 Merged(Fields("openai-compat", r), set), set)
<1> DEFINE E == <<"reasoning_effort">>
           F == Fields("openai-compat", r)
           C == Controls("openai-compat", r, set)
<1>1. E \in Path
  BY DEF Path, Words
<1>2. CASE r.effort \in AllEfforts
  <2>1. E \in DOMAIN F /\ F[E] = r.effort
    BY <1>2 DEF Fields, CompatAdapter!ReasoningFields, CompatAdapter!AllEfforts, AllEfforts,
        CompatAdapter!Field, CompatAdapter!Effort
  <2>2. CASE Overrides(set, E)
    <3>1. C = NoControl
      BY <2>2 DEF Controls, CompatAdapter!Effort
    <3>2. set # NoFields
      BY <2>2, NothingOverrides
    <3> QED BY <3>1, <3>2 DEF Agree, NoControl
  <2>3. CASE ~Overrides(set, E)
    <3>1. C = [effort |-> r.effort, budget |-> 0]
      BY <1>2, <2>3 DEF Controls, CompatAdapter!Effort, CompatAdapter!mapEffort,
          CompatAdapter!AllEfforts, AllEfforts
    <3>2. At(Merged(F, set), E) = {r.effort}
      BY <1>1, <2>1, <2>3, ReadsKept
    <3>3. r.effort # NoEffort
      BY <1>2 DEF AllEfforts, NoEffort
    <3> QED BY <3>1, <3>2, <3>3 DEF Agree, Efforts, Budgets
  <2> QED BY <2>2, <2>3
<1>3. CASE r.effort \notin AllEfforts
  <2>1. E \notin DOMAIN F
    BY <1>3 DEF Fields, CompatAdapter!ReasoningFields, CompatAdapter!AllEfforts, AllEfforts,
        CompatAdapter!NoFields
  <2>2. C = NoControl
    BY <1>3 DEF Controls, CompatAdapter!mapEffort, CompatAdapter!AllEfforts, AllEfforts,
        CompatAdapter!NoControl, CompatAdapter!NoEffort, NoControl, NoEffort
  <2>3. At(Merged(F, NoFields), E) = {}
    BY <2>1, ReadsNothing
  <2> QED BY <2>2, <2>3 DEF Agree, Efforts, Budgets, NoControl
<1> QED BY <1>2, <1>3

\* Ollama's field is a level or false.
LEMMA OllamaAgrees ==
    ASSUME NEW r, NEW set
    PROVE  Agree("ollama", Controls("ollama", r, set), Merged(Fields("ollama", r), set), set)
<1> DEFINE E == <<"think">>
           F == Fields("ollama", r)
           C == Controls("ollama", r, set)
           Known == {"none", "low", "medium", "high"}
           Word == IF r.effort = "none" THEN "false" ELSE r.effort
<1>1. E \in Path
  BY DEF Path, Words
<1>2. DOMAIN OllamaAdapter!Levels = Known
  BY DEF OllamaAdapter!Levels
<1>3. CASE r.effort \in Known
  <2>1. E \in DOMAIN F /\ F[E] = Word
    BY <1>2, <1>3 DEF Fields, OllamaAdapter!ReasoningFields, OllamaAdapter!Levels,
        OllamaAdapter!Field, OllamaAdapter!Think
  <2>2. CASE Overrides(set, E)
    <3>1. C = NoControl
      BY <2>2 DEF Controls, OllamaAdapter!Think
    <3>2. set # NoFields
      BY <2>2, NothingOverrides
    <3> QED BY <3>1, <3>2 DEF Agree, NoControl
  <2>3. CASE ~Overrides(set, E)
    <3>1. C = [effort |-> r.effort, budget |-> 0]
      BY <1>2, <1>3, <2>3 DEF Controls, OllamaAdapter!Think, OllamaAdapter!mapReasoning
    <3>2. At(Merged(F, set), E) = {Word}
      BY <1>1, <2>1, <2>3, ReadsKept
    <3>3. r.effort # NoEffort /\ (IF Word = "false" THEN "none" ELSE Word) = r.effort
      BY <1>3 DEF NoEffort
    <3>4. r.effort \in Efforts("ollama", Merged(F, set))
      BY <3>2, <3>3 DEF Efforts
    <3> QED BY <3>1, <3>3, <3>4 DEF Agree, Budgets
  <2> QED BY <2>2, <2>3
<1>4. CASE r.effort \notin Known
  <2>1. E \notin DOMAIN F
    BY <1>2, <1>4 DEF Fields, OllamaAdapter!ReasoningFields, OllamaAdapter!NoFields
  <2>2. C = NoControl
    BY <1>2, <1>4 DEF Controls, OllamaAdapter!mapReasoning, OllamaAdapter!NoControl,
        OllamaAdapter!NoEffort, NoControl, NoEffort
  <2>3. At(Merged(F, NoFields), E) = {}
    BY <2>1, ReadsNothing
  <2> QED BY <2>2, <2>3 DEF Agree, Efforts, Budgets, NoControl
<1> QED BY <1>3, <1>4

\* A field of two that do not clash is in the merged object.
LEMMA TwoFields ==
    ASSUME NEW p \in Path, NEW q \in Path, ~Clash(q, p), NEW v, NEW w, NEW one, NEW two,
           one = Field(p, v) \/ one = NoFields, two = Field(q, w) \/ two = NoFields
    PROVE  LET both == Merged(one, two)
           IN  /\ p \in DOMAIN both <=> one = Field(p, v)
               /\ one = Field(p, v) => both[p] = v
               /\ q \in DOMAIN both <=> two = Field(q, w)
               /\ two = Field(q, w) => both[q] = w
<1>1. /\ DOMAIN Field(p, v) = {p} /\ Field(p, v)[p] = v
      /\ DOMAIN Field(q, w) = {q} /\ Field(q, w)[q] = w
      /\ DOMAIN NoFields = {}
  BY DEF Field, NoFields
<1>2. p # q
  BY ClashesItself
<1>3. ~Overrides(two, p)
  BY <1>1 DEF Overrides
<1>4. p \in DOMAIN one => p \in DOMAIN Merged(one, two) /\ Merged(one, two)[p] = one[p]
  BY <1>3, MergeKeeps
<1>5. q \in DOMAIN two => q \in DOMAIN Merged(one, two) /\ Merged(one, two)[q] = two[q]
  BY MergeTakes
<1>6. \A x \in DOMAIN Merged(one, two) : x \in DOMAIN one \/ x \in DOMAIN two
  BY MergeAddsNothing
<1> QED BY <1>1, <1>2, <1>4, <1>5, <1>6

\* Google's level and budget are two fields of one object.
LEMMA GoogleAgrees ==
    ASSUME NEW r, r.budget \in Int, NEW set
    PROVE  Agree("google", Controls("google", r, set), Merged(Fields("google", r), set), set)
<1> DEFINE L == GoogleConfig("thinkingLevel")
           B == GoogleConfig("thinkingBudget")
           F == Fields("google", r)
           C == Controls("google", r, set)
           Body == Merged(F, set)
           Known == {"minimal", "low", "medium", "high"}
           Word == GoogleAdapter!Levels[r.effort]
           Tokens == IF r.budget < MaxInt32 THEN r.budget ELSE MaxInt32
           One == IF r.effort \in Known THEN Field(L, Word) ELSE NoFields
           Two == IF r.budget > 0 THEN Field(B, Tokens) ELSE NoFields
<1>1. L \in Path /\ B \in Path /\ Len(L) = 3 /\ Len(B) = 3 /\ L # B
  BY DEF Path, Words, GoogleConfig
<1>2. ~Clash(B, L)
  BY <1>1, ClashOfEquals
<1>3. L = GoogleAdapter!Level /\ B = GoogleAdapter!Budget
  BY DEF GoogleConfig, GoogleAdapter!Level, GoogleAdapter!Budget
<1>4. DOMAIN GoogleAdapter!Levels = Known
  BY DEF GoogleAdapter!Levels
<1>5. F = Merged(One, Two)
  BY <1>3, <1>4, SameMerging DEF Fields, GoogleAdapter!ReasoningFields, GoogleAdapter!Field,
      GoogleAdapter!NoFields, GoogleAdapter!Least, Field, NoFields
<1>6. DOMAIN Field(L, Word) = {L} /\ DOMAIN Field(B, Tokens) = {B} /\ DOMAIN NoFields = {}
  BY DEF Field, NoFields
<1>7. /\ One = Field(L, Word) <=> r.effort \in Known
      /\ Two = Field(B, Tokens) <=> r.budget > 0
  BY <1>6
<1>8. /\ L \in DOMAIN F <=> r.effort \in Known
      /\ r.effort \in Known => F[L] = Word
      /\ B \in DOMAIN F <=> r.budget > 0
      /\ r.budget > 0 => F[B] = Tokens
  <2> HIDE DEF L, B, F, Word, Tokens, Known
  <2> QED BY <1>1, <1>2, <1>5, <1>7, TwoFields
<1>9. IF C.effort # NoEffort THEN C.effort \in Efforts("google", Body)
      ELSE set = NoFields => Efforts("google", Body) = {}
  <2>1. C.effort = IF Overrides(set, L) \/ r.effort \notin Known THEN NoEffort ELSE r.effort
    BY <1>3, <1>4, SameMerging DEF Controls, GoogleAdapter!withoutOverridden,
        GoogleAdapter!mapReasoning, GoogleAdapter!NoEffort, NoEffort
  <2>2. CASE r.effort \in Known /\ ~Overrides(set, L)
    <3>1. At(Body, L) = {Word}
      BY <1>1, <1>8, <2>2, ReadsKept
    <3>2. Word \in DOMAIN GoogleLevels /\ GoogleLevels[Word] = r.effort /\ r.effort \in AllEfforts
      BY <2>2 DEF GoogleLevels, GoogleAdapter!Levels, AllEfforts
    <3>3. r.effort \in Efforts("google", Body)
      BY <3>1, <3>2 DEF Efforts
    <3>4. r.effort # NoEffort
      BY <2>2 DEF NoEffort
    <3> QED BY <2>1, <2>2, <3>3, <3>4
  <2>3. CASE Overrides(set, L)
    BY <2>1, <2>3, NothingOverrides
  <2>4. CASE r.effort \notin Known
    <3>1. At(Merged(F, NoFields), L) = {}
      BY <1>8, <2>4, ReadsNothing
    <3> QED BY <2>1, <2>4, <3>1 DEF Efforts
  <2> QED BY <2>2, <2>3, <2>4
<1>10. IF C.budget # 0 THEN C.budget \in Budgets("google", Body)
       ELSE set = NoFields => Budgets("google", Body) = {}
  <2>1. C.budget = IF Overrides(set, B) \/ r.budget <= 0 THEN 0 ELSE Tokens
    BY <1>3, SameMerging DEF Controls, GoogleAdapter!withoutOverridden,
        GoogleAdapter!mapReasoning, GoogleAdapter!Least
  <2>2. CASE r.budget > 0 /\ ~Overrides(set, B)
    <3>1. At(Body, B) = {Tokens}
      BY <1>1, <1>8, <2>2, ReadsKept
    <3>2. Tokens # 0
      BY <2>2, MaxInt32Assumption DEF MaxInt32Assumption
    <3> QED BY <2>1, <2>2, <3>1, <3>2 DEF Budgets
  <2>3. CASE Overrides(set, B)
    BY <2>1, <2>3, NothingOverrides
  <2>4. CASE r.budget <= 0
    <3>1. At(Merged(F, NoFields), B) = {}
      BY <1>8, <2>4, ReadsNothing
    <3> QED BY <2>1, <2>4, <3>1 DEF Budgets
  <2> QED BY <2>2, <2>3, <2>4
<1> QED BY <1>9, <1>10 DEF Agree

\* Anthropic's effort has a field of its own; none and a budget share one.
LEMMA AnthropicAgrees ==
    ASSUME NEW r, r.budget \in Int, NEW set
    PROVE  Agree("anthropic", Controls("anthropic", r, set), Merged(Fields("anthropic", r), set),
                 set)
<1> DEFINE E == <<"output_config", "effort">>
           T == <<"thinking", "type">>
           B == <<"thinking", "budget_tokens">>
           F == Fields("anthropic", r)
           C == Controls("anthropic", r, set)
           Body == Merged(F, set)
           Sets == r.effort \in {"low", "medium", "high", "xhigh", "max"}
           Disables == r.effort = "none" /\ r.budget <= 0
           One == IF Sets THEN Field(E, r.effort) ELSE NoFields
           Both == Merged(Field(T, "enabled"), Field(B, r.budget))
           Two == IF r.budget > 0 THEN Both
                  ELSE IF Disables THEN Field(T, "disabled") ELSE NoFields
<1>1. /\ E \in Path /\ T \in Path /\ B \in Path
      /\ Len(E) = 2 /\ Len(T) = 2 /\ Len(B) = 2
      /\ E # T /\ E # B /\ T # B
  BY DEF Path, Words
<1>2. ~Clash(T, E) /\ ~Clash(B, E) /\ ~Clash(B, T)
  BY <1>1, ClashOfEquals
<1>3. /\ E = AnthropicAdapter!Effort /\ T = AnthropicAdapter!Thinking
      /\ B = AnthropicAdapter!Budget
      /\ Sets <=> AnthropicAdapter!SetsEffort(r)
      /\ Disables <=> AnthropicAdapter!Disables(r)
  BY DEF AnthropicAdapter!Effort, AnthropicAdapter!Thinking, AnthropicAdapter!Budget,
      AnthropicAdapter!SetsEffort, AnthropicAdapter!Disables
<1>4. F = Merged(One, Two)
  <2> DEFINE Initial == IF AnthropicAdapter!SetsEffort(r)
                        THEN AnthropicAdapter!Field(AnthropicAdapter!Effort, r.effort)
                        ELSE AnthropicAdapter!NoFields
             Second == CASE r.budget > 0 ->
                              AnthropicAdapter!Merged(
                                  AnthropicAdapter!Field(AnthropicAdapter!Thinking, "enabled"),
                                  AnthropicAdapter!Field(AnthropicAdapter!Budget, r.budget))
                         [] AnthropicAdapter!Disables(r) ->
                              AnthropicAdapter!Field(AnthropicAdapter!Thinking, "disabled")
                         [] OTHER -> AnthropicAdapter!NoFields
  <2>1. F = AnthropicAdapter!Merged(Initial, Second)
    BY DEF Fields, AnthropicAdapter!ReasoningFields
  <2>2. Initial = One
    BY <1>3 DEF AnthropicAdapter!Field, AnthropicAdapter!NoFields, Field, NoFields
  <2>3. CASE r.budget > 0
    <3>1. Second = AnthropicAdapter!Merged(
                       AnthropicAdapter!Field(AnthropicAdapter!Thinking, "enabled"),
                       AnthropicAdapter!Field(AnthropicAdapter!Budget, r.budget))
      BY <2>3 DEF AnthropicAdapter!Disables
    <3>2. Second = Both
      BY <1>3, <3>1, SameMerging DEF AnthropicAdapter!Field, Field
    <3> QED BY <2>1, <2>2, <2>3, <3>2, SameMerging
  <2>4. CASE ~(r.budget > 0) /\ Disables
    <3>1. Second = Field(T, "disabled")
      BY <1>3, <2>4 DEF AnthropicAdapter!Field, Field
    <3> QED BY <2>1, <2>2, <2>4, <3>1, SameMerging
  <2>5. CASE ~(r.budget > 0) /\ ~Disables
    <3>1. Second = NoFields
      BY <1>3, <2>5 DEF AnthropicAdapter!NoFields, NoFields
    <3> QED BY <2>1, <2>2, <2>5, <3>1, SameMerging
  <2> QED BY <2>3, <2>4, <2>5
<1>5. /\ DOMAIN Field(E, r.effort) = {E} /\ Field(E, r.effort)[E] = r.effort
      /\ DOMAIN Field(T, "disabled") = {T} /\ Field(T, "disabled")[T] = "disabled"
      /\ DOMAIN NoFields = {}
  BY DEF Field, NoFields
<1>6. /\ DOMAIN Both = {T, B} /\ Both[T] = "enabled" /\ Both[B] = r.budget
  <2>1. /\ T \in DOMAIN Both /\ Both[T] = "enabled"
        /\ B \in DOMAIN Both /\ Both[B] = r.budget
    BY <1>1, <1>2, TwoFields
  <2>2. DOMAIN Both \subseteq {T, B}
    BY MergeAddsNothing DEF Field
  <2> QED BY <2>1, <2>2
<1>7. /\ E \in DOMAIN F <=> Sets
      /\ Sets => F[E] = r.effort
      /\ T \in DOMAIN F <=> r.budget > 0 \/ Disables
      /\ r.budget > 0 => F[T] = "enabled"
      /\ Disables => F[T] = "disabled"
      /\ B \in DOMAIN F <=> r.budget > 0
      /\ r.budget > 0 => F[B] = r.budget
  <2> HIDE DEF E, T, B, F, Both
  <2>1. DOMAIN Two \subseteq {T, B} /\ (E \in DOMAIN One <=> Sets) /\ DOMAIN One \subseteq {E}
    BY <1>5, <1>6
  <2>2. ~Overrides(Two, E)
    BY <1>2, <2>1 DEF Overrides
  <2>3. Sets => E \in DOMAIN F /\ F[E] = r.effort
    BY <1>1, <1>4, <1>5, <2>2, MergeKeeps
  <2>4. /\ T \in DOMAIN Two => T \in DOMAIN F /\ F[T] = Two[T]
        /\ B \in DOMAIN Two => B \in DOMAIN F /\ F[B] = Two[B]
    BY <1>4, MergeTakes
  <2>5. \A x \in DOMAIN F : x \in DOMAIN One \/ x \in DOMAIN Two
    BY <1>4, MergeAddsNothing
  <2>6. /\ T \in DOMAIN Two <=> r.budget > 0 \/ Disables
        /\ B \in DOMAIN Two <=> r.budget > 0
        /\ r.budget > 0 => Two[T] = "enabled" /\ Two[B] = r.budget
        /\ Disables => Two[T] = "disabled"
    BY <1>1, <1>5, <1>6
  <2> HIDE DEF One, Two
  <2> QED BY <1>1, <2>1, <2>3, <2>4, <2>5, <2>6
<1>8. IF C.effort # NoEffort THEN C.effort \in Efforts("anthropic", Body)
      ELSE set = NoFields => Efforts("anthropic", Body) = {}
  <2> DEFINE A == AnthropicAdapter!mapReasoning(r)
  <2>1. A.effort = IF Sets \/ Disables THEN r.effort ELSE NoEffort
    BY <1>3 DEF AnthropicAdapter!mapReasoning, AnthropicAdapter!NoEffort, NoEffort
  <2>2. C.effort = IF \/ A.effort = "none" /\ Overrides(set, T)
                      \/ A.effort # "none" /\ Overrides(set, E)
                   THEN NoEffort ELSE A.effort
    BY <1>3, SameMerging DEF Controls, AnthropicAdapter!withoutOverridden,
        AnthropicAdapter!NoEffort, NoEffort
  <2> HIDE DEF A
  <2>3. CASE Sets
    <3>1. A.effort = r.effort /\ r.effort # "none" /\ r.effort # NoEffort
      BY <2>1, <2>3 DEF NoEffort
    <3>2. CASE ~Overrides(set, E)
      <4>1. At(Body, E) = {r.effort}
        BY <1>1, <1>7, <2>3, <3>2, ReadsKept
      <4>2. r.effort \in Efforts("anthropic", Body)
        BY <4>1 DEF Efforts
      <4> QED BY <2>2, <3>1, <3>2, <4>2
    <3>3. CASE Overrides(set, E)
      BY <2>2, <3>1, <3>3, NothingOverrides
    <3> QED BY <3>2, <3>3
  <2>4. CASE Disables
    <3>1. A.effort = "none" /\ "none" # NoEffort
      BY <2>1, <2>4 DEF NoEffort
    <3>2. CASE ~Overrides(set, T)
      <4>1. At(Body, T) = {"disabled"}
        BY <1>1, <1>7, <2>4, <3>2, ReadsKept
      <4>2. "none" \in Efforts("anthropic", Body)
        BY <4>1 DEF Efforts
      <4> QED BY <2>2, <3>1, <3>2, <4>2
    <3>3. CASE Overrides(set, T)
      BY <2>2, <3>1, <3>3, NothingOverrides
    <3> QED BY <3>2, <3>3
  <2>5. CASE ~Sets /\ ~Disables
    <3>1. C.effort = NoEffort
      BY <2>1, <2>2, <2>5
    <3>2. At(Merged(F, NoFields), E) = {}
      BY <1>7, <2>5, ReadsNothing
    <3>3. At(Merged(F, NoFields), T) # {"disabled"}
      <4>1. CASE r.budget > 0
        BY <1>7, <4>1, ReadsSet
      <4>2. CASE r.budget <= 0
        BY <1>7, <2>5, <4>2, ReadsNothing
      <4> QED BY <4>1, <4>2
    <3>4. Efforts("anthropic", Merged(F, NoFields)) = {}
      BY <3>2, <3>3 DEF Efforts
    <3> QED BY <3>1, <3>4
  <2> QED BY <2>3, <2>4, <2>5
<1>9. IF C.budget # 0 THEN C.budget \in Budgets("anthropic", Body)
      ELSE set = NoFields => Budgets("anthropic", Body) = {}
  <2>1. C.budget = IF r.budget > 0 /\ ~Overrides(set, T) /\ ~Overrides(set, B)
                   THEN r.budget ELSE 0
    BY <1>3, SameMerging DEF Controls, AnthropicAdapter!withoutOverridden,
        AnthropicAdapter!mapReasoning
  <2>2. CASE r.budget > 0 /\ ~Overrides(set, T) /\ ~Overrides(set, B)
    <3>1. At(Body, T) = {"enabled"} /\ At(Body, B) = {r.budget}
      BY <1>1, <1>7, <2>2, ReadsKept
    <3>2. r.budget \in Budgets("anthropic", Body)
      BY <3>1 DEF Budgets
    <3> QED BY <2>1, <2>2, <3>2
  <2>3. CASE Overrides(set, T) \/ Overrides(set, B)
    BY <2>1, <2>3, NothingOverrides
  <2>4. CASE r.budget <= 0
    <3>1. At(Merged(F, NoFields), B) = {}
      BY <1>7, <2>4, ReadsNothing
    <3>2. Budgets("anthropic", Merged(F, NoFields)) = {}
      BY <3>1 DEF Budgets
    <3> QED BY <2>1, <2>4, <3>2
  <2> QED BY <2>2, <2>3, <2>4
<1> QED BY <1>8, <1>9 DEF Agree

-----------------------------------------------------------------------------
(***************************************************************************)
(* Counts                                                                  *)
(***************************************************************************)
Counts == [input : Nat, output : Nat, reasoning : Int, read : Int, write : Int,
           detailed : BOOLEAN]

\* The counts of a response add up.
Sums(p, n, u) ==
    /\ \/ u.billable = u.output + u.reasoning
       \/ p = "openai" /\ n.reasoning > n.output
    /\ u.read >= 0 /\ u.write >= 0 /\ u.read + u.write <= u.input
    /\ u.output >= 0

\* Only where no adapter bounds it is a reasoning count negative.
ReasoningCounts(p, n, u) ==
    \/ u.reasoning >= 0
    \/ p \in {"openai", "google"} /\ n.reasoning < 0

\* Every adapter's counts add up, whatever the details a server reports.
LEMMA CountsAddUp ==
    ASSUME NEW p \in Providers, NEW n \in Counts
    PROVE  Sums(p, n, Usage(p, n)) /\ ReasoningCounts(p, n, Usage(p, n))
<1> DEFINE u == Usage(p, n)
<1>1. /\ n.input \in Nat /\ n.output \in Nat
      /\ n.reasoning \in Int /\ n.read \in Int /\ n.write \in Int
  BY DEF Counts
<1>2. CASE p = "anthropic"
  <2>1. u = AnthropicAdapter!buildUsage(n)
    BY <1>2 DEF Usage
  <2>2. Sums(p, n, u) /\ u.reasoning >= 0
    BY <1>1, <1>2, <2>1, SMTT(60)
    DEF Sums, AnthropicAdapter!buildUsage, AnthropicAdapter!UsageOf,
        AnthropicAdapter!Least, AnthropicAdapter!Most
  <2> QED BY <1>1, <1>2, <2>2 DEF ReasoningCounts
<1>3. CASE p = "google"
  <2>1. u = GoogleAdapter!Usage(n)
    BY <1>3 DEF Usage
  <2>2. u.reasoning = n.reasoning
    BY <2>1 DEF GoogleAdapter!Usage, GoogleAdapter!UsageOf
  <2>3. /\ u.billable = u.output + u.reasoning
        /\ u.output = n.output
    BY <1>1, <2>1 DEF GoogleAdapter!Usage, GoogleAdapter!UsageOf
  <2>4. u.read >= 0 /\ u.write = 0 /\ u.read <= u.input
    BY <1>1, <2>1 DEF GoogleAdapter!Usage, GoogleAdapter!UsageOf,
        GoogleAdapter!CacheRead, GoogleAdapter!Least, GoogleAdapter!Most
  <2>5. u.read \in Int /\ u.input \in Int
    BY <1>1, <2>1 DEF GoogleAdapter!Usage, GoogleAdapter!UsageOf,
        GoogleAdapter!CacheRead, GoogleAdapter!Least, GoogleAdapter!Most
  <2>6. Sums(p, n, u)
    BY <1>1, <2>3, <2>4, <2>5 DEF Sums
  <2> QED BY <1>1, <1>3, <2>2, <2>6 DEF ReasoningCounts
<1>4. CASE p = "openai"
  <2>1. u = OpenAIAdapter!Usage(n)
    BY <1>4 DEF Usage
  <2>2. Sums(p, n, u) /\ u.reasoning = n.reasoning
    BY <1>1, <1>4, <2>1, SMTT(60)
    DEF Sums, OpenAIAdapter!Usage, OpenAIAdapter!UsageOf,
        OpenAIAdapter!CacheRead, OpenAIAdapter!CacheWrite, OpenAIAdapter!Least, OpenAIAdapter!Most
  <2> QED BY <1>1, <1>4, <2>2 DEF ReasoningCounts
<1>5. CASE p = "openai-compat"
  <2>1. u = CompatAdapter!buildUsage(n)
    BY <1>5 DEF Usage
  <2>2. Sums(p, n, u) /\ u.reasoning >= 0
    BY <1>1, <1>5, <2>1, SMTT(60)
    DEF Sums, CompatAdapter!buildUsage, CompatAdapter!UsageOf,
        CompatAdapter!CacheRead, CompatAdapter!CacheWrite, CompatAdapter!Least, CompatAdapter!Most
  <2> QED BY <1>1, <1>5, <2>2 DEF ReasoningCounts
<1>6. CASE p = "ollama"
  <2>1. Sums(p, n, u) /\ u.reasoning >= 0
    BY <1>1, <1>6 DEF Usage, Sums, OllamaAdapter!Usage, OllamaAdapter!UsageOf
  <2> QED BY <2>1 DEF ReasoningCounts
<1> QED BY <1>2, <1>3, <1>4, <1>5, <1>6, ProvidersAssumption DEF ProvidersAssumption

-----------------------------------------------------------------------------
(***************************************************************************)
(* The conversation                                                        *)
(***************************************************************************)

\* What a provider was sent has the body its settings call for, and what a
\* response reports is computed from those settings: the body on the wire is
\* still the one the response answers.
ConversationInv ==
    /\ settings \in Settings
    /\ asked \in Providers \cup {Nobody}
    /\ asked # Nobody /\ wire.out = "ok" => wire.body = BodyOf(asked)
    /\ response # NoResponse =>
          /\ response.by \in Providers
          /\ wire.body = BodyOf(response.by)
          /\ response.applied =
                Controls(response.by, settings.reasoning, settings.params[response.by].set)
          /\ response.usage = Usage(response.by, settings.counts)

\* A conversation begins without a request.
LEMMA ConversationInit == Init => ConversationInv
BY DEF Init, ConversationInv

\* No step of the application or a provider breaks the invariant.
LEMMA ConversationStep == ConversationInv /\ [Next]_vars => ConversationInv'
<1> SUFFICES ASSUME ConversationInv, [Next]_vars PROVE ConversationInv'
  OBVIOUS
<1>1. CASE \E p \in Providers : Ask(p)
  <2> PICK p \in Providers : Ask(p)
    BY <1>1
  <2>1. p # Nobody
    BY ProvidersAssumption DEF ProvidersAssumption, Nobody
  <2>2. wire'.out = "ok" => wire'.body = BodyOf(p)
    BY SentBody DEF Ask
  <2>3. BodyOf(p)' = BodyOf(p)
    BY DEF Ask, BodyOf
  <2> QED BY <2>1, <2>2, <2>3 DEF Ask, ConversationInv, BodyOf
<1>2. CASE Fail
  BY <1>2 DEF Fail, ConversationInv, BodyOf
<1>3. CASE \E reply \in Replies : Answer(reply)
  <2> PICK reply \in Replies : Answer(reply)
    BY <1>3
  <2>1. asked \in Providers /\ wire.body = BodyOf(asked)
    BY DEF Answer, ConversationInv
  <2>2. /\ response'.by = asked
        /\ response'.applied = Applied(asked, Request)
        /\ response'.usage = Usage(asked, settings.counts)
    BY DEF Answer
  <2>3. response'.applied = Controls(asked, settings.reasoning, settings.params[asked].set)
    BY <2>1, <2>2, AppliedControls
  <2> QED BY <2>1, <2>2, <2>3 DEF Answer, ConversationInv, BodyOf
<1>4. CASE \E n \in 1 .. Len(OpenCalls) : RunTools(n)
  BY <1>4 DEF RunTools, Say, ConversationInv, BodyOf
<1>5. CASE \E parts \in Questions : Speak(parts)
  BY <1>5 DEF Speak, Say, ConversationInv, BodyOf
<1>6. CASE UNCHANGED vars
  BY <1>6 DEF vars, ConversationInv, BodyOf
<1> QED BY <1>1, <1>2, <1>3, <1>4, <1>5, <1>6 DEF Next

\* What a response says of its reasoning controls is what the request said,
\* after any fields of the application were merged into it: no override is
\* reported as if it had not happened, and nothing the adapter sent is kept
\* silent (withoutOverridden, ADR-0022, ADR-0024).
THEOREM ReportsWhatWasSent == Spec => []AppliedIsSent
<1>1. ConversationInv => AppliedIsSent
  <2> SUFFICES ASSUME ConversationInv, response # NoResponse PROVE AppliedIsSent
    BY DEF AppliedIsSent
  <2> DEFINE by == response.by
             set == settings.params[by].set
  <2>1. /\ by \in Providers /\ wire.body = Merged(Fields(by, settings.reasoning), set)
        /\ response.applied = Controls(by, settings.reasoning, set)
    BY DEF ConversationInv, BodyOf
  <2>2. settings.reasoning.budget \in Int
    BY SettingsAssumption DEF SettingsAssumption, ConversationInv
  <2>3. Agree(by, response.applied, wire.body, set)
    <3> HIDE DEF by, set
    <3> QED BY <2>1, <2>2, AnthropicAgrees, GoogleAgrees, OpenAIAgrees, CompatAgrees,
                OllamaAgrees, ProvidersAssumption DEF ProvidersAssumption
  <2> QED BY <2>3 DEF Agree, AppliedIsSent
<1> QED BY <1>1, ConversationInit, ConversationStep, PTL DEF Spec

\* Input and output counts that are not negative, which SettingsAssumption asks of
\* a server, are split into parts that add up and are not negative, whatever
\* integers the server reports as reasoning and cache counts. The exceptions are
\* in the property: OpenAI's adapter does not bound the reasoning by the output,
\* and it and Google's let a negative reasoning count through (usage.go, ADR-0016,
\* ADR-0023).
THEOREM UsageIsConsistent == Spec => []UsageAddsUp
<1>1. ConversationInv => UsageAddsUp
  <2> SUFFICES ASSUME ConversationInv, response # NoResponse PROVE UsageAddsUp
    BY DEF UsageAddsUp
  <2>1. settings.counts \in Counts
    BY SettingsAssumption DEF SettingsAssumption, ConversationInv, Counts
  <2>2. /\ Sums(response.by, settings.counts, response.usage)
        /\ ReasoningCounts(response.by, settings.counts, response.usage)
    BY <2>1, CountsAddUp DEF ConversationInv
  <2> QED BY <2>2 DEF Sums, ReasoningCounts, UsageAddsUp
<1> QED BY <1>1, ConversationInit, ConversationStep, PTL DEF Spec

-----------------------------------------------------------------------------
(***************************************************************************)
(* Anthropic's turns                                                       *)
(***************************************************************************)

\* What the blocks of some parts are taken from.
BlockSet(W) ==
    {Text(p.body, TRUE) : p \in W} \cup {Text(p.body, FALSE) : p \in W}
        \cup {ToolCall(p.id, p.name, NoSignature) : p \in W} \cup W

BlockStates(W) ==
    [results : Seq(BlockSet(W)), others : Seq(BlockSet(W)), seen : Int, ok : BOOLEAN]

\* A part that can be sent as a block.
Sendable(p) ==
    /\ p.kind \in Kinds
    /\ p.kind = "text" => p.body # Empty
    /\ p.kind = "reasoning" => p.data.seal # "none"

\* A part adds a block, and one that can be sent spoils nothing.
LEMMA BlockStep ==
    ASSUME NEW W, NEW s \in BlockStates(W), NEW p \in W, p.kind \in Kinds, NEW skip,
           NEW t, t = AnthropicAdapter!Block(s, p, skip)
    PROVE  /\ t \in BlockStates(W)
           /\ Sendable(p) => t.ok = s.ok
           /\ s.others # <<>> \/ p.kind # "tool_result" => t.others # <<>>
<1> DEFINE B == BlockSet(W)
           block == Text(p.body, p.marked /\ s.seen >= skip)
           call == ToolCall(p.id, p.name, NoSignature)
<1>1. /\ s.results \in Seq(B) /\ s.others \in Seq(B) /\ s.seen \in Int /\ s.ok \in BOOLEAN
      /\ s = [results |-> s.results, others |-> s.others, seen |-> s.seen, ok |-> s.ok]
  BY DEF BlockStates
<1>2. block \in B /\ call \in B /\ p \in B
  <2>1. block = Text(p.body, TRUE) \/ block = Text(p.body, FALSE)
    OBVIOUS
  <2> HIDE DEF block
  <2> QED BY <2>1 DEF BlockSet
<1> HIDE DEF B, block, call
<1>3. \A x \in B : /\ Append(s.others, x) \in Seq(B) /\ Append(s.results, x) \in Seq(B)
                    /\ Append(s.others, x) # <<>>
  BY <1>1
<1>4. CASE p.kind = "text"
  <2>1. t = [results |-> s.results, others |-> Append(s.others, block),
             seen |-> IF p.marked THEN s.seen + 1 ELSE s.seen, ok |-> s.ok /\ p.body # Empty]
    BY <1>1, <1>4 DEF AnthropicAdapter!Block, AnthropicAdapter!Text, AnthropicAdapter!Empty,
        Empty, Text, block
  <2> QED BY <1>1, <1>2, <1>3, <1>4, <2>1 DEF BlockStates, B, Sendable
<1>5. CASE p.kind = "tool_call"
  <2>1. t = [results |-> s.results, others |-> Append(s.others, call), seen |-> s.seen, ok |-> s.ok]
    BY <1>1, <1>5 DEF AnthropicAdapter!Block, AnthropicAdapter!ToolCall,
        AnthropicAdapter!NoSignature, NoSignature, ToolCall, call
  <2> QED BY <1>1, <1>2, <1>3, <1>5, <2>1 DEF BlockStates, B
<1>6. CASE p.kind = "tool_result"
  <2>1. t = [results |-> Append(s.results, p), others |-> s.others, seen |-> s.seen, ok |-> s.ok]
    BY <1>1, <1>6 DEF AnthropicAdapter!Block
  <2> QED BY <1>1, <1>2, <1>3, <1>6, <2>1 DEF BlockStates, B
<1>7. CASE p.kind = "reasoning"
  <2>1. t = [results |-> s.results, others |-> Append(s.others, p), seen |-> s.seen,
             ok |-> s.ok /\ AnthropicAdapter!Replayable(p.data)]
    BY <1>1, <1>7 DEF AnthropicAdapter!Block
  <2>2. Sendable(p) => AnthropicAdapter!Replayable(p.data)
    BY <1>7 DEF Sendable, AnthropicAdapter!Replayable, AnthropicAdapter!NoSeal
  <2>3. AnthropicAdapter!Replayable(p.data) \in BOOLEAN
    BY DEF AnthropicAdapter!Replayable
  <2> QED BY <1>1, <1>2, <1>3, <1>7, <2>1, <2>2, <2>3 DEF BlockStates, B
<1> QED BY <1>4, <1>5, <1>6, <1>7 DEF Kinds

FirstBlocks(seen) == [results |-> <<>>, others |-> <<>>, seen |-> seen, ok |-> TRUE]

\* The blocks of the first parts, however many.
BlockScans(W, parts, skip, seen) ==
    {f \in [0 .. Len(parts) -> BlockStates(W)] :
        /\ f[0] = FirstBlocks(seen)
        /\ AnthropicAdapter!blocksForParts(parts, skip, seen) = f[Len(parts)]
        /\ \A k \in 1 .. Len(parts) :
              f[k] = AnthropicAdapter!Block(f[k - 1], parts[k], skip)}

\* blocksForParts is such a function over the parts.
LEMMA BlocksUnfold ==
    ASSUME NEW W, NEW parts \in Seq(W), \A p \in W : p.kind \in Kinds,
           NEW skip, NEW seen \in Int
    PROVE  BlockScans(W, parts, skip, seen) # {}
<1> DEFINE n == Len(parts)
           D == BlockStates(W)
           Next1(s, k) == AnthropicAdapter!Block(s, parts[k], skip)
           step == [x \in D \X (1 .. n) |-> Next1(x[1], x[2])]
           Rule(f) == [k \in 0 .. n |-> IF k = 0 THEN FirstBlocks(seen) ELSE Next1(f[k - 1], k)]
<1>1. n \in Nat /\ \A k \in 1 .. n : parts[k] \in W
  OBVIOUS
<1>2. \A s \in D, k \in 1 .. n : Next1(s, k) \in D
  BY <1>1, BlockStep
<1>3. FirstBlocks(seen) \in D
  <2>1. <<>> \in Seq(BlockSet(W))
    OBVIOUS
  <2> QED BY <2>1 DEF FirstBlocks, BlockStates
<1> HIDE DEF n, D, Next1
<1>4. step \in [D \X (1 .. n) -> D] /\ \A s \in D, k \in 1 .. n : step[<<s, k>>] = Next1(s, k)
  BY <1>2
<1> HIDE DEF step
<1>a. n \in Nat /\ FirstBlocks(seen) \in D /\ step \in [D \X (1 .. n) -> D]
  BY <1>1, <1>3, <1>4, Zenon
<1>b. Recursions(n, D, FirstBlocks(seen), step) # {}
  BY <1>a, Recursion, Zenon
<1>5. PICK f \in [0 .. n -> D] :
        f[0] = FirstBlocks(seen) /\ \A k \in 1 .. n : f[k] = step[<<f[k - 1], k>>]
  BY <1>b, Zenon DEF Recursions
<1>6. ASSUME NEW k \in 1 .. n PROVE k - 1 \in 0 .. n /\ f[k] = Next1(f[k - 1], k)
  <2>1. k - 1 \in 0 .. n
    BY <1>a
  <2>2. f[k - 1] \in D
    BY <2>1
  <2> QED BY <1>4, <1>5, <2>1, <2>2
<1>7. f = Rule(f)
  BY <1>a, <1>5, <1>6
<1> DEFINE g == CHOOSE g : g = Rule(g)
<1>8. g = Rule(g)
  BY <1>7, Zenon
<1>9. AnthropicAdapter!blocksForParts(parts, skip, seen) = g[n]
  BY Zenon DEF AnthropicAdapter!blocksForParts, FirstBlocks, Next1, n
<1>10. f[0] = g[0]
  <2>1. 0 \in 0 .. n
    BY <1>a
  <2>2. g[0] = FirstBlocks(seen)
    BY <1>8, <2>1
  <2> QED BY <1>5, <2>1, <2>2
<1>11. \A k \in 1 .. n : f[k - 1] = g[k - 1] => f[k] = g[k]
  <2> SUFFICES ASSUME NEW k \in 1 .. n, f[k - 1] = g[k - 1] PROVE f[k] = g[k]
    BY Zenon
  <2>1. k \in 0 .. n /\ k # 0
    BY <1>a
  <2>2. g[k] = Next1(g[k - 1], k)
    BY <1>8, <2>1
  <2> QED BY <1>6, <2>2
<1> HIDE DEF g
<1>12. SameUpTo(n, f, g)
  BY <1>a, <1>10, <1>11, OnlyOne, Zenon
<1>13. AnthropicAdapter!blocksForParts(parts, skip, seen) = f[n]
  <2>1. n \in 0 .. n
    BY <1>a
  <2> QED BY <1>9, <1>12, <2>1 DEF SameUpTo
<1> QED BY <1>5, <1>6, <1>13, Zenon DEF BlockScans, Next1, D, n

\* Parts that can be sent make blocks that can.
LEMMA BlocksAre ==
    ASSUME NEW W, NEW parts \in Seq(W), \A p \in W : p.kind \in Kinds,
           NEW skip, NEW seen \in Int,
           NEW b, b = AnthropicAdapter!blocksForParts(parts, skip, seen)
    PROVE  /\ b \in BlockStates(W)
           /\ (\A i \in DOMAIN parts : Sendable(parts[i])) => b.ok
           /\ \A i \in DOMAIN parts : parts[i].kind # "tool_result" => b.others # <<>>
<1> DEFINE n == Len(parts)
<1>1. n \in Nat /\ DOMAIN parts = 1 .. n /\ \A k \in 1 .. n : parts[k] \in W
  OBVIOUS
<1>a. BlockScans(W, parts, skip, seen) # {}
  BY BlocksUnfold, Zenon
<1>2. PICK f \in [0 .. n -> BlockStates(W)] :
        /\ f[0] = FirstBlocks(seen) /\ b = f[n]
        /\ \A k \in 1 .. n : f[k] = AnthropicAdapter!Block(f[k - 1], parts[k], skip)
  BY <1>a, Zenon DEF BlockScans
<1> HIDE DEF n
<1> DEFINE Fine(k) == (\A i \in 1 .. k : Sendable(parts[i])) => f[k].ok
           Full(k) == \A i \in 1 .. k : parts[i].kind # "tool_result" => f[k].others # <<>>
           T == {k \in 0 .. n : Fine(k) /\ Full(k)}
<1>3. 0 \in T
  <2>1. 0 \in 0 .. n /\ f[0].ok
    BY <1>1, <1>2 DEF FirstBlocks
  <2> QED BY <2>1
<1>4. ASSUME NEW k \in 0 .. n - 1, k \in T PROVE k + 1 \in T
  <2>1. /\ k + 1 \in 1 .. n /\ k + 1 \in 0 .. n /\ (k + 1) - 1 = k /\ k \in 0 .. n
        /\ k + 1 \in 1 .. k + 1
        /\ \A i \in 1 .. k : i \in 1 .. k + 1
        /\ \A i \in 1 .. k + 1 : i \in 1 .. k \/ i = k + 1
    BY <1>1
  <2>2. f[k + 1] = AnthropicAdapter!Block(f[k], parts[k + 1], skip)
    BY <1>2, <2>1
  <2>3. f[k] \in BlockStates(W) /\ parts[k + 1] \in W /\ parts[k + 1].kind \in Kinds
    BY <1>1, <1>2, <2>1
  <2>4. /\ Sendable(parts[k + 1]) => f[k + 1].ok = f[k].ok
        /\ f[k].others # <<>> \/ parts[k + 1].kind # "tool_result" => f[k + 1].others # <<>>
    BY <2>2, <2>3, BlockStep
  <2>5. Fine(k) /\ Full(k)
    BY <1>4
  <2>6. Fine(k + 1)
    BY <2>1, <2>4, <2>5, Zenon
  <2>7. Full(k + 1)
    BY <2>1, <2>4, <2>5, Zenon
  <2> QED BY <2>1, <2>6, <2>7, Zenon
<1> HIDE DEF T
<1>5. \A k \in 0 .. n : k \in T
  BY <1>1, <1>3, <1>4, StretchInduction
<1>6. n \in 0 .. n
  BY <1>1
<1>7. Fine(n) /\ Full(n)
  BY <1>5, <1>6, Zenon DEF T
<1>8. b \in BlockStates(W)
  BY <1>2, <1>6
<1> QED BY <1>1, <1>2, <1>7, <1>8, Zenon

TurnSet(W) == [role : {"user", "assistant"}, parts : Seq(BlockSet(W))]
TakeStates(W) ==
    [out : Seq(TurnSet(W)), buf : Seq(BlockSet(W)), seen : Int, ok : BOOLEAN]

\* The user has the first turn.
UserBegins(turns) == turns # <<>> /\ turns[1].role = "user"
Begun(s) == (s.out = <<>> /\ s.buf # <<>>) \/ UserBegins(s.out)

\* What is buffered is a turn of the user's.
LEMMA FlushedTurns ==
    ASSUME NEW W, NEW s \in TakeStates(W), NEW turns, turns = AnthropicAdapter!Flushed(s)
    PROVE  turns \in Seq(TurnSet(W)) /\ (Begun(s) => UserBegins(turns))
<1>1. /\ s.out \in Seq(TurnSet(W)) /\ s.buf \in Seq(BlockSet(W))
  BY DEF TakeStates
<1> DEFINE turn == AnthropicAdapter!Turn("user", s.buf)
<1>2. turn \in TurnSet(W) /\ turn.role = "user"
  BY <1>1 DEF AnthropicAdapter!Turn, TurnSet
<1> HIDE DEF turn
<1>3. CASE s.buf = <<>>
  BY <1>1, <1>3 DEF AnthropicAdapter!Flushed, Begun
<1>4. CASE s.buf # <<>>
  <2>1. turns = Append(s.out, turn)
    BY <1>4 DEF AnthropicAdapter!Flushed, turn
  <2>2. turns \in Seq(TurnSet(W)) /\ turns # <<>>
    BY <1>1, <1>2, <2>1
  <2>3. CASE s.out = <<>>
    BY <1>2, <2>1, <2>2, <2>3 DEF UserBegins
  <2>4. CASE s.out # <<>>
    <3>1. turns[1] = s.out[1]
      BY <1>1, <1>2, <2>1, <2>4
    <3> QED BY <2>2, <2>4, <3>1 DEF Begun, UserBegins
  <2> QED BY <2>2, <2>3, <2>4
<1> QED BY <1>3, <1>4

\* A message that can be sent spoils nothing, and who began remains.
LEMMA TakeStep ==
    ASSUME NEW W, \A p \in W : p.kind \in Kinds, NEW s \in TakeStates(W),
           NEW m, m.parts \in Seq(W), NEW skip, NEW t, t = AnthropicAdapter!Take(s, m, skip)
    PROVE  /\ t \in TakeStates(W)
           /\ /\ \A i \in DOMAIN m.parts : Sendable(m.parts[i])
              /\ m.role = "assistant" => AnthropicAdapter!hasReply(m.parts)
              /\ s.ok
              => t.ok
           /\ Begun(s) => Begun(t)
           /\ /\ s.out = <<>> /\ m.role # "assistant"
              /\ \E i \in DOMAIN m.parts : m.parts[i].kind # "tool_result"
              => Begun(t)
<1>1. /\ s.out \in Seq(TurnSet(W)) /\ s.buf \in Seq(BlockSet(W)) /\ s.seen \in Int /\ s.ok \in BOOLEAN
      /\ s = [out |-> s.out, buf |-> s.buf, seen |-> s.seen, ok |-> s.ok]
  BY DEF TakeStates
<1> DEFINE b == AnthropicAdapter!blocksForParts(m.parts, skip, s.seen)
<1> DEFINE sendable == \A i \in DOMAIN m.parts : Sendable(m.parts[i])
<1>2. /\ b \in BlockStates(W)
      /\ sendable => b.ok
      /\ \A i \in DOMAIN m.parts : m.parts[i].kind # "tool_result" => b.others # <<>>
  BY <1>1, BlocksAre
<1> HIDE DEF b, sendable
<1>3. /\ b.results \in Seq(BlockSet(W)) /\ b.others \in Seq(BlockSet(W))
      /\ b.seen \in Int /\ b.ok \in BOOLEAN
  BY <1>2 DEF BlockStates
<1>4. CASE m.role = "assistant"
  <2> DEFINE flushed == AnthropicAdapter!Flushed(s)
             turn == AnthropicAdapter!Turn("assistant", b.others)
             replies == AnthropicAdapter!hasReply(m.parts)
  <2>1. t = [out |-> Append(flushed, turn), buf |-> <<>>, seen |-> b.seen,
             ok |-> s.ok /\ b.ok /\ replies]
    BY <1>1, <1>4 DEF AnthropicAdapter!Take, AnthropicAdapter!Reply, b
  <2>2. flushed \in Seq(TurnSet(W)) /\ (Begun(s) => UserBegins(flushed))
    BY FlushedTurns
  <2>3. turn \in TurnSet(W)
    BY <1>3 DEF AnthropicAdapter!Turn, TurnSet
  <2>4. replies \in BOOLEAN
    BY DEF AnthropicAdapter!hasReply
  <2> HIDE DEF flushed, turn, replies
  <2>5. /\ Append(flushed, turn) \in Seq(TurnSet(W))
        /\ Append(flushed, turn) # <<>>
        /\ flushed # <<>> => Append(flushed, turn)[1] = flushed[1]
    <3>1. Append(flushed, turn) \in Seq(TurnSet(W)) /\ Append(flushed, turn) # <<>>
      BY <2>2, <2>3
    <3>2. ASSUME flushed # <<>> PROVE Append(flushed, turn)[1] = flushed[1]
      <4>1. 1 \in 1 .. Len(flushed)
        BY <2>2, <3>2
      <4> QED BY <2>2, <2>3, <4>1
    <3> QED BY <3>1, <3>2
  <2>6. t \in TakeStates(W)
    BY <1>3, <1>1, <2>1, <2>4, <2>5 DEF TakeStates
  <2>7. Begun(s) => Begun(t)
    BY <2>1, <2>2, <2>5 DEF Begun, UserBegins
  <2>8. sendable /\ replies /\ s.ok => t.ok
    <3>1. t.ok = (s.ok /\ b.ok /\ replies)
      BY <2>1
    <3> QED BY <1>2, <3>1
  <2> QED BY <1>4, <2>6, <2>7, <2>8, Zenon DEF replies, sendable
<1>5. CASE m.role # "assistant"
  <2>1. t = [out |-> s.out, buf |-> s.buf \o b.results \o b.others, seen |-> b.seen,
             ok |-> s.ok /\ b.ok]
    BY <1>1, <1>5 DEF AnthropicAdapter!Take, AnthropicAdapter!Add, b
  <2>2. /\ s.buf \o b.results \o b.others \in Seq(BlockSet(W))
        /\ s.buf # <<>> \/ b.others # <<>> => s.buf \o b.results \o b.others # <<>>
    BY <1>1, <1>3
  <2>3. t \in TakeStates(W)
    BY <1>1, <1>3, <2>1, <2>2 DEF TakeStates
  <2>4. Begun(s) => Begun(t)
    BY <2>1, <2>2 DEF Begun
  <2>5. s.out = <<>> /\ (\E i \in DOMAIN m.parts : m.parts[i].kind # "tool_result") => Begun(t)
    BY <1>2, <2>1, <2>2 DEF Begun
  <2>6. sendable /\ s.ok => t.ok
    <3>1. t.ok = (s.ok /\ b.ok)
      BY <2>1
    <3> QED BY <1>2, <3>1
  <2> QED BY <1>5, <2>3, <2>4, <2>5, <2>6, Zenon DEF sendable
<1> QED BY <1>4, <1>5

FirstTurn == [out |-> <<>>, buf |-> <<>>, seen |-> 0, ok |-> TRUE]

\* The turns of the first messages, however many.
TurnScans(W, msgs, skip) ==
    {f \in [0 .. Len(msgs) -> TakeStates(W)] :
        /\ f[0] = FirstTurn /\ AnthropicAdapter!Taken(msgs, skip) = f[Len(msgs)]
        /\ \A k \in 1 .. Len(msgs) : f[k] = AnthropicAdapter!Take(f[k - 1], msgs[k], skip)}

\* The scan of the messages is the one its definition describes.
LEMMA TakenUnfolds ==
    ASSUME NEW W, \A p \in W : p.kind \in Kinds, NEW skip,
           NEW msgs, IsSequence(msgs), \A i \in DOMAIN msgs : msgs[i].parts \in Seq(W)
    PROVE  TurnScans(W, msgs, skip) # {}
<1> DEFINE n == Len(msgs)
           D == TakeStates(W)
           Next1(s, k) == AnthropicAdapter!Take(s, msgs[k], skip)
           step == [x \in D \X (1 .. n) |-> Next1(x[1], x[2])]
           Rule(f) == [k \in 0 .. n |-> IF k = 0 THEN FirstTurn ELSE Next1(f[k - 1], k)]
<1>1. n \in Nat /\ \A k \in 1 .. n : msgs[k].parts \in Seq(W)
  BY DEF IsSequence
<1>2. \A s \in D, k \in 1 .. n : Next1(s, k) \in D
  BY <1>1, TakeStep
<1>3. FirstTurn \in D
  <2>1. <<>> \in Seq(BlockSet(W)) /\ <<>> \in Seq(TurnSet(W))
    OBVIOUS
  <2> QED BY <2>1 DEF FirstTurn, TakeStates
<1> HIDE DEF n, D, Next1
<1>4. step \in [D \X (1 .. n) -> D] /\ \A s \in D, k \in 1 .. n : step[<<s, k>>] = Next1(s, k)
  BY <1>2
<1> HIDE DEF step
<1>a. n \in Nat /\ FirstTurn \in D /\ step \in [D \X (1 .. n) -> D]
  BY <1>1, <1>3, <1>4, Zenon
<1>b. Recursions(n, D, FirstTurn, step) # {}
  BY <1>a, Recursion, Zenon
<1>5. PICK f \in [0 .. n -> D] :
        f[0] = FirstTurn /\ \A k \in 1 .. n : f[k] = step[<<f[k - 1], k>>]
  BY <1>b, Zenon DEF Recursions
<1>6. ASSUME NEW k \in 1 .. n PROVE k - 1 \in 0 .. n /\ f[k] = Next1(f[k - 1], k)
  <2>1. k - 1 \in 0 .. n
    BY <1>a
  <2>2. f[k - 1] \in D
    BY <2>1
  <2> QED BY <1>4, <1>5, <2>1, <2>2
<1>7. f = Rule(f)
  BY <1>a, <1>5, <1>6
<1> DEFINE g == CHOOSE g : g = Rule(g)
<1>8. g = Rule(g)
  BY <1>7, Zenon
<1>9. AnthropicAdapter!Taken(msgs, skip) = g[n]
  BY Zenon DEF AnthropicAdapter!Taken, FirstTurn, Next1, n
<1>10. f[0] = g[0]
  <2>1. 0 \in 0 .. n
    BY <1>a
  <2>2. g[0] = FirstTurn
    BY <1>8, <2>1
  <2> QED BY <1>5, <2>1, <2>2
<1>11. \A k \in 1 .. n : f[k - 1] = g[k - 1] => f[k] = g[k]
  <2> SUFFICES ASSUME NEW k \in 1 .. n, f[k - 1] = g[k - 1] PROVE f[k] = g[k]
    BY Zenon
  <2>1. k \in 0 .. n /\ k # 0
    BY <1>a
  <2>2. g[k] = Next1(g[k - 1], k)
    BY <1>8, <2>1
  <2> QED BY <1>6, <2>2
<1> HIDE DEF g
<1>12. SameUpTo(n, f, g)
  BY <1>a, <1>10, <1>11, OnlyOne, Zenon
<1>13. AnthropicAdapter!Taken(msgs, skip) = f[n]
  <2>1. n \in 0 .. n
    BY <1>a
  <2> QED BY <1>9, <1>12, <2>1 DEF SameUpTo
<1> QED BY <1>5, <1>6, <1>13, Zenon DEF TurnScans, Next1, D, n

Goes(m) ==
    /\ \A i \in DOMAIN m.parts : Sendable(m.parts[i])
    /\ m.role = "assistant" => AnthropicAdapter!hasReply(m.parts)

\* Messages that can be sent, the user's first, make turns that begin with the
\* user's.
LEMMA TurnsAre ==
    ASSUME NEW W, \A p \in W : p.kind \in Kinds, NEW skip,
           NEW msgs, IsSequence(msgs), \A i \in DOMAIN msgs : msgs[i].parts \in Seq(W),
           msgs # <<>>, msgs[1].role # "assistant",
           \E i \in DOMAIN msgs[1].parts : msgs[1].parts[i].kind # "tool_result",
           \A i \in DOMAIN msgs : Goes(msgs[i]),
           NEW end, end = AnthropicAdapter!Taken(msgs, skip)
    PROVE  end \in TakeStates(W) /\ end.ok /\ Begun(end)
<1> DEFINE n == Len(msgs)
<1>1. /\ n \in Nat /\ DOMAIN msgs = 1 .. n /\ n >= 1
      /\ \A k \in 1 .. n : msgs[k].parts \in Seq(W) /\ Goes(msgs[k])
  <2>1. n \in Nat /\ DOMAIN msgs = 1 .. n /\ n >= 1
    BY DEF IsSequence
  <2> QED BY <2>1
<1>a. TurnScans(W, msgs, skip) # {}
  BY TakenUnfolds, Zenon
<1>2. PICK f \in [0 .. n -> TakeStates(W)] :
        /\ f[0] = FirstTurn /\ end = f[n]
        /\ \A k \in 1 .. n : f[k] = AnthropicAdapter!Take(f[k - 1], msgs[k], skip)
  BY <1>a, Zenon DEF TurnScans
<1> HIDE DEF n
<1> DEFINE T == {k \in 1 .. n : f[k].ok /\ Begun(f[k])}
<1>3. ASSUME NEW k \in 0 .. n - 1
      PROVE  /\ k + 1 \in 1 .. n
             /\ f[k] \in TakeStates(W)
             /\ f[k].ok => f[k + 1].ok
             /\ Begun(f[k]) => Begun(f[k + 1])
             /\ f[k].out = <<>> /\ k = 0 => Begun(f[k + 1])
  <2>1. k + 1 \in 1 .. n /\ (k + 1) - 1 = k /\ k \in 0 .. n /\ k + 1 \in DOMAIN msgs
    BY <1>1
  <2>2. f[k + 1] = AnthropicAdapter!Take(f[k], msgs[k + 1], skip)
    BY <1>2, <2>1
  <2>3. f[k] \in TakeStates(W) /\ msgs[k + 1].parts \in Seq(W) /\ Goes(msgs[k + 1])
    BY <1>1, <1>2, <2>1
  <2>4. f[k].ok => f[k + 1].ok
    BY <2>2, <2>3, TakeStep DEF Goes
  <2>5. Begun(f[k]) => Begun(f[k + 1])
    BY <2>2, <2>3, TakeStep
  <2>6. f[k].out = <<>> /\ k = 0 => Begun(f[k + 1])
    BY <2>2, <2>3, TakeStep
  <2> QED BY <2>1, <2>3, <2>4, <2>5, <2>6, Zenon
<1>4. 1 \in T
  <2>1. 0 \in 0 .. n - 1 /\ 0 + 1 = 1 /\ f[0].out = <<>> /\ f[0].ok
    BY <1>1, <1>2 DEF FirstTurn
  <2>2. f[0 + 1].ok /\ Begun(f[0 + 1]) /\ 0 + 1 \in 1 .. n
    BY <1>3, <2>1, Zenon
  <2> QED BY <2>1, <2>2
<1>5. ASSUME NEW k \in 1 .. n - 1, k \in T PROVE k + 1 \in T
  <2>1. k \in 0 .. n - 1
    BY <1>1
  <2> QED BY <1>3, <1>5, <2>1, Zenon
<1> HIDE DEF T
<1>6. \A k \in 1 .. n : k \in T
  BY <1>1, <1>4, <1>5, StretchInduction
<1>7. n \in 1 .. n /\ n \in 0 .. n
  BY <1>1
<1> QED BY <1>2, <1>6, <1>7 DEF T

-----------------------------------------------------------------------------
(***************************************************************************)
(* Messages that are in order                                              *)
(***************************************************************************)

\* The kinds of parts a role may have.
Allowed(role) ==
    CASE role = "user" -> {"text"}
      [] role = "assistant" -> {"text", "tool_call", "reasoning"}
      [] role = "tool" -> {"tool_result"}

\* A message that every adapter can send: its parts are those of its role, no
\* text is empty, and it says something.
Fit(m) ==
    /\ IsMessage(m)
    /\ \A i \in DOMAIN m.parts : Sendable(m.parts[i]) /\ m.parts[i].kind \in Allowed(m.role)
    /\ \E i \in DOMAIN m.parts : m.parts[i].kind # "reasoning"

\* A message whose parts are those of its role, and not all of them reasoning.
Legal(m) ==
    /\ IsMessage(m)
    /\ \A i \in DOMAIN m.parts : m.parts[i].kind \in Allowed(m.role)
    /\ \E i \in DOMAIN m.parts : m.parts[i].kind # "reasoning"

\* ValidateMessages lets no other message pass.
LEMMA ValidIsLegal ==
    ASSUME NEW m, IsMessage(m), HasNonReasoning(Outline(m)), PartsLegal(Outline(m))
    PROVE  Legal(m)
<1> DEFINE o == Outline(m)
           texts == Only("text", m.parts)
<1>1. /\ m.role \in Roles /\ IsSequence(m.parts)
      /\ \A i \in DOMAIN m.parts : IsPart(m.parts[i])
  BY DEF IsMessage
<1>2. /\ texts # <<>> <=> HasKind("text", m.parts)
      /\ IdsOf(Only("tool_call", m.parts)) # <<>> <=> HasKind("tool_call", m.parts)
      /\ IdsOf(Only("tool_result", m.parts)) # <<>> <=> HasKind("tool_result", m.parts)
  BY <1>1, OnlyAre
<1>3. /\ o.role = m.role
      /\ o.text # "none" <=> HasKind("text", m.parts)
      /\ o.calls # <<>> <=> HasKind("tool_call", m.parts)
      /\ o.results # <<>> <=> HasKind("tool_result", m.parts)
      /\ o.reasoning # NoReasoning <=> HasKind("reasoning", m.parts)
  <2> DEFINE blank == \A i \in DOMAIN texts : texts[i].body = Empty
             text == IF texts = <<>> THEN "none" ELSE IF blank THEN "empty" ELSE "some"
             calls == IdsOf(Only("tool_call", m.parts))
             results == IdsOf(Only("tool_result", m.parts))
             reasoning == IF HasKind("reasoning", m.parts) THEN Bound ELSE NoReasoning
  <2>1. o = Message(m.role, text, calls, results, reasoning, "none")
    BY Zenon DEF Outline
  <2> HIDE DEF o, text, calls, results, reasoning
  <2>2. /\ o.role = m.role /\ o.text = text
        /\ o.calls = calls /\ o.results = results /\ o.reasoning = reasoning
    BY <2>1 DEF Message
  <2>3. text # "none" <=> texts # <<>>
    <3> HIDE DEF texts, blank
    <3> QED BY DEF text
  <2>4. reasoning # NoReasoning <=> HasKind("reasoning", m.parts)
    BY DEF reasoning, Bound, NoReasoning
  <2> QED BY <1>2, <2>2, <2>3, <2>4 DEF calls, results
<1> HIDE DEF o, texts
<1>4. /\ HasKind("tool_call", m.parts) => m.role = "assistant"
      /\ HasKind("reasoning", m.parts) => m.role = "assistant"
      /\ HasKind("tool_result", m.parts) => m.role = "tool"
      /\ HasKind("text", m.parts) => m.role # "tool"
  BY <1>3 DEF PartsLegal, o
<1>5. \E i \in DOMAIN m.parts : m.parts[i].kind # "reasoning"
  BY <1>3 DEF HasNonReasoning, HasKind, o
<1>6. ASSUME NEW i \in DOMAIN m.parts PROVE m.parts[i].kind \in Allowed(m.role)
  <2>1. m.parts[i].kind \in Kinds
    BY <1>1 DEF IsPart
  <2>2. HasKind(m.parts[i].kind, m.parts)
    BY DEF HasKind
  <2> QED BY <1>1, <1>4, <2>1, <2>2 DEF Allowed, Kinds, Roles
<1> QED BY <1>5, <1>6 DEF Legal

LEMMA ValidAreLegal ==
    ASSUME NEW msgs, AreMessages(msgs), ValidateMessages(Outlines(msgs))
    PROVE  \A i \in DOMAIN msgs : Legal(msgs[i])
<1>1. \A i \in DOMAIN Outlines(msgs) :
         HasNonReasoning(Outlines(msgs)[i]) /\ PartsLegal(Outlines(msgs)[i])
  BY Zenon DEF ValidateMessages
<1>2. /\ DOMAIN Outlines(msgs) = DOMAIN msgs
      /\ \A i \in DOMAIN msgs : Outlines(msgs)[i] = Outline(msgs[i])
  BY Zenon DEF Outlines
<1>3. \A i \in DOMAIN msgs : IsMessage(msgs[i])
  BY DEF AreMessages
<1> QED BY <1>1, <1>2, <1>3, ValidIsLegal, Zenon

\* It is fit, if its texts and its reasoning are.
LEMMA LegalIsFit == ASSUME NEW m, Legal(m), Plain(m.parts) PROVE Fit(m)
<1>1. ASSUME NEW i \in DOMAIN m.parts
      PROVE  Sendable(m.parts[i]) /\ m.parts[i].kind \in Allowed(m.role)
  <2>1. m.parts[i].kind \in Allowed(m.role) /\ m.parts[i].kind \in Kinds
    BY DEF Legal, IsMessage, IsPart
  <2>2. Sendable(m.parts[i])
    BY <2>1 DEF Sendable, Plain
  <2> QED BY <2>1, <2>2
<1> QED BY <1>1 DEF Fit, Legal

-----------------------------------------------------------------------------
(***************************************************************************)
(* What the adapters make of messages that are in order                    *)
(***************************************************************************)

\* The adapters pick as this module does,
LEMMA SamePicking ==
    ASSUME NEW parts, NEW places
    PROVE  /\ AnthropicAdapter!Picked(parts, places) = Picked(parts, places)
           /\ GoogleAdapter!Picked(parts, places) = Picked(parts, places)
           /\ OpenAIAdapter!Picked(parts, places) = Picked(parts, places)
           /\ CompatAdapter!Picked(parts, places) = Picked(parts, places)
           /\ OllamaAdapter!Picked(parts, places) = Picked(parts, places)
BY Zenon DEF Picked, AnthropicAdapter!Picked, GoogleAdapter!Picked, OpenAIAdapter!Picked,
    CompatAdapter!Picked, OllamaAdapter!Picked

\* find the parts of one kind as it does,
LEMMA SameOnly ==
    ASSUME NEW kind, NEW parts
    PROVE  /\ CompatAdapter!Only(kind, parts) = Only(kind, parts)
           /\ OllamaAdapter!Only(kind, parts) = Only(kind, parts)
BY SamePicking, Zenon DEF Only, CompatAdapter!Only, OllamaAdapter!Only

\* join as it does,
LEMMA SameJoining ==
    ASSUME NEW seqs
    PROVE  /\ OpenAIAdapter!FlattenSeq(seqs) = FlattenSeq(seqs)
           /\ CompatAdapter!FlattenSeq(seqs) = FlattenSeq(seqs)
           /\ OllamaAdapter!FlattenSeq(seqs) = FlattenSeq(seqs)
BY Zenon DEF FlattenSeq, OpenAIAdapter!FlattenSeq, CompatAdapter!FlattenSeq,
    OllamaAdapter!FlattenSeq

\* and filter as it does.
LEMMA SameFilter ==
    ASSUME NEW p, NEW msgs
    PROVE  /\ AnthropicAdapter!ReasoningFrom(p, msgs) = ReasoningFrom(p, msgs)
           /\ GoogleAdapter!ReasoningFrom(p, msgs) = ReasoningFrom(p, msgs)
           /\ OpenAIAdapter!ReasoningFrom(p, msgs) = ReasoningFrom(p, msgs)
           /\ CompatAdapter!ReasoningFrom(p, msgs) = ReasoningFrom(p, msgs)
           /\ OllamaAdapter!ReasoningFrom(p, msgs) = ReasoningFrom(p, msgs)
BY SamePicking, Zenon DEF ReasoningFrom, SeenBy, Turn,
    AnthropicAdapter!ReasoningFrom, AnthropicAdapter!SeenBy, AnthropicAdapter!Turn,
    GoogleAdapter!ReasoningFrom, GoogleAdapter!SeenBy, GoogleAdapter!Turn,
    OpenAIAdapter!ReasoningFrom, OpenAIAdapter!SeenBy, OpenAIAdapter!Turn,
    CompatAdapter!ReasoningFrom, CompatAdapter!SeenBy, CompatAdapter!Turn,
    OllamaAdapter!ReasoningFrom, OllamaAdapter!SeenBy, OllamaAdapter!Turn

\* A message that p can send, with reasoning only if p is Anthropic.
FitFor(p, t) ==
    Fit(t) /\ (p # "anthropic" => \A i \in DOMAIN t.parts : t.parts[i].kind # "reasoning")

\* What the provider p may see of a message.
SeenOf(p, m) == Turn(m.role, Picked(m.parts, SeenBy(p, m.parts)))

\* A message is as fit without the reasoning of other providers.
LEMMA FilterKeepsFit ==
    ASSUME NEW p, NEW m, Fit(m)
    PROVE  FitFor(p, SeenOf(p, m)) /\ SeenOf(p, m).role = m.role
<1> DEFINE t == SeenOf(p, m)
           kept == Picked(m.parts, SeenBy(p, m.parts))
<1>1. /\ m.role \in Roles /\ IsSequence(m.parts)
      /\ \A i \in DOMAIN m.parts :
            IsPart(m.parts[i]) /\ Sendable(m.parts[i]) /\ m.parts[i].kind \in Allowed(m.role)
  BY DEF Fit, IsMessage
<1>2. t.role = m.role /\ t.parts = kept
  BY DEF SeenOf, Turn
<1>3. /\ IsSequence(kept)
      /\ \A j \in DOMAIN kept : \E i \in DOMAIN m.parts :
            i \in SeenBy(p, m.parts) /\ kept[j] = m.parts[i]
      /\ \A i \in DOMAIN m.parts : i \in SeenBy(p, m.parts) =>
            \E j \in DOMAIN kept : kept[j] = m.parts[i]
  <2>1. PickOf(kept, m.parts, SeenBy(p, m.parts))
    BY <1>1, PicksAre, Zenon
  <2> HIDE DEF kept
  <2> QED BY <2>1 DEF PickOf
<1> HIDE DEF kept, t
<1>4. ASSUME NEW j \in DOMAIN kept
      PROVE  /\ IsPart(kept[j]) /\ Sendable(kept[j]) /\ kept[j].kind \in Allowed(m.role)
             /\ p # "anthropic" => kept[j].kind # "reasoning"
  <2>1. PICK i \in DOMAIN m.parts : i \in SeenBy(p, m.parts) /\ kept[j] = m.parts[i]
    BY <1>3
  <2>2. p # "anthropic" => m.parts[i].kind # "reasoning"
    BY <1>1, <2>1 DEF SeenBy, IsPart
  <2> QED BY <1>1, <2>1, <2>2
<1>5. \E j \in DOMAIN kept : kept[j].kind # "reasoning"
  <2>1. PICK i \in DOMAIN m.parts : m.parts[i].kind # "reasoning"
    BY DEF Fit
  <2>2. i \in SeenBy(p, m.parts)
    BY <2>1 DEF SeenBy
  <2> QED BY <1>3, <2>1, <2>2
<1>6. IsMessage(t)
  BY <1>1, <1>2, <1>3, <1>4 DEF IsMessage
<1>7. Fit(t)
  BY <1>2, <1>4, <1>5, <1>6 DEF Fit
<1> QED BY <1>2, <1>4, <1>7 DEF FitFor, t

\* So is a transcript.
LEMMA FilteredAreFit ==
    ASSUME NEW p, NEW msgs, IsSequence(msgs), \A i \in DOMAIN msgs : Fit(msgs[i]),
           NEW out, out = ReasoningFrom(p, msgs)
    PROVE  /\ IsSequence(out) /\ DOMAIN out = DOMAIN msgs /\ Len(out) = Len(msgs)
           /\ \A i \in DOMAIN out : FitFor(p, out[i]) /\ out[i].role = msgs[i].role
<1>1. Len(msgs) \in Nat /\ DOMAIN msgs = 1 .. Len(msgs)
  BY EmptySequence
<1>2. DOMAIN out = DOMAIN msgs /\ out = [i \in 1 .. Len(msgs) |-> out[i]]
  BY <1>1 DEF ReasoningFrom
<1>3. IsSequence(out) /\ Len(out) = Len(msgs)
  BY <1>1, <1>2, AnySequence
<1>4. \A i \in DOMAIN out : out[i] = SeenOf(p, msgs[i])
  BY <1>2 DEF ReasoningFrom, SeenOf
<1>5. ASSUME NEW i \in DOMAIN out PROVE FitFor(p, out[i]) /\ out[i].role = msgs[i].role
  <2>1. Fit(msgs[i])
    BY <1>2
  <2>2. FitFor(p, SeenOf(p, msgs[i])) /\ SeenOf(p, msgs[i]).role = msgs[i].role
    BY <2>1, FilterKeepsFit, Zenon
  <2> QED BY <1>4, <2>2, Zenon
<1> QED BY <1>2, <1>3, <1>5

\* A request that is in order, as the adapters see it.
Ready(req) ==
    /\ IsSequence(req.messages) /\ req.messages # <<>>
    /\ \A i \in DOMAIN req.messages : Fit(req.messages[i])
    /\ req.messages[1].role = "user"
    /\ \A i \in DOMAIN req.system : req.system[i].kind = "text"
    /\ IsSequence(req.tools)
    /\ \A i \in DOMAIN req.tools :
          req.tools[i].name # NoName /\ req.tools[i].schema \in {"none", "object", "untyped"}
    /\ RequiresTools(req.choice) => req.tools # <<>>
    /\ req.choice.type = "tool" =>
          \E i \in DOMAIN req.tools : req.tools[i].name = req.choice.name

\* The messages of such a request that the provider p may see.
LEMMA SeenAreFit ==
    ASSUME NEW p, NEW req, Ready(req), NEW msgs, msgs = ReasoningFrom(p, req.messages)
    PROVE  /\ IsSequence(msgs) /\ msgs # <<>> /\ 1 \in DOMAIN msgs
           /\ DOMAIN msgs = 1 .. Len(msgs) /\ Len(msgs) \in Nat
           /\ \A i \in DOMAIN msgs : FitFor(p, msgs[i])
           /\ msgs[1].role = "user"
<1>1. /\ IsSequence(req.messages) /\ req.messages # <<>>
      /\ \A i \in DOMAIN req.messages : Fit(req.messages[i])
      /\ req.messages[1].role = "user"
  BY DEF Ready
<1>2. /\ IsSequence(msgs) /\ Len(msgs) = Len(req.messages)
      /\ \A i \in DOMAIN msgs : FitFor(p, msgs[i]) /\ msgs[i].role = req.messages[i].role
  BY <1>1, FilteredAreFit
<1>3. /\ DOMAIN req.messages = 1 .. Len(req.messages) /\ Len(req.messages) \in Nat
      /\ DOMAIN msgs = 1 .. Len(msgs) /\ Len(msgs) \in Nat
      /\ DOMAIN req.messages # {}
      /\ msgs = <<>> => DOMAIN msgs = {}
  BY <1>1, <1>2, EmptySequence
<1>4. 1 \in DOMAIN msgs
  BY <1>2, <1>3
<1> QED BY <1>1, <1>2, <1>3, <1>4

\* Sequences of "ok" are joined to one.
LEMMA AllOk ==
    ASSUME NEW front \in Seq({"ok"}), NEW middle \in Seq({"ok"}), NEW back \in Seq({"ok"})
    PROVE  front \o middle \o back \in Seq({"ok"})
OBVIOUS

\* If no step of a conversion says otherwise, its verdict is "ok".
LEMMA FirstOfOk ==
    ASSUME NEW v \in Seq({"ok"})
    PROVE  /\ AnthropicAdapter!First(v) = "ok" /\ GoogleAdapter!First(v) = "ok"
           /\ OpenAIAdapter!First(v) = "ok" /\ CompatAdapter!First(v) = "ok"
           /\ OllamaAdapter!First(v) = "ok"
<1>1. \A i \in DOMAIN v : v[i] = "ok"
  OBVIOUS
<1>2. {i \in DOMAIN v : v[i] # "ok"} = {}
  BY <1>1
<1> QED BY <1>2, Zenon DEF AnthropicAdapter!First, GoogleAdapter!First, OpenAIAdapter!First,
    CompatAdapter!First, OllamaAdapter!First

\* The system prompt of a request that is in order is text, and its choice of
\* tools can be met.
LEMMA OthersAreOk ==
    ASSUME NEW req, Ready(req)
    PROVE  /\ AnthropicAdapter!SystemVerdict(req) = "ok" /\ AnthropicAdapter!ChoiceVerdict(req) = "ok"
           /\ GoogleAdapter!SystemVerdict(req) = "ok" /\ GoogleAdapter!ChoiceVerdict(req) = "ok"
           /\ OpenAIAdapter!SystemVerdict(req) = "ok" /\ OpenAIAdapter!ChoiceVerdict(req) = "ok"
           /\ CompatAdapter!SystemVerdict(req) = "ok" /\ CompatAdapter!ChoiceVerdict(req) = "ok"
           /\ OllamaAdapter!SystemVerdict(req) = "ok"
           /\ OllamaAdapter!validateToolChoice(req) = "ok"
<1>1. \A i \in DOMAIN req.system : req.system[i].kind = "text"
  BY DEF Ready
<1>2. /\ req.tools = <<>> => req.choice.type \notin {"required", "tool"}
      /\ req.choice.type = "tool" =>
            /\ req.choice.name # NoName
            /\ \E i \in DOMAIN req.tools : req.tools[i].name = req.choice.name
  BY DEF Ready, RequiresTools
<1>3. AnthropicAdapter!ChoiceVerdict(req) = "ok"
  BY <1>2 DEF NoName, AnthropicAdapter!ChoiceVerdict, AnthropicAdapter!OkIf,
      AnthropicAdapter!RequiresTools, AnthropicAdapter!NoName
<1>4. GoogleAdapter!ChoiceVerdict(req) = "ok"
  BY <1>2 DEF NoName, GoogleAdapter!ChoiceVerdict, GoogleAdapter!OkIf,
      GoogleAdapter!RequiresTools, GoogleAdapter!NoName
<1>5. OpenAIAdapter!ChoiceVerdict(req) = "ok"
  BY <1>2 DEF NoName, OpenAIAdapter!ChoiceVerdict, OpenAIAdapter!OkIf,
      OpenAIAdapter!RequiresTools, OpenAIAdapter!NoName
<1>6. CompatAdapter!ChoiceVerdict(req) = "ok"
  BY <1>2 DEF NoName, CompatAdapter!ChoiceVerdict, CompatAdapter!OkIf,
      CompatAdapter!RequiresTools, CompatAdapter!NoName
<1>7. OllamaAdapter!validateToolChoice(req) = "ok"
  BY <1>2 DEF NoName, OllamaAdapter!validateToolChoice, OllamaAdapter!OkIf,
      OllamaAdapter!RequiresTools, OllamaAdapter!NoName
<1>8. /\ AnthropicAdapter!SystemVerdict(req) = "ok" /\ GoogleAdapter!SystemVerdict(req) = "ok"
      /\ OpenAIAdapter!SystemVerdict(req) = "ok" /\ CompatAdapter!SystemVerdict(req) = "ok"
      /\ OllamaAdapter!SystemVerdict(req) = "ok"
  BY <1>1 DEF AnthropicAdapter!SystemVerdict, AnthropicAdapter!OkIf,
      GoogleAdapter!SystemVerdict, GoogleAdapter!OkIf,
      OpenAIAdapter!SystemVerdict, OpenAIAdapter!OkIf,
      CompatAdapter!SystemVerdict, CompatAdapter!OkIf,
      OllamaAdapter!SystemVerdict, OllamaAdapter!OkIf
<1> QED BY <1>3, <1>4, <1>5, <1>6, <1>7, <1>8

\* So are the schemas of its tools.
LEMMA SchemasAreOk ==
    ASSUME NEW req, Ready(req)
    PROVE  /\ AnthropicAdapter!SchemaVerdicts(req, AnthropicAdapter!parseToolSchema) \in Seq({"ok"})
           /\ GoogleAdapter!SchemaVerdicts(req, GoogleAdapter!SchemaVerdict) \in Seq({"ok"})
           /\ OpenAIAdapter!SchemaVerdicts(req, OpenAIAdapter!SchemaVerdict) \in Seq({"ok"})
           /\ CompatAdapter!SchemaVerdicts(req, CompatAdapter!SchemaVerdict) \in Seq({"ok"})
           /\ OllamaAdapter!SchemaVerdicts(req, OllamaAdapter!SchemaVerdict) \in Seq({"ok"})
<1>1. /\ \A i \in DOMAIN req.tools : req.tools[i].schema \in {"none", "object", "untyped"}
      /\ Len(req.tools) \in Nat /\ DOMAIN req.tools = 1 .. Len(req.tools)
  BY EmptySequence DEF Ready
<1>2. AnthropicAdapter!SchemaVerdicts(req, AnthropicAdapter!parseToolSchema) \in Seq({"ok"})
  BY <1>1 DEF AnthropicAdapter!SchemaVerdicts, AnthropicAdapter!parseToolSchema, AnthropicAdapter!OkIf
<1>3. GoogleAdapter!SchemaVerdicts(req, GoogleAdapter!SchemaVerdict) \in Seq({"ok"})
  BY <1>1 DEF GoogleAdapter!SchemaVerdicts, GoogleAdapter!SchemaVerdict
<1>4. OpenAIAdapter!SchemaVerdicts(req, OpenAIAdapter!SchemaVerdict) \in Seq({"ok"})
  BY <1>1 DEF OpenAIAdapter!SchemaVerdicts, OpenAIAdapter!SchemaVerdict
<1>5. CompatAdapter!SchemaVerdicts(req, CompatAdapter!SchemaVerdict) \in Seq({"ok"})
  BY <1>1 DEF CompatAdapter!SchemaVerdicts, CompatAdapter!SchemaVerdict, CompatAdapter!OkIf
<1>6. OllamaAdapter!SchemaVerdicts(req, OllamaAdapter!SchemaVerdict) \in Seq({"ok"})
  BY <1>1 DEF OllamaAdapter!SchemaVerdicts, OllamaAdapter!SchemaVerdict, OllamaAdapter!OkIf
<1> QED BY <1>2, <1>3, <1>4, <1>5, <1>6

\* The OpenAI adapter: every part is an item.
LEMMA OpenAISends == ASSUME NEW req, Ready(req) PROVE OpenAIAdapter!toParams(req).out = "ok"
<1> DEFINE msgs == ReasoningFrom("openai", req.messages)
           items == [i \in DOMAIN msgs |-> OpenAIAdapter!Items(msgs[i])]
           input == OpenAIAdapter!buildInput(req)
<1>1. /\ DOMAIN msgs = 1 .. Len(msgs) /\ Len(msgs) \in Nat /\ 1 \in DOMAIN msgs
      /\ \A i \in DOMAIN msgs : FitFor("openai", msgs[i])
  BY SeenAreFit
<1>2. input = [turns |-> FlattenSeq(items),
               ok |-> /\ \A i \in DOMAIN msgs : \A j \in DOMAIN msgs[i].parts :
                            OpenAIAdapter!ItemOk(msgs[i].role, msgs[i].parts[j])
                      /\ FlattenSeq(items) # <<>>]
  BY SameFilter, SameJoining, Zenon DEF OpenAIAdapter!buildInput
<1> HIDE DEF msgs, input
<1>3. ASSUME NEW i \in DOMAIN msgs, NEW j \in DOMAIN msgs[i].parts
      PROVE  OpenAIAdapter!ItemOk(msgs[i].role, msgs[i].parts[j])
  <2>1. /\ msgs[i].role \in Roles /\ Sendable(msgs[i].parts[j])
        /\ msgs[i].parts[j].kind \in Allowed(msgs[i].role) /\ msgs[i].parts[j].kind # "reasoning"
    BY <1>1 DEF FitFor, Fit, IsMessage
  <2> QED BY <2>1 DEF OpenAIAdapter!ItemOk, Allowed, Roles, Sendable, OpenAIAdapter!Empty, Empty
<1>4. ASSUME NEW i \in DOMAIN msgs
      PROVE  IsSequence(items[i]) /\ items[i] # <<>>
  <2> DEFINE parts == msgs[i].parts
  <2>1. IsSequence(parts) /\ DOMAIN parts # {}
    BY <1>1 DEF FitFor, Fit, IsMessage
  <2>2. DOMAIN parts = 1 .. Len(parts) /\ Len(parts) \in Nat
    BY <2>1, EmptySequence
  <2>3. items[i] = [j \in DOMAIN parts |-> OpenAIAdapter!Item(msgs[i].role, parts[j])]
    BY DEF OpenAIAdapter!Items
  <2> HIDE DEF parts, items
  <2>4. DOMAIN items[i] = 1 .. Len(parts) /\ items[i] = [j \in 1 .. Len(parts) |-> items[i][j]]
    BY <2>2, <2>3
  <2>5. IsSequence(items[i]) /\ DOMAIN items[i] # {}
    BY <2>1, <2>2, <2>4, AnySequence
  <2> QED BY <2>5, EmptySequence
<1>5. FlattenSeq(items) # <<>>
  <2>1. items = [i \in 1 .. Len(msgs) |-> items[i]] /\ DOMAIN items = DOMAIN msgs
    BY <1>1
  <2> HIDE DEF items
  <2>2. IsSequence(items)
    BY <1>1, <2>1, AnySequence
  <2> QED BY <1>1, <1>4, <2>1, <2>2, FlattenedSay
<1>6. input.ok
  BY <1>2, <1>3, <1>5
<1> DEFINE front == <<OpenAIAdapter!SystemVerdict(req), OpenAIAdapter!OkIf(input.ok)>>
           middle == OpenAIAdapter!SchemaVerdicts(req, OpenAIAdapter!SchemaVerdict)
           back == <<OpenAIAdapter!ChoiceVerdict(req)>>
           verdict == OpenAIAdapter!First(front \o middle \o back)
<1>7. front \in Seq({"ok"}) /\ back \in Seq({"ok"})
  BY <1>6, OthersAreOk DEF OpenAIAdapter!OkIf
<1>8. middle \in Seq({"ok"})
  BY SchemasAreOk
<1>9. verdict = "ok"
  <2> HIDE DEF front, middle, back
  <2> QED BY <1>7, <1>8, AllOk, FirstOfOk
<1>10. OpenAIAdapter!toParams(req).out
          = IF verdict # "ok" THEN OpenAIAdapter!Stops(verdict).out ELSE "ok"
  BY DEF OpenAIAdapter!toParams, OpenAIAdapter!Sends, input
<1> QED BY <1>9, <1>10

\* The Google adapter: a message that says something stays.
LEMMA GoogleSends == ASSUME NEW req, Ready(req) PROVE GoogleAdapter!toParams(req).out = "ok"
<1> DEFINE msgs == ReasoningFrom("google", req.messages)
           contents == [i \in DOMAIN msgs |-> GoogleAdapter!Content(msgs, msgs[i])]
           places == {i \in DOMAIN contents : contents[i].parts # <<>>}
           built == GoogleAdapter!buildContents(req)
<1>1. /\ DOMAIN msgs = 1 .. Len(msgs) /\ Len(msgs) \in Nat /\ 1 \in DOMAIN msgs
      /\ \A i \in DOMAIN msgs : FitFor("google", msgs[i])
  BY SeenAreFit
<1>2. built = [turns |-> Picked(contents, places),
               ok |-> /\ \A i \in DOMAIN msgs : \A j \in DOMAIN msgs[i].parts :
                            GoogleAdapter!PartOk(msgs[i].parts[j])
                      /\ Picked(contents, places) # <<>>]
  <2>1. GoogleAdapter!ReasoningFrom("google", req.messages) = msgs
    BY SameFilter, Zenon
  <2>2. GoogleAdapter!Picked(contents, places) = Picked(contents, places)
    BY SamePicking, Zenon
  <2> HIDE DEF msgs
  <2> QED BY <2>1, <2>2, Zenon DEF GoogleAdapter!buildContents
<1> HIDE DEF msgs, built
<1>3. ASSUME NEW i \in DOMAIN msgs, NEW j \in DOMAIN msgs[i].parts
      PROVE  GoogleAdapter!PartOk(msgs[i].parts[j])
  <2>1. Sendable(msgs[i].parts[j]) /\ msgs[i].parts[j].kind # "reasoning"
    BY <1>1 DEF FitFor, Fit
  <2> QED BY <2>1 DEF GoogleAdapter!PartOk, Sendable, GoogleAdapter!Empty, Empty
<1>4. IsSequence(contents) /\ DOMAIN contents = DOMAIN msgs
  <2>1. contents = [i \in 1 .. Len(msgs) |-> contents[i]] /\ DOMAIN contents = DOMAIN msgs
    BY <1>1
  <2> HIDE DEF contents
  <2> QED BY <1>1, <2>1, AnySequence
<1>5. 1 \in places
  <2>1. DOMAIN msgs[1].parts # {}
    BY <1>1 DEF FitFor, Fit
  <2>2. DOMAIN contents[1].parts = DOMAIN msgs[1].parts
    BY <1>1 DEF GoogleAdapter!Content, GoogleAdapter!Turn
  <2>3. contents[1].parts # <<>>
    BY <2>1, <2>2
  <2> QED BY <1>1, <2>3
<1>6. Picked(contents, places) # <<>>
  <2> HIDE DEF contents, places
  <2>1. PickOf(Picked(contents, places), contents, places)
    BY <1>4, PicksAre, Zenon
  <2>2. DOMAIN Picked(contents, places) # {}
    BY <1>1, <1>4, <1>5, <2>1 DEF PickOf
  <2> QED BY <2>2
<1>7. built.ok
  BY <1>2, <1>3, <1>6
<1> DEFINE front == <<GoogleAdapter!SystemVerdict(req), GoogleAdapter!OkIf(built.ok)>>
           middle == GoogleAdapter!SchemaVerdicts(req, GoogleAdapter!SchemaVerdict)
           back == <<GoogleAdapter!ChoiceVerdict(req)>>
           verdict == GoogleAdapter!First(front \o middle \o back)
<1>8. front \in Seq({"ok"}) /\ back \in Seq({"ok"}) /\ middle \in Seq({"ok"})
  BY <1>7, OthersAreOk, SchemasAreOk DEF GoogleAdapter!OkIf
<1>9. verdict = "ok"
  <2> HIDE DEF front, middle, back
  <2> QED BY <1>8, AllOk, FirstOfOk
<1>10. GoogleAdapter!toParams(req).out
          = IF verdict # "ok" THEN GoogleAdapter!Stops(verdict).out ELSE "ok"
  BY DEF GoogleAdapter!toParams, GoogleAdapter!Sends, built
<1> QED BY <1>9, <1>10

\* The adapter for Chat Completions: a message, or one for each result.
LEMMA CompatMessages ==
    ASSUME NEW m, FitFor("openai-compat", m), NEW out, out = CompatAdapter!Messages(m)
    PROVE  IsSequence(out) /\ out # <<>> /\ CompatAdapter!MessageOk(m)
<1> DEFINE parts == m.parts
<1>1. /\ m.role \in Roles /\ IsSequence(parts) /\ DOMAIN parts # {}
      /\ \A i \in DOMAIN parts :
            /\ Sendable(parts[i]) /\ parts[i].kind \in Allowed(m.role)
            /\ parts[i].kind # "reasoning"
  BY DEF FitFor, Fit, IsMessage
<1>2. DOMAIN parts = 1 .. Len(parts) /\ Len(parts) \in Nat /\ parts # <<>>
  BY <1>1, EmptySequence
<1>3. CompatAdapter!TextsOk(parts)
  BY <1>1 DEF CompatAdapter!TextsOk, Sendable, Empty, CompatAdapter!Empty
<1> HIDE DEF parts
<1>4. CASE m.role = "user"
  <2>1. \A j \in DOMAIN parts : parts[j].kind \in {"text"}
    BY <1>1, <1>4 DEF Allowed
  <2>2. CompatAdapter!MessageOk(m)
    BY <1>2, <1>3, <1>4, <2>1 DEF CompatAdapter!MessageOk, parts
  <2>3. out = <<CompatAdapter!Turn("user", CompatAdapter!Texts(parts))>>
    BY <1>4 DEF CompatAdapter!Messages, parts
  <2> QED BY <2>2, <2>3, Single
<1>5. CASE m.role = "assistant"
  <2>1. \A j \in DOMAIN parts : parts[j].kind \in {"text", "tool_call"}
    BY <1>1, <1>5 DEF Allowed
  <2>2. CompatAdapter!MessageOk(m)
    BY <1>2, <1>3, <1>5, <2>1 DEF CompatAdapter!MessageOk, parts
  <2>3. out = <<CompatAdapter!assistantMessage(parts)>>
    BY <1>5 DEF CompatAdapter!Messages, parts
  <2> QED BY <2>2, <2>3, Single
<1>6. CASE m.role = "tool"
  <2>1. \A j \in DOMAIN parts : parts[j].kind \in {"tool_result"}
    BY <1>1, <1>6 DEF Allowed
  <2>2. CompatAdapter!MessageOk(m)
    BY <1>2, <1>3, <1>6, <2>1 DEF CompatAdapter!MessageOk, parts
  <2>3. out = [j \in DOMAIN parts |->
                  CompatAdapter!Turn("tool", <<CompatAdapter!Unmarked(parts[j])>>)]
    BY <1>6 DEF CompatAdapter!Messages, CompatAdapter!ToolMessages, parts
  <2>4. DOMAIN out = 1 .. Len(parts) /\ out = [j \in 1 .. Len(parts) |-> out[j]]
    BY <1>2, <2>3
  <2>5. IsSequence(out) /\ DOMAIN out # {}
    BY <1>1, <1>2, <2>4, AnySequence
  <2> QED BY <2>2, <2>5, EmptySequence
<1> QED BY <1>1, <1>4, <1>5, <1>6 DEF Roles

\* So every message of a request is sent.
LEMMA CompatSends == ASSUME NEW req, Ready(req) PROVE CompatAdapter!toParams(req).out = "ok"
<1> DEFINE msgs == ReasoningFrom("openai-compat", req.messages)
           turns == [i \in DOMAIN msgs |-> CompatAdapter!Messages(msgs[i])]
           built == CompatAdapter!buildMessages(req)
<1>1. /\ DOMAIN msgs = 1 .. Len(msgs) /\ Len(msgs) \in Nat /\ 1 \in DOMAIN msgs
      /\ \A i \in DOMAIN msgs : FitFor("openai-compat", msgs[i])
  BY SeenAreFit
<1>2. built = [turns |-> FlattenSeq(turns),
               ok |-> /\ \A i \in DOMAIN msgs : CompatAdapter!MessageOk(msgs[i])
                      /\ FlattenSeq(turns) # <<>>]
  <2>1. CompatAdapter!ReasoningFrom("openai-compat", req.messages) = msgs
    BY SameFilter, Zenon
  <2>2. CompatAdapter!FlattenSeq(turns) = FlattenSeq(turns)
    BY SameJoining, Zenon
  <2> HIDE DEF msgs
  <2> QED BY <2>1, <2>2, Zenon DEF CompatAdapter!buildMessages
<1> HIDE DEF msgs, built
<1>3. ASSUME NEW i \in DOMAIN msgs
      PROVE  IsSequence(turns[i]) /\ turns[i] # <<>> /\ CompatAdapter!MessageOk(msgs[i])
  <2>1. turns[i] = CompatAdapter!Messages(msgs[i]) /\ FitFor("openai-compat", msgs[i])
    BY <1>1
  <2> HIDE DEF turns
  <2> QED BY <2>1, CompatMessages, Zenon
<1>4. FlattenSeq(turns) # <<>>
  <2>1. turns = [i \in 1 .. Len(msgs) |-> turns[i]] /\ DOMAIN turns = DOMAIN msgs
    BY <1>1
  <2> HIDE DEF turns
  <2>2. IsSequence(turns)
    BY <1>1, <2>1, AnySequence
  <2> QED BY <1>1, <1>3, <2>1, <2>2, FlattenedSay
<1>5. built.ok
  BY <1>2, <1>3, <1>4
<1> DEFINE front == <<CompatAdapter!SystemVerdict(req), CompatAdapter!OkIf(built.ok)>>
           middle == CompatAdapter!SchemaVerdicts(req, CompatAdapter!SchemaVerdict)
           back == <<CompatAdapter!ChoiceVerdict(req)>>
           verdict == CompatAdapter!First(front \o middle \o back)
<1>6. front \in Seq({"ok"}) /\ back \in Seq({"ok"}) /\ middle \in Seq({"ok"})
  BY <1>5, OthersAreOk, SchemasAreOk DEF CompatAdapter!OkIf
<1>7. verdict = "ok"
  <2> HIDE DEF front, middle, back
  <2> QED BY <1>6, AllOk, FirstOfOk
<1>8. CompatAdapter!toParams(req).out
          = IF verdict # "ok" THEN CompatAdapter!Stops(verdict).out ELSE "ok"
  BY DEF CompatAdapter!toParams, CompatAdapter!Sends, built
<1> QED BY <1>7, <1>8

\* The Ollama adapter: a message for each result, or one for text and calls.
LEMMA OllamaMessages ==
    ASSUME NEW m, FitFor("ollama", m), NEW out, out = OllamaAdapter!messageParts(m)
    PROVE  IsSequence(out) /\ out # <<>> /\ OllamaAdapter!MessageOk(m)
<1> DEFINE parts == m.parts
           results == Only("tool_result", parts)
           texts == OllamaAdapter!Texts(parts)
           calls == OllamaAdapter!Calls(parts)
           rest == texts \o calls
           first == [j \in DOMAIN results |->
                        OllamaAdapter!Turn("tool", <<OllamaAdapter!Unmarked(results[j])>>)]
           second == IF rest = <<>> THEN <<>> ELSE <<OllamaAdapter!Turn(m.role, rest)>>
<1>1. /\ m.role \in Roles /\ IsSequence(parts) /\ DOMAIN parts # {}
      /\ \A i \in DOMAIN parts :
            /\ Sendable(parts[i]) /\ parts[i].kind \in Allowed(m.role)
            /\ parts[i].kind # "reasoning"
  BY DEF FitFor, Fit, IsMessage
<1>2. OllamaAdapter!MessageOk(m)
  BY <1>1 DEF OllamaAdapter!MessageOk, OllamaAdapter!Allowed, Allowed, Roles, Sendable, Empty,
      OllamaAdapter!Empty
<1>3. out = first \o second
  BY SameOnly, Zenon DEF OllamaAdapter!messageParts
<1>4. HasKind("text", parts) \/ HasKind("tool_call", parts) \/ HasKind("tool_result", parts)
  BY <1>1 DEF HasKind, Sendable, Kinds
<1>5. /\ IsSequence(results) /\ (HasKind("tool_result", parts) <=> results # <<>>)
      /\ IsSequence(texts) /\ (HasKind("text", parts) <=> texts # <<>>)
      /\ IsSequence(calls) /\ (HasKind("tool_call", parts) <=> calls # <<>>)
  <2> DEFINE t == Only("text", parts)
             c == Only("tool_call", parts)
  <2> HIDE DEF parts
  <2>1. /\ texts = [i \in DOMAIN t |-> OllamaAdapter!Text(t[i].body, FALSE)]
        /\ calls = [i \in DOMAIN c |-> OllamaAdapter!ToolCall(c[i].id, c[i].name, OllamaAdapter!NoSignature)]
    BY SameOnly, Zenon DEF OllamaAdapter!Texts, OllamaAdapter!Calls
  <2>2. /\ IsSequence(results) /\ (HasKind("tool_result", parts) <=> results # <<>>)
        /\ IsSequence(t) /\ (HasKind("text", parts) <=> t # <<>>)
        /\ IsSequence(c) /\ (HasKind("tool_call", parts) <=> c # <<>>)
    BY <1>1, OnlyAre
  <2> HIDE DEF results, texts, calls, t, c
  <2>3. /\ DOMAIN t = 1 .. Len(t) /\ Len(t) \in Nat /\ (t = <<>> <=> DOMAIN t = {})
        /\ DOMAIN c = 1 .. Len(c) /\ Len(c) \in Nat /\ (c = <<>> <=> DOMAIN c = {})
    BY <2>2, EmptySequence
  <2>4. IsSequence(texts) /\ DOMAIN texts = DOMAIN t
    BY <2>1, <2>3, AnySequence
  <2>5. IsSequence(calls) /\ DOMAIN calls = DOMAIN c
    BY <2>1, <2>3, AnySequence
  <2>6. (texts = <<>> <=> DOMAIN texts = {}) /\ (calls = <<>> <=> DOMAIN calls = {})
    BY <2>4, <2>5, EmptySequence
  <2> QED BY <2>2, <2>3, <2>4, <2>5, <2>6
<1> HIDE DEF parts, results, texts, calls
<1>6. IsSequence(first) /\ (results # <<>> => first # <<>>)
  <2>1. /\ DOMAIN results = 1 .. Len(results) /\ Len(results) \in Nat
        /\ (results = <<>> <=> DOMAIN results = {})
    BY <1>5, EmptySequence
  <2>2. first = [j \in 1 .. Len(results) |-> first[j]] /\ DOMAIN first = DOMAIN results
    BY <2>1
  <2> HIDE DEF first
  <2>3. IsSequence(first)
    BY <2>1, <2>2, AnySequence
  <2> QED BY <2>1, <2>2, <2>3, EmptySequence
<1>7. texts # <<>> \/ calls # <<>> => rest # <<>>
  BY <1>5, BothJoin, Zenon DEF JoinOf
<1> HIDE DEF first, rest
<1>8. IsSequence(second) /\ (texts # <<>> \/ calls # <<>> => second # <<>>)
  <2>1. CASE rest = <<>>
    BY <1>7, <2>1 DEF IsSequence
  <2>2. CASE rest # <<>>
    BY <2>2, Single
  <2> QED BY <2>1, <2>2
<1> HIDE DEF second
<1>9. IsSequence(out) /\ out # <<>>
  <2>1. first # <<>> \/ second # <<>>
    BY <1>4, <1>5, <1>6, <1>8, Zenon
  <2>2. IsSequence(first) /\ IsSequence(second)
    BY <1>6, <1>8
  <2>3. JoinOf(out, first, second)
    BY <1>3, <2>2, BothJoin, Zenon
  <2> QED BY <2>1, <2>3 DEF JoinOf
<1> QED BY <1>2, <1>9

\* So every message of a request is sent.
LEMMA OllamaSends == ASSUME NEW req, Ready(req) PROVE OllamaAdapter!toWire(req).out = "ok"
<1> DEFINE msgs == ReasoningFrom("ollama", req.messages)
           turns == [i \in DOMAIN msgs |-> OllamaAdapter!messageParts(msgs[i])]
<1>1. /\ DOMAIN msgs = 1 .. Len(msgs) /\ Len(msgs) \in Nat /\ 1 \in DOMAIN msgs
      /\ \A i \in DOMAIN msgs : FitFor("ollama", msgs[i])
  BY SeenAreFit
<1> DEFINE front == <<OllamaAdapter!SystemVerdict(req),
                      OllamaAdapter!OkIf(\A i \in DOMAIN msgs : OllamaAdapter!MessageOk(msgs[i])),
                      OllamaAdapter!OkIf(FlattenSeq(turns) # <<>>)>>
           middle == OllamaAdapter!SchemaVerdicts(req, OllamaAdapter!SchemaVerdict)
           back == <<OllamaAdapter!validateToolChoice(req)>>
           verdict == OllamaAdapter!First(front \o middle \o back)
<1>2. OllamaAdapter!toWire(req).out
          = IF verdict # "ok" THEN OllamaAdapter!Stops(verdict).out ELSE "ok"
  <2>1. OllamaAdapter!ReasoningFrom("ollama", req.messages) = msgs
    BY SameFilter, Zenon
  <2>2. OllamaAdapter!FlattenSeq(turns) = FlattenSeq(turns)
    BY SameJoining, Zenon
  <2> HIDE DEF msgs
  <2> QED BY <2>1, <2>2 DEF OllamaAdapter!toWire, OllamaAdapter!Sends
<1> HIDE DEF msgs
<1>3. ASSUME NEW i \in DOMAIN msgs
      PROVE  IsSequence(turns[i]) /\ turns[i] # <<>> /\ OllamaAdapter!MessageOk(msgs[i])
  <2>1. turns[i] = OllamaAdapter!messageParts(msgs[i]) /\ FitFor("ollama", msgs[i])
    BY <1>1
  <2> HIDE DEF turns
  <2> QED BY <2>1, OllamaMessages, Zenon
<1>4. FlattenSeq(turns) # <<>>
  <2>1. turns = [i \in 1 .. Len(msgs) |-> turns[i]] /\ DOMAIN turns = DOMAIN msgs
    BY <1>1
  <2> HIDE DEF turns
  <2>2. IsSequence(turns)
    BY <1>1, <2>1, AnySequence
  <2> QED BY <1>1, <1>3, <2>1, <2>2, FlattenedSay
<1>5. front \in Seq({"ok"}) /\ back \in Seq({"ok"}) /\ middle \in Seq({"ok"})
  <2> HIDE DEF turns
  <2> QED BY <1>3, <1>4, OthersAreOk, SchemasAreOk DEF OllamaAdapter!OkIf
<1>6. verdict = "ok"
  <2> HIDE DEF front, middle, back
  <2> QED BY <1>5, AllOk, FirstOfOk
<1> QED BY <1>2, <1>6

\* The Anthropic adapter: the user's turn comes first and every turn of the
\* assistant's says something.
LEMMA AnthropicSends == ASSUME NEW req, Ready(req) PROVE AnthropicAdapter!toParams(req).out = "ok"
<1> DEFINE msgs == ReasoningFrom("anthropic", req.messages)
           skip == AnthropicAdapter!Skip(req)
           end == AnthropicAdapter!Taken(msgs, skip)
           turns == AnthropicAdapter!Flushed(end)
           built == AnthropicAdapter!buildMessages(req)
           W == UNION {Range(msgs[i].parts) : i \in DOMAIN msgs}
<1>1. /\ IsSequence(msgs) /\ msgs # <<>> /\ 1 \in DOMAIN msgs
      /\ \A i \in DOMAIN msgs : FitFor("anthropic", msgs[i])
      /\ msgs[1].role = "user"
  BY SeenAreFit
<1>2. built = [turns |-> turns,
               ok |-> end.ok /\ turns # <<>> /\ Head(turns).role = "user"]
  BY SameFilter, Zenon DEF AnthropicAdapter!buildMessages
<1> HIDE DEF msgs, skip, built
<1>3. \A i \in DOMAIN msgs :
         /\ msgs[i].role \in Roles /\ IsSequence(msgs[i].parts)
         /\ \A j \in DOMAIN msgs[i].parts :
               /\ Sendable(msgs[i].parts[j]) /\ msgs[i].parts[j].kind \in Kinds
               /\ msgs[i].parts[j].kind \in Allowed(msgs[i].role)
         /\ \E j \in DOMAIN msgs[i].parts : msgs[i].parts[j].kind # "reasoning"
  BY <1>1 DEF FitFor, Fit, IsMessage, Sendable
<1>4. \A p \in W : p.kind \in Kinds
  BY <1>3 DEF Range
<1>5. ASSUME NEW i \in DOMAIN msgs PROVE msgs[i].parts \in Seq(W)
  <2> DEFINE parts == msgs[i].parts
  <2>1. \A j \in DOMAIN parts : parts[j] \in W
    BY DEF Range
  <2>2. /\ Len(parts) \in Nat /\ DOMAIN parts = 1 .. Len(parts)
        /\ parts = [j \in 1 .. Len(parts) |-> parts[j]]
    BY <1>3 DEF IsSequence
  <2> HIDE DEF W, parts
  <2>3. parts \in Seq(W)
    BY <2>1, <2>2
  <2> QED BY <2>3 DEF parts
<1> HIDE DEF W
<1>6. ASSUME NEW i \in DOMAIN msgs PROVE Goes(msgs[i])
  <2>1. ASSUME msgs[i].role = "assistant" PROVE AnthropicAdapter!hasReply(msgs[i].parts)
    <3>1. PICK j \in DOMAIN msgs[i].parts : msgs[i].parts[j].kind # "reasoning"
      BY <1>3
    <3>2. msgs[i].parts[j].kind \in {"text", "tool_call"}
      BY <1>3, <2>1, <3>1 DEF Allowed
    <3> QED BY <3>2 DEF AnthropicAdapter!hasReply, AnthropicAdapter!HasKind
  <2> QED BY <1>3, <2>1 DEF Goes
<1>7. \E j \in DOMAIN msgs[1].parts : msgs[1].parts[j].kind # "tool_result"
  BY <1>1, <1>3 DEF Allowed
<1>8. end \in TakeStates(W) /\ end.ok /\ Begun(end)
  <2>1. end = AnthropicAdapter!Taken(msgs, skip)
    OBVIOUS
  <2>2. msgs[1].role # "assistant"
    BY <1>1
  <2> HIDE DEF end
  <2> QED BY <1>1, <1>4, <1>5, <1>6, <1>7, <2>1, <2>2, TurnsAre
<1> HIDE DEF end
<1>9. turns \in Seq(TurnSet(W)) /\ UserBegins(turns)
  BY <1>8, FlushedTurns
<1> HIDE DEF turns
<1>10. built.ok
  <2>1. turns # <<>> /\ turns[1].role = "user" /\ Head(turns) = turns[1]
    BY <1>9 DEF UserBegins
  <2> QED BY <1>2, <1>8, <2>1
<1> DEFINE front == <<AnthropicAdapter!SystemVerdict(req), AnthropicAdapter!OkIf(built.ok)>>
           middle == AnthropicAdapter!SchemaVerdicts(req, AnthropicAdapter!parseToolSchema)
           back == <<AnthropicAdapter!ChoiceVerdict(req)>>
           verdict == AnthropicAdapter!First(front \o middle \o back)
<1>11. front \in Seq({"ok"}) /\ back \in Seq({"ok"}) /\ middle \in Seq({"ok"})
  BY <1>10, OthersAreOk, SchemasAreOk DEF AnthropicAdapter!OkIf
<1>12. verdict = "ok"
  <2> HIDE DEF front, middle, back
  <2> QED BY <1>11, AllOk, FirstOfOk
<1>13. AnthropicAdapter!toParams(req).out
          = IF verdict # "ok" THEN AnthropicAdapter!Stops(verdict).out ELSE "ok"
  BY DEF AnthropicAdapter!toParams, AnthropicAdapter!Sends, built
<1> QED BY <1>12, <1>13

-----------------------------------------------------------------------------
(***************************************************************************)
(* The transcript                                                          *)
(***************************************************************************)

\* Parts of a message.
AreParts(s) == IsSequence(s) /\ \A i \in DOMAIN s : IsPart(s[i])

\* What is picked of blocks of text and calls are parts of a message.
LEMMA PickedParts ==
    ASSUME NEW blocks, IsSequence(blocks), NEW places,
           \A i \in DOMAIN blocks : i \in places => blocks[i].kind \in {"text", "tool_call"}
    PROVE  AreParts(Picked(blocks, places))
<1>1. PickOf(Picked(blocks, places), blocks, places)
  BY PicksAre, Zenon
<1>2. /\ IsSequence(Picked(blocks, places))
      /\ \A j \in DOMAIN Picked(blocks, places) : \E i \in DOMAIN blocks :
            i \in places /\ Picked(blocks, places)[j] = blocks[i]
  BY <1>1 DEF PickOf
<1> QED BY <1>2 DEF AreParts, IsPart, Kinds

\* Parts made one by one are parts.
LEMMA MadeParts ==
    ASSUME NEW s, IsSequence(s), NEW t, t = [i \in DOMAIN s |-> t[i]],
           \A i \in DOMAIN s : IsPart(t[i])
    PROVE  AreParts(t)
<1>1. DOMAIN s = 1 .. Len(s) /\ Len(s) \in Nat
  BY EmptySequence
<1>2. t = [i \in 1 .. Len(s) |-> t[i]] /\ DOMAIN t = DOMAIN s
  BY <1>1
<1>3. IsSequence(t)
  BY <1>1, <1>2, AnySequence
<1> QED BY <1>2, <1>3 DEF AreParts

\* Parts joined are parts.
LEMMA JoinedParts ==
    ASSUME NEW s, NEW t, AreParts(s), AreParts(t) PROVE AreParts(s \o t)
<1> DEFINE u == s \o t
<1>1. JoinOf(u, s, t)
  BY BothJoin, Zenon DEF AreParts
<1> HIDE DEF u
<1>2. AreParts(u)
  BY <1>1 DEF AreParts, JoinOf
<1> QED BY <1>2 DEF u

\* What every adapter makes of a reply is an assistant message.
LEMMA ReplyIsMessage ==
    ASSUME NEW p \in Providers, NEW blocks, IsSequence(blocks),
           \A i \in DOMAIN blocks : blocks[i].kind \in {"text", "thinking", "tool_call"}
    PROVE  IsMessage(Reply(p, blocks))
<1> DEFINE calls == Only("tool_call", blocks)
           both == {i \in DOMAIN blocks : blocks[i].kind = "tool_call" \/ Says(blocks[i])}
           said == {i \in DOMAIN blocks : Says(blocks[i])}
           m == Reply(p, blocks)
<1>1. /\ AreParts(Picked(blocks, both)) /\ AreParts(Picked(blocks, said))
      /\ \A i \in DOMAIN Picked(blocks, both) :
            Picked(blocks, both)[i].kind \in {"text", "tool_call"}
  <2>1. \A i \in DOMAIN blocks :
           /\ i \in both => blocks[i].kind \in {"text", "tool_call"}
           /\ i \in said => blocks[i].kind \in {"text", "tool_call"}
    BY DEF Says
  <2>2. PickOf(Picked(blocks, both), blocks, both)
    BY PicksAre, Zenon
  <2> HIDE DEF both, said
  <2> QED BY <2>1, <2>2, PickedParts DEF PickOf
<1>2. AreParts(calls) /\ IsSequence(calls)
  <2> DEFINE places == {i \in DOMAIN blocks : blocks[i].kind = "tool_call"}
  <2>1. calls = Picked(blocks, places)
    BY Zenon DEF Only
  <2>2. \A i \in DOMAIN blocks : i \in places => blocks[i].kind \in {"text", "tool_call"}
    OBVIOUS
  <2> HIDE DEF calls, places
  <2> QED BY <2>1, <2>2, PickedParts DEF AreParts
<1> SUFFICES m.role = "assistant" /\ AreParts(m.parts)
  BY DEF IsMessage, AreParts, Roles
<1>3. CASE p = "anthropic"
  <2> DEFINE parts == [i \in DOMAIN blocks |-> AnthropicAdapter!Received(blocks[i])]
  <2>1. m.role = "assistant" /\ m.parts = parts
    BY <1>3 DEF Reply, AnthropicAdapter!toResponse, AnthropicAdapter!Turn
  <2>2. \A i \in DOMAIN blocks : IsPart(parts[i])
    BY DEF AnthropicAdapter!Received, AnthropicAdapter!Reasoning, AnthropicAdapter!ToolCall,
        IsPart, Kinds
  <2>3. AreParts(parts)
    <3>1. parts = [i \in DOMAIN blocks |-> parts[i]]
      OBVIOUS
    <3> HIDE DEF parts
    <3> QED BY <2>2, <3>1, MadeParts
  <2> QED BY <2>1, <2>3
<1>4. CASE p = "google"
  <2> DEFINE kept == Picked(blocks, both)
             parts == [i \in DOMAIN kept |-> GoogleAdapter!Received(kept[i])]
  <2>1. both = {i \in DOMAIN blocks :
            blocks[i].kind = "tool_call" \/ GoogleAdapter!Says(blocks[i])}
    BY DEF Says, GoogleAdapter!Says, Empty, GoogleAdapter!Empty
  <2>2. m = GoogleAdapter!Turn("assistant", parts)
    <3> HIDE DEF both
    <3> QED BY <1>4, <2>1, SamePicking, Zenon DEF Reply, GoogleAdapter!toChatResponse
  <2> HIDE DEF both, m
  <2>3. \A i \in DOMAIN kept : IsPart(parts[i])
    BY <1>1 DEF GoogleAdapter!Received, GoogleAdapter!ToolCall, IsPart, Kinds
  <2>4. AreParts(parts)
    <3>1. parts = [i \in DOMAIN kept |-> parts[i]] /\ IsSequence(kept)
      BY <1>1 DEF AreParts
    <3> HIDE DEF parts, kept
    <3> QED BY <2>3, <3>1, MadeParts
  <2> QED BY <2>2, <2>4 DEF GoogleAdapter!Turn
<1>5. CASE p = "openai"
  <2>1. both = {i \in DOMAIN blocks :
            blocks[i].kind = "tool_call" \/ OpenAIAdapter!Says(blocks[i])}
    BY DEF Says, OpenAIAdapter!Says, Empty, OpenAIAdapter!Empty
  <2>2. m = OpenAIAdapter!Turn("assistant", Picked(blocks, both))
    <3> HIDE DEF both
    <3> QED BY <1>5, <2>1, SamePicking, Zenon DEF Reply, OpenAIAdapter!toChatResponse
  <2> HIDE DEF both, m
  <2> QED BY <1>1, <2>2 DEF OpenAIAdapter!Turn
<1>6. CASE p = "openai-compat"
  <2>1. said = {i \in DOMAIN blocks : CompatAdapter!Says(blocks[i])}
    BY DEF Says, CompatAdapter!Says, Empty, CompatAdapter!Empty
  <2>2. m = CompatAdapter!Turn("assistant", Picked(blocks, said) \o calls)
    <3> HIDE DEF said
    <3> QED BY <1>6, <2>1, SamePicking, SameOnly, Zenon DEF Reply, CompatAdapter!toResponse
  <2>3. AreParts(Picked(blocks, said) \o calls)
    <3> HIDE DEF said, calls
    <3> QED BY <1>1, <1>2, JoinedParts, Zenon
  <2> HIDE DEF said, calls, m
  <2> QED BY <2>2, <2>3 DEF CompatAdapter!Turn
<1>7. CASE p = "ollama"
  <2> DEFINE made == [i \in DOMAIN calls |->
                         OllamaAdapter!ToolCall(OllamaAdapter!SyntheticId(calls[i], i),
                                                calls[i].name, OllamaAdapter!NoSignature)]
  <2>1. said = {i \in DOMAIN blocks : OllamaAdapter!Says(blocks[i])}
    BY DEF Says, OllamaAdapter!Says, Empty, OllamaAdapter!Empty
  <2>2. m = OllamaAdapter!Turn("assistant", Picked(blocks, said) \o made)
    <3> HIDE DEF said
    <3> QED BY <1>7, <2>1, SamePicking, SameOnly, Zenon DEF Reply, OllamaAdapter!toChatResponse
  <2> HIDE DEF calls, m
  <2>3. AreParts(made)
    <3>1. made = [i \in DOMAIN calls |-> made[i]]
      OBVIOUS
    <3>2. \A i \in DOMAIN calls : IsPart(made[i])
      BY DEF OllamaAdapter!ToolCall, IsPart, Kinds
    <3> HIDE DEF made
    <3> QED BY <1>2, <3>1, <3>2, MadeParts
  <2>4. AreParts(Picked(blocks, said) \o made)
    <3> HIDE DEF said, made
    <3> QED BY <1>1, <2>3, JoinedParts, Zenon
  <2> HIDE DEF said, made
  <2> QED BY <2>2, <2>4 DEF OllamaAdapter!Turn
<1> QED BY <1>3, <1>4, <1>5, <1>6, <1>7, ProvidersAssumption DEF ProvidersAssumption

\* The transcript holds messages, and who has the request has the one that the
\* adapter makes of the transcript as it is: nothing is said while a request is
\* under way.
TranscriptInv ==
    /\ AreMessages(messages)
    /\ asked # Nobody => wire = Sent(asked)

\* A transcript grows by messages.
LEMMA MessagesGrow ==
    ASSUME NEW msgs, AreMessages(msgs), NEW m, IsMessage(m), NEW more, more = Append(msgs, m)
    PROVE  AreMessages(more)
<1> DEFINE S == Range(msgs) \cup {m}
           n == Len(msgs)
<1>1. /\ msgs \in Seq(S) /\ m \in S /\ n \in Nat /\ DOMAIN msgs = 1 .. n
      /\ \A i \in DOMAIN msgs : IsMessage(msgs[i])
  BY DEF AreMessages, IsSequence
<1> HIDE DEF S, n
<1>2. more \in Seq(S) /\ DOMAIN more = DOMAIN msgs \cup {n + 1}
      /\ more[n + 1] = m /\ \A i \in DOMAIN msgs : more[i] = msgs[i]
  BY <1>1, OneMore DEF n
<1>3. Len(more) \in Nat /\ DOMAIN more = 1 .. Len(more)
      /\ more = [i \in 1 .. Len(more) |-> more[i]]
  <2>1. more = [i \in 1 .. Len(more) |-> more[i]]
    BY <1>2, IsFunction, Zenon
  <2>2. Len(more) \in Nat /\ DOMAIN more = 1 .. Len(more)
    BY <1>2
  <2> QED BY <2>1, <2>2
<1>4. IsSequence(more)
  BY <1>3, AnySequence
<1> QED BY <1>1, <1>2, <1>4 DEF AreMessages

\* What a provider says is blocks.
LEMMA BlocksAreSaid ==
    ASSUME NEW p, NEW reply \in Seq(STRING), NEW blocks, blocks = Blocks(p, reply)
    PROVE  /\ IsSequence(blocks)
           /\ \A i \in DOMAIN blocks : blocks[i].kind \in {"text", "thinking", "tool_call"}
<1>1. /\ DOMAIN reply = 1 .. Len(reply) /\ Len(reply) \in Nat
      /\ blocks = [i \in DOMAIN reply |-> Block(p, reply[i], CallsSoFar + i)]
  BY DEF Blocks
<1>2. \A kind, n : Block(p, kind, n).kind \in {"text", "thinking", "tool_call"}
  BY DEF Block, Text, ToolCall
<1>3. blocks = [i \in 1 .. Len(reply) |-> blocks[i]]
  BY <1>1
<1>4. IsSequence(blocks)
  BY <1>1, <1>3, AnySequence
<1> QED BY <1>1, <1>2, <1>4

\* A conversation begins with messages and without a request.
LEMMA TranscriptInit == Init => ConversationInv /\ TranscriptInv
BY ConversationInit, SettingsAssumption DEF Init, TranscriptInv, SettingsAssumption

\* No step breaks it.
LEMMA TranscriptStep ==
    ConversationInv /\ TranscriptInv /\ [Next]_vars => (ConversationInv /\ TranscriptInv)'
<1> SUFFICES ASSUME ConversationInv, TranscriptInv, [Next]_vars PROVE TranscriptInv'
  BY ConversationStep
<1>1. AreMessages(messages) /\ settings \in Settings /\ asked \in Providers \cup {Nobody}
  BY DEF ConversationInv, TranscriptInv
<1>2. ASSUME NEW p \in Providers, Ask(p) PROVE TranscriptInv'
  <2>1. Sent(p)' = Sent(p) /\ wire' = Sent(p) /\ asked' = p /\ messages' = messages
    BY <1>2 DEF Ask, Sent, Request
  <2> QED BY <1>1, <2>1 DEF TranscriptInv
<1>3. CASE Fail
  BY <1>1, <1>3 DEF Fail, TranscriptInv
<1>4. ASSUME NEW reply \in Replies, Answer(reply) PROVE TranscriptInv'
  <2> DEFINE blocks == Blocks(asked, reply)
             m == Reply(asked, blocks)
  <2>1. asked \in Providers /\ reply \in Seq(STRING)
    BY <1>1, <1>4, RepliesAssumption DEF Answer, RepliesAssumption
  <2>2. messages' = Append(messages, m) /\ asked' = Nobody
    BY <1>4 DEF Answer
  <2>3. IsSequence(blocks) /\ \A i \in DOMAIN blocks : blocks[i].kind \in {"text", "thinking", "tool_call"}
    BY <2>1, BlocksAreSaid
  <2> HIDE DEF blocks
  <2>4. IsMessage(m)
    BY <2>1, <2>3, ReplyIsMessage
  <2> HIDE DEF m
  <2>5. AreMessages(messages')
    BY <1>1, <2>2, <2>4, MessagesGrow
  <2> QED BY <2>2, <2>5 DEF TranscriptInv
<1>5. ASSUME NEW m, IsMessage(m), Say(m) PROVE TranscriptInv'
  <2>1. messages' = Append(messages, m) /\ asked' = Nobody
    BY <1>5 DEF Say
  <2>2. AreMessages(messages')
    BY <1>1, <1>5, <2>1, MessagesGrow
  <2> QED BY <2>1, <2>2 DEF TranscriptInv
<1>6. ASSUME NEW n \in 1 .. Len(OpenCalls), RunTools(n) PROVE TranscriptInv'
  <2>0. PICK isError \in [1 .. n -> BOOLEAN] :
            Say(Turn("tool", [i \in 1 .. n |-> ToolResult(OpenCalls[i].id, isError[i])]))
    BY <1>6, Zenon DEF RunTools
  <2> DEFINE parts == [i \in 1 .. n |-> ToolResult(OpenCalls[i].id, isError[i])]
  <2>1. n \in Nat
    OBVIOUS
  <2>2. AreParts(parts)
    <3>1. parts = [i \in 1 .. n |-> parts[i]] /\ \A i \in 1 .. n : IsPart(parts[i])
      BY DEF ToolResult, IsPart, Kinds
    <3> HIDE DEF parts
    <3> QED BY <2>1, <3>1, AnySequence DEF AreParts
  <2>3. IsMessage(Turn("tool", parts))
    BY <2>2 DEF AreParts, IsMessage, Turn, Roles
  <2>4. Say(Turn("tool", parts))
    BY <2>0
  <2> QED BY <1>5, <2>3, <2>4
<1>7. ASSUME NEW parts \in Questions, Speak(parts) PROVE TranscriptInv'
  <2>1. IsMessage(Turn("user", parts))
    BY QuestionsAssumption DEF QuestionsAssumption, IsMessage, Turn, Roles
  <2>2. Say(Turn("user", parts))
    BY <1>7 DEF Speak
  <2> QED BY <1>5, <2>1, <2>2
<1>8. CASE UNCHANGED vars
  BY <1>8 DEF vars, TranscriptInv, Sent, Request
<1> QED BY <1>2, <1>3, <1>4, <1>6, <1>7, <1>8 DEF Next

\* What a caller sees to be in order is in order for the adapters.
LEMMA InOrderIsReady ==
    ASSUME ConversationInv, TranscriptInv, InOrder PROVE Ready(Request)
<1>1. /\ AreMessages(messages) /\ settings \in Settings
      /\ ValidRequest(Request) /\ Head(messages).role = "user"
      /\ \A i \in DOMAIN messages : Plain(messages[i].parts)
  BY DEF ConversationInv, TranscriptInv, InOrder
<1>2. /\ Request.system = settings.system /\ Request.messages = messages
      /\ Request.tools = settings.tools /\ Request.choice = settings.choice
  BY DEF Request
<1>3. /\ \A i \in DOMAIN settings.system : settings.system[i].kind = "text"
      /\ ValidateMessages(Outlines(messages))
  BY <1>1, <1>2 DEF ValidRequest
<1>4. /\ IsSequence(messages) /\ \A i \in DOMAIN messages : IsMessage(messages[i])
  BY <1>1 DEF AreMessages
<1>5. /\ DOMAIN messages = 1 .. Len(messages) /\ Len(messages) \in Nat
      /\ messages = <<>> <=> DOMAIN messages = {}
  BY <1>4, EmptySequence
<1>6. Outlines(messages) # <<>>
  BY <1>3, Zenon DEF ValidateMessages
<1>7. messages # <<>>
  <2>1. SUFFICES ASSUME DOMAIN messages = {} PROVE FALSE
    BY <1>5
  <2>2. Outlines(messages) = [i \in {} |-> Outline(messages[i])]
    BY <2>1, Zenon DEF Outlines
  <2>3. Outlines(messages) = <<>>
    <3> DEFINE f == Outlines(messages)
    <3>1. f = [i \in 1 .. 0 |-> f[i]]
      <4>1. 1 .. 0 = {}
        OBVIOUS
      <4>2. f = [i \in {} |-> f[i]]
        BY <2>2, Zenon
      <4> HIDE DEF f
      <4> QED BY <4>1, <4>2, Zenon
    <3> HIDE DEF f
    <3>2. IsSequence(f) /\ DOMAIN f = 1 .. 0
      BY <3>1, AnySequence
    <3> QED BY <3>2, EmptySequence DEF f
  <2> QED BY <1>6, <2>3
<1>8. messages[1].role = "user"
  BY <1>1, <1>4, <1>7 DEF IsSequence
<1>9. \A i \in DOMAIN messages : Fit(messages[i])
  <2>1. \A i \in DOMAIN messages : Legal(messages[i])
    BY <1>1, <1>3, ValidAreLegal, Zenon
  <2> QED BY <1>1, <2>1, LegalIsFit, Zenon
<1>10. /\ IsSequence(settings.tools)
       /\ \A i \in DOMAIN settings.tools :
             /\ settings.tools[i].name # NoName
             /\ settings.tools[i].schema \in {"none", "object", "untyped"}
  BY <1>1, SettingsAssumption DEF SettingsAssumption, InOrder
<1>11. /\ RequiresTools(settings.choice) => settings.tools # <<>>
       /\ settings.choice.type = "tool" =>
             \E i \in DOMAIN settings.tools : settings.tools[i].name = settings.choice.name
  BY DEF InOrder
<1> QED BY <1>2, <1>3, <1>4, <1>7, <1>8, <1>9, <1>10, <1>11, Zenon DEF Ready

\* A transcript in order is accepted by every adapter, whichever providers
\* answered before, and whatever they said: no answer that an adapter appends
\* makes the transcript one that another refuses (message.go, Reasoning.Provider;
\* toParams of the adapters, toWire of Ollama's).
THEOREM EveryAdapterAccepts == Spec => []AcceptedIsSent
<1>1. ConversationInv /\ TranscriptInv => AcceptedIsSent
  <2> SUFFICES ASSUME ConversationInv, TranscriptInv, Sending, InOrder PROVE wire.out = "ok"
    BY DEF AcceptedIsSent
  <2>1. asked \in Providers /\ wire = Sent(asked)
    BY DEF ConversationInv, TranscriptInv, Sending
  <2>2. Ready(Request)
    BY InOrderIsReady
  <2>3. Params(asked, Request).out = "ok"
    BY <2>1, <2>2, AnthropicSends, GoogleSends, OpenAISends, CompatSends, OllamaSends,
        ProvidersAssumption DEF ProvidersAssumption, Params
  <2>4. Request.params[asked].valid
    BY <2>1 DEF InOrder, Request
  <2>5. Sent(asked).out = "ok"
    <3>1. Sent(asked) = [Params(asked, Request) EXCEPT !.body = Merged(@, Request.params[asked].set)]
      BY <2>3, <2>4 DEF Sent, Complete
    <3> QED BY <2>1, <2>3, <3>1, ParamsBody DEF Sends
  <2> QED BY <2>1, <2>5
<1> QED BY <1>1, TranscriptInit, TranscriptStep, PTL DEF Spec
==============================================================================
