---------------------------- MODULE AnthropicProofs ----------------------------
(***************************************************************************)
(* Theorem about what Conversation puts before Anthropic: turns that       *)
(* alternate, results where they belong, and no more markers than it takes.*)
(***************************************************************************)
EXTENDS WireProofs, FiniteSetTheorems

-----------------------------------------------------------------------------
(***************************************************************************)
(* Pending calls                                                           *)
(***************************************************************************)

\* The scan of any outlines, of whatever ids.
PendingRuns(pending, msgs) ==
    /\ pending[0] = {}
    /\ \A k \in 1 .. Len(msgs) : pending[k] = PendingAfter(pending[k - 1], msgs[k])

LEMMA PendingIsRun ==
    ASSUME NEW msgs, IsSequence(msgs) PROVE PendingRuns(Pending(msgs), msgs)
<1> DEFINE n == Len(msgs)
           D == SUBSET (UNION {Range(msgs[i].calls) : i \in 1 .. n})
           Next1(s, k) == PendingAfter(s, msgs[k])
           step == [x \in D \X (1 .. n) |-> Next1(x[1], x[2])]
           Rule(f) == [k \in 0 .. n |-> IF k = 0 THEN {} ELSE Next1(f[k - 1], k)]
<1>1. n \in Nat
  BY DEF IsSequence
<1>2. \A s \in D, k \in 1 .. n : Next1(s, k) \in D
  <2> SUFFICES ASSUME NEW s \in D, NEW k \in 1 .. n PROVE Next1(s, k) \in D
    OBVIOUS
  <2>1. Range(msgs[k].calls) \in D
    OBVIOUS
  <2>2. s \ Range(msgs[k].results) \in D
    OBVIOUS
  <2> HIDE DEF D
  <2> QED BY <2>1, <2>2 DEF PendingAfter
<1>3. {} \in D
  OBVIOUS
<1> HIDE DEF n, D, Next1
<1>4. step \in [D \X (1 .. n) -> D] /\ \A s \in D, k \in 1 .. n : step[<<s, k>>] = Next1(s, k)
  BY <1>2
<1> HIDE DEF step
<1>5. Recursions(n, D, {}, step) # {}
  BY <1>1, <1>3, <1>4, Recursion, Zenon
<1>6. PICK f \in [0 .. n -> D] :
        f[0] = {} /\ \A k \in 1 .. n : f[k] = step[<<f[k - 1], k>>]
  BY <1>5, Zenon DEF Recursions
<1>7. ASSUME NEW k \in 1 .. n PROVE k - 1 \in 0 .. n /\ f[k] = Next1(f[k - 1], k)
  <2>1. k - 1 \in 0 .. n
    BY <1>1
  <2>2. f[k - 1] \in D
    BY <2>1
  <2> QED BY <1>4, <1>6, <2>1, <2>2
<1>8. f = Rule(f)
  <2>1. ASSUME NEW k \in 0 .. n PROVE f[k] = IF k = 0 THEN {} ELSE Next1(f[k - 1], k)
    <3>1. k = 0 \/ k \in 1 .. n
      BY <1>1
    <3>2. k \in 1 .. n => k # 0
      BY <1>1
    <3> QED BY <1>6, <1>7, <3>1, <3>2
  <2> QED BY <2>1, Zenon
<1> DEFINE g == CHOOSE g : g = Rule(g)
<1>9. g = Rule(g)
  BY <1>8, Zenon
<1>10. Pending(msgs) = g
  BY Zenon DEF Pending, Next1, n
<1> HIDE DEF g
<1>11. g[0] = {}
  <2>1. 0 \in 0 .. n
    BY <1>1
  <2> QED BY <1>9, <2>1
<1>12. ASSUME NEW k \in 1 .. n PROVE g[k] = Next1(g[k - 1], k)
  <2>1. k \in 0 .. n /\ k # 0
    BY <1>1
  <2> QED BY <1>9, <2>1
<1> QED BY <1>10, <1>11, <1>12 DEF PendingRuns, Next1, n

-----------------------------------------------------------------------------
(***************************************************************************)
(* Ids                                                                     *)
(***************************************************************************)

\* A view of one thing for each part.
LEMMA SinglesSay ==
    ASSUME NEW v, NEW role, NEW s, IsSequence(s), NEW t, t = [j \in DOMAIN s |-> t[j]],
           \A j \in DOMAIN s : View(v, role, s[j]) = <<t[j]>>
    PROVE  Said(v, role, s) = t
<1> DEFINE ss == [j \in DOMAIN s |-> View(v, role, s[j])]
           n == Len(s)
           g == [k \in 0 .. n |-> UpTo(t, k)]
<1>1. n \in Nat /\ DOMAIN s = 1 .. n
  BY DEF IsSequence
<1>2. IsSequence(t) /\ DOMAIN t = 1 .. n /\ Len(t) = n
  BY <1>1, AnySequence
<1>3. /\ UpTo(t, 0) = <<>> /\ UpTo(t, n) = t
      /\ \A k \in 0 .. n - 1 : UpTo(t, k + 1) = Append(UpTo(t, k), t[k + 1])
      /\ \A k \in 0 .. n : IsSequence(UpTo(t, k))
  BY <1>2, UpToGrows
<1>4. ss = [j \in 1 .. n |-> ss[j]] /\ \A j \in 1 .. n : ss[j] = <<t[j]>>
  BY <1>1
<1>5. Said(v, role, s) = FlattenSeq(ss)
  BY DEF Said
<1>6. \A k \in 0 .. n : g[k] = UpTo(t, k)
  OBVIOUS
<1> HIDE DEF ss, n, g
<1>7. IsSequence(ss) /\ DOMAIN ss = 1 .. n /\ Len(ss) = n
  BY <1>1, <1>4, AnySequence
<1>8. AreSequences(ss)
  BY <1>4, <1>7, Single DEF AreSequences
<1>9. ASSUME NEW k \in 0 .. n - 1 PROVE g[k + 1] = g[k] \o ss[k + 1]
  <2>1. k \in 0 .. n /\ k + 1 \in 0 .. n /\ k + 1 \in 1 .. n
    BY <1>1
  <2>2. IsSequence(UpTo(t, k)) /\ UpTo(t, k + 1) = Append(UpTo(t, k), t[k + 1])
    BY <1>3, <2>1
  <2>3. UpTo(t, k + 1) = UpTo(t, k) \o <<t[k + 1]>>
    BY <2>2, AppendJoins
  <2> QED BY <1>4, <1>6, <2>1, <2>3
<1>10. g[0] = <<>> /\ IsSequence(g[0]) /\ g[n] = t
  <2>1. 0 \in 0 .. n /\ n \in 0 .. n
    BY <1>1
  <2> QED BY <1>3, <1>6, <2>1
<1>11. g[n] = g[0] \o FlattenSeq(ss)
  BY <1>7, <1>8, <1>9, <1>10, FlattenFrom
<1>12. <<>> \o FlattenSeq(ss) = FlattenSeq(ss)
  BY <1>8, FlattenIsSequence, JoinNothing
<1> QED BY <1>5, <1>10, <1>11, <1>12

\* The ids of the calls and those of the results, as views.
IdView(kind) == IF kind = "tool_call" THEN <<"called", "anthropic">> ELSE <<"answered", "anthropic">>

LEMMA IdsAreSaid ==
    ASSUME NEW kind \in {"tool_call", "tool_result"}, NEW role, NEW parts, IsSequence(parts)
    PROVE  IdsOf(Only(kind, parts)) = Said(IdView(kind), role, parts)
<1> DEFINE v == IdView(kind)
           places == {i \in DOMAIN parts : parts[i].kind = kind}
           s == Only(kind, parts)
           t == IdsOf(s)
<1>1. \A x : View(v, role, x) = IF x.kind = kind THEN <<x.id>> ELSE <<>>
  BY DEF View, IdView
<1>2. s = Picked(parts, places)
  BY DEF Only
<1>3. IsSequence(s) /\ \A i \in DOMAIN s : s[i].kind = kind
  BY OnlyIsSequence
<1>4. t = [j \in DOMAIN s |-> t[j]] /\ \A j \in DOMAIN s : t[j] = s[j].id
  BY DEF IdsOf
<1>5. \A j \in DOMAIN parts :
         View(v, role, parts[j]) = IF j \in places THEN View(v, role, parts[j]) ELSE <<>>
  BY <1>1
<1> HIDE DEF v, places, s, t
<1>6. Said(v, role, Picked(parts, places)) = Said(v, role, parts)
  BY <1>5, SaidPicked
<1>7. Said(v, role, s) = t
  <2>1. \A j \in DOMAIN s : View(v, role, s[j]) = <<t[j]>>
    BY <1>1, <1>3, <1>4
  <2> QED BY <1>3, <1>4, <2>1, SinglesSay
<1> QED BY <1>2, <1>6, <1>7 DEF s, t, v

-----------------------------------------------------------------------------
(***************************************************************************)
(* Blocks                                                                  *)
(***************************************************************************)

\* A result is a result; any other part becomes a block of its kind, a text with
\* its mark if enough marks have been seen.
Adds(t, s, p, skip) ==
    \/ /\ p.kind = "tool_result"
       /\ t.results = Append(s.results, p) /\ t.others = s.others /\ t.seen = s.seen
    \/ /\ p.kind # "tool_result"
       /\ t.results = s.results
       /\ \E x : /\ x.kind = p.kind /\ t.others = Append(s.others, x)
                 /\ p.kind = "text" => (x.marked <=> (p.marked /\ s.seen >= skip))
       /\ t.seen = IF p.kind = "text" /\ p.marked THEN s.seen + 1 ELSE s.seen

LEMMA BlockAdds ==
    ASSUME NEW W, NEW s \in BlockStates(W), NEW p, p.kind \in Kinds, NEW skip,
           NEW t, t = AnthropicAdapter!Block(s, p, skip)
    PROVE  Adds(t, s, p, skip)
<1> DEFINE block == Text(p.body, p.marked /\ s.seen >= skip)
           call == ToolCall(p.id, p.name, NoSignature)
<1>1. s = [results |-> s.results, others |-> s.others, seen |-> s.seen, ok |-> s.ok]
  BY DEF BlockStates
<1>2. CASE p.kind = "text"
  <2>1. /\ t.results = s.results /\ t.others = Append(s.others, block)
        /\ t.seen = IF p.marked THEN s.seen + 1 ELSE s.seen
    BY <1>1, <1>2 DEF AnthropicAdapter!Block, AnthropicAdapter!Text, Text
  <2>2. block.kind = "text" /\ (block.marked <=> (p.marked /\ s.seen >= skip))
    BY DEF Text
  <2> HIDE DEF block
  <2>3. \E x : /\ x.kind = p.kind /\ t.others = Append(s.others, x)
               /\ p.kind = "text" => (x.marked <=> (p.marked /\ s.seen >= skip))
    BY <1>2, <2>1, <2>2
  <2> QED BY <1>2, <2>1, <2>3 DEF Adds
<1>3. CASE p.kind = "tool_call"
  <2>1. t.results = s.results /\ t.others = Append(s.others, call) /\ t.seen = s.seen
    BY <1>1, <1>3 DEF AnthropicAdapter!Block, AnthropicAdapter!ToolCall,
        AnthropicAdapter!NoSignature, NoSignature, ToolCall
  <2>2. call.kind = "tool_call"
    BY DEF ToolCall
  <2> HIDE DEF call
  <2> QED BY <1>3, <2>1, <2>2 DEF Adds
<1>4. CASE p.kind = "tool_result"
  <2>1. t.results = Append(s.results, p) /\ t.others = s.others /\ t.seen = s.seen
    BY <1>1, <1>4 DEF AnthropicAdapter!Block
  <2> QED BY <1>4, <2>1 DEF Adds
<1>5. CASE p.kind = "reasoning"
  <2>1. t.results = s.results /\ t.others = Append(s.others, p) /\ t.seen = s.seen
    BY <1>1, <1>5 DEF AnthropicAdapter!Block
  <2> QED BY <1>5, <2>1 DEF Adds
<1> QED BY <1>2, <1>3, <1>4, <1>5 DEF Kinds

\* The blocks of the first k parts: results apart from the others.
Sorted(s, parts, k) ==
    /\ \A j \in DOMAIN s.others :
          s.others[j].kind # "tool_result" /\ \E i \in 1 .. k : s.others[j].kind = parts[i].kind
    /\ \A j \in DOMAIN s.results : s.results[j].kind = "tool_result"
    /\ s.others = <<>> <=> \A i \in 1 .. k : parts[i].kind = "tool_result"
    /\ s.results = <<>> <=> \A i \in 1 .. k : parts[i].kind # "tool_result"

LEMMA SortedMore ==
    ASSUME NEW W, NEW s \in BlockStates(W), NEW parts, NEW k \in Nat, Sorted(s, parts, k),
           NEW skip, NEW t, Adds(t, s, parts[k + 1], skip)
    PROVE  Sorted(t, parts, k + 1)
<1> DEFINE p == parts[k + 1]
<1>1. IsSequence(s.results) /\ IsSequence(s.others)
  <2>1. s.results \in Seq(BlockSet(W)) /\ s.others \in Seq(BlockSet(W))
    BY DEF BlockStates
  <2> QED BY <2>1, TypedIsSequence, Zenon
<1>2. \A i : i \in 1 .. k + 1 <=> i \in 1 .. k \/ i = k + 1
  OBVIOUS
<1>3. CASE p.kind = "tool_result"
  <2>1. t.results = Append(s.results, p) /\ t.others = s.others
    BY <1>3 DEF Adds
  <2>2. OneMoreThan(t.results, s.results, Len(s.results), p)
    BY <1>1, <2>1, AppendTo
  <2>3. \A j \in DOMAIN t.results : t.results[j].kind = "tool_result"
    BY <1>3, <2>2 DEF OneMoreThan, Sorted
  <2>4. t.results # <<>>
    <3>1. Len(s.results) + 1 \in DOMAIN t.results
      BY <1>1, <2>2 DEF OneMoreThan, IsSequence
    <3> QED BY <3>1
  <2> HIDE DEF p
  <2> QED BY <1>2, <1>3, <2>1, <2>3, <2>4 DEF Sorted, p
<1>4. CASE p.kind # "tool_result"
  <2>1. t.results = s.results
    BY <1>4 DEF Adds
  <2>2. PICK x : x.kind = p.kind /\ t.others = Append(s.others, x)
    BY <1>4 DEF Adds
  <2>3. OneMoreThan(t.others, s.others, Len(s.others), x)
    BY <1>1, <2>2, AppendTo
  <2>4. ASSUME NEW j \in DOMAIN t.others
        PROVE  /\ t.others[j].kind # "tool_result"
               /\ \E i \in 1 .. k + 1 : t.others[j].kind = parts[i].kind
    <3>1. (j \in DOMAIN s.others /\ t.others[j] = s.others[j]) \/ t.others[j] = x
      BY <2>3 DEF OneMoreThan
    <3>2. CASE t.others[j] = x
      BY <1>2, <1>4, <2>2, <3>2
    <3>3. CASE j \in DOMAIN s.others /\ t.others[j] = s.others[j]
      BY <1>2, <3>3 DEF Sorted
    <3> QED BY <3>1, <3>2, <3>3
  <2>5. t.others # <<>>
    <3>1. Len(s.others) + 1 \in DOMAIN t.others
      BY <1>1, <2>3 DEF OneMoreThan, IsSequence
    <3> QED BY <3>1
  <2>6. /\ \A j \in DOMAIN t.results : t.results[j].kind = "tool_result"
        /\ t.results = <<>> <=> \A i \in 1 .. k + 1 : parts[i].kind # "tool_result"
    <3>1. k + 1 \in 1 .. k + 1 /\ \A i \in 1 .. k : i \in 1 .. k + 1
      OBVIOUS
    <3> QED BY <1>2, <1>4, <2>1, <3>1, Zenon DEF Sorted
  <2>7. ~ \A i \in 1 .. k + 1 : parts[i].kind = "tool_result"
    BY <1>4
  <2> QED BY <2>4, <2>5, <2>6, <2>7, Zenon DEF Sorted
<1> QED BY <1>3, <1>4

LEMMA BlocksAreSorted ==
    ASSUME NEW W, \A p \in W : IsPart(p), NEW parts \in Seq(W), NEW skip, NEW seen \in Int,
           NEW b, b = AnthropicAdapter!blocksForParts(parts, skip, seen)
    PROVE  Sorted(b, parts, Len(parts))
<1> DEFINE n == Len(parts)
<1>1. n \in Nat /\ \A k \in 1 .. n : parts[k] \in W
  OBVIOUS
<1>2. BlockScans(W, parts, skip, seen) # {}
  BY BlocksUnfold DEF IsPart
<1>3. PICK f \in [0 .. n -> BlockStates(W)] :
        /\ f[0] = FirstBlocks(seen) /\ b = f[n]
        /\ \A k \in 1 .. n : f[k] = AnthropicAdapter!Block(f[k - 1], parts[k], skip)
  BY <1>2, Zenon DEF BlockScans
<1> HIDE DEF n
<1> DEFINE T == {k \in 0 .. n : Sorted(f[k], parts, k)}
<1>4. 0 \in T
  <2>1. f[0].others = <<>> /\ f[0].results = <<>>
    BY <1>3 DEF FirstBlocks
  <2>2. DOMAIN f[0].others = {} /\ DOMAIN f[0].results = {} /\ 1 .. 0 = {}
    BY <2>1
  <2>3. Sorted(f[0], parts, 0)
    BY <2>1, <2>2 DEF Sorted
  <2> QED BY <1>1, <2>3
<1>5. ASSUME NEW k \in 0 .. n - 1, k \in T PROVE k + 1 \in T
  <2>1. k + 1 \in 1 .. n /\ (k + 1) - 1 = k /\ k \in 0 .. n /\ k + 1 \in 0 .. n /\ k \in Nat
    BY <1>1
  <2>2. /\ f[k] \in BlockStates(W) /\ IsPart(parts[k + 1]) /\ Sorted(f[k], parts, k)
        /\ f[k + 1] = AnthropicAdapter!Block(f[k], parts[k + 1], skip)
    BY <1>1, <1>3, <1>5, <2>1
  <2>3. Adds(f[k + 1], f[k], parts[k + 1], skip)
    BY <2>2, BlockAdds DEF IsPart
  <2>4. Sorted(f[k + 1], parts, k + 1)
    BY <2>1, <2>2, <2>3, SortedMore
  <2> QED BY <2>1, <2>4
<1>6. \A k \in 0 .. n : k \in T
  <2> HIDE DEF T
  <2>1. 0 \in Nat
    OBVIOUS
  <2> QED BY <1>1, <1>4, <1>5, <2>1, StretchInduction
<1>7. n \in T
  BY <1>1, <1>6
<1> QED BY <1>3, <1>7 DEF n

-----------------------------------------------------------------------------
(***************************************************************************)
(* Marks                                                                   *)
(***************************************************************************)
MarkView == <<"mark", "anthropic">>

LEMMA MarkIsViewed == ASSUME NEW role, NEW x PROVE View(MarkView, role, x) = Mark(x)
BY DEF View, MarkView

LEMMA MarksMore ==
    ASSUME NEW role, NEW s, IsSequence(s), NEW x
    PROVE  Said(MarkView, role, Append(s, x)) = Said(MarkView, role, s) \o Mark(x)
<1>1. Said(MarkView, role, Append(s, x)) = Said(MarkView, role, s) \o View(MarkView, role, x)
  BY SaidMore, Zenon
<1>2. View(MarkView, role, x) = Mark(x)
  BY MarkIsViewed, Zenon
<1> QED BY <1>1, <1>2, Zenon

\* How many of the first k are marked.
Count(m, k) == Cardinality({i \in 1 .. k : m[i]})
Total(m) == Count(m, Len(m))

LEMMA CountIsNumber ==
    ASSUME NEW m, NEW k \in Nat PROVE IsFiniteSet({i \in 1 .. k : m[i]}) /\ Count(m, k) \in Nat
<1>1. IsFiniteSet(1 .. k)
  BY FS_Interval
<1>2. IsFiniteSet({i \in 1 .. k : m[i]})
  BY <1>1, FS_Subset
<1> QED BY <1>2, FS_CardinalityType DEF Count

LEMMA CountSame ==
    ASSUME NEW m, NEW t, NEW k \in Nat, \A j \in 1 .. k : t[j] = m[j]
    PROVE  Count(t, k) = Count(m, k)
<1>1. {i \in 1 .. k : t[i]} = {i \in 1 .. k : m[i]}
  OBVIOUS
<1> QED BY <1>1 DEF Count

LEMMA CountMore ==
    ASSUME NEW m, NEW k \in Nat
    PROVE  Count(m, k + 1) = IF m[k + 1] THEN Count(m, k) + 1 ELSE Count(m, k)
<1> DEFINE S == {i \in 1 .. k : m[i]}
<1>1. IsFiniteSet(S) /\ Cardinality(S) \in Nat
  BY CountIsNumber DEF Count
<1>2. CASE m[k + 1]
  <2>1. {i \in 1 .. k + 1 : m[i]} = S \cup {k + 1} /\ k + 1 \notin S
    BY <1>2
  <2> HIDE DEF S
  <2>2. Cardinality(S \cup {k + 1}) = Cardinality(S) + 1
    BY <1>1, <2>1, FS_AddElement
  <2> QED BY <1>2, <2>1, <2>2 DEF Count, S
<1>3. CASE ~ m[k + 1]
  <2>1. {i \in 1 .. k + 1 : m[i]} = S
    BY <1>3
  <2> QED BY <1>3, <2>1 DEF Count
<1> QED BY <1>2, <1>3

LEMMA CountAppended ==
    ASSUME NEW s, IsSequence(s), NEW x
    PROVE  /\ Total(s) \in Nat
           /\ Total(Append(s, x)) = IF x THEN Total(s) + 1 ELSE Total(s)
           /\ \A k \in 0 .. Len(s) : Count(Append(s, x), k) = Count(s, k)
<1> DEFINE n == Len(s)
           t == Append(s, x)
<1>1. n \in Nat
  BY DEF IsSequence
<1>2. OneMoreThan(t, s, n, x)
  BY AppendTo
<1> HIDE DEF n, t
<1>3. \A k \in 0 .. n : Count(t, k) = Count(s, k)
  <2> SUFFICES ASSUME NEW k \in 0 .. n PROVE Count(t, k) = Count(s, k)
    OBVIOUS
  <2>1. k \in Nat /\ \A j \in 1 .. k : t[j] = s[j]
    BY <1>1, <1>2 DEF OneMoreThan
  <2> QED BY <2>1, CountSame
<1>4. Count(t, n + 1) = IF x THEN Count(t, n) + 1 ELSE Count(t, n)
  BY <1>1, <1>2, CountMore DEF OneMoreThan
<1>5. Len(t) = n + 1 /\ Count(s, n) \in Nat
  BY <1>1, <1>2, CountIsNumber DEF OneMoreThan
<1>6. n \in 0 .. n
  BY <1>1
<1> QED BY <1>3, <1>4, <1>5, <1>6 DEF Total, n, t

\* The marks that go out are those that are meant, but for the first ones.
Honored(out, meant, skip) ==
    /\ IsSequence(out) /\ IsSequence(meant) /\ Len(out) = Len(meant)
    /\ \A i \in 1 .. Len(meant) : out[i] <=> (meant[i] /\ Count(meant, i - 1) >= skip)
    /\ Total(out) = Most(Total(meant) - skip, 0)

LEMMA HonoredMore ==
    ASSUME NEW skip \in Nat, NEW out, NEW meant, Honored(out, meant, skip), NEW o, NEW m,
           o <=> (m /\ Total(meant) >= skip)
    PROVE  Honored(Append(out, o), Append(meant, m), skip)
<1> DEFINE n == Len(meant)
           u == Append(out, o)
           t == Append(meant, m)
<1>1. n \in Nat /\ IsSequence(out) /\ IsSequence(meant) /\ Len(out) = n
  BY DEF Honored, IsSequence
<1>2. OneMoreThan(t, meant, n, m) /\ OneMoreThan(u, out, n, o)
  BY <1>1, AppendTo
<1>3. /\ Total(meant) \in Nat /\ \A k \in 0 .. n : Count(t, k) = Count(meant, k)
      /\ Total(t) = IF m THEN Total(meant) + 1 ELSE Total(meant)
  BY <1>1, CountAppended
<1>4. Total(u) = IF o THEN Total(out) + 1 ELSE Total(out)
  BY <1>1, CountAppended
<1>5. Total(out) = Most(Total(meant) - skip, 0)
  BY DEF Honored
<1>6. Total(meant) = Count(meant, n)
  BY DEF Total
<1> HIDE DEF n, u, t
<1>7. Total(u) = Most(Total(t) - skip, 0)
  BY <1>3, <1>4, <1>5 DEF Most
<1>8. ASSUME NEW i \in 1 .. n + 1 PROVE u[i] <=> (t[i] /\ Count(t, i - 1) >= skip)
  <2>1. i - 1 \in 0 .. n
    BY <1>1
  <2>2. Count(t, i - 1) = Count(meant, i - 1)
    BY <1>3, <2>1
  <2>3. CASE i = n + 1
    <3>1. i - 1 = n /\ u[i] = o /\ t[i] = m
      BY <1>1, <1>2, <2>3 DEF OneMoreThan
    <3> QED BY <1>6, <2>2, <3>1
  <2>4. CASE i # n + 1
    <3>1. i \in 1 .. n
      BY <1>1, <2>4
    <3>2. u[i] = out[i] /\ t[i] = meant[i]
      BY <1>2, <3>1 DEF OneMoreThan
    <3>3. out[i] <=> (meant[i] /\ Count(meant, i - 1) >= skip)
      BY <3>1 DEF Honored, n
    <3> QED BY <2>2, <3>2, <3>3
  <2> QED BY <2>3, <2>4
<1>9. IsSequence(u) /\ IsSequence(t) /\ Len(u) = n + 1 /\ Len(t) = n + 1
  BY <1>2 DEF OneMoreThan
<1> QED BY <1>7, <1>8, <1>9 DEF Honored, u, t

\* The blocks so far, after what went before them.
Marking(before, meant, s, skip) ==
    /\ Honored(before \o Said(MarkView, "user", s.others), meant, skip)
    /\ s.seen = Total(meant)

LEMMA MarkingMore ==
    ASSUME NEW before, IsSequence(before), NEW meant, NEW skip \in Nat,
           NEW s, IsSequence(s.others), Marking(before, meant, s, skip),
           NEW p, NEW t, Adds(t, s, p, skip)
    PROVE  Marking(before, meant \o Mark(p), t, skip)
<1> DEFINE said == Said(MarkView, "user", s.others)
           out == before \o said
<1>1. IsSequence(said) /\ IsSequence(out)
  BY SaidIsSequence, JoinIsSequence, Zenon
<1>2. Honored(out, meant, skip) /\ s.seen = Total(meant) /\ IsSequence(meant)
  BY DEF Marking, Honored
<1>3. ASSUME NEW x
      PROVE  /\ Mark(x) = <<>> => before \o Said(MarkView, "user", Append(s.others, x)) = out
             /\ Mark(x) = <<x.marked>> =>
                   before \o Said(MarkView, "user", Append(s.others, x)) = Append(out, x.marked)
  <2>1. Said(MarkView, "user", Append(s.others, x)) = said \o Mark(x)
    BY MarksMore, Zenon
  <2>2. said \o <<>> = said
    BY <1>1, JoinNothing
  <2>3. Append(out, x.marked) = out \o <<x.marked>>
    BY <1>1, AppendJoins
  <2>4. out \o <<x.marked>> = before \o (said \o <<x.marked>>)
    <3>1. IsSequence(<<x.marked>>)
      BY Single
    <3>2. Associate(before, said, <<x.marked>>)
      BY <1>1, <3>1, JoinAssociates
    <3> QED BY <3>2 DEF Associate
  <2> HIDE DEF out
  <2>5. out = before \o said
    BY DEF out
  <2> HIDE DEF said
  <2> QED BY <2>1, <2>2, <2>3, <2>4, <2>5
<1>4. meant \o <<>> = meant /\ \A m : meant \o <<m>> = Append(meant, m)
  BY <1>2, JoinNothing, AppendJoins
<1> HIDE DEF out, said
<1>5. CASE p.kind = "tool_result"
  <2>1. t.others = s.others /\ t.seen = s.seen /\ Mark(p) = <<>>
    BY <1>5 DEF Adds, Mark
  <2> QED BY <1>2, <1>4, <2>1 DEF Marking, out, said
<1>6. CASE p.kind # "tool_result" /\ p.kind # "text"
  <2>1. PICK x : x.kind = p.kind /\ t.others = Append(s.others, x)
    BY <1>6 DEF Adds
  <2>2. t.seen = s.seen /\ Mark(p) = <<>> /\ Mark(x) = <<>>
    BY <1>6, <2>1 DEF Adds, Mark
  <2>3. before \o Said(MarkView, "user", t.others) = out
    BY <1>3, <2>1, <2>2
  <2> QED BY <1>2, <1>4, <2>2, <2>3 DEF Marking
<1>7. CASE p.kind = "text"
  <2>1. PICK x : /\ x.kind = p.kind /\ t.others = Append(s.others, x)
                 /\ x.marked <=> (p.marked /\ s.seen >= skip)
    BY <1>7 DEF Adds
  <2>2. /\ t.seen = IF p.marked THEN s.seen + 1 ELSE s.seen
        /\ Mark(p) = <<p.marked>> /\ Mark(x) = <<x.marked>>
    BY <1>7, <2>1 DEF Adds, Mark
  <2>3. before \o Said(MarkView, "user", t.others) = Append(out, x.marked)
    BY <1>3, <2>1, <2>2
  <2>4. Honored(Append(out, x.marked), Append(meant, p.marked), skip)
    BY <1>2, <2>1, HonoredMore
  <2>5. Total(Append(meant, p.marked)) = IF p.marked THEN Total(meant) + 1 ELSE Total(meant)
    BY <1>2, CountAppended
  <2> QED BY <1>2, <1>4, <2>2, <2>3, <2>4, <2>5 DEF Marking
<1> QED BY <1>5, <1>6, <1>7

LEMMA BlocksHonor ==
    ASSUME NEW W, \A p \in W : IsPart(p), NEW parts \in Seq(W), NEW skip \in Nat,
           NEW before, IsSequence(before), NEW meant, Honored(before, meant, skip),
           NEW b, b = AnthropicAdapter!blocksForParts(parts, skip, Total(meant)), NEW role
    PROVE  Marking(before, meant \o Said(MarkView, role, parts), b, skip)
<1> DEFINE n == Len(parts)
           seen == Total(meant)
           Told1(k) == meant \o Said(MarkView, role, UpTo(parts, k))
<1>1. /\ n \in Nat /\ \A k \in 1 .. n : parts[k] \in W
      /\ IsSequence(parts) /\ IsSequence(meant)
  BY TypedIsSequence DEF Honored
<1>2. seen \in Int
  BY <1>1, CountAppended
<1>3. BlockScans(W, parts, skip, seen) # {}
  BY <1>2, BlocksUnfold DEF IsPart
<1>4. PICK f \in [0 .. n -> BlockStates(W)] :
        /\ f[0] = FirstBlocks(seen) /\ b = f[n]
        /\ \A k \in 1 .. n : f[k] = AnthropicAdapter!Block(f[k - 1], parts[k], skip)
  BY <1>3, Zenon DEF BlockScans
<1>5. /\ UpTo(parts, 0) = <<>> /\ UpTo(parts, n) = parts
      /\ \A k \in 0 .. n - 1 : UpTo(parts, k + 1) = Append(UpTo(parts, k), parts[k + 1])
      /\ \A k \in 0 .. n : IsSequence(UpTo(parts, k))
  BY <1>1, UpToGrows
<1>6. \A r : Said(MarkView, r, <<>>) = <<>>
  <2>1. IsSequence(<<>>) /\ \A r : \A j \in DOMAIN <<>> : View(MarkView, r, <<>>[j]) = <<>>
    BY DEF IsSequence
  <2> QED BY <2>1, SaidNothing
<1>7. before \o <<>> = before /\ meant \o <<>> = meant
  BY <1>1, JoinNothing
<1> HIDE DEF n, seen
<1> DEFINE T == {k \in 0 .. n : Marking(before, Told1(k), f[k], skip)}
<1>8. 0 \in T
  <2>1. f[0].others = <<>> /\ f[0].seen = seen
    BY <1>4 DEF FirstBlocks
  <2>2. Told1(0) = meant
    <3>1. Said(MarkView, role, UpTo(parts, 0)) = <<>>
      BY <1>5, <1>6, Zenon
    <3> QED BY <1>7, <3>1, Zenon
  <2>3. Marking(before, meant, f[0], skip)
    BY <1>6, <1>7, <2>1 DEF Marking, seen
  <2>4. 0 \in 0 .. n
    BY <1>1
  <2> HIDE DEF Told1
  <2> QED BY <2>2, <2>3, <2>4
<1>9. ASSUME NEW k \in 0 .. n - 1, k \in T PROVE k + 1 \in T
  <2>1. k + 1 \in 1 .. n /\ (k + 1) - 1 = k /\ k \in 0 .. n /\ k + 1 \in 0 .. n
    BY <1>1
  <2>2. /\ f[k] \in BlockStates(W) /\ IsPart(parts[k + 1])
        /\ f[k + 1] = AnthropicAdapter!Block(f[k], parts[k + 1], skip)
    BY <1>1, <1>4, <2>1
  <2>3. Adds(f[k + 1], f[k], parts[k + 1], skip)
    BY <2>2, BlockAdds DEF IsPart
  <2>4. IsSequence(f[k].others)
    <3>1. f[k].others \in Seq(BlockSet(W))
      BY <2>2 DEF BlockStates
    <3> QED BY <3>1, TypedIsSequence
  <2>5. Marking(before, Told1(k), f[k], skip)
    BY <1>9
  <2> HIDE DEF T
  <2>6. Told1(k + 1) = Told1(k) \o Mark(parts[k + 1])
    <3> DEFINE u == Said(MarkView, role, UpTo(parts, k))
               x == Mark(parts[k + 1])
    <3>1. IsSequence(UpTo(parts, k)) /\ UpTo(parts, k + 1) = Append(UpTo(parts, k), parts[k + 1])
      BY <1>5, <2>1
    <3>2. Said(MarkView, role, Append(UpTo(parts, k), parts[k + 1])) = u \o x
      <4> DEFINE s == UpTo(parts, k)
                 y == parts[k + 1]
      <4>1. IsSequence(s)
        BY <3>1
      <4> HIDE DEF s, y
      <4> QED BY <4>1, MarksMore, Zenon DEF s, y
    <3>3. IsSequence(u)
      BY <3>1, SaidIsSequence
    <3>4. IsSequence(x)
      <4>1. View(MarkView, role, parts[k + 1]) = x
        BY MarkIsViewed, Zenon
      <4> QED BY <4>1, ViewIsSequence, Zenon
    <3>5. Said(MarkView, role, UpTo(parts, k + 1)) = u \o x
      BY <3>1, <3>2, Zenon
    <3> HIDE DEF u, x
    <3>6. Associate(meant, u, x)
      BY <1>1, <3>3, <3>4, JoinAssociates
    <3> QED BY <3>5, <3>6, Zenon DEF Associate, u, x
  <2>7. Marking(before, Told1(k) \o Mark(parts[k + 1]), f[k + 1], skip)
    <3> HIDE DEF Told1
    <3> QED BY <2>3, <2>4, <2>5, MarkingMore
  <2> QED BY <2>1, <2>6, <2>7 DEF T
<1>10. \A k \in 0 .. n : k \in T
  <2> HIDE DEF T
  <2>1. 0 \in Nat
    OBVIOUS
  <2> QED BY <1>1, <1>8, <1>9, <2>1, StretchInduction
<1>11. n \in T
  BY <1>1, <1>10
<1> QED BY <1>4, <1>5, <1>11

\* The turns so far, against the messages they are made of.
TurnMarks(s, meant, skip) ==
    Honored(All(MarkView, s), meant, skip) /\ s.seen = Total(meant)

LEMMA TakeMarks ==
    ASSUME NEW W, \A p \in W : IsPart(p), NEW s \in TakeStates(W),
           NEW m, m.parts \in Seq(W), NEW skip \in Nat,
           NEW t, t = AnthropicAdapter!Take(s, m, skip),
           NEW meant, TurnMarks(s, meant, skip)
    PROVE  TurnMarks(t, meant \o Said(MarkView, m.role, m.parts), skip)
<1> DEFINE b == AnthropicAdapter!blocksForParts(m.parts, skip, s.seen)
           before == All(MarkView, s)
           others == Said(MarkView, "user", b.others)
           more == meant \o Said(MarkView, m.role, m.parts)
<1>1. s = [out |-> s.out, buf |-> s.buf, seen |-> s.seen, ok |-> s.ok] /\ s.seen \in Int
  BY DEF TakeStates
<1>2. Honored(before, meant, skip) /\ s.seen = Total(meant)
  BY DEF TurnMarks
<1>3. IsSequence(before)
  BY <1>2 DEF Honored
<1>4. b = AnthropicAdapter!blocksForParts(m.parts, skip, Total(meant))
  BY <1>2
<1>5. t.seen = b.seen
  BY <1>1 DEF AnthropicAdapter!Take, AnthropicAdapter!Reply, AnthropicAdapter!Add
<1>6. b = AnthropicAdapter!blocksForParts(m.parts, skip, s.seen)
  OBVIOUS
<1> HIDE DEF b
<1>7. Sorted(b, m.parts, Len(m.parts)) /\ b \in BlockStates(W)
  <2>1. Sorted(b, m.parts, Len(m.parts))
    BY <1>1, <1>6, BlocksAreSorted
  <2>2. b \in BlockStates(W)
    BY <1>1, <1>6, BlocksAre DEF IsPart
  <2> QED BY <2>1, <2>2
<1>8. IsSequence(b.results) /\ IsSequence(b.others)
  <2>1. b.results \in Seq(BlockSet(W)) /\ b.others \in Seq(BlockSet(W))
    BY <1>7 DEF BlockStates
  <2> QED BY <2>1, TypedIsSequence, Zenon
<1>9. Marking(before, more, b, skip)
  <2> HIDE DEF before
  <2> QED BY <1>2, <1>3, <1>4, BlocksHonor
<1>10. BlocksAdd(MarkView, m.role, b) = others
  <2>1. CASE m.role = "assistant"
    <3>1. \A j \in DOMAIN b.others :
             View(MarkView, "assistant", b.others[j]) = View(MarkView, "user", b.others[j])
      BY MarkIsViewed
    <3>2. Said(MarkView, "assistant", b.others) = others
      BY <3>1, SaidAlike
    <3> QED BY <2>1, <3>2 DEF BlocksAdd
  <2>2. CASE m.role # "assistant"
    <3>1. \A j \in DOMAIN b.results : View(MarkView, "user", b.results[j]) = <<>>
      BY <1>7 DEF Sorted, View, MarkView, Mark
    <3>2. Said(MarkView, "user", b.results) = <<>>
      BY <1>8, <3>1, SaidNothing
    <3>3. IsSequence(others)
      BY <1>8, SaidIsSequence
    <3>4. <<>> \o others = others
      BY <3>3, JoinNothing
    <3> QED BY <2>2, <3>2, <3>4, Zenon DEF BlocksAdd
  <2> QED BY <2>1, <2>2
<1>11. All(MarkView, t) = before \o BlocksAdd(MarkView, m.role, b)
  BY <1>6, TakeAdds
<1> QED BY <1>5, <1>9, <1>10, <1>11, Zenon DEF TurnMarks, Marking

\* The messages as far as each.
ToldUpTo(v, msgs, k) == Told(v, UpTo(msgs, k))

LEMMA ToldGrows ==
    ASSUME NEW v, NEW msgs, AreTurns(msgs)
    PROVE  /\ ToldUpTo(v, msgs, 0) = <<>> /\ ToldUpTo(v, msgs, Len(msgs)) = Told(v, msgs)
           /\ \A k \in 0 .. Len(msgs) - 1 :
                 ToldUpTo(v, msgs, k + 1)
                    = ToldUpTo(v, msgs, k) \o Said(v, msgs[k + 1].role, msgs[k + 1].parts)
<1> DEFINE n == Len(msgs)
<1>1. IsSequence(msgs) /\ n \in Nat /\ DOMAIN msgs = 1 .. n
  BY DEF AreTurns, IsSequence
<1>2. /\ UpTo(msgs, 0) = <<>> /\ UpTo(msgs, n) = msgs
      /\ \A k \in 0 .. n - 1 : UpTo(msgs, k + 1) = Append(UpTo(msgs, k), msgs[k + 1])
      /\ \A k \in 0 .. n : IsSequence(UpTo(msgs, k)) /\ Len(UpTo(msgs, k)) = k
  BY <1>1, UpToGrows
<1>3. ToldUpTo(v, msgs, 0) = <<>>
  BY <1>2, ToldNone, Zenon DEF ToldUpTo
<1>4. ToldUpTo(v, msgs, n) = Told(v, msgs)
  BY <1>2, Zenon DEF ToldUpTo
<1>5. ASSUME NEW k \in 0 .. n - 1
      PROVE  ToldUpTo(v, msgs, k + 1)
                = ToldUpTo(v, msgs, k) \o Said(v, msgs[k + 1].role, msgs[k + 1].parts)
  <2> DEFINE s == UpTo(msgs, k)
             m == msgs[k + 1]
  <2>1. k \in 0 .. n /\ k + 1 \in DOMAIN msgs /\ k + 1 \in 1 .. n
    BY <1>1
  <2>2. IsSequence(s) /\ DOMAIN s = 1 .. k /\ \A i \in 1 .. k : s[i] = msgs[i] /\ i \in DOMAIN msgs
    <3>1. IsSequence(s) /\ Len(s) = k
      BY <1>2, <2>1
    <3>2. DOMAIN s = 1 .. k /\ \A i \in 1 .. k : s[i] = msgs[i]
      BY DEF UpTo
    <3> QED BY <1>1, <2>1, <3>1, <3>2
  <2>3. AreTurns(s)
    BY <2>2 DEF AreTurns
  <2>4. IsSequence(m.parts)
    BY <2>1 DEF AreTurns
  <2>5. UpTo(msgs, k + 1) = Append(s, m)
    BY <1>2
  <2> HIDE DEF s, m
  <2>6. Told(v, Append(s, m)) = Told(v, s) \o Said(v, m.role, m.parts)
    BY <2>3, <2>4, ToldMore, Zenon
  <2> QED BY <2>5, <2>6, Zenon DEF ToldUpTo, s, m
<1> QED BY <1>3, <1>4, <1>5

LEMMA MadeAreTurns == ASSUME NEW W, NEW msgs, MadeOf(msgs, W) PROVE AreTurns(msgs)
<1>1. \A i \in DOMAIN msgs : msgs[i].parts \in Seq(W)
  BY DEF MadeOf
<1>2. \A i \in DOMAIN msgs : IsSequence(msgs[i].parts)
  BY <1>1, TypedIsSequence
<1> QED BY <1>2 DEF AreTurns, MadeOf

LEMMA TurnsHonor ==
    ASSUME NEW W, NEW msgs, MadeOf(msgs, W), NEW skip \in Nat,
           NEW turns, turns = AnthropicAdapter!Flushed(AnthropicAdapter!Taken(msgs, skip))
    PROVE  Honored(Told(MarkView, turns), Told(MarkView, msgs), skip)
<1> DEFINE n == Len(msgs)
<1>1. /\ n \in Nat /\ DOMAIN msgs = 1 .. n /\ \A p \in W : IsPart(p)
      /\ \A k \in 1 .. n : msgs[k].parts \in Seq(W)
  BY DEF MadeOf, IsSequence
<1>2. TurnScans(W, msgs, skip) # {}
  BY TakenUnfolds DEF IsPart, MadeOf
<1>3. PICK f \in [0 .. n -> TakeStates(W)] :
        /\ f[0] = FirstTurn /\ AnthropicAdapter!Taken(msgs, skip) = f[n]
        /\ \A k \in 1 .. n : f[k] = AnthropicAdapter!Take(f[k - 1], msgs[k], skip)
  BY <1>2, Zenon DEF TurnScans
<1>4. /\ ToldUpTo(MarkView, msgs, 0) = <<>> /\ ToldUpTo(MarkView, msgs, n) = Told(MarkView, msgs)
      /\ \A k \in 0 .. n - 1 :
            ToldUpTo(MarkView, msgs, k + 1)
               = ToldUpTo(MarkView, msgs, k) \o Said(MarkView, msgs[k + 1].role, msgs[k + 1].parts)
  BY MadeAreTurns, ToldGrows
<1> HIDE DEF n
<1> DEFINE T == {k \in 0 .. n : TurnMarks(f[k], ToldUpTo(MarkView, msgs, k), skip)}
<1>5. 0 \in T
  <2>1. f[0].out = <<>> /\ f[0].buf = <<>> /\ f[0].seen = 0
    BY <1>3 DEF FirstTurn
  <2>2. IsSequence(<<>>) /\ \A j \in DOMAIN <<>> : View(MarkView, "user", <<>>[j]) = <<>>
    BY DEF IsSequence
  <2>3. Said(MarkView, "user", <<>>) = <<>> /\ Told(MarkView, <<>>) = <<>> /\ <<>> \o <<>> = <<>>
    BY <2>2, SaidNothing, ToldNone, JoinNothing
  <2>4. All(MarkView, f[0]) = <<>>
    BY <2>1, <2>3, Zenon DEF All
  <2>5. Total(<<>>) = 0
    <3>1. {i \in 1 .. 0 : <<>>[i]} = {} /\ Len(<<>>) = 0
      OBVIOUS
    <3> QED BY <3>1, FS_EmptySet DEF Total, Count
  <2>6. Honored(<<>>, <<>>, skip)
    BY <2>2, <2>5 DEF Honored, Most
  <2>7. 0 \in 0 .. n
    BY <1>1
  <2> QED BY <1>4, <2>1, <2>4, <2>5, <2>6, <2>7 DEF TurnMarks
<1>6. ASSUME NEW k \in 0 .. n - 1, k \in T PROVE k + 1 \in T
  <2>1. k + 1 \in 1 .. n /\ (k + 1) - 1 = k /\ k \in 0 .. n /\ k + 1 \in 0 .. n
    BY <1>1
  <2>2. /\ f[k] \in TakeStates(W) /\ msgs[k + 1].parts \in Seq(W)
        /\ f[k + 1] = AnthropicAdapter!Take(f[k], msgs[k + 1], skip)
        /\ TurnMarks(f[k], ToldUpTo(MarkView, msgs, k), skip)
    BY <1>1, <1>3, <1>6, <2>1
  <2>3. TurnMarks(f[k + 1], ToldUpTo(MarkView, msgs, k)
                               \o Said(MarkView, msgs[k + 1].role, msgs[k + 1].parts), skip)
    BY <1>1, <2>2, TakeMarks
  <2> QED BY <1>4, <2>1, <2>3
<1>7. \A k \in 0 .. n : k \in T
  <2> HIDE DEF T
  <2>1. 0 \in Nat
    OBVIOUS
  <2> QED BY <1>1, <1>5, <1>6, <2>1, StretchInduction
<1>8. n \in T /\ n \in 0 .. n
  BY <1>1, <1>7
<1>9. Told(MarkView, turns) = All(MarkView, f[n])
  <2>1. f[n] \in TakeStates(W)
    BY <1>8
  <2> QED BY <1>3, <2>1, FlushedSays
<1> QED BY <1>4, <1>8, <1>9 DEF TurnMarks

\* The marks of the parts are those that Marked picks,
LEMMA MarkedAreCounted ==
    ASSUME NEW parts, IsSequence(parts), NEW role
    PROVE  /\ IsSequence(AnthropicAdapter!Marked(parts))
           /\ Len(AnthropicAdapter!Marked(parts)) = Total(Said(MarkView, role, parts))
<1> DEFINE n == Len(parts)
           places == {i \in DOMAIN parts : parts[i].kind = "text" /\ parts[i].marked}
           P(k) == Picked(UpTo(parts, k), places)
           S(k) == Said(MarkView, role, UpTo(parts, k))
<1>1. n \in Nat /\ DOMAIN parts = 1 .. n
  BY DEF IsSequence
<1>2. AnthropicAdapter!Marked(parts) = Picked(parts, places)
  BY SamePicking, Zenon DEF AnthropicAdapter!Marked
<1>3. PickGrows(parts, places)
  BY PickedGrows, Zenon
<1>4. /\ UpTo(parts, 0) = <<>> /\ UpTo(parts, n) = parts
      /\ \A k \in 0 .. n - 1 : UpTo(parts, k + 1) = Append(UpTo(parts, k), parts[k + 1])
      /\ \A k \in 0 .. n : IsSequence(UpTo(parts, k))
  BY UpToGrows
<1>5. /\ P(0) = <<>> /\ P(n) = Picked(parts, places) /\ \A k \in 0 .. n : IsSequence(P(k))
      /\ \A k \in 0 .. n - 1 :
            P(k + 1) = IF k + 1 \in places THEN Append(P(k), parts[k + 1]) ELSE P(k)
  BY <1>3, Zenon DEF PickGrows
<1>6. S(0) = <<>> /\ S(n) = Said(MarkView, role, parts) /\ \A k \in 0 .. n : IsSequence(S(k))
  <2>1. IsSequence(<<>>) /\ \A j \in DOMAIN <<>> : View(MarkView, role, <<>>[j]) = <<>>
    BY DEF IsSequence
  <2>2. Said(MarkView, role, <<>>) = <<>>
    BY <2>1, SaidNothing
  <2>3. S(0) = <<>>
    BY <1>4, <2>2, Zenon
  <2>4. S(n) = Said(MarkView, role, parts)
    BY <1>4, Zenon
  <2>5. \A k \in 0 .. n : IsSequence(S(k))
    BY <1>4, SaidIsSequence, Zenon
  <2> QED BY <2>3, <2>4, <2>5, Zenon
<1>7. ASSUME NEW k \in 0 .. n - 1 PROVE S(k + 1) = S(k) \o Mark(parts[k + 1])
  <2> DEFINE s == UpTo(parts, k)
             x == parts[k + 1]
  <2>1. IsSequence(s) /\ UpTo(parts, k + 1) = Append(s, x)
    BY <1>1, <1>4
  <2> HIDE DEF s, x
  <2>2. Said(MarkView, role, Append(s, x)) = Said(MarkView, role, s) \o Mark(x)
    BY <2>1, MarksMore, Zenon
  <2> QED BY <2>1, <2>2, Zenon DEF s, x
<1>8. \A k \in 1 .. n : k \in places <=> (parts[k].kind = "text" /\ parts[k].marked)
  BY <1>1
<1> HIDE DEF n, places, P, S
<1> DEFINE T == {k \in 0 .. n : Len(P(k)) = Total(S(k))}
<1>9. 0 \in T
  <2>1. {i \in 1 .. 0 : <<>>[i]} = {} /\ Len(<<>>) = 0
    OBVIOUS
  <2>2. Total(<<>>) = 0
    BY <2>1, FS_EmptySet DEF Total, Count
  <2> QED BY <1>1, <1>5, <1>6, <2>1, <2>2
<1>10. ASSUME NEW k \in 0 .. n - 1, k \in T PROVE k + 1 \in T
  <2>1. k + 1 \in 1 .. n /\ k \in 0 .. n /\ k + 1 \in 0 .. n
    BY <1>1
  <2>2. IsSequence(P(k)) /\ IsSequence(S(k)) /\ Len(P(k)) = Total(S(k))
    BY <1>5, <1>6, <1>10, <2>1
  <2>3. P(k + 1) = IF k + 1 \in places THEN Append(P(k), parts[k + 1]) ELSE P(k)
    BY <1>5
  <2>4. S(k + 1) = S(k) \o Mark(parts[k + 1])
    BY <1>7
  <2>5. S(k) \o <<>> = S(k) /\ \A x : S(k) \o <<x>> = Append(S(k), x)
    BY <2>2, JoinNothing, AppendJoins
  <2>6. \A x : /\ Total(Append(S(k), x)) = IF x THEN Total(S(k)) + 1 ELSE Total(S(k))
               /\ Len(Append(P(k), x)) = Len(P(k)) + 1
    <3>1. \A x : OneMoreThan(Append(P(k), x), P(k), Len(P(k)), x)
      BY <2>2, AppendTo
    <3> QED BY <2>2, <3>1, CountAppended DEF OneMoreThan
  <2>7. CASE parts[k + 1].kind = "text"
    <3>1. S(k + 1) = Append(S(k), parts[k + 1].marked)
      BY <2>4, <2>5, <2>7 DEF Mark
    <3>2. k + 1 \in places <=> parts[k + 1].marked
      BY <1>8, <2>1, <2>7
    <3> QED BY <2>1, <2>2, <2>3, <2>6, <3>1, <3>2
  <2>8. CASE parts[k + 1].kind # "text"
    <3>1. S(k + 1) = S(k) /\ k + 1 \notin places
      BY <1>8, <2>1, <2>4, <2>5, <2>8 DEF Mark
    <3> QED BY <2>1, <2>2, <2>3, <3>1
  <2> QED BY <2>7, <2>8
<1>11. \A k \in 0 .. n : k \in T
  <2> HIDE DEF T
  <2>1. 0 \in Nat
    OBVIOUS
  <2> QED BY <1>1, <1>9, <1>10, <2>1, StretchInduction
<1>12. n \in T /\ n \in 0 .. n
  BY <1>1, <1>11
<1> QED BY <1>2, <1>5, <1>6, <1>12

LEMMA TotalJoined ==
    ASSUME NEW s, NEW t, IsSequence(s), IsSequence(t)
    PROVE  Total(s \o t) = Total(s) + Total(t)
<1> DEFINE n == Len(t)
           U(k) == UpTo(t, k)
           V(k) == s \o UpTo(t, k)
<1>1. n \in Nat /\ DOMAIN t = 1 .. n
  BY DEF IsSequence
<1>2. /\ U(0) = <<>> /\ U(n) = t
      /\ \A k \in 0 .. n - 1 : U(k + 1) = Append(U(k), t[k + 1])
      /\ \A k \in 0 .. n : IsSequence(U(k))
  BY UpToGrows
<1>3. V(0) = s /\ V(n) = s \o t /\ \A k \in 0 .. n : IsSequence(V(k))
  <2>1. s \o <<>> = s
    BY JoinNothing
  <2>2. V(0) = s /\ V(n) = s \o t
    BY <1>2, <2>1, Zenon
  <2>3. \A k \in 0 .. n : IsSequence(V(k))
    BY <1>2, JoinIsSequence, Zenon
  <2> QED BY <2>2, <2>3
<1>4. ASSUME NEW k \in 0 .. n - 1 PROVE V(k + 1) = Append(V(k), t[k + 1])
  <2> DEFINE u == UpTo(t, k)
             x == t[k + 1]
  <2>1. k \in 0 .. n
    BY <1>1
  <2>2. IsSequence(u) /\ UpTo(t, k + 1) = Append(u, x) /\ IsSequence(s \o u)
    BY <1>2, <1>3, <2>1
  <2> HIDE DEF u, x
  <2>3. IsSequence(<<x>>)
    BY Single
  <2>4. Append(u, x) = u \o <<x>> /\ Append(s \o u, x) = (s \o u) \o <<x>>
    BY <2>2, AppendJoins
  <2>5. Associate(s, u, <<x>>)
    BY <2>2, <2>3, JoinAssociates
  <2> QED BY <2>2, <2>4, <2>5, Zenon DEF Associate, u, x
<1> HIDE DEF n, U, V
<1> DEFINE T == {k \in 0 .. n : Total(V(k)) = Total(s) + Total(U(k))}
<1>5. 0 \in T
  <2>1. {i \in 1 .. 0 : <<>>[i]} = {} /\ Len(<<>>) = 0
    OBVIOUS
  <2>2. Total(<<>>) = 0
    BY <2>1, FS_EmptySet DEF Total, Count
  <2>3. Total(s) \in Nat
    BY CountAppended
  <2> QED BY <1>1, <1>2, <1>3, <2>2, <2>3
<1>6. ASSUME NEW k \in 0 .. n - 1, k \in T PROVE k + 1 \in T
  <2>1. k \in 0 .. n /\ k + 1 \in 0 .. n
    BY <1>1
  <2>2. IsSequence(U(k)) /\ IsSequence(V(k))
    BY <1>2, <1>3, <2>1
  <2>3. /\ Total(U(k + 1)) = IF t[k + 1] THEN Total(U(k)) + 1 ELSE Total(U(k))
        /\ Total(V(k + 1)) = IF t[k + 1] THEN Total(V(k)) + 1 ELSE Total(V(k))
        /\ Total(U(k)) \in Nat /\ Total(V(k)) \in Nat /\ Total(s) \in Nat
    <3>1. U(k + 1) = Append(U(k), t[k + 1]) /\ V(k + 1) = Append(V(k), t[k + 1])
      BY <1>2, <1>4
    <3>2. /\ Total(Append(U(k), t[k + 1])) = IF t[k + 1] THEN Total(U(k)) + 1 ELSE Total(U(k))
          /\ Total(U(k)) \in Nat
      BY <2>2, CountAppended
    <3>3. /\ Total(Append(V(k), t[k + 1])) = IF t[k + 1] THEN Total(V(k)) + 1 ELSE Total(V(k))
          /\ Total(V(k)) \in Nat
      BY <2>2, CountAppended
    <3>4. Total(s) \in Nat
      BY CountAppended
    <3> QED BY <3>1, <3>2, <3>3, <3>4
  <2> QED BY <1>6, <2>1, <2>3
<1>7. \A k \in 0 .. n : k \in T
  <2> HIDE DEF T
  <2>1. 0 \in Nat
    OBVIOUS
  <2> QED BY <1>1, <1>5, <1>6, <2>1, StretchInduction
<1>8. n \in T /\ n \in 0 .. n
  BY <1>1, <1>7
<1> QED BY <1>2, <1>3, <1>8

\* and so are those of the messages.
LEMMA CountMarkedIsTotal ==
    ASSUME NEW msgs, AreTurns(msgs)
    PROVE  AnthropicAdapter!CountMarked(msgs) = Total(Told(MarkView, msgs))
<1> DEFINE n == Len(msgs)
           ss == [i \in DOMAIN msgs |-> AnthropicAdapter!Marked(msgs[i].parts)]
           F(k) == FlattenSeq(UpTo(ss, k))
           G(k) == ToldUpTo(MarkView, msgs, k)
           P(k) == Said(MarkView, msgs[k].role, msgs[k].parts)
<1>1. /\ n \in Nat /\ DOMAIN msgs = 1 .. n /\ IsSequence(msgs)
      /\ \A i \in 1 .. n : IsSequence(msgs[i].parts)
  BY DEF AreTurns, IsSequence
<1>2. AnthropicAdapter!CountMarked(msgs) = Len(FlattenSeq(ss))
  BY Zenon DEF AnthropicAdapter!CountMarked, AnthropicAdapter!FlattenSeq, FlattenSeq
<1>3. ss = [i \in DOMAIN msgs |-> ss[i]]
      /\ \A i \in DOMAIN msgs : ss[i] = AnthropicAdapter!Marked(msgs[i].parts)
  OBVIOUS
<1> HIDE DEF n, ss
<1>4. IsSequence(ss) /\ DOMAIN ss = DOMAIN msgs /\ Len(ss) = n
  BY <1>1, <1>3, MadeIsSequence DEF n
<1>5. \A k \in 1 .. n : IsSequence(ss[k]) /\ IsSequence(P(k)) /\ Len(ss[k]) = Total(P(k))
  <2> SUFFICES ASSUME NEW k \in 1 .. n
               PROVE  IsSequence(ss[k]) /\ IsSequence(P(k)) /\ Len(ss[k]) = Total(P(k))
    OBVIOUS
  <2>1. ss[k] = AnthropicAdapter!Marked(msgs[k].parts) /\ IsSequence(msgs[k].parts)
    BY <1>1, <1>3
  <2>2. IsSequence(P(k))
    BY <2>1, SaidIsSequence
  <2> QED BY <2>1, <2>2, MarkedAreCounted
<1>6. AreSequences(ss)
  BY <1>1, <1>4, <1>5 DEF AreSequences
<1>7. /\ F(0) = <<>> /\ F(n) = FlattenSeq(ss) /\ \A k \in 0 .. n : IsSequence(F(k))
      /\ \A k \in 0 .. n - 1 : F(k + 1) = F(k) \o ss[k + 1]
  <2>1. Grows(ss)
    BY <1>6, FlattenGrows
  <2> QED BY <1>4, <2>1 DEF Grows
<1>8. /\ G(0) = <<>> /\ G(n) = Told(MarkView, msgs)
      /\ \A k \in 0 .. n - 1 : G(k + 1) = G(k) \o P(k + 1)
  BY ToldGrows DEF n
<1> HIDE DEF F, G, P
<1> DEFINE T == {k \in 0 .. n : IsSequence(G(k)) /\ Len(F(k)) = Total(G(k))}
<1>9. 0 \in T
  <2>1. {i \in 1 .. 0 : <<>>[i]} = {} /\ Len(<<>>) = 0 /\ IsSequence(<<>>)
    BY DEF IsSequence
  <2>2. Total(<<>>) = 0
    BY <2>1, FS_EmptySet DEF Total, Count
  <2> QED BY <1>1, <1>7, <1>8, <2>1, <2>2
<1>10. ASSUME NEW k \in 0 .. n - 1, k \in T PROVE k + 1 \in T
  <2>1. k \in 0 .. n /\ k + 1 \in 0 .. n /\ k + 1 \in 1 .. n
    BY <1>1
  <2>2. /\ IsSequence(F(k)) /\ IsSequence(G(k)) /\ IsSequence(ss[k + 1]) /\ IsSequence(P(k + 1))
        /\ Len(F(k)) = Total(G(k)) /\ Len(ss[k + 1]) = Total(P(k + 1))
    BY <1>5, <1>7, <1>10, <2>1
  <2>3. Total(G(k) \o P(k + 1)) = Total(G(k)) + Total(P(k + 1)) /\ IsSequence(G(k) \o P(k + 1))
    BY <2>2, TotalJoined, JoinIsSequence
  <2>4. Len(F(k) \o ss[k + 1]) = Len(F(k)) + Len(ss[k + 1])
    <3>1. EndToEnd(F(k) \o ss[k + 1], F(k), Len(F(k)), ss[k + 1], Len(ss[k + 1]))
      BY <2>2, JoinElements
    <3> QED BY <3>1 DEF EndToEnd
  <2> QED BY <1>7, <1>8, <2>1, <2>2, <2>3, <2>4
<1>11. \A k \in 0 .. n : k \in T
  <2> HIDE DEF T
  <2>1. 0 \in Nat
    OBVIOUS
  <2> QED BY <1>1, <1>9, <1>10, <2>1, StretchInduction
<1>12. n \in T /\ n \in 0 .. n
  BY <1>1, <1>11
<1> QED BY <1>2, <1>7, <1>8, <1>12

-----------------------------------------------------------------------------
(***************************************************************************)
(* What is sent                                                            *)
(***************************************************************************)

\* A request that Anthropic is sent is what its adapter accepted and made.
LEMMA AnthropicSent ==
    ASSUME ConversationInv, TranscriptInv, Delivered, asked = "anthropic"
    PROVE  /\ wire.turns = AnthropicAdapter!buildMessages(Request).turns
           /\ AnthropicAdapter!buildMessages(Request).ok
           /\ wire.system = AnthropicAdapter!SystemBlock(Request)
<1> DEFINE req == Request
           x == AnthropicAdapter!toParams(req)
<1>1. /\ wire = Sent("anthropic") /\ Sent("anthropic").out = "ok" /\ "anthropic" \in Providers
      /\ settings \in Settings
  BY DeliveredIsLegal DEF ConversationInv
<1>2. MadeFor("anthropic", req, Params("anthropic", req)) /\ MadeFor("anthropic", req, wire)
  BY <1>1, SentMade
<1>3. wire.turns = AnthropicAdapter!buildMessages(req).turns /\ Params("anthropic", req).out = "ok"
  BY <1>2 DEF MadeFor, TurnsFor
<1>4. Params("anthropic", req) = x
  BY DEF Params
<1>5. x.system = AnthropicAdapter!SystemBlock(req)
  BY <1>3, <1>4 DEF AnthropicAdapter!toParams, AnthropicAdapter!Sends, AnthropicAdapter!Stops
<1>6. wire.system = x.system
  <2>1. wire = [Params("anthropic", req) EXCEPT !.body = Merged(@, req.params["anthropic"].set)]
    BY <1>1, <1>3 DEF Sent, Complete, Stops
  <2>2. \E turns, system, tools, choice :
           x = Sends(turns, system, tools, choice, Fields("anthropic", settings.reasoning))
    BY <1>1, <1>3, <1>4, ParamsBody
  <2> HIDE DEF x
  <2> QED BY <1>4, <2>1, <2>2 DEF Sends
<1>7. AnthropicAdapter!buildMessages(req).ok
  <2> DEFINE a == AnthropicAdapter!SystemVerdict(req)
             b == AnthropicAdapter!OkIf(AnthropicAdapter!buildMessages(req).ok)
             t == AnthropicAdapter!SchemaVerdicts(req, AnthropicAdapter!parseToolSchema)
             c == AnthropicAdapter!ChoiceVerdict(req)
  <2>1. AnthropicAdapter!First(<<a, b>> \o t \o <<c>>) = "ok"
    BY <1>3, <1>4 DEF AnthropicAdapter!toParams, AnthropicAdapter!Stops
  <2>2. t = [i \in DOMAIN req.tools |-> t[i]]
    BY DEF AnthropicAdapter!SchemaVerdicts
  <2>3. b = "ok" => AnthropicAdapter!buildMessages(req).ok
    BY DEF AnthropicAdapter!OkIf
  <2>4. IsSequence(req.tools)
    BY <1>1, SettingsAssumption DEF SettingsAssumption, Request
  <2> HIDE DEF a, b, t, c, req
  <2>5. IsSequence(t)
    BY <2>2, <2>4, MadeIsSequence
  <2>6. IsSequence(<<a, b>>) /\ Len(<<a, b>>) = 2 /\ <<a, b>>[2] = b /\ IsSequence(<<c>>)
    <3>1. \A p, q : IsSequence(<<p, q>>) /\ Len(<<p, q>>) = 2 /\ <<p, q>>[2] = q
      BY DEF IsSequence, Range
    <3>2. IsSequence(<<c>>) /\ Len(<<c>>) = 1
      BY Single
    <3> QED BY <3>1, <3>2
  <2>7. First((<<a, b>> \o t) \o <<c>>) = "ok"
    BY <2>1, SameFirst
  <2> DEFINE u == <<a, b>> \o t
             last == <<c>>
             w == u \o last
  <2>8. EndToEnd(u, <<a, b>>, 2, t, Len(t))
    BY <2>5, <2>6, JoinElements
  <2>9. IsSequence(u) /\ Len(u) \in Nat /\ Len(u) = 2 + Len(t) /\ u[2] = b /\ Len(t) \in Nat
    BY <2>5, <2>6, <2>8 DEF EndToEnd, IsSequence
  <2>10. IsSequence(last) /\ First(w) = "ok"
    BY <2>6, <2>7
  <2> HIDE DEF u, last
  <2>11. EndToEnd(w, u, Len(u), last, Len(last))
    BY <2>9, <2>10, JoinElements, Zenon
  <2>12. IsSequence(w) /\ 2 \in DOMAIN w /\ w[2] = b
    <3>1. IsSequence(w) /\ Len(w) = Len(u) + Len(last) /\ \A j \in 1 .. Len(u) : w[j] = u[j]
      BY <2>11 DEF EndToEnd
    <3>2. Len(last) \in Nat /\ DOMAIN w = 1 .. Len(w)
      BY <2>10, <3>1 DEF IsSequence
    <3> QED BY <2>9, <3>1, <3>2
  <2> HIDE DEF w
  <2> QED BY <2>3, <2>10, <2>12, AllAreOk
<1> QED BY <1>3, <1>5, <1>6, <1>7

\* The sequence of marks that the property looks at is a view.
LEMMA MarksAreTold == ASSUME NEW turns PROVE Marks(turns) = Told(MarkView, turns)
<1> DEFINE marks == [i \in DOMAIN turns |->
                        FlattenSeq([j \in DOMAIN turns[i].parts |-> Mark(turns[i].parts[j])])]
           said == [i \in DOMAIN turns |-> Said(MarkView, turns[i].role, turns[i].parts)]
<1>1. Marks(turns) = FlattenSeq(marks)
  BY Zenon DEF Marks
<1>2. Told(MarkView, turns) = FlattenSeq(said)
  BY Zenon DEF Told
<1>3. marks = said
  <2> SUFFICES ASSUME NEW i \in DOMAIN turns
               PROVE  FlattenSeq([j \in DOMAIN turns[i].parts |-> Mark(turns[i].parts[j])])
                         = Said(MarkView, turns[i].role, turns[i].parts)
    OBVIOUS
  <2>1. [j \in DOMAIN turns[i].parts |-> Mark(turns[i].parts[j])]
           = [j \in DOMAIN turns[i].parts |-> View(MarkView, turns[i].role, turns[i].parts[j])]
    BY MarkIsViewed
  <2> QED BY <2>1, Zenon DEF Said
<1> QED BY <1>1, <1>2, <1>3, Zenon

\* Reasoning has no mark: the filter takes none away.
LEMMA MarksStay == Hides("anthropic", MarkView, MarkView)
<1> SUFFICES ASSUME NEW role, NEW x, ~(x.kind = "reasoning" => x.provider = "anthropic")
             PROVE  View(MarkView, role, x) = <<>>
  BY Zenon DEF Hides
<1> QED BY MarkIsViewed DEF Mark

\* There are no fewer marks up to a later place.
LEMMA CountGrows ==
    ASSUME NEW m, NEW i \in Nat, NEW j \in Nat, i <= j PROVE Count(m, i) <= Count(m, j)
<1>1. {k \in 1 .. i : m[k]} \subseteq {k \in 1 .. j : m[k]}
  OBVIOUS
<1>2. IsFiniteSet({k \in 1 .. j : m[k]})
  BY CountIsNumber
<1> QED BY <1>1, <1>2, FS_Subset DEF Count

\* A system prompt that asks for a mark says something.
MarkedPromptsSay ==
    \A s \in Settings :
        (\E i \in DOMAIN s.system : s.system[i].marked)
        => \E i \in DOMAIN s.system : s.system[i].body # Empty

\* The system block is marked if the application asked for it.
LEMMA SystemMarks ==
    ASSUME MarkedPromptsSay, settings \in Settings,
           NEW block, block = AnthropicAdapter!SystemBlock(Request)
    PROVE  Cardinality({i \in DOMAIN block : block[i].marked})
              = IF AnthropicAdapter!MarkedSystem(Request) THEN 1 ELSE 0
<1> DEFINE system == settings.system
           asked1 == AnthropicAdapter!MarkedSystem(Request)
           places == {i \in DOMAIN system : system[i].body # Empty}
           text == Picked(system, places)
           marked == {i \in DOMAIN block : block[i].marked}
<1>1. IsSequence(system)
  BY SettingsAssumption
<1>2. asked1 <=> \E i \in DOMAIN system : system[i].marked
  BY DEF AnthropicAdapter!MarkedSystem, Request
<1>3. AnthropicAdapter!SystemText(Request) = text
  BY SamePicking DEF AnthropicAdapter!SystemText, Request, AnthropicAdapter!Empty, Empty
<1>4. block = IF text = <<>> THEN <<>> ELSE << Text("system", asked1) >>
  BY <1>3, Zenon DEF AnthropicAdapter!SystemBlock, AnthropicAdapter!Text, Text
<1>5. asked1 => text # <<>>
  <2>1. ASSUME asked1 PROVE text # <<>>
    <3>1. PICK i \in DOMAIN system : i \in places
      BY <1>2, <2>1 DEF MarkedPromptsSay
    <3> HIDE DEF places
    <3>2. PICK j \in DOMAIN text : text[j] = system[i]
      BY <1>1, <3>1, PickedAre
    <3> QED BY <3>2
  <2> QED BY <2>1
<1> HIDE DEF asked1, text
<1>6. CASE asked1
  <2>1. DOMAIN block = {1} /\ block[1].marked
    BY <1>4, <1>5, <1>6 DEF Text
  <2>2. marked = {1}
    BY <2>1
  <2>3. Cardinality({1}) = 1
    BY FS_Singleton
  <2> HIDE DEF marked
  <2>4. Cardinality(marked) = 1
    BY <2>2, <2>3
  <2> QED BY <1>6, <2>4 DEF marked, asked1
<1>7. CASE ~asked1
  <2>1. marked = {}
    BY <1>4, <1>7 DEF Text
  <2> HIDE DEF marked
  <2>2. Cardinality(marked) = 0
    BY <2>1, FS_EmptySet
  <2> QED BY <1>7, <2>2 DEF marked, asked1
<1> QED BY <1>6, <1>7 DEF asked1

\* The marks that go out are the last ones, as many as there is room for.
LEMMA MarkersDoFit ==
    ASSUME ConversationInv, TranscriptInv, MarkedPromptsSay, Delivered, asked = "anthropic"
    PROVE  MarkersFit
<1> DEFINE filtered == ReasoningFrom("anthropic", messages)
           skip == AnthropicAdapter!Skip(Request)
           out == Marks(wire.turns)
           meant == Marks(messages)
           one == IF AnthropicAdapter!MarkedSystem(Request) THEN 1 ELSE 0
           honored == {i \in DOMAIN out : out[i]}
           wanted == {i \in DOMAIN meant : meant[i]}
           inSystem == Cardinality({i \in DOMAIN wire.system : wire.system[i].marked})
<1>1. /\ Request.messages = messages /\ AreMessages(messages)
      /\ \A i \in DOMAIN messages : Legal(messages[i])
  BY DeliveredIsLegal
<1>2. AreTurns(messages) /\ settings \in Settings
  BY <1>1, MessagesAreTurns DEF ConversationInv
<1>3. /\ wire.turns = AnthropicAdapter!Flushed(AnthropicAdapter!Taken(filtered, skip))
      /\ wire.system = AnthropicAdapter!SystemBlock(Request)
  BY <1>1, AnthropicSent, SameFilter DEF AnthropicAdapter!buildMessages
<1>4. inSystem = one
  BY <1>2, <1>3, SystemMarks
<1>5. out = Told(MarkView, wire.turns) /\ meant = Told(MarkView, messages)
  BY MarksAreTold
<1>6. AnthropicAdapter!CountMarked(messages) = Total(meant)
  BY <1>2, <1>5, CountMarkedIsTotal
<1>7. IsSequence(meant) /\ Len(meant) \in Nat /\ Total(meant) \in Nat
  <2>1. IsSequence(meant)
    BY <1>2, <1>5, ToldIsSequence
  <2>2. Len(meant) \in Nat
    BY <2>1 DEF IsSequence
  <2> QED BY <2>1, <2>2, CountIsNumber DEF Total
<1>8. skip = Most(Total(meant) - (4 - one), 0)
  BY <1>1, <1>6 DEF AnthropicAdapter!Skip, AnthropicAdapter!MaxMarkers, AnthropicAdapter!Most, Most
<1>9. one \in {0, 1}
  OBVIOUS
<1> HIDE DEF out, meant, one, skip, inSystem
<1>10. skip \in Nat
  BY <1>7, <1>8, <1>9 DEF Most
<1>11. Honored(out, meant, skip)
  <2>1. PICK W : MadeOf(filtered, W)
    BY <1>1, SeenIsMade
  <2>2. Told(MarkView, filtered) = meant
    BY <1>1, <1>5, MarksStay, FilterTells
  <2> QED BY <1>3, <1>5, <1>10, <2>1, <2>2, TurnsHonor
<1>12. /\ DOMAIN out = 1 .. Len(meant) /\ DOMAIN meant = 1 .. Len(meant)
       /\ Len(out) = Len(meant) /\ Total(out) = Most(Total(meant) - skip, 0)
       /\ \A i \in 1 .. Len(meant) : out[i] <=> (meant[i] /\ Count(meant, i - 1) >= skip)
  BY <1>11 DEF Honored, IsSequence
<1>13. Cardinality(honored) = Total(out)
  BY <1>12 DEF Total, Count
<1>14. honored \subseteq wanted
  BY <1>12
<1>15. ASSUME NEW i \in honored, NEW j \in wanted, i < j PROVE j \in honored
  <2>1. i - 1 \in Nat /\ j - 1 \in Nat /\ i - 1 <= j - 1
    BY <1>7, <1>12, <1>15
  <2>2. Count(meant, i - 1) <= Count(meant, j - 1)
    BY <2>1, CountGrows
  <2>3. Count(meant, i - 1) >= skip
    BY <1>12
  <2>4. Count(meant, i - 1) \in Nat /\ Count(meant, j - 1) \in Nat
    BY <2>1, CountIsNumber
  <2> QED BY <1>10, <1>12, <2>2, <2>3, <2>4
<1>16. Cardinality(honored) + inSystem <= 4
  BY <1>4, <1>7, <1>8, <1>9, <1>12, <1>13 DEF Most
<1>17. honored = wanted \/ Cardinality(honored) + inSystem = 4
  <2>1. CASE skip = 0
    <3>1. ASSUME NEW i \in 1 .. Len(meant) PROVE Count(meant, i - 1) >= skip
      <4>1. i - 1 \in Nat
        BY <1>7
      <4>2. Count(meant, i - 1) \in Nat
        BY <4>1, CountIsNumber
      <4> QED BY <2>1, <4>2
    <3> QED BY <1>12, <3>1
  <2>2. CASE skip # 0
    BY <1>4, <1>7, <1>8, <1>9, <1>12, <1>13, <2>2 DEF Most
  <2> QED BY <2>1, <2>2
<1> QED BY <1>14, <1>15, <1>16, <1>17, Zenon DEF MarkersFit, out, meant, inSystem

-----------------------------------------------------------------------------
(***************************************************************************)
(* Results in their place                                                  *)
(***************************************************************************)

\* What is buffered begins with the results of the calls with these ids but
\* those still pending, each once, and has no others.  While calls are pending
\* it has nothing else.
Resolves(ids, buf, pend) ==
    \E r \in 0 .. Len(buf) :
        /\ \A j \in DOMAIN buf : j <= r <=> buf[j].kind = "tool_result"
        /\ \A i, j \in 1 .. r : buf[i].id = buf[j].id => i = j
        /\ {buf[j].id : j \in 1 .. r} = Range(ids) \ pend
        /\ pend \subseteq Range(ids)
        /\ pend # {} => r = Len(buf)

\* After the calls nothing is buffered and all of them are pending.
LEMMA NothingResolved == ASSUME NEW ids PROVE Resolves(ids, <<>>, Range(ids))
<1>1. Len(<<>>) = 0 /\ DOMAIN <<>> = {} /\ 1 .. 0 = {} /\ 0 \in 0 .. 0
  OBVIOUS
<1>2. {<<>>[j].id : j \in 1 .. 0} = Range(ids) \ Range(ids)
  BY <1>1
<1> QED BY <1>1, <1>2 DEF Resolves

\* What is no result may follow when nothing is pending.
LEMMA OthersFollow ==
    ASSUME NEW ids, NEW buf, NEW more, IsSequence(buf), IsSequence(more),
           \A j \in DOMAIN more : more[j].kind # "tool_result",
           Resolves(ids, buf, {})
    PROVE  Resolves(ids, buf \o more, {})
<1> DEFINE n == Len(buf)
           m == Len(more)
           all == buf \o more
<1>1. n \in Nat /\ m \in Nat /\ DOMAIN buf = 1 .. n /\ DOMAIN more = 1 .. m
  BY DEF IsSequence
<1>2. EndToEnd(all, buf, n, more, m)
  BY JoinElements
<1>3. PICK r \in 0 .. n :
        /\ \A j \in DOMAIN buf : j <= r <=> buf[j].kind = "tool_result"
        /\ \A i, j \in 1 .. r : buf[i].id = buf[j].id => i = j
        /\ {buf[j].id : j \in 1 .. r} = Range(ids) \ {}
  BY DEF Resolves
<1> HIDE DEF n, m, all
<1>4. /\ DOMAIN all = 1 .. n + m /\ Len(all) = n + m
      /\ \A j \in 1 .. n : all[j] = buf[j]
      /\ \A j \in 1 .. m : all[n + j] = more[j]
  BY <1>2 DEF EndToEnd, IsSequence
<1>5. \A j \in 1 .. r : all[j] = buf[j]
  BY <1>1, <1>3, <1>4
<1>6. r \in 0 .. Len(all)
  BY <1>1, <1>3, <1>4
<1>7. ASSUME NEW j \in DOMAIN all PROVE j <= r <=> all[j].kind = "tool_result"
  <2>1. CASE j <= n
    BY <1>1, <1>3, <1>4, <2>1
  <2>2. CASE j > n
    <3>1. j - n \in 1 .. m /\ n + (j - n) = j /\ ~(j <= r)
      BY <1>1, <1>3, <1>4, <2>2
    <3>2. all[j] = more[j - n]
      BY <1>4, <3>1
    <3> QED BY <1>1, <3>1, <3>2
  <2> QED BY <1>1, <1>4, <2>1, <2>2
<1>8. {all[j].id : j \in 1 .. r} = {buf[j].id : j \in 1 .. r}
  BY <1>5
<1>9. /\ \A i, j \in 1 .. r : all[i].id = all[j].id => i = j
      /\ {all[j].id : j \in 1 .. r} = Range(ids) \ {}
  BY <1>3, <1>5, <1>8
<1> QED BY <1>6, <1>7, <1>9 DEF Resolves, all

\* Results of pending calls, each once, may follow.
LEMMA ResultsFollow ==
    ASSUME NEW ids, NEW buf, NEW more, NEW pend, IsSequence(buf), IsSequence(more), more # <<>>,
           \A j \in DOMAIN more : more[j].kind = "tool_result",
           NEW given, given = IdsOf(more), IsInjective(given), Range(given) \subseteq pend,
           Resolves(ids, buf, pend)
    PROVE  Resolves(ids, buf \o more, pend \ Range(given))
<1> DEFINE n == Len(buf)
           m == Len(more)
           all == buf \o more
<1>1. n \in Nat /\ m \in Nat /\ DOMAIN buf = 1 .. n /\ DOMAIN more = 1 .. m /\ 1 \in DOMAIN more
  BY EmptySequence DEF IsSequence
<1>2. EndToEnd(all, buf, n, more, m)
  BY JoinElements
<1>3. DOMAIN given = 1 .. m /\ \A j \in 1 .. m : given[j] = more[j].id
  BY <1>1 DEF IdsOf
<1>4. pend # {}
  BY <1>1, <1>3 DEF Range
<1>5. /\ \A j \in DOMAIN buf : j <= n <=> buf[j].kind = "tool_result"
      /\ \A i, j \in 1 .. n : buf[i].id = buf[j].id => i = j
      /\ {buf[j].id : j \in 1 .. n} = Range(ids) \ pend
      /\ pend \subseteq Range(ids)
  BY <1>4 DEF Resolves
<1> HIDE DEF n, m, all
<1>6. /\ DOMAIN all = 1 .. n + m /\ Len(all) = n + m /\ n + m \in 0 .. n + m
      /\ \A j \in 1 .. n : all[j] = buf[j] /\ j \in 1 .. n + m
      /\ \A j \in 1 .. m : all[n + j] = more[j] /\ n + j \in 1 .. n + m
  BY <1>1, <1>2 DEF EndToEnd, IsSequence
<1>7. ASSUME NEW j \in 1 .. n + m
      PROVE  j \in 1 .. n \/ (j \notin 1 .. n /\ j - n \in 1 .. m /\ n + (j - n) = j)
  BY <1>1
<1>8. ASSUME NEW j \in DOMAIN all PROVE j <= n + m <=> all[j].kind = "tool_result"
  <2>1. j <= n + m
    BY <1>1, <1>6
  <2>2. CASE j \in 1 .. n
    BY <1>1, <1>5, <1>6, <2>1, <2>2
  <2>3. CASE j - n \in 1 .. m /\ n + (j - n) = j
    BY <1>1, <1>6, <2>1, <2>3
  <2> QED BY <1>6, <1>7, <2>2, <2>3
<1>9. Range(given) = {more[j].id : j \in 1 .. m}
  BY <1>3 DEF Range
<1>10. ASSUME NEW i \in 1 .. n, NEW j \in 1 .. m PROVE all[i].id # all[n + j].id
  <2>1. buf[i].id \notin pend
    BY <1>5
  <2>2. more[j].id \in pend
    BY <1>9
  <2> QED BY <1>6, <2>1, <2>2
<1>11. ASSUME NEW i \in 1 .. n + m, NEW j \in 1 .. n + m, all[i].id = all[j].id PROVE i = j
  <2>1. CASE i \in 1 .. n /\ j \in 1 .. n
    BY <1>5, <1>6, <1>11, <2>1
  <2>2. CASE i \in 1 .. n /\ j \notin 1 .. n
    BY <1>7, <1>10, <1>11, <2>2
  <2>3. CASE i \notin 1 .. n /\ j \in 1 .. n
    BY <1>7, <1>10, <1>11, <2>3
  <2>4. CASE i \notin 1 .. n /\ j \notin 1 .. n
    <3>1. i - n \in 1 .. m /\ j - n \in 1 .. m /\ n + (i - n) = i /\ n + (j - n) = j
      BY <1>7, <2>4
    <3>2. given[i - n] = all[i].id /\ given[j - n] = all[j].id
      BY <1>3, <1>6, <3>1
    <3>3. i - n = j - n
      BY <1>3, <1>11, <3>1, <3>2 DEF IsInjective
    <3> QED BY <3>1, <3>3
  <2> QED BY <2>1, <2>2, <2>3, <2>4
<1>12. {all[j].id : j \in 1 .. n + m} = {buf[j].id : j \in 1 .. n} \cup Range(given)
  <2>1. ASSUME NEW j \in 1 .. n + m
        PROVE  all[j].id \in {buf[i].id : i \in 1 .. n} \cup Range(given)
    BY <1>6, <1>7, <1>9
  <2>2. {buf[i].id : i \in 1 .. n} \subseteq {all[j].id : j \in 1 .. n + m}
    BY <1>6
  <2>3. Range(given) \subseteq {all[j].id : j \in 1 .. n + m}
    BY <1>6, <1>9
  <2> QED BY <2>1, <2>2, <2>3
<1>13. {all[j].id : j \in 1 .. n + m} = Range(ids) \ (pend \ Range(given))
  BY <1>5, <1>12
<1>14. pend \ Range(given) \subseteq Range(ids)
  BY <1>5
<1> QED BY <1>6, <1>8, <1>11, <1>13, <1>14, Zenon DEF Resolves, all

\* When nothing is pending there are as many results as calls.
ResultsMatch(ids, buf) ==
    /\ Len(ids) <= Len(buf)
    /\ \A j \in DOMAIN buf : j <= Len(ids) <=> buf[j].kind = "tool_result"
    /\ {buf[j].id : j \in DOMAIN ids} = Range(ids)

LEMMA AsManyAsCalls ==
    ASSUME NEW ids, IsSequence(ids), IsInjective(ids), NEW buf, IsSequence(buf),
           Resolves(ids, buf, {})
    PROVE  ResultsMatch(ids, buf)
<1> DEFINE n == Len(ids)
<1>1. n \in Nat /\ DOMAIN ids = 1 .. n /\ Len(buf) \in Nat
  BY DEF IsSequence
<1>2. PICK r \in 0 .. Len(buf) :
        /\ \A j \in DOMAIN buf : j <= r <=> buf[j].kind = "tool_result"
        /\ \A i, j \in 1 .. r : buf[i].id = buf[j].id => i = j
        /\ {buf[j].id : j \in 1 .. r} = Range(ids) \ {}
  BY DEF Resolves
<1> HIDE DEF n
<1> DEFINE R == Range(ids)
           f == [j \in 1 .. r |-> buf[j].id]
           g == [j \in 1 .. n |-> ids[j]]
<1>3. f \in Bijection(1 .. r, R)
  BY <1>2 DEF Bijection, Injection, Surjection, IsInjective
<1>4. g \in Bijection(1 .. n, R)
  BY <1>1 DEF Bijection, Injection, Surjection, IsInjective, Range
<1>5. ExistsBijection(1 .. r, R) /\ ExistsBijection(1 .. n, R)
  BY <1>3, <1>4, Zenon DEF ExistsBijection
<1> HIDE DEF R
<1>6. /\ IsFiniteSet(1 .. r) /\ Cardinality(1 .. r) = r
      /\ IsFiniteSet(1 .. n) /\ Cardinality(1 .. n) = n
  <2>1. ASSUME NEW k \in Nat PROVE IsFiniteSet(1 .. k) /\ Cardinality(1 .. k) = k
    <3>1. 1 \in Int /\ k \in Int /\ (IF 1 > k THEN 0 ELSE k - 1 + 1) = k
      OBVIOUS
    <3>2. IsFiniteSet(1 .. k) /\ Cardinality(1 .. k) = IF 1 > k THEN 0 ELSE k - 1 + 1
      BY <3>1, FS_Interval, Zenon
    <3> QED BY <3>1, <3>2
  <2>2. r \in Nat
    BY <1>1, <1>2
  <2> QED BY <1>1, <2>1, <2>2
<1>7. Cardinality(R) = Cardinality(1 .. r)
  BY <1>5, <1>6, FS_Bijection
<1>8. Cardinality(R) = Cardinality(1 .. n)
  BY <1>5, <1>6, FS_Bijection
<1>9. r = n
  BY <1>6, <1>7, <1>8
<1> QED BY <1>1, <1>2, <1>9 DEF n, ResultsMatch

-----------------------------------------------------------------------------
(***************************************************************************)
(* The blocks of a message                                                 *)
(***************************************************************************)

\* The ids of the calls, of the results.
CallIds(parts) == IdsOf(Only("tool_call", parts))
ResultIds(parts) == IdsOf(Only("tool_result", parts))

NoCalls(blocks) == \A j \in DOMAIN blocks : blocks[j].kind # "tool_call"

\* The blocks of a message that Anthropic may see: of the assistant's the calls,
\* of a tool's the results, of the user's neither.
BlocksFor(b, m) ==
    /\ IsSequence(b.results) /\ IsSequence(b.others)
    /\ \A j \in DOMAIN b.others : b.others[j].kind # "tool_result"
    /\ \A j \in DOMAIN b.results : b.results[j].kind = "tool_result"
    /\ m.role = "assistant" => CallIds(b.others) = CallIds(m.parts)
    /\ m.role = "user" => b.results = <<>> /\ NoCalls(b.others)
    /\ m.role = "tool" => b.others = <<>> /\ IdsOf(b.results) = ResultIds(m.parts)
    /\ m.role # "assistant" /\ m.parts # <<>> => b.results \o b.others # <<>>

\* What the blocks say, of the others and of the results.
SplitSays(b, parts, v, r, role, others, results) ==
    /\ Said(v, r, b.others) = Said(others, role, parts)
    /\ Said(v, r, b.results) = Said(results, role, parts)

LEMMA BlocksSplit ==
    ASSUME NEW W, \A p \in W : IsPart(p), NEW parts \in Seq(W), NEW skip, NEW seen \in Int,
           NEW b, b = AnthropicAdapter!blocksForParts(parts, skip, seen),
           NEW r, NEW role, Side(r) = Side(role),
           NEW v, NEW w, NEW others, NEW results, Splits(v, w, others, results)
    PROVE  SplitSays(b, parts, v, r, role, others, results)
BY BlocksSay DEF SplitSays

LEMMA MessageBlocks ==
    ASSUME NEW W, \A p \in W : IsPart(p), NEW m, AsSeen("anthropic", m), m.parts \in Seq(W),
           NEW skip, NEW seen \in Int,
           NEW b, b = AnthropicAdapter!blocksForParts(m.parts, skip, seen)
    PROVE  BlocksFor(b, m)
<1> DEFINE parts == m.parts
           n == Len(parts)
<1>1. /\ m.role \in Roles /\ IsSequence(parts) /\ n \in Nat /\ DOMAIN parts = 1 .. n
      /\ \A i \in 1 .. n : parts[i].kind \in Allowed(m.role)
  BY DEF AsSeen, IsMessage, IsSequence
<1>2. Sorted(b, parts, n)
  BY BlocksAreSorted
<1>3. b \in BlockStates(W)
  BY BlocksAre DEF IsPart
<1>4. IsSequence(b.results) /\ IsSequence(b.others)
  <2>1. b.results \in Seq(BlockSet(W)) /\ b.others \in Seq(BlockSet(W))
    BY <1>3 DEF BlockStates
  <2> QED BY <2>1, TypedIsSequence, Zenon
<1>5. m.role = "assistant" => CallIds(b.others) = CallIds(parts)
  <2> SUFFICES ASSUME m.role = "assistant" PROVE CallIds(b.others) = CallIds(parts)
    OBVIOUS
  <2> DEFINE v == <<"called", "anthropic">>
  <2>1. Splits(v, v, v, <<"nothing", "anthropic">>) /\ v = IdView("tool_call")
    BY DEF Splits, IdView
  <2> HIDE DEF v, parts
  <2>2. Said(v, "assistant", b.others) = Said(v, "assistant", parts)
    <3> DEFINE w == <<"nothing", "anthropic">>
               r == "assistant"
    <3>1. Splits(v, v, v, w) /\ Side(r) = Side(r) /\ parts \in Seq(W)
          /\ b = AnthropicAdapter!blocksForParts(parts, skip, seen)
      BY <2>1 DEF parts
    <3> HIDE DEF w, r
    <3>2. SplitSays(b, parts, v, r, r, v, w)
      BY <3>1, BlocksSplit
    <3> QED BY <3>2 DEF r, SplitSays
  <2>3. /\ CallIds(b.others) = Said(v, "assistant", b.others)
        /\ CallIds(parts) = Said(v, "assistant", parts)
    BY <1>1, <1>4, <2>1, IdsAreSaid DEF CallIds
  <2> QED BY <2>2, <2>3
<1>6. ASSUME m.role = "user" PROVE b.results = <<>> /\ NoCalls(b.others)
  <2>1. \A i \in 1 .. n : parts[i].kind = "text"
    BY <1>1, <1>6 DEF Allowed
  <2>2. b.results = <<>>
    BY <1>2, <2>1 DEF Sorted
  <2>3. \A j \in DOMAIN b.others : b.others[j].kind = "text"
    BY <1>2, <2>1 DEF Sorted
  <2> QED BY <2>2, <2>3 DEF NoCalls
<1>7. ASSUME m.role = "tool" PROVE b.others = <<>> /\ IdsOf(b.results) = ResultIds(parts)
  <2>1. \A i \in 1 .. n : parts[i].kind = "tool_result"
    BY <1>1, <1>7 DEF Allowed
  <2>2. b.others = <<>>
    BY <1>2, <2>1 DEF Sorted
  <2> DEFINE v == <<"answered", "anthropic">>
             ids == IdsOf(b.results)
  <2>3. Splits(v, v, <<"nothing", "anthropic">>, v) /\ v = IdView("tool_result")
    BY DEF Splits, IdView
  <2>4. \A j \in DOMAIN b.results : View(v, "user", b.results[j]) = << b.results[j].id >>
    BY <1>2 DEF Sorted, View
  <2>5. Side("user") = Side("tool")
    BY DEF Side
  <2>6. ids = [j \in DOMAIN b.results |-> ids[j]] /\ \A j \in DOMAIN b.results : ids[j] = b.results[j].id
    BY DEF IdsOf
  <2> HIDE DEF v, parts, ids
  <2>7. Said(v, "user", b.results) = Said(v, "tool", parts)
    <3> DEFINE w == <<"nothing", "anthropic">>
               r == "user"
               role == "tool"
    <3>1. Splits(v, v, w, v) /\ Side(r) = Side(role) /\ parts \in Seq(W)
          /\ b = AnthropicAdapter!blocksForParts(parts, skip, seen)
      BY <2>3, <2>5 DEF parts
    <3> HIDE DEF w, r, role
    <3>2. SplitSays(b, parts, v, r, role, w, v)
      BY <3>1, BlocksSplit
    <3> QED BY <3>2 DEF r, role, SplitSays
  <2>8. Said(v, "user", b.results) = ids
    <3> DEFINE s == b.results
               r == "user"
    <3>1. IsSequence(s) /\ ids = [j \in DOMAIN s |-> ids[j]]
      BY <1>4, <2>6
    <3>2. \A j \in DOMAIN s : View(v, r, s[j]) = << ids[j] >>
      BY <2>4, <2>6
    <3> HIDE DEF s, r
    <3>3. Said(v, r, s) = ids
      BY <3>1, <3>2, SinglesSay
    <3> QED BY <3>3 DEF s, r
  <2>9. ResultIds(parts) = Said(v, "tool", parts)
    BY <1>1, <2>3, IdsAreSaid DEF ResultIds
  <2> QED BY <2>2, <2>7, <2>8, <2>9 DEF ids
<1>8. ASSUME parts # <<>> PROVE b.results \o b.others # <<>>
  <2>1. JoinOf(b.results \o b.others, b.results, b.others)
    BY <1>4, BothJoin
  <2>2. 1 \in 1 .. n
    BY <1>1, <1>8, EmptySequence
  <2>3. b.results # <<>> \/ b.others # <<>>
    BY <1>2, <2>2 DEF Sorted
  <2> QED BY <2>1, <2>3 DEF JoinOf
<1>9. /\ \A j \in DOMAIN b.others : b.others[j].kind # "tool_result"
      /\ \A j \in DOMAIN b.results : b.results[j].kind = "tool_result"
  BY <1>2 DEF Sorted
<1> QED BY <1>4, <1>5, <1>6, <1>7, <1>8, <1>9 DEF BlocksFor

-----------------------------------------------------------------------------
(***************************************************************************)
(* Turns in order                                                          *)
(***************************************************************************)

\* What may follow a turn: the other side, with the results of its calls.
FollowedBy(turn, role, parts) ==
    /\ turn.role # role
    /\ turn.role = "assistant" => Resolves(CallIds(turn.parts), parts, {})

\* A turn by itself: the user calls nothing, and no id is used twice.
InItself(turn) ==
    /\ turn.role = "user" => NoCalls(turn.parts)
    /\ turn.role = "assistant" => IsInjective(CallIds(turn.parts))

Ordered(turns) ==
    /\ \A i \in DOMAIN turns : InItself(turns[i])
    /\ \A i \in 1 .. Len(turns) - 1 : FollowedBy(turns[i], turns[i + 1].role, turns[i + 1].parts)

LEMMA OrderedMore ==
    ASSUME NEW s, IsSequence(s), Ordered(s), NEW t, InItself(t),
           s # <<>> => FollowedBy(s[Len(s)], t.role, t.parts)
    PROVE  Ordered(Append(s, t))
<1> DEFINE n == Len(s)
           u == Append(s, t)
<1>1. n \in Nat /\ DOMAIN s = 1 .. n /\ (s = <<>> <=> n = 0)
  BY EmptySequence DEF IsSequence
<1>2. /\ DOMAIN u = 1 .. n + 1 /\ Len(u) = n + 1 /\ u[n + 1] = t
      /\ \A j \in 1 .. n : u[j] = s[j]
  BY <1>1, AppendTo DEF OneMoreThan, IsSequence
<1> HIDE DEF n, u
<1>3. ASSUME NEW i \in DOMAIN u PROVE InItself(u[i])
  <2>1. i \in DOMAIN s \/ i = n + 1
    BY <1>1, <1>2
  <2> QED BY <1>1, <1>2, <2>1 DEF Ordered
<1>4. ASSUME NEW i \in 1 .. Len(u) - 1 PROVE FollowedBy(u[i], u[i + 1].role, u[i + 1].parts)
  <2>1. i \in 1 .. n
    BY <1>1, <1>2
  <2>2. CASE i = n
    <3>1. s # <<>> /\ u[i] = s[n] /\ u[i + 1] = t
      BY <1>1, <1>2, <2>1, <2>2
    <3> QED BY <3>1 DEF n
  <2>3. CASE i # n
    <3>1. i \in 1 .. n - 1 /\ i + 1 \in 1 .. n
      BY <1>1, <2>1, <2>3
    <3>2. u[i] = s[i] /\ u[i + 1] = s[i + 1]
      BY <1>2, <2>1, <3>1
    <3> QED BY <3>1, <3>2 DEF Ordered, n
  <2> QED BY <2>2, <2>3
<1> QED BY <1>3, <1>4 DEF Ordered, u

\* The scan of the messages, with the calls that are pending: the turns so far
\* end with the assistant's, and what is buffered resolves its calls but those.
Standing(s, pend) ==
    /\ Ordered(s.out) /\ NoCalls(s.buf)
    /\ s.out # <<>> =>
          /\ s.out[Len(s.out)].role = "assistant"
          /\ Resolves(CallIds(s.out[Len(s.out)].parts), s.buf, pend)

LEMMA FlushedStands ==
    ASSUME NEW W, NEW s \in TakeStates(W), Standing(s, {}),
           NEW turns, turns = AnthropicAdapter!Flushed(s)
    PROVE  /\ IsSequence(turns) /\ Ordered(turns)
           /\ s.buf # <<>> => turns # <<>> /\ turns[Len(turns)].role = "user"
           /\ s.buf = <<>> => turns = s.out
<1> DEFINE t == Turn("user", s.buf)
<1>1. IsSequence(s.out)
  <2>1. s.out \in Seq(TurnSet(W))
    BY DEF TakeStates
  <2> QED BY <2>1, TypedIsSequence
<1>2. t.role = "user" /\ t.parts = s.buf
  BY DEF Turn
<1>3. turns = IF s.buf = <<>> THEN s.out ELSE Append(s.out, t)
  BY DEF AnthropicAdapter!Flushed, AnthropicAdapter!Turn, Turn
<1> HIDE DEF t
<1>4. CASE s.buf = <<>>
  BY <1>1, <1>3, <1>4 DEF Standing
<1>5. CASE s.buf # <<>>
  <2>1. InItself(t)
    BY <1>2 DEF InItself, Standing
  <2>2. s.out # <<>> => FollowedBy(s.out[Len(s.out)], t.role, t.parts)
    BY <1>2 DEF FollowedBy, Standing
  <2>3. Ordered(turns)
    BY <1>1, <1>3, <1>5, <2>1, <2>2, OrderedMore DEF Standing
  <2>4. OneMoreThan(turns, s.out, Len(s.out), t)
    BY <1>1, <1>3, <1>5, AppendTo
  <2>5. turns # <<>> /\ turns[Len(turns)] = t /\ IsSequence(turns)
    BY <1>1, <2>4 DEF OneMoreThan, IsSequence
  <2> QED BY <1>2, <1>5, <2>3, <2>5
<1> QED BY <1>4, <1>5

\* What the validation permits after the calls pending.
Permits(pend, m) ==
    /\ m.role = "assistant" => pend = {} /\ IsInjective(CallIds(m.parts))
    /\ m.role = "user" => pend = {}
    /\ m.role = "tool" => IsInjective(ResultIds(m.parts)) /\ Range(ResultIds(m.parts)) \subseteq pend

\* What is pending after a message.
Left(pend, m) ==
    IF m.role = "assistant" THEN Range(CallIds(m.parts)) ELSE pend \ Range(ResultIds(m.parts))

LEMMA ReplyStands ==
    ASSUME NEW W, NEW s \in TakeStates(W), NEW m, m.role = "assistant",
           NEW b, BlocksFor(b, m), NEW t, t = AnthropicAdapter!Reply(s, m, b),
           NEW pend, Standing(s, pend), Permits(pend, m), s.out # <<>> => s.buf # <<>>
    PROVE  Standing(t, Left(pend, m))
<1> DEFINE turns == AnthropicAdapter!Flushed(s)
           turn == Turn("assistant", b.others)
           ids == CallIds(m.parts)
<1>1. s = [out |-> s.out, buf |-> s.buf, seen |-> s.seen, ok |-> s.ok]
  BY DEF TakeStates
<1>2. t.out = Append(turns, turn) /\ t.buf = <<>>
  BY <1>1 DEF AnthropicAdapter!Reply, AnthropicAdapter!Turn, Turn
<1>3. pend = {} /\ IsInjective(ids) /\ Left(pend, m) = Range(ids) /\ CallIds(b.others) = ids
  BY DEF Permits, Left, BlocksFor
<1>4. /\ IsSequence(turns) /\ Ordered(turns)
      /\ s.buf # <<>> => turns # <<>> /\ turns[Len(turns)].role = "user"
      /\ s.buf = <<>> => turns = s.out
  BY <1>3, FlushedStands
<1>5. turn.role = "assistant" /\ turn.parts = b.others
  BY DEF Turn
<1> HIDE DEF turns, turn, ids
<1>6. InItself(turn)
  BY <1>3, <1>5 DEF InItself
<1>7. turns # <<>> => FollowedBy(turns[Len(turns)], turn.role, turn.parts)
  BY <1>4, <1>5 DEF FollowedBy
<1>8. Ordered(t.out)
  BY <1>2, <1>4, <1>6, <1>7, OrderedMore
<1>9. OneMoreThan(t.out, turns, Len(turns), turn)
  BY <1>2, <1>4, AppendTo
<1>10. t.out[Len(t.out)] = turn
  BY <1>9 DEF OneMoreThan
<1>11. Resolves(ids, t.buf, Range(ids))
  BY <1>2, NothingResolved
<1>12. NoCalls(t.buf)
  BY <1>2 DEF NoCalls
<1> QED BY <1>3, <1>5, <1>8, <1>10, <1>11, <1>12 DEF Standing

LEMMA AddStands ==
    ASSUME NEW W, NEW s \in TakeStates(W), NEW m, m.role \in {"user", "tool"}, m.parts # <<>>,
           NEW b, BlocksFor(b, m), NEW t, t = AnthropicAdapter!Add(s, b),
           NEW pend, Standing(s, pend), Permits(pend, m)
    PROVE  Standing(t, Left(pend, m)) /\ t.buf # <<>>
<1> DEFINE more == IF m.role = "user" THEN b.others ELSE b.results
           left == Left(pend, m)
           given == ResultIds(m.parts)
<1>1. s = [out |-> s.out, buf |-> s.buf, seen |-> s.seen, ok |-> s.ok]
  BY DEF TakeStates
<1>2. t.out = s.out /\ t.buf = s.buf \o b.results \o b.others
  BY <1>1 DEF AnthropicAdapter!Add
<1>3. IsSequence(s.buf) /\ IsSequence(b.results) /\ IsSequence(b.others) /\ IsSequence(more)
  <2>1. s.buf \in Seq(BlockSet(W))
    BY DEF TakeStates
  <2> QED BY <2>1, TypedIsSequence DEF BlocksFor
<1>4. t.buf = s.buf \o more /\ more # <<>>
  <2> DEFINE front == s.buf \o b.results
  <2>1. front = s.buf \o b.results /\ t.buf = front \o b.others
    BY <1>2
  <2>2. IsSequence(front)
    BY <1>3, JoinIsSequence
  <2> HIDE DEF front
  <2>3. b.results \o b.others # <<>>
    BY DEF BlocksFor
  <2>4. CASE m.role = "user"
    <3>1. b.results = <<>> /\ more = b.others
      BY <2>4 DEF BlocksFor
    <3>2. front = s.buf /\ b.results \o b.others = b.others
      BY <1>3, <2>1, <3>1, JoinNothing
    <3> QED BY <2>1, <2>3, <3>1, <3>2
  <2>5. CASE m.role = "tool"
    <3>1. b.others = <<>> /\ more = b.results
      BY <2>5 DEF BlocksFor
    <3>2. t.buf = front /\ b.results \o b.others = b.results
      BY <1>3, <2>1, <2>2, <3>1, JoinNothing
    <3> QED BY <2>1, <2>3, <3>1, <3>2
  <2> QED BY <2>4, <2>5
<1>5. NoCalls(more)
  BY DEF BlocksFor, NoCalls
<1>6. ASSUME NEW ids, Resolves(ids, s.buf, pend) PROVE Resolves(ids, s.buf \o more, left)
  <2>1. CASE m.role = "user"
    <3>1. pend = {} /\ left = {} /\ \A j \in DOMAIN more : more[j].kind # "tool_result"
      BY <2>1 DEF Permits, Left, BlocksFor
    <3> HIDE DEF more, left
    <3>2. Resolves(ids, s.buf, {})
      BY <1>6, <3>1
    <3>3. Resolves(ids, s.buf \o more, {})
      BY <1>3, <3>1, <3>2, OthersFollow
    <3> QED BY <3>1, <3>3
  <2>2. CASE m.role = "tool"
    <3>1. /\ IsInjective(given) /\ Range(given) \subseteq pend /\ left = pend \ Range(given)
          /\ given = IdsOf(more) /\ \A j \in DOMAIN more : more[j].kind = "tool_result"
      BY <2>2 DEF Permits, Left, BlocksFor
    <3> HIDE DEF more, left, given
    <3>2. Resolves(ids, s.buf \o more, pend \ Range(given))
      BY <1>3, <1>4, <1>6, <3>1, ResultsFollow
    <3> QED BY <3>1, <3>2
  <2> QED BY <2>1, <2>2
<1> HIDE DEF more, left
<1>7. JoinOf(t.buf, s.buf, more)
  BY <1>3, <1>4, BothJoin
<1>8. NoCalls(t.buf) /\ t.buf # <<>>
  BY <1>4, <1>5, <1>7 DEF JoinOf, NoCalls, Standing
<1>9. Standing(t, left)
  BY <1>2, <1>4, <1>6, <1>8 DEF Standing
<1> QED BY <1>8, <1>9 DEF left

LEMMA TakeStands ==
    ASSUME NEW W, \A p \in W : IsPart(p), NEW s \in TakeStates(W),
           NEW m, AsSeen("anthropic", m), m.parts \in Seq(W),
           m.role # "assistant" => m.parts # <<>>,
           NEW skip, NEW t, t = AnthropicAdapter!Take(s, m, skip),
           NEW pend, Standing(s, pend), Permits(pend, m),
           m.role = "assistant" /\ s.out # <<>> => s.buf # <<>>
    PROVE  Standing(t, Left(pend, m)) /\ (m.role # "assistant" => t.buf # <<>>)
<1> DEFINE b == AnthropicAdapter!blocksForParts(m.parts, skip, s.seen)
<1>1. b = AnthropicAdapter!blocksForParts(m.parts, skip, s.seen) /\ s.seen \in Int
  BY DEF TakeStates
<1>2. t = IF m.role = "assistant" THEN AnthropicAdapter!Reply(s, m, b) ELSE AnthropicAdapter!Add(s, b)
  BY DEF AnthropicAdapter!Take
<1> HIDE DEF b
<1>3. BlocksFor(b, m)
  BY <1>1, MessageBlocks
<1>4. CASE m.role = "assistant"
  BY <1>2, <1>3, <1>4, ReplyStands
<1>5. CASE m.role # "assistant"
  <2>1. m.role \in {"user", "tool"} /\ m.parts # <<>>
    BY <1>5 DEF AsSeen, IsMessage, Roles
  <2>2. t = AnthropicAdapter!Add(s, b)
    BY <1>2, <1>5
  <2> QED BY <1>3, <2>1, <2>2, AddStands
<1> QED BY <1>4, <1>5

\* The validation of the messages: what is pending after each.
Paired(pending, msgs) ==
    /\ pending[0] = {}
    /\ \A k \in 1 .. Len(msgs) :
          Permits(pending[k - 1], msgs[k]) /\ pending[k] = Left(pending[k - 1], msgs[k])

\* The assistant speaks once at a time.
Alternates(msgs) ==
    \A k \in 1 .. Len(msgs) - 1 : msgs[k].role # "assistant" \/ msgs[k + 1].role # "assistant"

\* Only the assistant is left without a part: what it has may be hidden.
Speaking(msgs) == \A k \in DOMAIN msgs : msgs[k].role # "assistant" => msgs[k].parts # <<>>

\* The scan stands after all messages, and who is not the assistant is buffered.
Stands(s, pend, msgs, k) ==
    /\ Standing(s, pend)
    /\ k = 0 => s.out = <<>>
    /\ k > 0 /\ msgs[k].role # "assistant" => s.buf # <<>>

LEMMA TurnsStand ==
    ASSUME NEW W, NEW msgs, MadeOf(msgs, W), NEW skip, NEW pending, Paired(pending, msgs),
           Alternates(msgs), Speaking(msgs), NEW end, end = AnthropicAdapter!Taken(msgs, skip)
    PROVE  end \in TakeStates(W) /\ Stands(end, pending[Len(msgs)], msgs, Len(msgs))
<1> DEFINE n == Len(msgs)
<1>1. /\ n \in Nat /\ DOMAIN msgs = 1 .. n /\ \A p \in W : IsPart(p)
      /\ \A k \in 1 .. n : msgs[k].parts \in Seq(W) /\ AsSeen("anthropic", msgs[k])
  BY DEF MadeOf, IsSequence
<1>2. TurnScans(W, msgs, skip) # {}
  BY TakenUnfolds DEF IsPart, MadeOf
<1>3. PICK f \in [0 .. n -> TakeStates(W)] :
        /\ f[0] = FirstTurn /\ AnthropicAdapter!Taken(msgs, skip) = f[n]
        /\ \A k \in 1 .. n : f[k] = AnthropicAdapter!Take(f[k - 1], msgs[k], skip)
  BY <1>2, Zenon DEF TurnScans
<1>4. /\ pending[0] = {}
      /\ \A k \in 1 .. n :
            Permits(pending[k - 1], msgs[k]) /\ pending[k] = Left(pending[k - 1], msgs[k])
      /\ \A k \in 1 .. n - 1 : msgs[k].role # "assistant" \/ msgs[k + 1].role # "assistant"
      /\ \A k \in 1 .. n : msgs[k].role # "assistant" => msgs[k].parts # <<>>
  BY <1>1 DEF Paired, Alternates, Speaking
<1> HIDE DEF n
<1> DEFINE T == {k \in 0 .. n : Stands(f[k], pending[k], msgs, k)}
<1>5. 0 \in T
  <2>1. f[0].out = <<>> /\ f[0].buf = <<>>
    BY <1>3 DEF FirstTurn
  <2>2. Ordered(<<>>) /\ NoCalls(<<>>)
    BY DEF Ordered, NoCalls
  <2>3. 0 \in 0 .. n /\ ~(0 > 0)
    BY <1>1
  <2> QED BY <2>1, <2>2, <2>3 DEF Stands, Standing
<1>6. ASSUME NEW k \in 0 .. n - 1, k \in T PROVE k + 1 \in T
  <2> DEFINE m == msgs[k + 1]
             s == f[k]
             t == f[k + 1]
             pend == pending[k]
  <2>1. /\ k + 1 \in 1 .. n /\ (k + 1) - 1 = k /\ k \in 0 .. n /\ k + 1 \in 0 .. n
        /\ k + 1 > 0 /\ k + 1 # 0
        /\ k = 0 \/ k \in 1 .. n - 1
    BY <1>1
  <2>2. s \in TakeStates(W) /\ m.parts \in Seq(W) /\ AsSeen("anthropic", m)
    BY <1>1, <1>3, <2>1
  <2>3. t = AnthropicAdapter!Take(s, m, skip)
    BY <1>3, <2>1
  <2>4. Permits(pend, m) /\ pending[k + 1] = Left(pend, m) /\ (m.role # "assistant" => m.parts # <<>>)
    BY <1>4, <2>1
  <2>5. Standing(s, pend)
    BY <1>6 DEF Stands
  <2>6. m.role = "assistant" /\ s.out # <<>> => s.buf # <<>>
    BY <1>4, <1>6, <2>1 DEF Stands
  <2> HIDE DEF m, s, t, pend
  <2>7. Standing(t, Left(pend, m)) /\ (m.role # "assistant" => t.buf # <<>>)
    BY <1>1, <2>2, <2>3, <2>4, <2>5, <2>6, TakeStands
  <2>8. Stands(f[k + 1], pending[k + 1], msgs, k + 1)
    <3>1. k + 1 # 0
      BY <1>1
    <3> QED BY <2>4, <2>7, <3>1 DEF Stands, m, t
  <2> QED BY <2>1, <2>8
<1>7. \A k \in 0 .. n : k \in T
  <2> HIDE DEF T
  <2>1. 0 \in Nat
    OBVIOUS
  <2> QED BY <1>1, <1>5, <1>6, <2>1, StretchInduction
<1>8. n \in T /\ n \in 0 .. n
  BY <1>1, <1>7
<1> QED BY <1>3, <1>8 DEF n

-----------------------------------------------------------------------------
(***************************************************************************)
(* What the validation says of the messages that are seen                  *)
(***************************************************************************)

\* The filter takes no call and no result away.
LEMMA IdsStay ==
    ASSUME NEW m, Legal(m), NEW t, t = SeenOf("anthropic", m)
    PROVE  CallIds(t.parts) = CallIds(m.parts) /\ ResultIds(t.parts) = ResultIds(m.parts)
<1>1. ASSUME NEW kind \in {"tool_call", "tool_result"}
      PROVE  IdsOf(Only(kind, t.parts)) = IdsOf(Only(kind, m.parts))
  <2> DEFINE v == IdView(kind)
  <2>1. Hides("anthropic", v, v)
    BY DEF Hides, View, IdView
  <2>2. IsSequence(t.parts) /\ IsSequence(m.parts)
    BY FilterKeepsLegal DEF AsSeen, Legal, IsMessage
  <2> HIDE DEF v
  <2>3. Said(v, m.role, t.parts) = Said(v, m.role, m.parts)
    BY <2>1, FilterSays
  <2>4. /\ IdsOf(Only(kind, t.parts)) = Said(v, m.role, t.parts)
        /\ IdsOf(Only(kind, m.parts)) = Said(v, m.role, m.parts)
    BY <2>2, IdsAreSaid DEF v
  <2> QED BY <2>3, <2>4
<1> QED BY <1>1 DEF CallIds, ResultIds

LEMMA SeenArePaired ==
    ASSUME NEW all, AreMessages(all), \A i \in DOMAIN all : Legal(all[i]),
           ValidateMessages(Outlines(all)),
           NEW msgs, msgs = ReasoningFrom("anthropic", all)
    PROVE  /\ \E pending : Paired(pending, msgs) /\ pending[Len(msgs)] = {}
           /\ Speaking(msgs) /\ Len(msgs) = Len(all)
           /\ \A i \in DOMAIN all : i \in DOMAIN msgs /\ msgs[i].role = all[i].role
<1> DEFINE o == Outlines(all)
           n == Len(all)
           pending == Pending(o)
<1>1. IsSequence(all) /\ n \in Nat /\ DOMAIN all = 1 .. n
  BY DEF AreMessages, IsSequence
<1>2. o = [i \in DOMAIN all |-> o[i]] /\ \A i \in DOMAIN all : o[i] = Outline(all[i])
  BY DEF Outlines
<1>3. /\ pending = Pending(o)
      /\ \A k \in DOMAIN o : Pairs(pending[k - 1], o[k])
      /\ pending[Len(o)] = {}
  BY DEF ValidateMessages
<1>4. \A i \in DOMAIN all :
         /\ Outline(all[i]).role = all[i].role
         /\ Outline(all[i]).calls = CallIds(all[i].parts)
         /\ Outline(all[i]).results = ResultIds(all[i].parts)
  BY DEF Outline, Message, CallIds, ResultIds
<1> HIDE DEF o, pending
<1>5. IsSequence(o) /\ DOMAIN o = 1 .. n /\ Len(o) = n
  BY <1>1, <1>2, MadeIsSequence
<1>6. PendingRuns(pending, o)
  BY <1>3, <1>5, PendingIsRun
<1>7. SeenIn("anthropic", msgs, all)
  BY FilteredAreLegal
<1>8. /\ IsSequence(msgs) /\ Len(msgs) = n /\ DOMAIN msgs = DOMAIN all
      /\ \A i \in DOMAIN all : msgs[i] = SeenOf("anthropic", all[i]) /\ msgs[i].role = all[i].role
  BY <1>1, <1>7 DEF SeenIn, AreMessages, IsSequence
<1>9. ASSUME NEW k \in 1 .. n
      PROVE  Permits(pending[k - 1], msgs[k]) /\ pending[k] = Left(pending[k - 1], msgs[k])
  <2>1. /\ msgs[k].role = all[k].role /\ all[k].role \in Roles
        /\ CallIds(msgs[k].parts) = CallIds(all[k].parts)
        /\ ResultIds(msgs[k].parts) = ResultIds(all[k].parts)
    BY <1>1, <1>8, IdsStay DEF Legal, IsMessage
  <2>2. /\ o[k].role = all[k].role /\ o[k].calls = CallIds(all[k].parts)
        /\ o[k].results = ResultIds(all[k].parts)
    BY <1>1, <1>2, <1>4
  <2>3. Pairs(pending[k - 1], o[k]) /\ pending[k] = PendingAfter(pending[k - 1], o[k])
    BY <1>3, <1>5, <1>6 DEF PendingRuns
  <2>4. Permits(pending[k - 1], msgs[k])
    BY <2>1, <2>2, <2>3 DEF Pairs, Permits, Roles
  <2>5. pending[k] = Left(pending[k - 1], msgs[k])
    BY <2>1, <2>2, <2>3 DEF PendingAfter, Left
  <2> QED BY <2>4, <2>5
<1>10. Paired(pending, msgs) /\ pending[Len(msgs)] = {}
  BY <1>3, <1>5, <1>6, <1>8, <1>9 DEF Paired, PendingRuns
<1>11. Speaking(msgs)
  <2> SUFFICES ASSUME NEW i \in DOMAIN all PROVE msgs[i].parts # <<>>
    BY <1>8 DEF Speaking
  <2>1. IsSequence(all[i].parts) /\ \E j \in DOMAIN all[i].parts : all[i].parts[j].kind # "reasoning"
    BY DEF Legal, IsMessage
  <2> DEFINE parts == all[i].parts
             places == SeenBy("anthropic", parts)
             kept == Picked(parts, places)
  <2>2. msgs[i].parts = kept
    <3>1. SeenOf("anthropic", all[i]).parts = kept
      BY DEF SeenOf, Turn
    <3>2. msgs[i] = SeenOf("anthropic", all[i])
      BY <1>8
    <3> HIDE DEF kept
    <3> QED BY <3>1, <3>2
  <2>3. PICK j \in DOMAIN parts : j \in places
    BY <2>1 DEF SeenBy
  <2> HIDE DEF parts, places, kept
  <2>4. \E k \in DOMAIN kept : kept[k] = parts[j]
    BY <2>1, <2>3, PickedAre DEF kept, parts
  <2> QED BY <2>2, <2>4
<1> QED BY <1>8, <1>10, <1>11

-----------------------------------------------------------------------------
(***************************************************************************)
(* The conversation                                                        *)
(***************************************************************************)

\* No conversation begins with two messages of the assistant's in a row: the
\* adapter merges only messages of the user's side.
StartsInTurn == \A s \in Settings : Alternates(s.start)

\* The assistant speaks once at a time, and not last in what is sent.
InTurn ==
    /\ Alternates(messages)
    /\ asked # Nobody => messages[Len(messages)].role # "assistant"

LEMMA AlternatesMore ==
    ASSUME NEW msgs, IsSequence(msgs), Alternates(msgs), NEW m,
           m.role # "assistant" \/ msgs[Len(msgs)].role # "assistant"
    PROVE  Alternates(Append(msgs, m))
<1> DEFINE n == Len(msgs)
           more == Append(msgs, m)
<1>1. n \in Nat
  BY DEF IsSequence
<1>2. Len(more) = n + 1 /\ more[n + 1] = m /\ \A j \in 1 .. n : more[j] = msgs[j]
  BY <1>1, AppendTo DEF OneMoreThan, IsSequence
<1>3. \A k \in 1 .. n - 1 : msgs[k].role # "assistant" \/ msgs[k + 1].role # "assistant"
  BY DEF Alternates
<1>4. m.role # "assistant" \/ msgs[n].role # "assistant"
  OBVIOUS
<1> HIDE DEF n, more
<1> SUFFICES ASSUME NEW k \in 1 .. n
             PROVE  more[k].role # "assistant" \/ more[k + 1].role # "assistant"
  BY <1>1, <1>2 DEF Alternates, more
<1>5. CASE k = n
  BY <1>2, <1>4, <1>5
<1>6. CASE k # n
  <2>1. k \in 1 .. n - 1 /\ k + 1 \in 1 .. n
    BY <1>1, <1>6
  <2> QED BY <1>2, <1>3, <2>1
<1> QED BY <1>5, <1>6

LEMMA InTurnInit == ASSUME StartsInTurn, Init PROVE InTurn
BY DEF StartsInTurn, Init, InTurn

\* Answers come when the assistant did not speak last, and what is said is never
\* the assistant's.
LEMMA InTurnStep ==
    ASSUME TranscriptInv, InTurn, [Next]_vars PROVE InTurn'
<1>1. IsSequence(messages) /\ Alternates(messages)
  BY DEF TranscriptInv, AreMessages, InTurn
<1>2. ASSUME NEW p \in Providers, Ask(p) PROVE InTurn'
  <2>1. messages' = messages /\ messages[Len(messages)].role # "assistant"
    BY <1>2 DEF Ask, Last
  <2> QED BY <1>1, <2>1 DEF InTurn
<1>3. CASE Fail
  BY <1>1, <1>3 DEF Fail, InTurn
<1>4. ASSUME NEW reply \in Replies, Answer(reply) PROVE InTurn'
  <2> DEFINE m == Reply(asked, Blocks(asked, reply))
  <2>1. messages' = Append(messages, m) /\ asked' = Nobody
    BY <1>4 DEF Answer
  <2>2. messages[Len(messages)].role # "assistant"
    BY <1>4 DEF Answer, InTurn
  <2> HIDE DEF m
  <2>3. Alternates(messages')
    BY <1>1, <2>1, <2>2, AlternatesMore
  <2> QED BY <2>1, <2>3 DEF InTurn
<1>5. ASSUME NEW m, m.role # "assistant", Say(m) PROVE InTurn'
  <2>1. messages' = Append(messages, m) /\ asked' = Nobody
    BY <1>5 DEF Say
  <2>2. Alternates(messages')
    BY <1>1, <1>5, <2>1, AlternatesMore
  <2> QED BY <2>1, <2>2 DEF InTurn
<1>6. ASSUME NEW n \in 1 .. Len(OpenCalls), RunTools(n) PROVE InTurn'
  <2>1. PICK isError \in [1 .. n -> BOOLEAN] :
            Say(Turn("tool", [i \in 1 .. n |-> ToolResult(OpenCalls[i].id, isError[i])]))
    BY <1>6, Zenon DEF RunTools
  <2> DEFINE m == Turn("tool", [i \in 1 .. n |-> ToolResult(OpenCalls[i].id, isError[i])])
  <2>2. m.role # "assistant"
    BY DEF Turn
  <2> HIDE DEF m
  <2> QED BY <1>5, <2>1, <2>2 DEF m
<1>7. ASSUME NEW parts \in Questions, Speak(parts) PROVE InTurn'
  <2>1. Say(Turn("user", parts)) /\ Turn("user", parts).role # "assistant"
    BY <1>7 DEF Speak, Turn
  <2> QED BY <1>5, <2>1
<1>8. CASE UNCHANGED vars
  BY <1>8 DEF vars, InTurn
<1> QED BY <1>2, <1>3, <1>4, <1>6, <1>7, <1>8 DEF Next

\* What is sent to Anthropic: turns in order, the user's first and last.
LEMMA TurnsAreOrdered ==
    ASSUME ConversationInv, TranscriptInv, InTurn, Delivered, asked = "anthropic"
    PROVE  /\ IsSequence(wire.turns) /\ Ordered(wire.turns)
           /\ \A i \in DOMAIN wire.turns : /\ wire.turns[i].role \in {"user", "assistant"}
                                           /\ IsSequence(wire.turns[i].parts)
           /\ wire.turns[1].role = "user" /\ wire.turns[Len(wire.turns)].role = "user"
<1> DEFINE msgs == ReasoningFrom("anthropic", messages)
           skip == AnthropicAdapter!Skip(Request)
           end == AnthropicAdapter!Taken(msgs, skip)
           turns == AnthropicAdapter!Flushed(end)
           n == Len(messages)
<1>1. /\ Request.messages = messages /\ AreMessages(messages)
      /\ \A i \in DOMAIN messages : Legal(messages[i])
  BY DeliveredIsLegal
<1>2. ValidateMessages(Outlines(messages)) /\ asked # Nobody
  BY <1>1 DEF Delivered, ValidRequest, Sending
<1>3. n \in Nat /\ DOMAIN messages = 1 .. n /\ n > 0 /\ n \in DOMAIN messages
  <2>1. n \in Nat /\ DOMAIN messages = 1 .. n
    BY <1>1 DEF AreMessages, IsSequence
  <2>2. Outlines(messages) # <<>> /\ Outlines(messages) = [i \in 1 .. n |-> Outline(messages[i])]
    BY <1>2, <2>1 DEF ValidateMessages, Outlines
  <2>3. n # 0
    <3>1. CASE n = 0
      <4>1. 1 .. n = {}
        BY <3>1
      <4>2. Outlines(messages) = <<>>
        BY <2>2, <4>1
      <4> QED BY <2>2, <4>2
    <3> QED BY <3>1
  <2> QED BY <2>1, <2>3
<1>4. wire.turns = turns
  BY <1>1, AnthropicSent, SameFilter DEF AnthropicAdapter!buildMessages
<1>5. turns # <<>> /\ Head(turns).role = "user"
  BY <1>1, AnthropicSent, SameFilter DEF AnthropicAdapter!buildMessages
<1>6. end = AnthropicAdapter!Taken(msgs, skip) /\ turns = AnthropicAdapter!Flushed(end)
      /\ msgs = ReasoningFrom("anthropic", messages)
  OBVIOUS
<1> HIDE DEF msgs, skip, end, turns, n
<1>7. PICK W : MadeOf(msgs, W)
  BY <1>1, SeenIsMade DEF msgs
<1>8. /\ Speaking(msgs) /\ Len(msgs) = n
      /\ \A i \in DOMAIN messages : i \in DOMAIN msgs /\ msgs[i].role = messages[i].role
  BY <1>1, <1>2, <1>6, SeenArePaired DEF n
<1>9. PICK pending : Paired(pending, msgs) /\ pending[Len(msgs)] = {}
  BY <1>1, <1>2, <1>6, SeenArePaired
<1>10. Alternates(msgs)
  <2> SUFFICES ASSUME NEW k \in 1 .. n - 1
               PROVE  msgs[k].role # "assistant" \/ msgs[k + 1].role # "assistant"
    BY <1>8 DEF Alternates
  <2>1. k \in DOMAIN messages /\ k + 1 \in DOMAIN messages
    BY <1>3
  <2> QED BY <1>8, <2>1 DEF InTurn, Alternates, n
<1>11. end \in TakeStates(W) /\ Stands(end, pending[Len(msgs)], msgs, Len(msgs))
  BY <1>6, <1>7, <1>9, <1>10, <1>8, TurnsStand
<1>12. Standing(end, {}) /\ end.buf # <<>>
  <2>1. msgs[n].role # "assistant"
    BY <1>2, <1>3, <1>8 DEF InTurn, n
  <2> QED BY <1>3, <1>8, <1>9, <1>11, <2>1 DEF Stands
<1>13. IsSequence(turns) /\ Ordered(turns) /\ turns[Len(turns)].role = "user"
  BY <1>6, <1>11, <1>12, FlushedStands
<1>14. turns \in Seq(TurnSet(W))
  BY <1>6, <1>11, FlushedTurns
<1>15. ASSUME NEW i \in DOMAIN turns
       PROVE  turns[i].role \in {"user", "assistant"} /\ IsSequence(turns[i].parts)
  <2>1. turns[i] \in TurnSet(W)
    BY <1>14
  <2> QED BY <2>1, TypedIsSequence DEF TurnSet
<1>16. turns[1].role = "user"
  BY <1>5, <1>13 DEF IsSequence
<1> QED BY <1>4, <1>13, <1>15, <1>16

\* Turns that begin with the user's and take turns.
LEMMA RolesTakeTurns ==
    ASSUME NEW turns, IsSequence(turns), Ordered(turns),
           \A i \in DOMAIN turns : turns[i].role \in {"user", "assistant"},
           turns[1].role = "user"
    PROVE  \A i \in DOMAIN turns : turns[i].role = IF i % 2 = 1 THEN "user" ELSE "assistant"
<1> DEFINE n == Len(turns)
           T == {i \in Nat : turns[i].role = IF i % 2 = 1 THEN "user" ELSE "assistant"}
<1>1. n \in Nat /\ DOMAIN turns = 1 .. n
  BY DEF IsSequence
<1>2. 1 \in T
  OBVIOUS
<1>3. ASSUME NEW i \in 1 .. n - 1, i \in T PROVE i + 1 \in T
  <2>1. i \in 1 .. n /\ i + 1 \in 1 .. n /\ i \in Nat /\ i + 1 \in Nat
    BY <1>1
  <2>2. turns[i].role # turns[i + 1].role
    BY DEF Ordered, FollowedBy
  <2>3. i % 2 = 1 <=> (i + 1) % 2 # 1
    BY <2>1
  <2> QED BY <1>1, <1>3, <2>1, <2>2, <2>3
<1>4. \A i \in 1 .. n : i \in T
  <2> HIDE DEF T
  <2>1. 1 \in Nat
    OBVIOUS
  <2> QED BY <1>1, <1>2, <1>3, <2>1, StretchInduction
<1> QED BY <1>1, <1>4

\* The turn after calls begins with their results.
CallsMatched(turns, i) ==
    LET calls == Only("tool_call", turns[i].parts)
        next == turns[i + 1].parts
    IN  calls # <<>> =>
           /\ i < Len(turns) /\ Len(calls) <= Len(next)
           /\ \A j \in DOMAIN next : j <= Len(calls) <=> next[j].kind = "tool_result"
           /\ {next[j].id : j \in DOMAIN calls} = Range(IdsOf(calls))

LEMMA CallsAreAnswered ==
    ASSUME NEW turns, IsSequence(turns), Ordered(turns),
           \A i \in DOMAIN turns : /\ turns[i].role \in {"user", "assistant"}
                                   /\ IsSequence(turns[i].parts),
           turns[Len(turns)].role = "user", NEW i \in DOMAIN turns
    PROVE  CallsMatched(turns, i)
<1> DEFINE calls == Only("tool_call", turns[i].parts)
           next == turns[i + 1].parts
<1> SUFFICES ASSUME calls # <<>>
             PROVE  /\ i < Len(turns) /\ Len(calls) <= Len(next)
                    /\ \A j \in DOMAIN next : j <= Len(calls) <=> next[j].kind = "tool_result"
                    /\ {next[j].id : j \in DOMAIN calls} = Range(IdsOf(calls))
  BY DEF CallsMatched
<1> DEFINE n == Len(turns)
           ids == IdsOf(calls)
<1>1. n \in Nat /\ DOMAIN turns = 1 .. n
  BY DEF IsSequence
<1>2. IsSequence(calls) /\ HasKind("tool_call", turns[i].parts)
  BY OnlyAre
<1>3. turns[i].role = "assistant"
  <2>1. InItself(turns[i])
    BY DEF Ordered
  <2> QED BY <1>2, <2>1 DEF InItself, NoCalls, HasKind
<1>4. i \in 1 .. n - 1 /\ i + 1 \in DOMAIN turns
  <2>1. i # n
    BY <1>3
  <2> QED BY <1>1, <2>1
<1>5. ids = CallIds(turns[i].parts)
  BY DEF CallIds
<1>6. IsInjective(ids) /\ Resolves(ids, next, {})
  BY <1>3, <1>4, <1>5 DEF Ordered, InItself, FollowedBy
<1>7. IsSequence(ids) /\ DOMAIN ids = DOMAIN calls /\ Len(ids) = Len(calls)
  <2>1. ids = [j \in DOMAIN calls |-> ids[j]]
    BY DEF IdsOf
  <2> HIDE DEF ids
  <2> QED BY <1>2, <2>1, MadeIsSequence
<1>8. IsSequence(next)
  BY <1>4
<1> HIDE DEF ids, next, calls
<1>9. ResultsMatch(ids, next)
  BY <1>6, <1>7, <1>8, AsManyAsCalls
<1>10. i < Len(turns)
  BY <1>1, <1>4
<1> QED BY <1>7, <1>9, <1>10 DEF ids, ResultsMatch

\* Whatever the transcript holds and whoever answered before, Anthropic is sent
\* turns that alternate and begin and end with the user's, each turn with calls
\* followed by their results and then nothing but other parts, and at most four
\* cache markers, the last of those asked for (convert.go, buildMessages and
\* cacheBudget), provided that no conversation begins with two messages of the
\* assistant's in a row and a marked system prompt is not empty: the adapter
\* would send two turns of the assistant's, or keep room for a mark it does not
\* send.
THEOREM AnthropicIsServed ==
    ASSUME StartsInTurn, MarkedPromptsSay PROVE Spec => []AnthropicAccepts
<1>1. ConversationInv /\ TranscriptInv /\ InTurn => AnthropicAccepts
  <2> SUFFICES ASSUME ConversationInv, TranscriptInv, InTurn, Delivered, asked = "anthropic"
               PROVE  /\ \A i \in DOMAIN wire.turns :
                            wire.turns[i].role = IF i % 2 = 1 THEN "user" ELSE "assistant"
                      /\ \A i \in DOMAIN wire.turns : CallsMatched(wire.turns, i)
                      /\ MarkersFit
    BY DEF AnthropicAccepts, CallsMatched
  <2> DEFINE turns == wire.turns
  <2>1. /\ IsSequence(turns) /\ Ordered(turns)
        /\ \A i \in DOMAIN turns : /\ turns[i].role \in {"user", "assistant"}
                                   /\ IsSequence(turns[i].parts)
        /\ turns[1].role = "user" /\ turns[Len(turns)].role = "user"
    BY TurnsAreOrdered
  <2>2. MarkersFit
    BY MarkersDoFit
  <2> HIDE DEF turns
  <2>3. \A i \in DOMAIN turns : turns[i].role = IF i % 2 = 1 THEN "user" ELSE "assistant"
    BY <2>1, RolesTakeTurns
  <2>4. \A i \in DOMAIN turns : CallsMatched(turns, i)
    BY <2>1, CallsAreAnswered
  <2> QED BY <2>2, <2>3, <2>4 DEF turns
<1>2. Init => ConversationInv /\ TranscriptInv /\ InTurn
  BY TranscriptInit, InTurnInit
<1>3. ConversationInv /\ TranscriptInv /\ InTurn /\ [Next]_vars
        => (ConversationInv /\ TranscriptInv /\ InTurn)'
  BY TranscriptStep, InTurnStep
<1> QED BY <1>1, <1>2, <1>3, PTL DEF Spec
===============================================================================
