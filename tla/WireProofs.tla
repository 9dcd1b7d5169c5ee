------------------------------- MODULE WireProofs -------------------------------
(***************************************************************************)
(* Theorems about what Conversation puts on the wire: a provider gets back *)
(* its own reasoning and signatures and none of another's, and everything  *)
(* the transcript says.                                                    *)
(***************************************************************************)
EXTENDS ConversationProofs

-----------------------------------------------------------------------------
(***************************************************************************)
(* Views of a transcript                                                   *)
(***************************************************************************)

\* What p issued of a part: its sealed thinking, its signatures.
Own(p, x) ==
    IF x.kind = "tool_call" THEN IF p = "google" THEN Secret(x) ELSE <<>>
    ELSE IF x.kind = "thinking" THEN IF p = "anthropic" THEN Secret(x) ELSE <<>>
    ELSE IF x.kind = "reasoning" THEN IF p = x.provider THEN Secret(x) ELSE <<>>
    ELSE <<>>

\* What is seen of a part of a message with this role.  A view is a pair: what
\* is looked for, and for which provider.
View(v, role, x) ==
    CASE v[1] = "secret" -> Secret(x)
      [] v[1] = "own" -> Own(v[2], x)
      [] v[1] = "atom" -> Atom(v[2], role, x)
      [] v[1] = "text" -> IF x.kind = "text" THEN Atom(v[2], role, x) ELSE <<>>
      [] v[1] = "rest" -> IF x.kind # "text" THEN Atom(v[2], role, x) ELSE <<>>
      [] v[1] = "call" -> IF x.kind = "tool_call" THEN Atom(v[2], role, x) ELSE <<>>
      [] v[1] = "result" -> IF x.kind = "tool_result" THEN Atom(v[2], role, x) ELSE <<>>
      [] v[1] = "other" -> IF x.kind # "tool_result" THEN Atom(v[2], role, x) ELSE <<>>
      [] v[1] = "called" -> IF x.kind = "tool_call" THEN <<x.id>> ELSE <<>>
      [] v[1] = "answered" -> IF x.kind = "tool_result" THEN <<x.id>> ELSE <<>>
      [] v[1] = "mark" -> Mark(x)
      [] OTHER -> <<>>

Said(v, role, parts) == FlattenSeq([j \in DOMAIN parts |-> View(v, role, parts[j])])
Told(v, turns) == FlattenSeq([i \in DOMAIN turns |-> Said(v, turns[i].role, turns[i].parts)])

\* A view is a sequence.
LEMMA ViewIsSequence == ASSUME NEW v, NEW role, NEW x PROVE IsSequence(View(v, role, x))
<1>1. IsSequence(<<>>)
  BY DEF IsSequence
<1>2. IsSequence(Secret(x))
  BY <1>1, Single, Zenon DEF Secret
<1>3. IsSequence(Own(v[2], x))
  BY <1>1, <1>2, Zenon DEF Own
<1>4. IsSequence(Atom(v[2], role, x))
  BY <1>1, Single, Zenon DEF Atom
<1> DEFINE y == View(v, role, x)
<1>5. \/ y = <<>> \/ y = Secret(x) \/ y = Own(v[2], x) \/ y = Atom(v[2], role, x)
      \/ y = <<x.id>> \/ y = <<x.marked>>
  BY DEF View, Mark
<1> HIDE DEF y
<1>6. IsSequence(<<x.id>>) /\ IsSequence(<<x.marked>>)
  BY Single, Zenon
<1> QED BY <1>1, <1>2, <1>3, <1>4, <1>5, <1>6, Zenon DEF y

\* The view as a function.
Sees(h, v, role, parts) == \A j \in DOMAIN parts : h[parts[j]] = View(v, role, parts[j])

LEMMA SaidIsGathered ==
    ASSUME NEW v, NEW role, NEW parts, IsSequence(parts), NEW h, Sees(h, v, role, parts)
    PROVE  Yields(h, parts) /\ Said(v, role, parts) = Gather(h, parts)
<1>1. ASSUME NEW j \in DOMAIN parts PROVE IsSequence(h[parts[j]])
  <2>1. IsSequence(View(v, role, parts[j]))
    BY ViewIsSequence, Zenon
  <2> QED BY <2>1 DEF Sees
<1>2. Yields(h, parts)
  BY <1>1, Zenon DEF Yields
<1>3. [j \in DOMAIN parts |-> View(v, role, parts[j])] = Each(h, parts)
  BY DEF Each, Sees
<1> QED BY <1>2, <1>3, Zenon DEF Said, Gather

LEMMA SaidIsSequence ==
    ASSUME NEW v, NEW role, NEW parts, IsSequence(parts) PROVE IsSequence(Said(v, role, parts))
<1> DEFINE h == [x \in Range(parts) |-> View(v, role, x)]
<1>1. Sees(h, v, role, parts)
  BY DEF Range, Sees
<1> HIDE DEF h
<1>2. Yields(h, parts) /\ Said(v, role, parts) = Gather(h, parts)
  BY <1>1, SaidIsGathered, Zenon
<1> QED BY <1>2, YieldsSequences, Zenon

LEMMA SaidJoined ==
    ASSUME NEW v, NEW role, NEW s, NEW t, IsSequence(s), IsSequence(t)
    PROVE  Said(v, role, s \o t) = Said(v, role, s) \o Said(v, role, t)
<1> DEFINE u == s \o t
           h == [x \in Range(s) \cup Range(t) \cup Range(u) |-> View(v, role, x)]
<1>1. Sees(h, v, role, s) /\ Sees(h, v, role, t) /\ Sees(h, v, role, u)
  <2> HIDE DEF u
  <2> QED BY DEF Range, Sees
<1>2. IsSequence(u)
  BY JoinIsSequence, Zenon
<1> HIDE DEF h, u
<1>3. /\ Yields(h, s) /\ Said(v, role, s) = Gather(h, s)
      /\ Yields(h, t) /\ Said(v, role, t) = Gather(h, t)
      /\ Said(v, role, u) = Gather(h, u)
  <2>1. Yields(h, s) /\ Said(v, role, s) = Gather(h, s)
    BY <1>1, SaidIsGathered, Zenon
  <2>2. Yields(h, t) /\ Said(v, role, t) = Gather(h, t)
    BY <1>1, SaidIsGathered, Zenon
  <2>3. Said(v, role, u) = Gather(h, u)
    BY <1>1, <1>2, SaidIsGathered, Zenon
  <2> QED BY <2>1, <2>2, <2>3, Zenon
<1>4. Gather(h, u) = Gather(h, s) \o Gather(h, t)
  BY <1>3, GatherJoined, Zenon DEF u
<1> QED BY <1>3, <1>4, Zenon DEF u

\* What v sees at the places that are picked, w sees at all.
LEMMA SaidPicked ==
    ASSUME NEW v, NEW role, NEW parts, IsSequence(parts), NEW places, NEW w,
           \A j \in DOMAIN parts :
              View(w, role, parts[j]) = IF j \in places THEN View(v, role, parts[j]) ELSE <<>>
    PROVE  Said(v, role, Picked(parts, places)) = Said(w, role, parts)
<1> DEFINE s == Picked(parts, places)
           h == [x \in Range(parts) |-> View(v, role, x)]
           g == [x \in Range(parts) |-> View(w, role, x)]
<1>1. Sees(h, v, role, parts) /\ Sees(g, w, role, parts)
  BY DEF Range, Sees
<1>2. PickOf(s, parts, places)
  BY PicksAre, Zenon
<1> HIDE DEF h, g
<1> HIDE DEF s
<1>3. Sees(h, v, role, s)
  <2> SUFFICES ASSUME NEW j \in DOMAIN s PROVE h[s[j]] = View(v, role, s[j])
    BY Zenon DEF Sees
  <2>1. PICK i \in DOMAIN parts : s[j] = parts[i]
    BY <1>2, Zenon DEF PickOf
  <2>2. h[parts[i]] = View(v, role, parts[i])
    BY <1>1, Zenon DEF Sees
  <2> QED BY <2>1, <2>2
<1>4. /\ Yields(h, parts) /\ Said(v, role, s) = Gather(h, s)
      /\ Said(w, role, parts) = Gather(g, parts)
  <2>1. IsSequence(s)
    BY <1>2, Zenon DEF PickOf
  <2>2. Said(v, role, s) = Gather(h, s)
    BY <1>3, <2>1, SaidIsGathered, Zenon
  <2>3. Yields(h, parts)
    BY <1>1, SaidIsGathered, Zenon
  <2>4. Said(w, role, parts) = Gather(g, parts)
    BY <1>1, SaidIsGathered, Zenon
  <2> QED BY <2>2, <2>3, <2>4, Zenon
<1>5. \A j \in DOMAIN parts : g[parts[j]] = IF j \in places THEN h[parts[j]] ELSE <<>>
  BY <1>1 DEF Sees
<1>6. Gather(h, s) = Gather(g, parts)
  <2>1. Gather(h, Picked(parts, places)) = Gather(g, parts)
    BY <1>4, <1>5, GatherPicked
  <2> QED BY <2>1, Zenon DEF s
<1> QED BY <1>4, <1>6, Zenon DEF s

\* Two sequences of parts in which the same is seen.
LEMMA SaidAlike ==
    ASSUME NEW v, NEW role, NEW s, NEW w, NEW job, NEW t, DOMAIN s = DOMAIN t,
           \A j \in DOMAIN s : View(v, role, s[j]) = View(w, job, t[j])
    PROVE  Said(v, role, s) = Said(w, job, t)
<1>1. [j \in DOMAIN s |-> View(v, role, s[j])] = [j \in DOMAIN t |-> View(w, job, t[j])]
  OBVIOUS
<1> QED BY <1>1, Zenon DEF Said

\* Parts in which nothing is seen.
LEMMA SaidNothing ==
    ASSUME NEW v, NEW role, NEW s, IsSequence(s), \A j \in DOMAIN s : View(v, role, s[j]) = <<>>
    PROVE  Said(v, role, s) = <<>>
<1> DEFINE ss == [j \in DOMAIN s |-> View(v, role, s[j])]
<1>1. DOMAIN ss = DOMAIN s /\ \A j \in DOMAIN ss : ss[j] = <<>>
  OBVIOUS
<1>2. ss = [j \in DOMAIN s |-> ss[j]]
  OBVIOUS
<1>3. Said(v, role, s) = FlattenSeq(ss)
  BY DEF Said
<1> HIDE DEF ss
<1>4. IsSequence(ss)
  BY <1>2, MadeIsSequence
<1> QED BY <1>1, <1>3, <1>4, FlattenNothing, Zenon

\* One part.
LEMMA SaidOne ==
    ASSUME NEW v, NEW role, NEW x PROVE Said(v, role, <<x>>) = View(v, role, x)
<1> DEFINE y == View(v, role, x)
           h == [z \in {x} |-> y]
<1>1. h[x] = y /\ IsSequence(y)
  BY ViewIsSequence, Zenon
<1>2. Sees(h, v, role, <<x>>)
  BY <1>1 DEF Sees
<1> HIDE DEF h
<1>3. IsSequence(<<x>>) /\ IsSequence(<<>>)
  BY Single DEF IsSequence
<1>4. Said(v, role, <<x>>) = Gather(h, <<x>>)
  BY <1>2, <1>3, SaidIsGathered, Zenon
<1>5. <<x>> = Append(<<>>, x)
  OBVIOUS
<1>6. Yields(h, <<>>)
  BY <1>3 DEF Yields
<1>7. Gather(h, <<x>>) = <<>> \o y
  BY <1>1, <1>5, <1>6, GatherMore, GatherNone
<1> QED BY <1>1, <1>4, <1>7, JoinNothing

\* Turns have sequences of parts.
AreTurns(turns) == IsSequence(turns) /\ \A i \in DOMAIN turns : IsSequence(turns[i].parts)

\* What is seen of the turns, as a function.
Hears(h, v, turns) == \A i \in DOMAIN turns : h[turns[i]] = Said(v, turns[i].role, turns[i].parts)

LEMMA ToldIsGathered ==
    ASSUME NEW v, NEW turns, NEW h, Hears(h, v, turns) PROVE Told(v, turns) = Gather(h, turns)
<1>1. [i \in DOMAIN turns |-> Said(v, turns[i].role, turns[i].parts)] = Each(h, turns)
  BY DEF Each, Hears
<1> QED BY <1>1, Zenon DEF Told, Gather

LEMMA HearsSequences ==
    ASSUME NEW v, NEW turns, AreTurns(turns), NEW h, Hears(h, v, turns) PROVE Yields(h, turns)
<1>1. ASSUME NEW i \in DOMAIN turns PROVE IsSequence(h[turns[i]])
  <2>1. IsSequence(Said(v, turns[i].role, turns[i].parts))
    BY SaidIsSequence, Zenon DEF AreTurns
  <2> QED BY <2>1 DEF Hears
<1> QED BY <1>1, Zenon DEF Yields, AreTurns

LEMMA ToldIsSequence ==
    ASSUME NEW v, NEW turns, AreTurns(turns) PROVE IsSequence(Told(v, turns))
<1> DEFINE h == [m \in Range(turns) |-> Said(v, m.role, m.parts)]
<1>1. Hears(h, v, turns)
  BY DEF Range, Hears
<1> HIDE DEF h
<1>2. Yields(h, turns) /\ Told(v, turns) = Gather(h, turns)
  BY <1>1, ToldIsGathered, HearsSequences, Zenon
<1> QED BY <1>2, YieldsSequences, Zenon

LEMMA ToldNone == ASSUME NEW v PROVE Told(v, <<>>) = <<>>
<1> DEFINE h == [m \in {} |-> <<>>]
<1>1. Hears(h, v, <<>>)
  BY DEF Hears
<1> HIDE DEF h
<1>2. Told(v, <<>>) = Gather(h, <<>>)
  BY <1>1, ToldIsGathered, Zenon
<1> QED BY <1>2, GatherNone, Zenon

LEMMA ToldMore ==
    ASSUME NEW v, NEW s, AreTurns(s), NEW m, IsSequence(m.parts)
    PROVE  Told(v, Append(s, m)) = Told(v, s) \o Said(v, m.role, m.parts)
<1> DEFINE u == Append(s, m)
           h == [x \in Range(s) \cup {m} \cup Range(u) |-> Said(v, x.role, x.parts)]
<1>1. Hears(h, v, s) /\ Hears(h, v, u) /\ h[m] = Said(v, m.role, m.parts)
  <2> HIDE DEF u
  <2> QED BY DEF Range, Hears
<1> HIDE DEF h, u
<1>2. Told(v, s) = Gather(h, s) /\ Told(v, u) = Gather(h, u)
  BY <1>1, ToldIsGathered, Zenon
<1>3. Yields(h, s)
  BY <1>1, HearsSequences, Zenon
<1>4. IsSequence(h[m])
  <2>1. IsSequence(Said(v, m.role, m.parts))
    BY SaidIsSequence, Zenon
  <2> QED BY <1>1, <2>1
<1>5. Gather(h, u) = Gather(h, s) \o h[m]
  BY <1>3, <1>4, GatherMore, Zenon DEF u
<1> QED BY <1>1, <1>2, <1>5, Zenon DEF u

LEMMA ToldJoined ==
    ASSUME NEW v, NEW s, NEW t, AreTurns(s), AreTurns(t)
    PROVE  Told(v, s \o t) = Told(v, s) \o Told(v, t)
<1> DEFINE u == s \o t
           h == [x \in Range(s) \cup Range(t) \cup Range(u) |-> Said(v, x.role, x.parts)]
<1>1. Hears(h, v, s) /\ Hears(h, v, t) /\ Hears(h, v, u)
  <2> HIDE DEF u
  <2> QED BY DEF Range, Hears
<1> HIDE DEF h, u
<1>2. Told(v, s) = Gather(h, s) /\ Told(v, t) = Gather(h, t) /\ Told(v, u) = Gather(h, u)
  BY <1>1, ToldIsGathered, Zenon
<1>3. Yields(h, s) /\ Yields(h, t)
  BY <1>1, HearsSequences, Zenon
<1>4. Gather(h, u) = Gather(h, s) \o Gather(h, t)
  BY <1>3, GatherJoined, Zenon DEF u
<1> QED BY <1>2, <1>4, Zenon DEF u

\* Turns that are left out if nothing is seen in them.
LEMMA ToldPicked ==
    ASSUME NEW v, NEW turns, AreTurns(turns), NEW places,
           \A i \in DOMAIN turns :
              i \in places \/ Said(v, turns[i].role, turns[i].parts) = <<>>
    PROVE  Told(v, Picked(turns, places)) = Told(v, turns)
<1> DEFINE s == Picked(turns, places)
           h == [m \in Range(turns) \cup Range(s) |-> Said(v, m.role, m.parts)]
<1>1. Hears(h, v, turns) /\ Hears(h, v, s)
  <2> HIDE DEF s
  <2> QED BY DEF Range, Hears
<1> HIDE DEF h, s
<1>2. Told(v, turns) = Gather(h, turns) /\ Told(v, s) = Gather(h, s) /\ Yields(h, turns)
  BY <1>1, ToldIsGathered, HearsSequences, Zenon
<1>3. \A i \in DOMAIN turns : h[turns[i]] = IF i \in places THEN h[turns[i]] ELSE <<>>
  BY <1>1 DEF Hears
<1>4. Gather(h, Picked(turns, places)) = Gather(h, turns)
  BY <1>2, <1>3, GatherPicked
<1> QED BY <1>2, <1>4, Zenon DEF s

\* Turns in which the same is seen.
LEMMA ToldAlike ==
    ASSUME NEW v, NEW s, NEW w, NEW t, DOMAIN s = DOMAIN t,
           \A i \in DOMAIN s : Said(v, s[i].role, s[i].parts) = Said(w, t[i].role, t[i].parts)
    PROVE  Told(v, s) = Told(w, t)
<1>1. [i \in DOMAIN s |-> Said(v, s[i].role, s[i].parts)]
        = [i \in DOMAIN t |-> Said(w, t[i].role, t[i].parts)]
  OBVIOUS
<1> QED BY <1>1, Zenon DEF Told

\* Turns in which nothing is seen.
LEMMA ToldNothing ==
    ASSUME NEW v, NEW s, IsSequence(s),
           \A i \in DOMAIN s : Said(v, s[i].role, s[i].parts) = <<>>
    PROVE  Told(v, s) = <<>>
<1> DEFINE ss == [i \in DOMAIN s |-> Said(v, s[i].role, s[i].parts)]
<1>1. DOMAIN ss = DOMAIN s /\ \A i \in DOMAIN ss : ss[i] = <<>>
  OBVIOUS
<1>2. ss = [i \in DOMAIN s |-> ss[i]]
  OBVIOUS
<1>3. Told(v, s) = FlattenSeq(ss)
  BY DEF Told
<1> HIDE DEF ss
<1>4. IsSequence(ss)
  BY <1>2, MadeIsSequence
<1> QED BY <1>1, <1>3, <1>4, FlattenNothing, Zenon

\* Several turns for each message.
LEMMA ToldFlattened ==
    ASSUME NEW v, NEW ss, IsSequence(ss), \A i \in DOMAIN ss : AreTurns(ss[i]),
           NEW gs, gs = [i \in DOMAIN ss |-> Told(v, ss[i])]
    PROVE  Told(v, FlattenSeq(ss)) = FlattenSeq(gs)
<1> DEFINE u == FlattenSeq(ss)
           all == UNION {Range(ss[i]) : i \in DOMAIN ss}
           h == [x \in all \cup Range(u) |-> Said(v, x.role, x.parts)]
<1>1. Hears(h, v, u) /\ \A i \in DOMAIN ss : Hears(h, v, ss[i])
  <2> HIDE DEF u
  <2>1. \A i \in DOMAIN ss : \A j \in DOMAIN ss[i] : ss[i][j] \in all
    BY DEF Range
  <2>2. \A j \in DOMAIN u : u[j] \in Range(u)
    BY DEF Range
  <2> HIDE DEF all
  <2> QED BY <2>1, <2>2 DEF Hears
<1> HIDE DEF h, u
<1>2. ASSUME NEW i \in DOMAIN ss
      PROVE  Yields(h, ss[i]) /\ Told(v, ss[i]) = Gather(h, ss[i]) /\ IsSequence(ss[i])
  <2>1. Hears(h, v, ss[i]) /\ AreTurns(ss[i])
    BY <1>1, Zenon
  <2> QED BY <2>1, ToldIsGathered, HearsSequences, Zenon DEF AreTurns
<1>3. gs = [i \in DOMAIN ss |-> Gather(h, ss[i])]
  BY <1>2
<1>4. AreSequences(ss) /\ \A i \in DOMAIN ss : Yields(h, ss[i])
  BY <1>2, Zenon DEF AreSequences
<1>5. Gather(h, u) = FlattenSeq(gs)
  <2>1. Gather(h, FlattenSeq(ss)) = FlattenSeq(gs)
    BY <1>3, <1>4, GatherFlattened
  <2> QED BY <2>1, Zenon DEF u
<1>6. Told(v, u) = Gather(h, u)
  BY <1>1, ToldIsGathered, Zenon
<1> QED BY <1>5, <1>6, Zenon DEF u

-----------------------------------------------------------------------------
(***************************************************************************)
(* What providers issue, the transcript keeps                              *)
(***************************************************************************)

\* What q may say.
SaidBy(q, blocks) ==
    /\ IsSequence(blocks)
    /\ \A i \in DOMAIN blocks :
          /\ blocks[i].kind \in {"text", "thinking", "tool_call"}
          /\ blocks[i].kind = "tool_call" => q = "google" \/ blocks[i].signature = NoSignature

LEMMA BlocksAreSigned ==
    ASSUME NEW q, NEW reply \in Seq(STRING), NEW blocks, blocks = Blocks(q, reply)
    PROVE  SaidBy(q, blocks)
<1>1. /\ IsSequence(blocks)
      /\ \A i \in DOMAIN blocks : blocks[i].kind \in {"text", "thinking", "tool_call"}
  BY BlocksAreSaid
<1>2. blocks = [i \in DOMAIN reply |-> Block(q, reply[i], CallsSoFar + i)]
  BY DEF Blocks
<1>3. \A kind, n : Block(q, kind, n).kind = "tool_call" =>
                      q = "google" \/ Block(q, kind, n).signature = NoSignature
  BY DEF Block, Text, ToolCall
<1> QED BY <1>1, <1>2, <1>3 DEF SaidBy

\* What p wants to see again of what q said.
WantedOf(p, q, blocks) == FlattenSeq([i \in DOMAIN blocks |-> Wanted(p, q, blocks[i])])

\* Blocks of which p wants nothing.
LEMMA NothingWanted ==
    ASSUME NEW p, NEW q, NEW blocks, IsSequence(blocks),
           \A i \in DOMAIN blocks : Wanted(p, q, blocks[i]) = <<>>
    PROVE  WantedOf(p, q, blocks) = <<>>
<1> DEFINE ss == [i \in DOMAIN blocks |-> Wanted(p, q, blocks[i])]
<1>1. DOMAIN ss = DOMAIN blocks /\ \A i \in DOMAIN ss : ss[i] = <<>>
  OBVIOUS
<1>2. ss = [i \in DOMAIN blocks |-> ss[i]]
  OBVIOUS
<1>3. WantedOf(p, q, blocks) = FlattenSeq(ss)
  BY DEF WantedOf
<1> HIDE DEF ss
<1>4. IsSequence(ss)
  BY <1>2, MadeIsSequence
<1> QED BY <1>1, <1>3, <1>4, FlattenNothing, Zenon

\* A part of an answer of q: no adapter but Google's keeps a signature, and
\* only Anthropic's emits reasoning.
GivenBy(q, x) ==
    /\ x.kind \in {"text", "tool_call", "reasoning"}
    /\ x.kind = "tool_call" => q = "google" \/ x.signature = NoSignature
    /\ x.kind = "reasoning" => q = "anthropic" /\ x.provider = "anthropic"

AllGivenBy(q, s) == IsSequence(s) /\ \A i \in DOMAIN s : GivenBy(q, s[i])

LEMMA JoinedAreGiven ==
    ASSUME NEW q, NEW s, NEW t, AllGivenBy(q, s), AllGivenBy(q, t) PROVE AllGivenBy(q, s \o t)
<1> DEFINE u == s \o t
<1>1. JoinOf(u, s, t)
  BY BothJoin, Zenon DEF AllGivenBy
<1> HIDE DEF u
<1>2. AllGivenBy(q, u)
  BY <1>1 DEF AllGivenBy, JoinOf
<1> QED BY <1>2 DEF u

LEMMA MadeAreGiven ==
    ASSUME NEW q, NEW s, IsSequence(s), NEW t, t = [i \in DOMAIN s |-> t[i]],
           \A i \in DOMAIN s : GivenBy(q, t[i])
    PROVE  AllGivenBy(q, t)
<1>1. IsSequence(t) /\ DOMAIN t = DOMAIN s
  BY MadeIsSequence
<1> QED BY <1>1 DEF AllGivenBy

\* The calls and texts of what q said, as they are.
LEMMA PickedAreGiven ==
    ASSUME NEW q, NEW blocks, SaidBy(q, blocks), NEW places,
           \A i \in DOMAIN blocks : i \in places => blocks[i].kind \in {"text", "tool_call"}
    PROVE  AllGivenBy(q, Picked(blocks, places))
<1> DEFINE s == Picked(blocks, places)
<1>1. PickOf(s, blocks, places)
  BY PicksAre, Zenon DEF SaidBy
<1> HIDE DEF s
<1>2. AllGivenBy(q, s)
  BY <1>1 DEF PickOf, SaidBy, AllGivenBy, GivenBy
<1> QED BY <1>2 DEF s

\* What every adapter makes of a reply is an answer of its provider.
LEMMA ReplyIsGiven ==
    ASSUME NEW q \in Providers, NEW blocks, SaidBy(q, blocks)
    PROVE  Reply(q, blocks).role = "assistant" /\ AllGivenBy(q, Reply(q, blocks).parts)
<1> DEFINE calls == Only("tool_call", blocks)
           both == {i \in DOMAIN blocks : blocks[i].kind = "tool_call" \/ Says(blocks[i])}
           said == {i \in DOMAIN blocks : Says(blocks[i])}
           m == Reply(q, blocks)
<1> SUFFICES m.role = "assistant" /\ AllGivenBy(q, m.parts)
  OBVIOUS
<1>1. AllGivenBy(q, Picked(blocks, both)) /\ AllGivenBy(q, Picked(blocks, said))
  <2>1. \A i \in DOMAIN blocks :
           /\ i \in both => blocks[i].kind \in {"text", "tool_call"}
           /\ i \in said => blocks[i].kind \in {"text", "tool_call"}
    BY DEF Says
  <2> HIDE DEF both, said
  <2> QED BY <2>1, PickedAreGiven
<1>2. AllGivenBy(q, calls) /\ IsSequence(calls)
  <2> DEFINE places == {i \in DOMAIN blocks : blocks[i].kind = "tool_call"}
  <2>1. calls = Picked(blocks, places)
    BY Zenon DEF Only
  <2>2. \A i \in DOMAIN blocks : i \in places => blocks[i].kind \in {"text", "tool_call"}
    OBVIOUS
  <2> HIDE DEF calls, places
  <2> QED BY <2>1, <2>2, PickedAreGiven DEF AllGivenBy
<1>3. CASE q = "anthropic"
  <2> DEFINE parts == [i \in DOMAIN blocks |-> AnthropicAdapter!Received(blocks[i])]
  <2>1. m.role = "assistant" /\ m.parts = parts
    BY <1>3 DEF Reply, AnthropicAdapter!toResponse, AnthropicAdapter!Turn
  <2>2. \A i \in DOMAIN blocks : GivenBy(q, parts[i])
    BY <1>3 DEF SaidBy, GivenBy, AnthropicAdapter!Received, AnthropicAdapter!Reasoning,
        AnthropicAdapter!ToolCall, AnthropicAdapter!NoSignature, NoSignature
  <2>3. AllGivenBy(q, parts)
    <3>1. parts = [i \in DOMAIN blocks |-> parts[i]] /\ IsSequence(blocks)
      BY DEF SaidBy
    <3> HIDE DEF parts
    <3> QED BY <2>2, <3>1, MadeAreGiven
  <2> QED BY <2>1, <2>3
<1>4. CASE q = "google"
  <2> DEFINE kept == Picked(blocks, both)
             parts == [i \in DOMAIN kept |-> GoogleAdapter!Received(kept[i])]
  <2>1. both = {i \in DOMAIN blocks :
            blocks[i].kind = "tool_call" \/ GoogleAdapter!Says(blocks[i])}
    BY DEF Says, GoogleAdapter!Says, Empty, GoogleAdapter!Empty
  <2>2. m = GoogleAdapter!Turn("assistant", parts)
    <3> HIDE DEF both
    <3> QED BY <1>4, <2>1, SamePicking, Zenon DEF Reply, GoogleAdapter!toChatResponse
  <2> HIDE DEF both, m
  <2>3. \A i \in DOMAIN kept : GivenBy(q, parts[i])
    BY <1>1, <1>4 DEF AllGivenBy, GivenBy, GoogleAdapter!Received, GoogleAdapter!ToolCall
  <2>4. AllGivenBy(q, parts)
    <3>1. parts = [i \in DOMAIN kept |-> parts[i]] /\ IsSequence(kept)
      BY <1>1 DEF AllGivenBy
    <3> HIDE DEF parts, kept
    <3> QED BY <2>3, <3>1, MadeAreGiven
  <2> QED BY <2>2, <2>4 DEF GoogleAdapter!Turn
<1>5. CASE q = "openai"
  <2>1. both = {i \in DOMAIN blocks :
            blocks[i].kind = "tool_call" \/ OpenAIAdapter!Says(blocks[i])}
    BY DEF Says, OpenAIAdapter!Says, Empty, OpenAIAdapter!Empty
  <2>2. m = OpenAIAdapter!Turn("assistant", Picked(blocks, both))
    <3> HIDE DEF both
    <3> QED BY <1>5, <2>1, SamePicking, Zenon DEF Reply, OpenAIAdapter!toChatResponse
  <2> HIDE DEF both, m
  <2> QED BY <1>1, <2>2 DEF OpenAIAdapter!Turn
<1>6. CASE q = "openai-compat"
  <2>1. said = {i \in DOMAIN blocks : CompatAdapter!Says(blocks[i])}
    BY DEF Says, CompatAdapter!Says, Empty, CompatAdapter!Empty
  <2>2. m = CompatAdapter!Turn("assistant", Picked(blocks, said) \o calls)
    <3> HIDE DEF said
    <3> QED BY <1>6, <2>1, SamePicking, SameOnly, Zenon DEF Reply, CompatAdapter!toResponse
  <2>3. AllGivenBy(q, Picked(blocks, said) \o calls)
    <3> HIDE DEF said, calls
    <3> QED BY <1>1, <1>2, JoinedAreGiven, Zenon
  <2> HIDE DEF said, calls, m
  <2> QED BY <2>2, <2>3 DEF CompatAdapter!Turn
<1>7. CASE q = "ollama"
  <2> DEFINE made == [i \in DOMAIN calls |->
                         OllamaAdapter!ToolCall(OllamaAdapter!SyntheticId(calls[i], i),
                                                calls[i].name, OllamaAdapter!NoSignature)]
  <2>1. said = {i \in DOMAIN blocks : OllamaAdapter!Says(blocks[i])}
    BY DEF Says, OllamaAdapter!Says, Empty, OllamaAdapter!Empty
  <2>2. m = OllamaAdapter!Turn("assistant", Picked(blocks, said) \o made)
    <3> HIDE DEF said
    <3> QED BY <1>7, <2>1, SamePicking, SameOnly, Zenon DEF Reply, OllamaAdapter!toChatResponse
  <2> HIDE DEF calls, m
  <2>3. AllGivenBy(q, made)
    <3>1. made = [i \in DOMAIN calls |-> made[i]]
      OBVIOUS
    <3>2. \A i \in DOMAIN calls : GivenBy(q, made[i])
      BY DEF OllamaAdapter!ToolCall, OllamaAdapter!NoSignature, NoSignature, GivenBy
    <3> HIDE DEF made
    <3> QED BY <1>2, <3>1, <3>2, MadeAreGiven
  <2>4. AllGivenBy(q, Picked(blocks, said) \o made)
    <3> HIDE DEF said, made
    <3> QED BY <1>1, <2>3, JoinedAreGiven, Zenon
  <2> HIDE DEF said, made
  <2> QED BY <2>2, <2>4 DEF OllamaAdapter!Turn
<1> QED BY <1>3, <1>4, <1>5, <1>6, <1>7, ProvidersAssumption DEF ProvidersAssumption

\* A provider's own is what it wants, and another's is nothing.
LEMMA OthersGiveNothing ==
    ASSUME NEW p, NEW q, p # q \/ p \notin {"anthropic", "google"},
           NEW x, \/ GivenBy(q, x)
                  \/ /\ x.kind \in {"text", "tool_call", "tool_result"}
                     /\ x.kind = "tool_call" => x.signature = NoSignature
    PROVE  Own(p, x) = <<>>
<1>1. CASE x.kind = "tool_call"
  <2>1. p = "google" => x.signature = NoSignature
    BY <1>1 DEF GivenBy
  <2> QED BY <1>1, <2>1 DEF Own, Secret
<1>2. CASE x.kind = "reasoning"
  <2>1. q = "anthropic" /\ x.provider = "anthropic"
    BY <1>2 DEF GivenBy
  <2> QED BY <1>2, <2>1 DEF Own
<1>3. CASE x.kind \notin {"tool_call", "reasoning"}
  <2>1. x.kind # "thinking" \/ p # "anthropic"
    BY <1>3 DEF GivenBy
  <2> QED BY <1>3, <2>1 DEF Own
<1> QED BY <1>1, <1>2, <1>3

\* The answer holds of the reply what its provider wants to see again, and
\* nothing of another's.
LEMMA ReplyKeeps ==
    ASSUME NEW p \in Providers, NEW q \in Providers, NEW blocks, SaidBy(q, blocks)
    PROVE  Said(<<"own", p>>, "assistant", Reply(q, blocks).parts) = WantedOf(p, q, blocks)
<1> DEFINE own == <<"own", p>>
           m == Reply(q, blocks)
<1>1. \A role, x : View(own, role, x) = Own(p, x)
  BY DEF View
<1>2. IsSequence(blocks)
  BY DEF SaidBy
<1>3. CASE p # q \/ p \notin {"anthropic", "google"}
  <2>1. AllGivenBy(q, m.parts)
    BY ReplyIsGiven, Zenon
  <2> HIDE DEF m, own
  <2>2. \A j \in DOMAIN m.parts : View(own, "assistant", m.parts[j]) = <<>>
    BY <1>1, <1>3, <2>1, OthersGiveNothing DEF AllGivenBy
  <2>3. Said(own, "assistant", m.parts) = <<>>
    BY <2>1, <2>2, SaidNothing, Zenon DEF AllGivenBy
  <2>4. \A i \in DOMAIN blocks : Wanted(p, q, blocks[i]) = <<>>
    BY <1>3 DEF Wanted
  <2>5. WantedOf(p, q, blocks) = <<>>
    BY <1>2, <2>4, NothingWanted, Zenon
  <2> QED BY <2>3, <2>5, Zenon DEF m, own
<1>4. CASE p = "anthropic" /\ q = "anthropic"
  <2> DEFINE parts == [i \in DOMAIN blocks |-> AnthropicAdapter!Received(blocks[i])]
  <2>1. m.parts = parts
    BY <1>4 DEF Reply, AnthropicAdapter!toResponse, AnthropicAdapter!Turn
  <2>2. \A i \in DOMAIN blocks : Own(p, parts[i]) = Wanted(p, q, blocks[i])
    BY <1>4 DEF Own, Wanted, Secret, SaidBy, AnthropicAdapter!Received,
        AnthropicAdapter!Reasoning, AnthropicAdapter!ToolCall,
        AnthropicAdapter!NoSignature, NoSignature
  <2>3. DOMAIN parts = DOMAIN blocks
    OBVIOUS
  <2> HIDE DEF parts, own, m
  <2>4. [j \in DOMAIN parts |-> View(own, "assistant", parts[j])]
           = [i \in DOMAIN blocks |-> Wanted(p, q, blocks[i])]
    BY <1>1, <2>2, <2>3
  <2>5. Said(own, "assistant", parts) = WantedOf(p, q, blocks)
    BY <2>4, Zenon DEF Said, WantedOf
  <2> QED BY <2>1, <2>5, Zenon DEF own, m
<1>5. CASE p = "google" /\ q = "google"
  <2> DEFINE both == {i \in DOMAIN blocks :
                        blocks[i].kind = "tool_call" \/ GoogleAdapter!Says(blocks[i])}
             kept == Picked(blocks, both)
             parts == [i \in DOMAIN kept |-> GoogleAdapter!Received(kept[i])]
  <2>1. m.parts = parts
    <3>1. m = GoogleAdapter!Turn("assistant", parts)
      BY <1>5, SamePicking, Zenon DEF Reply, GoogleAdapter!toChatResponse
    <3> HIDE DEF m, parts
    <3> QED BY <3>1 DEF GoogleAdapter!Turn
  <2>2. \A x : Own(p, GoogleAdapter!Received(x)) = Own(p, x)
    BY <1>5 DEF Own, Secret, GoogleAdapter!Received, GoogleAdapter!ToolCall
  <2>3. DOMAIN parts = DOMAIN kept /\ \A i \in DOMAIN kept : Own(p, parts[i]) = Own(p, kept[i])
    BY <2>2
  <2>4. \A i \in DOMAIN blocks : i \notin both => Own(p, blocks[i]) = <<>>
    BY <1>5 DEF SaidBy, Own
  <2>5. \A i \in DOMAIN blocks : Own(p, blocks[i]) = Wanted(p, q, blocks[i])
    BY <1>5 DEF Own, Wanted, SaidBy
  <2> HIDE DEF parts, both, own, m, kept
  <2>6. Said(own, "assistant", parts) = Said(own, "assistant", kept)
    BY <1>1, <2>3, SaidAlike
  <2>7. \A i \in DOMAIN blocks : View(own, "assistant", blocks[i]) =
                IF i \in both THEN View(own, "assistant", blocks[i]) ELSE <<>>
    BY <1>1, <2>4
  <2>8. Said(own, "assistant", kept) = Said(own, "assistant", blocks)
    BY <1>2, <2>7, SaidPicked DEF kept
  <2>9. [j \in DOMAIN blocks |-> View(own, "assistant", blocks[j])]
           = [i \in DOMAIN blocks |-> Wanted(p, q, blocks[i])]
    BY <1>1, <2>5
  <2>10. Said(own, "assistant", blocks) = WantedOf(p, q, blocks)
    BY <2>9, Zenon DEF Said, WantedOf
  <2> QED BY <2>1, <2>6, <2>8, <2>10, Zenon DEF own, m
<1> QED BY <1>3, <1>4, <1>5

\* What was issued, with one more answer.
LEMMA IssuedMore ==
    ASSUME NEW p, NEW q, NEW blocks, IsSequence(blocks), IsSequence(answers),
           \A k \in DOMAIN answers : IsSequence(answers[k].blocks),
           answers' = Append(answers, [by |-> q, blocks |-> blocks])
    PROVE  Issued(p)' = Issued(p) \o WantedOf(p, q, blocks)
<1> DEFINE last == [by |-> q, blocks |-> blocks]
           h == [a \in Range(answers) \cup Range(answers') \cup {last} |->
                    WantedOf(p, a.by, a.blocks)]
<1>1. ASSUME NEW b, NEW s, IsSequence(s) PROVE IsSequence(WantedOf(p, b, s))
  <2> DEFINE ss == [i \in DOMAIN s |-> Wanted(p, b, s[i])]
  <2>1. ss = [i \in DOMAIN s |-> ss[i]] /\ DOMAIN ss = DOMAIN s
    OBVIOUS
  <2>2. \A i \in DOMAIN s : IsSequence(ss[i])
    <3>1. IsSequence(<<>>)
      BY DEF IsSequence
    <3>2. \A x : IsSequence(Secret(x))
      BY <3>1, Single, Zenon DEF Secret
    <3>3. \A x : IsSequence(Wanted(p, b, x))
      BY <3>1, <3>2, Zenon DEF Wanted
    <3> QED BY <3>3
  <2>3. WantedOf(p, b, s) = FlattenSeq(ss)
    BY DEF WantedOf
  <2> HIDE DEF ss
  <2>4. AreSequences(ss)
    <3>1. IsSequence(ss)
      BY <1>1, <2>1, MadeIsSequence
    <3> QED BY <2>1, <2>2, <3>1, Zenon DEF AreSequences
  <2> QED BY <2>3, <2>4, FlattenIsSequence, Zenon
<1>2. /\ Issued(p) = Gather(h, answers)
      /\ Issued(p)' = Gather(h, answers')
  <2>1. /\ [k \in DOMAIN answers |-> WantedOf(p, answers[k].by, answers[k].blocks)]
              = Each(h, answers)
        /\ [k \in DOMAIN answers' |-> WantedOf(p, answers'[k].by, answers'[k].blocks)]
              = Each(h, answers')
    BY DEF Each, Range
  <2> HIDE DEF h
  <2>2. Issued(p) = Gather(h, answers)
    BY <2>1, Zenon DEF Issued, Gather, WantedOf
  <2>3. Issued(p)' = Gather(h, answers')
    BY <2>1, Zenon DEF Issued, Gather, WantedOf
  <2> QED BY <2>2, <2>3
<1>3. Yields(h, answers)
  <2>1. \A k \in DOMAIN answers : h[answers[k]] = WantedOf(p, answers[k].by, answers[k].blocks)
    BY DEF Range
  <2> HIDE DEF h
  <2> QED BY <1>1, <2>1 DEF Yields
<1>4. h[last] = WantedOf(p, q, blocks) /\ IsSequence(h[last])
  BY <1>1
<1> HIDE DEF h, last
<1>5. Gather(h, Append(answers, last)) = Gather(h, answers) \o h[last]
  BY <1>3, <1>4, GatherMore, Zenon
<1> QED BY <1>2, <1>4, <1>5 DEF last

\* The transcript holds, for each provider, what it has issued so far, once and
\* in order.
HistoryInv ==
    /\ IsSequence(answers) /\ \A k \in DOMAIN answers : IsSequence(answers[k].blocks)
    /\ \A p \in Providers : Told(<<"own", p>>, messages) = Issued(p)

LEMMA MessagesAreTurns == ASSUME NEW msgs, AreMessages(msgs) PROVE AreTurns(msgs)
BY DEF AreMessages, IsMessage, AreTurns

\* Parts that no provider issued.
LEMMA UnissuedSay ==
    ASSUME NEW p, NEW role, NEW parts, IsSequence(parts),
           \A j \in DOMAIN parts : parts[j].kind \in Kinds, Unissued(parts)
    PROVE  Said(<<"own", p>>, role, parts) = <<>>
<1> DEFINE own == <<"own", p>>
<1>1. \A x : View(own, role, x) = Own(p, x)
  BY DEF View
<1> HIDE DEF own
<1>2. ASSUME NEW j \in DOMAIN parts PROVE View(own, role, parts[j]) = <<>>
  <2>1. /\ parts[j].kind \in {"text", "tool_call", "tool_result"}
        /\ parts[j].kind = "tool_call" => parts[j].signature = NoSignature
    BY DEF Kinds, Unissued
  <2>2. Own(p, parts[j]) = <<>>
    BY <2>1 DEF Own, Secret
  <2> QED BY <1>1, <2>2
<1>3. Said(own, role, parts) = <<>>
  BY <1>2, SaidNothing, Zenon
<1> QED BY <1>3 DEF own

LEMMA HistoryInit == Init => HistoryInv
<1> SUFFICES ASSUME Init PROVE HistoryInv
  OBVIOUS
<1>1. /\ settings \in Settings /\ messages = settings.start /\ answers = <<>>
  BY DEF Init
<1>2. /\ AreMessages(messages) /\ \A i \in DOMAIN messages : Unissued(messages[i].parts)
  BY <1>1, SettingsAssumption, UnissuedAssumption
     DEF SettingsAssumption, UnissuedAssumption
<1>3. IsSequence(answers) /\ DOMAIN answers = {}
  BY <1>1 DEF IsSequence
<1>4. ASSUME NEW p \in Providers PROVE Told(<<"own", p>>, messages) = Issued(p)
  <2> DEFINE own == <<"own", p>>
             ss == [k \in DOMAIN answers |-> WantedOf(p, answers[k].by, answers[k].blocks)]
  <2>1. ASSUME NEW i \in DOMAIN messages
        PROVE  Said(own, messages[i].role, messages[i].parts) = <<>>
    <3>1. /\ IsSequence(messages[i].parts) /\ Unissued(messages[i].parts)
          /\ \A j \in DOMAIN messages[i].parts : messages[i].parts[j].kind \in Kinds
      BY <1>2 DEF AreMessages, IsMessage, IsPart
    <3> QED BY <3>1, UnissuedSay, Zenon
  <2>2. IsSequence(messages)
    BY <1>2 DEF AreMessages
  <2> HIDE DEF own
  <2>3. Told(own, messages) = <<>>
    BY <2>1, <2>2, ToldNothing, Zenon
  <2>4. Issued(p) = FlattenSeq(ss)
    BY DEF Issued, WantedOf
  <2>5. ss = [k \in DOMAIN answers |-> ss[k]] /\ DOMAIN ss = {}
    BY <1>3
  <2> HIDE DEF ss
  <2>6. IsSequence(ss)
    BY <1>3, <2>5, MadeIsSequence
  <2>7. FlattenSeq(ss) = <<>>
    BY <2>5, <2>6, FlattenNothing, Zenon
  <2> QED BY <2>3, <2>4, <2>7 DEF own
<1> QED BY <1>3, <1>4 DEF HistoryInv

LEMMA HistoryStep ==
    ConversationInv /\ TranscriptInv /\ HistoryInv /\ [Next]_vars => HistoryInv'
<1> SUFFICES ASSUME ConversationInv, TranscriptInv, HistoryInv, [Next]_vars PROVE HistoryInv'
  OBVIOUS
<1>1. AreTurns(messages) /\ asked \in Providers \cup {Nobody}
  BY MessagesAreTurns DEF ConversationInv, TranscriptInv
<1>2. /\ IsSequence(answers) /\ \A k \in DOMAIN answers : IsSequence(answers[k].blocks)
      /\ \A p \in Providers : Told(<<"own", p>>, messages) = Issued(p)
  BY DEF HistoryInv
<1>3. CASE UNCHANGED <<messages, answers>>
  BY <1>3 DEF HistoryInv, Issued
<1>4. ASSUME NEW reply \in Replies, Answer(reply) PROVE HistoryInv'
  <2> DEFINE blocks == Blocks(asked, reply)
             m == Reply(asked, blocks)
             answer == [by |-> asked, blocks |-> blocks]
  <2>1. asked \in Providers /\ reply \in Seq(STRING)
    BY <1>1, <1>4, RepliesAssumption DEF Answer, RepliesAssumption
  <2>2. messages' = Append(messages, m) /\ answers' = Append(answers, answer)
    BY <1>4 DEF Answer
  <2>3. SaidBy(asked, blocks)
    BY <2>1, BlocksAreSigned
  <2> HIDE DEF blocks
  <2>4. m.role = "assistant" /\ AllGivenBy(asked, m.parts) /\ IsSequence(m.parts)
    BY <2>1, <2>3, ReplyIsGiven DEF AllGivenBy
  <2>5. ASSUME NEW p \in Providers PROVE Told(<<"own", p>>, messages') = Issued(p)'
    <3>1. Said(<<"own", p>>, "assistant", m.parts) = WantedOf(p, asked, blocks)
      BY <2>1, <2>3, ReplyKeeps, Zenon
    <3> HIDE DEF m
    <3>2. Told(<<"own", p>>, messages')
             = Told(<<"own", p>>, messages) \o Said(<<"own", p>>, "assistant", m.parts)
      BY <1>1, <2>2, <2>4, ToldMore
    <3>3. Issued(p)' = Issued(p) \o WantedOf(p, asked, blocks)
      BY <1>2, <2>2, <2>3, IssuedMore DEF SaidBy
    <3> QED BY <1>2, <3>1, <3>2, <3>3
  <2>6. IsSequence(answers') /\ \A k \in DOMAIN answers' : IsSequence(answers'[k].blocks)
    <3>1. OneMoreThan(Append(answers, answer), answers, Len(answers), answer)
      BY <1>2, AppendTo, Zenon
    <3>2. answer.blocks = blocks /\ IsSequence(blocks)
      BY <2>3 DEF SaidBy
    <3>3. DOMAIN answers = 1 .. Len(answers) /\ Len(answers) \in Nat
      BY <1>2, EmptySequence
    <3> HIDE DEF answer
    <3>4. /\ IsSequence(answers') /\ answers'[Len(answers) + 1] = answer
          /\ DOMAIN answers' = 1 .. Len(answers) + 1
          /\ \A k \in DOMAIN answers : answers'[k] = answers[k]
      BY <2>2, <3>1, <3>3 DEF OneMoreThan
    <3> QED BY <1>2, <3>2, <3>3, <3>4
  <2> QED BY <2>5, <2>6 DEF HistoryInv
<1>5. ASSUME NEW m, IsSequence(m.parts), \A j \in DOMAIN m.parts : m.parts[j].kind \in Kinds,
             Unissued(m.parts), Say(m)
      PROVE  HistoryInv'
  <2>1. messages' = Append(messages, m) /\ answers' = answers
    BY <1>5 DEF Say
  <2>2. ASSUME NEW p \in Providers PROVE Told(<<"own", p>>, messages') = Issued(p)'
    <3> DEFINE own == <<"own", p>>
    <3>1. Said(own, m.role, m.parts) = <<>>
      BY <1>5, UnissuedSay, Zenon
    <3>2. Told(own, messages') = Told(own, messages) \o Said(own, m.role, m.parts)
      BY <1>1, <1>5, <2>1, ToldMore
    <3>3. IsSequence(Told(own, messages))
      BY <1>1, ToldIsSequence, Zenon
    <3>4. Told(own, messages') = Told(own, messages)
      BY <3>1, <3>2, <3>3, JoinNothing
    <3>5. Issued(p)' = Issued(p)
      BY <2>1 DEF Issued
    <3> QED BY <1>2, <3>4, <3>5
  <2> QED BY <1>2, <2>1, <2>2 DEF HistoryInv
<1>6. ASSUME NEW n \in 1 .. Len(OpenCalls), RunTools(n) PROVE HistoryInv'
  <2>0. PICK isError \in [1 .. n -> BOOLEAN] :
            Say(Turn("tool", [i \in 1 .. n |-> ToolResult(OpenCalls[i].id, isError[i])]))
    BY <1>6, Zenon DEF RunTools
  <2> DEFINE parts == [i \in 1 .. n |-> ToolResult(OpenCalls[i].id, isError[i])]
  <2>1. /\ parts = [i \in 1 .. n |-> parts[i]] /\ n \in Nat
        /\ \A i \in 1 .. n : parts[i].kind = "tool_result"
    BY DEF ToolResult
  <2>2. Say(Turn("tool", parts))
    BY <2>0
  <2> HIDE DEF parts
  <2>3. IsSequence(parts) /\ DOMAIN parts = 1 .. n
    BY <2>1, AnySequence
  <2>4. Unissued(parts) /\ \A j \in DOMAIN parts : parts[j].kind \in Kinds
    BY <2>1, <2>3 DEF Unissued, Kinds
  <2>5. Turn("tool", parts).parts = parts
    BY DEF Turn
  <2> QED BY <1>5, <2>2, <2>3, <2>4, <2>5
<1>7. ASSUME NEW parts \in Questions, Speak(parts) PROVE HistoryInv'
  <2>1. Say(Turn("user", parts)) /\ Turn("user", parts).parts = parts
    BY <1>7 DEF Speak, Turn
  <2>2. /\ IsSequence(parts) /\ Unissued(parts)
        /\ \A j \in DOMAIN parts : parts[j].kind \in Kinds
    BY QuestionsAssumption, UnissuedAssumption
       DEF QuestionsAssumption, UnissuedAssumption, IsPart
  <2> QED BY <1>5, <2>1, <2>2
<1>8. CASE \E p \in Providers : Ask(p)
  BY <1>3, <1>8 DEF Ask
<1>9. CASE Fail
  BY <1>3, <1>9 DEF Fail
<1>10. CASE UNCHANGED vars
  BY <1>3, <1>10 DEF vars
<1> QED BY <1>4, <1>6, <1>7, <1>8, <1>9, <1>10 DEF Next

-----------------------------------------------------------------------------
(***************************************************************************)
(* What a provider may see of the transcript                               *)
(***************************************************************************)

\* Of the parts that p may see, v sees what w sees of all.
Hides(p, v, w) ==
    \A role, x : IsPart(x) =>
        View(w, role, x) =
            IF x.kind = "reasoning" => x.provider = p THEN View(v, role, x) ELSE <<>>

\* The filter takes nothing away but reasoning.
LEMMA AtomsStay ==
    ASSUME NEW p, NEW q, NEW word \in {"atom", "text", "rest"}
    PROVE  Hides(p, <<word, q>>, <<word, q>>)
<1> SUFFICES ASSUME NEW role, NEW x
             PROVE  (~(x.kind = "reasoning" => x.provider = p)) => View(<<word, q>>, role, x) = <<>>
  BY DEF Hides
<1>1. x.kind = "reasoning" => Atom(q, role, x) = <<>>
  BY DEF Atom
<1> QED BY <1>1 DEF View

\* What Google's adapter sends on of secrets are the signatures.
LEMMA SignaturesStay == Hides("google", <<"secret", "google">>, <<"own", "google">>)
BY DEF Hides, View, Own, Secret, IsPart, Kinds

\* Anthropic sees its own reasoning.
LEMMA ReasoningStays == Hides("anthropic", <<"own", "anthropic">>, <<"own", "anthropic">>)
BY DEF Hides, View, Own, Secret, IsPart

\* What an adapter has before it: no parts but those of the role, and no
\* reasoning but Anthropic's own.
AsSeen(p, m) ==
    /\ IsMessage(m)
    /\ \A i \in DOMAIN m.parts :
          /\ m.parts[i].kind \in Allowed(m.role)
          /\ p # "anthropic" => m.parts[i].kind # "reasoning"

LEMMA FilterKeepsLegal ==
    ASSUME NEW p, NEW m, Legal(m)
    PROVE  AsSeen(p, SeenOf(p, m)) /\ SeenOf(p, m).role = m.role
<1> DEFINE t == SeenOf(p, m)
           kept == Picked(m.parts, SeenBy(p, m.parts))
<1>1. /\ m.role \in Roles /\ IsSequence(m.parts)
      /\ \A i \in DOMAIN m.parts : IsPart(m.parts[i]) /\ m.parts[i].kind \in Allowed(m.role)
  BY DEF Legal, IsMessage
<1>2. t.role = m.role /\ t.parts = kept
  BY DEF SeenOf, Turn
<1>3. PickOf(kept, m.parts, SeenBy(p, m.parts))
  BY <1>1, PicksAre, Zenon
<1> HIDE DEF kept, t
<1>4. ASSUME NEW j \in DOMAIN kept
      PROVE  /\ IsPart(kept[j]) /\ kept[j].kind \in Allowed(m.role)
             /\ p # "anthropic" => kept[j].kind # "reasoning"
  <2>1. PICK i \in DOMAIN m.parts : i \in SeenBy(p, m.parts) /\ kept[j] = m.parts[i]
    BY <1>3 DEF PickOf
  <2>2. p # "anthropic" => m.parts[i].kind # "reasoning"
    BY <1>1, <2>1 DEF SeenBy, IsPart
  <2> QED BY <1>1, <2>1, <2>2
<1>5. IsMessage(t)
  BY <1>1, <1>2, <1>3, <1>4 DEF IsMessage, PickOf
<1>6. AsSeen(p, t)
  BY <1>2, <1>4, <1>5 DEF AsSeen
<1> QED BY <1>2, <1>6 DEF t

LEMMA FilterSays ==
    ASSUME NEW p, NEW m, Legal(m), NEW v, NEW w, Hides(p, v, w)
    PROVE  Said(v, m.role, SeenOf(p, m).parts) = Said(w, m.role, m.parts)
<1>1. IsSequence(m.parts) /\ \A i \in DOMAIN m.parts : IsPart(m.parts[i])
  BY DEF Legal, IsMessage
<1>2. SeenOf(p, m).parts = Picked(m.parts, SeenBy(p, m.parts))
  BY DEF SeenOf, Turn
<1>3. \A j \in DOMAIN m.parts :
         View(w, m.role, m.parts[j]) =
            IF j \in SeenBy(p, m.parts) THEN View(v, m.role, m.parts[j]) ELSE <<>>
  BY <1>1 DEF Hides, SeenBy
<1>4. Said(v, m.role, Picked(m.parts, SeenBy(p, m.parts))) = Said(w, m.role, m.parts)
  BY <1>1, <1>3, SaidPicked
<1> QED BY <1>2, <1>4

\* The transcript as p may see it.
SeenIn(p, out, msgs) ==
    /\ AreMessages(out) /\ AreTurns(out) /\ DOMAIN out = DOMAIN msgs
    /\ \A i \in DOMAIN msgs : out[i] = SeenOf(p, msgs[i]) /\ AsSeen(p, out[i])
                                /\ out[i].role = msgs[i].role

LEMMA FilteredAreLegal ==
    ASSUME NEW p, NEW msgs, AreMessages(msgs), \A i \in DOMAIN msgs : Legal(msgs[i])
    PROVE  SeenIn(p, ReasoningFrom(p, msgs), msgs)
<1> DEFINE out == ReasoningFrom(p, msgs)
<1>1. /\ out = [i \in DOMAIN msgs |-> out[i]] /\ DOMAIN out = DOMAIN msgs
      /\ \A i \in DOMAIN msgs : out[i] = SeenOf(p, msgs[i])
  BY DEF ReasoningFrom, SeenOf
<1> HIDE DEF out
<1>2. IsSequence(out)
  BY <1>1, MadeIsSequence DEF AreMessages
<1>3. \A i \in DOMAIN msgs : AsSeen(p, out[i]) /\ out[i].role = msgs[i].role
  BY <1>1, FilterKeepsLegal
<1>4. AreMessages(out)
  BY <1>1, <1>2, <1>3 DEF AreMessages, AsSeen
<1> QED BY <1>1, <1>3, <1>4, MessagesAreTurns DEF SeenIn, out

LEMMA FilterTells ==
    ASSUME NEW p, NEW msgs, AreMessages(msgs), \A i \in DOMAIN msgs : Legal(msgs[i]),
           NEW v, NEW w, Hides(p, v, w)
    PROVE  Told(v, ReasoningFrom(p, msgs)) = Told(w, msgs)
<1> DEFINE out == ReasoningFrom(p, msgs)
<1>1. SeenIn(p, out, msgs)
  BY FilteredAreLegal, Zenon
<1> HIDE DEF out
<1>2. \A i \in DOMAIN out :
         Said(v, out[i].role, out[i].parts) = Said(w, msgs[i].role, msgs[i].parts)
  BY <1>1, FilterSays DEF SeenIn
<1>3. DOMAIN out = DOMAIN msgs
  BY <1>1 DEF SeenIn
<1>4. Told(v, out) = Told(w, msgs)
  BY <1>2, <1>3, ToldAlike
<1> QED BY <1>4 DEF out

-----------------------------------------------------------------------------
(***************************************************************************)
(* What Google is told                                                     *)
(***************************************************************************)

\* A part of a request to Google says what the part of the message says.
LEMMA GooglePartSays ==
    ASSUME NEW msgs, NEW role \in Roles, NEW x, IsPart(x), NEW word \in {"atom", "secret"}
    PROVE  View(<<word, "google">>, GoogleAdapter!Side(role), GoogleAdapter!Part(msgs, x))
              = View(<<word, "google">>, role, x)
<1>1. Side(GoogleAdapter!Side(role)) = Side(role)
  BY DEF Side, GoogleAdapter!Side, Roles
<1> HIDE DEF Side
<1>2. Atom("google", GoogleAdapter!Side(role), GoogleAdapter!Part(msgs, x))
         = Atom("google", role, x)
  BY <1>1 DEF Atom, GoogleAdapter!Part, GoogleAdapter!Text, GoogleAdapter!FunctionResponse
<1>3. Secret(GoogleAdapter!Part(msgs, x)) = Secret(x)
  BY DEF Secret, GoogleAdapter!Part, GoogleAdapter!Text, GoogleAdapter!FunctionResponse
<1> QED BY <1>2, <1>3 DEF View

LEMMA GoogleIsTold ==
    ASSUME NEW req, AreMessages(req.messages),
           \A i \in DOMAIN req.messages : Legal(req.messages[i]),
           NEW turns, turns = GoogleAdapter!buildContents(req).turns
    PROVE  /\ Told(<<"atom", "google">>, turns) = Told(<<"atom", "google">>, req.messages)
           /\ Told(<<"secret", "google">>, turns) = Told(<<"own", "google">>, req.messages)
<1> DEFINE msgs == ReasoningFrom("google", req.messages)
           contents == [i \in DOMAIN msgs |-> GoogleAdapter!Content(msgs, msgs[i])]
           places == {i \in DOMAIN contents : contents[i].parts # <<>>}
<1>1. turns = Picked(contents, places)
  <2>1. GoogleAdapter!ReasoningFrom("google", req.messages) = msgs
    BY SameFilter, Zenon
  <2>2. GoogleAdapter!Picked(contents, places) = Picked(contents, places)
    BY SamePicking, Zenon
  <2> HIDE DEF msgs
  <2> QED BY <2>1, <2>2 DEF GoogleAdapter!buildContents
<1>2. SeenIn("google", msgs, req.messages)
  BY FilteredAreLegal, Zenon
<1>3. Told(<<"atom", "google">>, msgs) = Told(<<"atom", "google">>, req.messages)
  <2>1. Hides("google", <<"atom", "google">>, <<"atom", "google">>)
    BY AtomsStay
  <2> QED BY <2>1, FilterTells, Zenon
<1>4. Told(<<"secret", "google">>, msgs) = Told(<<"own", "google">>, req.messages)
  BY SignaturesStay, FilterTells, Zenon
<1>5. contents = [i \in DOMAIN msgs |-> contents[i]] /\ DOMAIN contents = DOMAIN msgs
  OBVIOUS
<1>6. \A i \in DOMAIN msgs : contents[i] = GoogleAdapter!Content(msgs, msgs[i])
  OBVIOUS
<1> HIDE DEF msgs, contents
<1>7. ASSUME NEW i \in DOMAIN msgs
      PROVE  /\ contents[i].role = GoogleAdapter!Side(msgs[i].role)
             /\ contents[i].parts = [j \in DOMAIN msgs[i].parts |->
                                        GoogleAdapter!Part(msgs, msgs[i].parts[j])]
             /\ msgs[i].role \in Roles /\ IsSequence(msgs[i].parts)
             /\ \A j \in DOMAIN msgs[i].parts : IsPart(msgs[i].parts[j])
  <2>1. IsMessage(msgs[i])
    BY <1>2 DEF SeenIn, AreMessages
  <2>2. contents[i] = GoogleAdapter!Content(msgs, msgs[i])
    BY <1>6
  <2> QED BY <2>1, <2>2 DEF GoogleAdapter!Content, GoogleAdapter!Turn, IsMessage
<1>8. ASSUME NEW word \in {"atom", "secret"}
      PROVE  Told(<<word, "google">>, turns) = Told(<<word, "google">>, msgs)
  <2> DEFINE v == <<word, "google">>
  <2>1. ASSUME NEW i \in DOMAIN contents
        PROVE  Said(v, contents[i].role, contents[i].parts) = Said(v, msgs[i].role, msgs[i].parts)
    <3>1. DOMAIN contents[i].parts = DOMAIN msgs[i].parts
      BY <1>5, <1>7
    <3>2. \A j \in DOMAIN contents[i].parts :
             View(v, contents[i].role, contents[i].parts[j])
                = View(v, msgs[i].role, msgs[i].parts[j])
      <4> SUFFICES ASSUME NEW j \in DOMAIN msgs[i].parts
                   PROVE  View(v, contents[i].role, contents[i].parts[j])
                             = View(v, msgs[i].role, msgs[i].parts[j])
        BY <3>1
      <4>1. /\ contents[i].role = GoogleAdapter!Side(msgs[i].role)
            /\ contents[i].parts[j] = GoogleAdapter!Part(msgs, msgs[i].parts[j])
            /\ msgs[i].role \in Roles /\ IsPart(msgs[i].parts[j])
        BY <1>5, <1>7
      <4> QED BY <4>1, GooglePartSays
    <3> HIDE DEF v
    <3> QED BY <3>1, <3>2, SaidAlike
  <2> HIDE DEF v
  <2>2. Told(v, contents) = Told(v, msgs)
    BY <1>5, <2>1, ToldAlike
  <2>3. AreTurns(contents)
    <3>1. IsSequence(contents)
      BY <1>2, <1>5, MadeIsSequence DEF SeenIn, AreMessages
    <3>2. ASSUME NEW i \in DOMAIN contents PROVE IsSequence(contents[i].parts)
      <4> DEFINE parts == contents[i].parts
      <4>1. parts = [j \in DOMAIN msgs[i].parts |-> parts[j]] /\ IsSequence(msgs[i].parts)
        BY <1>5, <1>7
      <4> HIDE DEF parts
      <4>2. IsSequence(parts)
        BY <4>1, MadeIsSequence
      <4> QED BY <4>2 DEF parts
    <3> QED BY <3>1, <3>2, Zenon DEF AreTurns
  <2>4. \A i \in DOMAIN contents :
           i \in places \/ Said(v, contents[i].role, contents[i].parts) = <<>>
    <3> SUFFICES ASSUME NEW i \in DOMAIN contents, contents[i].parts = <<>>
                 PROVE  Said(v, contents[i].role, contents[i].parts) = <<>>
      OBVIOUS
    <3>1. IsSequence(contents[i].parts) /\ DOMAIN contents[i].parts = {}
      BY DEF IsSequence
    <3> QED BY <3>1, SaidNothing, Zenon
  <2> HIDE DEF places
  <2>5. Told(v, Picked(contents, places)) = Told(v, contents)
    BY <2>3, <2>4, ToldPicked, Zenon
  <2> QED BY <1>1, <2>2, <2>5 DEF v
<1> QED BY <1>3, <1>4, <1>8

-----------------------------------------------------------------------------
(***************************************************************************)
(* Several turns for a message                                             *)
(***************************************************************************)

LEMMA SpreadTells ==
    ASSUME NEW v, NEW w, NEW ss, NEW msgs, IsSequence(ss), DOMAIN ss = DOMAIN msgs,
           \A i \in DOMAIN ss : AreTurns(ss[i]),
           \A i \in DOMAIN ss : Told(v, ss[i]) = Said(w, msgs[i].role, msgs[i].parts)
    PROVE  Told(v, FlattenSeq(ss)) = Told(w, msgs)
<1> DEFINE gs == [i \in DOMAIN ss |-> Told(v, ss[i])]
<1>1. gs = [i \in DOMAIN msgs |-> Said(w, msgs[i].role, msgs[i].parts)]
  OBVIOUS
<1>2. FlattenSeq(gs) = Told(w, msgs)
  BY <1>1, Zenon DEF Told
<1>3. gs = [i \in DOMAIN ss |-> Told(v, ss[i])]
  OBVIOUS
<1> HIDE DEF gs
<1>4. Told(v, FlattenSeq(ss)) = FlattenSeq(gs)
  BY <1>3, ToldFlattened
<1> QED BY <1>2, <1>4

\* A turn for each part.
SayOne(v, items, w, role, parts) ==
    /\ items = [j \in DOMAIN parts |-> items[j]]
    /\ \A j \in DOMAIN parts : \E y :
          items[j].parts = <<y>> /\ View(v, items[j].role, y) = View(w, role, parts[j])

LEMMA SingleTurns ==
    ASSUME NEW v, NEW w, NEW role, NEW parts, IsSequence(parts),
           NEW items, SayOne(v, items, w, role, parts)
    PROVE  AreTurns(items) /\ Told(v, items) = Said(w, role, parts)
<1>1. IsSequence(items) /\ DOMAIN items = DOMAIN parts
  BY MadeIsSequence DEF SayOne
<1>2. ASSUME NEW j \in DOMAIN parts
      PROVE  /\ IsSequence(items[j].parts)
             /\ Said(v, items[j].role, items[j].parts) = View(w, role, parts[j])
  <2>1. PICK y : items[j].parts = <<y>> /\ View(v, items[j].role, y) = View(w, role, parts[j])
    BY Zenon DEF SayOne
  <2>2. Said(v, items[j].role, <<y>>) = View(v, items[j].role, y)
    BY SaidOne, Zenon
  <2>3. IsSequence(<<y>>)
    BY Single
  <2> QED BY <2>1, <2>2, <2>3
<1>3. AreTurns(items)
  BY <1>1, <1>2, Zenon DEF AreTurns
<1>4. [j \in DOMAIN items |-> Said(v, items[j].role, items[j].parts)]
         = [j \in DOMAIN parts |-> View(w, role, parts[j])]
  BY <1>1, <1>2
<1>5. Told(v, items) = Said(w, role, parts)
  BY <1>4, Zenon DEF Told, Said
<1> QED BY <1>3, <1>5

\* The adapters' instances of an operator are the same operator.
LEMMA SameUnmarked ==
    ASSUME NEW x
    PROVE  /\ OpenAIAdapter!Unmarked(x) = Unmarked(x)
           /\ CompatAdapter!Unmarked(x) = Unmarked(x)
           /\ OllamaAdapter!Unmarked(x) = Unmarked(x)
BY DEF OpenAIAdapter!Unmarked, OpenAIAdapter!ToolResult, CompatAdapter!Unmarked,
       CompatAdapter!ToolResult, OllamaAdapter!Unmarked, OllamaAdapter!ToolResult,
       Unmarked, ToolResult

\* A result says the same without its mark to who does not hear of errors.
LEMMA UnmarkedSays ==
    ASSUME NEW q, q \notin HearsErrors, NEW r, NEW role, Side(r) = Side(role),
           NEW x, x.kind = "tool_result"
    PROVE  /\ Atom(q, r, Unmarked(x)) = Atom(q, role, x)
           /\ Secret(Unmarked(x)) = <<>> /\ Unmarked(x).kind = "tool_result"
<1>1. Unmarked(x).kind = "tool_result" /\ Unmarked(x).id = x.id
  BY DEF Unmarked, ToolResult
<1>2. q # "google"
  BY DEF HearsErrors
<1> HIDE DEF Unmarked, Side
<1> QED BY <1>1, <1>2 DEF Atom, Secret

\* Nothing is seen anywhere.
LEMMA NothingSays ==
    ASSUME NEW q, NEW role, NEW parts, IsSequence(parts)
    PROVE  Said(<<"nothing", q>>, role, parts) = <<>>
<1>1. \A j \in DOMAIN parts : View(<<"nothing", q>>, role, parts[j]) = <<>>
  BY DEF View
<1> QED BY <1>1, SaidNothing

LEMMA NothingTells ==
    ASSUME NEW q, NEW msgs, AreTurns(msgs) PROVE Told(<<"nothing", q>>, msgs) = <<>>
<1> DEFINE v == <<"nothing", q>>
<1>1. \A i \in DOMAIN msgs : Said(v, msgs[i].role, msgs[i].parts) = <<>>
  BY NothingSays DEF AreTurns
<1> HIDE DEF v
<1>2. Told(v, msgs) = <<>>
  BY <1>1, ToldNothing, Zenon DEF AreTurns
<1> QED BY <1>2 DEF v

-----------------------------------------------------------------------------
(***************************************************************************)
(* What OpenAI is told                                                     *)
(***************************************************************************)

LEMMA OpenAIItemsSay ==
    ASSUME NEW m, AsSeen("openai", m), NEW v, NEW w,
           \/ v = <<"atom", "openai">> /\ w = v
           \/ v = <<"secret", "openai">> /\ w = <<"nothing", "openai">>
    PROVE  /\ AreTurns(OpenAIAdapter!Items(m))
           /\ Told(v, OpenAIAdapter!Items(m)) = Said(w, m.role, m.parts)
<1> DEFINE items == OpenAIAdapter!Items(m)
<1>1. /\ items = [j \in DOMAIN m.parts |-> items[j]]
      /\ \A j \in DOMAIN m.parts : items[j] = OpenAIAdapter!Item(m.role, m.parts[j])
  BY DEF OpenAIAdapter!Items
<1>2. m.role \in Roles /\ IsSequence(m.parts)
  BY DEF AsSeen, IsMessage
<1> HIDE DEF items
<1>3. ASSUME NEW j \in DOMAIN m.parts
      PROVE  \E y : /\ items[j].parts = <<y>>
                    /\ View(v, items[j].role, y) = View(w, m.role, m.parts[j])
  <2> DEFINE x == m.parts[j]
             text == OpenAIAdapter!Text(x.body, FALSE)
             call == OpenAIAdapter!ToolCall(x.id, x.name, OpenAIAdapter!NoSignature)
             result == Unmarked(x)
  <2>1. /\ x.kind \in Allowed(m.role) /\ x.kind \in Kinds /\ x.kind # "reasoning"
    BY DEF AsSeen, IsMessage, IsPart
  <2>2. items[j] = OpenAIAdapter!Item(m.role, x)
    BY <1>1
  <2> HIDE DEF x
  <2>3. CASE x.kind = "text"
    <3>1. items[j].role = m.role /\ items[j].parts = <<text>>
      <4>1. OpenAIAdapter!Item(m.role, x) = OpenAIAdapter!Turn(m.role, <<text>>)
        BY <2>3, Zenon DEF OpenAIAdapter!Item
      <4> HIDE DEF text
      <4> QED BY <2>2, <4>1 DEF OpenAIAdapter!Turn
    <3>2. Atom("openai", m.role, text) = Atom("openai", m.role, x) /\ Secret(text) = <<>>
      BY <2>3 DEF Atom, Secret, OpenAIAdapter!Text
    <3> HIDE DEF text
    <3>3. View(v, m.role, text) = View(w, m.role, x)
      BY <3>2 DEF View
    <3> QED BY <3>1, <3>3 DEF x
  <2>4. CASE x.kind = "tool_call"
    <3>1. items[j].role = "function_call" /\ items[j].parts = <<call>>
      BY <2>2, <2>4 DEF OpenAIAdapter!Item, OpenAIAdapter!Turn
    <3>2. m.role = "assistant"
      BY <1>2, <2>1, <2>4 DEF Allowed, Roles
    <3>3. /\ Atom("openai", "function_call", call) = Atom("openai", m.role, x)
          /\ Secret(call) = <<>>
      BY <2>4, <3>2 DEF Atom, Side, Secret, OpenAIAdapter!ToolCall, OpenAIAdapter!NoSignature,
          NoSignature
    <3> HIDE DEF call
    <3>4. View(v, "function_call", call) = View(w, m.role, x)
      BY <3>3 DEF View
    <3> QED BY <3>1, <3>4 DEF x
  <2>5. CASE x.kind = "tool_result"
    <3>1. items[j].role = "function_call_output" /\ items[j].parts = <<result>>
      BY <2>2, <2>5, SameUnmarked DEF OpenAIAdapter!Item, OpenAIAdapter!Turn
    <3>2. m.role = "tool"
      BY <1>2, <2>1, <2>5 DEF Allowed, Roles
    <3>3. /\ Atom("openai", "function_call_output", result) = Atom("openai", m.role, x)
          /\ Secret(result) = <<>>
      <4>1. Side("function_call_output") = Side(m.role) /\ "openai" \notin HearsErrors
        BY <3>2 DEF Side, HearsErrors
      <4> QED BY <2>5, <4>1, UnmarkedSays
    <3> HIDE DEF result
    <3>4. View(v, "function_call_output", result) = View(w, m.role, x)
      BY <3>3 DEF View
    <3> QED BY <3>1, <3>4 DEF x
  <2> QED BY <2>1, <2>3, <2>4, <2>5 DEF Kinds
<1>4. AreTurns(items) /\ Told(v, items) = Said(w, m.role, m.parts)
  <2>1. SayOne(v, items, w, m.role, m.parts)
    BY <1>1, <1>3, Zenon DEF SayOne
  <2> QED BY <1>2, <2>1, SingleTurns
<1> QED BY <1>4 DEF items

LEMMA OpenAIIsTold ==
    ASSUME NEW req, AreMessages(req.messages),
           \A i \in DOMAIN req.messages : Legal(req.messages[i]),
           NEW turns, turns = OpenAIAdapter!buildInput(req).turns
    PROVE  /\ Told(<<"atom", "openai">>, turns) = Told(<<"atom", "openai">>, req.messages)
           /\ Told(<<"secret", "openai">>, turns) = <<>>
<1> DEFINE msgs == ReasoningFrom("openai", req.messages)
           ss == [i \in DOMAIN msgs |-> OpenAIAdapter!Items(msgs[i])]
<1>1. turns = FlattenSeq(ss)
  <2>1. OpenAIAdapter!ReasoningFrom("openai", req.messages) = msgs
    BY SameFilter, Zenon
  <2>2. OpenAIAdapter!FlattenSeq(ss) = FlattenSeq(ss)
    BY SameJoining, Zenon
  <2> HIDE DEF msgs
  <2> QED BY <2>1, <2>2 DEF OpenAIAdapter!buildInput
<1>2. SeenIn("openai", msgs, req.messages)
  BY FilteredAreLegal, Zenon
<1>3. Told(<<"atom", "openai">>, msgs) = Told(<<"atom", "openai">>, req.messages)
  <2>1. Hides("openai", <<"atom", "openai">>, <<"atom", "openai">>)
    BY AtomsStay
  <2> QED BY <2>1, FilterTells, Zenon
<1>4. /\ ss = [i \in DOMAIN msgs |-> ss[i]] /\ DOMAIN ss = DOMAIN msgs
      /\ \A i \in DOMAIN msgs : ss[i] = OpenAIAdapter!Items(msgs[i])
  OBVIOUS
<1> HIDE DEF msgs, ss
<1>5. IsSequence(ss)
  <2>1. IsSequence(msgs)
    BY <1>2 DEF SeenIn, AreMessages
  <2> QED BY <1>4, <2>1, MadeIsSequence
<1>6. ASSUME NEW v, NEW w,
             \/ v = <<"atom", "openai">> /\ w = v
             \/ v = <<"secret", "openai">> /\ w = <<"nothing", "openai">>
      PROVE  Told(v, turns) = Told(w, msgs)
  <2>1. ASSUME NEW i \in DOMAIN ss
        PROVE  AreTurns(ss[i]) /\ Told(v, ss[i]) = Said(w, msgs[i].role, msgs[i].parts)
    <3>1. AsSeen("openai", msgs[i]) /\ ss[i] = OpenAIAdapter!Items(msgs[i])
      BY <1>2, <1>4 DEF SeenIn
    <3> QED BY <1>6, <3>1, OpenAIItemsSay
  <2> QED BY <1>1, <1>4, <1>5, <2>1, SpreadTells
<1>7. Told(<<"secret", "openai">>, turns) = Told(<<"nothing", "openai">>, msgs)
  BY <1>6
<1>8. Told(<<"nothing", "openai">>, msgs) = <<>>
  BY <1>2, NothingTells, Zenon DEF SeenIn
<1>9. Told(<<"atom", "openai">>, turns) = Told(<<"atom", "openai">>, msgs)
  BY <1>6
<1> QED BY <1>3, <1>7, <1>8, <1>9

-----------------------------------------------------------------------------
(***************************************************************************)
(* What the servers with one text in a message are told                    *)
(***************************************************************************)

\* The parts of one kind, each made into a part of the request that says the
\* same.
LEMMA MappedSay ==
    ASSUME NEW v, NEW w, NEW role, NEW job, NEW parts, IsSequence(parts), NEW kind, NEW t,
           t = [i \in DOMAIN Only(kind, parts) |-> t[i]],
           \A i \in DOMAIN t : View(v, job, t[i]) = View(v, role, Only(kind, parts)[i]),
           \A j \in DOMAIN parts : View(w, role, parts[j]) =
              IF parts[j].kind = kind THEN View(v, role, parts[j]) ELSE <<>>
    PROVE  Said(v, job, t) = Said(w, role, parts)
<1> DEFINE places == {i \in DOMAIN parts : parts[i].kind = kind}
           only == Picked(parts, places)
<1>1. Only(kind, parts) = only
  BY DEF Only
<1>2. \A j \in DOMAIN parts : View(w, role, parts[j]) =
         IF j \in places THEN View(v, role, parts[j]) ELSE <<>>
  OBVIOUS
<1> HIDE DEF places
<1>3. Said(v, role, only) = Said(w, role, parts)
  BY <1>2, SaidPicked
<1> HIDE DEF only
<1>4. DOMAIN t = DOMAIN only /\ \A i \in DOMAIN t : View(v, job, t[i]) = View(v, role, only[i])
  BY <1>1
<1>5. Said(v, job, t) = Said(v, role, only)
  BY <1>4, SaidAlike
<1> QED BY <1>3, <1>5

\* The parts of one kind are a sequence, of that kind.
LEMMA OnlyIsSequence ==
    ASSUME NEW parts, IsSequence(parts), NEW kind
    PROVE  /\ IsSequence(Only(kind, parts))
           /\ \A i \in DOMAIN Only(kind, parts) : Only(kind, parts)[i].kind = kind
<1> DEFINE s == Only(kind, parts)
<1>1. IsSequence(s) /\ \A j \in DOMAIN s : \E i \in DOMAIN parts : s[j] = parts[i] /\ parts[i].kind = kind
  BY OnlyAre
<1> HIDE DEF s
<1>2. \A j \in DOMAIN s : s[j].kind = kind
  BY <1>1
<1> QED BY <1>1, <1>2 DEF s

\* The texts of a message, without their markers.
BareTexts(parts) ==
    [i \in DOMAIN Only("text", parts) |-> Text(Only("text", parts)[i].body, FALSE)]

\* The calls of a message, without their signatures.
BareCalls(parts) ==
    [i \in DOMAIN Only("tool_call", parts) |->
        ToolCall(Only("tool_call", parts)[i].id, Only("tool_call", parts)[i].name, NoSignature)]

LEMMA BareTextsSay ==
    ASSUME NEW q, NEW role, NEW parts, IsSequence(parts)
    PROVE  /\ IsSequence(BareTexts(parts))
           /\ Said(<<"atom", q>>, role, BareTexts(parts)) = Said(<<"text", q>>, role, parts)
           /\ Said(<<"secret", q>>, role, BareTexts(parts)) = <<>>
<1> DEFINE t == BareTexts(parts)
           only == Only("text", parts)
<1>1. IsSequence(only) /\ \A i \in DOMAIN only : only[i].kind = "text"
  BY OnlyIsSequence, Zenon
<1>2. /\ t = [i \in DOMAIN only |-> t[i]]
      /\ \A i \in DOMAIN only : t[i] = Text(only[i].body, FALSE)
  BY DEF BareTexts
<1> HIDE DEF t, only
<1>3. IsSequence(t) /\ DOMAIN t = DOMAIN only
  BY <1>1, <1>2, MadeIsSequence
<1>4. ASSUME NEW i \in DOMAIN only
      PROVE  /\ View(<<"atom", q>>, role, t[i]) = View(<<"atom", q>>, role, only[i])
             /\ View(<<"secret", q>>, role, t[i]) = <<>>
  <2>1. t[i].kind = "text" /\ t[i].body = only[i].body /\ only[i].kind = "text"
    BY <1>1, <1>2 DEF Text
  <2> QED BY <2>1 DEF View, Atom, Secret
<1>5. \A x : View(<<"text", q>>, role, x) =
                IF x.kind = "text" THEN View(<<"atom", q>>, role, x) ELSE <<>>
  BY DEF View
<1>6. Said(<<"atom", q>>, role, t) = Said(<<"text", q>>, role, parts)
  <2> DEFINE v == <<"atom", q>>
             w == <<"text", q>>
  <2>1. \A i \in DOMAIN t : View(v, role, t[i]) = View(v, role, Only("text", parts)[i])
    BY <1>3, <1>4 DEF only
  <2>2. \A j \in DOMAIN parts : View(w, role, parts[j]) =
           IF parts[j].kind = "text" THEN View(v, role, parts[j]) ELSE <<>>
    BY <1>5
  <2>3. t = [i \in DOMAIN Only("text", parts) |-> t[i]]
    BY <1>2 DEF only
  <2> HIDE DEF v, w
  <2>4. Said(v, role, t) = Said(w, role, parts)
    BY <2>1, <2>2, <2>3, MappedSay
  <2> QED BY <2>4 DEF v, w
<1>7. Said(<<"secret", q>>, role, t) = <<>>
  BY <1>3, <1>4, SaidNothing
<1> QED BY <1>3, <1>6, <1>7 DEF t

LEMMA BareCallsSay ==
    ASSUME NEW q, NEW role, NEW parts, IsSequence(parts)
    PROVE  /\ IsSequence(BareCalls(parts))
           /\ Said(<<"atom", q>>, role, BareCalls(parts)) = Said(<<"call", q>>, role, parts)
           /\ Said(<<"secret", q>>, role, BareCalls(parts)) = <<>>
<1> DEFINE t == BareCalls(parts)
           only == Only("tool_call", parts)
<1>1. IsSequence(only) /\ \A i \in DOMAIN only : only[i].kind = "tool_call"
  BY OnlyIsSequence, Zenon
<1>2. /\ t = [i \in DOMAIN only |-> t[i]]
      /\ \A i \in DOMAIN only : t[i] = ToolCall(only[i].id, only[i].name, NoSignature)
  BY DEF BareCalls
<1> HIDE DEF t, only
<1>3. IsSequence(t) /\ DOMAIN t = DOMAIN only
  BY <1>1, <1>2, MadeIsSequence
<1>4. ASSUME NEW i \in DOMAIN only
      PROVE  /\ View(<<"atom", q>>, role, t[i]) = View(<<"atom", q>>, role, only[i])
             /\ View(<<"secret", q>>, role, t[i]) = <<>>
  <2>1. /\ t[i].kind = "tool_call" /\ only[i].kind = "tool_call"
        /\ t[i].id = only[i].id /\ t[i].name = only[i].name /\ t[i].signature = NoSignature
    BY <1>1, <1>2 DEF ToolCall
  <2> QED BY <2>1 DEF View, Atom, Secret
<1>5. \A x : View(<<"call", q>>, role, x) =
                IF x.kind = "tool_call" THEN View(<<"atom", q>>, role, x) ELSE <<>>
  BY DEF View
<1>6. Said(<<"atom", q>>, role, t) = Said(<<"call", q>>, role, parts)
  <2> DEFINE v == <<"atom", q>>
             w == <<"call", q>>
  <2>1. \A i \in DOMAIN t : View(v, role, t[i]) = View(v, role, Only("tool_call", parts)[i])
    BY <1>3, <1>4 DEF only
  <2>2. \A j \in DOMAIN parts : View(w, role, parts[j]) =
           IF parts[j].kind = "tool_call" THEN View(v, role, parts[j]) ELSE <<>>
    BY <1>5
  <2>3. t = [i \in DOMAIN Only("tool_call", parts) |-> t[i]]
    BY <1>2 DEF only
  <2> HIDE DEF v, w
  <2>4. Said(v, role, t) = Said(w, role, parts)
    BY <2>1, <2>2, <2>3, MappedSay
  <2> QED BY <2>4 DEF v, w
<1>7. Said(<<"secret", q>>, role, t) = <<>>
  BY <1>3, <1>4, SaidNothing
<1> QED BY <1>3, <1>6, <1>7 DEF t

\* The texts of a message and then the rest of it.
LEMMA TextFirstSays ==
    ASSUME NEW q, NEW role, NEW parts, IsSequence(parts)
    PROVE  /\ IsSequence(TextFirst(parts))
           /\ Said(<<"atom", q>>, role, TextFirst(parts))
                 = Said(<<"text", q>>, role, parts) \o Said(<<"rest", q>>, role, parts)
<1> DEFINE texts == {i \in DOMAIN parts : parts[i].kind = "text"}
           others == {i \in DOMAIN parts : parts[i].kind # "text"}
           s == Picked(parts, texts)
           t == Picked(parts, others)
           v == <<"atom", q>>
<1>1. TextFirst(parts) = s \o t
  BY DEF TextFirst, Only
<1>2. IsSequence(s) /\ IsSequence(t)
  BY PickedIsSequence, Zenon
<1>3. /\ \A j \in DOMAIN parts : View(<<"text", q>>, role, parts[j]) =
            IF j \in texts THEN View(v, role, parts[j]) ELSE <<>>
      /\ \A j \in DOMAIN parts : View(<<"rest", q>>, role, parts[j]) =
            IF j \in others THEN View(v, role, parts[j]) ELSE <<>>
  BY DEF View
<1> HIDE DEF texts, others
<1>4. Said(v, role, s) = Said(<<"text", q>>, role, parts)
  BY <1>3, SaidPicked
<1>5. Said(v, role, t) = Said(<<"rest", q>>, role, parts)
  BY <1>3, SaidPicked
<1> HIDE DEF s, t, v
<1>6. Said(v, role, s \o t) = Said(v, role, s) \o Said(v, role, t)
  BY <1>2, SaidJoined
<1>7. IsSequence(s \o t)
  BY <1>2, JoinIsSequence, Zenon
<1> QED BY <1>1, <1>4, <1>5, <1>6, <1>7 DEF v

\* Both adapters make the same of texts and of calls.
LEMMA SameBare ==
    ASSUME NEW parts
    PROVE  /\ CompatAdapter!Texts(parts) = BareTexts(parts)
           /\ CompatAdapter!Calls(parts) = BareCalls(parts)
           /\ OllamaAdapter!Texts(parts) = BareTexts(parts)
           /\ OllamaAdapter!Calls(parts) = BareCalls(parts)
BY SameOnly DEF BareTexts, BareCalls, CompatAdapter!Texts, CompatAdapter!Calls,
    OllamaAdapter!Texts, OllamaAdapter!Calls, CompatAdapter!Text, OllamaAdapter!Text, Text,
    CompatAdapter!ToolCall, OllamaAdapter!ToolCall, ToolCall,
    CompatAdapter!NoSignature, OllamaAdapter!NoSignature, NoSignature

\* One turn.
LEMMA ToldOne ==
    ASSUME NEW v, NEW t, IsSequence(t.parts)
    PROVE  AreTurns(<<t>>) /\ Told(v, <<t>>) = Said(v, t.role, t.parts)
<1>1. AreTurns(<<>>)
  BY DEF AreTurns, IsSequence
<1>2. <<t>> = Append(<<>>, t)
  OBVIOUS
<1>3. Told(v, <<t>>) = <<>> \o Said(v, t.role, t.parts)
  BY <1>1, <1>2, ToldMore, ToldNone
<1>4. <<>> \o Said(v, t.role, t.parts) = Said(v, t.role, t.parts)
  <2>1. IsSequence(Said(v, t.role, t.parts))
    BY SaidIsSequence, Zenon
  <2> QED BY <2>1, JoinNothing, Zenon
<1>5. AreTurns(<<t>>)
  <2>1. IsSequence(<<t>>)
    BY Single
  <2> QED BY <2>1 DEF AreTurns
<1> QED BY <1>3, <1>4, <1>5

\* What is seen of the texts of a message and of the rest, as far as its role
\* allows them.
LEMMA RolesSay ==
    ASSUME NEW q, NEW m, AsSeen(q, m), q # "anthropic"
    PROVE  /\ m.role = "user" => Said(<<"rest", q>>, m.role, m.parts) = <<>>
           /\ m.role = "tool" => /\ Said(<<"text", q>>, m.role, m.parts) = <<>>
                                 /\ Said(<<"call", q>>, m.role, m.parts) = <<>>
           /\ m.role # "assistant" => Said(<<"call", q>>, m.role, m.parts) = <<>>
           /\ m.role # "tool" =>
                 /\ Said(<<"result", q>>, m.role, m.parts) = <<>>
                 /\ Said(<<"rest", q>>, m.role, m.parts) = Said(<<"call", q>>, m.role, m.parts)
           /\ m.role = "tool" =>
                 Said(<<"rest", q>>, m.role, m.parts) = Said(<<"result", q>>, m.role, m.parts)
<1>1. /\ m.role \in Roles /\ IsSequence(m.parts)
      /\ \A j \in DOMAIN m.parts :
            m.parts[j].kind \in Allowed(m.role) /\ m.parts[j].kind # "reasoning"
  BY DEF AsSeen, IsMessage
<1>2. CASE m.role = "user"
  <2>1. \A j \in DOMAIN m.parts : m.parts[j].kind = "text"
    BY <1>1, <1>2 DEF Allowed
  <2>2. \A j \in DOMAIN m.parts :
           /\ View(<<"rest", q>>, m.role, m.parts[j]) = <<>>
           /\ View(<<"call", q>>, m.role, m.parts[j]) = <<>>
           /\ View(<<"result", q>>, m.role, m.parts[j]) = <<>>
    BY <2>1 DEF View
  <2>3. /\ Said(<<"rest", q>>, m.role, m.parts) = <<>>
        /\ Said(<<"call", q>>, m.role, m.parts) = <<>>
        /\ Said(<<"result", q>>, m.role, m.parts) = <<>>
    BY <1>1, <2>2, SaidNothing
  <2> QED BY <1>2, <2>3
<1>3. CASE m.role = "assistant"
  <2>1. \A j \in DOMAIN m.parts : m.parts[j].kind \in {"text", "tool_call"}
    BY <1>1, <1>3 DEF Allowed
  <2>2. \A j \in DOMAIN m.parts :
           /\ View(<<"result", q>>, m.role, m.parts[j]) = <<>>
           /\ View(<<"rest", q>>, m.role, m.parts[j]) = View(<<"call", q>>, m.role, m.parts[j])
    BY <2>1 DEF View
  <2>3. Said(<<"result", q>>, m.role, m.parts) = <<>>
    BY <1>1, <2>2, SaidNothing
  <2>4. Said(<<"rest", q>>, m.role, m.parts) = Said(<<"call", q>>, m.role, m.parts)
    BY <2>2, SaidAlike
  <2> QED BY <1>3, <2>3, <2>4
<1>4. CASE m.role = "tool"
  <2>1. \A j \in DOMAIN m.parts : m.parts[j].kind = "tool_result"
    BY <1>1, <1>4 DEF Allowed
  <2>2. \A j \in DOMAIN m.parts :
           /\ View(<<"text", q>>, m.role, m.parts[j]) = <<>>
           /\ View(<<"call", q>>, m.role, m.parts[j]) = <<>>
           /\ View(<<"rest", q>>, m.role, m.parts[j]) = View(<<"result", q>>, m.role, m.parts[j])
    BY <2>1 DEF View
  <2>3. /\ Said(<<"text", q>>, m.role, m.parts) = <<>>
        /\ Said(<<"call", q>>, m.role, m.parts) = <<>>
    BY <1>1, <2>2, SaidNothing
  <2>4. Said(<<"rest", q>>, m.role, m.parts) = Said(<<"result", q>>, m.role, m.parts)
    BY <2>2, SaidAlike
  <2> QED BY <1>4, <2>3, <2>4
<1> QED BY <1>1, <1>2, <1>3, <1>4 DEF Roles

\* A message of texts and calls.
LEMMA TextsAndCallsSay ==
    ASSUME NEW q, NEW role, NEW parts, IsSequence(parts), NEW rest,
           rest = BareTexts(parts) \o BareCalls(parts)
    PROVE  /\ IsSequence(rest)
           /\ Said(<<"atom", q>>, role, rest)
                 = Said(<<"text", q>>, role, parts) \o Said(<<"call", q>>, role, parts)
           /\ Said(<<"secret", q>>, role, rest) = <<>>
<1> DEFINE s == BareTexts(parts)
           t == BareCalls(parts)
<1>1. /\ IsSequence(s) /\ Said(<<"secret", q>>, role, s) = <<>>
      /\ Said(<<"atom", q>>, role, s) = Said(<<"text", q>>, role, parts)
  BY BareTextsSay
<1>2. /\ IsSequence(t) /\ Said(<<"secret", q>>, role, t) = <<>>
      /\ Said(<<"atom", q>>, role, t) = Said(<<"call", q>>, role, parts)
  BY BareCallsSay
<1>3. rest = s \o t
  OBVIOUS
<1> HIDE DEF s, t
<1>4. IsSequence(rest)
  BY <1>1, <1>2, <1>3, JoinIsSequence
<1>5. Said(<<"atom", q>>, role, s \o t) = Said(<<"atom", q>>, role, s) \o Said(<<"atom", q>>, role, t)
  BY <1>1, <1>2, SaidJoined
<1>6. Said(<<"secret", q>>, role, s \o t) = Said(<<"secret", q>>, role, s) \o Said(<<"secret", q>>, role, t)
  BY <1>1, <1>2, SaidJoined
<1>7. IsSequence(<<>>)
  BY DEF IsSequence
<1>8. <<>> \o <<>> = <<>>
  BY <1>7, JoinNothing
<1>9. Said(<<"secret", q>>, role, s \o t) = <<>>
  BY <1>1, <1>2, <1>6, <1>8, Zenon
<1>10. Said(<<"atom", q>>, role, s \o t)
          = Said(<<"text", q>>, role, parts) \o Said(<<"call", q>>, role, parts)
  BY <1>1, <1>2, <1>5, Zenon
<1> QED BY <1>3, <1>4, <1>9, <1>10, Zenon

\* What is seen of one role's message, text first.
SpeaksFor(q, turns, m) ==
    /\ AreTurns(turns)
    /\ Told(<<"atom", q>>, turns)
          = Said(<<"text", q>>, m.role, m.parts) \o Said(<<"rest", q>>, m.role, m.parts)
    /\ Told(<<"secret", q>>, turns) = <<>>

LEMMA CompatSpeaks ==
    ASSUME NEW m, AsSeen("openai-compat", m)
    PROVE  SpeaksFor("openai-compat", CompatAdapter!Messages(m), m)
<1> DEFINE q == "openai-compat"
           turns == CompatAdapter!Messages(m)
           text == Said(<<"text", q>>, m.role, m.parts)
           rest == Said(<<"rest", q>>, m.role, m.parts)
<1>1. /\ m.role \in Roles /\ IsSequence(m.parts)
      /\ \A j \in DOMAIN m.parts : m.parts[j].kind \in Allowed(m.role)
  BY DEF AsSeen, IsMessage
<1>2. IsSequence(text) /\ IsSequence(rest)
  BY <1>1, SaidIsSequence, Zenon
<1>3. /\ m.role = "user" => rest = <<>>
      /\ m.role = "tool" => text = <<>>
      /\ m.role = "assistant" => rest = Said(<<"call", q>>, m.role, m.parts)
  BY RolesSay
<1> SUFFICES /\ AreTurns(turns) /\ Told(<<"atom", q>>, turns) = text \o rest
             /\ Told(<<"secret", q>>, turns) = <<>>
  BY DEF SpeaksFor
<1> HIDE DEF text, rest
<1>4. CASE m.role = "user"
  <2> DEFINE t == Turn("user", BareTexts(m.parts))
  <2>1. turns = <<t>>
    BY <1>4, SameBare DEF CompatAdapter!Messages, CompatAdapter!Turn, Turn
  <2>2. t.role = "user" /\ t.parts = BareTexts(m.parts)
    BY DEF Turn
  <2> HIDE DEF t, turns, q
  <2>3. /\ IsSequence(t.parts) /\ Said(<<"secret", q>>, t.role, t.parts) = <<>>
        /\ Said(<<"atom", q>>, t.role, t.parts) = text
    BY <1>1, <1>4, <2>2, BareTextsSay DEF text
  <2>4. AreTurns(turns) /\ \A v : Told(v, turns) = Said(v, t.role, t.parts)
    BY <2>1, <2>3, ToldOne
  <2>5. text \o rest = text
    BY <1>2, <1>3, <1>4, JoinNothing
  <2> QED BY <2>3, <2>4, <2>5
<1>5. CASE m.role = "assistant"
  <2> DEFINE both == BareTexts(m.parts) \o BareCalls(m.parts)
             t == Turn("assistant", both)
  <2>1. turns = <<t>>
    BY <1>5, SameBare DEF CompatAdapter!Messages, CompatAdapter!assistantMessage,
       CompatAdapter!Turn, Turn
  <2>2. t.role = "assistant" /\ t.parts = both
    BY DEF Turn
  <2> HIDE DEF t, turns, q
  <2>3. /\ IsSequence(both) /\ Said(<<"secret", q>>, m.role, both) = <<>>
        /\ Said(<<"atom", q>>, m.role, both)
              = Said(<<"text", q>>, m.role, m.parts) \o Said(<<"call", q>>, m.role, m.parts)
    BY <1>1, TextsAndCallsSay
  <2>5. Said(<<"atom", q>>, m.role, both) = text \o rest
    BY <1>3, <1>5, <2>3, Zenon DEF text
  <2> HIDE DEF both
  <2>4. AreTurns(turns) /\ \A v : Told(v, turns) = Said(v, m.role, both)
    BY <1>5, <2>1, <2>2, <2>3, ToldOne
  <2> QED BY <2>3, <2>4, <2>5
<1>6. CASE m.role = "tool"
  <2>1. turns = CompatAdapter!ToolMessages(m.parts)
    BY <1>6 DEF CompatAdapter!Messages
  <2>2. /\ turns = [j \in DOMAIN m.parts |-> turns[j]]
        /\ \A j \in DOMAIN m.parts :
              turns[j].role = "tool" /\ turns[j].parts = <<Unmarked(m.parts[j])>>
    BY <2>1, SameUnmarked DEF CompatAdapter!ToolMessages, CompatAdapter!Turn
  <2>3. \A j \in DOMAIN m.parts : m.parts[j].kind = "tool_result"
    BY <1>1, <1>6 DEF Allowed
  <2> HIDE DEF turns, q
  <2>4. \A j \in DOMAIN m.parts :
           /\ View(<<"atom", q>>, "tool", Unmarked(m.parts[j]))
                 = View(<<"rest", q>>, m.role, m.parts[j])
           /\ View(<<"secret", q>>, "tool", Unmarked(m.parts[j]))
                 = View(<<"nothing", q>>, m.role, m.parts[j])
    <3>1. q \notin HearsErrors
      BY DEF q, HearsErrors
    <3> HIDE DEF Unmarked
    <3> QED BY <1>6, <2>3, <3>1, UnmarkedSays DEF View
  <2>5. /\ SayOne(<<"atom", q>>, turns, <<"rest", q>>, m.role, m.parts)
        /\ SayOne(<<"secret", q>>, turns, <<"nothing", q>>, m.role, m.parts)
    BY <2>2, <2>4 DEF SayOne
  <2>6. AreTurns(turns) /\ Told(<<"atom", q>>, turns) = rest
    BY <1>1, <2>5, SingleTurns DEF rest
  <2>7. Told(<<"secret", q>>, turns) = Said(<<"nothing", q>>, m.role, m.parts)
    BY <1>1, <2>5, SingleTurns
  <2>8. Said(<<"nothing", q>>, m.role, m.parts) = <<>>
    BY <1>1, NothingSays, Zenon
  <2>9. text \o rest = rest
    BY <1>2, <1>3, <1>6, JoinNothing
  <2> QED BY <2>6, <2>7, <2>8, <2>9
<1> QED BY <1>1, <1>4, <1>5, <1>6 DEF Roles

\* Message by message, they are told the transcript with each message's texts
\* first.
LEMMA SpokenIsTold ==
    ASSUME NEW q, NEW all, AreMessages(all), \A i \in DOMAIN all : Legal(all[i]),
           NEW ss, IsSequence(ss), DOMAIN ss = DOMAIN all,
           \A i \in DOMAIN ss : SpeaksFor(q, ss[i], SeenOf(q, all[i])),
           NEW meant, meant = [i \in DOMAIN all |-> Turn(all[i].role, TextFirst(all[i].parts))]
    PROVE  /\ Told(<<"atom", q>>, FlattenSeq(ss)) = Told(<<"atom", q>>, meant)
           /\ Told(<<"secret", q>>, FlattenSeq(ss)) = <<>>
<1>1. DOMAIN meant = DOMAIN all
  OBVIOUS
<1>2. \A i \in DOMAIN ss : AreTurns(ss[i])
  BY DEF SpeaksFor
<1>3. ASSUME NEW i \in DOMAIN ss
      PROVE  /\ Told(<<"atom", q>>, ss[i]) = Said(<<"atom", q>>, meant[i].role, meant[i].parts)
             /\ Told(<<"secret", q>>, ss[i]) = Said(<<"nothing", q>>, all[i].role, all[i].parts)
  <2> DEFINE m == all[i]
             t == SeenOf(q, m)
  <2>1. Legal(m) /\ IsSequence(m.parts)
    BY DEF AreMessages, IsMessage
  <2>2. meant[i].role = m.role /\ meant[i].parts = TextFirst(m.parts)
    BY DEF Turn
  <2>3. t.role = m.role
    BY DEF SeenOf, Turn
  <2>4. SpeaksFor(q, ss[i], t)
    OBVIOUS
  <2>5. Hides(q, <<"text", q>>, <<"text", q>>) /\ Hides(q, <<"rest", q>>, <<"rest", q>>)
    BY AtomsStay
  <2> HIDE DEF m
  <2>6. /\ Said(<<"text", q>>, m.role, t.parts) = Said(<<"text", q>>, m.role, m.parts)
        /\ Said(<<"rest", q>>, m.role, t.parts) = Said(<<"rest", q>>, m.role, m.parts)
    BY <2>1, <2>5, FilterSays
  <2> HIDE DEF t
  <2>7. Said(<<"atom", q>>, m.role, TextFirst(m.parts))
           = Said(<<"text", q>>, m.role, m.parts) \o Said(<<"rest", q>>, m.role, m.parts)
    BY <2>1, TextFirstSays
  <2>8. Told(<<"atom", q>>, ss[i]) = Said(<<"atom", q>>, m.role, TextFirst(m.parts))
    BY <2>3, <2>4, <2>6, <2>7 DEF SpeaksFor
  <2>9. Told(<<"secret", q>>, ss[i]) = Said(<<"nothing", q>>, m.role, m.parts)
    <3>1. Said(<<"nothing", q>>, m.role, m.parts) = <<>>
      BY <2>1, NothingSays, Zenon
    <3> QED BY <2>4, <3>1 DEF SpeaksFor
  <2> QED BY <2>2, <2>8, <2>9 DEF m
<1>4. Told(<<"atom", q>>, FlattenSeq(ss)) = Told(<<"atom", q>>, meant)
  BY <1>1, <1>2, <1>3, SpreadTells
<1>5. Told(<<"secret", q>>, FlattenSeq(ss)) = Told(<<"nothing", q>>, all)
  BY <1>2, <1>3, SpreadTells
<1>6. Told(<<"nothing", q>>, all) = <<>>
  BY MessagesAreTurns, NothingTells, Zenon
<1> QED BY <1>4, <1>5, <1>6

\* What an application means for such a server.
FirstTexts(msgs) == [i \in DOMAIN msgs |-> Turn(msgs[i].role, TextFirst(msgs[i].parts))]

LEMMA CompatIsTold ==
    ASSUME NEW req, AreMessages(req.messages),
           \A i \in DOMAIN req.messages : Legal(req.messages[i]),
           NEW turns, turns = CompatAdapter!buildMessages(req).turns
    PROVE  /\ Told(<<"atom", "openai-compat">>, turns)
                 = Told(<<"atom", "openai-compat">>, FirstTexts(req.messages))
           /\ Told(<<"secret", "openai-compat">>, turns) = <<>>
<1> DEFINE msgs == ReasoningFrom("openai-compat", req.messages)
           ss == [i \in DOMAIN msgs |-> CompatAdapter!Messages(msgs[i])]
<1>1. turns = FlattenSeq(ss)
  <2>1. CompatAdapter!ReasoningFrom("openai-compat", req.messages) = msgs
    BY SameFilter, Zenon
  <2>2. CompatAdapter!FlattenSeq(ss) = FlattenSeq(ss)
    BY SameJoining, Zenon
  <2> HIDE DEF msgs
  <2> QED BY <2>1, <2>2 DEF CompatAdapter!buildMessages
<1>2. SeenIn("openai-compat", msgs, req.messages)
  BY FilteredAreLegal, Zenon
<1>3. /\ ss = [i \in DOMAIN msgs |-> ss[i]] /\ DOMAIN ss = DOMAIN msgs
      /\ \A i \in DOMAIN msgs : ss[i] = CompatAdapter!Messages(msgs[i])
  OBVIOUS
<1> HIDE DEF msgs, ss
<1>4. IsSequence(ss) /\ DOMAIN ss = DOMAIN req.messages
  <2>1. IsSequence(msgs) /\ DOMAIN msgs = DOMAIN req.messages
    BY <1>2 DEF SeenIn, AreMessages
  <2> QED BY <1>3, <2>1, MadeIsSequence
<1>5. ASSUME NEW i \in DOMAIN ss
      PROVE  SpeaksFor("openai-compat", ss[i], SeenOf("openai-compat", req.messages[i]))
  <2>1. /\ AsSeen("openai-compat", msgs[i]) /\ ss[i] = CompatAdapter!Messages(msgs[i])
        /\ msgs[i] = SeenOf("openai-compat", req.messages[i])
    BY <1>2, <1>3, <1>4 DEF SeenIn
  <2>2. SpeaksFor("openai-compat", CompatAdapter!Messages(msgs[i]), msgs[i])
    BY <2>1, CompatSpeaks, Zenon
  <2> QED BY <2>1, <2>2
<1>6. FirstTexts(req.messages)
         = [i \in DOMAIN req.messages |->
               Turn(req.messages[i].role, TextFirst(req.messages[i].parts))]
  BY DEF FirstTexts
<1> QED BY <1>1, <1>4, <1>5, <1>6, SpokenIsTold

\* Ollama's messages for the results of a message, and for the rest of it.
LEMMA OllamaResultsSay ==
    ASSUME NEW parts, IsSequence(parts), NEW turns,
           turns = [j \in DOMAIN Only("tool_result", parts) |->
                       Turn("tool", <<Unmarked(Only("tool_result", parts)[j])>>)]
    PROVE  /\ AreTurns(turns)
           /\ Told(<<"atom", "ollama">>, turns) = Said(<<"result", "ollama">>, "tool", parts)
           /\ Told(<<"secret", "ollama">>, turns) = <<>>
<1> DEFINE results == Only("tool_result", parts)
           v == <<"atom", "ollama">>
           s == <<"secret", "ollama">>
<1>1. IsSequence(results) /\ \A j \in DOMAIN results : results[j].kind = "tool_result"
  BY OnlyIsSequence
<1>2. /\ turns = [j \in DOMAIN results |-> turns[j]]
      /\ \A j \in DOMAIN results :
            turns[j].role = "tool" /\ turns[j].parts = <<Unmarked(results[j])>>
  BY DEF Turn
<1>3. Said(v, "tool", results) = Said(<<"result", "ollama">>, "tool", parts)
  <2>1. \A j \in DOMAIN parts :
           View(<<"result", "ollama">>, "tool", parts[j]) =
              IF j \in {i \in DOMAIN parts : parts[i].kind = "tool_result"}
              THEN View(v, "tool", parts[j]) ELSE <<>>
    BY DEF View
  <2>2. results = Picked(parts, {i \in DOMAIN parts : parts[i].kind = "tool_result"})
    BY DEF Only
  <2> HIDE DEF results, v
  <2> QED BY <2>1, <2>2, SaidPicked
<1>4. \A j \in DOMAIN results : View(s, "tool", results[j]) = <<>>
  BY <1>1 DEF View, Secret
<1>5. \A j \in DOMAIN results :
         /\ View(v, "tool", Unmarked(results[j])) = View(v, "tool", results[j])
         /\ View(s, "tool", Unmarked(results[j])) = View(s, "tool", results[j])
  <2>1. "ollama" \notin HearsErrors
    BY DEF HearsErrors
  <2> HIDE DEF results
  <2> QED BY <1>1, <1>4, <2>1, UnmarkedSays DEF View
<1> HIDE DEF results, v, s
<1>6. Said(s, "tool", results) = <<>>
  BY <1>1, <1>4, SaidNothing
<1>7. SayOne(v, turns, v, "tool", results) /\ SayOne(s, turns, s, "tool", results)
  BY <1>2, <1>5, Zenon DEF SayOne
<1>8. AreTurns(turns) /\ Told(v, turns) = Said(v, "tool", results)
  BY <1>1, <1>7, SingleTurns
<1>9. Told(s, turns) = Said(s, "tool", results)
  BY <1>1, <1>7, SingleTurns
<1> QED BY <1>3, <1>6, <1>8, <1>9 DEF v, s

OllamaRest(role, rest) == IF rest = <<>> THEN <<>> ELSE <<Turn(role, rest)>>

LEMMA OllamaRestSays ==
    ASSUME NEW v, NEW role, NEW rest, IsSequence(rest)
    PROVE  AreTurns(OllamaRest(role, rest)) /\ Told(v, OllamaRest(role, rest)) = Said(v, role, rest)
<1> DEFINE turns == OllamaRest(role, rest)
<1>3. turns = IF rest = <<>> THEN <<>> ELSE <<Turn(role, rest)>>
  BY DEF OllamaRest
<1> HIDE DEF turns
<1>1. CASE rest = <<>>
  <2>1. AreTurns(turns)
    BY <1>1, <1>3 DEF AreTurns, IsSequence
  <2>2. Told(v, turns) = <<>>
    BY <1>1, <1>3, ToldNone
  <2>3. \A j \in DOMAIN rest : View(v, role, rest[j]) = <<>>
    BY <1>1
  <2>4. Said(v, role, rest) = <<>>
    BY <2>3, SaidNothing
  <2> QED BY <2>1, <2>2, <2>4 DEF turns
<1>2. CASE rest # <<>>
  <2> DEFINE t == Turn(role, rest)
  <2>1. turns = <<t>>
    BY <1>2, <1>3
  <2>2. t.role = role /\ t.parts = rest
    BY DEF Turn
  <2> HIDE DEF t
  <2>3. AreTurns(<<t>>) /\ Told(v, <<t>>) = Said(v, t.role, t.parts)
    BY <2>2, ToldOne
  <2> QED BY <2>1, <2>2, <2>3 DEF turns
<1> QED BY <1>1, <1>2 DEF turns

LEMMA JoinedAreTurns ==
    ASSUME NEW s, NEW t, AreTurns(s), AreTurns(t) PROVE AreTurns(s \o t)
<1> DEFINE u == s \o t
<1>1. JoinOf(u, s, t)
  BY BothJoin, Zenon DEF AreTurns
<1> HIDE DEF u
<1>2. AreTurns(u)
  BY <1>1 DEF AreTurns, JoinOf
<1> QED BY <1>2 DEF u

LEMMA OllamaSpeaks ==
    ASSUME NEW m, AsSeen("ollama", m)
    PROVE  SpeaksFor("ollama", OllamaAdapter!messageParts(m), m)
<1> DEFINE q == "ollama"
           rest == BareTexts(m.parts) \o BareCalls(m.parts)
           left == [j \in DOMAIN Only("tool_result", m.parts) |->
                       Turn("tool", <<Unmarked(Only("tool_result", m.parts)[j])>>)]
           right == IF rest = <<>> THEN <<>> ELSE <<Turn(m.role, rest)>>
           turns == OllamaAdapter!messageParts(m)
           v == <<"atom", "ollama">>
           s == <<"secret", "ollama">>
           result == Said(<<"result", "ollama">>, "tool", m.parts)
           text == Said(<<"text", "ollama">>, m.role, m.parts)
           call == Said(<<"call", "ollama">>, m.role, m.parts)
           others == Said(<<"rest", "ollama">>, m.role, m.parts)
<1>1. /\ m.role \in Roles /\ IsSequence(m.parts)
      /\ \A j \in DOMAIN m.parts : m.parts[j].kind \in Allowed(m.role)
  BY DEF AsSeen, IsMessage
<1>2. turns = left \o right
  <2>1. /\ OllamaAdapter!Only("tool_result", m.parts) = Only("tool_result", m.parts)
        /\ OllamaAdapter!Texts(m.parts) = BareTexts(m.parts)
        /\ OllamaAdapter!Calls(m.parts) = BareCalls(m.parts)
    BY SameOnly, SameBare, Zenon
  <2> QED BY <2>1, SameUnmarked DEF OllamaAdapter!messageParts, OllamaAdapter!Turn, Turn
<1>3. /\ AreTurns(left) /\ Told(v, left) = result /\ Told(s, left) = <<>>
  BY <1>1, OllamaResultsSay
<1>4. /\ IsSequence(rest) /\ Said(v, m.role, rest) = text \o call
      /\ Said(s, m.role, rest) = <<>>
  BY <1>1, TextsAndCallsSay
<1>5. /\ IsSequence(text) /\ IsSequence(call) /\ IsSequence(others)
  BY <1>1, SaidIsSequence, Zenon
<1>6. /\ m.role = "tool" => text = <<>> /\ call = <<>> /\ others = result
      /\ m.role # "tool" => others = call
  BY RolesSay
<1>7. m.role # "tool" => result = <<>>
  <2>1. m.role # "tool" =>
           \A j \in DOMAIN m.parts : View(<<"result", "ollama">>, "tool", m.parts[j]) = <<>>
    BY <1>1 DEF Allowed, Roles, View
  <2> QED BY <1>1, <2>1, SaidNothing
<1>8. SpeaksFor(q, turns, m) <=>
         AreTurns(turns) /\ Told(v, turns) = text \o others /\ Told(s, turns) = <<>>
  BY DEF SpeaksFor
<1> HIDE DEF rest
<1>9. AreTurns(right) /\ Told(v, right) = text \o call /\ Told(s, right) = <<>>
  <2>1. right = OllamaRest(m.role, rest)
    BY DEF OllamaRest
  <2> HIDE DEF right, v, s, text, call
  <2>2. AreTurns(right) /\ Told(v, right) = Said(v, m.role, rest)
    BY <1>4, <2>1, OllamaRestSays, Zenon
  <2>3. Told(s, right) = Said(s, m.role, rest)
    BY <1>4, <2>1, OllamaRestSays, Zenon
  <2> QED BY <1>4, <2>2, <2>3
<1> HIDE DEF left, right, turns, v, s, result, text, call, others, q
<1>10. /\ Told(v, left \o right) = Told(v, left) \o Told(v, right)
       /\ Told(s, left \o right) = Told(s, left) \o Told(s, right)
  BY <1>3, <1>9, ToldJoined
<1>11. AreTurns(left \o right)
  BY <1>3, <1>9, JoinedAreTurns, Zenon
<1>12. IsSequence(<<>>) /\ IsSequence(text \o call)
  <2>1. IsSequence(<<>>)
    BY DEF IsSequence
  <2> QED BY <2>1, <1>5, JoinIsSequence, Zenon
<1>13. Told(s, left \o right) = <<>>
  BY <1>3, <1>9, <1>10, <1>12, JoinNothing
<1>14. Told(v, left \o right) = text \o others
  <2>1. CASE m.role = "tool"
    <3>1. text \o call = <<>>
      BY <1>6, <1>12, <2>1, JoinNothing
    <3>2. IsSequence(result) /\ text \o others = result
      BY <1>5, <1>6, <2>1, JoinNothing
    <3>3. result \o <<>> = result
      BY <3>2, JoinNothing, Zenon
    <3> QED BY <1>3, <1>9, <1>10, <3>1, <3>2, <3>3
  <2>2. CASE m.role # "tool"
    <3>1. <<>> \o (text \o call) = text \o call
      BY <1>12, JoinNothing, Zenon
    <3> QED BY <1>3, <1>6, <1>7, <1>9, <1>10, <2>2, <3>1
  <2> QED BY <2>1, <2>2
<1> QED BY <1>2, <1>8, <1>11, <1>13, <1>14 DEF q, turns

LEMMA OllamaIsTold ==
    ASSUME NEW req, AreMessages(req.messages),
           \A i \in DOMAIN req.messages : Legal(req.messages[i]),
           NEW ss, ss = [i \in DOMAIN ReasoningFrom("ollama", req.messages) |->
                            OllamaAdapter!messageParts(ReasoningFrom("ollama", req.messages)[i])]
    PROVE  /\ Told(<<"atom", "ollama">>, FlattenSeq(ss))
                 = Told(<<"atom", "ollama">>, FirstTexts(req.messages))
           /\ Told(<<"secret", "ollama">>, FlattenSeq(ss)) = <<>>
<1> DEFINE msgs == ReasoningFrom("ollama", req.messages)
<1>1. SeenIn("ollama", msgs, req.messages)
  BY FilteredAreLegal, Zenon
<1>2. /\ ss = [i \in DOMAIN msgs |-> ss[i]] /\ DOMAIN ss = DOMAIN msgs
      /\ \A i \in DOMAIN msgs : ss[i] = OllamaAdapter!messageParts(msgs[i])
  OBVIOUS
<1> HIDE DEF msgs
<1>3. IsSequence(ss) /\ DOMAIN ss = DOMAIN req.messages
  <2>1. IsSequence(msgs) /\ DOMAIN msgs = DOMAIN req.messages
    BY <1>1 DEF SeenIn, AreMessages
  <2> QED BY <1>2, <2>1, MadeIsSequence
<1>4. ASSUME NEW i \in DOMAIN ss
      PROVE  SpeaksFor("ollama", ss[i], SeenOf("ollama", req.messages[i]))
  <2>1. /\ AsSeen("ollama", msgs[i]) /\ ss[i] = OllamaAdapter!messageParts(msgs[i])
        /\ msgs[i] = SeenOf("ollama", req.messages[i])
    BY <1>1, <1>2, <1>3 DEF SeenIn
  <2>2. SpeaksFor("ollama", OllamaAdapter!messageParts(msgs[i]), msgs[i])
    BY <2>1, OllamaSpeaks, Zenon
  <2> QED BY <2>1, <2>2
<1>5. FirstTexts(req.messages)
         = [i \in DOMAIN req.messages |->
               Turn(req.messages[i].role, TextFirst(req.messages[i].parts))]
  BY DEF FirstTexts
<1> QED BY <1>3, <1>4, <1>5, SpokenIsTold

-----------------------------------------------------------------------------
(***************************************************************************)
(* What Anthropic is told                                                  *)
(***************************************************************************)

LEMMA SaidMore ==
    ASSUME NEW v, NEW role, NEW s, IsSequence(s), NEW x
    PROVE  Said(v, role, Append(s, x)) = Said(v, role, s) \o View(v, role, x)
<1>1. Append(s, x) = s \o <<x>>
  BY AppendJoins, Zenon
<1>2. IsSequence(<<x>>)
  BY Single
<1>3. Said(v, role, s \o <<x>>) = Said(v, role, s) \o Said(v, role, <<x>>)
  BY <1>2, SaidJoined
<1>4. Said(v, role, <<x>>) = View(v, role, x)
  BY SaidOne, Zenon
<1> QED BY <1>1, <1>3, <1>4

\* What the blocks that are no results say and what the results say.
Splits(v, w, others, results) ==
    \/ /\ v = <<"atom", "anthropic">> /\ w = v
       /\ others = <<"other", "anthropic">> /\ results = <<"result", "anthropic">>
    \/ /\ v = <<"secret", "anthropic">> /\ w = <<"own", "anthropic">>
       /\ others = w /\ results = <<"nothing", "anthropic">>
    \/ v = <<"called", "anthropic">> /\ w = v /\ others = v /\ results = <<"nothing", "anthropic">>
    \/ v = <<"answered", "anthropic">> /\ w = v /\ others = <<"nothing", "anthropic">> /\ results = v

\* A part adds what it says to the one or to the other.
AddsTo(t, s, p, v, r, role, others, results) ==
    /\ Said(v, r, t.others) = Said(v, r, s.others) \o View(others, role, p)
    /\ Said(v, r, t.results) = Said(v, r, s.results) \o View(results, role, p)

LEMMA BlockSays ==
    ASSUME NEW W, NEW s \in BlockStates(W), NEW p, IsPart(p), NEW skip,
           NEW t, t = AnthropicAdapter!Block(s, p, skip),
           NEW r, NEW role, Side(r) = Side(role),
           NEW v, NEW w, NEW others, NEW results, Splits(v, w, others, results)
    PROVE  AddsTo(t, s, p, v, r, role, others, results)
<1> SUFFICES /\ Said(v, r, t.others) = Said(v, r, s.others) \o View(others, role, p)
             /\ Said(v, r, t.results) = Said(v, r, s.results) \o View(results, role, p)
  BY DEF AddsTo
<1> DEFINE block == Text(p.body, p.marked /\ s.seen >= skip)
           call == ToolCall(p.id, p.name, NoSignature)
<1>1. /\ s.results \in Seq(BlockSet(W)) /\ s.others \in Seq(BlockSet(W))
      /\ s = [results |-> s.results, others |-> s.others, seen |-> s.seen, ok |-> s.ok]
  BY DEF BlockStates
<1>2. IsSequence(s.results) /\ IsSequence(s.others)
  BY <1>1, TypedIsSequence, Zenon
<1>3. IsSequence(Said(v, r, s.others)) /\ IsSequence(Said(v, r, s.results))
  BY <1>2, SaidIsSequence, Zenon
<1>4. /\ Said(v, r, s.others) \o <<>> = Said(v, r, s.others)
      /\ Said(v, r, s.results) \o <<>> = Said(v, r, s.results)
  BY <1>3, JoinNothing, Zenon
<1>5. \A x : /\ Said(v, r, Append(s.others, x)) = Said(v, r, s.others) \o View(v, r, x)
             /\ Said(v, r, Append(s.results, x)) = Said(v, r, s.results) \o View(v, r, x)
  BY <1>2, SaidMore
<1>6. CASE p.kind = "text"
  <2>1. t.results = s.results /\ t.others = Append(s.others, block)
    BY <1>1, <1>6 DEF AnthropicAdapter!Block, AnthropicAdapter!Text, Text
  <2>2. /\ Atom("anthropic", r, block) = Atom("anthropic", role, p) /\ Secret(block) = <<>>
        /\ block.kind = "text"
    BY <1>6 DEF Atom, Secret, Text
  <2> HIDE DEF block
  <2>3. View(v, r, block) = View(others, role, p) /\ View(results, role, p) = <<>>
    BY <1>6, <2>2 DEF Splits, View, Own, Secret
  <2> QED BY <1>4, <1>5, <2>1, <2>3
<1>7. CASE p.kind = "tool_call"
  <2>1. t.results = s.results /\ t.others = Append(s.others, call)
    BY <1>1, <1>7 DEF AnthropicAdapter!Block, AnthropicAdapter!ToolCall,
        AnthropicAdapter!NoSignature, NoSignature, ToolCall
  <2>2. /\ Atom("anthropic", r, call) = Atom("anthropic", role, p) /\ Secret(call) = <<>>
        /\ call.kind = "tool_call" /\ call.id = p.id
    BY <1>7 DEF Atom, Secret, ToolCall
  <2> HIDE DEF call
  <2>3. View(v, r, call) = View(others, role, p) /\ View(results, role, p) = <<>>
    BY <1>7, <2>2 DEF Splits, View, Own
  <2> QED BY <1>4, <1>5, <2>1, <2>3
<1>8. CASE p.kind = "tool_result"
  <2>1. t.results = Append(s.results, p) /\ t.others = s.others
    BY <1>1, <1>8 DEF AnthropicAdapter!Block
  <2>2. Atom("anthropic", r, p) = Atom("anthropic", role, p) /\ Secret(p) = <<>>
    BY <1>8 DEF Atom, Secret
  <2>3. View(v, r, p) = View(results, role, p) /\ View(others, role, p) = <<>>
    BY <1>8, <2>2 DEF Splits, View, Own
  <2> QED BY <1>4, <1>5, <2>1, <2>3
<1>9. CASE p.kind = "reasoning"
  <2>1. t.results = s.results /\ t.others = Append(s.others, p)
    BY <1>1, <1>9 DEF AnthropicAdapter!Block
  <2>2. Atom("anthropic", r, p) = <<>> /\ Atom("anthropic", role, p) = <<>>
    BY <1>9 DEF Atom
  <2>3. Own("anthropic", p) = Secret(p)
    BY <1>9 DEF Own, IsPart
  <2>4. View(v, r, p) = View(others, role, p) /\ View(results, role, p) = <<>>
    BY <1>9, <2>2, <2>3 DEF Splits, View
  <2> QED BY <1>4, <1>5, <2>1, <2>4
<1> QED BY <1>6, <1>7, <1>8, <1>9 DEF IsPart, Kinds

\* And so do the blocks of a message.
LEMMA BlocksSay ==
    ASSUME NEW W, \A p \in W : IsPart(p), NEW parts \in Seq(W), NEW skip, NEW seen \in Int,
           NEW b, b = AnthropicAdapter!blocksForParts(parts, skip, seen),
           NEW r, NEW role, Side(r) = Side(role),
           NEW v, NEW w, NEW others, NEW results, Splits(v, w, others, results)
    PROVE  /\ Said(v, r, b.others) = Said(others, role, parts)
           /\ Said(v, r, b.results) = Said(results, role, parts)
<1> DEFINE n == Len(parts)
           ss == [i \in DOMAIN parts |-> View(others, role, parts[i])]
           tt == [i \in DOMAIN parts |-> View(results, role, parts[i])]
<1>1. n \in Nat /\ DOMAIN parts = 1 .. n /\ \A k \in 1 .. n : parts[k] \in W
  OBVIOUS
<1>2. BlockScans(W, parts, skip, seen) # {}
  BY BlocksUnfold DEF IsPart
<1>3. PICK f \in [0 .. n -> BlockStates(W)] :
        /\ f[0] = FirstBlocks(seen) /\ b = f[n]
        /\ \A k \in 1 .. n : f[k] = AnthropicAdapter!Block(f[k - 1], parts[k], skip)
  BY <1>2, Zenon DEF BlockScans
<1>4. /\ IsSequence(ss) /\ Len(ss) = n /\ IsSequence(tt) /\ Len(tt) = n
      /\ \A i \in 1 .. n : ss[i] = View(others, role, parts[i]) /\ tt[i] = View(results, role, parts[i])
  <2>1. /\ ss = [i \in DOMAIN parts |-> ss[i]] /\ tt = [i \in DOMAIN parts |-> tt[i]]
        /\ \A i \in 1 .. n : ss[i] = View(others, role, parts[i])
        /\ \A i \in 1 .. n : tt[i] = View(results, role, parts[i])
    BY <1>1
  <2>2. IsSequence(parts)
    BY TypedIsSequence, Zenon
  <2> HIDE DEF ss, tt
  <2>3. IsSequence(ss) /\ Len(ss) = n
    BY <2>1, <2>2, MadeIsSequence
  <2>4. IsSequence(tt) /\ Len(tt) = n
    BY <2>1, <2>2, MadeIsSequence
  <2> QED BY <2>1, <2>3, <2>4
<1> DEFINE g == [k \in 0 .. n |-> Said(v, r, f[k].others)]
           h == [k \in 0 .. n |-> Said(v, r, f[k].results)]
<1>5. AreSequences(ss) /\ AreSequences(tt)
  <2>1. /\ \A i \in DOMAIN ss : ss[i] = View(others, role, parts[i])
        /\ \A i \in DOMAIN tt : tt[i] = View(results, role, parts[i])
    OBVIOUS
  <2> HIDE DEF ss, tt
  <2> QED BY <1>4, <2>1, ViewIsSequence DEF AreSequences
<1>6. FlattenSeq(ss) = Said(others, role, parts) /\ FlattenSeq(tt) = Said(results, role, parts)
  BY Zenon DEF Said
<1>7. \A k \in 0 .. n : g[k] = Said(v, r, f[k].others) /\ h[k] = Said(v, r, f[k].results)
  OBVIOUS
<1> HIDE DEF n, ss, tt, g, h
<1>8. ASSUME NEW k \in 0 .. n - 1 PROVE g[k + 1] = g[k] \o ss[k + 1] /\ h[k + 1] = h[k] \o tt[k + 1]
  <2>1. k + 1 \in 1 .. n /\ (k + 1) - 1 = k /\ k \in 0 .. n /\ k + 1 \in 0 .. n
    BY <1>1
  <2>2. /\ f[k] \in BlockStates(W) /\ IsPart(parts[k + 1])
        /\ f[k + 1] = AnthropicAdapter!Block(f[k], parts[k + 1], skip)
    BY <1>1, <1>3, <2>1
  <2>3. AddsTo(f[k + 1], f[k], parts[k + 1], v, r, role, others, results)
    BY <2>2, BlockSays, Zenon
  <2>4. /\ g[k] = Said(v, r, f[k].others) /\ g[k + 1] = Said(v, r, f[k + 1].others)
        /\ h[k] = Said(v, r, f[k].results) /\ h[k + 1] = Said(v, r, f[k + 1].results)
    <3>1. k \in 0 .. n /\ k + 1 \in 0 .. n
      BY <2>1
    <3>2. g[k] = Said(v, r, f[k].others) /\ h[k] = Said(v, r, f[k].results)
      BY <1>7, <3>1, Zenon
    <3>3. g[k + 1] = Said(v, r, f[k + 1].others) /\ h[k + 1] = Said(v, r, f[k + 1].results)
      BY <1>7, <3>1, Zenon
    <3> QED BY <3>2, <3>3
  <2>5. /\ ss[k + 1] = View(others, role, parts[k + 1])
        /\ tt[k + 1] = View(results, role, parts[k + 1])
    BY <1>4, <2>1
  <2> QED BY <2>3, <2>4, <2>5, Zenon DEF AddsTo
<1>9. 0 \in 0 .. n /\ n \in 0 .. n
  BY <1>1
<1>10. Said(v, r, <<>>) = <<>> /\ IsSequence(<<>>)
  <2>1. IsSequence(<<>>)
    BY DEF IsSequence
  <2>2. \A j \in DOMAIN <<>> : View(v, r, <<>>[j]) = <<>>
    OBVIOUS
  <2> QED BY <2>1, <2>2, SaidNothing
<1>11. g[0] = <<>> /\ h[0] = <<>>
  BY <1>3, <1>7, <1>9, <1>10 DEF FirstBlocks
<1>12. g[n] = g[0] \o FlattenSeq(ss)
  BY <1>4, <1>5, <1>8, <1>10, <1>11, FlattenFrom
<1>13. h[n] = h[0] \o FlattenSeq(tt)
  BY <1>4, <1>5, <1>8, <1>10, <1>11, FlattenFrom
<1>14. <<>> \o FlattenSeq(ss) = FlattenSeq(ss) /\ <<>> \o FlattenSeq(tt) = FlattenSeq(tt)
  BY <1>5, FlattenIsSequence, JoinNothing
<1> QED BY <1>3, <1>6, <1>7, <1>9, <1>11, <1>12, <1>13, <1>14

\* A message speaks through its results or through its other parts.
LEMMA MessageSplits ==
    ASSUME NEW m, AsSeen("anthropic", m),
           NEW v, NEW w, NEW others, NEW results, Splits(v, w, others, results)
    PROVE  \/ /\ Said(results, m.role, m.parts) = <<>>
              /\ Said(others, m.role, m.parts) = Said(w, m.role, m.parts)
           \/ /\ m.role = "tool" /\ Said(others, m.role, m.parts) = <<>>
              /\ Said(results, m.role, m.parts) = Said(w, m.role, m.parts)
<1>1. /\ m.role \in Roles /\ IsSequence(m.parts)
      /\ \A j \in DOMAIN m.parts : m.parts[j].kind \in Allowed(m.role)
  BY DEF AsSeen, IsMessage
<1>2. CASE m.role = "tool"
  <2>1. \A j \in DOMAIN m.parts : m.parts[j].kind = "tool_result"
    BY <1>1, <1>2 DEF Allowed
  <2>2. \A j \in DOMAIN m.parts :
           /\ View(others, m.role, m.parts[j]) = <<>>
           /\ View(results, m.role, m.parts[j]) = View(w, m.role, m.parts[j])
    BY <2>1 DEF Splits, View, Own
  <2>3. Said(others, m.role, m.parts) = <<>>
    BY <1>1, <2>2, SaidNothing
  <2>4. Said(results, m.role, m.parts) = Said(w, m.role, m.parts)
    BY <2>2, SaidAlike
  <2> QED BY <1>2, <2>3, <2>4
<1>3. CASE m.role # "tool"
  <2>1. \A j \in DOMAIN m.parts : m.parts[j].kind # "tool_result"
    BY <1>1, <1>3 DEF Allowed, Roles
  <2>2. \A j \in DOMAIN m.parts :
           /\ View(results, m.role, m.parts[j]) = <<>>
           /\ View(others, m.role, m.parts[j]) = View(w, m.role, m.parts[j])
    BY <2>1 DEF Splits, View, Own
  <2>3. Said(results, m.role, m.parts) = <<>>
    BY <1>1, <2>2, SaidNothing
  <2>4. Said(others, m.role, m.parts) = Said(w, m.role, m.parts)
    BY <2>2, SaidAlike
  <2> QED BY <2>3, <2>4
<1> QED BY <1>2, <1>3

\* What has been said in the turns so far and in the turn that is being made.
All(v, s) == Told(v, s.out) \o Said(v, "user", s.buf)

LEMMA FlushedSays ==
    ASSUME NEW W, NEW s \in TakeStates(W), NEW v
    PROVE  /\ AreTurns(AnthropicAdapter!Flushed(s))
           /\ Told(v, AnthropicAdapter!Flushed(s)) = All(v, s)
           /\ IsSequence(All(v, s)) /\ IsSequence(s.buf) /\ AreTurns(s.out)
<1>1. s.out \in Seq(TurnSet(W)) /\ s.buf \in Seq(BlockSet(W))
  BY DEF TakeStates
<1>2. IsSequence(s.out) /\ IsSequence(s.buf)
  BY <1>1, TypedIsSequence, Zenon
<1>3. AreTurns(s.out)
  <2> SUFFICES ASSUME NEW i \in DOMAIN s.out PROVE IsSequence(s.out[i].parts)
    BY <1>2 DEF AreTurns
  <2>1. s.out[i] \in TurnSet(W)
    BY <1>1
  <2>2. s.out[i].parts \in Seq(BlockSet(W))
    BY <2>1 DEF TurnSet
  <2> QED BY <2>2, TypedIsSequence, Zenon
<1>4. IsSequence(Told(v, s.out)) /\ IsSequence(Said(v, "user", s.buf))
  BY <1>2, <1>3, ToldIsSequence, SaidIsSequence, Zenon
<1>5. IsSequence(All(v, s))
  BY <1>4, JoinIsSequence, Zenon DEF All
<1> DEFINE turn == AnthropicAdapter!Turn("user", s.buf)
           turns == AnthropicAdapter!Flushed(s)
<1>6. turn.role = "user" /\ turn.parts = s.buf
  BY DEF AnthropicAdapter!Turn
<1>7. turns = IF s.buf = <<>> THEN s.out ELSE Append(s.out, turn)
  BY DEF AnthropicAdapter!Flushed
<1> HIDE DEF turn, turns
<1>8. CASE s.buf = <<>>
  <2>1. \A j \in DOMAIN s.buf : View(v, "user", s.buf[j]) = <<>>
    BY <1>8
  <2>2. Said(v, "user", s.buf) = <<>>
    BY <1>2, <2>1, SaidNothing
  <2>3. All(v, s) = Told(v, s.out)
    BY <1>4, <2>2, JoinNothing DEF All
  <2> QED BY <1>2, <1>3, <1>5, <1>7, <1>8, <2>3 DEF turns
<1>9. CASE s.buf # <<>>
  <2>1. turns = Append(s.out, turn) /\ IsSequence(turn.parts)
    BY <1>2, <1>6, <1>7, <1>9
  <2>2. Told(v, turns) = Told(v, s.out) \o Said(v, turn.role, turn.parts)
    BY <1>3, <2>1, ToldMore
  <2>3. AreTurns(turns)
    <3>1. AreTurns(<<turn>>)
      BY <2>1, ToldOne, Zenon
    <3>2. Append(s.out, turn) = s.out \o <<turn>>
      BY <1>2, AppendJoins, Zenon
    <3> QED BY <1>3, <2>1, <3>1, <3>2, JoinedAreTurns
  <2> QED BY <1>2, <1>3, <1>5, <1>6, <2>2, <2>3, Zenon DEF All, turns
<1> QED BY <1>8, <1>9

\* What a message adds: its blocks, the results first.
BlocksAdd(v, role, b) ==
    IF role = "assistant" THEN Said(v, "assistant", b.others)
    ELSE Said(v, "user", b.results) \o Said(v, "user", b.others)

LEMMA TakeAdds ==
    ASSUME NEW W, \A p \in W : IsPart(p), NEW s \in TakeStates(W),
           NEW m, m.parts \in Seq(W), NEW skip, NEW t, t = AnthropicAdapter!Take(s, m, skip),
           NEW b, b = AnthropicAdapter!blocksForParts(m.parts, skip, s.seen), NEW v
    PROVE  All(v, t) = All(v, s) \o BlocksAdd(v, m.role, b)
<1> DEFINE before == All(v, s)
           told == Told(v, s.out)
           buf == Said(v, "user", s.buf)
           left == Said(v, "user", b.results)
           right == Said(v, "user", b.others)
           reply == Said(v, "assistant", b.others)
<1>1. s = [out |-> s.out, buf |-> s.buf, seen |-> s.seen, ok |-> s.ok] /\ s.seen \in Int
  BY DEF TakeStates
<1>2. b \in BlockStates(W)
  BY <1>1, BlocksAre DEF IsPart
<1>3. IsSequence(b.others) /\ IsSequence(b.results)
  <2>1. b.others \in Seq(BlockSet(W)) /\ b.results \in Seq(BlockSet(W))
    BY <1>2 DEF BlockStates
  <2> QED BY <2>1, TypedIsSequence, Zenon
<1>4. /\ AreTurns(AnthropicAdapter!Flushed(s)) /\ Told(v, AnthropicAdapter!Flushed(s)) = before
      /\ IsSequence(before) /\ IsSequence(s.buf) /\ AreTurns(s.out)
  BY FlushedSays DEF before
<1>5. /\ IsSequence(told) /\ IsSequence(buf) /\ IsSequence(left) /\ IsSequence(right)
      /\ IsSequence(reply)
  BY <1>3, <1>4, ToldIsSequence, SaidIsSequence, Zenon
<1>6. before = told \o buf
  BY DEF All
<1> HIDE DEF before, told, buf, left, right, reply
<1>7. CASE m.role = "assistant"
  <2> DEFINE flushed == AnthropicAdapter!Flushed(s)
             turn == AnthropicAdapter!Turn("assistant", b.others)
  <2>1. t.out = Append(flushed, turn) /\ t.buf = <<>>
    BY <1>1, <1>7 DEF AnthropicAdapter!Take, AnthropicAdapter!Reply
  <2>2. turn.role = "assistant" /\ turn.parts = b.others
    BY DEF AnthropicAdapter!Turn
  <2> HIDE DEF flushed, turn
  <2>3. Told(v, Append(flushed, turn)) = Told(v, flushed) \o Said(v, turn.role, turn.parts)
    BY <1>3, <1>4, <2>2, ToldMore DEF flushed
  <2>4. \A j \in DOMAIN t.buf : View(v, "user", t.buf[j]) = <<>>
    BY <2>1
  <2>5. IsSequence(t.buf)
    BY <2>1 DEF IsSequence
  <2>6. Said(v, "user", t.buf) = <<>>
    BY <2>4, <2>5, SaidNothing
  <2>7. Told(v, t.out) = before \o reply
    BY <1>4, <2>1, <2>2, <2>3 DEF flushed, reply
  <2>8. IsSequence(before \o reply)
    BY <1>4, <1>5, JoinIsSequence, Zenon
  <2>9. (before \o reply) \o <<>> = before \o reply
    BY <2>8, JoinNothing, Zenon
  <2>10. All(v, t) = Told(v, t.out) \o Said(v, "user", t.buf)
    BY DEF All
  <2> QED BY <1>7, <2>6, <2>7, <2>9, <2>10 DEF before, reply, BlocksAdd
<1>8. CASE m.role # "assistant"
  <2>1. t.out = s.out /\ t.buf = (s.buf \o b.results) \o b.others
    BY <1>1, <1>8 DEF AnthropicAdapter!Take, AnthropicAdapter!Add
  <2>2. IsSequence(s.buf \o b.results)
    BY <1>3, <1>4, JoinIsSequence, Zenon
  <2>3. Said(v, "user", t.buf) = Said(v, "user", s.buf \o b.results) \o right
    BY <1>3, <2>1, <2>2, SaidJoined DEF right
  <2>4. Said(v, "user", s.buf \o b.results) = buf \o left
    BY <1>3, <1>4, SaidJoined DEF buf, left
  <2>5. All(v, t) = told \o ((buf \o left) \o right)
    BY <2>1, <2>3, <2>4 DEF All, told
  <2>6. (buf \o left) \o right = buf \o (left \o right)
    <3>1. Associate(buf, left, right)
      BY <1>5, JoinAssociates, Zenon
    <3> QED BY <3>1, Zenon DEF Associate
  <2>7. IsSequence(left \o right)
    BY <1>5, JoinIsSequence, Zenon
  <2>8. (told \o buf) \o (left \o right) = told \o (buf \o (left \o right))
    <3>1. Associate(told, buf, left \o right)
      BY <1>5, <2>7, JoinAssociates, Zenon
    <3> QED BY <3>1, Zenon DEF Associate
  <2> QED BY <1>6, <1>8, <2>5, <2>6, <2>8 DEF before, left, right, BlocksAdd
<1> QED BY <1>7, <1>8

\* What is looked for on the wire and in the transcript.
Pair(v, w) == \E others, results : Splits(v, w, others, results)

\* A message adds what it says.
Advances(t, s, m, v, w) == All(v, t) = All(v, s) \o Said(w, m.role, m.parts)

LEMMA TakeSays ==
    ASSUME NEW W, \A p \in W : IsPart(p), NEW s \in TakeStates(W),
           NEW m, AsSeen("anthropic", m), m.parts \in Seq(W),
           NEW skip, NEW t, t = AnthropicAdapter!Take(s, m, skip),
           NEW v, NEW w, Pair(v, w)
    PROVE  Advances(t, s, m, v, w)
<1> SUFFICES All(v, t) = All(v, s) \o Said(w, m.role, m.parts)
  BY DEF Advances
<1> PICK others, results : Splits(v, w, others, results)
  BY DEF Pair
<1> DEFINE b == AnthropicAdapter!blocksForParts(m.parts, skip, s.seen)
           r == IF m.role = "assistant" THEN "assistant" ELSE "user"
           says == Said(w, m.role, m.parts)
           added == BlocksAdd(v, m.role, b)
<1>1. s.seen \in Int
  BY DEF TakeStates
<1>2. m.role \in Roles /\ IsSequence(m.parts)
  BY DEF AsSeen, IsMessage
<1>3. Side(r) = Side(m.role)
  BY <1>2 DEF Side, Roles
<1>4. b = AnthropicAdapter!blocksForParts(m.parts, skip, s.seen)
  OBVIOUS
<1> HIDE DEF b, says, added
<1>5. /\ Said(v, r, b.others) = Said(others, m.role, m.parts)
      /\ Said(v, r, b.results) = Said(results, m.role, m.parts)
  <2> HIDE DEF r
  <2> QED BY <1>1, <1>3, <1>4, BlocksSay
<1>6. IsSequence(says)
  BY <1>2, SaidIsSequence, Zenon DEF says
<1>7. \/ Said(v, r, b.results) = <<>> /\ Said(v, r, b.others) = says
      \/ m.role = "tool" /\ Said(v, r, b.others) = <<>> /\ Said(v, r, b.results) = says
  BY <1>5, MessageSplits DEF says
<1>8. added = says
  <2>1. says \o <<>> = says /\ <<>> \o says = says
    BY <1>6, JoinNothing, Zenon
  <2>2. CASE m.role = "assistant"
    BY <1>7, <2>2 DEF added, BlocksAdd
  <2>3. CASE m.role # "assistant"
    BY <1>7, <2>1, <2>3 DEF added, BlocksAdd
  <2> QED BY <2>2, <2>3
<1>9. All(v, t) = All(v, s) \o added
  BY <1>4, TakeAdds DEF added
<1> QED BY <1>8, <1>9 DEF says

MadeOf(msgs, W) ==
    /\ IsSequence(msgs)
    /\ \A i \in DOMAIN msgs : AsSeen("anthropic", msgs[i]) /\ msgs[i].parts \in Seq(W)
    /\ \A p \in W : IsPart(p)

LEMMA AnthropicSays ==
    ASSUME NEW W, NEW msgs, MadeOf(msgs, W), NEW skip, NEW v, NEW w, Pair(v, w)
    PROVE  Told(v, AnthropicAdapter!Flushed(AnthropicAdapter!Taken(msgs, skip))) = Told(w, msgs)
<1> DEFINE turns == AnthropicAdapter!Flushed(AnthropicAdapter!Taken(msgs, skip))
<1> USE DEF MadeOf
<1> DEFINE n == Len(msgs)
           ss == [i \in DOMAIN msgs |-> Said(w, msgs[i].role, msgs[i].parts)]
<1>1. n \in Nat /\ DOMAIN msgs = 1 .. n
  BY DEF IsSequence
<1>2. TurnScans(W, msgs, skip) # {}
  BY TakenUnfolds DEF IsPart
<1>3. PICK f \in [0 .. n -> TakeStates(W)] :
        /\ f[0] = FirstTurn /\ AnthropicAdapter!Taken(msgs, skip) = f[n]
        /\ \A k \in 1 .. n : f[k] = AnthropicAdapter!Take(f[k - 1], msgs[k], skip)
  BY <1>2, Zenon DEF TurnScans
<1>4. ss = [i \in DOMAIN msgs |-> ss[i]]
      /\ \A i \in DOMAIN msgs : ss[i] = Said(w, msgs[i].role, msgs[i].parts)
  OBVIOUS
<1>5. FlattenSeq(ss) = Told(w, msgs)
  BY Zenon DEF Told
<1> DEFINE g == [k \in 0 .. n |-> All(v, f[k])]
<1>6. \A k \in 0 .. n : g[k] = All(v, f[k])
  OBVIOUS
<1> HIDE DEF n, ss, g, turns
<1>7. IsSequence(ss) /\ DOMAIN ss = DOMAIN msgs /\ Len(ss) = n
  BY <1>4, MadeIsSequence DEF n
<1>8. AreSequences(ss)
  <2> SUFFICES ASSUME NEW i \in DOMAIN msgs PROVE IsSequence(ss[i])
    BY <1>7 DEF AreSequences
  <2>1. IsSequence(msgs[i].parts)
    BY DEF AsSeen, IsMessage
  <2>2. IsSequence(Said(w, msgs[i].role, msgs[i].parts))
    BY <2>1, SaidIsSequence, Zenon
  <2> QED BY <1>4, <2>2
<1>9. ASSUME NEW k \in 0 .. n - 1 PROVE g[k + 1] = g[k] \o ss[k + 1]
  <2>1. k + 1 \in 1 .. n /\ (k + 1) - 1 = k /\ k \in 0 .. n /\ k + 1 \in 0 .. n
    BY <1>1
  <2>2. /\ f[k] \in TakeStates(W) /\ AsSeen("anthropic", msgs[k + 1]) /\ msgs[k + 1].parts \in Seq(W)
        /\ f[k + 1] = AnthropicAdapter!Take(f[k], msgs[k + 1], skip)
    BY <1>1, <1>3, <2>1
  <2>3. Advances(f[k + 1], f[k], msgs[k + 1], v, w)
    BY <2>2, TakeSays, Zenon
  <2>4. g[k] = All(v, f[k])
    BY <1>6, <2>1, Zenon
  <2>5. g[k + 1] = All(v, f[k + 1])
    BY <1>6, <2>1, Zenon
  <2>6. ss[k + 1] = Said(w, msgs[k + 1].role, msgs[k + 1].parts)
    BY <1>1, <1>4, <2>1
  <2> QED BY <2>3, <2>4, <2>5, <2>6, Zenon DEF Advances
<1>10. 0 \in 0 .. n /\ n \in 0 .. n
  BY <1>1
<1>11. g[0] = <<>> /\ IsSequence(g[0])
  <2>1. IsSequence(<<>>)
    BY DEF IsSequence
  <2>2. Told(v, <<>>) = <<>>
    BY ToldNone, Zenon
  <2>3. \A j \in DOMAIN <<>> : View(v, "user", <<>>[j]) = <<>>
    OBVIOUS
  <2>4. Said(v, "user", <<>>) = <<>>
    BY <2>1, <2>3, SaidNothing
  <2>5. <<>> \o <<>> = <<>>
    BY <2>1, JoinNothing
  <2>6. f[0].out = <<>> /\ f[0].buf = <<>>
    BY <1>3 DEF FirstTurn
  <2>7. g[0] = All(v, f[0])
    BY <1>6, <1>10, Zenon
  <2> QED BY <2>1, <2>2, <2>4, <2>5, <2>6, <2>7 DEF All
<1>12. g[n] = g[0] \o FlattenSeq(ss)
  BY <1>7, <1>8, <1>9, <1>11, FlattenFrom
<1>13. <<>> \o FlattenSeq(ss) = FlattenSeq(ss)
  BY <1>8, FlattenIsSequence, JoinNothing
<1>14. Told(v, turns) = All(v, f[n])
  <2>1. f[n] \in TakeStates(W)
    BY <1>10
  <2> QED BY <1>3, <2>1, FlushedSays DEF turns
<1>15. g[n] = All(v, f[n])
  BY <1>6, <1>10, Zenon
<1> QED BY <1>5, <1>11, <1>12, <1>13, <1>14, <1>15 DEF turns

\* What Anthropic may see of legal messages is legal, and of some parts.
LEMMA SeenIsMade ==
    ASSUME NEW all, AreMessages(all), \A i \in DOMAIN all : Legal(all[i])
    PROVE  \E W : MadeOf(ReasoningFrom("anthropic", all), W)
<1> DEFINE msgs == ReasoningFrom("anthropic", all)
           W == UNION {Range(msgs[i].parts) : i \in DOMAIN msgs}
<1>1. SeenIn("anthropic", msgs, all)
  BY FilteredAreLegal, Zenon
<1> HIDE DEF msgs
<1>2. IsSequence(msgs) /\ \A i \in DOMAIN msgs : AsSeen("anthropic", msgs[i])
  BY <1>1 DEF SeenIn, AreMessages
<1>3. \A p \in W : IsPart(p)
  BY <1>2 DEF AsSeen, IsMessage, Range
<1>4. ASSUME NEW i \in DOMAIN msgs PROVE msgs[i].parts \in Seq(W)
  <2> DEFINE parts == msgs[i].parts
  <2>1. \A j \in DOMAIN parts : parts[j] \in W
    BY DEF Range
  <2>2. /\ Len(parts) \in Nat /\ DOMAIN parts = 1 .. Len(parts)
        /\ parts = [j \in 1 .. Len(parts) |-> parts[j]]
    BY <1>2 DEF AsSeen, IsMessage, IsSequence
  <2> HIDE DEF W, parts
  <2>3. parts \in Seq(W)
    BY <2>1, <2>2
  <2> QED BY <2>3 DEF parts
<1> HIDE DEF W
<1>5. MadeOf(msgs, W)
  BY <1>2, <1>3, <1>4, Zenon DEF MadeOf
<1> QED BY <1>5, Zenon DEF msgs

LEMMA AnthropicIsTold ==
    ASSUME NEW req, AreMessages(req.messages),
           \A i \in DOMAIN req.messages : Legal(req.messages[i]),
           NEW turns, turns = AnthropicAdapter!buildMessages(req).turns
    PROVE  /\ Told(<<"atom", "anthropic">>, turns) = Told(<<"atom", "anthropic">>, req.messages)
           /\ Told(<<"secret", "anthropic">>, turns) = Told(<<"own", "anthropic">>, req.messages)
<1> DEFINE msgs == ReasoningFrom("anthropic", req.messages)
           skip == AnthropicAdapter!Skip(req)
<1>1. turns = AnthropicAdapter!Flushed(AnthropicAdapter!Taken(msgs, skip))
  <2>1. AnthropicAdapter!ReasoningFrom("anthropic", req.messages) = msgs
    BY SameFilter, Zenon
  <2> HIDE DEF msgs
  <2> QED BY <2>1 DEF AnthropicAdapter!buildMessages
<1>2. SeenIn("anthropic", msgs, req.messages)
  BY FilteredAreLegal, Zenon
<1>3. /\ Told(<<"atom", "anthropic">>, msgs) = Told(<<"atom", "anthropic">>, req.messages)
      /\ Told(<<"own", "anthropic">>, msgs) = Told(<<"own", "anthropic">>, req.messages)
  <2>1. Hides("anthropic", <<"atom", "anthropic">>, <<"atom", "anthropic">>)
    BY AtomsStay
  <2> QED BY <2>1, ReasoningStays, FilterTells, Zenon
<1> HIDE DEF msgs, skip
<1>4. \E W : MadeOf(msgs, W)
  BY SeenIsMade, Zenon DEF msgs
<1> PICK W : MadeOf(msgs, W)
  BY <1>4
<1>5. /\ Pair(<<"atom", "anthropic">>, <<"atom", "anthropic">>)
      /\ Pair(<<"secret", "anthropic">>, <<"own", "anthropic">>)
  BY DEF Pair, Splits
<1>6. \A v, w : Pair(v, w) => Told(v, turns) = Told(w, msgs)
  <2>1. \A v, w : Pair(v, w) =>
           Told(v, AnthropicAdapter!Flushed(AnthropicAdapter!Taken(msgs, skip))) = Told(w, msgs)
    BY AnthropicSays
  <2> QED BY <1>1, <2>1
<1> QED BY <1>3, <1>5, <1>6, Zenon

-----------------------------------------------------------------------------
(***************************************************************************)
(* The wire                                                                *)
(***************************************************************************)

\* The turns, the tools and the choice of tools that an adapter makes of a
\* request it accepts.
TurnsFor(p, req) ==
    CASE p = "anthropic" -> AnthropicAdapter!buildMessages(req).turns
      [] p = "google" -> GoogleAdapter!buildContents(req).turns
      [] p = "openai" -> OpenAIAdapter!buildInput(req).turns
      [] p = "openai-compat" -> CompatAdapter!buildMessages(req).turns
      [] p = "ollama" ->
            FlattenSeq([i \in DOMAIN ReasoningFrom("ollama", req.messages) |->
                OllamaAdapter!messageParts(ReasoningFrom("ollama", req.messages)[i])])

ToolsFor(p, req) ==
    IF p = "ollama" THEN OllamaAdapter!Offered(req) ELSE ToolNames(req)

ChoiceFor(p, req) ==
    CASE p = "anthropic" -> AnthropicAdapter!toolChoice(req)
      [] p = "google" -> GoogleAdapter!toolConfig(req)
      [] p = "openai" -> OpenAIAdapter!toolChoice(req)
      [] p = "openai-compat" -> CompatAdapter!toolChoice(req)
      [] p = "ollama" -> NoChoice

MadeFor(p, req, x) ==
    /\ x.out = "ok" /\ x.turns = TurnsFor(p, req) /\ x.tools = ToolsFor(p, req)
    /\ x.choice = ChoiceFor(p, req)

LEMMA ParamsMade ==
    ASSUME NEW p \in Providers, Params(p, Request).out = "ok"
    PROVE  MadeFor(p, Request, Params(p, Request))
<1>1. CASE p = "anthropic"
  BY <1>1 DEF Params, MadeFor, TurnsFor, ToolsFor, ChoiceFor, AnthropicAdapter!toParams,
      AnthropicAdapter!Sends, AnthropicAdapter!Stops, AnthropicAdapter!ToolNames, ToolNames
<1>2. CASE p = "google"
  BY <1>2 DEF Params, MadeFor, TurnsFor, ToolsFor, ChoiceFor, GoogleAdapter!toParams,
      GoogleAdapter!Sends, GoogleAdapter!Stops, GoogleAdapter!ToolNames, ToolNames
<1>3. CASE p = "openai"
  BY <1>3 DEF Params, MadeFor, TurnsFor, ToolsFor, ChoiceFor, OpenAIAdapter!toParams,
      OpenAIAdapter!Sends, OpenAIAdapter!Stops, OpenAIAdapter!ToolNames, ToolNames
<1>4. CASE p = "openai-compat"
  BY <1>4 DEF Params, MadeFor, TurnsFor, ToolsFor, ChoiceFor, CompatAdapter!toParams,
      CompatAdapter!Sends, CompatAdapter!Stops, CompatAdapter!ToolNames, ToolNames
<1>5. CASE p = "ollama"
  <2> DEFINE msgs == ReasoningFrom("ollama", Request.messages)
             ss == [i \in DOMAIN msgs |-> OllamaAdapter!messageParts(msgs[i])]
  <2>1. OllamaAdapter!ReasoningFrom("ollama", Request.messages) = msgs
    BY SameFilter, Zenon
  <2>2. OllamaAdapter!FlattenSeq(ss) = FlattenSeq(ss)
    BY SameJoining, Zenon
  <2>3. TurnsFor(p, Request) = FlattenSeq(ss)
    BY <1>5 DEF TurnsFor
  <2> HIDE DEF msgs
  <2>4. OllamaAdapter!toWire(Request).out = "ok"
    BY <1>5 DEF Params
  <2>5. /\ OllamaAdapter!toWire(Request).turns = FlattenSeq(ss)
        /\ OllamaAdapter!toWire(Request).tools = OllamaAdapter!Offered(Request)
        /\ OllamaAdapter!toWire(Request).choice = NoChoice
    BY <2>1, <2>2, <2>4 DEF OllamaAdapter!toWire, OllamaAdapter!Sends, OllamaAdapter!Stops,
       OllamaAdapter!NoChoice, NoChoice, OllamaAdapter!NoName, NoName
  <2> HIDE DEF ss
  <2> QED BY <1>5, <2>3, <2>4, <2>5 DEF Params, MadeFor, ToolsFor, ChoiceFor
<1> QED BY <1>1, <1>2, <1>3, <1>4, <1>5, ProvidersAssumption DEF ProvidersAssumption

LEMMA SentMade ==
    ASSUME NEW p \in Providers, Sent(p).out = "ok"
    PROVE  MadeFor(p, Request, Params(p, Request)) /\ MadeFor(p, Request, Sent(p))
<1>1. CASE ~Request.params[p].valid
  BY <1>1 DEF Sent, Complete, Stops
<1>2. CASE Request.params[p].valid /\ Params(p, Request).out # "ok"
  BY <1>2 DEF Sent, Complete
<1>3. CASE Request.params[p].valid /\ Params(p, Request).out = "ok"
  <2> DEFINE x == Params(p, Request)
  <2>1. Sent(p) = [x EXCEPT !.body = Merged(@, Request.params[p].set)]
    BY <1>3 DEF Sent, Complete
  <2>2. \E turns, system, tools, choice :
           x = Sends(turns, system, tools, choice, Fields(p, settings.reasoning))
    BY <1>3, ParamsBody
  <2>3. MadeFor(p, Request, x)
    BY <1>3, ParamsMade
  <2> HIDE DEF x
  <2>4. /\ Sent(p).out = x.out /\ Sent(p).turns = x.turns /\ Sent(p).tools = x.tools
        /\ Sent(p).choice = x.choice
    BY <2>1, <2>2 DEF Sends
  <2> QED BY <2>3, <2>4 DEF MadeFor, x
<1> QED BY <1>1, <1>2, <1>3

\* What a provider is told: everything that is meant for it, and of what is
\* sealed or signed what it issued itself.
MeantBy(p, msgs) == IF p \in {"openai-compat", "ollama"} THEN FirstTexts(msgs) ELSE msgs

IsTold(p, req, turns) ==
    /\ Told(<<"atom", p>>, turns) = Told(<<"atom", p>>, MeantBy(p, req.messages))
    /\ Told(<<"secret", p>>, turns) =
          IF p \in {"anthropic", "google"} THEN Told(<<"own", p>>, req.messages) ELSE <<>>

LEMMA EveryoneIsTold ==
    ASSUME NEW p \in Providers, NEW req, AreMessages(req.messages),
           \A i \in DOMAIN req.messages : Legal(req.messages[i])
    PROVE  IsTold(p, req, TurnsFor(p, req))
<1> DEFINE turns == TurnsFor(p, req)
<1> SUFFICES /\ Told(<<"atom", p>>, turns) = Told(<<"atom", p>>, MeantBy(p, req.messages))
             /\ Told(<<"secret", p>>, turns) =
                  IF p \in {"anthropic", "google"} THEN Told(<<"own", p>>, req.messages) ELSE <<>>
  BY DEF IsTold
<1>1. CASE p = "anthropic"
  BY <1>1, AnthropicIsTold DEF TurnsFor, MeantBy
<1>2. CASE p = "google"
  BY <1>2, GoogleIsTold DEF TurnsFor, MeantBy
<1>3. CASE p = "openai"
  BY <1>3, OpenAIIsTold DEF TurnsFor, MeantBy
<1>4. CASE p = "openai-compat"
  BY <1>4, CompatIsTold DEF TurnsFor, MeantBy
<1>5. CASE p = "ollama"
  <2> DEFINE ss == [i \in DOMAIN ReasoningFrom("ollama", req.messages) |->
                       OllamaAdapter!messageParts(ReasoningFrom("ollama", req.messages)[i])]
  <2>1. turns = FlattenSeq(ss)
    BY <1>5 DEF TurnsFor
  <2>2. ss = [i \in DOMAIN ReasoningFrom("ollama", req.messages) |->
                 OllamaAdapter!messageParts(ReasoningFrom("ollama", req.messages)[i])]
    OBVIOUS
  <2> HIDE DEF ss
  <2>3. /\ Told(<<"atom", "ollama">>, FlattenSeq(ss))
              = Told(<<"atom", "ollama">>, FirstTexts(req.messages))
        /\ Told(<<"secret", "ollama">>, FlattenSeq(ss)) = <<>>
    BY <2>2, OllamaIsTold
  <2> QED BY <1>5, <2>1, <2>3 DEF MeantBy
<1> QED BY <1>1, <1>2, <1>3, <1>4, <1>5, ProvidersAssumption DEF ProvidersAssumption

\* The properties of Conversation in these words.
LEMMA ReturnedIsTold == ASSUME NEW p PROVE Returned = Told(<<"secret", p>>, wire.turns)
<1> DEFINE turns == wire.turns
           v == <<"secret", p>>
           secrets == [i \in DOMAIN turns |->
                          FlattenSeq([j \in DOMAIN turns[i].parts |-> Secret(turns[i].parts[j])])]
           said == [i \in DOMAIN turns |-> Said(v, turns[i].role, turns[i].parts)]
<1>1. Returned = FlattenSeq(secrets)
  BY Zenon DEF Returned
<1>2. Told(v, turns) = FlattenSeq(said)
  BY Zenon DEF Told
<1>3. \A role, x : View(v, role, x) = Secret(x)
  BY DEF View
<1> HIDE DEF turns, v
<1>4. secrets = said
  <2> SUFFICES ASSUME NEW i \in DOMAIN turns
               PROVE  FlattenSeq([j \in DOMAIN turns[i].parts |-> Secret(turns[i].parts[j])])
                         = Said(v, turns[i].role, turns[i].parts)
    OBVIOUS
  <2>1. [j \in DOMAIN turns[i].parts |-> Secret(turns[i].parts[j])]
           = [j \in DOMAIN turns[i].parts |-> View(v, turns[i].role, turns[i].parts[j])]
    BY <1>3
  <2> QED BY <2>1, Zenon DEF Said
<1> QED BY <1>1, <1>2, <1>4, Zenon DEF turns, v

LEMMA AtomsAreTold == ASSUME NEW p, NEW turns PROVE Atoms(p, turns) = Told(<<"atom", p>>, turns)
<1> DEFINE v == <<"atom", p>>
           atoms == [i \in DOMAIN turns |->
                        FlattenSeq([j \in DOMAIN turns[i].parts |->
                            Atom(p, turns[i].role, turns[i].parts[j])])]
           said == [i \in DOMAIN turns |-> Said(v, turns[i].role, turns[i].parts)]
<1>1. Atoms(p, turns) = FlattenSeq(atoms)
  BY Zenon DEF Atoms
<1>2. Told(v, turns) = FlattenSeq(said)
  BY Zenon DEF Told
<1>3. \A role, x : View(v, role, x) = Atom(p, role, x)
  BY DEF View
<1> HIDE DEF v
<1>4. atoms = said
  <2> SUFFICES ASSUME NEW i \in DOMAIN turns
               PROVE  FlattenSeq([j \in DOMAIN turns[i].parts |->
                          Atom(p, turns[i].role, turns[i].parts[j])])
                         = Said(v, turns[i].role, turns[i].parts)
    OBVIOUS
  <2>1. [j \in DOMAIN turns[i].parts |-> Atom(p, turns[i].role, turns[i].parts[j])]
           = [j \in DOMAIN turns[i].parts |-> View(v, turns[i].role, turns[i].parts[j])]
    BY <1>3
  <2> QED BY <2>1, Zenon DEF Said
<1> QED BY <1>1, <1>2, <1>4, Zenon DEF v

LEMMA MeantIsMeant == ASSUME NEW p PROVE Meant(p) = MeantBy(p, messages)
BY DEF Meant, MeantBy, FirstTexts

\* The providers that want nothing back have issued nothing.
LEMMA OthersWantNothing ==
    ASSUME TranscriptInv, NEW p \in Providers, p \notin {"anthropic", "google"}
    PROVE  Told(<<"own", p>>, messages) = <<>>
<1> DEFINE v == <<"own", p>>
<1>1. IsSequence(messages) /\ \A i \in DOMAIN messages : IsMessage(messages[i])
  BY DEF TranscriptInv, AreMessages
<1>2. \A role, x : View(v, role, x) = Own(p, x)
  BY DEF View
<1> HIDE DEF v
<1>3. ASSUME NEW i \in DOMAIN messages
      PROVE  Said(v, messages[i].role, messages[i].parts) = <<>>
  <2>1. /\ IsSequence(messages[i].parts)
        /\ \A j \in DOMAIN messages[i].parts : IsPart(messages[i].parts[j])
    BY <1>1 DEF IsMessage
  <2>2. \A j \in DOMAIN messages[i].parts : Own(p, messages[i].parts[j]) = <<>>
    BY <2>1 DEF Own, IsPart, Kinds
  <2>3. \A j \in DOMAIN messages[i].parts : View(v, messages[i].role, messages[i].parts[j]) = <<>>
    BY <1>2, <2>2
  <2> QED BY <2>1, <2>3, SaidNothing
<1>4. Told(v, messages) = <<>>
  BY <1>1, <1>3, ToldNothing
<1> QED BY <1>4 DEF v

\* What a provider has is what was sent of a transcript that is legal.
LEMMA DeliveredIsLegal ==
    ASSUME ConversationInv, TranscriptInv, Delivered
    PROVE  /\ asked \in Providers /\ wire = Sent(asked) /\ Sent(asked).out = "ok"
           /\ Request.messages = messages /\ AreMessages(messages)
           /\ \A i \in DOMAIN messages : Legal(messages[i])
<1>1. /\ asked \in Providers /\ wire = Sent(asked) /\ wire.out = "ok" /\ AreMessages(messages)
      /\ ValidRequest(Request)
  BY DEF ConversationInv, TranscriptInv, Delivered, Sending
<1>2. Request.messages = messages
  BY DEF Request
<1>3. ValidateMessages(Outlines(messages))
  BY <1>1, <1>2 DEF ValidRequest
<1> QED BY <1>1, <1>2, <1>3, ValidAreLegal

\* A provider gets back exactly the reasoning and the signatures it issued, in
\* the order in which it issued them, and none of another provider's, however
\* the conversation moved between the providers (reasoning.go, reasoningFrom;
\* the adapters' conversions of requests and of replies).
THEOREM NoReasoningAstray == Spec => []ReasoningStaysHome
<1>1. ConversationInv /\ TranscriptInv /\ HistoryInv => ReasoningStaysHome
  <2> SUFFICES ASSUME ConversationInv, TranscriptInv, HistoryInv, Delivered
               PROVE  Returned = Issued(asked)
    BY DEF ReasoningStaysHome
  <2>1. /\ asked \in Providers /\ wire = Sent(asked) /\ Sent(asked).out = "ok"
        /\ Request.messages = messages /\ AreMessages(messages)
        /\ \A i \in DOMAIN messages : Legal(messages[i])
    BY DeliveredIsLegal
  <2>2. wire.turns = TurnsFor(asked, Request)
    BY <2>1, SentMade DEF MadeFor
  <2>3. Told(<<"secret", asked>>, wire.turns) =
           IF asked \in {"anthropic", "google"} THEN Told(<<"own", asked>>, messages) ELSE <<>>
    <3>1. AreMessages(Request.messages) /\ \A i \in DOMAIN Request.messages : Legal(Request.messages[i])
      BY <2>1, Zenon
    <3>2. IsTold(asked, Request, TurnsFor(asked, Request))
      BY <2>1, <3>1, EveryoneIsTold, Zenon
    <3> QED BY <2>1, <2>2, <3>2 DEF IsTold
  <2>4. Told(<<"own", asked>>, messages) = Issued(asked)
    BY <2>1 DEF HistoryInv
  <2>5. asked \notin {"anthropic", "google"} => Told(<<"own", asked>>, messages) = <<>>
    BY <2>1, OthersWantNothing
  <2>6. Returned = Told(<<"secret", asked>>, wire.turns)
    BY ReturnedIsTold
  <2> QED BY <2>3, <2>4, <2>5, <2>6
<1> QED BY <1>1, TranscriptInit, TranscriptStep, HistoryInit, HistoryStep, PTL DEF Spec

-----------------------------------------------------------------------------
(***************************************************************************)
(* The tool choice                                                         *)
(***************************************************************************)

\* The adapters' verdicts are decided alike.
LEMMA SameFirst ==
    ASSUME NEW v
    PROVE  /\ AnthropicAdapter!First(v) = First(v) /\ GoogleAdapter!First(v) = First(v)
           /\ OpenAIAdapter!First(v) = First(v) /\ CompatAdapter!First(v) = First(v)
           /\ OllamaAdapter!First(v) = First(v)
BY Zenon DEF First, Min, AnthropicAdapter!First, AnthropicAdapter!Min, GoogleAdapter!First,
    GoogleAdapter!Min, OpenAIAdapter!First, OpenAIAdapter!Min, CompatAdapter!First,
    CompatAdapter!Min, OllamaAdapter!First, OllamaAdapter!Min

\* A verdict of "ok" is one of all steps.
LEMMA AllAreOk ==
    ASSUME NEW v, IsSequence(v), First(v) = "ok" PROVE \A i \in DOMAIN v : v[i] = "ok"
<1> DEFINE bad == {i \in DOMAIN v : v[i] # "ok"}
<1>1. SUFFICES ASSUME bad # {} PROVE FALSE
  OBVIOUS
<1>2. bad \in SUBSET Nat
  BY DEF IsSequence
<1>3. Min(bad) \in bad
  BY <1>1, <1>2, MinNat
<1>4. First(v) = v[Min(bad)]
  BY <1>1, Zenon DEF First
<1> QED BY <1>3, <1>4

LEMMA LastIsOk ==
    ASSUME NEW s, NEW t, IsSequence(s), IsSequence(t), NEW c,
           First(s \o t \o <<c>>) = "ok"
    PROVE  c = "ok"
<1> DEFINE u == s \o t
           v == u \o <<c>>
<1>1. IsSequence(u)
  BY JoinIsSequence, Zenon
<1>2. v = Append(u, c)
  BY <1>1, AppendJoins, Zenon
<1>3. First(v) = "ok"
  OBVIOUS
<1> HIDE DEF u, v
<1>4. OneMoreThan(Append(u, c), u, Len(u), c)
  BY <1>1, AppendTo, Zenon
<1>5. IsSequence(v) /\ Len(u) \in Nat /\ Len(v) = Len(u) + 1 /\ v[Len(u) + 1] = c
  BY <1>1, <1>2, <1>4 DEF OneMoreThan, IsSequence
<1>6. Len(u) + 1 \in DOMAIN v
  BY <1>5 DEF IsSequence
<1> QED BY <1>3, <1>5, <1>6, AllAreOk

\* What a choice demands of the tools.
CanBeMet(req) == RequiresTools(req.choice) => req.tools # <<>>

LEMMA AcceptedCanBeMet ==
    ASSUME NEW p \in Providers, IsSequence(Request.tools), Params(p, Request).out = "ok"
    PROVE  CanBeMet(Request)
<1> DEFINE req == Request
<1>1. \A a, b : IsSequence(<<a, b>>)
  BY DEF IsSequence, Range
<1>2. \A a, b, c : IsSequence(<<a, b, c>>)
  BY DEF IsSequence, Range
<1>3. CASE p = "anthropic"
  <2> DEFINE a == AnthropicAdapter!SystemVerdict(req)
             b == AnthropicAdapter!OkIf(AnthropicAdapter!buildMessages(req).ok)
             t == AnthropicAdapter!SchemaVerdicts(req, AnthropicAdapter!parseToolSchema)
             c == AnthropicAdapter!ChoiceVerdict(req)
  <2>1. AnthropicAdapter!First(<<a, b>> \o t \o <<c>>) = "ok"
    BY <1>3 DEF Params, AnthropicAdapter!toParams, AnthropicAdapter!Stops
  <2>2. t = [i \in DOMAIN req.tools |-> t[i]]
    BY DEF AnthropicAdapter!SchemaVerdicts
  <2>3. c = "ok" => CanBeMet(req)
    BY DEF CanBeMet, RequiresTools, AnthropicAdapter!ChoiceVerdict, AnthropicAdapter!OkIf, AnthropicAdapter!RequiresTools
  <2> HIDE DEF a, b, t, c, req
  <2>4. IsSequence(t)
    BY <2>2, MadeIsSequence DEF req
  <2> QED BY <1>1, <2>1, <2>3, <2>4, SameFirst, LastIsOk DEF req
<1>4. CASE p = "google"
  <2> DEFINE a == GoogleAdapter!SystemVerdict(req)
             b == GoogleAdapter!OkIf(GoogleAdapter!buildContents(req).ok)
             t == GoogleAdapter!SchemaVerdicts(req, GoogleAdapter!SchemaVerdict)
             c == GoogleAdapter!ChoiceVerdict(req)
  <2>1. GoogleAdapter!First(<<a, b>> \o t \o <<c>>) = "ok"
    BY <1>4 DEF Params, GoogleAdapter!toParams, GoogleAdapter!Stops
  <2>2. t = [i \in DOMAIN req.tools |-> t[i]]
    BY DEF GoogleAdapter!SchemaVerdicts
  <2>3. c = "ok" => CanBeMet(req)
    BY DEF CanBeMet, RequiresTools, GoogleAdapter!ChoiceVerdict, GoogleAdapter!OkIf, GoogleAdapter!RequiresTools
  <2> HIDE DEF a, b, t, c, req
  <2>4. IsSequence(t)
    BY <2>2, MadeIsSequence DEF req
  <2> QED BY <1>1, <2>1, <2>3, <2>4, SameFirst, LastIsOk DEF req
<1>5. CASE p = "openai"
  <2> DEFINE a == OpenAIAdapter!SystemVerdict(req)
             b == OpenAIAdapter!OkIf(OpenAIAdapter!buildInput(req).ok)
             t == OpenAIAdapter!SchemaVerdicts(req, OpenAIAdapter!SchemaVerdict)
             c == OpenAIAdapter!ChoiceVerdict(req)
  <2>1. OpenAIAdapter!First(<<a, b>> \o t \o <<c>>) = "ok"
    BY <1>5 DEF Params, OpenAIAdapter!toParams, OpenAIAdapter!Stops
  <2>2. t = [i \in DOMAIN req.tools |-> t[i]]
    BY DEF OpenAIAdapter!SchemaVerdicts
  <2>3. c = "ok" => CanBeMet(req)
    BY DEF CanBeMet, RequiresTools, OpenAIAdapter!ChoiceVerdict, OpenAIAdapter!OkIf, OpenAIAdapter!RequiresTools
  <2> HIDE DEF a, b, t, c, req
  <2>4. IsSequence(t)
    BY <2>2, MadeIsSequence DEF req
  <2> QED BY <1>1, <2>1, <2>3, <2>4, SameFirst, LastIsOk DEF req
<1>6. CASE p = "openai-compat"
  <2> DEFINE a == CompatAdapter!SystemVerdict(req)
             b == CompatAdapter!OkIf(CompatAdapter!buildMessages(req).ok)
             t == CompatAdapter!SchemaVerdicts(req, CompatAdapter!SchemaVerdict)
             c == CompatAdapter!ChoiceVerdict(req)
  <2>1. CompatAdapter!First(<<a, b>> \o t \o <<c>>) = "ok"
    BY <1>6 DEF Params, CompatAdapter!toParams, CompatAdapter!Stops
  <2>2. t = [i \in DOMAIN req.tools |-> t[i]]
    BY DEF CompatAdapter!SchemaVerdicts
  <2>3. c = "ok" => CanBeMet(req)
    BY DEF CanBeMet, RequiresTools, CompatAdapter!ChoiceVerdict, CompatAdapter!OkIf, CompatAdapter!RequiresTools
  <2> HIDE DEF a, b, t, c, req
  <2>4. IsSequence(t)
    BY <2>2, MadeIsSequence DEF req
  <2> QED BY <1>1, <2>1, <2>3, <2>4, SameFirst, LastIsOk DEF req
<1>7. CASE p = "ollama"
  <2> DEFINE msgs == OllamaAdapter!ReasoningFrom("ollama", req.messages)
             turns == OllamaAdapter!FlattenSeq(
                         [i \in DOMAIN msgs |-> OllamaAdapter!messageParts(msgs[i])])
             a == OllamaAdapter!SystemVerdict(req)
             b == OllamaAdapter!OkIf(\A i \in DOMAIN msgs : OllamaAdapter!MessageOk(msgs[i]))
             d == OllamaAdapter!OkIf(turns # <<>>)
             t == OllamaAdapter!SchemaVerdicts(req, OllamaAdapter!SchemaVerdict)
             c == OllamaAdapter!validateToolChoice(req)
  <2>1. OllamaAdapter!First(<<a, b, d>> \o t \o <<c>>) = "ok"
    BY <1>7 DEF Params, OllamaAdapter!toWire, OllamaAdapter!Stops
  <2>2. t = [i \in DOMAIN req.tools |-> t[i]]
    BY DEF OllamaAdapter!SchemaVerdicts
  <2>3. c = "ok" => CanBeMet(req)
    BY DEF CanBeMet, RequiresTools, OllamaAdapter!validateToolChoice, OllamaAdapter!OkIf,
       OllamaAdapter!RequiresTools
  <2> HIDE DEF a, b, d, t, c, req
  <2>4. IsSequence(t)
    BY <2>2, MadeIsSequence DEF req
  <2> QED BY <1>2, <2>1, <2>3, <2>4, SameFirst, LastIsOk DEF req
<1> QED BY <1>3, <1>4, <1>5, <1>6, <1>7, ProvidersAssumption DEF ProvidersAssumption

\* Without tools nothing is chosen and nothing is offered.
LEMMA NoToolsNoNames ==
    ASSUME NEW req, IsSequence(req.tools) PROVE ToolNames(req) = <<>> <=> req.tools = <<>>
<1> DEFINE names == ToolNames(req)
<1>1. names = [i \in DOMAIN req.tools |-> names[i]]
  BY DEF ToolNames
<1> HIDE DEF names
<1>2. IsSequence(names) /\ DOMAIN names = DOMAIN req.tools
  BY <1>1, MadeIsSequence
<1> QED BY <1>2, EmptySequence DEF names

\* The words of an adapter for a choice.
Word(p, type) ==
    CASE type = "auto" -> IF p = "google" THEN "AUTO" ELSE "auto"
      [] type = "none" -> IF p = "google" THEN "NONE" ELSE "none"
      [] type = "required" -> IF p = "anthropic" THEN "any"
                              ELSE IF p = "google" THEN "ANY" ELSE "required"
      [] type = "tool" -> IF p = "anthropic" THEN "tool"
                          ELSE IF p = "google" THEN "ANY" ELSE "function"

LEMMA ChoiceIsWorded ==
    ASSUME NEW p \in Providers, p # "ollama", NEW req
    PROVE  ChoiceFor(p, req) =
              IF req.tools = <<>> \/ req.choice.type \notin {"auto", "none", "required", "tool"}
              THEN NoChoice
              ELSE [mode |-> Word(p, req.choice.type),
                    name |-> IF req.choice.type = "tool" THEN req.choice.name ELSE NoName]
<1>1. CASE p = "anthropic"
  BY <1>1 DEF ChoiceFor, Word, NoChoice, NoName, AnthropicAdapter!toolChoice,
      AnthropicAdapter!ToolChoice, AnthropicAdapter!NoChoice, AnthropicAdapter!NoName
<1>2. CASE p = "google"
  BY <1>2 DEF ChoiceFor, Word, NoChoice, NoName, GoogleAdapter!toolConfig,
      GoogleAdapter!ToolChoice, GoogleAdapter!NoChoice, GoogleAdapter!NoName
<1>3. CASE p = "openai"
  BY <1>3 DEF ChoiceFor, Word, NoChoice, NoName, OpenAIAdapter!toolChoice,
      OpenAIAdapter!ToolChoice, OpenAIAdapter!NoChoice, OpenAIAdapter!NoName
<1>4. CASE p = "openai-compat"
  BY <1>4 DEF ChoiceFor, Word, NoChoice, NoName, CompatAdapter!toolChoice,
      CompatAdapter!ToolChoice, CompatAdapter!NoChoice, CompatAdapter!NoName
<1> QED BY <1>1, <1>2, <1>3, <1>4, ProvidersAssumption DEF ProvidersAssumption

\* The choice of a request that is accepted reaches the provider.
LEMMA ChoiceReaches ==
    ASSUME NEW p \in Providers, p = asked, wire = Sent(p), Sent(p).out = "ok",
           settings \in Settings
    PROVE  IntentKept
<1> DEFINE type == settings.choice.type
           forced == wire.choice.mode \in {"any", "required", "ANY", "tool", "function"}
<1>1. /\ Request.tools = settings.tools /\ Request.choice = settings.choice
      /\ IsSequence(settings.tools)
  BY SettingsAssumption DEF SettingsAssumption, Request
<1>2. MadeFor(p, Request, Params(p, Request)) /\ MadeFor(p, Request, wire)
  BY SentMade
<1>3. RequiresTools(settings.choice) => settings.tools # <<>>
  BY <1>1, <1>2, AcceptedCanBeMet DEF CanBeMet, MadeFor
<1>4. ToolNames(Request) = <<>> <=> settings.tools = <<>>
  BY <1>1, NoToolsNoNames
<1>5. CASE p = "ollama"
  <2>1. /\ wire.tools = IF type = "none" THEN <<>> ELSE ToolNames(Request)
        /\ wire.choice = NoChoice
    BY <1>1, <1>2, <1>5 DEF MadeFor, ToolsFor, ChoiceFor, OllamaAdapter!Offered,
       OllamaAdapter!ToolNames, ToolNames
  <2>2. ~forced
    BY <2>1 DEF NoChoice
  <2> HIDE DEF forced
  <2>3. RequiresTools(settings.choice) => type # "none"
    BY DEF RequiresTools
  <2>4. /\ type = "none" => wire.tools = <<>>
        /\ type # "none" => wire.tools = ToolNames(Request)
    BY <2>1
  <2> QED BY <1>5, <2>1, <2>2, <2>3, <2>4 DEF IntentKept, forced
<1>6. CASE p # "ollama"
  <2>1. /\ wire.tools = ToolNames(Request)
        /\ wire.choice = IF settings.tools = <<>> \/ type \notin {"auto", "none", "required", "tool"}
                         THEN NoChoice
                         ELSE [mode |-> Word(p, type),
                               name |-> IF type = "tool" THEN settings.choice.name ELSE NoName]
    BY <1>1, <1>2, <1>6, ChoiceIsWorded DEF MadeFor, ToolsFor
  <2>2. CASE settings.tools = <<>>
    <3>1. wire.choice = NoChoice /\ wire.tools = <<>> /\ ~RequiresTools(settings.choice)
      BY <1>3, <1>4, <2>1, <2>2
    <3>2. ~forced
      BY <3>1 DEF NoChoice
    <3> QED BY <2>1, <3>1, <3>2 DEF IntentKept, RequiresTools
  <2>3. CASE settings.tools # <<>>
    <3>1. wire.tools # <<>>
      BY <1>4, <2>1, <2>3
    <3>2. type = "none" => wire.choice.mode \in {"none", "NONE"}
      BY <2>1, <2>3 DEF Word
    <3>3. type = "auto" => ~forced
      BY <2>1, <2>3 DEF Word
    <3>4. RequiresTools(settings.choice) => forced
      BY <2>1, <2>3 DEF Word, RequiresTools
    <3>5. type = "tool" => wire.choice.name = settings.choice.name
      BY <2>1, <2>3
    <3> QED BY <2>1, <3>1, <3>2, <3>3, <3>4, <3>5 DEF IntentKept
  <2> QED BY <2>2, <2>3
<1> QED BY <1>5, <1>6

\* Everything the transcript says, and nothing else, reaches the provider once,
\* in order and by the one who said it, whichever adapter sends it, and the
\* choice of tools is kept (message.go; the adapters' conversions of messages
\* and of the tool choice).
THEOREM EverythingIsSaid == Spec => []NothingLost
<1>1. ConversationInv /\ TranscriptInv => NothingLost
  <2> SUFFICES ASSUME ConversationInv, TranscriptInv, Delivered
               PROVE  Atoms(asked, wire.turns) = Atoms(asked, Meant(asked)) /\ IntentKept
    BY DEF NothingLost
  <2>1. /\ asked \in Providers /\ wire = Sent(asked) /\ Sent(asked).out = "ok"
        /\ Request.messages = messages /\ AreMessages(messages)
        /\ \A i \in DOMAIN messages : Legal(messages[i])
    BY DeliveredIsLegal
  <2>2. wire.turns = TurnsFor(asked, Request)
    BY <2>1, SentMade DEF MadeFor
  <2>3. IsTold(asked, Request, TurnsFor(asked, Request))
    <3>1. AreMessages(Request.messages) /\ \A i \in DOMAIN Request.messages : Legal(Request.messages[i])
      BY <2>1, Zenon
    <3> QED BY <2>1, <3>1, EveryoneIsTold, Zenon
  <2>4. Told(<<"atom", asked>>, wire.turns) = Told(<<"atom", asked>>, Meant(asked))
    BY <2>1, <2>2, <2>3, MeantIsMeant DEF IsTold
  <2>5. IntentKept
    BY <2>1, ChoiceReaches DEF ConversationInv
  <2> QED BY <2>4, <2>5, AtomsAreTold
<1> QED BY <1>1, TranscriptInit, TranscriptStep, PTL DEF Spec
==============================================================================
