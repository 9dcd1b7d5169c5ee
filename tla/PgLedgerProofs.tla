---------------------------- MODULE PgLedgerProofs ----------------------------
(***************************************************************************)
(* Proofs about the distributed bucket, for every number of processes.     *)
(* First the bucket alone: its types, that a lease reported lost is lost,  *)
(* that the balance stays within the capacity and the live leases within   *)
(* the slot limit.  Then its token budget, for every estimate and usage    *)
(* and every limits that stay as Ensure set them.                          *)
(***************************************************************************)
EXTENDS PgLedger, FiniteSetTheorems, TLAPS

USE ConfigAssumption, LimitsAssumption DEF ConfigAssumption, LimitsAssumption

LEMMA RenewIntervalType == RenewInterval \in Nat \ {0}
BY DEF RenewInterval

LEMMA LimitsType ==
    ASSUME NEW l \in Limits
    PROVE  /\ l.capacity \in Nat /\ l.rate \in Nat /\ l.maxc \in Nat
           /\ Full(l) \in Nat
BY DEF Limits, Full

LEMMA AtMostType ==
    ASSUME NEW x \in Int, NEW y \in Int
    PROVE  AtMost(x, y) \in Int /\ AtMost(x, y) <= x /\ AtMost(x, y) <= y
BY DEF AtMost

LEMMA ScaledType ==
    ASSUME NEW x \in Int
    PROVE  x * RateDen \in Int
OBVIOUS

\* Settling yields a whole balance.
LEMMA SettledType ==
    ASSUME TypeOK
    PROVE  Settled \in Int
<1>1. limits.rate * (sinceRefill - txAge) \in Int
    BY LimitsType DEF TypeOK, BucketTypeOK, TxTypeOK
<1>2. /\ balance + limits.rate * (sinceRefill - txAge) \in Int
      /\ Full(limits) \in Int
    BY <1>1, LimitsType DEF TypeOK, BucketTypeOK
<1> QED
    BY <1>2, AtMostType DEF Settled, TypeOK, BucketTypeOK

LEMMA AdjustedType ==
    ASSUME TypeOK, NEW estimate \in Nat, NEW actual \in Nat
    PROVE  Adjusted(Settled, estimate, actual) \in Int
<1>1. (actual - estimate) * RateDen \in Int
    BY ScaledType
<1>2. Settled - (actual - estimate) * RateDen \in Int /\ Full(limits) \in Int
    BY <1>1, SettledType, LimitsType DEF TypeOK, BucketTypeOK
<1> QED
    BY <1>2, AtMostType DEF Adjusted

LEMMA NewBalanceType ==
    ASSUME TypeOK, NEW l \in Limits
    PROVE  NewBalance(l) \in Int
BY SettledType, LimitsType, AtMostType DEF NewBalance

LEMMA TokensType ==
    ASSUME CallersTypeOK, NEW c \in Callers
    PROVE  tokens[c] \in Nat
<1>1. tokens \in [Callers -> Estimates \cup {0}]
    BY DEF CallersTypeOK
<1>2. tokens[c] \in Estimates \cup {0}
    BY <1>1, Zenon
<1>3. Estimates \cup {0} \subseteq Nat
  <2>1. Estimates \subseteq Nat /\ 0 \in Nat
      OBVIOUS
  <2> QED
      BY ONLY <2>1, Zenon
<1> QED
    BY ONLY <1>2, <1>3, Zenon

\* Every step keeps the bucket row well typed.
LEMMA BucketTypeStep == TypeOK /\ [Next]_vars => BucketTypeOK'
<1> SUFFICES ASSUME TypeOK, [Next]_vars PROVE BucketTypeOK'
    OBVIOUS
<1>a. BucketTypeOK /\ TxTypeOK /\ CallersTypeOK /\ txAge \in 0..MaxGap
    BY DEF TypeOK, TxTypeOK
<1>s. Settled \in Int
    BY SettledType
<1>1. ASSUME NEW c \in Callers, Admit(c) PROVE BucketTypeOK'
  <2>1. tokens[c] * RateDen \in Int
    BY <1>a, TokensType, ScaledType
  <2> QED
    BY <1>1, <1>a, <1>s, <2>1 DEF Admit, BucketTypeOK
<1>2. ASSUME NEW c \in Callers, NoFit(c) PROVE BucketTypeOK'
    BY <1>2, <1>a, <1>s DEF NoFit, BucketTypeOK
<1>3. ASSUME NEW c \in Callers, NEW actual \in Usages, Adjust(c, actual) PROVE BucketTypeOK'
  <2>1. Adjusted(Settled, tokens[c], actual) \in Int
    BY <1>a, TokensType, AdjustedType
  <2> QED
    BY <1>3, <1>a, <2>1 DEF Adjust, BucketTypeOK
<1>4. ASSUME NEW l \in LimitChoices, Ensure(l) PROVE BucketTypeOK'
  <2>1. l \in Limits /\ NewBalance(l) \in Int
    BY NewBalanceType
  <2> QED
    BY <1>4, <2>1 DEF Ensure, BucketTypeOK
<1>5. CASE Tick
    BY <1>5, <1>a DEF Tick, AtMost, BucketTypeOK
<1>6. CASE UNCHANGED bucketRow
    BY <1>6, <1>a DEF bucketRow, BucketTypeOK
<1>7. ASSUME NEW c \in Callers, Step(c),
             ~Admit(c), ~NoFit(c), \A actual \in Usages : ~Adjust(c, actual)
      PROVE  UNCHANGED bucketRow
    BY <1>7 DEF Step, TryAcquire, Begin, GiveUp, Wake, Lock, RejectForGood, Abort,
       Reply, ReplyLost, Renew, RenewFails, RenewFindsLost, HardCap, AdjustFails,
       Release, ReleaseFails, Crash, Forget
<1>8. UNCHANGED vars => UNCHANGED bucketRow
    BY DEF vars
<1> QED
    BY <1>1, <1>2, <1>3, <1>4, <1>5, <1>6, <1>7, <1>8 DEF Next

\* What a step may do to the rows: all but an admission, a renewal and the
\* clock only drop rows.
LEMMA RowsSteps ==
    ASSUME TypeOK, Next
    PROVE  \/ Tick
           \/ \E c \in Callers : Admit(c) \/ Renew(c)
           \/ UNCHANGED leaseRows
           \/ \E kept \in SUBSET rows : KeepRows(kept)
<1>u. Unreaped \in SUBSET rows
    BY DEF Unreaped
<1>1. ASSUME NEW c \in Callers, Step(c), ~Admit(c), ~Renew(c)
      PROVE  UNCHANGED leaseRows \/ \E kept \in SUBSET rows : KeepRows(kept)
  <2>1. ASSUME NEW t \in Estimates, Begin(c, t) PROVE KeepRows(rows \ {c})
      BY <2>1 DEF Begin
  <2>2. ASSUME NoFit(c) PROVE KeepRows(Unreaped)
      BY <2>2 DEF NoFit
  <2>3. ASSUME NEW answered \in BOOLEAN, Release(c, answered) PROVE KeepRows(rows \ {c})
      BY <2>3 DEF Release
  <2>4. ASSUME ~NoFit(c), \A t \in Estimates : ~Begin(c, t),
               \A answered \in BOOLEAN : ~Release(c, answered)
        PROVE  UNCHANGED leaseRows
      BY <1>1, <2>4 DEF Step, TryAcquire, GiveUp, Wake, Lock, RejectForGood, Abort,
         Reply, ReplyLost, RenewFails, RenewFindsLost, HardCap, Adjust, AdjustFails,
         ReleaseFails, Crash, Forget
  <2>5. rows \ {c} \in SUBSET rows
      OBVIOUS
  <2> QED
      BY <2>1, <2>2, <2>3, <2>4, <2>5, <1>u
<1>2. ASSUME NEW l \in LimitChoices, Ensure(l) PROVE UNCHANGED leaseRows
    BY <1>2 DEF Ensure
<1> QED
    BY <1>1, <1>2 DEF Next

\* Every step keeps the lease rows well typed.
LEMMA RowsTypeStep == TypeOK /\ [Next]_vars => RowsTypeOK'
<1> SUFFICES ASSUME TypeOK, [Next]_vars PROVE RowsTypeOK'
    OBVIOUS
<1>a. RowsTypeOK /\ TxTypeOK
    BY DEF TypeOK
<1>1. ASSUME NEW c \in Callers, Admit(c) PROVE RowsTypeOK'
    BY <1>1, <1>a DEF Admit, Unreaped, RowsTypeOK
<1>2. ASSUME NEW c \in Callers, Renew(c) PROVE RowsTypeOK'
    BY <1>2, <1>a DEF Renew, Extend, Extended, AtMost, RowsTypeOK
<1>3. CASE Tick
    BY <1>3, <1>a DEF Tick, Down, RowsTypeOK
<1>4. CASE UNCHANGED leaseRows
    BY <1>4, <1>a DEF leaseRows, RowsTypeOK
<1>5. ASSUME NEW kept \in SUBSET rows, KeepRows(kept) PROVE RowsTypeOK'
    BY <1>5, <1>a DEF KeepRows, RowsTypeOK
<1>6. UNCHANGED vars => UNCHANGED leaseRows
    BY DEF vars
<1> QED
    BY <1>1, <1>2, <1>3, <1>4, <1>5, <1>6, RowsSteps

\* Every step keeps the transaction well typed.
LEMMA TxTypeStep == TypeOK /\ [Next]_vars => TxTypeOK'
<1> SUFFICES ASSUME TypeOK, [Next]_vars PROVE TxTypeOK'
    OBVIOUS
<1>a. TxTypeOK
    BY DEF TypeOK
<1>1. ASSUME NEW c \in Callers, Lock(c) PROVE TxTypeOK'
    BY <1>1 DEF Lock, TxTypeOK
<1>2. ASSUME Unlock PROVE TxTypeOK'
    BY <1>2 DEF Unlock, TxTypeOK
<1>3. CASE Tick
    BY <1>3, <1>a DEF Tick, TxTypeOK
<1>4. CASE UNCHANGED tx
    BY <1>4, <1>a DEF tx, TxTypeOK
<1>5. ASSUME NEW c \in Callers, Step(c), ~Lock(c) PROVE Unlock \/ UNCHANGED tx
    BY <1>5 DEF Step, TryAcquire, Admit, NoFit, RejectForGood, Abort, Begin, GiveUp,
       Wake, Reply, ReplyLost, Renew, RenewFails, RenewFindsLost, HardCap, Adjust,
       AdjustFails, Release, ReleaseFails, Crash, Forget
<1>6. ASSUME NEW l \in LimitChoices, Ensure(l) PROVE UNCHANGED tx
    BY <1>6 DEF Ensure
<1>7. UNCHANGED vars => UNCHANGED tx
    BY DEF vars
<1> QED
    BY <1>1, <1>2, <1>3, <1>4, <1>5, <1>6, <1>7 DEF Next

\* Flipping one caller's flag leaves a flag for every caller.
LEMMA FlagType ==
    ASSUME NEW f \in [Callers -> BOOLEAN], NEW c \in Callers, NEW b \in BOOLEAN
    PROVE  [f EXCEPT ![c] = b] \in [Callers -> BOOLEAN]
OBVIOUS

\* Every step keeps the callers well typed.
LEMMA CallersTypeStep == TypeOK /\ [Next]_vars => CallersTypeOK'
<1> SUFFICES ASSUME TypeOK, [Next]_vars PROVE CallersTypeOK'
    OBVIOUS
<1>a. CallersTypeOK
    BY DEF TypeOK
<1>g. ASSUME NEW c \in Callers, NEW where \in PCs, Goto(c, where)
      PROVE  pc' \in [Callers -> PCs]
    BY <1>a, <1>g DEF Goto, CallersTypeOK
<1>0. CASE UNCHANGED <<pc, tokens, charged, adjusted, lost>>
    BY <1>0, <1>a DEF CallersTypeOK
<1>1. ASSUME NEW c \in Callers, Step(c) PROVE CallersTypeOK'
  <2>1. pc' \in [Callers -> PCs]
    <3>1. UNCHANGED pc \/ \E where \in PCs : Goto(c, where)
        BY <1>1 DEF Step, Begin, GiveUp, Wake, Lock, TryAcquire, Admit, NoFit,
           RejectForGood, Abort, Fail, Reply, ReplyLost, Renew, RenewFails,
           RenewFindsLost, HardCap, Adjust, AdjustFails, Release, ReleaseFails,
           Crash, Forget, PCs
    <3> QED
        BY <3>1, <1>a, <1>g DEF CallersTypeOK
  <2>2. tokens' \in [Callers -> Estimates \cup {0}]
    <3>1. \/ UNCHANGED tokens
          \/ \E t \in Estimates \cup {0} : tokens' = [tokens EXCEPT ![c] = t]
        BY <1>1 DEF Step, Begin, GiveUp, Wake, Lock, TryAcquire, Admit, NoFit,
           RejectForGood, Abort, Fail, Reply, ReplyLost, Renew, RenewFails,
           RenewFindsLost, HardCap, Adjust, AdjustFails, Release, ReleaseFails,
           Crash, Forget
    <3> QED
        BY <3>1, <1>a DEF CallersTypeOK
  <2>3. charged' \in [Callers -> BOOLEAN]
    <3>0. TokenLimited(limits) \in BOOLEAN
        BY DEF TokenLimited
    <3>1. UNCHANGED charged \/ \E b \in BOOLEAN : charged' = [charged EXCEPT ![c] = b]
        BY <1>1, <3>0, Zenon DEF Step, Begin, GiveUp, Wake, Lock, TryAcquire, Admit, NoFit,
           RejectForGood, Abort, Fail, Reply, ReplyLost, Renew, RenewFails,
           RenewFindsLost, HardCap, Adjust, AdjustFails, Release, ReleaseFails,
           Crash, Forget, lease
    <3> QED
        BY <3>1, <1>a, FlagType DEF CallersTypeOK
  <2>4. adjusted' \in [Callers -> BOOLEAN]
    <3>1. UNCHANGED adjusted \/ \E b \in BOOLEAN : adjusted' = [adjusted EXCEPT ![c] = b]
        BY <1>1, Zenon DEF Step, Begin, GiveUp, Wake, Lock, TryAcquire, Admit, NoFit,
           RejectForGood, Abort, Fail, Reply, ReplyLost, Renew, RenewFails,
           RenewFindsLost, HardCap, Adjust, AdjustFails, Release, ReleaseFails,
           Crash, Forget, lease
    <3> QED
        BY <3>1, <1>a, FlagType DEF CallersTypeOK
  <2>5. lost' \in [Callers -> BOOLEAN]
    <3>1. UNCHANGED lost \/ \E b \in BOOLEAN : lost' = [lost EXCEPT ![c] = b]
        BY <1>1, <1>a, Zenon DEF Step, Begin, GiveUp, Wake, Lock, TryAcquire, Admit, NoFit,
           RejectForGood, Abort, Fail, Reply, ReplyLost, Renew, RenewFails,
           RenewFindsLost, HardCap, Adjust, AdjustFails, Release, ReleaseFails,
           Crash, Forget, lease, MarkLost, CallersTypeOK
    <3> QED
        BY <3>1, <1>a, FlagType DEF CallersTypeOK
  <2> QED
      BY <2>1, <2>2, <2>3, <2>4, <2>5 DEF CallersTypeOK
<1>2. ASSUME NEW l \in LimitChoices, Ensure(l) PROVE CallersTypeOK'
    BY <1>0, <1>2 DEF Ensure, lease
<1>3. CASE Tick
    BY <1>0, <1>3 DEF Tick
<1>4. CASE UNCHANGED vars
    BY <1>0, <1>4 DEF vars, lease
<1> QED
    BY <1>1, <1>2, <1>3, <1>4 DEF Next

\* Every step keeps the timers well typed.
LEMMA TimersTypeStep == TypeOK /\ [Next]_vars => TimersTypeOK'
<1> SUFFICES ASSUME TypeOK, [Next]_vars PROVE TimersTypeOK'
    OBVIOUS
<1>a. TimersTypeOK
    BY DEF TypeOK
<1>0. CASE UNCHANGED timers
    BY <1>0, <1>a DEF timers, TimersTypeOK
<1>1. ASSUME NEW c \in Callers, Stop(c) PROVE TimersTypeOK'
  <2>1. due' \in [Callers -> BOOLEAN]
      BY <1>1, <1>a, FlagType DEF Stop, TimersTypeOK
  <2>2. hardLeft' \in [Callers -> 0..MaxLeaseDuration] /\ renewLeft' \in [Callers -> 0..RenewInterval]
      BY <1>1, <1>a, RenewIntervalType DEF Stop, TimersTypeOK
  <2> QED
      BY <2>1, <2>2 DEF TimersTypeOK
<1>2. ASSUME NEW c \in Callers, Reply(c) PROVE TimersTypeOK'
    BY <1>2, <1>a, RenewIntervalType DEF Reply, TimersTypeOK
<1>3. ASSUME NEW c \in Callers, Renew(c) \/ RenewFails(c) PROVE TimersTypeOK'
  <2>1. due' \in [Callers -> BOOLEAN]
      BY <1>3, <1>a, FlagType DEF Renew, RenewFails, TimersTypeOK
  <2> QED
      BY <1>3, <1>a, <2>1 DEF Renew, RenewFails, TimersTypeOK
<1>4. CASE Tick
  <2>1. due' \in [Callers -> BOOLEAN]
      BY <1>4, <1>a DEF Tick, TickTimers, TimersTypeOK
  <2>2. hardLeft' \in [Callers -> 0..MaxLeaseDuration]
      BY <1>4, <1>a DEF Tick, TickTimers, Down, TimersTypeOK
  <2>3. renewLeft' \in [Callers -> 0..RenewInterval]
      BY <1>4, <1>a, RenewIntervalType DEF Tick, TickTimers, TimersTypeOK
  <2> QED
      BY <2>1, <2>2, <2>3 DEF TimersTypeOK
<1>5. ASSUME NEW c \in Callers, Step(c) PROVE
      Stop(c) \/ Reply(c) \/ Renew(c) \/ RenewFails(c) \/ UNCHANGED timers
    BY <1>5 DEF Step, Begin, GiveUp, Wake, Lock, TryAcquire, Admit, NoFit,
       RejectForGood, Abort, ReplyLost, RenewFindsLost, HardCap, Adjust, AdjustFails,
       Release, ReleaseFails, Crash, Forget, lease
<1>6. ASSUME NEW l \in LimitChoices, Ensure(l) PROVE UNCHANGED timers
    BY <1>6 DEF Ensure, lease
<1>7. UNCHANGED vars => UNCHANGED timers
    BY DEF vars, lease
<1> QED
    BY <1>0, <1>1, <1>2, <1>3, <1>4, <1>5, <1>6, <1>7 DEF Next

LEMMA InitType == Init => TypeOK
<1> SUFFICES ASSUME Init PROVE TypeOK
    OBVIOUS
<1>1. BucketTypeOK
    BY LimitsType DEF Init, BucketTypeOK
<1>2. RowsTypeOK
    BY DEF Init, RowsTypeOK
<1>3. TxTypeOK
    BY DEF Init, TxTypeOK, NoOne
<1>4. CallersTypeOK
    BY DEF Init, CallersTypeOK, PCs
<1>5. TimersTypeOK
    BY RenewIntervalType DEF Init, TimersTypeOK
<1> QED
    BY <1>1, <1>2, <1>3, <1>4, <1>5 DEF TypeOK

\* The bucket row, the lease rows, the transaction and the callers keep
\* their types (bucket/postgres): the balance stays a whole number of its
\* units, and no row expires later than LeaseTTL from now.
THEOREM TypeCorrect == Spec => []TypeOK
<1>1. Init => TypeOK
    BY InitType
<1>2. TypeOK /\ [Next]_vars => TypeOK'
    BY BucketTypeStep, RowsTypeStep, TxTypeStep, CallersTypeStep, TimersTypeStep DEF TypeOK
<1> QED
    BY <1>1, <1>2, PTL DEF Spec

-----------------------------------------------------------------------------
(***************************************************************************)
(* A lease reported lost is lost.  A row lives no longer than its cap, and *)
(* the cap ends no later than the holder's own timer, which was started    *)
(* after the row was inserted.                                             *)
(***************************************************************************)

CapsRows == \A c \in rows : left[c] <= capLeft[c]

TimerOutlivesCap == \A c \in rows : Renewing(c) => capLeft[c] <= hardLeft[c]

FreshLeaseUnmarked ==
    \A c \in Callers : pc[c] \notin {"holding", "released", "crashed"} => ~lost[c]

LostInv == CapsRows /\ TimerOutlivesCap /\ FreshLeaseUnmarked /\ LostIsTrue

LEMMA CapsRowsStep == TypeOK /\ CapsRows /\ [Next]_vars => CapsRows'
<1> SUFFICES ASSUME TypeOK, CapsRows, [Next]_vars PROVE CapsRows'
    OBVIOUS
<1>a. RowsTypeOK
    BY DEF TypeOK
<1>1. ASSUME NEW c \in Callers, Admit(c) PROVE CapsRows'
    BY <1>1, <1>a DEF Admit, Unreaped, CapsRows, RowsTypeOK
<1>2. ASSUME NEW c \in Callers, Renew(c) PROVE CapsRows'
    BY <1>2, <1>a DEF Renew, Extend, Extended, AtMost, CapsRows, RowsTypeOK
<1>3. CASE Tick
    BY <1>3, <1>a DEF Tick, Down, CapsRows, RowsTypeOK
<1>4. CASE UNCHANGED leaseRows
    BY <1>4 DEF leaseRows, CapsRows
<1>5. ASSUME NEW kept \in SUBSET rows, KeepRows(kept) PROVE CapsRows'
    BY <1>5, <1>a DEF KeepRows, CapsRows, RowsTypeOK
<1>6. UNCHANGED vars => UNCHANGED leaseRows
    BY DEF vars
<1> QED
    BY <1>1, <1>2, <1>3, <1>4, <1>5, <1>6, RowsSteps

LEMMA UnmarkedStep == TypeOK /\ FreshLeaseUnmarked /\ [Next]_vars => FreshLeaseUnmarked'
<1> SUFFICES ASSUME TypeOK, FreshLeaseUnmarked, [Next]_vars PROVE FreshLeaseUnmarked'
    OBVIOUS
<1>a. CallersTypeOK
    BY DEF TypeOK
<1>0. CASE UNCHANGED <<pc, lost>>
    BY <1>0 DEF FreshLeaseUnmarked
<1>1. ASSUME NEW c \in Callers, Step(c) PROVE FreshLeaseUnmarked'
  <2> USE <1>a DEF CallersTypeOK, FreshLeaseUnmarked
  <2>1. ASSUME MarkLost(c), pc[c] = "holding", UNCHANGED pc PROVE FreshLeaseUnmarked'
      BY <2>1 DEF MarkLost
  <2>2. ASSUME NEW answered \in BOOLEAN, Release(c, answered) PROVE FreshLeaseUnmarked'
      BY <2>2 DEF Release, Goto
  <2>3. ASSUME Forget(c) PROVE FreshLeaseUnmarked'
      BY <2>3 DEF Forget, Goto
  <2>4. ASSUME UNCHANGED lost, NEW where \in PCs, Goto(c, where),
               pc[c] \notin {"holding", "released", "crashed"}
                   \/ where \in {"released", "crashed"}
        PROVE  FreshLeaseUnmarked'
      BY <2>4 DEF Goto
  <2>5. \/ UNCHANGED <<pc, lost>>
        \/ MarkLost(c) /\ pc[c] = "holding" /\ UNCHANGED pc
        \/ \E answered \in BOOLEAN : Release(c, answered)
        \/ Forget(c)
        \/ /\ UNCHANGED lost
           /\ \E where \in PCs :
                 /\ Goto(c, where)
                 /\ pc[c] \notin {"holding", "released", "crashed"}
                        \/ where \in {"released", "crashed"}
      BY <1>1 DEF Step, Begin, GiveUp, Wake, Lock, TryAcquire, Admit, NoFit,
         RejectForGood, Abort, Fail, Reply, ReplyLost, Renew, RenewFails,
         RenewFindsLost, HardCap, Renewing, Adjust, AdjustFails, ReleaseFails,
         Crash, PCs, lease
  <2> QED
      BY <1>0, <2>1, <2>2, <2>3, <2>4, <2>5
<1>2. ASSUME NEW l \in LimitChoices, Ensure(l) PROVE FreshLeaseUnmarked'
    BY <1>0, <1>2 DEF Ensure, lease
<1>3. CASE Tick
    BY <1>0, <1>3 DEF Tick
<1>4. CASE UNCHANGED vars
    BY <1>0, <1>4 DEF vars, lease
<1> QED
    BY <1>1, <1>2, <1>3, <1>4 DEF Next

\* Only Reply starts a renewal, and what keeps one running keeps its timer.
LEMMA RenewingSteps ==
    ASSUME TypeOK, Next, ~Tick,
           NEW d \in Callers, Renewing(d)', ~Reply(d)
    PROVE  Renewing(d) /\ hardLeft'[d] = hardLeft[d]
<1>a. CallersTypeOK /\ TimersTypeOK
    BY DEF TypeOK
<1>1. ASSUME NEW l \in LimitChoices, Ensure(l) PROVE Renewing(d) /\ hardLeft'[d] = hardLeft[d]
    BY <1>1 DEF Ensure, lease, timers, Renewing
<1>2. ASSUME NEW c \in Callers, Step(c), c # d PROVE Renewing(d) /\ hardLeft'[d] = hardLeft[d]
  <2>1. pc'[d] = pc[d]
      BY <1>2, <1>a DEF Step, Begin, GiveUp, Wake, Lock, TryAcquire, Admit, NoFit,
         RejectForGood, Abort, Fail, Reply, ReplyLost, Renew, RenewFails, Goto,
         RenewFindsLost, HardCap, Adjust, AdjustFails, Release, ReleaseFails,
         Crash, Forget, CallersTypeOK
  <2>2. lost'[d] = lost[d]
      BY <1>2, <1>a DEF Step, Begin, GiveUp, Wake, Lock, TryAcquire, Admit, NoFit,
         RejectForGood, Abort, Reply, ReplyLost, Renew, RenewFails, MarkLost,
         RenewFindsLost, HardCap, Adjust, AdjustFails, Release, ReleaseFails,
         Crash, Forget, CallersTypeOK, lease
  <2>3. hardLeft'[d] = hardLeft[d]
      BY <1>2, <1>a DEF Step, Begin, GiveUp, Wake, Lock, TryAcquire, Admit, NoFit,
         RejectForGood, Abort, Reply, ReplyLost, Renew, RenewFails, Stop,
         RenewFindsLost, HardCap, Adjust, AdjustFails, Release, ReleaseFails,
         Crash, Forget, TimersTypeOK, lease, timers
  <2> QED
      BY <2>1, <2>2, <2>3 DEF Renewing
<1>3. ASSUME Step(d) PROVE Renewing(d) /\ hardLeft'[d] = hardLeft[d]
  <2>1. \/ UNCHANGED <<pc, lost, hardLeft>>
        \/ pc'[d] # "holding"
        \/ MarkLost(d)
      BY <1>3, <1>a DEF Step, Begin, GiveUp, Wake, Lock, TryAcquire, Admit, NoFit,
         RejectForGood, Abort, Fail, ReplyLost, Renew, RenewFails, Goto,
         RenewFindsLost, HardCap, Adjust, AdjustFails, Release, ReleaseFails,
         Crash, Forget, CallersTypeOK, lease, timers
  <2>2. pc'[d] = "holding" /\ ~lost'[d]
      BY DEF Renewing
  <2>3. ~MarkLost(d)
      BY <2>2, <1>a DEF MarkLost, CallersTypeOK
  <2> QED
      BY <2>1, <2>2, <2>3 DEF Renewing
<1> QED
    BY <1>1, <1>2, <1>3 DEF Next

\* Apart from an admission to the row, the cap of a row never grows.
LEMMA CapSteps ==
    ASSUME TypeOK, Next, ~Tick, NEW d \in rows', ~Admit(d)
    PROVE  d \in rows /\ capLeft'[d] = capLeft[d]
<1>a. RowsTypeOK
    BY DEF TypeOK
<1>1. ASSUME NEW c \in Callers, Admit(c), c # d PROVE d \in rows /\ capLeft'[d] = capLeft[d]
    BY <1>1, <1>a DEF Admit, Unreaped, RowsTypeOK
<1>2. ASSUME NEW c \in Callers, Renew(c) PROVE d \in rows /\ capLeft'[d] = capLeft[d]
    BY <1>2, <1>a DEF Renew, Extend
<1>3. CASE UNCHANGED leaseRows
    BY <1>3 DEF leaseRows
<1>4. ASSUME NEW kept \in SUBSET rows, KeepRows(kept) PROVE d \in rows /\ capLeft'[d] = capLeft[d]
    BY <1>4, <1>a DEF KeepRows, RowsTypeOK
<1> QED
    BY <1>1, <1>2, <1>3, <1>4, RowsSteps

LEMMA TimerStep == TypeOK /\ TimerOutlivesCap /\ [Next]_vars => TimerOutlivesCap'
<1> SUFFICES ASSUME TypeOK, TimerOutlivesCap, [Next]_vars, NEW d \in rows', Renewing(d)'
             PROVE  capLeft'[d] <= hardLeft'[d]
    BY DEF TimerOutlivesCap
<1>a. CallersTypeOK /\ TimersTypeOK /\ RowsTypeOK /\ RowsTypeOK'
    BY RowsTypeStep DEF TypeOK
<1>0. d \in Callers
    BY <1>a DEF RowsTypeOK
<1>1. CASE UNCHANGED vars
    BY <1>1 DEF vars, leaseRows, lease, timers, TimerOutlivesCap, Renewing
<1>2. CASE Tick
  <2>1. d \in rows /\ Renewing(d)
      BY <1>2 DEF Tick, Renewing
  <2>2. capLeft[d] <= hardLeft[d]
      BY <2>1 DEF TimerOutlivesCap
  <2> QED
      BY <1>2, <2>2, <1>0, <1>a DEF Tick, TickTimers, Down, RowsTypeOK, TimersTypeOK
<1>3. CASE Reply(d)
  <2>1. capLeft'[d] = capLeft[d] /\ hardLeft'[d] = MaxLeaseDuration
      BY <1>3, <1>0, <1>a DEF Reply, leaseRows, TimersTypeOK
  <2>2. capLeft[d] \in 0..MaxLeaseDuration
      BY <1>0, <1>a DEF RowsTypeOK
  <2> QED
      BY <2>1, <2>2
<1>4. CASE Admit(d)
  <2>1. pc'[d] = "replying"
      BY <1>4, <1>0, <1>a DEF Admit, Goto, CallersTypeOK
  <2> QED
      BY <2>1 DEF Renewing
<1>5. CASE Next /\ ~Tick /\ ~Reply(d) /\ ~Admit(d)
  <2>1. Renewing(d) /\ hardLeft'[d] = hardLeft[d]
      BY <1>5, <1>0, RenewingSteps
  <2>2. d \in rows /\ capLeft'[d] = capLeft[d]
      BY <1>5, CapSteps
  <2> QED
      BY <2>1, <2>2 DEF TimerOutlivesCap
<1> QED
    BY <1>1, <1>2, <1>3, <1>4, <1>5

\* Apart from an admission or a renewal of its own, no row comes alive.
LEMMA LiveSteps ==
    ASSUME TypeOK, [Next]_vars, NEW d \in Live', ~Admit(d), ~Renew(d)
    PROVE  d \in Live
<1>a. RowsTypeOK
    BY DEF TypeOK
<1>1. CASE UNCHANGED vars
    BY <1>1 DEF vars, leaseRows, Live
<1>2. CASE Tick
    BY <1>2, <1>a DEF Tick, Live, RowsTypeOK
<1>3. ASSUME NEW c \in Callers, Admit(c), c # d PROVE d \in Live
    BY <1>3, <1>a DEF Admit, Unreaped, Live, RowsTypeOK
<1>4. ASSUME NEW c \in Callers, Renew(c), c # d PROVE d \in Live
    BY <1>4, <1>a DEF Renew, Extend, Live, RowsTypeOK
<1>5. CASE UNCHANGED leaseRows
    BY <1>5 DEF leaseRows, Live
<1>6. ASSUME NEW kept \in SUBSET rows, KeepRows(kept) PROVE d \in Live
    BY <1>6, <1>a DEF KeepRows, Live, RowsTypeOK
<1> QED
    BY <1>1, <1>2, <1>3, <1>4, <1>5, <1>6, RowsSteps

\* How a holder comes to be marked.
LEMMA LostSteps ==
    ASSUME TypeOK, FreshLeaseUnmarked, [Next]_vars,
           NEW d \in Callers, (pc[d] = "holding" /\ lost[d])'
    PROVE  pc[d] = "holding" /\ (lost[d] \/ RenewFindsLost(d) \/ HardCap(d))
<1>a. CallersTypeOK
    BY DEF TypeOK
<1>1. ASSUME pc'[d] = pc[d], lost'[d] = lost[d] PROVE pc[d] = "holding" /\ lost[d]
    BY <1>1
<1>2. CASE UNCHANGED vars
    BY <1>1, <1>2 DEF vars, lease
<1>3. CASE Tick
    BY <1>1, <1>3 DEF Tick
<1>4. ASSUME NEW l \in LimitChoices, Ensure(l) PROVE pc[d] = "holding" /\ lost[d]
    BY <1>1, <1>4 DEF Ensure, lease
<1>5. ASSUME NEW c \in Callers, Step(c), c # d PROVE pc[d] = "holding" /\ lost[d]
  <2>1. pc'[d] = pc[d]
      BY <1>5, <1>a DEF Step, Begin, GiveUp, Wake, Lock, TryAcquire, Admit, NoFit,
         RejectForGood, Abort, Fail, Reply, ReplyLost, Renew, RenewFails, Goto,
         RenewFindsLost, HardCap, Adjust, AdjustFails, Release, ReleaseFails,
         Crash, Forget, CallersTypeOK
  <2>2. lost'[d] = lost[d]
      BY <1>5, <1>a DEF Step, Begin, GiveUp, Wake, Lock, TryAcquire, Admit, NoFit,
         RejectForGood, Abort, Reply, ReplyLost, Renew, RenewFails, MarkLost,
         RenewFindsLost, HardCap, Adjust, AdjustFails, Release, ReleaseFails,
         Crash, Forget, CallersTypeOK, lease
  <2> QED
      BY <1>1, <2>1, <2>2
<1>6. CASE Step(d)
  <2>1. \/ UNCHANGED <<pc, lost>>
        \/ pc'[d] # "holding"
        \/ Reply(d)
        \/ pc[d] = "holding" /\ (RenewFindsLost(d) \/ HardCap(d))
      BY <1>6, <1>a DEF Step, Begin, GiveUp, Wake, Lock, TryAcquire, Admit, NoFit,
         RejectForGood, Abort, Fail, ReplyLost, Renew, RenewFails, Goto,
         RenewFindsLost, HardCap, Renewing, Adjust, AdjustFails, Release,
         ReleaseFails, Crash, Forget, CallersTypeOK, lease
  <2>2. ~Reply(d)
      BY DEF Reply, FreshLeaseUnmarked
  <2> QED
      BY <1>1, <2>1, <2>2
<1> QED
    BY <1>2, <1>3, <1>4, <1>5, <1>6 DEF Next

LEMMA LostStep == TypeOK /\ LostInv /\ [Next]_vars => LostIsTrue'
<1> SUFFICES ASSUME TypeOK, LostInv, [Next]_vars,
                    NEW d \in Callers, (pc[d] = "holding" /\ lost[d])'
             PROVE  d \notin Live'
    BY DEF LostIsTrue
<1>a. CallersTypeOK /\ TimersTypeOK /\ RowsTypeOK
    BY DEF TypeOK
<1>1. pc[d] = "holding" /\ (lost[d] \/ RenewFindsLost(d) \/ HardCap(d))
    BY LostSteps DEF LostInv
<1>2. d \notin Live
  <2>1. CASE lost[d]
      BY <1>1, <2>1 DEF LostInv, LostIsTrue
  <2>2. CASE RenewFindsLost(d)
      BY <2>2 DEF RenewFindsLost
  <2>3. CASE HardCap(d)
    <3>1. d \in rows => capLeft[d] <= 0
        BY <2>3, <1>a DEF HardCap, LostInv, TimerOutlivesCap
    <3>2. d \in rows => left[d] <= capLeft[d]
        BY DEF LostInv, CapsRows
    <3> QED
        BY <3>1, <3>2, <1>a DEF Live, RowsTypeOK
  <2> QED
      BY <1>1, <2>1, <2>2, <2>3
<1>3. ~Admit(d)
    BY <1>1 DEF Admit
<1>4. ~Renew(d)
  <2>1. CASE lost[d]
      BY <2>1 DEF Renew, Renewing
  <2>2. ~(d \in Live)
      BY <1>2
  <2> QED
      BY <2>2 DEF Renew, Extend
<1> QED
    BY <1>2, <1>3, <1>4, LiveSteps

\* A holder is told that its lease is lost only when it is: its local timer
\* never ends a lease the database still counts, and no renewal revives a
\* lease that was reported lost (renew, renewOnce, markLost).
THEOREM LostIsLost == Spec => []LostIsTrue
<1>1. Init => LostInv
  <2> SUFFICES ASSUME Init PROVE LostInv
      OBVIOUS
  <2>1. rows = {} /\ \A c \in Callers : ~lost[c]
      BY DEF Init
  <2> QED
      BY <2>1 DEF LostInv, CapsRows, TimerOutlivesCap, FreshLeaseUnmarked, LostIsTrue
<1>2. TypeOK /\ LostInv /\ [Next]_vars => LostInv'
    BY CapsRowsStep, TimerStep, UnmarkedStep, LostStep DEF LostInv
<1>3. LostInv => LostIsTrue
    BY DEF LostInv
<1> QED
    BY <1>1, <1>2, <1>3, TypeCorrect, PTL DEF Spec

-----------------------------------------------------------------------------
(***************************************************************************)
(* The row never offers more than the capacity of the moment.              *)
(***************************************************************************)

LEMMA SettledFits ==
    ASSUME TypeOK, NeverOverfull
    PROVE  Settled \in Int /\ Settled <= Full(limits)
<1>1. balance \in Int /\ Full(limits) \in Int
    BY LimitsType DEF TypeOK, BucketTypeOK
<1>2. balance + limits.rate * (sinceRefill - txAge) \in Int
  <2>1. limits.rate * (sinceRefill - txAge) \in Int
      BY LimitsType DEF TypeOK, BucketTypeOK, TxTypeOK
  <2> QED
      BY <1>1, <2>1
<1>3. CASE TokenLimited(limits)
    BY <1>1, <1>2, <1>3, AtMostType DEF Settled
<1>4. CASE ~TokenLimited(limits)
    BY <1>1, <1>4 DEF Settled, NeverOverfull
<1> QED
    BY <1>3, <1>4

LEMMA BurstStep == TypeOK /\ NeverOverfull /\ [Next]_vars => NeverOverfull'
<1> SUFFICES ASSUME TypeOK, NeverOverfull, [Next]_vars PROVE NeverOverfull'
    OBVIOUS
<1>a. /\ balance \in Int /\ Full(limits) \in Int
      /\ Settled \in Int /\ Settled <= Full(limits)
    BY SettledFits, LimitsType DEF TypeOK, BucketTypeOK
<1>b. ASSUME UNCHANGED limits PROVE Full(limits)' = Full(limits)
    BY <1>b DEF Full
<1>1. ASSUME NEW c \in Callers, Admit(c) PROVE NeverOverfull'
  <2>1. tokens[c] * RateDen \in Nat
    <3>1. tokens[c] \in Nat
        BY TokensType DEF TypeOK
    <3> QED
        BY <3>1
  <2>2. balance' = Settled - (IF TokenLimited(limits) THEN tokens[c] * RateDen ELSE 0)
        /\ Full(limits)' = Full(limits)
      BY <1>1, <1>b DEF Admit
  <2>3. balance' <= Settled
      BY <1>a, <2>1, <2>2
  <2> QED
      BY <1>a, <2>1, <2>2, <2>3 DEF NeverOverfull
<1>2. ASSUME NEW c \in Callers, NoFit(c) PROVE NeverOverfull'
    BY <1>2, <1>a, <1>b DEF NoFit, NeverOverfull
\* A refund is cut to the capacity the bucket has when it is applied.
<1>3. ASSUME NEW c \in Callers, NEW actual \in Usages, Adjust(c, actual)
      PROVE  NeverOverfull'
  <2>1. Full(limits)' = Full(limits)
      BY <1>3, <1>b DEF Adjust
  <2>2. CASE charged[c] /\ TokenLimited(limits)
    <3>1. tokens[c] \in Nat /\ actual \in Nat
        BY TokensType DEF TypeOK
    <3>2. (actual - tokens[c]) * RateDen \in Int
        BY <3>1, ScaledType
    <3>3. Settled - (actual - tokens[c]) * RateDen \in Int
        BY <1>a, <3>2
    <3>4. Adjusted(Settled, tokens[c], actual) <= Full(limits)
        BY <1>a, <3>3, AtMostType DEF Adjusted
    <3> QED
        BY <1>3, <2>1, <2>2, <3>4 DEF Adjust, NeverOverfull
  <2>3. CASE ~(charged[c] /\ TokenLimited(limits))
      BY <1>3, <2>1, <2>3 DEF Adjust, NeverOverfull
  <2> QED
      BY <2>2, <2>3
\* Ensure cuts what it carries over to the capacity it installs.
<1>4. ASSUME NEW l \in LimitChoices, Ensure(l) PROVE NeverOverfull'
  <2>1. l \in Limits /\ Full(l) \in Nat
      BY LimitsType
  <2>2. NewBalance(l) <= Full(l)
      BY <1>a, <2>1, AtMostType DEF NewBalance
  <2>3. balance' = NewBalance(l) /\ Full(limits)' = Full(l)
      BY <1>4 DEF Ensure, Full
  <2> QED
      BY <2>2, <2>3 DEF NeverOverfull
<1>5. ASSUME UNCHANGED <<limits, balance>> PROVE NeverOverfull'
    BY <1>5, <1>b DEF NeverOverfull
<1>6. ASSUME NEW c \in Callers, Step(c),
             ~Admit(c), ~NoFit(c), \A actual \in Usages : ~Adjust(c, actual)
      PROVE  UNCHANGED <<limits, balance>>
    BY <1>6 DEF Step, TryAcquire, Begin, GiveUp, Wake, Lock, RejectForGood, Abort,
       Reply, ReplyLost, Renew, RenewFails, RenewFindsLost, HardCap, AdjustFails,
       Release, ReleaseFails, Crash, Forget, bucketRow
<1>7. Tick \/ UNCHANGED vars => UNCHANGED <<limits, balance>>
    BY DEF Tick, vars, bucketRow
<1> QED
    BY <1>1, <1>2, <1>3, <1>4, <1>5, <1>6, <1>7 DEF Next

\* Whatever Ensure, refunds and refills do in any order, the balance is at most
\* the capacity the bucket has at the moment: a refund computed for a lease that
\* was charged under other limits is cut to the limits of now (Adjusted,
\* newBalance).
THEOREM BurstIsCapped == Spec => []NeverOverfull
<1>1. Init => NeverOverfull
  <2> SUFFICES ASSUME Init PROVE NeverOverfull
      OBVIOUS
  <2>1. balance = Full(limits) /\ Full(limits) \in Int
      BY LimitsType DEF Init
  <2> QED
      BY <2>1 DEF NeverOverfull
<1> QED
    BY <1>1, BurstStep, TypeCorrect, PTL DEF Spec

-----------------------------------------------------------------------------
(***************************************************************************)
(* While the limits stay, the rows never outnumber the slots, the expired  *)
(* ones that no reap has removed yet included.                             *)
(***************************************************************************)

RowsWithinLimit ==
    SlotLimited(limits) /\ LimitChoices = {} => Cardinality(rows) <= limits.maxc

LEMMA RowsFinite ==
    ASSUME TypeOK, NEW kept \in SUBSET rows
    PROVE  /\ IsFiniteSet(kept) /\ IsFiniteSet(rows)
           /\ Cardinality(kept) \in Nat /\ Cardinality(rows) \in Nat
           /\ Cardinality(kept) <= Cardinality(rows)
<1>1. IsFiniteSet(rows)
    BY CallersAssumption, FS_Subset DEF CallersAssumption, TypeOK, RowsTypeOK
<1> QED
    BY <1>1, FS_Subset, FS_CardinalityType

LEMMA RowsWithinStep == TypeOK /\ RowsWithinLimit /\ [Next]_vars => RowsWithinLimit'
<1> SUFFICES ASSUME TypeOK, RowsWithinLimit, [Next]_vars,
                    SlotLimited(limits)', LimitChoices = {}
             PROVE  Cardinality(rows') <= limits'.maxc
    BY DEF RowsWithinLimit
<1>l. limits' = limits
  <2>1. ASSUME NEW c \in Callers, Step(c) PROVE limits' = limits
      BY <2>1 DEF Step, Begin, GiveUp, Wake, Lock, TryAcquire, Admit, NoFit,
         RejectForGood, Abort, Reply, ReplyLost, Renew, RenewFails,
         RenewFindsLost, HardCap, Adjust, AdjustFails, Release, ReleaseFails,
         Crash, Forget, bucketRow
  <2> QED
      BY <2>1 DEF Next, Tick, vars, bucketRow
<1>m. limits.maxc \in Nat
    BY LimitsType DEF TypeOK, BucketTypeOK
<1>b. SlotLimited(limits) /\ Cardinality(rows) <= limits.maxc
    BY <1>l DEF RowsWithinLimit
<1>1. ASSUME NEW c \in Callers, Admit(c) PROVE Cardinality(rows') <= limits.maxc
  <2>1. Cardinality(Unreaped) < limits.maxc /\ rows' = Unreaped \cup {c}
      BY <1>1, <1>b DEF Admit, Fits
  <2>2. IsFiniteSet(Unreaped) /\ Cardinality(Unreaped) \in Nat
      BY RowsFinite DEF Unreaped
  <2>3. Cardinality(Unreaped \cup {c}) <= Cardinality(Unreaped) + 1
    <3>1. CASE c \in Unreaped
      <4>1. Unreaped \cup {c} = Unreaped
          BY <3>1
      <4>2. Cardinality(Unreaped \cup {c}) = Cardinality(Unreaped)
          BY ONLY <4>1
      <4> QED
          BY ONLY <2>2, <4>2
    <3>2. CASE c \notin Unreaped
      <4>1. Cardinality(Unreaped \cup {c}) = Cardinality(Unreaped) + 1
          BY <2>2, <3>2, FS_AddElement, Zenon
      <4> QED
          BY <2>2, <4>1
    <3> QED
        BY <3>1, <3>2
  <2>4. IsFiniteSet(Unreaped \cup {c}) /\ Cardinality(Unreaped \cup {c}) \in Nat
      BY <2>2, FS_AddElement, FS_CardinalityType
  <2> QED
      BY <2>1, <2>2, <2>3, <2>4, <1>m
<1>2. CASE UNCHANGED rows
    BY <1>2, <1>b, <1>l
<1>3. ASSUME NEW kept \in SUBSET rows, KeepRows(kept) PROVE Cardinality(rows') <= limits.maxc
  <2>1. Cardinality(kept) <= Cardinality(rows) /\ rows' = kept
      BY <1>3, RowsFinite DEF KeepRows
  <2>2. Cardinality(kept) \in Nat /\ Cardinality(rows) \in Nat
      BY RowsFinite
  <2> QED
      BY <2>1, <2>2, <1>b, <1>m
<1>4. UNCHANGED rows \/ (\E c \in Callers : Admit(c)) \/ \E kept \in SUBSET rows : KeepRows(kept)
    BY RowsSteps DEF Tick, Renew, Extend, leaseRows, vars
<1> QED
    BY <1>1, <1>2, <1>3, <1>4, <1>l

\* No more leases are live than there are slots, at any time and for any
\* number of processes (tryAcquire, renewOnce).
THEOREM SlotsHold == Spec => []LiveWithinLimit
<1>1. Init => RowsWithinLimit
  <2> SUFFICES ASSUME Init PROVE Cardinality(rows) <= limits.maxc
      BY DEF RowsWithinLimit
  <2>1. Cardinality(rows) = 0
      BY FS_EmptySet DEF Init
  <2>2. limits.maxc \in Nat
      BY LimitsType DEF Init
  <2> QED
      BY <2>1, <2>2
<1>2. TypeOK /\ RowsWithinLimit /\ [Next]_vars => RowsWithinLimit'
    BY RowsWithinStep
<1>3. TypeOK /\ RowsWithinLimit => LiveWithinLimit
  <2> SUFFICES ASSUME TypeOK, RowsWithinLimit, SlotLimited(limits), LimitChoices = {}
               PROVE  Cardinality(Live) <= limits.maxc
      BY DEF LiveWithinLimit
  <2>1. Cardinality(Live) <= Cardinality(rows) /\ Cardinality(Live) \in Nat /\ Cardinality(rows) \in Nat
      BY RowsFinite DEF Live
  <2>2. Cardinality(rows) <= limits.maxc /\ limits.maxc \in Nat
      BY LimitsType DEF RowsWithinLimit, TypeOK, BucketTypeOK
  <2> QED
      BY <2>1, <2>2
<1> QED
    BY <1>1, <1>2, <1>3, TypeCorrect, PTL DEF Spec

-----------------------------------------------------------------------------
(***************************************************************************)
(* What one step may do to the live leases, whatever Ensure does to the    *)
(* limits.                                                                 *)
(***************************************************************************)

LEMMA OneMore ==
    ASSUME NEW S, NEW x, IsFiniteSet(S)
    PROVE  Cardinality(S \cup {x}) <= Cardinality(S) + 1
<1>1. Cardinality(S) \in Nat
    BY FS_CardinalityType
<1>2. CASE x \in S
  <2>1. S \cup {x} = S
      BY <1>2
  <2> QED
      BY <1>1, <2>1
<1>3. CASE x \notin S
  <2>1. Cardinality(S \cup {x}) = Cardinality(S) + 1
      BY <1>3, FS_AddElement
  <2> QED
      BY <1>1, <2>1
<1> QED
    BY <1>2, <1>3

LEMMA AdmissionsStep ==
    ASSUME TypeOK, [Next]_vars, Live' \ Live # {}, SlotLimited(limits)
    PROVE  Cardinality(Live') <= limits.maxc
<1>a. RowsTypeOK /\ RowsTypeOK'
    BY RowsTypeStep DEF TypeOK
<1>1. PICK d \in Live' : d \notin Live
    OBVIOUS
<1>2. d \in Callers /\ Admit(d)
    BY <1>1, <1>a, LiveSteps DEF Live, RowsTypeOK, Renew, Extend
<1>3. Cardinality(Unreaped) < limits.maxc /\ Live' \subseteq Unreaped \cup {d}
    BY <1>2 DEF Admit, Fits, Live
<1>4. IsFiniteSet(Unreaped) /\ Cardinality(Unreaped) \in Nat
    BY RowsFinite DEF Unreaped
<1>5. Cardinality(Unreaped \cup {d}) <= Cardinality(Unreaped) + 1
    BY <1>4, OneMore
<1>f. IsFiniteSet(Unreaped \cup {d})
    BY <1>4, FS_AddElement
<1>6. /\ Cardinality(Live') <= Cardinality(Unreaped \cup {d})
      /\ Cardinality(Live') \in Nat /\ Cardinality(Unreaped \cup {d}) \in Nat
    BY <1>3, <1>f, FS_Subset, FS_CardinalityType
<1>7. limits.maxc \in Nat
    BY LimitsType DEF TypeOK, BucketTypeOK
<1> QED
    BY <1>3, <1>4, <1>5, <1>6, <1>7

\* Whenever a lease comes alive, the live leases are within the slot limit of
\* that moment, however Ensure has changed the limits before (tryAcquire).
THEOREM AdmissionsFit == Spec => AdmitsWithinLimit
<1>1. TypeOK /\ [Next]_vars =>
          [Live' \ Live # {} /\ SlotLimited(limits)
               => Cardinality(Live') <= limits.maxc]_vars
    BY AdmissionsStep
<1> QED
    BY <1>1, TypeCorrect, PTL DEF Spec, AdmitsWithinLimit

\* The reap of an attempt keeps every live row: it was alive at the sampled
\* time too.
LEMMA LiveKept ==
    ASSUME TypeOK
    PROVE  Live \subseteq Unreaped
BY DEF Live, Unreaped, TypeOK, RowsTypeOK, TxTypeOK

LEMMA StolenStep ==
    ASSUME TypeOK, [Next]_vars, NEW d \in Live
    PROVE  pc'[d] = "released" \/ d \in rows'
<1>a. RowsTypeOK /\ CallersTypeOK /\ d \in rows /\ left[d] > 0
    BY DEF TypeOK, Live
<1>k. d \in Unreaped
    BY LiveKept
<1>1. CASE UNCHANGED rows
    BY <1>1, <1>a
<1>2. ASSUME NEW c \in Callers, Step(c) PROVE pc'[d] = "released" \/ d \in rows'
  <2>1. ASSUME NEW t \in Estimates, Begin(c, t) PROVE d \in rows'
    <3>1. c # d
        BY <2>1, <1>a DEF Begin, RowForgotten
    <3> QED
        BY <2>1, <3>1, <1>a DEF Begin, KeepRows
  <2>2. ASSUME Admit(c) \/ NoFit(c) PROVE d \in rows'
      BY <2>2, <1>k DEF Admit, NoFit, KeepRows
  <2>3. ASSUME NEW answered \in BOOLEAN, Release(c, answered)
        PROVE  pc'[d] = "released" \/ d \in rows'
      BY <2>3, <1>a DEF Release, KeepRows, Goto, CallersTypeOK
  <2>4. ASSUME ~Admit(c), ~NoFit(c), \A t \in Estimates : ~Begin(c, t),
               \A answered \in BOOLEAN : ~Release(c, answered)
        PROVE  UNCHANGED rows
      BY <1>2, <2>4 DEF Step, TryAcquire, GiveUp, Wake, Lock, RejectForGood, Abort,
         Reply, ReplyLost, Renew, Extend, RenewFails, RenewFindsLost, HardCap, Adjust,
         AdjustFails, ReleaseFails, Crash, Forget, leaseRows
  <2> QED
      BY <2>1, <2>2, <2>3, <2>4, <1>1
<1>3. ASSUME NEW l \in LimitChoices, Ensure(l) PROVE UNCHANGED rows
    BY <1>3 DEF Ensure, leaseRows
<1> QED
    BY <1>1, <1>2, <1>3 DEF Next, Tick, vars, leaseRows

\* A live lease ends by its own Release or by time: the reap of another
\* process's attempt, whenever it sampled its clock, never takes the row of a
\* holder that has renewed it since (tryAcquire's DELETE, renewOnce).
THEOREM LeasesNotStolen == Spec => NeverStolen
<1>1. TypeOK /\ [Next]_vars =>
          [\A c \in Live \ Live' : pc'[c] = "released" \/ c \in rows']_vars
    BY StolenStep
<1> QED
    BY <1>1, TypeCorrect, PTL DEF Spec, NeverStolen
-----------------------------------------------------------------------------
(***************************************************************************)
(* The token budget                                                        *)
(***************************************************************************)
\* The history variables watch the bucket and never steer it.
LEMMA LedgerRefines == LSpec => Spec
<1>1. LInit => Init
  BY DEF LInit
<1>2. [LNext]_pvars => [Next]_vars
  BY DEF LNext, Next, Step, TryAcquire, LAdmit, LAdjust, LTick, LOther, pvars
<1>3. QED
  BY <1>1, <1>2, PTL DEF LSpec, Spec

\* The ledger is typed, and its limits are the initial ones.
LedgerTyped ==
    /\ TypeOK
    /\ limits = InitialLimits
    /\ now \in Nat
    /\ spent \in Int

\* What a tick of the rate accrues over a span of time.
LEMMA AccrualType ==
    ASSUME LedgerTyped
    PROVE  /\ limits.rate \in Nat
           /\ Full(limits) \in Nat
           /\ sinceRefill \in Nat /\ txAge \in Nat /\ balance \in Int
           /\ limits.rate * sinceRefill \in Nat
           /\ limits.rate * txAge \in Nat
           /\ limits.rate * now \in Nat
           /\ RateDen * spent \in Int
           /\ limits.rate * (sinceRefill - txAge)
                  = limits.rate * sinceRefill - limits.rate * txAge
<1>1. /\ limits.rate \in Nat
      /\ Full(limits) \in Nat
      /\ sinceRefill \in Nat /\ txAge \in Nat /\ balance \in Int
      /\ now \in Nat /\ spent \in Int
  BY LimitsType DEF LedgerTyped, TypeOK, BucketTypeOK, TxTypeOK
<1>2. QED
  BY <1>1

\* Settling credits no more than the time from the last refill to the
\* sampled time has accrued; the time since the sample stays to be credited.
LEMMA SettlingNeverMints ==
    ASSUME LedgerTyped, TokenLimited(limits)
    PROVE  /\ Settled \in Int
           /\ Settled + limits.rate * txAge <= balance + limits.rate * sinceRefill
<1>1. Settled \in Int
  BY SettledType DEF LedgerTyped
<1>2. Settled <= balance + limits.rate * (sinceRefill - txAge)
  <2>1. /\ limits.rate * (sinceRefill - txAge) \in Int
        /\ balance + limits.rate * (sinceRefill - txAge) \in Int
        /\ Full(limits) \in Int
    BY AccrualType
  <2>2. QED
    BY <2>1, AtMostType DEF Settled
<1>3. QED
  BY <1>1, <1>2, AccrualType

\* A transaction that settles the row, stamps it with the sampled time and
\* takes no less than it charges leaves the budget in order.
LEMMA SettledStep ==
    ASSUME LedgerTyped, TokenLimited(limits), NeverMints,
           NEW amount \in Int,
           limits' = limits, now' = now,
           balance' \in Int, balance' <= Settled - amount * RateDen,
           sinceRefill' \in Nat, sinceRefill' <= txAge,
           spent' = spent + amount
    PROVE  NeverMints'
<1>1. RateDen * spent + balance + limits.rate * sinceRefill
          <= Full(limits) + limits.rate * now
  BY DEF NeverMints, LedgerTyped
<1>2. limits.rate * sinceRefill' <= limits.rate * txAge
  BY AccrualType
<1>3. RateDen * spent' = RateDen * spent + amount * RateDen
  BY DEF LedgerTyped
<1>4. /\ limits.rate * sinceRefill' \in Nat
      /\ amount * RateDen \in Int
  BY AccrualType
<1>5. RateDen * spent' + balance' + limits.rate * sinceRefill'
          <= Full(limits) + limits.rate * now'
  BY <1>1, <1>2, <1>3, <1>4, AccrualType, SettlingNeverMints
<1>6. QED
  BY <1>5 DEF NeverMints, LedgerTyped

\* Every step of the ledger is a step of the bucket.
LEMMA LedgerSteps == [LNext]_pvars => [Next]_vars
BY DEF LNext, Next, Step, TryAcquire, LAdmit, LAdjust, LTick, LOther, pvars

\* Every step keeps the ledger.
LEMMA LedgerHolds == LSpec => [](LedgerTyped /\ NeverMints)
<1>1. LInit => LedgerTyped /\ NeverMints
  <2>1. LInit => LedgerTyped
    BY InitType DEF LInit, Init, LedgerTyped
  <2>2. LInit => NeverMints
    <3>1. Full(InitialLimits) \in Nat /\ InitialLimits.rate \in Nat
      BY LimitsType
    <3>2. QED
      BY <3>1 DEF LInit, Init, NeverMints
  <2>3. QED
    BY <2>1, <2>2
<1>2. LedgerTyped /\ [LNext]_pvars => LedgerTyped'
  <2> SUFFICES ASSUME LedgerTyped, [LNext]_pvars PROVE LedgerTyped'
    OBVIOUS
  <2>1. [Next]_vars
    BY LedgerSteps
  <2>2. TypeOK'
    BY <2>1, BucketTypeStep, RowsTypeStep, TxTypeStep, CallersTypeStep,
       TimersTypeStep DEF TypeOK, LedgerTyped
  <2>3. limits' = limits
    BY DEF LNext, LAdmit, LAdjust, LTick, LOther, pvars, vars, bucketRow,
           Begin, GiveUp, Wake, Lock, Admit, NoFit, RejectForGood, Abort,
           Reply, ReplyLost, Renew, RenewFails, RenewFindsLost, HardCap,
           Adjust, AdjustFails, Release, ReleaseFails, Crash, Forget, Tick
  <2>4. now' \in Nat
    BY DEF LNext, LAdmit, LAdjust, LTick, LOther, pvars, LedgerTyped
  <2>5. \A c \in Callers : tokens[c] \in Nat
    BY TokensType DEF LedgerTyped, TypeOK
  <2>6. spent' \in Int
    BY <2>5 DEF LNext, LAdmit, LAdjust, LTick, LOther, Charge, pvars, LedgerTyped
  <2>7. QED
    BY <2>2, <2>3, <2>4, <2>6 DEF LedgerTyped
<1>3. LedgerTyped /\ NeverMints /\ [LNext]_pvars => NeverMints'
  <2> SUFFICES ASSUME LedgerTyped, NeverMints, TokenLimited(InitialLimits),
                      [LNext]_pvars
               PROVE  NeverMints'
    BY DEF NeverMints
  <2>1. TokenLimited(limits) /\ limits = InitialLimits
    BY DEF LedgerTyped
  <2>2. \A c \in Callers : tokens[c] \in Nat
    BY TokensType DEF LedgerTyped, TypeOK
  <2>3. ASSUME NEW c \in Callers, LAdmit(c) PROVE NeverMints'
    <3>1. /\ balance' = Settled - tokens[c] * RateDen
          /\ sinceRefill' = txAge
          /\ spent' = spent + tokens[c]
          /\ limits' = limits /\ now' = now
      BY <2>1, <2>3 DEF LAdmit, Admit, Charge
    <3>2. tokens[c] \in Int /\ tokens[c] * RateDen \in Int
      BY <2>2
    <3>3. balance' \in Int /\ balance' <= Settled - tokens[c] * RateDen
      BY <2>1, <3>1, <3>2, SettlingNeverMints
    <3>4. QED
      BY <2>1, <3>1, <3>2, <3>3, AccrualType, SettledStep
  <2>4. ASSUME NEW c \in Callers, NEW actual \in Usages, LAdjust(c, actual)
        PROVE  NeverMints'
    <3> DEFINE delta == actual - tokens[c]
    <3>1. CASE charged[c]
      <4>1. /\ balance' = Adjusted(Settled, tokens[c], actual)
            /\ sinceRefill' = 0
            /\ spent' = spent + delta
            /\ limits' = limits /\ now' = now
        BY <2>1, <2>4, <3>1 DEF LAdjust, Adjust, Charge
      <4>2. delta \in Int /\ delta * RateDen \in Int
        BY <2>2
      <4>3. balance' \in Int /\ balance' <= Settled - delta * RateDen
        <5>1. Settled - delta * RateDen \in Int /\ Full(limits) \in Int
          BY <2>1, <4>2, AccrualType, SettlingNeverMints
        <5>2. QED
          BY <4>1, <5>1, AtMostType DEF Adjusted
      <4>4. 0 \in Nat /\ 0 <= txAge
        BY AccrualType
      <4> HIDE DEF delta
      <4>5. QED
        BY <2>1, <4>1, <4>2, <4>3, <4>4, SettledStep
    <3>2. CASE ~charged[c]
      <4>1. UNCHANGED <<limits, balance, sinceRefill, now>> /\ spent' = spent + 0
        BY <2>4, <3>2 DEF LAdjust, Adjust, Charge
      <4>2. QED
        BY <4>1 DEF NeverMints, LedgerTyped
    <3>3. QED
      BY <3>1, <3>2
  <2>5. ASSUME NEW c \in Callers, LOther(c) PROVE NeverMints'
    <3>1. CASE NoFit(c)
      <4>1. /\ balance' = Settled
            /\ sinceRefill' = txAge
            /\ limits' = limits /\ UNCHANGED <<now, spent>>
        BY <2>5, <3>1 DEF NoFit, LOther
      <4>2. /\ 0 \in Int
            /\ spent' = spent + 0
            /\ balance' \in Int /\ balance' <= Settled - 0 * RateDen
        BY <2>1, <4>1, SettlingNeverMints DEF LedgerTyped
      <4>3. QED
        BY <2>1, <4>1, <4>2, AccrualType, SettledStep
    <3>2. CASE ~NoFit(c)
      <4>1. UNCHANGED <<limits, balance, sinceRefill, now, spent>>
        BY <2>5, <3>2
           DEF LOther, bucketRow, Begin, GiveUp, Wake, Lock, RejectForGood,
               Abort, Reply, ReplyLost, Renew, RenewFails, RenewFindsLost,
               HardCap, AdjustFails, Release, ReleaseFails, Crash, Forget
      <4>2. QED
        BY <4>1 DEF NeverMints
    <3>3. QED
      BY <3>1, <3>2
  <2>6. CASE LTick
    <3>1. /\ UNCHANGED <<limits, balance, spent>>
          /\ now' = now + 1
          /\ sinceRefill' = AtMost(sinceRefill + 1, MaxGap)
      BY <2>6 DEF LTick, Tick
    <3>2. sinceRefill' \in Int /\ sinceRefill' <= sinceRefill + 1
      BY <3>1, AccrualType, AtMostType
    <3>3. /\ limits.rate * sinceRefill' <= limits.rate * (sinceRefill + 1)
          /\ limits.rate * sinceRefill' \in Int
      BY <3>2, AccrualType
    <3>4. limits.rate * (sinceRefill + 1) = limits.rate * sinceRefill + limits.rate
      BY AccrualType
    <3>5. limits.rate * now' = limits.rate * now + limits.rate
      BY <3>1, AccrualType DEF LedgerTyped
    <3>6. RateDen * spent + balance + limits.rate * sinceRefill
              <= Full(limits) + limits.rate * now
      BY <2>1 DEF NeverMints
    <3>7. RateDen * spent + balance + limits.rate * sinceRefill'
              <= Full(limits) + limits.rate * now'
      BY <3>3, <3>4, <3>5, <3>6, AccrualType
    <3>8. QED
      BY <2>1, <3>1, <3>7 DEF NeverMints
  <2>7. CASE UNCHANGED pvars
    BY <2>7 DEF pvars, vars, bucketRow, NeverMints
  <2>8. QED
    BY <2>3, <2>4, <2>5, <2>6, <2>7 DEF LNext
<1>4. QED
  BY <1>1, <1>2, <1>3, PTL DEF LSpec

\* Over any history of admissions, adjustments, failures and crashes, what
\* was charged and what the row offers never exceed the initial balance and
\* what the rate has accrued: time between the sampling and the commit of a
\* transaction is credited once (tryAcquire, Adjust, core.Settle).
THEOREM BudgetHolds == LSpec => []NeverMints
BY LedgerHolds, PTL

-----------------------------------------------------------------------------
(***************************************************************************)
(* The promise.  A slot of the promise is a live row, so the steps to      *)
(* account for are those that change the live rows, and those that open    *)
(* and close a reservation.                                                *)
(***************************************************************************)

\* A caller that waits to be admitted has no row, from an earlier lease or
\* from an earlier attempt.
WaitsWithoutRow == \A c \in Callers : Waiting(c) => c \notin rows

\* Only a lease that was handed out has been adjusted.
FreshLeaseUnadjusted ==
    \A c \in Callers : pc[c] \notin {"holding", "released", "crashed"} => ~adjusted[c]

\* Begin removes the former row, and no step but an admission inserts one.
LEMMA WaitsStep == TypeOK /\ WaitsWithoutRow /\ [Next]_vars => WaitsWithoutRow'
<1> SUFFICES ASSUME TypeOK, WaitsWithoutRow, [Next]_vars,
                    NEW d \in Callers, Waiting(d)'
             PROVE  d \notin rows'
  BY DEF WaitsWithoutRow
<1>a. RowsTypeOK /\ CallersTypeOK
  BY DEF TypeOK
<1>1. CASE UNCHANGED vars \/ Tick \/ \E l \in LimitChoices : Ensure(l)
  BY <1>1 DEF vars, leaseRows, Tick, Ensure, Waiting, WaitsWithoutRow
<1>2. ASSUME NEW c \in Callers, Step(c) PROVE d \notin rows'
  <2>1. CASE \E t \in Estimates : Begin(c, t)
    BY <1>a, <2>1 DEF Begin, KeepRows, Goto, Waiting, WaitsWithoutRow, CallersTypeOK
  <2>2. CASE Admit(c)
    <3>1. d # c /\ Waiting(d)
      BY <1>a, <2>2 DEF Admit, Goto, Waiting, CallersTypeOK
    <3>2. QED
      BY <2>2, <3>1 DEF Admit, Unreaped, WaitsWithoutRow
  <2>3. CASE NoFit(c)
    <3>1. Waiting(d)
      BY <1>a, <2>3 DEF NoFit, Goto, Waiting, CallersTypeOK
    <3>2. QED
      BY <2>3, <3>1 DEF NoFit, KeepRows, Unreaped, WaitsWithoutRow
  <2>4. CASE \E answered \in BOOLEAN : Release(c, answered)
    <3>1. Waiting(d)
      BY <1>a, <2>4 DEF Release, Goto, Waiting, CallersTypeOK
    <3>2. QED
      BY <2>4, <3>1 DEF Release, KeepRows, WaitsWithoutRow
  <2>5. CASE GiveUp(c) \/ Wake(c) \/ Lock(c) \/ RejectForGood(c) \/ Abort(c)
    BY <1>a, <2>5 DEF GiveUp, Wake, Lock, RejectForGood, Abort, Fail, Goto, Waiting,
                      WaitsWithoutRow, CallersTypeOK, leaseRows
  <2>6. CASE Reply(c) \/ ReplyLost(c) \/ ReleaseFails(c) \/ Crash(c) \/ Forget(c)
    BY <1>a, <2>6 DEF Reply, ReplyLost, ReleaseFails, Crash, Forget, Fail, Goto,
                      Waiting, WaitsWithoutRow, CallersTypeOK, leaseRows
  <2>7. CASE UNCHANGED <<pc, rows>>
    BY <2>7 DEF Waiting, WaitsWithoutRow
  <2>8. QED
    BY <1>2, <2>1, <2>2, <2>3, <2>4, <2>5, <2>6, <2>7
       DEF Step, TryAcquire, Renew, Extend, RenewFails, RenewFindsLost, HardCap,
           Adjust, AdjustFails, leaseRows
<1>3. QED
  BY <1>1, <1>2 DEF Next

\* Forget clears the flag of a used lease, and an attempt never sets it.
LEMMA UnadjustedStep ==
    TypeOK /\ FreshLeaseUnadjusted /\ [Next]_vars => FreshLeaseUnadjusted'
<1> SUFFICES ASSUME TypeOK, FreshLeaseUnadjusted, [Next]_vars,
                    NEW d \in Callers, pc'[d] \notin {"holding", "released", "crashed"}
             PROVE  ~adjusted'[d]
  BY DEF FreshLeaseUnadjusted
<1>a. CallersTypeOK
  BY DEF TypeOK
<1>1. CASE UNCHANGED vars \/ Tick \/ \E l \in LimitChoices : Ensure(l)
  BY <1>1 DEF vars, lease, Tick, Ensure, FreshLeaseUnadjusted
<1>2. ASSUME NEW c \in Callers, Step(c) PROVE ~adjusted'[d]
  <2>1. CASE Forget(c)
    BY <1>a, <2>1 DEF Forget, Goto, FreshLeaseUnadjusted, CallersTypeOK
  <2>2. CASE \/ \E actual \in Usages : Adjust(c, actual)
             \/ AdjustFails(c)
    BY <1>a, <2>2 DEF Adjust, AdjustFails, FreshLeaseUnadjusted, CallersTypeOK
  <2>3. CASE UNCHANGED adjusted /\ pc[d] \notin {"holding", "released", "crashed"}
    BY <2>3 DEF FreshLeaseUnadjusted
  <2>4. CASE \/ \E t \in Estimates : Begin(c, t)
             \/ GiveUp(c) \/ Wake(c) \/ Lock(c) \/ TryAcquire(c) \/ Reply(c)
             \/ ReplyLost(c)
    <3>1. UNCHANGED adjusted
      BY <2>4 DEF Begin, GiveUp, Wake, Lock, TryAcquire, Admit, NoFit,
                  RejectForGood, Abort, Reply, ReplyLost, lease
    <3>2. pc[d] \notin {"holding", "released", "crashed"}
      BY <1>a, <2>4 DEF Begin, GiveUp, Wake, Lock, TryAcquire, Admit, NoFit,
                  RejectForGood, Abort, Reply, ReplyLost, Fail, Goto, CallersTypeOK
    <3>3. QED
      BY <2>3, <3>1, <3>2
  <2>5. CASE \/ Renew(c) \/ RenewFails(c) \/ RenewFindsLost(c) \/ HardCap(c)
             \/ \E answered \in BOOLEAN : Release(c, answered)
             \/ ReleaseFails(c) \/ Crash(c)
    <3>1. UNCHANGED adjusted
      BY <2>5 DEF Renew, RenewFails, RenewFindsLost, HardCap, Release,
                  ReleaseFails, Crash
    <3>2. pc[d] \notin {"holding", "released", "crashed"}
      BY <1>a, <2>5 DEF Renew, RenewFails, RenewFindsLost, HardCap, Release,
                  ReleaseFails, Crash, Goto, CallersTypeOK
    <3>3. QED
      BY <2>3, <3>1, <3>2
  <2>6. QED
    BY <1>2, <2>1, <2>2, <2>4, <2>5 DEF Step
<1>3. QED
  BY <1>1, <1>2 DEF Next

-----------------------------------------------------------------------------

\* Everything the steps of the promise rely on.
PromiseInv ==
    /\ LedgerTyped /\ NeverMints
    /\ CapsRows /\ WaitsWithoutRow /\ FreshLeaseUnadjusted

\* The instance has its own copy of Cardinality.
LEMMA SameCardinality ==
    ASSUME NEW S
    PROVE  Promise!Cardinality(S) = Cardinality(S)
BY DEF Promise!Cardinality, Cardinality

\* One slot for each live row.
LEMMA OneSlotEach ==
    TypeOK => Cardinality(Promise!Slots(Held)) = Cardinality(Live)
<1> SUFFICES ASSUME TypeOK PROVE Cardinality(Promise!Slots(Held)) = Cardinality(Live)
  OBVIOUS
<1>1. Live \subseteq Callers /\ IsFiniteSet(Live) /\ Cardinality(Live) \in Nat
  BY RowsFinite DEF Live, TypeOK, RowsTypeOK
<1>2. \A c \in Callers : {c} \X (1 .. Held[c]) = IF c \in Live THEN {c} \X {1} ELSE {}
  <2>1. 1 .. 1 = {1} /\ 1 .. 0 = {}
    OBVIOUS
  <2>2. QED
    BY <2>1 DEF Held
<1>3. Promise!Slots(Held) = Live \X {1}
  BY <1>1, <1>2 DEF Promise!Slots
<1>4. IsFiniteSet({1}) /\ Cardinality({1}) = 1
  BY FS_Singleton
<1>5. Cardinality(Live \X {1}) = Cardinality(Live) * 1
  BY <1>1, <1>4, FS_Product
<1>6. QED
  BY <1>1, <1>3, <1>5

\* An admission is an admission of the promise: what it takes was in the
\* settled balance, its row is counted within the limit, and the caller had
\* no live row before.
LEMMA AdmitKeepsPromise ==
    ASSUME PromiseInv, PromiseInv', NEW c \in Callers, LAdmit(c)
    PROVE  Promise!Admit(c, 1)
<1>a. TypeOK /\ TypeOK' /\ RowsTypeOK /\ CallersTypeOK /\ limits = InitialLimits
  BY DEF PromiseInv, LedgerTyped, TypeOK
<1>b. Admit(c) /\ pc[c] = "locked" /\ UNCHANGED now
  BY DEF LAdmit, Admit
<1>1. c \notin rows /\ c \notin Live /\ ~adjusted[c]
  BY <1>b DEF PromiseInv, WaitsWithoutRow, Waiting, FreshLeaseUnadjusted, Live
<1>2. Live' = Live \cup {c}
  <2>1. \A d \in Callers \ {c} : d \in Unreaped => left'[d] = left[d]
    BY <1>b DEF Admit
  <2>2. left'[c] = LeaseTTL /\ LeaseTTL > 0 /\ rows' = Unreaped \cup {c}
    BY <1>b DEF Admit
  <2>3. Live \subseteq Unreaped /\ Unreaped \subseteq rows /\ rows \subseteq Callers
    BY <1>a, LiveKept DEF Unreaped, RowsTypeOK
  <2>4. QED
    BY <1>1, <2>1, <2>2, <2>3 DEF Live
<1>3. Held[c] = 0 /\ Held' = [Held EXCEPT ![c] = 1]
  BY <1>1, <1>2 DEF Held
<1>4. c \notin Open /\ Open' = Open \cup {c}
  <2>1. pc' = [pc EXCEPT ![c] = "replying"] /\ adjusted' = adjusted
    BY <1>b DEF Admit, Goto
  <2>2. QED
    BY <1>a, <1>b, <1>1, <2>1 DEF Open, CallersTypeOK
<1>5. tokens[c] \in Nat /\ spent \in Int
  BY <1>a, TokensType DEF PromiseInv, LedgerTyped
<1>6. spent' >= spent
  BY <1>5 DEF LAdmit, Charge
<1>7. Promise!WithinBudget
  <2>1. SUFFICES ASSUME TokenLimited(InitialLimits)
                 PROVE  RateDen * spent' <= RateDen * InitialLimits.capacity
                                            + InitialLimits.rate * now
    <3>1. InitialLimits.capacity \in Nat
      BY LimitsType
    <3>2. QED
      BY <2>1, <3>1 DEF Promise!WithinBudget, TokenLimited
  <2>2. balance' = Settled - tokens[c] * RateDen /\ Settled >= tokens[c] * RateDen
    BY <1>a, <1>b, <2>1 DEF Admit, Fits
  <2>3. Settled \in Int /\ tokens[c] * RateDen \in Int
    BY <1>a, <1>5, SettledType
  <2>4. balance' \in Nat
    BY <2>2, <2>3
  <2>5. RateDen * spent' + balance' + InitialLimits.rate * sinceRefill'
            <= Full(InitialLimits) + InitialLimits.rate * now
    BY <1>b, <2>1 DEF PromiseInv, NeverMints
  <2>6. InitialLimits.rate * sinceRefill' \in Nat
    <3>1. InitialLimits.rate \in Nat /\ sinceRefill' \in Nat
      BY <1>a, LimitsType DEF TypeOK, BucketTypeOK
    <3>2. QED
      BY <3>1
  <2>7. /\ RateDen * spent' \in Int
        /\ Full(InitialLimits) = RateDen * InitialLimits.capacity
        /\ RateDen * InitialLimits.capacity \in Int
        /\ InitialLimits.rate * now \in Int
    <3>1. spent' \in Int /\ now \in Int
      BY DEF PromiseInv, LedgerTyped
    <3>2. InitialLimits.capacity \in Nat /\ InitialLimits.rate \in Nat
      BY LimitsType
    <3>3. QED
      BY <3>1, <3>2 DEF Full
  <2> HIDE <1>b
  <2>8. QED
    BY <2>4, <2>5, <2>6, <2>7
<1>8. Promise!WithinSlots
  <2>1. Cardinality(Promise!Slots(Held')) = Cardinality(Live')
    <3>1. TypeOK'
      BY <1>a
    <3>2. (Cardinality(Promise!Slots(Held)) = Cardinality(Live))'
      BY <3>1, OneSlotEach, PTL
    <3>3. QED
      BY <3>2
  <2>2. SlotLimited(limits) => Cardinality(Live') <= limits.maxc
    <3>1. [Next]_vars
      BY <1>b DEF Next, Step, TryAcquire
    <3>2. QED
      BY <1>a, <1>1, <1>2, <3>1, AdmissionsStep
  <2>3. InitialLimits.maxc \in Nat
    BY LimitsType
  <2>4. InitialLimits.maxc = 0 \/ Cardinality(Promise!Slots(Held')) <= InitialLimits.maxc
    BY <1>a, <2>1, <2>2, <2>3 DEF SlotLimited
  <2>5. QED
    BY <2>4, SameCardinality DEF Promise!WithinSlots
<1>9. QED
  BY <1>b, <1>3, <1>4, <1>6, <1>7, <1>8 DEF Promise!Admit

\* An adjustment is a reconciliation, once for each lease.
LEMMA AdjustKeepsPromise ==
    ASSUME PromiseInv, PromiseInv', NEW c \in Callers, NEW actual \in Usages,
           LAdjust(c, actual)
    PROVE  Promise!Reconcile(c)
<1>1. /\ pc[c] \in {"holding", "released"} /\ ~adjusted[c]
      /\ adjusted' = [adjusted EXCEPT ![c] = TRUE]
      /\ adjusted \in [Callers -> BOOLEAN]
      /\ UNCHANGED <<rows, left, pc, now>>
  BY DEF PromiseInv, LedgerTyped, TypeOK, CallersTypeOK, LAdjust, Adjust, leaseRows
<1>2. c \in Open /\ Open' = Open \ {c}
  BY <1>1 DEF Open
<1>3. Held' = Held
  BY <1>1 DEF Held, Live
<1>4. spent' \in Int
  BY DEF PromiseInv, LedgerTyped
<1>5. QED
  BY <1>1, <1>2, <1>3, <1>4 DEF Promise!Reconcile

\* Time passes, and leases that nobody renews lapse.
LEMMA TickKeepsPromise ==
    ASSUME PromiseInv, LTick
    PROVE  Promise!Pass
<1>1. now' > now /\ UNCHANGED <<pc, adjusted, spent>>
  BY DEF PromiseInv, LedgerTyped, LTick, Tick
<1>2. Open' = Open
  BY <1>1 DEF Open
<1>3. Live' \subseteq Live /\ Live \ Live' \in SUBSET Callers
  BY DEF PromiseInv, LedgerTyped, TypeOK, RowsTypeOK, LTick, Tick, Live
<1>4. Held' = [c \in Callers |-> IF c \in Live \ Live' THEN 0 ELSE Held[c]]
  BY <1>3 DEF Held
<1>5. Promise!Lapse
  BY <1>3, <1>4 DEF Promise!Lapse
<1>6. QED
  BY <1>1, <1>2, <1>5 DEF Promise!Pass

\* A renewal finds its row alive and leaves it alive; the reap of an attempt
\* and the removal of a forgotten row take no live row.
LEMMA LiveSame ==
    ASSUME PromiseInv, NEW c \in Callers,
           LOther(c), \A answered \in BOOLEAN : ~Release(c, answered)
    PROVE  Live' = Live
<1>a. TypeOK /\ RowsTypeOK /\ LeaseTTL > 0
  BY DEF PromiseInv, LedgerTyped, TypeOK
<1>1. CASE Renew(c)
  <2>1. capLeft[c] > 0 /\ c \in rows /\ capLeft[c] \in Int /\ left[c] > 0
    BY <1>a, <1>1 DEF Renew, Extend, Live, PromiseInv, CapsRows, RowsTypeOK
  <2>2. Extended(c) > 0
    BY <1>a, <2>1 DEF Extended, AtMost
  <2>3. rows' = rows /\ left' = [left EXCEPT ![c] = Extended(c)]
    BY <1>1 DEF Renew, Extend
  <2>4. QED
    BY <1>a, <2>1, <2>2, <2>3 DEF Live, RowsTypeOK
<1>2. CASE NoFit(c)
  BY <1>a, <1>2, LiveKept DEF NoFit, KeepRows, Live, Unreaped, RowsTypeOK
<1>3. CASE \E t \in Estimates : Begin(c, t)
  <2>1. rows' = rows \ {c} /\ \A d \in rows' : left'[d] = left[d]
    BY <1>a, <1>3 DEF Begin, KeepRows, RowsTypeOK
  <2>2. c \notin Live
    BY <1>3 DEF Begin, RowForgotten, Live
  <2>3. QED
    BY <2>1, <2>2 DEF Live
<1>4. CASE UNCHANGED leaseRows
  BY <1>4 DEF leaseRows, Live
<1>5. QED
  BY <1>1, <1>2, <1>3, <1>4
     DEF LOther, GiveUp, Wake, Lock, RejectForGood, Abort, Reply, ReplyLost,
         RenewFails, RenewFindsLost, HardCap, AdjustFails, ReleaseFails, Crash, Forget

\* The other steps free a slot, close a reservation, or are not visible in
\* the promise.
LEMMA OtherKeepsPromise ==
    ASSUME PromiseInv, NEW c \in Callers, LOther(c)
    PROVE  Promise!Free(c) \/ Promise!Close(c)
               \/ UNCHANGED <<now, spent, Held, Open>>
<1>a. TypeOK /\ RowsTypeOK /\ CallersTypeOK /\ UNCHANGED <<now, spent>>
  BY DEF PromiseInv, LedgerTyped, TypeOK, LOther
<1>1. ASSUME NEW answered \in BOOLEAN, Release(c, answered)
      PROVE  Promise!Free(c) \/ UNCHANGED <<now, spent, Held, Open>>
  <2>1. /\ pc[c] = "holding" /\ pc' = [pc EXCEPT ![c] = "released"]
        /\ adjusted' = adjusted
    BY <1>1 DEF Release, Goto
  <2>2. Open' = Open
    BY <1>a, <2>1 DEF Open, CallersTypeOK
  <2>3. rows' = rows \ {c} /\ \A d \in rows' : left'[d] = left[d]
    BY <1>a, <1>1 DEF Release, KeepRows, RowsTypeOK
  <2>4. Live' = Live \ {c}
    BY <2>3 DEF Live
  <2>5. CASE c \in Live
    <3>1. Held[c] = 1
      BY <2>5 DEF Held
    <3>2. Held' = [Held EXCEPT ![c] = 0]
      BY <2>4 DEF Held
    <3>3. QED
      BY <1>a, <2>2, <3>1, <3>2 DEF Promise!Free
  <2>6. CASE c \notin Live
    <3>1. Held' = Held
      BY <2>4, <2>6 DEF Held
    <3>2. QED
      BY <1>a, <2>2, <3>1
  <2>7. QED
    BY <2>5, <2>6
<1>2. CASE \A answered \in BOOLEAN : ~Release(c, answered)
  <2>1. Held' = Held
    <3>1. Live' = Live
      BY <1>2, LiveSame
    <3>2. QED
      BY <3>1 DEF Held
  <2>2. Open' = Open \/ Open' = Open \ {c}
    <3>1. CASE ReplyLost(c) \/ Crash(c)
      BY <1>a, <3>1 DEF ReplyLost, Fail, Crash, Goto, Open, CallersTypeOK
    <3>2. CASE Forget(c)
      <4>1. pc'[c] = "idle" /\ \A d \in Callers \ {c} :
                pc'[d] = pc[d] /\ adjusted'[d] = adjusted[d]
        BY <1>a, <3>2 DEF Forget, Goto, CallersTypeOK
      <4>2. QED
        BY <4>1 DEF Open
    <3>3. CASE AdjustFails(c)
      BY <1>a, <3>3 DEF AdjustFails, Open, CallersTypeOK
    <3>4. CASE Reply(c) \/ ReleaseFails(c)
      BY <1>a, <3>4 DEF Reply, ReleaseFails, Goto, Open, CallersTypeOK
    <3>5. CASE UNCHANGED adjusted /\ \/ UNCHANGED pc
                                     \/ \E t \in Estimates : Begin(c, t)
                                     \/ GiveUp(c) \/ Wake(c) \/ Lock(c) \/ NoFit(c)
                                     \/ RejectForGood(c) \/ Abort(c)
      BY <1>a, <3>5 DEF Begin, GiveUp, Wake, Lock, NoFit, RejectForGood, Abort,
                        Fail, Goto, Open, CallersTypeOK
    <3>6. QED
      BY <1>2, <3>1, <3>2, <3>3, <3>4, <3>5
         DEF LOther, Begin, GiveUp, Wake, Lock, NoFit, RejectForGood, Abort,
             Renew, RenewFails, RenewFindsLost, HardCap, lease
  <2>3. QED
    BY <1>a, <2>1, <2>2 DEF Promise!Close
<1>3. QED
  BY <1>1, <1>2

\* The distributed bucket implements the promise of a rate limiter, for any
\* number of processes and any limits that stay as Ensure set them: what it
\* admits was accrued, no more leases are live than slots, and a lease is
\* adjusted at most once, whatever is lost, fails, crashes or expires
\* (tryAcquire, renewOnce, Adjust, Release).
THEOREM PromiseIsKept == LSpec => KeepsPromise
<1>1. LInit => CapsRows /\ WaitsWithoutRow /\ FreshLeaseUnadjusted
  BY DEF LInit, Init, CapsRows, WaitsWithoutRow, FreshLeaseUnadjusted
<1>2. LedgerTyped /\ CapsRows /\ WaitsWithoutRow /\ FreshLeaseUnadjusted /\ [LNext]_pvars
          => CapsRows' /\ WaitsWithoutRow' /\ FreshLeaseUnadjusted'
  BY LedgerSteps, CapsRowsStep, WaitsStep, UnadjustedStep DEF LedgerTyped
<1>3. LInit => Promise!Init
  BY DEF LInit, Init, Promise!Init, Held, Open, Live
<1>4. PromiseInv /\ PromiseInv' /\ [LNext]_pvars
          => [Promise!Next]_<<now, spent, Held, Open>>
  <2> SUFFICES ASSUME PromiseInv, PromiseInv', [LNext]_pvars
               PROVE  Promise!Next \/ UNCHANGED <<now, spent, Held, Open>>
    OBVIOUS
  <2>1. ASSUME NEW c \in Callers, LAdmit(c) PROVE Promise!Next
    BY <2>1, AdmitKeepsPromise DEF Promise!Next
  <2>2. ASSUME NEW c \in Callers, NEW actual \in Usages, LAdjust(c, actual)
        PROVE  Promise!Next
    BY <2>2, AdjustKeepsPromise DEF Promise!Next
  <2>3. ASSUME NEW c \in Callers, LOther(c)
        PROVE  Promise!Next \/ UNCHANGED <<now, spent, Held, Open>>
    BY <2>3, OtherKeepsPromise DEF Promise!Next
  <2>4. CASE LTick
    BY <2>4, TickKeepsPromise DEF Promise!Next
  <2>5. CASE UNCHANGED pvars
    BY <2>5 DEF pvars, vars, leaseRows, lease, Held, Open, Live
  <2>6. QED
    BY <2>1, <2>2, <2>3, <2>4, <2>5 DEF LNext
<1>5. QED
  BY <1>1, <1>2, <1>3, <1>4, LedgerHolds, PTL
     DEF LSpec, PromiseInv, KeepsPromise, Promise!Spec, Promise!avars
=============================================================================
