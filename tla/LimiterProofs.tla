----------------------------- MODULE LimiterProofs -----------------------------
(***************************************************************************)
(* Proofs about the in-memory limiter, for every set of callers, every     *)
(* estimate and usage, and every value of the limits.                      *)
(***************************************************************************)
EXTENDS LimiterLedger, FiniteSetTheorems, TLAPS

USE LimitsAssumption, WaitAssumption, UnitsAssumption
    DEF LimitsAssumption, WaitAssumption, UnitsAssumption

-----------------------------------------------------------------------------
(***************************************************************************)
(* Arithmetic                                                              *)
(***************************************************************************)

\* Division with remainder, as refillLocked splits the accrued fraction
\* into whole tokens and carry.
LEMMA Division ==
    ASSUME NEW a \in Nat, NEW d \in Nat \ {0}
    PROVE  /\ a \div d \in Nat
           /\ a % d \in 0..d - 1
           /\ a = d * (a \div d) + (a % d)
<1>1. a \div d \in Nat
  OBVIOUS
<1>2. a % d \in 0..d - 1
  OBVIOUS
<1>3. a = d * (a \div d) + (a % d)
  OBVIOUS
<1>4. QED
  BY <1>1, <1>2, <1>3

\* A common factor keeps an inequality.
LEMMA Scale ==
    ASSUME NEW d \in Nat, NEW a \in Int, NEW b \in Int, a <= b
    PROVE  d * a <= d * b
OBVIOUS

\* A sum is no less than what was added to.
LEMMA SumGrows ==
    ASSUME NEW a \in Int, NEW b \in Nat
    PROVE  a <= a + b
OBVIOUS

\* Both sides of the ledger may move by the same rate.
LEMMA Shift ==
    ASSUME NEW x \in Int, NEW c \in Int, NEW g \in Int, NEW k \in Int,
           NEW n \in Int, NEW r \in Int, NEW h \in Int, NEW m \in Int,
           x + c + g <= k + n, h <= g + r, m = n + r
    PROVE  x + c + h <= k + m
OBVIOUS

\* The refill returns a balance within capacity and a carry below one token.
LEMMA RefillType ==
    ASSUME BucketTypeOK
    PROVE  /\ RefilledTokens \in Int
           /\ RefilledTokens <= Capacity
           /\ RefilledCarry \in 0..RateDen - 1
<1> USE DEF BucketTypeOK
<1>1. Accrued \in Nat
  BY DEF Accrued
<1>2. Whole \in Nat /\ Accrued % RateDen \in 0..RateDen - 1
  BY <1>1, Division DEF Whole
<1>3. CASE ~Refills
  BY <1>3 DEF RefilledTokens, RefilledCarry
<1>4. CASE Refills /\ Fills
  BY <1>4 DEF RefilledTokens, RefilledCarry
<1>5. CASE Refills /\ ~Fills
  BY <1>2, <1>5 DEF RefilledTokens, RefilledCarry, Fills
<1>6. QED
  BY <1>3, <1>4, <1>5

\* A refill never brings more than the rate accrued.
LEMMA RefillNeverMints ==
    ASSUME BucketTypeOK
    PROVE  RateDen * RefilledTokens + RefilledCarry
               <= RateDen * available + carry + RateNum * sinceRefill
<1> USE DEF BucketTypeOK
<1>1. Accrued \in Nat /\ RateNum * sinceRefill \in Nat
  BY DEF Accrued
<1>2. /\ Whole \in Nat
      /\ Accrued = RateDen * Whole + (Accrued % RateDen)
      /\ Accrued % RateDen \in 0..RateDen - 1
  BY <1>1, Division DEF Whole
<1>3. RateDen * (available + Whole) = RateDen * available + RateDen * Whole
  BY <1>2
<1>4. CASE ~Refills
  BY <1>1, <1>4 DEF RefilledTokens, RefilledCarry
<1>5. CASE Refills /\ Fills
  <2>1. Capacity <= available + Whole
    BY <1>5 DEF Fills
  <2>2. RateDen * Capacity <= RateDen * (available + Whole)
    BY <2>1, <1>2
  <2>3. QED
    BY <1>1, <1>2, <1>3, <1>5, <2>2 DEF RefilledTokens, RefilledCarry, Accrued
<1>6. CASE Refills /\ ~Fills
  BY <1>1, <1>2, <1>3, <1>6 DEF RefilledTokens, RefilledCarry, Accrued
<1>7. QED
  BY <1>4, <1>5, <1>6

-----------------------------------------------------------------------------
(***************************************************************************)
(* Type correctness                                                        *)
(***************************************************************************)

\* The errors Reserve returns are errors of the model.
LEMMA LimitErrType ==
    /\ LimitErr(TRUE, "none") \in Results
    /\ \A cause \in {"none", "canceled", "deadline"} :
          LimitErr(FALSE, cause) \in Results
BY DEF LimitErr, Results, CallErrors, LimitErrors

\* Returning an error keeps the caller's locals in range.
LEMMA FailType ==
    ASSUME CallersTypeOK, NEW c \in Callers, NEW err \in Results, Fail(c, err)
    PROVE  /\ pc' \in [Callers -> PCs]
           /\ result' \in [Callers -> Results]
           /\ waited' \in [Callers -> 0..MaxWait]
           /\ sleepLeft' \in [Callers -> 0..PollInterval]
           /\ ctx' \in [Callers -> {"live", "canceled", "deadline"}]
BY DEF CallersTypeOK, Fail, Goto, Leave, PCs, Waiting

\* Every step keeps the bucket's numbers in range.
LEMMA BucketTypeStep ==
    ASSUME TypeOK, [Next]_vars
    PROVE  BucketTypeOK'
<1> USE DEF TypeOK
<1>1. ASSUME NEW c \in Callers, Acquire(c) PROVE BucketTypeOK'
  <2>1. req[c].tokens \in Nat /\ req[c].slots \in Nat
    BY DEF CallersTypeOK
  <2>2. QED
    BY <1>1, <2>1, RefillType DEF Acquire, RefillLocked, BucketTypeOK
<1>2. ASSUME NEW c \in Callers, Refused(c) PROVE BucketTypeOK'
  BY <1>2, RefillType DEF Refused, RefillLocked, BucketTypeOK
<1>3. ASSUME NEW c \in Callers, NEW used \in Usages, Commit(c, used)
      PROVE  BucketTypeOK'
  <2>1. req[c].tokens \in Nat /\ used \in Nat
    BY DEF CallersTypeOK
  <2>2. QED
    BY <1>3, <2>1, RefillType DEF Commit, Reconcile, RefillLocked, BucketTypeOK
<1>4. ASSUME NEW c \in Callers, Release(c) PROVE BucketTypeOK'
  <2>1. req[c].slots \in Nat
    BY DEF CallersTypeOK
  <2>2. QED
    BY <1>4, <2>1 DEF Release, AfterRelease, BucketTypeOK
<1>5. CASE Tick
  BY <1>5 DEF Tick, BucketTypeOK
<1>6. CASE UNCHANGED shared
  BY <1>6 DEF shared, BucketTypeOK
<1>7. QED
  BY <1>1, <1>2, <1>3, <1>4, <1>5, <1>6
     DEF Next, Reserving, Begin, CheckCtx, Wake, WakeDone, CommitAgain,
         ReleaseAgain, Forget, CtxEnd, vars, shared

\* Every step keeps the callers' locals in range.
LEMMA CallersTypeStep ==
    ASSUME TypeOK, [Next]_vars
    PROVE  CallersTypeOK'
<1> USE DEF TypeOK, CallersTypeOK, Waiting, PCs, Goto
<1>1. ASSUME NEW c \in Callers, NEW r \in Requests, Begin(c, r)
      PROVE  CallersTypeOK'
  <2>1. CASE Impossible(r)
    BY <1>1, <2>1, LimitErrType, FailType DEF Begin
  <2>2. CASE ~Impossible(r)
    BY <1>1, <2>2 DEF Begin
  <2>3. QED
    BY <2>1, <2>2
<1>2. ASSUME NEW c \in Callers, CheckCtx(c) PROVE CallersTypeOK'
  <2>1. CASE ctx[c] = "live"
    BY <1>2, <2>1 DEF CheckCtx
  <2>2. CASE ctx[c] # "live"
    <3>1. LimitErr(FALSE, ctx[c]) \in Results
      BY <2>2, LimitErrType
    <3>2. QED
      BY <1>2, <2>2, <3>1, FailType DEF CheckCtx
  <2>3. QED
    BY <2>1, <2>2
<1>3. ASSUME NEW c \in Callers, Acquire(c) PROVE CallersTypeOK'
  BY <1>3 DEF Acquire, Leave
<1>4. ASSUME NEW c \in Callers, Refused(c) PROVE CallersTypeOK'
  <2>1. CASE MaxWait > 0 /\ WaitLeft(c) <= 0
    BY <1>4, <2>1, LimitErrType, FailType DEF Refused
  <2>2. CASE ~(MaxWait > 0 /\ WaitLeft(c) <= 0)
    <3>1. waited[c] \in 0..MaxWait
      OBVIOUS
    <3>2. SleepFor(c) \in 0..PollInterval
      BY <2>2, <3>1 DEF SleepFor, WaitLeft
    <3>3. Refused(c) /\ ~(MaxWait > 0 /\ WaitLeft(c) <= 0)
      BY <1>4, <2>2
    <3>4. sleepLeft' \in [Callers -> 0..PollInterval]
      BY <3>2, <3>3 DEF Refused
    <3>5. QED
      BY <3>3, <3>4 DEF Refused
  <2>3. QED
    BY <2>1, <2>2
<1>5. ASSUME NEW c \in Callers, Wake(c) \/ WakeDone(c) PROVE CallersTypeOK'
  <2>1. CASE Wake(c)
    BY <2>1 DEF Wake
  <2>2. CASE WakeDone(c)
    <3>1. LimitErr(FALSE, ctx[c]) \in Results
      BY <2>2, LimitErrType DEF WakeDone
    <3>2. QED
      BY <2>2, <3>1, FailType DEF WakeDone
  <2>3. QED
    BY <1>5, <2>1, <2>2
<1>6. ASSUME NEW c \in Callers, NEW used \in Usages, Commit(c, used)
      PROVE  CallersTypeOK'
  BY <1>6 DEF Commit
<1>7. ASSUME NEW c \in Callers, Release(c) PROVE CallersTypeOK'
  BY <1>7 DEF Release
<1>8. ASSUME NEW c \in Callers, Forget(c) PROVE CallersTypeOK'
  BY <1>8 DEF Forget, AnyRequest, Results
<1>9. ASSUME NEW c \in Callers, NEW how \in CtxEnds, CtxEnd(c, how)
      PROVE  CallersTypeOK'
  BY <1>9 DEF CtxEnd
<1>10. CASE Tick
  BY <1>10 DEF Tick
<1>11. CASE UNCHANGED vars
  BY <1>11 DEF vars
<1>12. QED
  BY <1>1, <1>2, <1>3, <1>4, <1>5, <1>6, <1>7, <1>8, <1>9, <1>10, <1>11
     DEF Next, Reserving, CommitAgain, ReleaseAgain

\* Every reachable state of the limiter has the declared types: the balance
\* never passes the capacity, the carry stays below one token.
THEOREM TypeCorrect == Spec => []TypeOK
<1>1. Init => TypeOK
  BY DEF Init, TypeOK, BucketTypeOK, CallersTypeOK, PCs, AnyRequest, Results
<1>2. TypeOK /\ [Next]_vars => TypeOK'
  BY BucketTypeStep, CallersTypeStep DEF TypeOK
<1>3. QED
  BY <1>1, <1>2, PTL DEF Spec

-----------------------------------------------------------------------------
(***************************************************************************)
(* The budget                                                              *)
(***************************************************************************)

\* The history variables watch the limiter and never steer it.
LEMMA HistoryRefines == LSpec => Spec
<1>1. LInit => Init
  BY DEF LInit
<1>2. [LNext]_lvars => [Next]_vars
  BY DEF LNext, Next, lvars, LAcquire, LCommit, LTick, LOther, Reserving
<1>3. QED
  BY <1>1, <1>2, PTL DEF LSpec, Spec

\* What a reservation costs comes out of the refilled balance: admissions.
LEMMA AcquireNeverMints ==
    ASSUME TypeOK, now \in Nat, spent \in Int, NeverMints, TokenLimited,
           NEW c \in Callers, LAcquire(c)
    PROVE  NeverMints'
<1> DEFINE n == req[c].tokens
<1>1. n \in Nat
  BY DEF TypeOK, CallersTypeOK
<1>2. /\ available' = RefilledTokens - n
      /\ spent' = spent + n
      /\ carry' = RefilledCarry
      /\ sinceRefill' = 0
      /\ now' = now
  BY DEF LAcquire, Acquire, RefillLocked, Charge
<1>3. spent' + available' = spent + RefilledTokens
  BY <1>1, <1>2, RefillType DEF TypeOK
<1>4. RateDen * (spent + RefilledTokens) + RefilledCarry
          <= RateDen * (spent + available) + carry + RateNum * sinceRefill
  BY RefillNeverMints, RefillType DEF TypeOK, BucketTypeOK
<1>5. RateNum * sinceRefill' = 0
  BY <1>2
<1>6. RateDen * (spent + RefilledTokens) \in Int
  BY RefillType DEF TypeOK
<1>7. QED
  BY <1>2, <1>3, <1>4, <1>5, <1>6, RefillType
     DEF NeverMints, TypeOK, BucketTypeOK, TokenLimited

\* Commits: what is charged leaves the balance, what is refunded returns to
\* it unless the bucket is full.
LEMMA CommitNeverMints ==
    ASSUME TypeOK, now \in Nat, spent \in Int, NeverMints, TokenLimited,
           NEW c \in Callers, NEW used \in Usages, LCommit(c, used)
    PROVE  NeverMints'
<1> DEFINE delta == used - req[c].tokens
<1>1. delta \in Int
  BY DEF TypeOK, CallersTypeOK
<1>2. /\ available' \in Int
      /\ available' <= RefilledTokens - delta
      /\ spent' = spent + delta
      /\ carry' = RefilledCarry
      /\ sinceRefill' = 0
      /\ now' = now
  BY <1>1, RefillType
     DEF LCommit, Commit, Reconcile, RefillLocked, Charge, TypeOK
<1>3. spent' + available' <= spent + RefilledTokens
  BY <1>1, <1>2, RefillType DEF TypeOK
<1>4. RateDen * (spent' + available') <= RateDen * (spent + RefilledTokens)
  BY <1>1, <1>2, <1>3, RefillType DEF TypeOK
<1>5. RateDen * (spent + RefilledTokens) + RefilledCarry
          <= RateDen * (spent + available) + carry + RateNum * sinceRefill
  BY RefillNeverMints, RefillType DEF TypeOK, BucketTypeOK
<1>6. RateNum * sinceRefill' = 0
  BY <1>2
<1>7. /\ RateDen * (spent + RefilledTokens) \in Int
      /\ RateDen * (spent' + available') \in Int
  BY <1>1, <1>2, RefillType DEF TypeOK
<1>8. QED
  BY <1>2, <1>4, <1>5, <1>6, <1>7, RefillType
     DEF NeverMints, TypeOK, BucketTypeOK, TokenLimited

\* A refused attempt refills and takes nothing.
LEMMA RefusedNeverMints ==
    ASSUME TypeOK, now \in Nat, spent \in Int, NeverMints, TokenLimited,
           NEW c \in Callers, Refused(c), UNCHANGED <<now, spent>>
    PROVE  NeverMints'
<1>1. /\ available' = RefilledTokens
      /\ carry' = RefilledCarry
      /\ sinceRefill' = 0
  BY DEF Refused, RefillLocked
<1>2. RateDen * (spent + RefilledTokens) + RefilledCarry
          <= RateDen * (spent + available) + carry + RateNum * sinceRefill
  BY RefillNeverMints, RefillType DEF TypeOK, BucketTypeOK
<1>3. RateNum * sinceRefill' = 0
  BY <1>1
<1>4. RateDen * (spent + RefilledTokens) \in Int
  BY RefillType DEF TypeOK
<1>5. QED
  BY <1>1, <1>2, <1>3, <1>4, RefillType
     DEF NeverMints, TypeOK, BucketTypeOK, TokenLimited

\* A tick of the clock brings the next refill closer by no more than the
\* rate.
LEMMA TickNeverMints ==
    ASSUME TypeOK, now \in Nat, spent \in Int, NeverMints, TokenLimited, LTick
    PROVE  NeverMints'
<1>1. /\ UNCHANGED <<available, carry, spent>>
      /\ now' = now + 1
      /\ sinceRefill' \in Nat
      /\ sinceRefill' <= sinceRefill + 1
  BY DEF LTick, Tick, TypeOK, BucketTypeOK
<1>2. RateNum * sinceRefill' <= RateNum * sinceRefill + RateNum
  <2>1. RateNum * sinceRefill' <= RateNum * (sinceRefill + 1)
    <3>1. sinceRefill' \in Int /\ sinceRefill + 1 \in Int /\ RateNum \in Nat
      BY <1>1 DEF TypeOK, BucketTypeOK
    <3>2. QED
      BY <1>1, <3>1, Scale, Zenon
  <2>2. RateNum * (sinceRefill + 1) = RateNum * sinceRefill + RateNum
    BY DEF TypeOK, BucketTypeOK
  <2>3. QED
    BY <2>1, <2>2
<1>3. RateNum * now' = RateNum * now + RateNum
  BY <1>1
<1>4. /\ RateNum * sinceRefill' \in Int
      /\ RateNum * sinceRefill \in Int
      /\ RateNum * now \in Int
      /\ RateDen * (spent + available) \in Int
      /\ RateDen * Capacity \in Int
  BY <1>1 DEF TypeOK, BucketTypeOK
<1>5. RateDen * (spent + available) + carry + RateNum * sinceRefill
          <= RateDen * Capacity + RateNum * now
  BY DEF NeverMints
<1>6. RateDen * (spent + available) + carry + RateNum * sinceRefill'
          <= RateDen * Capacity + RateNum * now'
  BY <1>2, <1>3, <1>4, <1>5, Shift DEF TypeOK, BucketTypeOK
<1>7. QED
  BY <1>1, <1>6 DEF NeverMints

\* The ledger: the types of the limiter and of its history, and the budget.
LedgerInv == TypeOK /\ now \in Nat /\ spent \in Int /\ NeverMints

\* Every step keeps the ledger.
LEMMA LedgerHolds == LSpec => []LedgerInv
<1> DEFINE Typed == TypeOK /\ now \in Nat /\ spent \in Int
<1>1. LInit => Typed /\ NeverMints
  <2>1. LInit => Typed
    BY DEF LInit, Init, TypeOK, BucketTypeOK, CallersTypeOK, PCs, AnyRequest,
           Results
  <2>2. LInit => NeverMints
    BY DEF LInit, Init, NeverMints
  <2>3. QED
    BY <2>1, <2>2
<1>2. Typed /\ [LNext]_lvars => Typed'
  <2> SUFFICES ASSUME Typed, [LNext]_lvars PROVE Typed'
    OBVIOUS
  <2>1. [Next]_vars
    BY DEF LNext, Next, lvars, LAcquire, LCommit, LTick, LOther, Reserving
  <2>2. TypeOK'
    BY <2>1, BucketTypeStep, CallersTypeStep DEF TypeOK
  <2>3. now' \in Nat
    BY DEF LNext, LAcquire, LCommit, LTick, LOther, lvars
  <2>4. ASSUME NEW c \in Callers PROVE req[c].tokens \in Nat
    BY DEF TypeOK, CallersTypeOK
  <2>5. spent' \in Int
    BY <2>4 DEF LNext, LAcquire, LCommit, Charge, LTick, LOther, lvars
  <2>6. QED
    BY <2>2, <2>3, <2>5
<1>3. Typed /\ NeverMints /\ [LNext]_lvars => NeverMints'
  <2> SUFFICES ASSUME Typed, NeverMints, TokenLimited, [LNext]_lvars
               PROVE  NeverMints'
    BY DEF NeverMints
  <2>1. CASE UNCHANGED <<available, carry, sinceRefill, now, spent>>
    BY <2>1 DEF NeverMints
  <2>2. ASSUME NEW c \in Callers, LOther(c) PROVE NeverMints'
    <3>1. CASE Refused(c)
      BY <2>2, <3>1, RefusedNeverMints DEF LOther
    <3>2. CASE UNCHANGED shared
      BY <2>1, <2>2, <3>2 DEF LOther, shared
    <3>3. QED
      <4>1. Release(c) => UNCHANGED <<available, carry, sinceRefill>>
        BY DEF Release
      <4>2. QED
        BY <2>1, <2>2, <3>1, <3>2, <4>1
           DEF LOther, Begin, CheckCtx, Wake, WakeDone, CommitAgain,
               ReleaseAgain, Forget, CtxEnd, vars
  <2>3. CASE UNCHANGED lvars
    BY <2>1, <2>3 DEF lvars, vars, shared
  <2>4. QED
    BY <2>2, <2>3, AcquireNeverMints, CommitNeverMints, TickNeverMints DEF LNext
<1>4. QED
  BY <1>1, <1>2, <1>3, PTL DEF LSpec, LedgerInv

\* The limiter never admits more than its budget: what has been charged, net
\* of refunds, and what remains never exceed the capacity and the accrual.
THEOREM BudgetHolds == LSpec => []NeverMints
<1>1. LedgerInv => NeverMints
  BY DEF LedgerInv
<1>2. QED
  BY <1>1, LedgerHolds, PTL

-----------------------------------------------------------------------------
(***************************************************************************)
(* The slots                                                               *)
(***************************************************************************)

\* There are n numbers from 1 to n.
LEMMA CountTo ==
    ASSUME NEW n \in Nat
    PROVE  IsFiniteSet(1 .. n) /\ Cardinality(1 .. n) = n
<1>1. 1 \in Int /\ n \in Int
  OBVIOUS
<1>2. IsFiniteSet(1 .. n)
  BY <1>1, FS_Interval, Zenon
<1>3. Cardinality(1 .. n) = IF 1 > n THEN 0 ELSE n - 1 + 1
  BY <1>1, FS_Interval, Zenon
<1>4. QED
  BY <1>2, <1>3

\* A reservation has as many slots as its estimate asks for.
LEMMA SlotsOfOne ==
    ASSUME TypeOK, NEW c \in Callers
    PROVE  /\ IsFiniteSet(SlotsOf(c))
           /\ Cardinality(SlotsOf(c)) = req[c].slots
<1>1. req[c].slots \in Nat /\ req[c].slots >= 1
  BY DEF TypeOK, CallersTypeOK
<1>2. /\ IsFiniteSet(1 .. req[c].slots)
      /\ Cardinality(1 .. req[c].slots) = req[c].slots
  BY <1>1, CountTo, Zenon
<1>3. IsFiniteSet({c}) /\ Cardinality({c}) = 1
  BY FS_Singleton
<1>4. /\ IsFiniteSet({c} \X (1 .. req[c].slots))
      /\ Cardinality({c} \X (1 .. req[c].slots))
           = Cardinality({c}) * Cardinality(1 .. req[c].slots)
  BY <1>2, <1>3, FS_Product, Zenon
<1>5. 1 * req[c].slots = req[c].slots
  BY <1>1
<1>6. SlotsOf(c) = {c} \X (1 .. req[c].slots)
  BY Zenon DEF SlotsOf
<1>7. QED
  BY <1>2, <1>3, <1>4, <1>5, <1>6, Zenon

\* Only an admission and a release change the slots held: an estimate is
\* written while its caller holds nothing.
LEMMA SlotsUntouched ==
    ASSUME TypeOK, [Next]_vars,
           \A c \in Callers : ~Acquire(c) /\ ~Release(c)
    PROVE  HeldSlots' = HeldSlots /\ active' = active
<1> USE DEF Goto, Fail, Leave
<1>1. pc \in [Callers -> PCs] /\ req \in [Callers -> Requests]
  BY DEF TypeOK, CallersTypeOK
<1> DEFINE Same == /\ \A c \in Callers : pc'[c] = "holding" <=> pc[c] = "holding"
                   /\ \A c \in Callers : pc[c] = "holding" => req'[c] = req[c]
                   /\ active' = active
<1>2. Same
  <2>1. ASSUME NEW c \in Callers, \/ \E r \in Requests : Begin(c, r)
                                  \/ CheckCtx(c)
        PROVE  Same
    BY <1>1, <2>1 DEF Begin, CheckCtx, shared
  <2>2. ASSUME NEW c \in Callers, Refused(c) \/ Wake(c) \/ WakeDone(c)
        PROVE  Same
    BY <1>1, <2>2 DEF Refused, Wake, WakeDone, shared
  <2>3. ASSUME NEW c \in Callers, \/ \E used \in Usages : Commit(c, used)
                                  \/ CommitAgain(c) \/ ReleaseAgain(c)
        PROVE  Same
    BY <1>1, <2>3 DEF Commit, CommitAgain, ReleaseAgain, vars, shared
  <2>4. ASSUME NEW c \in Callers, \/ Forget(c)
                                  \/ \E how \in CtxEnds : CtxEnd(c, how)
        PROVE  Same
    BY <1>1, <2>4 DEF Forget, CtxEnd, shared
  <2>5. CASE Tick \/ UNCHANGED vars
    BY <2>5 DEF Tick, vars, shared
  <2>6. QED
    BY <2>1, <2>2, <2>3, <2>4, <2>5 DEF Next, Reserving
<1>3. \A c \in Callers : pc[c] = "holding" => SlotsOf(c)' = SlotsOf(c)
  BY <1>2 DEF SlotsOf
<1>4. QED
  BY <1>2, <1>3 DEF HeldSlots

\* An admission adds the slots of its estimate to those held.
LEMMA AcquireSlots ==
    ASSUME TypeOK, NEW c \in Callers, Acquire(c)
    PROVE  /\ HeldSlots' = HeldSlots \cup SlotsOf(c)
           /\ HeldSlots \cap SlotsOf(c) = {}
<1>1. /\ pc \in [Callers -> PCs] /\ pc[c] = "acquiring"
      /\ pc' = [pc EXCEPT ![c] = "holding"] /\ req' = req
  BY DEF TypeOK, CallersTypeOK, Acquire, Goto
<1>2. \A d \in Callers : SlotsOf(d)' = SlotsOf(d)
  BY <1>1 DEF SlotsOf
<1>3. \A d \in Callers : pc'[d] = "holding" <=> pc[d] = "holding" \/ d = c
  BY <1>1
<1>4. \A d \in Callers : d # c => SlotsOf(d) \cap SlotsOf(c) = {}
  BY DEF SlotsOf
<1>5. HeldSlots' = HeldSlots \cup SlotsOf(c)
  BY <1>2, <1>3 DEF HeldSlots
<1>6. HeldSlots \cap SlotsOf(c) = {}
  BY <1>1, <1>4 DEF HeldSlots
<1>7. QED
  BY <1>5, <1>6

\* A release takes the slots of its reservation out of those held.
LEMMA ReleaseSlots ==
    ASSUME TypeOK, NEW c \in Callers, Release(c)
    PROVE  /\ HeldSlots' = HeldSlots \ SlotsOf(c)
           /\ SlotsOf(c) \subseteq HeldSlots
<1>1. /\ pc \in [Callers -> PCs] /\ pc[c] = "holding"
      /\ pc' = [pc EXCEPT ![c] = "released"] /\ req' = req
  BY DEF TypeOK, CallersTypeOK, Release, Goto
<1>2. \A d \in Callers : SlotsOf(d)' = SlotsOf(d)
  BY <1>1 DEF SlotsOf
<1>3. \A d \in Callers : pc'[d] = "holding" <=> pc[d] = "holding" /\ d # c
  BY <1>1
<1>4. \A d \in Callers : d # c => SlotsOf(d) \cap SlotsOf(c) = {}
  BY DEF SlotsOf
<1>5. SlotsOf(c) \subseteq HeldSlots
  BY <1>1 DEF HeldSlots
<1>6. HeldSlots' = HeldSlots \ SlotsOf(c)
  <2>1. ASSUME NEW x, x \in HeldSlots' PROVE x \in HeldSlots \ SlotsOf(c)
    <3>1. PICK d \in Callers : pc'[d] = "holding" /\ x \in SlotsOf(d)'
      BY <2>1 DEF HeldSlots
    <3>2. QED
      BY <1>2, <1>3, <1>4, <3>1 DEF HeldSlots
  <2>2. ASSUME NEW x, x \in HeldSlots \ SlotsOf(c) PROVE x \in HeldSlots'
    <3>1. PICK d \in Callers : pc[d] = "holding" /\ x \in SlotsOf(d)
      BY <2>2 DEF HeldSlots
    <3>2. pc'[d] = "holding" /\ x \in SlotsOf(d)'
      BY <1>2, <1>3, <2>2, <3>1
    <3>3. QED
      BY <3>2 DEF HeldSlots
  <2>3. QED
    BY <2>1, <2>2
<1>7. QED
  BY <1>5, <1>6

\* The strengthening: finitely many slots are held, so that they can be
\* counted, and the counter is their number.
SlotsInv == IsFiniteSet(HeldSlots) /\ SlotsAccounted

\* Every step keeps the counter equal to the slots held.
LEMMA SlotsStep ==
    ASSUME TypeOK, SlotsInv, [Next]_vars
    PROVE  SlotsInv'
<1>1. IsFiniteSet(HeldSlots) /\ active = Cardinality(HeldSlots)
  BY DEF SlotsInv, SlotsAccounted
<1>2. SlotLimited => active <= MaxConcurrency
  BY DEF SlotsInv, SlotsAccounted
<1>3. active \in Nat
  BY DEF TypeOK, BucketTypeOK
<1>4. ASSUME NEW c \in Callers, Acquire(c) PROVE SlotsInv'
  <2>1. /\ IsFiniteSet(SlotsOf(c))
        /\ Cardinality(SlotsOf(c)) = req[c].slots /\ req[c].slots \in Nat
    BY SlotsOfOne DEF TypeOK, CallersTypeOK
  <2>2. /\ IsFiniteSet(HeldSlots')
        /\ Cardinality(HeldSlots') = active + req[c].slots
    <3>1. /\ IsFiniteSet(HeldSlots \cup SlotsOf(c))
          /\ Cardinality(HeldSlots \cup SlotsOf(c)) = Cardinality(HeldSlots)
                 + Cardinality(SlotsOf(c)) - Cardinality(HeldSlots \cap SlotsOf(c))
      BY <1>1, <2>1, FS_Union
    <3>2. Cardinality(HeldSlots \cap SlotsOf(c)) = 0
      BY <1>4, AcquireSlots, FS_EmptySet
    <3>3. HeldSlots' = HeldSlots \cup SlotsOf(c)
      BY <1>4, AcquireSlots
    <3>4. active + req[c].slots - 0 = active + req[c].slots
      BY <1>3, <2>1
    <3>5. QED
      BY <1>1, <2>1, <3>1, <3>2, <3>3, <3>4
  <2>3. active' = active + req[c].slots
    BY <1>4 DEF Acquire
  <2>4. SlotLimited => active' <= MaxConcurrency
    BY <1>3, <1>4, <2>1, <2>3 DEF Acquire, Fits, SlotLimited
  <2>5. QED
    BY <2>2, <2>3, <2>4 DEF SlotsInv, SlotsAccounted, SlotLimited
<1>5. ASSUME NEW c \in Callers, Release(c) PROVE SlotsInv'
  <2>1. /\ IsFiniteSet(SlotsOf(c))
        /\ Cardinality(SlotsOf(c)) = req[c].slots /\ req[c].slots \in Nat
    BY SlotsOfOne DEF TypeOK, CallersTypeOK
  <2>2. /\ req[c].slots <= active
        /\ IsFiniteSet(HeldSlots')
        /\ Cardinality(HeldSlots') = active - req[c].slots
    <3>1. /\ IsFiniteSet(HeldSlots \ SlotsOf(c))
          /\ Cardinality(HeldSlots \ SlotsOf(c)) = Cardinality(HeldSlots)
                 - Cardinality(HeldSlots \cap SlotsOf(c))
      BY <1>1, FS_Difference
    <3>2. HeldSlots \cap SlotsOf(c) = SlotsOf(c)
      BY <1>5, ReleaseSlots
    <3>3. Cardinality(SlotsOf(c)) <= Cardinality(HeldSlots)
      BY <1>1, <1>5, ReleaseSlots, FS_Subset
    <3>4. QED
      BY <1>1, <1>5, <2>1, <3>1, <3>2, <3>3, ReleaseSlots
  <2>3. active' = active - req[c].slots
    BY <1>3, <1>5, <2>1, <2>2 DEF Release, AfterRelease
  <2>4. SlotLimited => active' <= MaxConcurrency
    BY <1>2, <1>3, <2>1, <2>3 DEF SlotLimited
  <2>5. QED
    BY <2>2, <2>3, <2>4 DEF SlotsInv, SlotsAccounted, SlotLimited
<1>6. CASE \A c \in Callers : ~Acquire(c) /\ ~Release(c)
  <2>1. HeldSlots' = HeldSlots /\ active' = active
    BY <1>6, SlotsUntouched
  <2>2. QED
    BY <1>1, <1>2, <2>1 DEF SlotsInv, SlotsAccounted, SlotLimited
<1>7. QED
  BY <1>4, <1>5, <1>6

\* Nothing is held at the start.
LEMMA SlotsInit == Init => SlotsInv
<1> SUFFICES ASSUME Init PROVE SlotsInv
  OBVIOUS
<1>1. HeldSlots = {}
  BY DEF Init, HeldSlots
<1>2. QED
  BY <1>1, FS_EmptySet DEF Init, SlotsInv, SlotsAccounted, SlotLimited

\* The counter of active requests is exactly the number of slots held by the
\* reservations, for any callers and any estimates, and never passes
\* MaxConcurrency (tryAcquireLocked, Release).
THEOREM SlotsAreAccounted == Spec => []SlotsAccounted
<1>1. TypeOK /\ SlotsInv /\ [Next]_vars => SlotsInv'
  BY SlotsStep
<1>2. SlotsInv => SlotsAccounted
  BY DEF SlotsInv
<1>3. QED
  BY <1>1, <1>2, SlotsInit, TypeCorrect, PTL DEF Spec

-----------------------------------------------------------------------------
(***************************************************************************)
(* The wait                                                                *)
(***************************************************************************)

\* The short last sleep: what Reserve sets its timer to ends no later than
\* MaxWait.
LEMMA SleepFits ==
    ASSUME TypeOK, NEW c \in Callers, MaxWait > 0
    PROVE  waited[c] + SleepFor(c) <= MaxWait
<1>1. waited[c] \in 0..MaxWait
  BY DEF TypeOK, CallersTypeOK
<1>2. CASE WaitLeft(c) < PollInterval
  BY <1>1, <1>2 DEF SleepFor, WaitLeft
<1>3. CASE ~(WaitLeft(c) < PollInterval)
  BY <1>1, <1>3 DEF SleepFor, WaitLeft
<1>4. QED
  BY <1>2, <1>3

\* However often a Reserve has polled, and whatever the others did in
\* between, its timer never runs past MaxWait (the short last sleep of
\* Reserve).
THEOREM WaitHolds == Spec => []NeverOversleeps
<1>1. Init => NeverOversleeps
  BY DEF Init, NeverOversleeps
<1>2. TypeOK /\ NeverOversleeps /\ [Next]_vars => NeverOversleeps'
  <2> SUFFICES ASSUME TypeOK, NeverOversleeps, [Next]_vars, MaxWait > 0,
                      NEW d \in Callers, pc'[d] = "sleeping"
               PROVE  waited'[d] + sleepLeft'[d] <= MaxWait
    BY DEF NeverOversleeps
  <2> USE DEF Goto, Fail, Leave
  <2>1. /\ pc \in [Callers -> PCs]
        /\ waited \in [Callers -> 0..MaxWait]
        /\ sleepLeft \in [Callers -> 0..PollInterval]
    BY DEF TypeOK, CallersTypeOK
  <2>2. pc[d] = "sleeping" => waited[d] + sleepLeft[d] <= MaxWait
    BY DEF NeverOversleeps
  <2>3. CASE Tick
    <3>1. pc[d] = "sleeping" /\ pc[d] \in Waiting
      BY <2>3 DEF Tick, Waiting
    <3>2. /\ waited'[d] = IF waited[d] < MaxWait THEN waited[d] + 1 ELSE waited[d]
          /\ sleepLeft'[d] = IF sleepLeft[d] > 0 THEN sleepLeft[d] - 1 ELSE 0
      BY <2>3, <3>1 DEF Tick
    <3>3. QED
      BY <2>1, <2>2, <3>1, <3>2
  <2>4. ASSUME NEW c \in Callers, Refused(c)
        PROVE  waited'[d] + sleepLeft'[d] <= MaxWait
    <3>1. CASE MaxWait > 0 /\ WaitLeft(c) <= 0
      BY <2>1, <2>2, <2>4, <3>1 DEF Refused
    <3>2. CASE ~(MaxWait > 0 /\ WaitLeft(c) <= 0)
      <4>1. /\ pc' = [pc EXCEPT ![c] = "sleeping"]
            /\ sleepLeft' = [sleepLeft EXCEPT ![c] = SleepFor(c)]
            /\ waited' = waited
        BY <2>4, <3>2 DEF Refused
      <4>2. CASE c = d
        BY <2>1, <4>1, <4>2, SleepFits
      <4>3. CASE c # d
        BY <2>1, <2>2, <4>1, <4>3
      <4>4. QED
        BY <4>2, <4>3
    <3>3. QED
      BY <3>1, <3>2
  <2>5. ASSUME NEW c \in Callers,
               \/ \E r \in Requests : Begin(c, r)
               \/ CheckCtx(c) \/ Acquire(c) \/ Wake(c) \/ WakeDone(c)
        PROVE  waited'[d] + sleepLeft'[d] <= MaxWait
    BY <2>1, <2>2, <2>5 DEF Begin, CheckCtx, Acquire, Wake, WakeDone
  <2>6. ASSUME NEW c \in Callers,
               \/ \E used \in Usages : Commit(c, used)
               \/ CommitAgain(c) \/ Release(c) \/ ReleaseAgain(c) \/ Forget(c)
               \/ \E how \in CtxEnds : CtxEnd(c, how)
        PROVE  waited'[d] + sleepLeft'[d] <= MaxWait
    BY <2>1, <2>2, <2>6
       DEF Commit, CommitAgain, Release, ReleaseAgain, Forget, CtxEnd, vars
  <2>7. CASE UNCHANGED vars
    BY <2>2, <2>7 DEF vars
  <2>8. QED
    BY <2>3, <2>4, <2>5, <2>6, <2>7 DEF Next, Reserving
<1>3. QED
  BY <1>1, <1>2, TypeCorrect, PTL DEF Spec
-----------------------------------------------------------------------------
(***************************************************************************)
(* The promise                                                             *)
(***************************************************************************)

\* Only a reservation can be reconciled: an idle or waiting caller has
\* nothing committed.
CommittedIsReserved == \A c \in Callers : committed[c] => HasReservation(c)

\* Every step keeps a commit tied to its reservation.
LEMMA CommittedStep ==
    ASSUME TypeOK, CommittedIsReserved, [Next]_vars
    PROVE  CommittedIsReserved'
<1> USE DEF CommittedIsReserved, HasReservation, Goto, Fail, Leave
<1>1. pc \in [Callers -> PCs] /\ committed \in [Callers -> BOOLEAN]
  BY DEF TypeOK, CallersTypeOK
<1>2. ASSUME NEW c \in Callers, Reserving(c) \/ \E r \in Requests : Begin(c, r)
      PROVE  CommittedIsReserved'
  BY <1>1, <1>2
     DEF Reserving, Begin, CheckCtx, Acquire, Refused, Wake, WakeDone
<1>3. ASSUME NEW c \in Callers, \E used \in Usages : Commit(c, used)
      PROVE  CommittedIsReserved'
  BY <1>1, <1>3 DEF Commit
<1>4. ASSUME NEW c \in Callers, Release(c) \/ Forget(c)
      PROVE  CommittedIsReserved'
  BY <1>1, <1>4 DEF Release, Forget
<1>5. CASE UNCHANGED <<pc, committed>>
  BY <1>5
<1>6. QED
  BY <1>2, <1>3, <1>4, <1>5
     DEF Next, CommitAgain, ReleaseAgain, CtxEnd, Tick, vars

\* The instance has its own copy of Cardinality.
LEMMA SameCardinality ==
    ASSUME NEW S
    PROVE  Promise!Cardinality(S) = Cardinality(S)
BY DEF Promise!Cardinality, Cardinality

\* An admission is an admission of the promise: the tokens it takes were in
\* the bucket, so they were accrued and not spent, and its slots were free.
LEMMA AcquireKeepsPromise ==
    ASSUME LedgerInv, LedgerInv', CommittedIsReserved, SlotsInv',
           NEW c \in Callers, LAcquire(c)
    PROVE  Promise!Admit(c, req[c].slots)
<1>1. /\ pc \in [Callers -> PCs] /\ pc[c] = "acquiring"
      /\ pc' = [pc EXCEPT ![c] = "holding"]
      /\ UNCHANGED <<req, committed, now>>
      /\ committed \in [Callers -> BOOLEAN]
  BY DEF LedgerInv, TypeOK, CallersTypeOK, LAcquire, Acquire, Goto
<1>2. Held[c] = 0 /\ c \notin Open
  BY <1>1 DEF Held, Open, HasReservation
<1>3. Held' = [Held EXCEPT ![c] = req[c].slots]
  BY <1>1 DEF Held
<1>4. ~committed[c]
  BY <1>1 DEF CommittedIsReserved, HasReservation
<1>5. Open' = Open \cup {c}
  BY <1>1, <1>4 DEF Open, HasReservation
<1>6. spent' >= spent
  <2>1. req[c].tokens \in Nat /\ spent \in Int
    BY DEF LedgerInv, TypeOK, CallersTypeOK
  <2>2. QED
    BY <2>1 DEF LAcquire, Charge
<1>7. Promise!WithinBudget
  <2>1. SUFFICES ASSUME TokenLimited
                 PROVE  RateDen * spent' <= RateDen * Capacity + RateNum * now
    BY DEF Promise!WithinBudget, TokenLimited
  <2>2. req[c].tokens \in Nat /\ RefilledTokens \in Int
    BY RefillType DEF LedgerInv, TypeOK, CallersTypeOK
  <2>3. available' \in Nat
    BY <2>1, <2>2 DEF LAcquire, Acquire, RefillLocked, Fits
  <2>4. /\ RateDen * (spent' + available') + carry' + RateNum * sinceRefill'
               <= RateDen * Capacity + RateNum * now'
        /\ carry' \in Nat /\ sinceRefill' = 0 /\ spent' \in Int
    BY <2>1 DEF LedgerInv, NeverMints, TypeOK, BucketTypeOK, TokenLimited,
                LAcquire, Acquire, RefillLocked
  <2>5. RateDen * spent' <= RateDen * (spent' + available')
    <3>1. spent' \in Int
      BY <2>4
    <3>2. spent' <= spent' + available'
      BY <2>3, <3>1, SumGrows, Zenon
    <3>3. spent' + available' \in Int
      BY <2>3, <3>1
    <3>4. RateDen \in Nat
      OBVIOUS
    <3>5. QED
      BY <3>1, <3>2, <3>3, <3>4, Scale, Zenon
  <2>6. RateNum * sinceRefill' = 0
    BY <2>4
  <2>7. /\ RateDen * (spent' + available') \in Int /\ RateDen * spent' \in Int
        /\ RateDen * Capacity + RateNum * now' \in Int
    BY <1>1, <2>3, <2>4 DEF LedgerInv
  <2>8. RateDen * spent' <= RateDen * Capacity + RateNum * now'
    BY <2>4, <2>5, <2>6, <2>7
  <2>9. QED
    BY <1>1, <2>8
<1>8. Promise!WithinSlots
  <2>1. Promise!Slots(Held') = HeldSlots'
    BY <1>1, <1>3 DEF Promise!Slots, HeldSlots, SlotsOf, Held
  <2>2. active' = Cardinality(HeldSlots') /\ (SlotLimited => active' <= MaxConcurrency)
    BY DEF SlotsInv, SlotsAccounted, SlotLimited
  <2>3. MaxConcurrency = 0 \/ Cardinality(Promise!Slots(Held')) <= MaxConcurrency
    BY <2>1, <2>2 DEF SlotLimited
  <2>4. QED
    BY <2>3, SameCardinality DEF Promise!WithinSlots
<1>9. QED
  BY <1>1, <1>2, <1>3, <1>5, <1>6, <1>7, <1>8 DEF Promise!Admit

\* A commit is a reconciliation, once for each reservation.
LEMMA CommitKeepsPromise ==
    ASSUME LedgerInv, LedgerInv', NEW c \in Callers, NEW used \in Usages,
           LCommit(c, used)
    PROVE  Promise!Reconcile(c)
<1>1. /\ HasReservation(c) /\ ~committed[c]
      /\ committed' = [committed EXCEPT ![c] = TRUE]
      /\ committed \in [Callers -> BOOLEAN]
      /\ UNCHANGED <<pc, req, now>>
  BY DEF LedgerInv, TypeOK, CallersTypeOK, LCommit, Commit
<1>2. c \in Open /\ Open' = Open \ {c}
  BY <1>1 DEF Open, HasReservation
<1>3. Held' = Held
  BY <1>1 DEF Held
<1>4. spent' \in Int
  BY DEF LedgerInv
<1>5. QED
  BY <1>1, <1>2, <1>3, <1>4 DEF Promise!Reconcile

\* Time passes and gives no slot back.
LEMMA TickKeepsPromise ==
    ASSUME LedgerInv, LTick
    PROVE  Promise!Pass
<1>1. now' > now /\ UNCHANGED <<pc, req, committed, spent>>
  BY DEF LedgerInv, LTick, Tick
<1>2. Held' = Held /\ Open' = Open
  BY <1>1 DEF Held, Open, HasReservation
<1>3. QED
  BY <1>1, <1>2 DEF Promise!Pass

\* The other steps free the slots of a reservation, forget one, or are not
\* visible in the promise.
LEMMA OtherKeepsPromise ==
    ASSUME LedgerInv, NEW c \in Callers, LOther(c)
    PROVE  Promise!Free(c) \/ Promise!Close(c)
               \/ UNCHANGED <<now, spent, Held, Open>>
<1> USE DEF Goto, Fail, Leave
<1>1. /\ pc \in [Callers -> PCs] /\ req \in [Callers -> Requests]
      /\ committed \in [Callers -> BOOLEAN]
      /\ UNCHANGED <<now, spent>>
  BY DEF LedgerInv, TypeOK, CallersTypeOK, LOther
<1>2. CASE Release(c)
  <2>1. req[c].slots \in Nat \ {0}
    BY <1>1
  <2>2. /\ pc[c] = "holding" /\ pc' = [pc EXCEPT ![c] = "released"]
        /\ UNCHANGED <<req, committed>>
    BY <1>2 DEF Release
  <2>3. Held[c] # 0 /\ Held' = [Held EXCEPT ![c] = 0]
    BY <1>1, <2>1, <2>2 DEF Held
  <2>4. Open' = Open
    BY <1>1, <2>2 DEF Open, HasReservation
  <2>5. QED
    BY <1>1, <2>3, <2>4 DEF Promise!Free
<1>3. CASE Forget(c)
  <2>1. /\ pc[c] \in {"rejected", "released"} /\ pc' = [pc EXCEPT ![c] = "idle"]
        /\ req' = [req EXCEPT ![c] = AnyRequest]
        /\ committed' = [committed EXCEPT ![c] = FALSE]
    BY <1>3 DEF Forget
  <2>2. Held' = Held
    BY <1>1, <2>1 DEF Held
  <2>3. Open' = Open \ {c}
    BY <1>1, <2>1 DEF Open, HasReservation
  <2>4. QED
    BY <1>1, <2>2, <2>3 DEF Promise!Close
<1>4. ASSUME /\ \A d \in Callers : pc'[d] # pc[d] =>
                    pc[d] \notin {"holding", "released"}
                        /\ pc'[d] \notin {"holding", "released"}
             /\ \A d \in Callers : pc[d] = "holding" => req'[d] = req[d]
             /\ committed' = committed
      PROVE  Held' = Held /\ Open' = Open
  <2>1. Held' = Held
    BY <1>1, <1>4 DEF Held
  <2>2. Open' = Open
    BY <1>1, <1>4 DEF Open, HasReservation
  <2>3. QED
    BY <2>1, <2>2
<1>5. CASE \E r \in Requests : Begin(c, r)
  BY <1>1, <1>4, <1>5 DEF Begin
<1>6. CASE CheckCtx(c) \/ Refused(c) \/ Wake(c) \/ WakeDone(c)
  BY <1>1, <1>4, <1>6 DEF CheckCtx, Refused, Wake, WakeDone
<1>7. CASE UNCHANGED <<pc, req, committed>>
  BY <1>1, <1>4, <1>7
<1>8. QED
  BY <1>2, <1>3, <1>5, <1>6, <1>7
     DEF LOther, CommitAgain, ReleaseAgain, CtxEnd, vars

\* The limiter implements its promise, for any callers and limits: what it
\* admits was accrued and its slots were free, a reservation is reconciled
\* at most once and its slots are freed once (Reserve, Commit, Release).
THEOREM PromiseIsKept == LSpec => KeepsPromise
<1> DEFINE Inv == LedgerInv /\ CommittedIsReserved /\ SlotsInv
<1>1. LInit => CommittedIsReserved /\ SlotsInv
  BY SlotsInit DEF LInit, Init, CommittedIsReserved
<1>2. LedgerInv /\ CommittedIsReserved /\ SlotsInv /\ [LNext]_lvars
          => CommittedIsReserved' /\ SlotsInv'
  <2>1. [LNext]_lvars => [Next]_vars
    BY DEF LNext, Next, lvars, LAcquire, LCommit, LTick, LOther, Reserving
  <2>2. QED
    BY <2>1, CommittedStep, SlotsStep DEF LedgerInv
<1>3. LInit => Promise!Init
  BY DEF LInit, Init, Promise!Init, Held, Open, HasReservation
<1>4. Inv /\ Inv' /\ [LNext]_lvars => [Promise!Next]_<<now, spent, Held, Open>>
  <2> SUFFICES ASSUME Inv, Inv', [LNext]_lvars
               PROVE  Promise!Next \/ UNCHANGED <<now, spent, Held, Open>>
    OBVIOUS
  <2>1. ASSUME NEW c \in Callers, LAcquire(c) PROVE Promise!Next
    <3>1. req[c].slots \in {r.slots : r \in Requests}
      BY DEF LedgerInv, TypeOK, CallersTypeOK
    <3>2. QED
      BY <2>1, <3>1, AcquireKeepsPromise DEF Promise!Next
  <2>2. ASSUME NEW c \in Callers, NEW used \in Usages, LCommit(c, used)
        PROVE  Promise!Next
    BY <2>2, CommitKeepsPromise DEF Promise!Next
  <2>3. ASSUME NEW c \in Callers, LOther(c)
        PROVE  Promise!Next \/ UNCHANGED <<now, spent, Held, Open>>
    BY <2>3, OtherKeepsPromise DEF Promise!Next
  <2>4. CASE LTick
    BY <2>4, TickKeepsPromise DEF Promise!Next
  <2>5. CASE UNCHANGED lvars
    BY <2>5 DEF lvars, vars, shared, Held, Open, HasReservation
  <2>6. QED
    BY <2>1, <2>2, <2>3, <2>4, <2>5 DEF LNext
<1>5. QED
  BY <1>1, <1>2, <1>3, <1>4, LedgerHolds, PTL
     DEF LSpec, KeepsPromise, Promise!Spec, Promise!avars
=============================================================================
