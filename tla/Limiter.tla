------------------------------- MODULE Limiter -------------------------------
(***************************************************************************)
(* InMemoryLimiter of llms/ratelimit/memory.go: a token bucket refilled    *)
(* lazily from the clock and a concurrency semaphore, with a Reserve that  *)
(* polls until capacity is available, MaxWait is over or the context ends. *)
(*                                                                         *)
(* Reserve holds the mutex only for one refill-and-try; between its check  *)
(* of the context and that try other callers, the clock and the context    *)
(* itself move.  Times are kept as the differences the code computes from  *)
(* them, so they need no bound: how long ago the bucket was refilled, how  *)
(* long a Reserve has waited, how long its timer has left.  Token          *)
(* arithmetic is exact: the fractional carry is counted in 1/RateDen of a  *)
(* token where the code has a float64, and no balance comes near the       *)
(* saturation of satint.                                                   *)
(***************************************************************************)
EXTENDS Integers, FiniteSets, Errors

CONSTANTS
    Callers,
    Capacity,           \* Limits.Capacity(): 0 when tokens are not limited
    MaxConcurrency,     \* 0 when slots are not limited
    RateNum, RateDen,   \* refill: RateNum tokens every RateDen ticks
    MaxWait,            \* 0: wait until the context is done
    PollInterval,
    Requests,           \* estimates: records [tokens, slots]
    Usages,             \* what effectiveTokens may compute at Commit
    CtxEnds,            \* the ways a context may end
    MaxGap              \* bound: refill times are not told apart beyond this
                        \* age, by which any bucket is full again

ASSUME LimitsAssumption ==
    /\ Capacity \in Nat
    /\ MaxConcurrency \in Nat
    /\ RateNum \in Nat \ {0}
    /\ RateDen \in Nat \ {0}

ASSUME WaitAssumption ==
    MaxWait \in Nat /\ PollInterval \in Nat \ {0} /\ MaxGap \in Nat \ {0}

\* UsageUnits.Tokens is never negative, UsageUnits.Slots at least one, and
\* effectiveTokens counts negative fields as zero.
ASSUME UnitsAssumption ==
    /\ Requests \subseteq [tokens : Nat, slots : Nat \ {0}]
    /\ Requests # {}
    /\ Usages \subseteq Nat
    /\ CtxEnds \subseteq {"canceled", "deadline"}

VARIABLES
    sinceRefill,    \* clock() - lastRefill
    available, carry, active,
    pc, req,        \* where each caller is, and its estimate
    waited,         \* clock() - start of its Reserve, up to MaxWait
    sleepLeft,      \* what its timer has left
    ctx, result,
    committed       \* whether its reservation has been reconciled

shared == <<sinceRefill, available, carry, active>>
vars == <<shared, pc, req, waited, sleepLeft, ctx, result, committed>>

TokenLimited == Capacity > 0
SlotLimited == MaxConcurrency > 0

Waiting == {"checking", "acquiring", "sleeping"}
PCs == Waiting \cup {"idle", "holding", "released", "rejected"}

BucketTypeOK ==
    /\ sinceRefill \in 0..MaxGap
    /\ available \in Int
    /\ available <= Capacity
    /\ carry \in 0..RateDen - 1
    /\ active \in Nat

CallersTypeOK ==
    /\ pc \in [Callers -> PCs]
    /\ req \in [Callers -> Requests]
    /\ waited \in [Callers -> 0..MaxWait]
    /\ sleepLeft \in [Callers -> 0..PollInterval]
    /\ ctx \in [Callers -> {"live", "canceled", "deadline"}]
    /\ result \in [Callers -> Results]
    /\ committed \in [Callers -> BOOLEAN]

TypeOK == BucketTypeOK /\ CallersTypeOK

AnyRequest == CHOOSE r \in Requests : TRUE

Init ==
    /\ sinceRefill = 0
    /\ available = Capacity
    /\ carry = 0
    /\ active = 0
    /\ pc = [c \in Callers |-> "idle"]
    /\ req = [c \in Callers |-> AnyRequest]
    /\ waited = [c \in Callers |-> 0]
    /\ sleepLeft = [c \in Callers |-> 0]
    /\ ctx = [c \in Callers |-> "live"]
    /\ result = [c \in Callers |-> NoError]
    /\ committed = [c \in Callers |-> FALSE]

-----------------------------------------------------------------------------
(***************************************************************************)
(* refillLocked: whole tokens accrued since the last refill, capped at the *)
(* capacity; the fraction is carried, and dropped when the bucket fills.   *)
(***************************************************************************)

Accrued == carry + RateNum * sinceRefill

Whole == Accrued \div RateDen

Fills == Whole >= 1 /\ available + Whole >= Capacity

Refills == TokenLimited /\ sinceRefill > 0

RefilledTokens ==
    IF ~Refills THEN available
    ELSE IF Fills THEN Capacity
    ELSE available + Whole

RefilledCarry ==
    IF ~Refills THEN carry
    ELSE IF Fills THEN 0
    ELSE Accrued % RateDen

RefillLocked(tokens) ==
    /\ available' = tokens
    /\ carry' = RefilledCarry
    /\ sinceRefill' = 0

-----------------------------------------------------------------------------
(***************************************************************************)
(* Reserve                                                                 *)
(***************************************************************************)

Impossible(r) ==
    \/ TokenLimited /\ r.tokens > Capacity
    \/ SlotLimited /\ r.slots > MaxConcurrency

Fits(r) ==
    /\ TokenLimited => RefilledTokens >= r.tokens
    /\ SlotLimited => r.slots <= MaxConcurrency - active

Goto(c, where) == pc' = [pc EXCEPT ![c] = where]

\* Reserve returns: its locals go out of scope, and the waiter's context with
\* them.
Leave(c) ==
    /\ waited' = [waited EXCEPT ![c] = 0]
    /\ sleepLeft' = [sleepLeft EXCEPT ![c] = 0]
    /\ ctx' = [ctx EXCEPT ![c] = "live"]

Fail(c, err) ==
    /\ Goto(c, "rejected")
    /\ result' = [result EXCEPT ![c] = err]
    /\ Leave(c)

Begin(c, r) ==
    /\ pc[c] = "idle"
    /\ req' = [req EXCEPT ![c] = r]
    /\ IF Impossible(r)
       THEN Fail(c, LimitErr(TRUE, "none"))
       ELSE Goto(c, "checking") /\ UNCHANGED <<waited, sleepLeft, ctx, result>>
    /\ UNCHANGED <<shared, committed>>

\* Mutant: the loop relies on the select to see that the context is done.
CheckCtxIgnored(c) ==
    /\ pc[c] = "checking"
    /\ Goto(c, "acquiring")
    /\ UNCHANGED <<shared, req, waited, sleepLeft, ctx, result, committed>>

\* ctx.Err() at the top of the loop, before the mutex.
CheckCtx(c) ==
    /\ pc[c] = "checking"
    /\ IF ctx[c] = "live"
       THEN Goto(c, "acquiring") /\ UNCHANGED <<waited, sleepLeft, ctx, result>>
       ELSE Fail(c, LimitErr(FALSE, ctx[c]))
    /\ UNCHANGED <<shared, req, committed>>

\* Under the mutex: refill, and take the tokens and the slots when both fit.
Acquire(c) ==
    /\ pc[c] = "acquiring"
    /\ Fits(req[c])
    /\ RefillLocked(IF TokenLimited THEN RefilledTokens - req[c].tokens
                                    ELSE RefilledTokens)
    /\ active' = active + req[c].slots
    /\ Goto(c, "holding")
    /\ Leave(c)
    /\ UNCHANGED <<req, result, committed>>

\* Mutant: the wait is measured from its last attempt.
WaitLeftAfresh(c) == MaxWait + 0 * waited[c]

WaitLeft(c) == MaxWait - waited[c]

\* Mutant: the last sleep is not cut to what is left.
SleepForUncut(c) == PollInterval

\* A poll interval that never oversleeps the budget.
SleepFor(c) ==
    IF MaxWait > 0 /\ WaitLeft(c) < PollInterval THEN WaitLeft(c) ELSE PollInterval

\* No capacity: give up when MaxWait is over, otherwise sleep.
Refused(c) ==
    /\ pc[c] = "acquiring"
    /\ ~Fits(req[c])
    /\ RefillLocked(RefilledTokens)
    /\ IF MaxWait > 0 /\ WaitLeft(c) <= 0
       THEN Fail(c, LimitErr(FALSE, "none"))
       ELSE /\ Goto(c, "sleeping")
            /\ sleepLeft' = [sleepLeft EXCEPT ![c] = SleepFor(c)]
            /\ UNCHANGED <<waited, ctx, result>>
    /\ UNCHANGED <<active, req, committed>>

\* The two cases of the select: when both are ready either may be taken.
Wake(c) ==
    /\ pc[c] = "sleeping"
    /\ sleepLeft[c] = 0
    /\ Goto(c, "checking")
    /\ UNCHANGED <<shared, req, waited, sleepLeft, ctx, result, committed>>

WakeDone(c) ==
    /\ pc[c] = "sleeping"
    /\ ctx[c] # "live"
    /\ Fail(c, LimitErr(FALSE, ctx[c]))
    /\ UNCHANGED <<shared, req, committed>>

-----------------------------------------------------------------------------
(***************************************************************************)
(* The reservation                                                         *)
(***************************************************************************)

HasReservation(c) == pc[c] \in {"holding", "released"}

\* Mutant: the refill is credited and its timestamp is not moved.
ReconcileKeepsTimestamp(c, used) ==
    IF TokenLimited
    THEN LET left == RefilledTokens - (used - req[c].tokens)
         IN  /\ available' = (IF left < Capacity THEN left ELSE Capacity)
             /\ UNCHANGED <<sinceRefill, carry>>
    ELSE UNCHANGED <<sinceRefill, available, carry>>

\* Refill first, against the old timestamp, then charge the difference
\* between the actual usage and the estimate; a refund stops at capacity.
Reconcile(c, used) ==
    IF TokenLimited
    THEN LET left == RefilledTokens - (used - req[c].tokens)
         IN  RefillLocked(IF left < Capacity THEN left ELSE Capacity)
    ELSE UNCHANGED <<sinceRefill, available, carry>>

\* Mutant: Commit is not once only.
CommitUnguarded(c, used) ==
    /\ HasReservation(c)
    /\ committed' = [committed EXCEPT ![c] = TRUE]
    /\ Reconcile(c, used)
    /\ UNCHANGED <<active, pc, req, waited, sleepLeft, ctx, result>>

Commit(c, used) ==
    /\ HasReservation(c)
    /\ ~committed[c]
    /\ committed' = [committed EXCEPT ![c] = TRUE]
    /\ Reconcile(c, used)
    /\ UNCHANGED <<active, pc, req, waited, sleepLeft, ctx, result>>

CommitAgain(c) == HasReservation(c) /\ committed[c] /\ UNCHANGED vars

\* Mutant: a slot is not given back.
AfterReleaseLeaks(slots) == IF active > slots THEN active - slots + 1 ELSE active

AfterRelease(slots) == IF active > slots THEN active - slots ELSE 0

Release(c) ==
    /\ pc[c] = "holding"
    /\ active' = AfterRelease(req[c].slots)
    /\ Goto(c, "released")
    /\ UNCHANGED <<sinceRefill, available, carry, req, waited, sleepLeft, ctx,
                   result, committed>>

\* Mutant: Release is not idempotent.
ReleaseAgainFrees(c) ==
    /\ pc[c] = "released"
    /\ active' = AfterRelease(req[c].slots)
    /\ UNCHANGED <<sinceRefill, available, carry, pc, req, waited, sleepLeft,
                   ctx, result, committed>>

ReleaseAgain(c) == pc[c] = "released" /\ UNCHANGED vars

\* The caller drops the error or the used reservation.
Forget(c) ==
    /\ pc[c] \in {"rejected", "released"}
    /\ Goto(c, "idle")
    /\ result' = [result EXCEPT ![c] = NoError]
    /\ req' = [req EXCEPT ![c] = AnyRequest]
    /\ committed' = [committed EXCEPT ![c] = FALSE]
    /\ UNCHANGED <<shared, waited, sleepLeft, ctx>>

-----------------------------------------------------------------------------

CtxEnd(c, how) ==
    /\ pc[c] \in Waiting
    /\ ctx[c] = "live"
    /\ ctx' = [ctx EXCEPT ![c] = how]
    /\ UNCHANGED <<shared, pc, req, waited, sleepLeft, result, committed>>

Tick ==
    /\ sinceRefill' = (IF TokenLimited /\ sinceRefill < MaxGap
                       THEN sinceRefill + 1 ELSE sinceRefill)
    /\ waited' = [c \in Callers |->
                     IF pc[c] \in Waiting /\ waited[c] < MaxWait
                     THEN waited[c] + 1 ELSE waited[c]]
    /\ sleepLeft' = [c \in Callers |->
                     IF sleepLeft[c] > 0 THEN sleepLeft[c] - 1 ELSE 0]
    /\ UNCHANGED <<available, carry, active, pc, req, ctx, result, committed>>

Reserving(c) == CheckCtx(c) \/ Acquire(c) \/ Refused(c) \/ Wake(c) \/ WakeDone(c)

Next ==
    \/ \E c \in Callers :
          \/ \E r \in Requests : Begin(c, r)
          \/ Reserving(c)
          \/ \E used \in Usages : Commit(c, used)
          \/ CommitAgain(c)
          \/ Release(c)
          \/ ReleaseAgain(c)
          \/ Forget(c)
          \/ \E how \in CtxEnds : CtxEnd(c, how)
    \/ Tick

Spec == Init /\ [][Next]_vars

\* A Reserve keeps running, time passes, and a holder releases: reserved()
\* defers Release on a context that survives cancellation.
Fairness ==
    /\ WF_vars(Tick)
    /\ \A c \in Callers :
          WF_vars(Reserving(c)) /\ WF_vars(Release(c))

FairSpec == Spec /\ Fairness

-----------------------------------------------------------------------------
(***************************************************************************)
(* Properties                                                              *)
(***************************************************************************)

\* The slots of the reservations that are held, one by one.
SlotsOf(c) == {c} \X (1 .. req[c].slots)
HeldSlots == UNION {SlotsOf(c) : c \in {d \in Callers : pc[d] = "holding"}}

\* The counter of active requests is exactly the slots of the reservations
\* that are held, and stays within MaxConcurrency, which tryAcquireLocked
\* relies on to compute the free slots without overflow.
SlotsAccounted ==
    /\ active = Cardinality(HeldSlots)
    /\ SlotLimited => active <= MaxConcurrency

\* MaxWait is measured over the whole Reserve: however often it has polled,
\* and whichever other callers took the capacity in between, no timer is set
\* past the end of the wait (Reserve shortens the last sleep).
NeverOversleeps ==
    \A c \in Callers :
        MaxWait > 0 /\ pc[c] = "sleeping" => waited[c] + sleepLeft[c] <= MaxWait

\* Whatever MaxWait is, Reserve returns once its context ends.
EndedCtxReturns ==
    \A c \in Callers :
        (pc[c] \in Waiting /\ ctx[c] # "live") ~> pc[c] \notin Waiting

\* Capacity never leaks: while contexts stay live, callers do not wait
\* forever with nobody admitted.  (One caller may starve: Reserve has no
\* queue.)
SomeoneIsAdmitted ==
    \/ []<><<\E c \in Callers : Acquire(c)>>_vars
    \/ []<>(\A c \in Callers : pc[c] \notin Waiting)
    \/ []<><<\E c \in Callers, how \in CtxEnds : CtxEnd(c, how)>>_vars
=============================================================================
