------------------------------- MODULE PgLedger -------------------------------
(***************************************************************************)
(* The distributed bucket with two history variables, the time and the net *)
(* tokens charged since the beginning, and the promise of module Admission *)
(* it is shown to keep while its limits do not change.                     *)
(***************************************************************************)
EXTENDS PgBucket

CONSTANT MaxNow         \* bound: the clock stops here

VARIABLES now, spent

pvars == <<vars, now, spent>>

LInit == Init /\ now = 0 /\ spent = 0

Charge(amount) == spent' = spent + amount

LAdmit(c) ==
    /\ Admit(c)
    /\ Charge(IF TokenLimited(limits) THEN tokens[c] ELSE 0)
    /\ UNCHANGED now

LAdjust(c, actual) ==
    /\ Adjust(c, actual)
    /\ Charge(IF charged[c] /\ TokenLimited(limits) THEN actual - tokens[c] ELSE 0)
    /\ UNCHANGED now

LTick ==
    /\ now < MaxNow
    /\ Tick
    /\ now' = now + 1
    /\ UNCHANGED spent

\* Every other step charges nothing and takes no time.
LOther(c) ==
    /\ \/ \E t \in Estimates : Begin(c, t)
       \/ GiveUp(c) \/ Wake(c) \/ Lock(c) \/ NoFit(c) \/ RejectForGood(c) \/ Abort(c)
       \/ Reply(c) \/ ReplyLost(c)
       \/ Renew(c) \/ RenewFails(c) \/ RenewFindsLost(c) \/ HardCap(c)
       \/ AdjustFails(c)
       \/ \E answered \in BOOLEAN : Release(c, answered)
       \/ ReleaseFails(c) \/ Crash(c) \/ Forget(c)
    /\ UNCHANGED <<now, spent>>

LNext ==
    \/ \E c \in Callers :
          LAdmit(c) \/ LOther(c) \/ \E actual \in Usages : LAdjust(c, actual)
    \/ LTick

LSpec == LInit /\ [][LNext]_pvars

-----------------------------------------------------------------------------

\* The budget: what all callers together have been charged, what the row
\* still offers and what the next refill will bring never exceed the initial
\* balance and what the rate has accrued.  Time between the sampling and the
\* commit of a transaction counts once, not twice (tryAcquire, Adjust).
NeverMints ==
    TokenLimited(InitialLimits) =>
        RateDen * spent + balance + InitialLimits.rate * sinceRefill
            <= Full(InitialLimits) + InitialLimits.rate * now

\* A caller's slot is held while its row is live, whatever the caller knows.
Held == [c \in Callers |-> IF c \in Live THEN 1 ELSE 0]
Open == {c \in Callers : pc[c] \in {"replying", "holding", "released"} /\ ~adjusted[c]}

\* The bucket keeps the promise of module Admission, with slots that lapse:
\* no admission beyond the accrued budget or the live leases, at most one
\* reconciliation each.
Promise == INSTANCE Admission WITH
    Clients <- Callers,
    Capacity <- InitialLimits.capacity,
    MaxConcurrency <- InitialLimits.maxc,
    RateNum <- InitialLimits.rate,
    SlotCounts <- {1},
    MayLapse <- TRUE,
    clock <- now,
    held <- Held,
    open <- Open

KeepsPromise == Promise!Spec
===============================================================================
