---------------------------- MODULE LimiterLedger ----------------------------
(***************************************************************************)
(* The in-memory limiter with two history variables, the time and the net  *)
(* tokens charged since the beginning, and the promise of module Admission *)
(* it is shown to keep.                                                    *)
(***************************************************************************)
EXTENDS Limiter

CONSTANT MaxNow         \* bound: the clock stops here

VARIABLES now, spent

lvars == <<vars, now, spent>>

LInit == Init /\ now = 0 /\ spent = 0

Charge(tokens) == spent' = spent + (IF TokenLimited THEN tokens ELSE 0)

LAcquire(c) == Acquire(c) /\ Charge(req[c].tokens) /\ UNCHANGED now

LCommit(c, used) ==
    Commit(c, used) /\ Charge(used - req[c].tokens) /\ UNCHANGED now

LTick ==
    /\ now < MaxNow
    /\ Tick
    /\ now' = now + 1
    /\ UNCHANGED spent

\* Every other step charges nothing and takes no time.
LOther(c) ==
    /\ \/ \E r \in Requests : Begin(c, r)
       \/ CheckCtx(c) \/ Refused(c) \/ Wake(c) \/ WakeDone(c)
       \/ CommitAgain(c) \/ Release(c) \/ ReleaseAgain(c) \/ Forget(c)
       \/ \E how \in CtxEnds : CtxEnd(c, how)
    /\ UNCHANGED <<now, spent>>

LNext ==
    \/ \E c \in Callers :
          LAcquire(c) \/ LOther(c) \/ \E used \in Usages : LCommit(c, used)
    \/ LTick

LSpec == LInit /\ [][LNext]_lvars

-----------------------------------------------------------------------------

\* The budget: what has been charged, what is still available and what the
\* next refill will bring never exceed the initial capacity and what the
\* rate has accrued.  A refill applied twice, a commit settled against the
\* wrong timestamp or an estimate refunded twice would mint tokens
\* (refillLocked, tryAcquireLocked, Commit).
NeverMints ==
    TokenLimited =>
        RateDen * (spent + available) + carry + RateNum * sinceRefill
            <= RateDen * Capacity + RateNum * now

\* The limiter keeps the promise of module Admission: no admission beyond
\* the accrued budget or the free slots, one reconciliation and one release
\* for each reservation.
Held == [c \in Callers |-> IF pc[c] = "holding" THEN req[c].slots ELSE 0]
Open == {c \in Callers : HasReservation(c) /\ ~committed[c]}

Promise == INSTANCE Admission WITH
    Clients <- Callers,
    SlotCounts <- {r.slots : r \in Requests},
    MayLapse <- FALSE,
    clock <- now,
    held <- Held,
    open <- Open

KeepsPromise == Promise!Spec
=============================================================================
