------------------------------- MODULE PgBucket -------------------------------
(***************************************************************************)
(* The distributed bucket of bucket/postgres: one bucket row and its lease *)
(* rows in a database shared by any number of processes.                   *)
(*                                                                         *)
(* An acquire attempt, an Adjust and an Ensure are transactions that hold  *)
(* the row lock of the bucket.  Renewal and Release are single statements  *)
(* on a lease row and take no such lock, so they fall between the moment a *)
(* transaction samples the time and the moment it commits.  A statement    *)
(* may fail, a commit may succeed and its answer be lost, and a holder may *)
(* crash; a lease row then lives on until it expires.                      *)
(*                                                                         *)
(* Each caller stands for one lease at a time.  Times are kept relative to *)
(* the clock: a lease row has left ticks to live, its cap capLeft, and the *)
(* open transaction sampled its time txAge ticks ago.  The balance, a      *)
(* double in the database, is counted in 1/RateDen of a token.             *)
(***************************************************************************)
EXTENDS Integers, FiniteSets

CONSTANTS
    Callers,
    InitialLimits,      \* [capacity, rate, maxc]; 0 is unlimited, and the
    LimitChoices,       \* rate is in 1/RateDen tokens a tick.  Ensure may
    RateDen,            \* install any of LimitChoices
    Estimates, Usages,  \* tokens asked of Acquire and told to Adjust
    LeaseTTL,
    MaxLeaseDuration,
    OpTimeout,          \* an open transaction is over by then
    MayGiveUp,          \* waits are bounded: contexts end, MaxWait is set
    MaxGap              \* bound: refill times are not told apart beyond this
                        \* age, by which any bucket is full again

Limits == [capacity : Nat, rate : Nat, maxc : Nat]

\* Config.validate: MaxLeaseDuration exceeds LeaseTTL, and LeaseTTL/3 is a
\* positive interval.
ASSUME ConfigAssumption ==
    /\ LeaseTTL \in Nat /\ LeaseTTL >= 3
    /\ MaxLeaseDuration \in Nat /\ MaxLeaseDuration > LeaseTTL
    /\ OpTimeout \in Nat \ {0}
    /\ MaxGap \in Nat /\ MaxGap > OpTimeout
    /\ MayGiveUp \in BOOLEAN
    /\ RateDen \in Nat \ {0}

ASSUME LimitsAssumption ==
    /\ InitialLimits \in Limits
    /\ LimitChoices \subseteq Limits
    /\ Estimates \subseteq Nat
    /\ Usages \subseteq Nat

ASSUME CallersAssumption == IsFiniteSet(Callers)

RenewInterval == LeaseTTL \div 3

VARIABLES
    limits, balance, sinceRefill,   \* the bucket row
    rows, left, capLeft,            \* the lease rows
    locker, txAge,                  \* the transaction holding the row lock
    pc, tokens,                     \* each caller's Acquire and its estimate
    charged, adjusted,              \* the lease: tokenCharged, adjusted
    lost,                           \* its Lost channel is closed
    hardLeft, renewLeft, due        \* its MaxLeaseDuration timer, its renewal
                                    \* ticker and whether a tick is pending

bucketRow == <<limits, balance, sinceRefill>>
leaseRows == <<rows, left, capLeft>>
tx == <<locker, txAge>>
timers == <<hardLeft, renewLeft, due>>
lease == <<charged, adjusted, lost, timers>>
vars == <<bucketRow, leaseRows, tx, pc, tokens, lease>>

\* locker is the set of the transactions that hold the row lock.
NoOne == {}

PCs == {"idle", "trying", "locked", "sleeping", "replying", "holding",
        "released", "crashed"}

BucketTypeOK ==
    /\ limits \in Limits
    /\ balance \in Int
    /\ sinceRefill \in 0..MaxGap

RowsTypeOK ==
    /\ rows \subseteq Callers
    /\ left \in [Callers -> -OpTimeout..LeaseTTL]
    /\ capLeft \in [Callers -> 0..MaxLeaseDuration]

TxTypeOK ==
    /\ locker \in {NoOne} \cup {{c} : c \in Callers}
    /\ txAge \in 0..OpTimeout

CallersTypeOK ==
    /\ pc \in [Callers -> PCs]
    /\ tokens \in [Callers -> Estimates \cup {0}]
    /\ charged \in [Callers -> BOOLEAN]
    /\ adjusted \in [Callers -> BOOLEAN]
    /\ lost \in [Callers -> BOOLEAN]

TimersTypeOK ==
    /\ hardLeft \in [Callers -> 0..MaxLeaseDuration]
    /\ renewLeft \in [Callers -> 0..RenewInterval]
    /\ due \in [Callers -> BOOLEAN]

TypeOK == BucketTypeOK /\ RowsTypeOK /\ TxTypeOK /\ CallersTypeOK /\ TimersTypeOK

Full(l) == l.capacity * RateDen

\* Ensure has created the bucket, with a full balance.
Init ==
    /\ limits = InitialLimits
    /\ balance = Full(InitialLimits)
    /\ sinceRefill = 0
    /\ rows = {}
    /\ left = [c \in Callers |-> 0]
    /\ capLeft = [c \in Callers |-> 0]
    /\ locker = NoOne
    /\ txAge = 0
    /\ pc = [c \in Callers |-> "idle"]
    /\ tokens = [c \in Callers |-> 0]
    /\ charged = [c \in Callers |-> FALSE]
    /\ adjusted = [c \in Callers |-> FALSE]
    /\ lost = [c \in Callers |-> FALSE]
    /\ hardLeft = [c \in Callers |-> 0]
    /\ renewLeft = [c \in Callers |-> 0]
    /\ due = [c \in Callers |-> FALSE]

\* expires_at > clock_timestamp().
Live == {c \in rows : left[c] > 0}

-----------------------------------------------------------------------------
(***************************************************************************)
(* Token arithmetic: bucket/internal/core                                  *)
(***************************************************************************)

TokenLimited(l) == l.capacity > 0
SlotLimited(l) == l.maxc > 0

AtMost(x, y) == IF x < y THEN x ELSE y

\* Mutant: the refill runs to the commit and is stamped with the sampled time.
SettledToCommit ==
    IF TokenLimited(limits)
    THEN AtMost(balance + limits.rate * sinceRefill, Full(limits))
    ELSE balance

\* core.Settle, from the last refill to a time txAge ticks ago.
Settled ==
    IF TokenLimited(limits)
    THEN AtMost(balance + limits.rate * (sinceRefill - txAge), Full(limits))
    ELSE balance

\* Mutant: a refund is not cut to the capacity.
AdjustedUncut(settled, estimate, actual) == settled - (actual - estimate) * RateDen

\* core.Adjusted.
Adjusted(settled, estimate, actual) ==
    AtMost(settled - (actual - estimate) * RateDen, Full(limits))

Impossible(t) == TokenLimited(limits) /\ t > limits.capacity

-----------------------------------------------------------------------------
(***************************************************************************)
(* Acquire                                                                 *)
(***************************************************************************)

Goto(c, where) == pc' = [pc EXCEPT ![c] = where]

\* Acquire returns an error.
Fail(c) ==
    /\ tokens' = [tokens EXCEPT ![c] = 0]
    /\ Goto(c, "idle")

\* Lease ids are fresh: a caller acquires again once its former row is gone
\* or has been expired for longer than any transaction can be open.
RowForgotten(c) == c \notin rows \/ left[c] = -OpTimeout

\* DELETE: only the given rows remain.
KeepRows(kept) ==
    /\ rows' = kept
    /\ left' = [c \in Callers |-> IF c \in kept THEN left[c] ELSE 0]
    /\ capLeft' = [c \in Callers |-> IF c \in kept THEN capLeft[c] ELSE 0]

Begin(c, t) ==
    /\ pc[c] = "idle"
    /\ RowForgotten(c)
    /\ KeepRows(rows \ {c})
    /\ tokens' = [tokens EXCEPT ![c] = t]
    /\ Goto(c, "trying")
    /\ UNCHANGED <<bucketRow, tx, lease>>

\* core.Wait: the context is done or MaxWait is over.
GiveUp(c) ==
    /\ MayGiveUp
    /\ pc[c] \in {"trying", "sleeping"}
    /\ Fail(c)
    /\ UNCHANGED <<bucketRow, leaseRows, tx, lease>>

Wake(c) ==
    /\ pc[c] = "sleeping"
    /\ Goto(c, "trying")
    /\ UNCHANGED <<bucketRow, leaseRows, tx, tokens, lease>>

\* lockRow: the row lock is granted, then the time is sampled.
Lock(c) ==
    /\ pc[c] = "trying"
    /\ locker = NoOne
    /\ locker' = {c}
    /\ txAge' = 0
    /\ Goto(c, "locked")
    /\ UNCHANGED <<bucketRow, leaseRows, tokens, lease>>

Unlock == locker' = NoOne /\ txAge' = 0

\* Mutant: expired rows are not reaped, and count.
UnreapedAll == rows

\* Mutant: rows are reaped by the age of the acquire, renewed or not.
UnreapedByAge == {c \in rows : capLeft[c] > MaxLeaseDuration - LeaseTTL}

\* The reap keeps the rows that had not expired at the sampled time.
Unreaped == {c \in rows : left[c] > -txAge}

\* Mutant: the comparison admits one too many.
FitsOneMore(t) ==
    /\ TokenLimited(limits) => Settled >= t * RateDen
    /\ SlotLimited(limits) => Cardinality(Unreaped) <= limits.maxc

\* Mutant: the slots are those of the limits the process started with.
FitsStaleLimits(t) ==
    /\ TokenLimited(limits) => Settled >= t * RateDen
    /\ SlotLimited(limits) => Cardinality(Unreaped) < InitialLimits.maxc

\* core.Fits, with the rows left after the reap.
Fits(t) ==
    /\ TokenLimited(limits) => Settled >= t * RateDen
    /\ SlotLimited(limits) => Cardinality(Unreaped) < limits.maxc

\* The transaction of an admitted attempt commits: the tokens are taken and
\* a lease row is inserted, stamped with the time of the insert.
Admit(c) ==
    /\ pc[c] = "locked"
    /\ ~Impossible(tokens[c])
    /\ Fits(tokens[c])
    /\ balance' = Settled - (IF TokenLimited(limits) THEN tokens[c] * RateDen ELSE 0)
    /\ sinceRefill' = txAge
    /\ rows' = Unreaped \cup {c}
    /\ left' = [d \in Callers |->
           IF d = c THEN LeaseTTL ELSE IF d \in Unreaped THEN left[d] ELSE 0]
    /\ capLeft' = [d \in Callers |->
           IF d = c THEN MaxLeaseDuration ELSE IF d \in Unreaped THEN capLeft[d] ELSE 0]
    /\ charged' = [charged EXCEPT ![c] = TokenLimited(limits)]
    /\ Unlock
    /\ Goto(c, "replying")
    /\ UNCHANGED <<limits, tokens, adjusted, lost, timers>>

\* No capacity: the reap and the refill persist all the same.
NoFit(c) ==
    /\ pc[c] = "locked"
    /\ ~Impossible(tokens[c])
    /\ ~Fits(tokens[c])
    /\ balance' = Settled
    /\ sinceRefill' = txAge
    /\ KeepRows(Unreaped)
    /\ Unlock
    /\ Goto(c, "sleeping")
    /\ UNCHANGED <<limits, tokens, lease>>

\* A request that can never fit leaves the row as it was.
RejectForGood(c) ==
    /\ pc[c] = "locked"
    /\ Impossible(tokens[c])
    /\ Unlock
    /\ Fail(c)
    /\ UNCHANGED <<bucketRow, leaseRows, lease>>

\* A statement fails, the context ends or OpTimeout is over: the transaction
\* rolls back.
Abort(c) ==
    /\ pc[c] = "locked"
    /\ Unlock
    /\ Fail(c)
    /\ UNCHANGED <<bucketRow, leaseRows, lease>>

TryAcquire(c) == Admit(c) \/ NoFit(c) \/ RejectForGood(c) \/ Abort(c)

\* The answer to the commit arrives: newLease starts the renewal.
Reply(c) ==
    /\ pc[c] = "replying"
    /\ hardLeft' = [hardLeft EXCEPT ![c] = MaxLeaseDuration]
    /\ renewLeft' = [renewLeft EXCEPT ![c] = RenewInterval]
    /\ Goto(c, "holding")
    /\ UNCHANGED <<bucketRow, leaseRows, tx, tokens, charged, adjusted, lost, due>>

\* The answer to the commit is lost: Acquire returns an error, but the lease
\* row is there and the tokens are charged.
ReplyLost(c) ==
    /\ pc[c] = "replying"
    /\ charged' = [charged EXCEPT ![c] = FALSE]
    /\ Fail(c)
    /\ UNCHANGED <<bucketRow, leaseRows, tx, adjusted, lost, timers>>

-----------------------------------------------------------------------------
(***************************************************************************)
(* The renewal goroutine of a lease                                        *)
(***************************************************************************)

\* It runs until Release or until it marked the lease lost.
Renewing(c) == pc[c] = "holding" /\ ~lost[c]

Stop(c) ==
    /\ hardLeft' = [hardLeft EXCEPT ![c] = 0]
    /\ renewLeft' = [renewLeft EXCEPT ![c] = 0]
    /\ due' = [due EXCEPT ![c] = FALSE]

MarkLost(c) == lost' = [lost EXCEPT ![c] = TRUE]

\* Mutant: a renewal adds to the time that is left.
ExtendedFurther(c) == AtMost(left[c] + LeaseTTL, capLeft[c])

Extended(c) == AtMost(LeaseTTL, capLeft[c])

\* A tick's UPDATE extends a live row.
Extend(c) ==
    /\ c \in Live
    /\ left' = [left EXCEPT ![c] = Extended(c)]
    /\ UNCHANGED <<rows, capLeft>>

\* renewOnce extended the row: whether its answer arrived or was lost, the
\* loop goes on.
Renew(c) ==
    /\ Renewing(c) /\ due[c]
    /\ Extend(c)
    /\ due' = [due EXCEPT ![c] = FALSE]
    /\ UNCHANGED <<bucketRow, tx, pc, tokens, charged, adjusted, lost, hardLeft, renewLeft>>

\* Mutant: a transient failure counts as the loss of the lease.
RenewFailsLoses(c) ==
    /\ Renewing(c) /\ due[c]
    /\ MarkLost(c)
    /\ Stop(c)
    /\ UNCHANGED <<bucketRow, leaseRows, tx, pc, tokens, charged, adjusted>>

\* The database was not reached or timed out: the next tick retries.
RenewFails(c) ==
    /\ Renewing(c) /\ due[c]
    /\ due' = [due EXCEPT ![c] = FALSE]
    /\ UNCHANGED <<bucketRow, leaseRows, tx, pc, tokens, charged, adjusted, lost, hardLeft, renewLeft>>

\* No live row matched.
RenewFindsLost(c) ==
    /\ Renewing(c) /\ due[c]
    /\ c \notin Live
    /\ MarkLost(c)
    /\ Stop(c)
    /\ UNCHANGED <<bucketRow, leaseRows, tx, pc, tokens, charged, adjusted>>

\* Mutant: the renewal ends and Lost stays open.
HardCapSilent(c) ==
    /\ Renewing(c) /\ hardLeft[c] = 0
    /\ Stop(c)
    /\ UNCHANGED <<bucketRow, leaseRows, tx, pc, tokens, charged, adjusted, lost>>

HardCap(c) ==
    /\ Renewing(c) /\ hardLeft[c] = 0
    /\ MarkLost(c)
    /\ Stop(c)
    /\ UNCHANGED <<bucketRow, leaseRows, tx, pc, tokens, charged, adjusted>>

-----------------------------------------------------------------------------
(***************************************************************************)
(* Adjust and Release, before or after one another                         *)
(***************************************************************************)

\* Mutant: the flag is not consulted.
AdjustUnguarded(c, actual) ==
    /\ pc[c] \in {"holding", "released"}
    /\ locker = NoOne
    /\ adjusted' = [adjusted EXCEPT ![c] = TRUE]
    /\ balance' = Adjusted(Settled, tokens[c], actual) /\ sinceRefill' = 0
    /\ UNCHANGED <<limits, leaseRows, tx, pc, tokens, charged, lost, timers>>

\* The flag is set first; then a transaction settles the balance under the
\* limits of now.
Adjust(c, actual) ==
    /\ pc[c] \in {"holding", "released"}
    /\ ~adjusted[c]
    /\ charged[c] => locker = NoOne
    /\ adjusted' = [adjusted EXCEPT ![c] = TRUE]
    /\ IF charged[c] /\ TokenLimited(limits)
       THEN balance' = Adjusted(Settled, tokens[c], actual) /\ sinceRefill' = 0
       ELSE UNCHANGED <<balance, sinceRefill>>
    /\ UNCHANGED <<limits, leaseRows, tx, pc, tokens, charged, lost, timers>>

\* The transaction fails: the call is not retried.
AdjustFails(c) ==
    /\ pc[c] \in {"holding", "released"}
    /\ ~adjusted[c]
    /\ charged[c]
    /\ adjusted' = [adjusted EXCEPT ![c] = TRUE]
    /\ UNCHANGED <<bucketRow, leaseRows, tx, pc, tokens, charged, lost, timers>>

\* The row is deleted; a row that was gone or had expired means the lease
\* was lost.  An answer that is lost leaves the lease unmarked.
Release(c, answered) ==
    /\ pc[c] = "holding"
    /\ Stop(c)
    /\ KeepRows(rows \ {c})
    /\ lost' = [lost EXCEPT ![c] = @ \/ (answered /\ c \notin Live)]
    /\ Goto(c, "released")
    /\ UNCHANGED <<bucketRow, tx, tokens, charged, adjusted>>

\* The row stays until it expires.
ReleaseFails(c) ==
    /\ pc[c] = "holding"
    /\ Stop(c)
    /\ Goto(c, "released")
    /\ UNCHANGED <<bucketRow, leaseRows, tx, tokens, charged, adjusted, lost>>

\* The process dies while it holds a lease.  (If it dies earlier, its open
\* transaction is an Abort, a committed one a ReplyLost.)
Crash(c) ==
    /\ pc[c] = "holding"
    /\ Stop(c)
    /\ Goto(c, "crashed")
    /\ UNCHANGED <<bucketRow, leaseRows, tx, tokens, charged, adjusted, lost>>

\* The caller drops its lease, or comes back after a crash.
Forget(c) ==
    /\ pc[c] \in {"released", "crashed"}
    /\ c \notin Live
    /\ tokens' = [tokens EXCEPT ![c] = 0]
    /\ charged' = [charged EXCEPT ![c] = FALSE]
    /\ adjusted' = [adjusted EXCEPT ![c] = FALSE]
    /\ lost' = [lost EXCEPT ![c] = FALSE]
    /\ Goto(c, "idle")
    /\ UNCHANGED <<bucketRow, leaseRows, tx, timers>>

-----------------------------------------------------------------------------

\* newBalance, from a balance settled under the old limits.
NewBalance(next) ==
    IF ~TokenLimited(next) THEN 0
    ELSE IF ~TokenLimited(limits) THEN Full(next)
    ELSE AtMost(Settled, Full(next))

\* Ensure with overwrite.
Ensure(next) ==
    /\ locker = NoOne
    /\ limits' = next
    /\ balance' = NewBalance(next)
    /\ sinceRefill' = 0
    /\ UNCHANGED <<leaseRows, tx, pc, tokens, lease>>

Down(f, floor) == [c \in Callers |-> IF f[c] > floor THEN f[c] - 1 ELSE f[c]]

\* The ticker's period is fixed; a tick nobody consumed is dropped.
TickTimers ==
    /\ hardLeft' = Down(hardLeft, 0)
    /\ due' = [c \in Callers |-> due[c] \/ renewLeft[c] = 1]
    /\ renewLeft' = [c \in Callers |->
           IF renewLeft[c] = 1 THEN RenewInterval ELSE renewLeft[c] - (IF renewLeft[c] > 0 THEN 1 ELSE 0)]

Tick ==
    /\ locker # NoOne => txAge < OpTimeout
    /\ txAge' = IF locker = NoOne THEN 0 ELSE txAge + 1
    /\ sinceRefill' = AtMost(sinceRefill + 1, MaxGap)
    /\ left' = [c \in Callers |-> IF c \in rows /\ left[c] > -OpTimeout THEN left[c] - 1 ELSE left[c]]
    /\ capLeft' = Down(capLeft, 0)
    /\ TickTimers
    /\ UNCHANGED <<limits, balance, rows, locker, pc, tokens, charged, adjusted, lost>>

Step(c) ==
    \/ \E t \in Estimates : Begin(c, t)
    \/ GiveUp(c) \/ Wake(c) \/ Lock(c) \/ TryAcquire(c) \/ Reply(c) \/ ReplyLost(c)
    \/ Renew(c) \/ RenewFails(c) \/ RenewFindsLost(c) \/ HardCap(c)
    \/ \E actual \in Usages : Adjust(c, actual)
    \/ AdjustFails(c)
    \/ \E answered \in BOOLEAN : Release(c, answered)
    \/ ReleaseFails(c) \/ Crash(c) \/ Forget(c)

Next == Tick \/ (\E l \in LimitChoices : Ensure(l)) \/ \E c \in Callers : Step(c)

Spec == Init /\ [][Next]_vars

\* Time passes, timers fire, a transaction ends (at the latest by OpTimeout),
\* its answer arrives or is lost, and row locks are granted in the order they
\* were asked for.  Nothing is assumed of the holders.
FairSpec ==
    /\ Spec
    /\ WF_vars(Tick)
    /\ \A c \in Callers :
          /\ WF_vars(HardCap(c))
          /\ WF_vars(TryAcquire(c))
          /\ WF_vars(Reply(c) \/ ReplyLost(c))
          /\ WF_vars(Wake(c))
          /\ SF_vars(Lock(c))

-----------------------------------------------------------------------------

\* While no one changes the limits, no more leases are live than slots: a row
\* that an admission did not count, because it had expired at the time the
\* transaction sampled, is never brought back by a renewal (tryAcquire,
\* renewOnce).
LiveWithinLimit ==
    SlotLimited(limits) /\ LimitChoices = {} => Cardinality(Live) <= limits.maxc

\* The burst: whatever the row offers at once is at most the capacity of now,
\* also when the refund of a lease admitted under other limits comes after a
\* refill or after Ensure lowered the capacity (Adjusted, newBalance).
NeverOverfull == balance <= Full(limits)

\* When limits change, a live lease is added only within the limit of the
\* moment: lowering MaxConcurrency preempts no one but admits no one either.
AdmitsWithinLimit ==
    [][ Live' \ Live # {} /\ SlotLimited(limits)
            => Cardinality(Live') <= limits.maxc ]_vars

\* Only its own Release, or time, ends a live lease: no other caller's reap
\* takes the row of a holder that renewed it in the meantime.  (A row that
\* time ends stays until it is reaped.)
NeverStolen ==
    [][ \A c \in Live \ Live' : pc'[c] = "released" \/ c \in rows' ]_vars

\* A holder that is told its lease is lost has really lost it: the local
\* MaxLeaseDuration timer never fires before the cap of the database, and a
\* lease found lost is not revived (renew, renewOnce).
LostIsTrue == \A c \in Callers : pc[c] = "holding" /\ lost[c] => c \notin Live

\* A holder that has lost its lease is told, or ends, even when no renewal
\* ever gets through.
LossIsDetected ==
    \A c \in Callers :
        pc[c] = "holding" /\ c \notin Live ~> lost[c] \/ pc[c] # "holding"

Waiting(c) == pc[c] \in {"trying", "locked", "sleeping"}

\* Slots come back, from holders that crashed, that failed to release, that
\* never release, and from acquires whose answer was lost: an Acquire that
\* waits returns in the end, unless others keep being admitted (tryAcquire,
\* Wait).
SlotsComeBack ==
    \A c \in Callers : Waiting(c) ~> ~Waiting(c) \/ \E d \in Callers : pc[d] = "replying"

\* bucket.go, Limiter.Acquire: any other error is a backend failure, and no
\* lease is held (fail closed).
FailedAcquireHoldsNothing == \A c \in Callers : pc[c] = "idle" => c \notin Live
=============================================================================
