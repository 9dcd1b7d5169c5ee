-------------------------------- MODULE Chain --------------------------------
(***************************************************************************)
(* RecommendedChat: Complete calls on one wrapped client, through retry,   *)
(* the per-attempt timeout, the circuit breaker of module Circuit, the     *)
(* rate-limit reservation and the provider.                                *)
(*                                                                         *)
(* The limiter holds at most Slots reservations and gives up when its      *)
(* context ends, or sooner with a rejection or, behind FromBucket, with an *)
(* error of its backend.  The provider answers what it likes when it       *)
(* likes, or hangs until its context ends; its adapter then classifies the *)
(* context error (module Errors).  Validation, which turns a call away     *)
(* before any of this, and metrics, which only observes, keep no state and *)
(* are left out.                                                           *)
(***************************************************************************)
EXTENDS Circuit, FiniteSets

CONSTANTS
    MaxAttempts,
    InitialDelay, MaxDelay, BackoffFactor,
    JitterNum, JitterDen,   \* the jitter fraction
    Hints,                  \* llms.RetryAfter of a retryable error, 0 for none
    Timeout,                \* of one attempt; 0 omits the middleware
    Slots,
    Rejections,             \* what the limiter may give up with on its own
    CallerEnds              \* the ways a caller's context may end

\* RetryConfig.normalized.
ASSUME RetryAssumption ==
    /\ MaxAttempts \in Nat \ {0}
    /\ InitialDelay \in Nat \ {0} /\ MaxDelay \in Nat \ {0}
    /\ BackoffFactor \in Nat \ {0}
    /\ JitterDen \in Nat \ {0} /\ JitterNum \in 0..JitterDen
    /\ Hints \subseteq Nat /\ Hints # {}
    /\ Timeout \in Nat
    /\ Slots \in Nat \ {0}
    /\ Rejections \subseteq {LimitErr(permanent, "none") : permanent \in BOOLEAN}
                               \cup BackendErrors
    /\ CallerEnds \subseteq {"canceled", "deadline"}

VARIABLES
    pc,             \* where each Complete is
    attempt, delay, \* retry's loop variables
    backoffLeft,    \* what its backoff timer has left
    ctx, actx,      \* the caller's context and the attempt's: "live" or its end
    timeLeft,       \* what the attempt's timeout has left
    result          \* what Complete returns

loop == <<attempt, delay>>
chvars == <<vars, pc, loop, backoffLeft, ctx, actx, timeLeft, result>>

Contexts == {"live", "canceled", "deadline"}

Least(x, y) == IF x < y THEN x ELSE y
Most(x, y) == IF x > y THEN x ELSE y

LoopTypeOK ==
    /\ pc \in [Callers ->
          {"idle", "attempting", "reserving", "calling", "backoff", "returned"}]
    /\ attempt \in [Callers -> 0..MaxAttempts]
    /\ delay \in [Callers -> 0..Most(InitialDelay, MaxDelay)]
    /\ backoffLeft \in [Callers -> 0..2 * MaxDelay]
    /\ ctx \in [Callers -> Contexts]
    /\ actx \in [Callers -> Contexts]
    /\ timeLeft \in [Callers -> 0..Timeout]
    /\ result \in [Callers -> Results]

ChTypeOK == TypeOK /\ LoopTypeOK

ChInit ==
    /\ Init
    /\ pc = [c \in Callers |-> "idle"]
    /\ attempt = [c \in Callers |-> 0]
    /\ delay = [c \in Callers |-> 0]
    /\ backoffLeft = [c \in Callers |-> 0]
    /\ ctx = [c \in Callers |-> "live"]
    /\ actx = [c \in Callers |-> "live"]
    /\ timeLeft = [c \in Callers |-> 0]
    /\ result = [c \in Callers |-> NoError]

InProvider == {c \in Callers : pc[c] = "calling"}

-----------------------------------------------------------------------------
(***************************************************************************)
(* The retry loop                                                          *)
(***************************************************************************)

Goto(c, where) == pc' = [pc EXCEPT ![c] = where]

Finish(c, e) ==
    /\ Goto(c, "returned")
    /\ result' = [result EXCEPT ![c] = e]

Begin(c) ==
    /\ pc[c] = "idle"
    /\ Goto(c, "attempting")
    /\ attempt' = [attempt EXCEPT ![c] = 1]
    /\ delay' = [delay EXCEPT ![c] = InitialDelay]
    /\ UNCHANGED <<vars, backoffLeft, ctx, actx, timeLeft, result>>

\* The jitter is applied to the capped delay.  In whole ticks, rounded
\* outwards.
Jittered(d) ==
    (d * (JitterDen - JitterNum)) \div JitterDen ..
        (d * (JitterDen + JitterNum) + JitterDen - 1) \div JitterDen

\* Mutant: the cap bounds the delay but not the hint.
WaitsHintUncapped(c) == UNION {Jittered(Most(Least(delay[c], MaxDelay), hint)) : hint \in Hints}

\* The cap bounds the server's hint too.
Waits(c) == UNION {Jittered(Least(Most(delay[c], hint), MaxDelay)) : hint \in Hints}

\* Mutant: the last attempt is not recognised.
FinalOneLate(c, e) == e = NoError \/ ~Retryable(e) \/ attempt[c] > MaxAttempts

\* Mutant: a limiter's rejection ends the loop.
FinalAtLimit(c, e) ==
    e = NoError \/ ~Retryable(e) \/ IsLimitError(e) \/ attempt[c] = MaxAttempts

\* Which results end the loop.
Final(c, e) == e = NoError \/ ~Retryable(e) \/ attempt[c] = MaxAttempts

\* The attempt has returned e.
AttemptOver(c, e) ==
    /\ \/ Final(c, e) /\ Finish(c, e) /\ UNCHANGED backoffLeft
       \/ /\ ~Final(c, e)
          /\ Goto(c, "backoff")
          /\ \E wait \in Waits(c) : backoffLeft' = [backoffLeft EXCEPT ![c] = wait]
          /\ UNCHANGED result
    /\ actx' = [actx EXCEPT ![c] = "live"]
    /\ timeLeft' = [timeLeft EXCEPT ![c] = 0]
    /\ UNCHANGED <<loop, ctx>>

\* The two cases of the select: when both are ready either may be taken.
BackoffOver(c) ==
    /\ pc[c] = "backoff"
    /\ backoffLeft[c] = 0
    /\ Goto(c, "attempting")
    /\ attempt' = [attempt EXCEPT ![c] = @ + 1]
    /\ delay' = [delay EXCEPT ![c] = Least(@ * BackoffFactor, MaxDelay)]
    /\ UNCHANGED <<vars, backoffLeft, ctx, actx, timeLeft, result>>

BackoffAborted(c) ==
    /\ pc[c] = "backoff"
    /\ ctx[c] # "live"
    /\ Finish(c, [type |-> ctx[c]])
    /\ backoffLeft' = [backoffLeft EXCEPT ![c] = 0]
    /\ UNCHANGED <<vars, loop, ctx, actx, timeLeft>>

\* Complete has returned: its locals and its context are gone.
Leave(c) ==
    /\ attempt' = [attempt EXCEPT ![c] = 0]
    /\ delay' = [delay EXCEPT ![c] = 0]
    /\ ctx' = [ctx EXCEPT ![c] = "live"]
    /\ Goto(c, "idle")

Forget(c) ==
    /\ pc[c] = "returned"
    /\ result' = [result EXCEPT ![c] = NoError]
    /\ Leave(c)
    /\ UNCHANGED <<vars, backoffLeft, actx, timeLeft>>

-----------------------------------------------------------------------------
(***************************************************************************)
(* One attempt: timeout, breaker, reservation, provider                    *)
(***************************************************************************)

\* The breaker admits the call, under the attempt's fresh timeout.
Admitted(c) ==
    /\ pc[c] = "attempting"
    /\ Admit(c)
    /\ timeLeft' = [timeLeft EXCEPT ![c] = Timeout]
    /\ actx' = [actx EXCEPT ![c] = ctx[c]]
    /\ Goto(c, "reserving")
    /\ UNCHANGED <<loop, backoffLeft, ctx, result>>

\* CircuitOpenError is not retryable.
Rejected(c) ==
    /\ pc[c] = "attempting"
    /\ Reject(c)
    /\ Finish(c, [type |-> "circuit_open"])
    /\ UNCHANGED <<loop, backoffLeft, ctx, actx, timeLeft>>

Reserved(c) ==
    /\ pc[c] = "reserving"
    /\ Cardinality(InProvider) < Slots
    /\ Goto(c, "calling")
    /\ UNCHANGED <<vars, loop, backoffLeft, ctx, actx, timeLeft, result>>

ReserveFails(c, e) ==
    /\ pc[c] = "reserving"
    /\ Return(c, e)
    /\ AttemptOver(c, e)

\* MaxWait is over, the request can never be admitted, or the backend fails:
\* reserved() passes on whatever it is.
LimiterRejects(c) == \E e \in Rejections : ReserveFails(c, e)

\* Mutant: the timeout is inside the reservation.
LimiterOutsideTimeout(c) ==
    ctx[c] # "live" /\ ReserveFails(c, LimitErr(FALSE, ctx[c]))

\* Both limiters report the end of the context as a LimitError, whatever the
\* backend says of it.
LimiterCtxDone(c) ==
    actx[c] # "live" /\ ReserveFails(c, LimitErr(FALSE, actx[c]))

\* The provider returns; reserved() releases the slot before record().
ProviderReturns(c, e) ==
    /\ pc[c] = "calling"
    /\ Return(c, e)
    /\ AttemptOver(c, e)

ProviderAnswers(c) == \E e \in Outcomes : ProviderReturns(c, e)

\* Mutant: the adapter passes a context error on as it is.
ProviderCtxDoneBare(c) ==
    actx[c] # "live" /\ ProviderReturns(c, [type |-> actx[c]])

\* The context of the attempt ends and the adapter classifies its error.
ProviderCtxDone(c) ==
    actx[c] # "live" /\ ProviderReturns(c, Classify([what |-> actx[c]]))

\* The provider panics: the slot is released by a defer, record() is skipped.
ProviderPanics(c) ==
    /\ pc[c] = "calling"
    /\ Panic(c)
    /\ Leave(c)
    /\ actx' = [actx EXCEPT ![c] = "live"]
    /\ timeLeft' = [timeLeft EXCEPT ![c] = 0]
    /\ UNCHANGED <<backoffLeft, result>>

-----------------------------------------------------------------------------

Running(c) == pc[c] \notin {"idle", "returned"}

\* The context of an attempt that is under way ends with the caller's.
CallerCtxEnd(c, how) ==
    /\ Running(c)
    /\ ctx[c] = "live"
    /\ ctx' = [ctx EXCEPT ![c] = how]
    /\ actx' = [actx EXCEPT ![c] =
           IF pc[c] \in {"reserving", "calling"} /\ @ = "live" THEN how ELSE @]
    /\ UNCHANGED <<vars, pc, loop, backoffLeft, timeLeft, result>>

Down(f) == [c \in Callers |-> IF f[c] > 0 THEN f[c] - 1 ELSE 0]

ChTick ==
    /\ remaining' = (IF remaining > 0 THEN remaining - 1 ELSE 0)
    /\ backoffLeft' = Down(backoffLeft)
    /\ timeLeft' = Down(timeLeft)
    /\ actx' = [c \in Callers |->
           IF timeLeft[c] = 1 /\ actx[c] = "live" THEN "deadline" ELSE actx[c]]
    /\ UNCHANGED <<state, failures, successes, probing, call, pc, loop, ctx, result>>

ChNext ==
    \/ \E c \in Callers :
          \/ Begin(c) \/ BackoffOver(c) \/ BackoffAborted(c) \/ Forget(c)
          \/ Admitted(c) \/ Rejected(c) \/ Reserved(c)
          \/ LimiterRejects(c) \/ LimiterCtxDone(c)
          \/ ProviderAnswers(c) \/ ProviderCtxDone(c) \/ ProviderPanics(c)
          \/ \E how \in CallerEnds : CallerCtxEnd(c, how)
    \/ ChTick

ChSpec == ChInit /\ [][ChNext]_chvars

\* Time passes, the loop runs, and limiter and provider return once their
\* context has ended.  Nothing makes them return before.
ChFairSpec ==
    /\ ChSpec
    /\ WF_chvars(ChTick)
    /\ \A c \in Callers :
          /\ WF_chvars(Admitted(c) \/ Rejected(c))
          /\ WF_chvars(BackoffOver(c) \/ BackoffAborted(c))
          /\ WF_chvars(LimiterCtxDone(c))
          /\ WF_chvars(ProviderCtxDone(c))

-----------------------------------------------------------------------------

\* The breaker blames the provider only for what the provider did: a call
\* that is turned away before it reaches the provider, whatever the reason,
\* neither counts as a failure nor trips the breaker (record, ADR-0033).
BlamesProviderOnly ==
    [][ \A c \in Callers :
          pc[c] = "reserving" /\ call'[c] = "idle" /\ call[c] # "idle"
              => /\ failures' = failures
                 /\ state' = state ]_chvars

\* A caller whose own context is live finds no cancellation in what it gets,
\* however deep, and no deadline but a limiter's: that of an attempt that
\* waited for capacity, when the attempts are used up, or that of a backend's
\* own transaction, which FromBucket passes on (withTimeout, ClassifyOverflow,
\* LimitError.Cause, bucket.go:55).
LiveCallerSeesNoCtxError ==
    \A c \in Callers :
        pc[c] = "returned" /\ ctx[c] = "live" =>
            /\ ContextErrorIn(result[c]) # "canceled"
            /\ ContextErrorIn(result[c]) = "deadline" =>
                  \/ IsLimitError(result[c]) /\ attempt[c] = MaxAttempts
                  \/ result[c] \in BackendErrors

\* A retryable error is returned only when the attempts are used up, and a
\* retry never follows an answer that settled the call (retry).
GivesUpInTheEnd ==
    \A c \in Callers :
        pc[c] = "returned" /\ Retryable(result[c]) => attempt[c] = MaxAttempts

\* With a timeout, Complete returns even if the provider hangs and the
\* limiter never admits.
CompleteReturns == \A c \in Callers : Running(c) ~> ~Running(c)
=============================================================================
