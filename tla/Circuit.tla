------------------------------- MODULE Circuit -------------------------------
(***************************************************************************)
(* The circuit breaker of llms/middleware/circuit.go: one breaker shared   *)
(* by the concurrent callers of one wrapped client.                        *)
(*                                                                         *)
(* guarded() is three steps: allow() under the mutex, the inner call with  *)
(* no lock held, and record() under the mutex.  Any number of other        *)
(* callers' steps fall between a caller's allow and its record, so a       *)
(* result can be recorded in a state its call was not admitted in: such a  *)
(* call is a straggler.                                                    *)
(***************************************************************************)
EXTENDS Integers, Errors

CONSTANTS
    Callers,            \* goroutines sharing the client
    FailureThreshold,   \* CircuitConfig, after normalized()
    SuccessThreshold,
    OpenTimeout,        \* in ticks of the clock
    Outcomes,           \* the results an inner call may return
    CallsPanic          \* TRUE when an inner call may panic

\* normalized() replaces everything below 1 by a default.
ASSUME ConfigAssumption ==
    /\ FailureThreshold \in Nat \ {0}
    /\ SuccessThreshold \in Nat \ {0}
    /\ OpenTimeout \in Nat \ {0}

ASSUME EnvironmentAssumption ==
    /\ Outcomes \subseteq Results
    /\ CallsPanic \in BOOLEAN

VARIABLES
    state,       \* "closed", "open" or "halfOpen"
    failures,    \* consecutive failures recorded while closed
    successes,   \* successes recorded while half open
    probing,     \* the single-flight gate of the half-open state
    remaining,   \* OpenTimeout - time.Since(openedAt), floored at zero
    call         \* where each caller is: "idle", or in an inner call that
                 \* allow() admitted as "ordinary" (closed) or as a "probe"

vars == <<state, failures, successes, probing, remaining, call>>

CallStates == {"idle", "ordinary", "probe"}

TypeOK ==
    /\ state \in {"closed", "open", "halfOpen"}
    /\ failures \in Nat
    /\ successes \in Nat
    /\ probing \in BOOLEAN
    /\ remaining \in 0..OpenTimeout
    /\ call \in [Callers -> CallStates]

Init ==
    /\ state = "closed"
    /\ failures = 0
    /\ successes = 0
    /\ probing = FALSE
    /\ remaining = 0
    /\ call = [c \in Callers |-> "idle"]

InFlight == {c \in Callers : call[c] # "idle"}
Probes == {c \in Callers : call[c] = "probe"}

-----------------------------------------------------------------------------
(***************************************************************************)
(* allow()                                                                 *)
(***************************************************************************)

AdmitClosed(c) ==
    /\ state = "closed"
    /\ call' = [call EXCEPT ![c] = "ordinary"]
    /\ UNCHANGED <<state, failures, successes, probing, remaining>>

\* The open timeout has elapsed: this caller is the first probe.
AdmitFirstProbe(c) ==
    /\ state = "open"
    /\ remaining = 0
    /\ state' = "halfOpen"
    /\ successes' = 0
    /\ probing' = TRUE
    /\ call' = [call EXCEPT ![c] = "probe"]
    /\ UNCHANGED <<failures, remaining>>

\* Mutant: the gate is not consulted.
AdmitNextProbeUngated(c) ==
    /\ state = "halfOpen"
    /\ probing' = TRUE
    /\ call' = [call EXCEPT ![c] = "probe"]
    /\ UNCHANGED <<state, failures, successes, remaining>>

AdmitNextProbe(c) ==
    /\ state = "halfOpen"
    /\ ~probing
    /\ probing' = TRUE
    /\ call' = [call EXCEPT ![c] = "probe"]
    /\ UNCHANGED <<state, failures, successes, remaining>>

Admit(c) ==
    /\ call[c] = "idle"
    /\ AdmitClosed(c) \/ AdmitFirstProbe(c) \/ AdmitNextProbe(c)

\* Mutant: a rejection counts as a failure and restarts the timeout.
RejectRestarts(c) ==
    /\ call[c] = "idle"
    /\ state = "open" /\ remaining > 0
    /\ remaining' = OpenTimeout
    /\ UNCHANGED <<state, failures, successes, probing, call>>

\* allow() returns a CircuitOpenError: the caller is turned away at once and
\* nothing changes.
Reject(c) ==
    /\ call[c] = "idle"
    /\ \/ state = "open" /\ remaining > 0
       \/ state = "halfOpen" /\ probing
    /\ UNCHANGED vars

-----------------------------------------------------------------------------
(***************************************************************************)
(* record(err)                                                             *)
(***************************************************************************)

Success(e) == e = NoError

\* Mutant: every retryable error is held against the provider.
FailureAnyRetryable(e) == Retryable(e)

\* A limiter's rejection never reached the provider, so it says nothing
\* about the provider's health.
Failure(e) == Retryable(e) /\ ~IsLimitError(e)

Neutral(e) == ~Success(e) /\ ~Failure(e)

\* Mutant: the count of failures survives the trip.
TripKeepsFailures ==
    /\ state' = "open"
    /\ remaining' = OpenTimeout
    /\ successes' = 0
    /\ probing' = FALSE
    /\ UNCHANGED failures

Trip ==
    /\ state' = "open"
    /\ remaining' = OpenTimeout
    /\ failures' = 0
    /\ successes' = 0
    /\ probing' = FALSE

\* Mutant: an error that says nothing of the provider leaves the gate alone.
RecordNeutralKeepsGate == UNCHANGED <<state, failures, successes, probing, remaining>>

RecordNeutral ==
    /\ probing' = (IF state = "halfOpen" THEN FALSE ELSE probing)
    /\ UNCHANGED <<state, failures, successes, remaining>>

RecordClosedFailure ==
    IF failures + 1 >= FailureThreshold
    THEN Trip
    ELSE /\ failures' = failures + 1
         /\ UNCHANGED <<state, successes, probing, remaining>>

\* Mutant: a success does not interrupt a streak of failures.
RecordClosedSuccessKeepsFailures ==
    UNCHANGED <<state, failures, successes, probing, remaining>>

RecordClosedSuccess ==
    /\ failures' = 0
    /\ UNCHANGED <<state, successes, probing, remaining>>

\* Mutant: one success is enough.
RecordHalfOpenSuccessCloses ==
    /\ probing' = FALSE
    /\ state' = "closed" /\ failures' = 0 /\ successes' = 0
    /\ UNCHANGED remaining

\* Mutant: a success short of the threshold keeps the gate shut.
RecordHalfOpenSuccessKeepsGate ==
    /\ IF successes + 1 >= SuccessThreshold
       THEN state' = "closed" /\ failures' = 0 /\ successes' = 0 /\ probing' = FALSE
       ELSE successes' = successes + 1 /\ UNCHANGED <<state, failures, probing>>
    /\ UNCHANGED remaining

\* The threshold-th success closes the breaker; either way the gate opens
\* for the next caller.
RecordHalfOpenSuccess ==
    /\ probing' = FALSE
    /\ IF successes + 1 >= SuccessThreshold
       THEN state' = "closed" /\ failures' = 0 /\ successes' = 0
       ELSE successes' = successes + 1 /\ UNCHANGED <<state, failures>>
    /\ UNCHANGED remaining

RecordOpenSuccess == UNCHANGED <<state, failures, successes, probing, remaining>>

Record(e) ==
    \/ Neutral(e) /\ RecordNeutral
    \/ state = "closed" /\ Failure(e) /\ RecordClosedFailure
    \/ state = "closed" /\ Success(e) /\ RecordClosedSuccess
    \/ state = "halfOpen" /\ Failure(e) /\ Trip
    \/ state = "halfOpen" /\ Success(e) /\ RecordHalfOpenSuccess
    \/ state = "open" /\ Failure(e) /\ Trip
    \/ state = "open" /\ Success(e) /\ RecordOpenSuccess

\* The inner call returns e and guarded() records it.
Return(c, e) ==
    /\ call[c] # "idle"
    /\ call' = [call EXCEPT ![c] = "idle"]
    /\ Record(e)

\* guarded() does not defer record(): a panic unwinds past it.
Panic(c) ==
    /\ CallsPanic
    /\ call[c] # "idle"
    /\ call' = [call EXCEPT ![c] = "idle"]
    /\ UNCHANGED <<state, failures, successes, probing, remaining>>

Tick ==
    /\ remaining > 0
    /\ remaining' = remaining - 1
    /\ UNCHANGED <<state, failures, successes, probing, call>>

-----------------------------------------------------------------------------

Returns(c) == \E e \in Outcomes : Return(c, e)

Next ==
    \/ \E c \in Callers : Admit(c) \/ Reject(c) \/ Returns(c) \/ Panic(c)
    \/ Tick

Spec == Init /\ [][Next]_vars

\* Time passes, and every admitted call returns: the timeout middleware
\* outside the breaker bounds it.  Demand says that callers keep arriving.
Fairness == WF_vars(Tick) /\ \A c \in Callers : WF_vars(Returns(c))

Demand == WF_vars(\E c \in Callers : Admit(c))

FairSpec == Spec /\ Fairness

BusySpec == FairSpec /\ Demand

-----------------------------------------------------------------------------
(***************************************************************************)
(* Properties                                                              *)
(***************************************************************************)

\* The counters never pass their thresholds, and each is zero outside the
\* state it belongs to, whichever stragglers record in between: a breaker
\* that re-enters a state starts its count afresh (trip() and the close
\* branch of record()).
CountersBounded ==
    /\ failures < FailureThreshold
    /\ successes < SuccessThreshold
    /\ state # "closed" => failures = 0
    /\ state # "halfOpen" => successes = 0

\* The single-flight gate is shut only while a probe that will reopen it is
\* in flight, and only in the half-open state: no order of results, late
\* ones included, wedges the breaker (record() must release the gate on
\* every half-open path, and trip() too).
GateHasOwner ==
    probing => state = "halfOpen" /\ Probes # {}

\* Stragglers that fail while the breaker is open restart its timeout, but
\* no call is admitted meanwhile, so they run out and the open state ends.
OpenExpires == state = "open" ~> (state = "open" /\ remaining = 0)

OnlySuccesses ==
    \A c \in Callers, e \in Outcomes \ {NoError} : ~Return(c, e)

\* When the provider is healthy for good and callers keep arriving, the
\* breaker closes: it is not stuck open or half open.
Recovers == <>[][OnlySuccesses]_vars => <>[](state = "closed")
=============================================================================
