------------------------------ MODULE ChainProofs ------------------------------
(***************************************************************************)
(* Proofs about the circuit breaker, for every set of callers and every    *)
(* value of its configuration; then about the recommended chain around it, *)
(* for every configuration of the retry loop, the timeout and the limiter. *)
(* (The history variables of the breaker play no part in the chain.)       *)
(***************************************************************************)
EXTENDS Chain, CircuitHistory, TLAPS

USE ConfigAssumption DEF ConfigAssumption, CallStates

-----------------------------------------------------------------------------
(***************************************************************************)
(* Type correctness                                                        *)
(***************************************************************************)

\* An admission, by whichever branch of allow(), keeps the types.
LEMMA AdmitTypeOK == ASSUME TypeOK, NEW c \in Callers, Admit(c) PROVE TypeOK'
<1>1. probing' \in BOOLEAN
  BY DEF TypeOK, Admit, AdmitClosed, AdmitFirstProbe, AdmitNextProbe
<1>2. QED
  BY <1>1 DEF TypeOK, Admit, AdmitClosed, AdmitFirstProbe, AdmitNextProbe

\* So does a recorded result, in whichever state it is recorded.
LEMMA ReturnTypeOK ==
    ASSUME TypeOK, NEW c \in Callers, NEW e, Return(c, e)
    PROVE  TypeOK'
<1>1. call' \in [Callers -> CallStates]
  BY DEF TypeOK, Return
<1>2. Record(e)
  BY DEF Return
<1>3. probing' \in BOOLEAN
  BY <1>2 DEF TypeOK, Record, RecordNeutral, RecordClosedFailure, Trip,
              RecordClosedSuccess, RecordHalfOpenSuccess, RecordOpenSuccess
<1>4. CASE RecordNeutral
  BY <1>1, <1>3, <1>4 DEF TypeOK, RecordNeutral
<1>5. CASE Trip
  BY <1>1, <1>3, <1>5 DEF TypeOK, Trip
<1>6. CASE RecordClosedFailure
  BY <1>1, <1>3, <1>5, <1>6 DEF TypeOK, RecordClosedFailure
<1>7. CASE RecordClosedSuccess
  BY <1>1, <1>3, <1>7 DEF TypeOK, RecordClosedSuccess
<1>8. CASE RecordHalfOpenSuccess
  BY <1>1, <1>3, <1>8 DEF TypeOK, RecordHalfOpenSuccess
<1>9. CASE RecordOpenSuccess
  BY <1>1, <1>3, <1>9 DEF TypeOK, RecordOpenSuccess
<1>10. QED
  BY <1>2, <1>4, <1>5, <1>6, <1>7, <1>8, <1>9 DEF Record

\* Every reachable state of the breaker has the declared types.
THEOREM TypeCorrect == Spec => []TypeOK
<1>1. Init => TypeOK
  <2>1. Init => probing \in BOOLEAN
    BY DEF Init
  <2>2. QED
    BY <2>1 DEF Init, TypeOK
<1>2. TypeOK /\ [Next]_vars => TypeOK'
  <2> SUFFICES ASSUME TypeOK, [Next]_vars PROVE TypeOK'
    OBVIOUS
  <2>1. ASSUME NEW c \in Callers, Admit(c) PROVE TypeOK'
    BY <2>1, AdmitTypeOK
  <2>2. ASSUME NEW c \in Callers, Reject(c) PROVE TypeOK'
    BY <2>2 DEF Reject, TypeOK, vars
  <2>3. ASSUME NEW c \in Callers, Returns(c) PROVE TypeOK'
    BY <2>3, ReturnTypeOK DEF Returns
  <2>4. ASSUME NEW c \in Callers, Panic(c) PROVE TypeOK'
    BY <2>4 DEF Panic, TypeOK
  <2>5. CASE Tick
    BY <2>5 DEF Tick, TypeOK
  <2>6. CASE UNCHANGED vars
    BY <2>6 DEF TypeOK, vars
  <2>7. QED
    BY <2>1, <2>2, <2>3, <2>4, <2>5, <2>6 DEF Next
<1>3. QED
  BY <1>1, <1>2, PTL DEF Spec

-----------------------------------------------------------------------------
(***************************************************************************)
(* The counters                                                            *)
(***************************************************************************)

\* Recording a result keeps each counter below its threshold and zero
\* outside its state: record() and trip() reset whichever count they leave.
LEMMA RecordCounters ==
    ASSUME TypeOK, CountersBounded, NEW e, Record(e)
    PROVE  CountersBounded'
<1> USE DEF TypeOK, CountersBounded
<1>1. CASE RecordNeutral
  BY <1>1 DEF RecordNeutral
<1>2. CASE Trip
  BY <1>2 DEF Trip
<1>3. CASE state = "closed" /\ RecordClosedFailure
  BY <1>3 DEF RecordClosedFailure, Trip
<1>4. CASE RecordClosedSuccess
  BY <1>4 DEF RecordClosedSuccess
<1>5. CASE state = "halfOpen" /\ RecordHalfOpenSuccess
  BY <1>5 DEF RecordHalfOpenSuccess
<1>6. CASE RecordOpenSuccess
  BY <1>6 DEF RecordOpenSuccess
<1>7. QED
  BY <1>1, <1>2, <1>3, <1>4, <1>5, <1>6 DEF Record

\* No order of results, late ones included, takes a counter to its
\* threshold or leaves it set outside its state (circuit.go record, trip).
THEOREM CountersStayBounded == Spec => []CountersBounded
<1>1. Init => CountersBounded
  BY DEF Init, CountersBounded
<1>2. TypeOK /\ CountersBounded /\ [Next]_vars => CountersBounded'
  <2> SUFFICES ASSUME TypeOK, CountersBounded, [Next]_vars
               PROVE  CountersBounded'
    OBVIOUS
  <2>1. ASSUME NEW c \in Callers, Admit(c) PROVE CountersBounded'
    BY <2>1 DEF Admit, AdmitClosed, AdmitFirstProbe, AdmitNextProbe,
                TypeOK, CountersBounded
  <2>2. ASSUME NEW c \in Callers, Returns(c) PROVE CountersBounded'
    BY <2>2, RecordCounters DEF Returns, Return
  <2>3. ASSUME NEW c \in Callers, Panic(c) PROVE CountersBounded'
    BY <2>3 DEF Panic, CountersBounded
  <2>4. CASE Tick
    BY <2>4 DEF Tick, CountersBounded
  <2>5. CASE UNCHANGED vars
    BY <2>5 DEF CountersBounded, vars
  <2>6. QED
    BY <2>1, <2>2, <2>3, <2>4, <2>5 DEF Next, Reject
<1>3. QED
  BY <1>1, <1>2, TypeCorrect, PTL DEF Spec

-----------------------------------------------------------------------------
(***************************************************************************)
(* The single-flight gate                                                  *)
(***************************************************************************)

\* Whatever is recorded in the half-open state opens the gate, and whatever
\* is recorded elsewhere leaves it open.
LEMMA RecordOpensGate ==
    ASSUME GateHasOwner, NEW e, Record(e)
    PROVE  ~probing'
BY DEF GateHasOwner, Record, RecordNeutral, RecordClosedFailure, Trip,
       RecordClosedSuccess, RecordHalfOpenSuccess, RecordOpenSuccess

\* Unless inner calls panic, a shut gate always has a probe in flight that
\* will reopen it: the breaker is never wedged half open.
THEOREM NeverWedged == ~CallsPanic /\ Spec => []GateHasOwner
<1> SUFFICES ASSUME ~CallsPanic PROVE Spec => []GateHasOwner
  OBVIOUS
<1>1. Init => GateHasOwner
  BY DEF Init, GateHasOwner
<1>2. TypeOK /\ GateHasOwner /\ [Next]_vars => GateHasOwner'
  <2> SUFFICES ASSUME TypeOK, GateHasOwner, [Next]_vars
               PROVE  GateHasOwner'
    OBVIOUS
  <2>1. ASSUME NEW c \in Callers, Admit(c) PROVE GateHasOwner'
    <3>1. CASE AdmitClosed(c)
      BY <3>1 DEF AdmitClosed, GateHasOwner
    <3>2. CASE AdmitFirstProbe(c) \/ AdmitNextProbe(c)
      <4>1. c \in Probes'
        BY <3>2 DEF AdmitFirstProbe, AdmitNextProbe, Probes, TypeOK
      <4>2. QED
        BY <3>2, <4>1 DEF AdmitFirstProbe, AdmitNextProbe, GateHasOwner
    <3>3. QED
      BY <2>1, <3>1, <3>2 DEF Admit
  <2>2. ASSUME NEW c \in Callers, Returns(c) PROVE GateHasOwner'
    BY <2>2, RecordOpensGate DEF Returns, Return, GateHasOwner
  <2>3. CASE Tick
    BY <2>3 DEF Tick, GateHasOwner, Probes
  <2>4. CASE UNCHANGED vars
    BY <2>4 DEF GateHasOwner, Probes, vars
  <2>5. QED
    BY <2>1, <2>2, <2>3, <2>4 DEF Next, Reject, Panic
<1>3. QED
  BY <1>1, <1>2, TypeCorrect, PTL DEF Spec

-----------------------------------------------------------------------------
(***************************************************************************)
(* One probe at a time, stragglers apart                                   *)
(***************************************************************************)

\* SingleFlight is not inductive by itself: it also needs that a lone probe
\* still holds the gate of a half-open breaker.
SingleFlightInv ==
    ~crossed => /\ \A c, d \in Probes : c = d
                /\ Probes # {} => state = "halfOpen" /\ probing

\* The history variables watch the breaker and never steer it.
LEMMA HistoryRefines == HSpec => Spec
<1>1. HInit => Init
  BY DEF HInit
<1>2. [HNext]_hvars => [Next]_vars
  BY DEF HNext, Next, hvars, HAdmit, HReject, HReturns, HReturn, HTick,
      Returns
<1>3. QED
  BY <1>1, <1>2, PTL DEF HSpec, Spec

LEMMA AdmitSingleFlight ==
    ASSUME TypeOK, SingleFlightInv, NEW c \in Callers, HAdmit(c)
    PROVE  SingleFlightInv'
<1> USE DEF SingleFlightInv, HAdmit, Cross
<1>1. CASE AdmitClosed(c)
  <2>1. Probes' = Probes
    BY <1>1 DEF Probes, AdmitClosed, TypeOK, Admit
  <2>2. QED
    BY <1>1, <2>1 DEF AdmitClosed
<1>2. CASE AdmitFirstProbe(c) \/ AdmitNextProbe(c)
  <2>1. Probes' = Probes \cup {c}
    BY <1>2 DEF Probes, AdmitFirstProbe, AdmitNextProbe, TypeOK
  <2>2. ~crossed => Probes = {}
    BY <1>2 DEF AdmitFirstProbe, AdmitNextProbe
  <2>3. QED
    BY <1>2, <2>1, <2>2 DEF AdmitFirstProbe, AdmitNextProbe
<1>3. QED
  BY <1>1, <1>2 DEF Admit

LEMMA ReturnSingleFlight ==
    ASSUME TypeOK, SingleFlightInv,
           NEW c \in Callers, NEW e \in Outcomes, HReturn(c, e)
    PROVE  SingleFlightInv'
<1> USE DEF SingleFlightInv, Cross
<1>1. Probes' = Probes \ {c}
  BY DEF HReturn, Return, Probes, TypeOK
<1>2. CASE Probes' = {}
  BY <1>2
<1>3. CASE Probes' # {} /\ ~crossed
  <2>1. c \notin Probes /\ state = "halfOpen"
    BY <1>1, <1>3
  <2>2. Straggles(c)
    BY <2>1 DEF Straggles, Probes, TypeOK, HReturn, Return
  <2>3. QED
    BY <1>3, <2>2 DEF HReturn
<1>4. CASE Probes' # {} /\ crossed
  BY <1>4 DEF HReturn
<1>5. QED
  BY <1>2, <1>3, <1>4

\* While no straggler has recorded in the half-open state next to a probe,
\* at most one probe is in flight: the gate of allow() fails through
\* stragglers and in no other way.
THEOREM SingleFlightUnlessCrossed == HSpec => []SingleFlight
<1>1. HInit => SingleFlightInv
  BY DEF HInit, Init, SingleFlightInv, Probes
<1>2. TypeOK /\ SingleFlightInv /\ [HNext]_hvars => SingleFlightInv'
  <2> SUFFICES ASSUME TypeOK, SingleFlightInv, [HNext]_hvars
               PROVE  SingleFlightInv'
    OBVIOUS
  <2>1. ASSUME NEW c \in Callers, HReject(c) PROVE SingleFlightInv'
    BY <2>1 DEF HReject, Reject, vars, SingleFlightInv, Probes
  <2>2. CASE HTick
    BY <2>2 DEF HTick, Tick, SingleFlightInv, Probes
  <2>3. CASE UNCHANGED hvars
    BY <2>3 DEF hvars, vars, SingleFlightInv, Probes
  <2>4. QED
    BY <2>1, <2>2, <2>3, AdmitSingleFlight, ReturnSingleFlight
       DEF HNext, HReturns
<1>3. SingleFlightInv => SingleFlight
  BY DEF SingleFlightInv, SingleFlight
<1>4. QED
  BY <1>1, <1>2, <1>3, HistoryRefines, TypeCorrect, PTL DEF HSpec

-----------------------------------------------------------------------------
(***************************************************************************)
(* Streaks                                                                 *)
(***************************************************************************)

Signals == [in : {"closed", "open", "halfOpen"}, ok : BOOLEAN]

RecentTypeOK == recent \in Seq(Signals) /\ Len(recent) <= Window

\* What makes StreaksDecide inductive: each counter counts signals that came
\* one after the other, all in the state the counter belongs to.
CountsAreStreaks ==
    /\ state = "closed" => Streak(failures, "closed", FALSE)
    /\ state = "halfOpen" => Streak(successes, "halfOpen", TRUE)

\* The window has room for either streak.
LEMMA WindowRoom ==
    Window \in Nat \ {0} /\ FailureThreshold <= Window /\ SuccessThreshold <= Window
BY DEF Window

\* A signal is put at the end of the window.
LEMMA RememberedLast ==
    ASSUME RecentTypeOK, TypeOK, NEW e, Remember(e), ~Neutral(e)
    PROVE  /\ RecentTypeOK'
           /\ Len(recent') >= 1
           /\ recent'[Len(recent')] = [in |-> state, ok |-> Success(e)]
           /\ \/ Len(recent') = Len(recent) + 1
                 /\ \A i \in 1..Len(recent) : recent'[i] = recent[i]
              \/ Len(recent) = Window /\ Len(recent') = Window
                 /\ \A i \in 1..Window - 1 : recent'[i] = recent[i + 1]
<1> DEFINE signal == [in |-> state, ok |-> Success(e)]
           all == Append(recent, signal)
<1>1. Success(e) \in BOOLEAN
  BY DEF Success
<1>2. signal \in Signals
  BY <1>1 DEF Signals, TypeOK
<1>3. /\ all \in Seq(Signals)
      /\ Len(all) = Len(recent) + 1
      /\ all[Len(recent) + 1] = signal
      /\ \A i \in 1..Len(recent) : all[i] = recent[i]
      /\ Len(recent) \in Nat
  BY <1>2 DEF RecentTypeOK
<1>4. recent' = SubSeq(all, IF Len(all) > Window THEN 2 ELSE 1, Len(all))
  BY DEF Remember
<1> HIDE DEF all, signal
<1>5. CASE Len(all) > Window
  <2>1. Len(recent) = Window
    BY <1>3, <1>5, WindowRoom DEF RecentTypeOK
  <2>2. recent' = SubSeq(all, 2, Window + 1)
    BY <1>3, <1>4, <1>5, <2>1
  <2>3. /\ recent' \in Seq(Signals)
        /\ Len(recent') = Window
        /\ \A i \in 1..Window : recent'[i] = all[i + 1]
    BY <1>3, <2>1, <2>2, WindowRoom
  <2>4. \A i \in 1..Window - 1 : i + 1 \in 1..Len(recent)
    BY <2>1, WindowRoom
  <2>5. \A i \in 1..Window - 1 : recent'[i] = recent[i + 1]
    BY <1>3, <2>3, <2>4, WindowRoom
  <2>6. recent'[Window] = signal
    BY <1>3, <2>1, <2>3, WindowRoom
  <2>7. QED
    BY <2>1, <2>3, <2>5, <2>6, WindowRoom DEF RecentTypeOK, signal, Window
<1>6. CASE ~(Len(all) > Window)
  <2>1. Len(recent) + 1 <= Window
    BY <1>3, <1>6, WindowRoom
  <2>2. recent' = SubSeq(all, 1, Len(recent) + 1)
    BY <1>3, <1>4, <1>6
  <2>3. /\ recent' \in Seq(Signals)
        /\ Len(recent') = Len(recent) + 1
        /\ \A i \in 1..Len(recent) + 1 : recent'[i] = all[i]
    BY <1>3, <2>2
  <2>4. \A i \in 1..Len(recent) : recent'[i] = recent[i]
    BY <1>3, <2>3
  <2>5. recent'[Len(recent) + 1] = signal
    BY <1>3, <2>3
  <2>6. QED
    BY <1>3, <2>1, <2>3, <2>4, <2>5 DEF RecentTypeOK, signal, Window
<1>7. QED
  BY <1>5, <1>6

\* One more signal of its kind makes a streak longer by one.
LEMMA StreakGrows ==
    ASSUME RecentTypeOK, TypeOK, NEW e, Remember(e), ~Neutral(e),
           NEW n \in Nat, n + 1 <= Window, Streak(n, state, Success(e))
    PROVE  /\ Len(recent') >= n + 1
           /\ \A i \in Len(recent') - n .. Len(recent') :
                 recent'[i] = [in |-> state, ok |-> Success(e)]
<1> DEFINE signal == [in |-> state, ok |-> Success(e)]
<1>1. /\ Len(recent) \in Nat /\ Len(recent) >= n
      /\ \A i \in Len(recent) - n + 1 .. Len(recent) : recent[i] = signal
  BY DEF Streak, RecentTypeOK
<1>2. recent'[Len(recent')] = signal
  BY RememberedLast
<1> HIDE DEF signal
<1>3. CASE /\ Len(recent') = Len(recent) + 1
           /\ \A i \in 1..Len(recent) : recent'[i] = recent[i]
  <2>1. SUFFICES ASSUME NEW i \in Len(recent') - n .. Len(recent')
                 PROVE  recent'[i] = signal
    BY <1>1, <1>3 DEF signal
  <2>2. CASE i = Len(recent')
    BY <1>2, <2>2
  <2>3. CASE i # Len(recent')
    <3>1. i \in Len(recent) - n + 1 .. Len(recent) /\ i \in 1..Len(recent)
      BY <1>1, <1>3, <2>3
    <3>2. QED
      BY <1>1, <1>3, <3>1
  <2>4. QED
    BY <2>2, <2>3
<1>4. CASE /\ Len(recent) = Window /\ Len(recent') = Window
           /\ \A i \in 1..Window - 1 : recent'[i] = recent[i + 1]
  <2>1. SUFFICES ASSUME NEW i \in Window - n .. Window
                 PROVE  recent'[i] = signal
    BY <1>4, WindowRoom DEF signal
  <2>2. CASE i = Window
    BY <1>2, <1>4, <2>2
  <2>3. CASE i # Window
    <3>1. i + 1 \in Len(recent) - n + 1 .. Len(recent) /\ i \in 1..Window - 1
      BY <1>1, <1>4, <2>3, WindowRoom
    <3>2. QED
      BY <1>1, <1>4, <3>1
  <2>4. QED
    BY <2>2, <2>3
<1>5. QED
  BY <1>3, <1>4, RememberedLast

\* Of the transitions StreaksDecide is about, those of a step.
StreaksHold ==
    /\ state = "closed" /\ state' = "open"
           => Streak(FailureThreshold, "closed", FALSE)'
    /\ state = "halfOpen" /\ state' = "closed"
           => Streak(SuccessThreshold, "halfOpen", TRUE)'

\* A result that says nothing of the provider changes neither count nor
\* window.
LEMMA NeutralStreaks ==
    ASSUME CountsAreStreaks, NEW e, Neutral(e), Record(e), Remember(e)
    PROVE  CountsAreStreaks' /\ StreaksHold
<1>1. RecordNeutral
  BY DEF Record, Neutral, Failure, Success
<1>2. UNCHANGED <<state, failures, successes, recent>>
  BY <1>1 DEF RecordNeutral, Remember
<1>3. QED
  BY <1>2 DEF CountsAreStreaks, Streak, StreaksHold

\* A result recorded while closed.
LEMMA ClosedStreaks ==
    ASSUME TypeOK, RecentTypeOK, CountersBounded, CountsAreStreaks,
           NEW e, ~Neutral(e), Record(e), Remember(e), state = "closed"
    PROVE  CountsAreStreaks' /\ StreaksHold
<1>0. RecentTypeOK'
  BY RememberedLast
<1>1. CASE Failure(e)
  <2>1. ~Success(e)
    BY <1>1 DEF Failure, Success, Retryable, IsLimitError, NoError
  <2>2. RecordClosedFailure
    BY <1>1, <2>1 DEF Record, Neutral
  <2>3. failures \in Nat /\ failures + 1 <= FailureThreshold
    BY DEF TypeOK, CountersBounded
  <2>4. failures + 1 <= Window
    BY <2>3, WindowRoom
  <2>5. Success(e) = FALSE
    BY <2>1 DEF Success
  <2>6. Streak(failures, state, Success(e))
    BY <2>5 DEF CountsAreStreaks
  <2>7. /\ Len(recent') >= failures + 1
        /\ \A i \in Len(recent') - failures .. Len(recent') :
              recent'[i] = [in |-> "closed", ok |-> FALSE]
    BY <2>3, <2>4, <2>5, <2>6, StreakGrows
  <2>8. CASE failures + 1 >= FailureThreshold
    <3>1. state' = "open"
      BY <2>2, <2>8 DEF RecordClosedFailure, Trip
    <3>2. FailureThreshold = failures + 1
      BY <2>3, <2>8
    <3>3. Len(recent') \in Nat
      BY <1>0 DEF RecentTypeOK
    <3>4. /\ Len(recent') >= FailureThreshold
          /\ Len(recent') - FailureThreshold + 1 = Len(recent') - failures
      BY <2>3, <2>7, <3>2, <3>3
    <3>5. Streak(FailureThreshold, "closed", FALSE)'
      BY <2>7, <3>4 DEF Streak
    <3>6. QED
      BY <3>1, <3>5 DEF CountsAreStreaks, StreaksHold
  <2>9. CASE ~(failures + 1 >= FailureThreshold)
    <3>1. state' = state /\ failures' = failures + 1
      BY <2>2, <2>9 DEF RecordClosedFailure
    <3>2. Len(recent') - failures' + 1 = Len(recent') - failures
      BY <1>0, <2>3, <3>1 DEF RecentTypeOK
    <3>3. Streak(failures, "closed", FALSE)'
      BY <2>7, <3>1, <3>2 DEF Streak
    <3>4. QED
      BY <3>1, <3>3 DEF CountsAreStreaks, StreaksHold
  <2>10. QED
    BY <2>8, <2>9
<1>2. CASE Success(e)
  <2>1. RecordClosedSuccess
    BY <1>2 DEF Record, Neutral, Failure, Success, Retryable, IsLimitError, NoError
  <2>2. state' = "closed" /\ failures' = 0
    BY <2>1 DEF RecordClosedSuccess
  <2>3. Streak(0, "closed", FALSE)'
    BY <1>0 DEF Streak, RecentTypeOK
  <2>4. Streak(failures, "closed", FALSE)'
    BY <2>2, <2>3 DEF Streak
  <2>5. QED
    BY <2>2, <2>4 DEF CountsAreStreaks, StreaksHold
<1>3. QED
  BY <1>1, <1>2 DEF Neutral

\* A result recorded while half open.
LEMMA HalfOpenStreaks ==
    ASSUME TypeOK, RecentTypeOK, CountersBounded, CountsAreStreaks,
           NEW e, ~Neutral(e), Record(e), Remember(e), state = "halfOpen"
    PROVE  CountsAreStreaks' /\ StreaksHold
<1>0. RecentTypeOK'
  BY RememberedLast
<1>1. CASE ~Success(e)
  <2>1. Trip
    BY <1>1 DEF Record, Neutral
  <2>2. QED
    BY <2>1 DEF Trip, CountsAreStreaks, StreaksHold
<1>2. CASE Success(e)
  <2>1. RecordHalfOpenSuccess
    BY <1>2 DEF Record, Neutral, Failure, Success, Retryable, IsLimitError, NoError
  <2>2. successes \in Nat /\ successes + 1 <= SuccessThreshold
    BY DEF TypeOK, CountersBounded
  <2>3. successes + 1 <= Window
    BY <2>2, WindowRoom
  <2>4. Success(e) = TRUE
    BY <1>2 DEF Success
  <2>5. Streak(successes, state, Success(e))
    BY <2>4 DEF CountsAreStreaks
  <2>6. /\ Len(recent') >= successes + 1
        /\ \A i \in Len(recent') - successes .. Len(recent') :
              recent'[i] = [in |-> "halfOpen", ok |-> TRUE]
    BY <2>2, <2>3, <2>4, <2>5, StreakGrows
  <2>7. Len(recent') \in Nat
    BY <1>0 DEF RecentTypeOK
  <2>8. CASE successes + 1 >= SuccessThreshold
    <3>1. state' = "closed" /\ failures' = 0
      BY <2>1, <2>8 DEF RecordHalfOpenSuccess
    <3>2. SuccessThreshold = successes + 1
      BY <2>2, <2>8
    <3>3. /\ Len(recent') >= SuccessThreshold
          /\ Len(recent') - SuccessThreshold + 1 = Len(recent') - successes
      BY <2>2, <2>6, <2>7, <3>2
    <3>4. Streak(SuccessThreshold, "halfOpen", TRUE)'
      BY <2>6, <3>3 DEF Streak
    <3>5. Streak(0, "closed", FALSE)'
      BY <1>0 DEF Streak, RecentTypeOK
    <3>6. Streak(failures, "closed", FALSE)'
      BY <3>1, <3>5 DEF Streak
    <3>7. QED
      BY <3>1, <3>4, <3>6 DEF CountsAreStreaks, StreaksHold
  <2>9. CASE ~(successes + 1 >= SuccessThreshold)
    <3>1. state' = state /\ successes' = successes + 1
      BY <2>1, <2>9 DEF RecordHalfOpenSuccess
    <3>2. Len(recent') - successes' + 1 = Len(recent') - successes
      BY <2>2, <2>7, <3>1
    <3>3. Streak(successes, "halfOpen", TRUE)'
      BY <2>6, <3>1, <3>2 DEF Streak
    <3>4. QED
      BY <3>1, <3>3 DEF CountsAreStreaks, StreaksHold
  <2>10. QED
    BY <2>8, <2>9
<1>3. QED
  BY <1>1, <1>2

\* A result recorded while open leaves it open.
LEMMA OpenStreaks ==
    ASSUME NEW e, ~Neutral(e), Record(e), state = "open"
    PROVE  CountsAreStreaks' /\ StreaksHold
<1>1. state' = "open"
  BY DEF Record, Trip, RecordOpenSuccess
<1>2. QED
  BY <1>1 DEF CountsAreStreaks, StreaksHold

\* The window keeps its type.
LEMMA ReturnWindow ==
    ASSUME TypeOK, RecentTypeOK, NEW e, Remember(e)
    PROVE  RecentTypeOK'
<1>1. CASE Neutral(e)
  BY <1>1 DEF Remember, RecentTypeOK, Window
<1>2. CASE ~Neutral(e)
  BY <1>2, RememberedLast
<1>3. QED
  BY <1>1, <1>2

\* The breaker opens only at the end of FailureThreshold failures in a row,
\* all recorded while it was closed, and closes only at the end of
\* SuccessThreshold successes in a row, all recorded while it was half open,
\* for any thresholds, callers and order of results (record).
THEOREM StreaksAlwaysDecide == HSpec => StreaksDecide
<1> DEFINE Inv == TypeOK /\ CountersBounded /\ RecentTypeOK /\ CountsAreStreaks
<1>1. HInit => RecentTypeOK /\ CountsAreStreaks
  <2>1. HInit => RecentTypeOK
    BY WindowRoom DEF HInit, RecentTypeOK
  <2>2. HInit => Streak(failures, "closed", FALSE) /\ state = "closed"
    BY DEF HInit, Init, Streak
  <2>3. QED
    BY <2>1, <2>2 DEF CountsAreStreaks
<1>2. Inv /\ [HNext]_hvars => RecentTypeOK' /\ CountsAreStreaks' /\ StreaksHold
  <2> SUFFICES ASSUME Inv, [HNext]_hvars
               PROVE  RecentTypeOK' /\ CountsAreStreaks' /\ StreaksHold
    OBVIOUS
  <2>1. ASSUME NEW c \in Callers, NEW e \in Outcomes, HReturn(c, e)
        PROVE  RecentTypeOK' /\ CountsAreStreaks' /\ StreaksHold
    <3>1. Record(e) /\ Remember(e)
      BY <2>1 DEF HReturn, Return
    <3>2. CASE Neutral(e)
      BY <3>1, <3>2, NeutralStreaks, ReturnWindow
    <3>3. CASE ~Neutral(e)
      BY <3>1, <3>3, ClosedStreaks, HalfOpenStreaks, OpenStreaks, ReturnWindow
         DEF TypeOK
    <3>4. QED
      BY <3>2, <3>3
  <2>2. ASSUME NEW c \in Callers, HAdmit(c)
        PROVE  RecentTypeOK' /\ CountsAreStreaks' /\ StreaksHold
    <3>1. recent' = recent
      BY <2>2 DEF HAdmit
    <3>2. RecentTypeOK'
      BY <3>1 DEF RecentTypeOK, Window
    <3>3. CASE AdmitClosed(c) \/ AdmitNextProbe(c)
      <4>1. UNCHANGED <<state, failures, successes>>
        BY <3>3 DEF AdmitClosed, AdmitNextProbe
      <4>2. QED
        BY <3>1, <3>2, <4>1 DEF CountsAreStreaks, Streak, StreaksHold
    <3>4. CASE AdmitFirstProbe(c)
      <4>1. state = "open" /\ state' = "halfOpen" /\ successes' = 0
        BY <3>4 DEF AdmitFirstProbe
      <4>2. Streak(0, "halfOpen", TRUE)'
        BY <3>2 DEF Streak, RecentTypeOK
      <4>3. Streak(successes, "halfOpen", TRUE)'
        BY <4>1, <4>2 DEF Streak
      <4>4. QED
        BY <3>2, <4>1, <4>3 DEF CountsAreStreaks, StreaksHold
    <3>5. QED
      BY <2>2, <3>3, <3>4 DEF HAdmit, Admit
  <2>3. CASE UNCHANGED <<state, failures, successes, recent>>
    BY <2>3 DEF RecentTypeOK, Window, CountsAreStreaks, Streak, StreaksHold
  <2>4. ASSUME NEW c \in Callers, HReject(c)
        PROVE  UNCHANGED <<state, failures, successes, recent>>
    BY <2>4 DEF HReject, Reject, vars
  <2>5. HTick => UNCHANGED <<state, failures, successes, recent>>
    BY DEF HTick, Tick
  <2>6. UNCHANGED hvars => UNCHANGED <<state, failures, successes, recent>>
    BY DEF hvars, vars
  <2>7. QED
    BY <2>1, <2>2, <2>3, <2>4, <2>5, <2>6 DEF HNext, HReturns
<1>3. StreaksHold => (/\ state = "closed" /\ state' = "open"
                             => Streak(FailureThreshold, "closed", FALSE)'
                      /\ state = "halfOpen" /\ state' = "closed"
                             => Streak(SuccessThreshold, "halfOpen", TRUE)')
  BY DEF StreaksHold
<1>4. QED
  BY <1>1, <1>2, <1>3, HistoryRefines, TypeCorrect, CountersStayBounded, PTL
     DEF HSpec, StreaksDecide

USE RetryAssumption DEF RetryAssumption

-----------------------------------------------------------------------------
(***************************************************************************)
(* The chain: arithmetic of the backoff                                    *)
(***************************************************************************)

\* A factor of at most two on a capped delay, rounded up.
LEMMA AtMostDoubled ==
    ASSUME NEW d \in Nat, NEW den \in Nat \ {0}, NEW num \in 0..den
    PROVE  /\ (d * (den - num)) \div den \in Nat
           /\ (d * (den + num) + den - 1) \div den \in Nat
           /\ (d * (den + num) + den - 1) \div den <= 2 * d
<1> DEFINE up == d * (den + num)
<1>1. up \in Nat /\ d * (den - num) \in Nat
  OBVIOUS
<1>2. up <= d * (2 * den)
  <2>1. den + num <= 2 * den /\ den + num \in Nat
    OBVIOUS
  <2>2. QED
    BY <2>1
<1>3. d * (2 * den) = den * (2 * d)
  OBVIOUS
<1> HIDE DEF up
<1>4. up + den - 1 < den * (2 * d + 1)
  <2>1. den * (2 * d + 1) = den * (2 * d) + den
    OBVIOUS
  <2>2. den * (2 * d) \in Nat
    OBVIOUS
  <2>3. QED
    BY <1>1, <1>2, <1>3, <2>1, <2>2
<1>5. (up + den - 1) \div den \in Nat
  BY <1>1
<1>6. (up + den - 1) \div den <= 2 * d
  <2>1. SUFFICES ASSUME (up + den - 1) \div den >= 2 * d + 1 PROVE FALSE
    BY <1>5
  <2>2. den * ((up + den - 1) \div den) <= up + den - 1
    BY <1>1
  <2>3. den * (2 * d + 1) <= den * ((up + den - 1) \div den)
    BY <1>5, <2>1
  <2>4. QED
    BY <1>1, <1>4, <1>5, <2>2, <2>3
<1>7. QED
  BY <1>1, <1>5, <1>6 DEF up

\* The jitter stretches a capped delay to no more than twice the cap.
LEMMA WaitsBounded ==
    ASSUME NEW c \in Callers, delay[c] \in Nat, NEW w \in Waits(c)
    PROVE  w \in 0..2 * MaxDelay
<1>1. PICK hint \in Hints : w \in Jittered(Least(Most(delay[c], hint), MaxDelay))
  BY DEF Waits
<1> DEFINE d == Least(Most(delay[c], hint), MaxDelay)
<1>2. d \in Nat /\ d <= MaxDelay
  BY DEF Least, Most
<1> HIDE DEF d
<1>3. /\ (d * (JitterDen - JitterNum)) \div JitterDen \in Nat
      /\ (d * (JitterDen + JitterNum) + JitterDen - 1) \div JitterDen \in Nat
      /\ (d * (JitterDen + JitterNum) + JitterDen - 1) \div JitterDen <= 2 * d
  BY <1>2, AtMostDoubled
<1>4. w \in (d * (JitterDen - JitterNum)) \div JitterDen ..
            (d * (JitterDen + JitterNum) + JitterDen - 1) \div JitterDen
  BY <1>1 DEF d, Jittered
<1>5. QED
  BY <1>2, <1>3, <1>4

-----------------------------------------------------------------------------
(***************************************************************************)
(* Type correctness                                                        *)
(***************************************************************************)

\* A caller that waits has another attempt left.
AttemptsLeft == \A c \in Callers : pc[c] = "backoff" => attempt[c] < MaxAttempts

\* What the limiter may give up with is a result.
LEMMA RejectionsAreResults ==
    /\ Rejections \subseteq Results
    /\ \A c \in Callers : LoopTypeOK /\ actx[c] # "live"
           => LimitErr(FALSE, actx[c]) \in Results
<1>1. \A permanent \in BOOLEAN : LimitErr(permanent, "none") \in Results
  BY DEF LimitErr, LimitErrors, CallErrors, Results
<1>2. Rejections \subseteq Results
  BY <1>1, RetryAssumption DEF RetryAssumption, CallErrors, Results
<1>3. ASSUME NEW c \in Callers, LoopTypeOK, actx[c] # "live"
      PROVE  LimitErr(FALSE, actx[c]) \in Results
  <2>1. actx[c] \in {"canceled", "deadline"}
    BY <1>3 DEF LoopTypeOK, Contexts
  <2>2. QED
    BY <2>1 DEF LimitErr, LimitErrors, CallErrors, Results
<1>4. QED
  BY <1>2, <1>3

\* The adapter's class of a context that ended.
LEMMA ClassifiedContext ==
    ASSUME LoopTypeOK, NEW c \in Callers, actx[c] # "live"
    PROVE  /\ Classify([what |-> actx[c]]) \in Results
           /\ actx[c] = "canceled" => Classify([what |-> actx[c]]) = [type |-> "canceled"]
           /\ actx[c] = "deadline"
                  => Classify([what |-> actx[c]]) = [type |-> "provider", kind |-> "timeout"]
<1>1. actx[c] \in {"canceled", "deadline"}
  BY DEF LoopTypeOK, Contexts
<1>2. CASE actx[c] = "canceled"
  <2>1. Classify([what |-> actx[c]]) = [type |-> "canceled"]
    BY <1>2 DEF Classify
  <2>2. QED
    BY <1>2, <2>1 DEF Results, CallErrors, OtherErrors
<1>3. CASE actx[c] = "deadline"
  <2>1. Classify([what |-> actx[c]]) = [type |-> "provider", kind |-> "timeout"]
    BY <1>3 DEF Classify
  <2>2. QED
    BY <1>3, <2>1 DEF Results, CallErrors, ProviderErrors, ErrorKinds
<1>4. QED
  BY <1>1, <1>2, <1>3

\* The end of an attempt, with any result, keeps the types of the loop.
LEMMA AttemptOverTypeOK ==
    ASSUME LoopTypeOK, AttemptsLeft, NEW c \in Callers, NEW e \in Results,
           AttemptOver(c, e)
    PROVE  LoopTypeOK' /\ AttemptsLeft'
<1>1. /\ UNCHANGED <<attempt, delay, ctx>>
      /\ actx' = [actx EXCEPT ![c] = "live"]
      /\ timeLeft' = [timeLeft EXCEPT ![c] = 0]
  BY DEF AttemptOver, loop
<1>2. CASE Final(c, e) /\ Finish(c, e) /\ UNCHANGED backoffLeft
  BY <1>1, <1>2 DEF LoopTypeOK, AttemptsLeft, Finish, Goto, Contexts
<1>3. CASE /\ ~Final(c, e)
           /\ Goto(c, "backoff")
           /\ \E wait \in Waits(c) : backoffLeft' = [backoffLeft EXCEPT ![c] = wait]
           /\ UNCHANGED result
  <2>1. delay[c] \in Nat
    BY DEF LoopTypeOK, Most
  <2>2. backoffLeft' \in [Callers -> 0..2 * MaxDelay]
    BY <1>3, <2>1, WaitsBounded DEF LoopTypeOK
  <2>3. attempt[c] < MaxAttempts
    BY <1>3 DEF Final, LoopTypeOK
  <2>4. pc' = [pc EXCEPT ![c] = "backoff"] /\ UNCHANGED result
    BY <1>3 DEF Goto
  <2>5. LoopTypeOK'
    BY <1>1, <2>2, <2>4 DEF LoopTypeOK, Contexts
  <2>6. AttemptsLeft'
    BY <1>1, <2>3, <2>4 DEF LoopTypeOK, AttemptsLeft
  <2>7. QED
    BY <2>5, <2>6
<1>4. QED
  BY <1>2, <1>3 DEF AttemptOver

\* Whichever way an attempt ends, it ends with a result that the breaker
\* records and the loop judges, or with a panic.
LEMMA AttemptEnds ==
    ASSUME LoopTypeOK, NEW c \in Callers,
           \/ LimiterRejects(c) \/ LimiterCtxDone(c)
           \/ ProviderAnswers(c) \/ ProviderCtxDone(c)
    PROVE  \E e \in Results :
               /\ pc[c] \in {"reserving", "calling"}
               /\ Return(c, e)
               /\ AttemptOver(c, e)
<1>1. CASE LimiterRejects(c)
  BY <1>1, RejectionsAreResults DEF LimiterRejects, ReserveFails
<1>2. CASE LimiterCtxDone(c)
  BY <1>2, RejectionsAreResults DEF LimiterCtxDone, ReserveFails
<1>3. CASE ProviderAnswers(c)
  BY <1>3, EnvironmentAssumption
     DEF EnvironmentAssumption, ProviderAnswers, ProviderReturns
<1>4. CASE ProviderCtxDone(c)
  BY <1>4, ClassifiedContext DEF ProviderCtxDone, ProviderReturns
<1>5. QED
  BY <1>1, <1>2, <1>3, <1>4

\* The loop's own steps and the other steps of an attempt keep the types.
LEMMA LoopTypeStep ==
    ASSUME LoopTypeOK, AttemptsLeft, [ChNext]_chvars
    PROVE  LoopTypeOK' /\ AttemptsLeft'
<1> USE DEF LoopTypeOK, AttemptsLeft, Contexts, Goto, Finish, Leave, loop
<1>1. ASSUME NEW c \in Callers, Begin(c) PROVE LoopTypeOK' /\ AttemptsLeft'
  BY <1>1 DEF Begin, Most
<1>2. ASSUME NEW c \in Callers, BackoffOver(c)
      PROVE  LoopTypeOK' /\ AttemptsLeft'
  <2>1. attempt[c] + 1 \in 0..MaxAttempts
    BY <1>2 DEF BackoffOver
  <2>2. delay[c] * BackoffFactor \in Nat
    BY DEF Most
  <2>3. Least(delay[c] * BackoffFactor, MaxDelay) \in 0..Most(InitialDelay, MaxDelay)
    BY <2>2 DEF Least, Most
  <2>4. QED
    BY <1>2, <2>1, <2>3 DEF BackoffOver
<1>3. ASSUME NEW c \in Callers, BackoffAborted(c)
      PROVE  LoopTypeOK' /\ AttemptsLeft'
  <2>1. [type |-> ctx[c]] \in Results
    BY <1>3 DEF BackoffAborted, Results, CallErrors, OtherErrors
  <2>2. QED
    BY <1>3, <2>1 DEF BackoffAborted
<1>4. ASSUME NEW c \in Callers, Forget(c) PROVE LoopTypeOK' /\ AttemptsLeft'
  BY <1>4 DEF Forget, Most, Results
<1>5. ASSUME NEW c \in Callers, Admitted(c)
      PROVE  LoopTypeOK' /\ AttemptsLeft'
  BY <1>5 DEF Admitted
<1>6. ASSUME NEW c \in Callers, Rejected(c)
      PROVE  LoopTypeOK' /\ AttemptsLeft'
  <2>1. [type |-> "circuit_open"] \in Results
    BY DEF Results, CallErrors, OtherErrors
  <2>2. QED
    BY <1>6, <2>1 DEF Rejected
<1>7. ASSUME NEW c \in Callers, Reserved(c)
      PROVE  LoopTypeOK' /\ AttemptsLeft'
  BY <1>7 DEF Reserved
<1>8. ASSUME NEW c \in Callers,
             \/ LimiterRejects(c) \/ LimiterCtxDone(c)
             \/ ProviderAnswers(c) \/ ProviderCtxDone(c)
      PROVE  LoopTypeOK' /\ AttemptsLeft'
  BY <1>8, AttemptEnds, AttemptOverTypeOK
<1>9. ASSUME NEW c \in Callers, ProviderPanics(c)
      PROVE  LoopTypeOK' /\ AttemptsLeft'
  BY <1>9 DEF ProviderPanics, Most
<1>10. ASSUME NEW c \in Callers, NEW how \in CallerEnds, CallerCtxEnd(c, how)
       PROVE  LoopTypeOK' /\ AttemptsLeft'
  BY <1>10 DEF CallerCtxEnd
<1>11. CASE ChTick
  BY <1>11 DEF ChTick, Down
<1>12. CASE UNCHANGED chvars
  BY <1>12 DEF chvars
<1>13. QED
  BY <1>1, <1>2, <1>3, <1>4, <1>5, <1>6, <1>7, <1>8, <1>9, <1>10, <1>11, <1>12
     DEF ChNext

\* Every step of the chain is a step of the breaker, or leaves it alone but
\* for the time.
LEMMA BreakerTypeStep ==
    ASSUME TypeOK, LoopTypeOK, [ChNext]_chvars
    PROVE  TypeOK'
<1>1. ASSUME NEW c \in Callers, Admitted(c) PROVE TypeOK'
  BY <1>1, AdmitTypeOK DEF Admitted
<1>2. ASSUME NEW c \in Callers,
             \/ LimiterRejects(c) \/ LimiterCtxDone(c)
             \/ ProviderAnswers(c) \/ ProviderCtxDone(c)
      PROVE  TypeOK'
  BY <1>2, AttemptEnds, ReturnTypeOK
<1>3. ASSUME NEW c \in Callers, ProviderPanics(c) PROVE TypeOK'
  BY <1>3 DEF ProviderPanics, Panic, TypeOK
<1>4. CASE ChTick
  <2>1. UNCHANGED <<state, failures, successes, probing, call>>
    BY <1>4 DEF ChTick
  <2>2. remaining' \in 0..OpenTimeout
    BY <1>4 DEF ChTick, TypeOK
  <2>3. QED
    BY <2>1, <2>2 DEF TypeOK
<1>5. CASE UNCHANGED vars
  BY <1>5 DEF TypeOK, vars
<1>6. QED
  BY <1>1, <1>2, <1>3, <1>4, <1>5
     DEF ChNext, Begin, BackoffOver, BackoffAborted, Forget, Rejected, Reject,
         Reserved, CallerCtxEnd, chvars

\* Every reachable state of the chain has the declared types; in particular
\* a backoff, stretched by a jitter of at most one, lasts no longer than
\* twice the cap (retry, jitter).
THEOREM ChainTypeCorrect == ChSpec => [](ChTypeOK /\ AttemptsLeft)
<1>1. ChInit => ChTypeOK /\ AttemptsLeft
  <2>1. ChInit => TypeOK
    <3>1. ChInit => probing \in BOOLEAN
      BY DEF ChInit, Init
    <3>2. QED
      BY <3>1 DEF ChInit, Init, TypeOK
  <2>2. ChInit => LoopTypeOK
    BY DEF ChInit, LoopTypeOK, Contexts, Most, Results
  <2>3. ChInit => AttemptsLeft
    BY DEF ChInit, AttemptsLeft
  <2>4. QED
    BY <2>1, <2>2, <2>3 DEF ChTypeOK
<1>2. ChTypeOK /\ AttemptsLeft /\ [ChNext]_chvars => ChTypeOK' /\ AttemptsLeft'
  BY LoopTypeStep, BreakerTypeStep DEF ChTypeOK
<1>3. QED
  BY <1>1, <1>2, PTL DEF ChSpec

-----------------------------------------------------------------------------
(***************************************************************************)
(* Whom the breaker blames                                                 *)
(***************************************************************************)

\* Nothing the limiter gives up with is a health signal.
LEMMA RejectionsAreNeutral ==
    /\ \A e \in Rejections : Neutral(e)
    /\ \A cause : Neutral(LimitErr(FALSE, cause))
<1>1. \A permanent, cause : Neutral(LimitErr(permanent, cause))
  BY DEF Neutral, Success, Failure, LimitErr, IsLimitError, NoError
<1>2. \A e \in BackendErrors : Neutral(e)
  BY DEF Neutral, Success, Failure, Retryable, BackendErrors, NoError
<1>3. QED
  BY <1>1, <1>2, RetryAssumption DEF RetryAssumption

\* A call that is turned away before it reaches the provider neither counts
\* as a failure nor trips the breaker, whatever turned it away (record).
THEOREM OnlyTheProviderIsBlamed == ChSpec => BlamesProviderOnly
<1> DEFINE Blameless ==
        \A c \in Callers :
            pc[c] = "reserving" /\ call'[c] = "idle" /\ call[c] # "idle"
                => /\ failures' = failures
                   /\ state' = state
<1>1. ChTypeOK /\ [ChNext]_chvars => Blameless
  <2> SUFFICES ASSUME ChTypeOK, [ChNext]_chvars, NEW c \in Callers,
                      pc[c] = "reserving", call'[c] = "idle", call[c] # "idle"
               PROVE  failures' = failures /\ state' = state
    OBVIOUS
  <2>1. call \in [Callers -> {"idle", "ordinary", "probe"}]
    BY DEF ChTypeOK, TypeOK
  <2>2. ASSUME NEW d \in Callers, LimiterRejects(d) \/ LimiterCtxDone(d)
        PROVE  failures' = failures /\ state' = state
    <3>1. PICK e : Neutral(e) /\ Return(d, e)
      BY <2>2, RejectionsAreNeutral DEF LimiterRejects, LimiterCtxDone, ReserveFails
    <3>2. RecordNeutral
      BY <3>1 DEF Return, Record, Neutral
    <3>3. QED
      BY <3>2 DEF RecordNeutral
  <2>3. ASSUME NEW d \in Callers,
               ProviderAnswers(d) \/ ProviderCtxDone(d) \/ ProviderPanics(d)
        PROVE  FALSE
    <3>1. pc[d] = "calling" /\ call' = [call EXCEPT ![d] = "idle"]
      BY <2>3 DEF ProviderAnswers, ProviderCtxDone, ProviderReturns, Return,
                  ProviderPanics, Panic
    <3>2. QED
      BY <2>1, <3>1
  <2>4. ASSUME NEW d \in Callers, Admitted(d) PROVE FALSE
    <3>1. pc[d] = "attempting"
      BY <2>4 DEF Admitted
    <3>2. \E how : call' = [call EXCEPT ![d] = how]
      BY <2>4 DEF Admitted, Admit, AdmitClosed, AdmitFirstProbe, AdmitNextProbe
    <3>3. QED
      BY <2>1, <3>1, <3>2
  <2>5. call' # call
    OBVIOUS
  <2>6. ASSUME NEW d \in Callers,
               \/ Begin(d) \/ BackoffOver(d) \/ BackoffAborted(d) \/ Forget(d)
               \/ Rejected(d) \/ Reserved(d)
               \/ \E how \in CallerEnds : CallerCtxEnd(d, how)
        PROVE  FALSE
    BY <2>5, <2>6
       DEF Begin, BackoffOver, BackoffAborted, Forget, Rejected, Reject,
           Reserved, CallerCtxEnd, vars
  <2>7. ~ChTick
    BY <2>5 DEF ChTick
  <2>8. ~UNCHANGED chvars
    BY <2>5 DEF chvars, vars
  <2>9. QED
    BY <2>2, <2>3, <2>4, <2>6, <2>7, <2>8 DEF ChNext
<1>2. QED
  BY <1>1, ChainTypeCorrect, PTL DEF ChSpec, BlamesProviderOnly

-----------------------------------------------------------------------------
(***************************************************************************)
(* What Complete returns                                                   *)
(***************************************************************************)

\* A retryable error is returned only when the attempts are used up (retry).
THEOREM AttemptsAreUsed == ChSpec => []GivesUpInTheEnd
<1>1. ChInit => GivesUpInTheEnd
  BY DEF ChInit, GivesUpInTheEnd
<1>2. ChTypeOK /\ GivesUpInTheEnd /\ [ChNext]_chvars => GivesUpInTheEnd'
  <2> SUFFICES ASSUME ChTypeOK, GivesUpInTheEnd, [ChNext]_chvars,
                      NEW d \in Callers, pc'[d] = "returned",
                      Retryable(result[d])'
               PROVE  attempt'[d] = MaxAttempts
    BY DEF GivesUpInTheEnd
  <2> USE DEF Goto, Finish, Leave, loop
  <2>1. LoopTypeOK
    BY DEF ChTypeOK
  <2>2. CASE /\ pc'[d] = pc[d] /\ result'[d] = result[d]
             /\ attempt'[d] = attempt[d]
    BY <2>2 DEF GivesUpInTheEnd, Retryable
  <2>3. ASSUME NEW c \in Callers,
               \/ LimiterRejects(c) \/ LimiterCtxDone(c)
               \/ ProviderAnswers(c) \/ ProviderCtxDone(c)
        PROVE  attempt'[d] = MaxAttempts
    <3>1. PICK e \in Results : AttemptOver(c, e)
      BY <2>1, <2>3, AttemptEnds
    <3>2. attempt' = attempt
      BY <3>1 DEF AttemptOver
    <3>3. CASE c # d
      <4>1. pc'[d] = pc[d] /\ result'[d] = result[d]
        BY <2>1, <3>1, <3>3 DEF AttemptOver, LoopTypeOK
      <4>2. QED
        BY <2>2, <3>2, <4>1
    <3>4. CASE c = d
      <4>1. Final(d, e) /\ result'[d] = e
        BY <2>1, <3>1, <3>4 DEF AttemptOver, LoopTypeOK
      <4>2. Retryable(e)
        BY <4>1 DEF Retryable
      <4>3. e # NoError
        BY <4>2 DEF Retryable, NoError
      <4>4. QED
        BY <3>2, <4>1, <4>2, <4>3 DEF Final
    <3>5. QED
      BY <3>3, <3>4
  <2>4. ASSUME NEW c \in Callers, BackoffAborted(c) \/ Rejected(c)
        PROVE  attempt'[d] = MaxAttempts
    <3>1. PICK word \in {"canceled", "deadline", "circuit_open"} :
              /\ pc' = [pc EXCEPT ![c] = "returned"]
              /\ result' = [result EXCEPT ![c] = [type |-> word]]
              /\ attempt' = attempt
      BY <2>1, <2>4 DEF BackoffAborted, Rejected, LoopTypeOK, Contexts
    <3>2. CASE c = d
      <4>1. result'[d] = [type |-> word]
        BY <2>1, <3>1, <3>2 DEF LoopTypeOK
      <4>2. QED
        BY <3>1, <4>1 DEF Retryable
    <3>3. CASE c # d
      <4>1. pc'[d] = pc[d] /\ result'[d] = result[d] /\ attempt'[d] = attempt[d]
        BY <2>1, <3>1, <3>3 DEF LoopTypeOK
      <4>2. QED
        BY <2>2, <4>1
    <3>4. QED
      BY <3>2, <3>3
  <2>5. ASSUME NEW c \in Callers,
               \/ Begin(c) \/ BackoffOver(c) \/ Forget(c)
               \/ Admitted(c) \/ Reserved(c) \/ ProviderPanics(c)
        PROVE  attempt'[d] = MaxAttempts
    <3>1. /\ pc'[c] # "returned"
          /\ c # d => /\ pc'[d] = pc[d]
                      /\ result'[d] = result[d]
                      /\ attempt'[d] = attempt[d]
      BY <2>1, <2>5 DEF Begin, BackoffOver, Forget, Admitted, Reserved,
                        ProviderPanics, LoopTypeOK
    <3>2. QED
      BY <2>2, <3>1
  <2>6. ASSUME NEW c \in Callers, NEW how \in CallerEnds, CallerCtxEnd(c, how)
        PROVE  attempt'[d] = MaxAttempts
    BY <2>2, <2>6 DEF CallerCtxEnd
  <2>7. CASE ChTick
    BY <2>2, <2>7 DEF ChTick
  <2>8. CASE UNCHANGED chvars
    BY <2>2, <2>8 DEF chvars
  <2>9. QED
    BY <2>3, <2>4, <2>5, <2>6, <2>7, <2>8 DEF ChNext
<1>3. QED
  BY <1>1, <1>2, ChainTypeCorrect, PTL DEF ChSpec

\* What ties the two contexts of a caller together: the one of an attempt
\* exists only inside the attempt, and it is canceled only by the caller.
ContextsTied ==
    \A c \in Callers :
        /\ pc[c] \notin {"reserving", "calling"} => actx[c] = "live" /\ timeLeft[c] = 0
        /\ actx[c] = "canceled" => ctx[c] # "live"

\* Every step keeps them tied.
LEMMA ContextsTiedStep ==
    ASSUME LoopTypeOK, ContextsTied, [ChNext]_chvars
    PROVE  ContextsTied'
<1> USE DEF LoopTypeOK, Contexts, ContextsTied, Goto, Finish, Leave, loop
<1>1. ASSUME NEW c \in Callers,
             \/ Begin(c) \/ BackoffOver(c) \/ BackoffAborted(c) \/ Forget(c)
             \/ Rejected(c)
      PROVE  ContextsTied'
  BY <1>1 DEF Begin, BackoffOver, BackoffAborted, Forget, Rejected
<1>2. ASSUME NEW c \in Callers, Admitted(c) \/ Reserved(c)
      PROVE  ContextsTied'
  BY <1>2 DEF Admitted, Reserved
<1>3. ASSUME NEW c \in Callers,
             \/ LimiterRejects(c) \/ LimiterCtxDone(c)
             \/ ProviderAnswers(c) \/ ProviderCtxDone(c)
      PROVE  ContextsTied'
  <2>1. PICK e \in Results : AttemptOver(c, e)
    BY <1>3, AttemptEnds
  <2>2. /\ actx' = [actx EXCEPT ![c] = "live"]
        /\ timeLeft' = [timeLeft EXCEPT ![c] = 0]
        /\ ctx' = ctx
        /\ \E where \in {"returned", "backoff"} : pc' = [pc EXCEPT ![c] = where]
    BY <2>1 DEF AttemptOver
  <2>3. QED
    BY <2>2
<1>4. ASSUME NEW c \in Callers, ProviderPanics(c) PROVE ContextsTied'
  BY <1>4 DEF ProviderPanics
<1>5. ASSUME NEW c \in Callers, NEW how \in CallerEnds, CallerCtxEnd(c, how)
      PROVE  ContextsTied'
  <2>1. how # "live"
    OBVIOUS
  <2>2. QED
    BY <1>5, <2>1 DEF CallerCtxEnd
<1>6. CASE ChTick
  BY <1>6 DEF ChTick, Down
<1>7. CASE UNCHANGED chvars
  BY <1>7 DEF chvars
<1>8. QED
  BY <1>1, <1>2, <1>3, <1>4, <1>5, <1>6, <1>7 DEF ChNext

\* The adapters' part: a provider's own answers hold no context error that is
\* not classified.
AdaptersClassify == \A e \in Outcomes : ContextErrorIn(e) = "none"

\* What a caller may be handed as the error of its own context, or of a limiter.
Owned(c, e) ==
    ctx[c] = "live" =>
        /\ ContextErrorIn(e) # "canceled"
        /\ ContextErrorIn(e) = "deadline" =>
              \/ IsLimitError(e) /\ attempt[c] = MaxAttempts
              \/ e \in BackendErrors

\* What the limiter gives up with on its own holds no context error but a
\* backend's deadline.
LEMMA RejectionsAreOwned ==
    ASSUME NEW c \in Callers, NEW e \in Rejections
    PROVE  Owned(c, e)
<1>1. CASE e \in BackendErrors
  <2>1. e.type = "backend" /\ e.cause \in {"none", "deadline"}
    BY <1>1 DEF BackendErrors
  <2>2. ContextErrorIn(e) = e.cause
    BY <2>1 DEF ContextErrorIn
  <2>3. QED
    BY <1>1, <2>1, <2>2 DEF Owned
<1>2. ASSUME NEW permanent \in BOOLEAN, e = LimitErr(permanent, "none")
      PROVE  Owned(c, e)
  <2>1. e.type = "limit" /\ e.cause = "none"
    BY <1>2 DEF LimitErr
  <2>2. ContextErrorIn(e) = "none"
    BY <2>1 DEF ContextErrorIn
  <2>3. QED
    BY <2>2 DEF Owned
<1>3. QED
  BY <1>1, <1>2, RetryAssumption DEF RetryAssumption

\* The limiter's report of a context that ended is the caller's own, or a
\* deadline that the loop retries while attempts are left.
LEMMA CtxDoneIsOwned ==
    ASSUME LoopTypeOK, ContextsTied, NEW c \in Callers, actx[c] # "live",
           Final(c, LimitErr(FALSE, actx[c]))
    PROVE  Owned(c, LimitErr(FALSE, actx[c]))
<1> DEFINE e == LimitErr(FALSE, actx[c])
<1>1. e.type = "limit" /\ ~e.permanent /\ e.cause = actx[c]
  BY DEF LimitErr
<1>2. ContextErrorIn(e) = actx[c] /\ IsLimitError(e)
  BY <1>1 DEF ContextErrorIn, IsLimitError
<1>3. actx[c] \in {"canceled", "deadline"}
  BY DEF LoopTypeOK, Contexts
<1>4. CASE actx[c] = "canceled"
  BY <1>4 DEF ContextsTied, Owned
<1>5. CASE actx[c] = "deadline"
  <2>1. e.cause # "canceled"
    BY <1>1, <1>5
  <2>2. Retryable(e)
    BY <1>1, <2>1 DEF Retryable
  <2>3. NoError.type = "nil"
    BY DEF NoError
  <2>4. attempt[c] = MaxAttempts
    BY <1>1, <2>2, <2>3 DEF Final
  <2>5. QED
    BY <1>2, <1>5, <2>4 DEF Owned
<1>6. QED
  BY <1>3, <1>4, <1>5

\* The adapter's report of it is the caller's own, or a classified timeout.
LEMMA ClassifiedIsOwned ==
    ASSUME LoopTypeOK, ContextsTied, NEW c \in Callers, actx[c] # "live"
    PROVE  Owned(c, Classify([what |-> actx[c]]))
<1>1. CASE actx[c] = "canceled"
  BY <1>1 DEF ContextsTied, Owned
<1>2. CASE actx[c] = "deadline"
  <2>1. Classify([what |-> actx[c]]).type = "provider"
    BY <1>2, ClassifiedContext
  <2>2. ContextErrorIn(Classify([what |-> actx[c]])) = "none"
    BY <2>1 DEF ContextErrorIn
  <2>3. QED
    BY <2>2 DEF Owned
<1>3. QED
  BY <1>1, <1>2 DEF LoopTypeOK, Contexts

\* Whatever an attempt of c ends the loop with is its own.
LEMMA AttemptEndsOwned ==
    ASSUME AdaptersClassify, LoopTypeOK, ContextsTied, NEW c \in Callers,
           \/ LimiterRejects(c) \/ LimiterCtxDone(c)
           \/ ProviderAnswers(c) \/ ProviderCtxDone(c)
    PROVE  \E e \in Results : AttemptOver(c, e) /\ (Final(c, e) => Owned(c, e))
<1>1. CASE LimiterRejects(c)
  BY <1>1, RejectionsAreResults, RejectionsAreOwned DEF LimiterRejects, ReserveFails
<1>2. CASE LimiterCtxDone(c)
  BY <1>2, RejectionsAreResults, CtxDoneIsOwned DEF LimiterCtxDone, ReserveFails
<1>3. CASE ProviderAnswers(c)
  <2>1. PICK e \in Outcomes : AttemptOver(c, e)
    BY <1>3 DEF ProviderAnswers, ProviderReturns
  <2>2. ContextErrorIn(e) = "none"
    BY DEF AdaptersClassify
  <2>3. Owned(c, e)
    BY <2>2 DEF Owned
  <2>4. QED
    BY <2>1, <2>3, EnvironmentAssumption DEF EnvironmentAssumption
<1>4. CASE ProviderCtxDone(c)
  BY <1>4, ClassifiedContext, ClassifiedIsOwned DEF ProviderCtxDone, ProviderReturns
<1>5. QED
  BY <1>1, <1>2, <1>3, <1>4

\* If a provider's answers hold no unclassified context error, a caller whose
\* context is live gets no cancellation, and no deadline but a limiter's: that
\* of its last attempt, or a failed backend's own (withTimeout,
\* ClassifyOverflow, LimitError.Cause, FromBucket).
THEOREM NoForeignContextError ==
    AdaptersClassify /\ ChSpec => []LiveCallerSeesNoCtxError
<1> SUFFICES ASSUME AdaptersClassify PROVE ChSpec => []LiveCallerSeesNoCtxError
  OBVIOUS
<1>1. ChInit => ContextsTied /\ LiveCallerSeesNoCtxError
  BY DEF ChInit, ContextsTied, LiveCallerSeesNoCtxError
<1>2. ChTypeOK /\ ContextsTied /\ LiveCallerSeesNoCtxError /\ [ChNext]_chvars
          => LiveCallerSeesNoCtxError'
  <2> SUFFICES ASSUME LoopTypeOK, ContextsTied, LiveCallerSeesNoCtxError,
                      [ChNext]_chvars, NEW d \in Callers, pc'[d] = "returned"
               PROVE  Owned(d, result[d])'
    BY DEF ChTypeOK, LiveCallerSeesNoCtxError, Owned
  <2> USE DEF Goto, Finish, Leave, loop
  <2>1. CASE /\ pc'[d] = pc[d] /\ result'[d] = result[d]
             /\ attempt'[d] = attempt[d]
             /\ ctx[d] # "live" => ctx'[d] # "live"
    BY <2>1 DEF LiveCallerSeesNoCtxError, Owned, ContextErrorIn, IsLimitError
  <2>2. ASSUME NEW c \in Callers,
               \/ LimiterRejects(c) \/ LimiterCtxDone(c)
               \/ ProviderAnswers(c) \/ ProviderCtxDone(c)
        PROVE  Owned(d, result[d])'
    <3>1. PICK e \in Results : AttemptOver(c, e) /\ (Final(c, e) => Owned(c, e))
      BY <2>2, AttemptEndsOwned
    <3>2. ctx' = ctx /\ attempt' = attempt
      BY <3>1 DEF AttemptOver
    <3>3. CASE c # d
      <4>1. pc'[d] = pc[d] /\ result'[d] = result[d]
        BY <3>1, <3>3 DEF AttemptOver, LoopTypeOK
      <4>2. QED
        BY <2>1, <3>2, <4>1
    <3>4. CASE c = d
      <4>1. Final(d, e) /\ result'[d] = e
        BY <3>1, <3>4 DEF AttemptOver, LoopTypeOK
      <4>2. QED
        BY <3>1, <3>2, <3>4, <4>1 DEF Owned, ContextErrorIn, IsLimitError
    <3>5. QED
      BY <3>3, <3>4
  <2>3. ASSUME NEW c \in Callers, BackoffAborted(c)
        PROVE  Owned(d, result[d])'
    <3>1. /\ pc' = [pc EXCEPT ![c] = "returned"]
          /\ result' = [result EXCEPT ![c] = [type |-> ctx[c]]]
          /\ ctx[c] # "live" /\ ctx' = ctx /\ attempt' = attempt
      BY <2>3 DEF BackoffAborted
    <3>2. CASE c = d
      BY <3>1, <3>2 DEF Owned
    <3>3. CASE c # d
      BY <2>1, <3>1, <3>3 DEF LoopTypeOK
    <3>4. QED
      BY <3>2, <3>3
  <2>4. ASSUME NEW c \in Callers, Rejected(c) PROVE Owned(d, result[d])'
    <3>1. /\ pc' = [pc EXCEPT ![c] = "returned"]
          /\ result' = [result EXCEPT ![c] = [type |-> "circuit_open"]]
          /\ ctx' = ctx /\ attempt' = attempt
      BY <2>4 DEF Rejected
    <3>2. CASE c = d
      <4>1. result'[d].type = "circuit_open"
        BY <3>1, <3>2 DEF LoopTypeOK
      <4>2. ContextErrorIn(result'[d]) = "none"
        BY <4>1 DEF ContextErrorIn
      <4>3. QED
        BY <4>2 DEF Owned, ContextErrorIn
    <3>3. CASE c # d
      BY <2>1, <3>1, <3>3 DEF LoopTypeOK
    <3>4. QED
      BY <3>2, <3>3
  <2>5. ASSUME NEW c \in Callers,
               \/ Begin(c) \/ BackoffOver(c) \/ Forget(c)
               \/ Admitted(c) \/ Reserved(c) \/ ProviderPanics(c)
        PROVE  Owned(d, result[d])'
    <3>1. /\ pc'[c] # "returned"
          /\ c # d => /\ pc'[d] = pc[d]
                      /\ result'[d] = result[d]
                      /\ attempt'[d] = attempt[d]
                      /\ ctx'[d] = ctx[d]
      BY <2>5 DEF Begin, BackoffOver, Forget, Admitted, Reserved,
                  ProviderPanics, LoopTypeOK
    <3>2. QED
      BY <2>1, <3>1
  <2>6. ASSUME NEW c \in Callers, NEW how \in CallerEnds, CallerCtxEnd(c, how)
        PROVE  Owned(d, result[d])'
    <3>1. how # "live"
      BY RetryAssumption DEF RetryAssumption
    <3>2. QED
      BY <2>1, <2>6, <3>1 DEF CallerCtxEnd, LoopTypeOK
  <2>7. CASE ChTick
    BY <2>1, <2>7 DEF ChTick
  <2>8. CASE UNCHANGED chvars
    BY <2>1, <2>8 DEF chvars
  <2>9. QED
    BY <2>2, <2>3, <2>4, <2>5, <2>6, <2>7, <2>8 DEF ChNext
<1>3. ChTypeOK /\ ContextsTied /\ [ChNext]_chvars => ContextsTied'
  BY ContextsTiedStep DEF ChTypeOK
<1>4. QED
  BY <1>1, <1>2, <1>3, ChainTypeCorrect, PTL DEF ChSpec
=============================================================================
