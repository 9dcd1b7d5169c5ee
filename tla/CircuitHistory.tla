---------------------------- MODULE CircuitHistory ----------------------------
(***************************************************************************)
(* The breaker with two history variables, which record what happened and  *)
(* change nothing:                                                         *)
(*   recent   the last health signals (successes and failures), oldest     *)
(*            first, each with the state it was recorded in;               *)
(*   crossed  whether, since the last moment no probe was in flight, an    *)
(*            ordinary call's result was recorded in the half-open state   *)
(*            (a straggler from before the breaker opened).                *)
(***************************************************************************)
EXTENDS Circuit, Sequences

VARIABLES recent, crossed

hvars == <<vars, recent, crossed>>

\* As many signals as the longer of the two streaks needs.
Window == IF FailureThreshold > SuccessThreshold
          THEN FailureThreshold ELSE SuccessThreshold

HInit == Init /\ recent = <<>> /\ crossed = FALSE

Remember(e) ==
    recent' = IF Neutral(e) THEN recent
              ELSE LET all == Append(recent, [in |-> state, ok |-> Success(e)])
                   IN  SubSeq(all, IF Len(all) > Window THEN 2 ELSE 1, Len(all))

Straggles(c) == call[c] = "ordinary" /\ state = "halfOpen"

\* One probe's worth of history: it ends when no probe is in flight.
Cross(now) == crossed' = ((crossed \/ now) /\ Probes' # {})

HReturn(c, e) == Return(c, e) /\ Remember(e) /\ Cross(Straggles(c))

HAdmit(c) == Admit(c) /\ Cross(FALSE) /\ UNCHANGED recent

HReject(c) == Reject(c) /\ UNCHANGED <<recent, crossed>>

HTick == Tick /\ UNCHANGED <<recent, crossed>>

HReturns(c) == \E e \in Outcomes : HReturn(c, e)

HNext ==
    \/ \E c \in Callers : HAdmit(c) \/ HReject(c) \/ HReturns(c)
    \/ HTick

HSpec == HInit /\ [][HNext]_hvars

\* The fairness of BusySpec, on the steps with history.
HBusySpec ==
    /\ HSpec
    /\ WF_hvars(HTick)
    /\ \A c \in Callers : WF_hvars(HReturns(c))
    /\ WF_hvars(\E c \in Callers : HAdmit(c))

-----------------------------------------------------------------------------

\* The last n health signals were all recorded in the state s with result ok.
Streak(n, s, ok) ==
    /\ Len(recent) >= n
    /\ \A i \in Len(recent) - n + 1 .. Len(recent) :
          recent[i] = [in |-> s, ok |-> ok]

\* A closed breaker opens only at the end of FailureThreshold failures that
\* no success interrupts, all recorded while it was closed; a half-open one
\* closes only at the end of SuccessThreshold successes, all recorded while
\* half open, none of them from before the last trip (CircuitConfig).
StreaksDecide ==
    [][ /\ state = "closed" /\ state' = "open"
               => Streak(FailureThreshold, "closed", FALSE)'
        /\ state = "halfOpen" /\ state' = "closed"
               => Streak(SuccessThreshold, "halfOpen", TRUE)' ]_hvars

\* One probe at a time, as long as no straggler has recorded in the
\* half-open state while a probe was in flight: the gate fails through
\* stragglers and in no other way.
SingleFlight == ~crossed => \A c, d \in Probes : c = d
=============================================================================
