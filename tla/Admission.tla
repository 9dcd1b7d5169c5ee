------------------------------ MODULE Admission ------------------------------
(***************************************************************************)
(* What a rate limiter promises, whatever its implementation: a budget of  *)
(* tokens that starts at Capacity and accrues at RateNum/RateDen tokens a  *)
(* tick, and at most MaxConcurrency slots held at once.                    *)
(*                                                                         *)
(* There is no bucket here and no counter of active requests: an admission *)
(* is constrained by everything spent since the beginning and by the slots *)
(* of the reservations held, one by one.                                   *)
(***************************************************************************)
EXTENDS Integers, FiniteSets

CONSTANTS
    Clients,
    Capacity,           \* 0 when tokens are not limited
    MaxConcurrency,     \* 0 when slots are not limited
    RateNum, RateDen,
    SlotCounts,         \* the numbers of slots a reservation may hold
    MayLapse            \* whether slots come back by the mere passing of time

VARIABLES
    clock,
    spent,      \* tokens charged less tokens refunded, since the beginning
    held,       \* slots held by each client's reservation, 0 when none
    open        \* clients whose charge may still be reconciled

avars == <<clock, spent, held, open>>

\* The slots in use, one by one: the first, second, ... of each client.
Slots(h) == UNION {{c} \X (1 .. h[c]) : c \in Clients}

Init ==
    /\ clock \in Int
    /\ spent = 0
    /\ held = [c \in Clients |-> 0]
    /\ open = {}

WithinBudget == Capacity = 0 \/ RateDen * spent' <= RateDen * Capacity + RateNum * clock

WithinSlots == MaxConcurrency = 0 \/ Cardinality(Slots(held')) <= MaxConcurrency

Admit(c, s) ==
    /\ held[c] = 0
    /\ c \notin open
    /\ held' = [held EXCEPT ![c] = s]
    /\ open' = open \cup {c}
    /\ spent' >= spent
    /\ WithinBudget
    /\ WithinSlots
    /\ UNCHANGED clock

\* The actual usage replaces the estimate, once per reservation; it may
\* overdraw the budget.
Reconcile(c) ==
    /\ c \in open
    /\ open' = open \ {c}
    /\ spent' \in Int
    /\ UNCHANGED <<clock, held>>

Free(c) ==
    /\ held[c] # 0
    /\ held' = [held EXCEPT ![c] = 0]
    /\ UNCHANGED <<clock, spent, open>>

\* A reservation that is forgotten can no longer be reconciled.
Close(c) ==
    /\ open' = open \ {c}
    /\ UNCHANGED <<clock, spent, held>>

Lapse == \E gone \in SUBSET Clients :
    held' = [c \in Clients |-> IF c \in gone THEN 0 ELSE held[c]]

Pass ==
    /\ clock' > clock
    /\ held' = held \/ (MayLapse /\ Lapse)
    /\ UNCHANGED <<spent, open>>

Next ==
    \/ \E c \in Clients :
          \/ \E s \in SlotCounts : Admit(c, s)
          \/ Reconcile(c) \/ Free(c) \/ Close(c)
    \/ Pass

Spec == Init /\ [][Next]_avars
=============================================================================
