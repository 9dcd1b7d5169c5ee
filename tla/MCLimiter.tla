------------------------------ MODULE MCLimiter ------------------------------
(***************************************************************************)
(* Instances of the in-memory limiter for TLC.                             *)
(***************************************************************************)
EXTENDS Limiter, TLC

\* One light request, one that needs the whole bucket or two slots, and one
\* that no idle bucket could admit.
MCRequests ==
    {[tokens |-> 1, slots |-> 1], [tokens |-> 2, slots |-> 2],
     [tokens |-> 3, slots |-> 1]}

\* Under the estimate, and over it into debt.
MCUsages == {0, 3}

SlotRequests == {[tokens |-> 1, slots |-> 1], [tokens |-> 1, slots |-> 2]}

Symmetry == Permutations(Callers)
=============================================================================
