------------------------------ MODULE MCPgBucket ------------------------------
(* Instances of PgBucket for TLC. *)
EXTENDS PgBucket, TLC

Symmetry == Permutations(Callers)

\* One slot, no tokens.
OneSlot == [capacity |-> 0, rate |-> 0, maxc |-> 1]

\* Tokens: two at most, two thirds of one a tick.
TwoTokens == [capacity |-> 2, rate |-> 2, maxc |-> 1]

\* The slot limit is lowered and tokens are switched on and off.
OneToken == [capacity |-> 1, rate |-> 3, maxc |-> 2]
LimitMix == {OneSlot, OneToken}

NoChanges == {}
===============================================================================
