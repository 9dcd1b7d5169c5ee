------------------------------ MODULE MCCircuit ------------------------------
(***************************************************************************)
(* Instances of the breaker for TLC.  Three outcomes stand for the three   *)
(* classes record() tells apart, and a retryable LimitError for the one it *)
(* must not take for a provider failure.                                   *)
(***************************************************************************)
EXTENDS Circuit, TLC

MCOutcomes ==
    {NoError,
     [type |-> "provider", kind |-> "unavailable"],
     [type |-> "provider", kind |-> "bad_request"],
     [type |-> "limit", permanent |-> FALSE, cause |-> "none"]}

Symmetry == Permutations(Callers)
=============================================================================
