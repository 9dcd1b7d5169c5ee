------------------------------- MODULE MCChain -------------------------------
(***************************************************************************)
(* Instances of the middleware chain for TLC.  The provider succeeds,      *)
(* fails retryably or fails for good.                                      *)
(***************************************************************************)
EXTENDS Chain, TLC

MCOutcomes ==
    {NoError,
     [type |-> "provider", kind |-> "unavailable"],
     [type |-> "provider", kind |-> "bad_request"]}

\* A wait that is over, a request that can never be admitted, and a backend that
\* fails or is cut off by its own time limit.
MCRejections == {LimitErr(FALSE, "none"), LimitErr(TRUE, "none")} \cup BackendErrors

Symmetry == Permutations(Callers)
=============================================================================
