--------------------------- MODULE MCCircuitHistory ---------------------------
(***************************************************************************)
(* The instance of MCCircuit with the history variables.                   *)
(***************************************************************************)
EXTENDS CircuitHistory, MCCircuit
=============================================================================
