--------------------------- MODULE MCLimiterLedger ---------------------------
(***************************************************************************)
(* The instances of MCLimiter with the history variables.                  *)
(***************************************************************************)
EXTENDS LimiterLedger, MCLimiter
=============================================================================
