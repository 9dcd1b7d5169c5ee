------------------------------ MODULE MCPgLedger ------------------------------
(* Instances of PgLedger for TLC. *)
EXTENDS PgLedger, MCPgBucket
===============================================================================
