------------------------- MODULE MCSchemaMigrations -------------------------
(* A small instance of SchemaMigrations for TLC: the order of the Job's loop. *)
EXTENDS SchemaMigrations

CONSTANTS orchestrator, math

TwoAgents == <<orchestrator, math>>
=============================================================================
