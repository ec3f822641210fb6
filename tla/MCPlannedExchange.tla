-------------------------- MODULE MCPlannedExchange --------------------------
(* A small instance of the program with its timeout clients for TLC. *)
EXTENDS MCAgentBond, PlannedExchange
==============================================================================
