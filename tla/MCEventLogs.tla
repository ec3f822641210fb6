----------------------------- MODULE MCEventLogs -----------------------------
(* A small instance of the log decoder for TLC. *)
EXTENDS EventLogs
==============================================================================
