------------------------------- MODULE MCStore -------------------------------
(* A small instance of the projection store for TLC: its constants are in   *)
(* MCStore.cfg.                                                              *)
EXTENDS ProjectionStore
==============================================================================
