------------------------------- MODULE MCX402 -------------------------------
(* Small instances of the x402 settlement for TLC. *)
EXTENDS X402Settlement, TLC

Symm == Permutations(Handlers) \cup Permutations(Tokens) \cup Permutations(Responses)
==============================================================================
