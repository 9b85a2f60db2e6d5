-------------------------- MODULE MCAgentReadyMark --------------------------
(* Values for the constants of AgentReadyMark. *)
EXTENDS AgentReadyMark, TLC

CONSTANTS d1, d2, c1, c2

Interchangeable == Permutations(Domains) \cup Permutations(Calls)
=============================================================================
