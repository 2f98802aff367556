--------------------------- MODULE MCAgentControl ---------------------------
(* AgentControl for TLC: callers and thread ids are interchangeable. *)
EXTENDS AgentControl, TLC

Symmetry == Permutations(Callers) \union Permutations(Threads)
=============================================================================
