--------------------------- MODULE MCUnifiedExec ---------------------------
(* UnifiedExec for TLC: calls and process ids are interchangeable. *)
EXTENDS UnifiedExec, TLC

Symmetry == Permutations(Calls) \union Permutations(Ids)
=============================================================================
