--------------------------- MODULE MCSessionTurn ---------------------------
(* SessionTurn for TLC: submission ids are interchangeable. *)
EXTENDS SessionTurn, TLC

Symmetry == Permutations(Subs)
=============================================================================
