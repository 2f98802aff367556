---------------------------- MODULE MCReadiness ----------------------------
(* Readiness for TLC.  The configurations check liveness, which rules out     *)
(* symmetry: the module only names the model.                                 *)
EXTENDS Readiness
=============================================================================
