--------------------------- MODULE MCThreadHistory ---------------------------
(* Instances of ThreadHistory for TLC. *)
EXTENDS ThreadHistory
=============================================================================
