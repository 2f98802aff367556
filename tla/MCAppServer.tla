----------------------------- MODULE MCAppServer -----------------------------
(* AppServer for TLC. *)
EXTENDS AppServer
=============================================================================
