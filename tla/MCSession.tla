------------------------------ MODULE MCSession ------------------------------
(* The session service on a small instance. *)
EXTENDS Session
==============================================================================
