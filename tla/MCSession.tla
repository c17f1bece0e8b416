------------------------------ MODULE MCSession ------------------------------
(* Session on small instances; the bounds are in the configurations. *)
EXTENDS Session
==============================================================================
