---------------------------- MODULE MCLineFraming ----------------------------
(* LineFraming on a buffer of three bytes; the bytes are letters. *)
EXTENDS LineFraming
==============================================================================
