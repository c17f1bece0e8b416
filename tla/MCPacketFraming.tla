--------------------------- MODULE MCPacketFraming ---------------------------
(* PacketFraming on a buffer of three bytes and a header of two. *)
EXTENDS PacketFraming
==============================================================================
