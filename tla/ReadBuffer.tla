----------------------------- MODULE ReadBuffer -----------------------------
(***************************************************************************)
(* What the readers of the two sockets have in common, irc_read            *)
(* (LineFraming) and c6_read (PacketFraming): the bytes of a read() come   *)
(* behind those the last one left over, and what is then left over goes to *)
(* the front of the buffer again.                                          *)
(***************************************************************************)
EXTENDS Integers, Sequences

CONSTANT
  BufSize    \* sizeof(IRC(c)->buf) and sizeof(C6(c)->buf), which is 2^16

VARIABLES
  pc,        \* "read": in event_dispatch, "scan" or "parse": in the loop, "closed"
  buf,       \* the bytes at the start of the buffer that were read into it
  old_len    \* how many of them are left over

(* Defect: the length is wider than its field. *)
WholeLength(n) == n

(* A uint16_t, which a full buffer makes zero. *)
RestLength(n) == n % BufSize
=============================================================================
