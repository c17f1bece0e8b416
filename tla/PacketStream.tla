---------------------------- MODULE PacketStream ----------------------------
(***************************************************************************)
(* What the reader of a C6 socket promises: the packets of what arrives,   *)
(* in order, each when it is complete.  Data that does not start like a    *)
(* packet is skipped as far as it has arrived, so that behind garbage it   *)
(* matters how the network groups the bytes, and nowhere else; a packet    *)
(* that does not fit the buffer is dropped when it has filled it.          *)
(***************************************************************************)
EXTENDS Integers, Sequences

CONSTANTS Byte, Valid, HeadSize, BufSize

VARIABLES
  open,     \* the connection has not ended
  arrived,  \* bytes that arrived and are not used
  out       \* packets handed over

vars == <<open, arrived, out>>

Init == open = TRUE /\ arrived = <<>> /\ out = <<>>

(* The first byte is the type, the second the length of the payload. *)
Size(bytes) == HeadSize + bytes[2]
IsGarbage(bytes) == bytes # <<>> /\ bytes[1] # Valid
HasPacket(bytes) ==
  /\ Len(bytes) >= HeadSize
  /\ bytes[1] = Valid
  /\ Size(bytes) <= Len(bytes)

(* More arrives only after all that can be used was. *)
Arrive(bytes) ==
  /\ open
  /\ ~IsGarbage(arrived) /\ ~HasPacket(arrived)
  /\ Len(arrived) + Len(bytes) <= BufSize
  /\ arrived' = arrived \o bytes
  /\ UNCHANGED <<open, out>>

Deliver ==
  /\ open
  /\ HasPacket(arrived)
  /\ out' = Append(out, SubSeq(arrived, 1, Size(arrived)))
  /\ arrived' = SubSeq(arrived, Size(arrived) + 1, Len(arrived))
  /\ UNCHANGED open

Skip ==
  /\ open
  /\ IsGarbage(arrived)
  /\ arrived' = <<>>
  /\ UNCHANGED <<open, out>>

Overflow ==
  /\ open
  /\ Len(arrived) = BufSize
  /\ ~HasPacket(arrived)
  /\ arrived' = <<>>
  /\ UNCHANGED <<open, out>>

End ==
  /\ open
  /\ open' = FALSE
  /\ arrived' = <<>>
  /\ UNCHANGED out

Next ==
  \/ \E n \in 1..BufSize : \E bytes \in [1..n -> Byte] : Arrive(bytes)
  \/ Deliver
  \/ Skip
  \/ Overflow
  \/ End

Spec == Init /\ [][Next]_vars
==============================================================================
