----------------------------- MODULE LineStream -----------------------------
(***************************************************************************)
(* What the reader of a client socket promises: the lines of the stream,   *)
(* in order, each as it was sent less its line end, however the network    *)
(* grouped the bytes.  A line that fills the buffer before it ends loses   *)
(* what there is of it so far.                                             *)
(***************************************************************************)
EXTENDS Integers, Sequences

CONSTANTS Byte, CR, Ends, BufSize

VARIABLES
  open,   \* the connection has not ended
  taken,  \* bytes taken from the stream
  part,   \* those of them that belong to the line that has not ended
  out     \* lines handed over

vars == <<open, taken, part, out>>

Init == open = TRUE /\ taken = <<>> /\ part = <<>> /\ out = <<>>

WithoutCR(line) ==
  IF line # <<>> /\ line[Len(line)] = CR THEN SubSeq(line, 1, Len(line) - 1) ELSE line

Take(b) ==
  /\ open
  /\ Len(part) < BufSize
  /\ taken' = Append(taken, b)
  /\ \/ b \notin Ends /\ part' = Append(part, b) /\ UNCHANGED out
     \/ b \in Ends /\ part' = <<>> /\ out' = Append(out, WithoutCR(part))
  /\ UNCHANGED open

Overflow ==
  /\ open
  /\ Len(part) = BufSize
  /\ part' = <<>>
  /\ UNCHANGED <<open, taken, out>>

(* The connection ends, and the line that has not ended with it. *)
End ==
  /\ open
  /\ open' = FALSE
  /\ part' = <<>>
  /\ UNCHANGED <<taken, out>>

Next ==
  \/ \E b \in Byte : Take(b)
  \/ Overflow
  \/ End

Spec == Init /\ [][Next]_vars
==============================================================================
