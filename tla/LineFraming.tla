----------------------------- MODULE LineFraming -----------------------------
(***************************************************************************)
(* irc_read: the bytes of one read() are appended to what the last one     *)
(* left over, cut into lines in place, and the rest is moved to the front  *)
(* of the buffer.  One step is the read() or one turn of the loop.         *)
(*                                                                         *)
(* memcpy(3) on overlapping memory is undefined; it is modelled as the     *)
(* upward copy that compilers and libraries make of it, which moves the    *)
(* rest intact.                                                            *)
(***************************************************************************)
EXTENDS ReadBuffer

CONSTANTS
  Char,      \* the bytes a client sends
  CR,        \* '\r'
  Ends,      \* '\n' and '\0'
  MaxBytes   \* bound: bytes of the stream

ASSUME LineAssumption ==
  /\ CR \in Char
  /\ Ends \subseteq Char
  /\ CR \notin Ends
  /\ BufSize \in Nat \ {0}
  /\ MaxBytes \in Nat

VARIABLES
  sz, offs, res,
  stream,    \* history: the bytes read
  scanned,   \* history: how many of them the loop has looked at
  lines      \* history: the lines given to irc_process_input

loopVars == <<sz, offs, res>>
lineVars == <<pc, buf, old_len, loopVars, stream, scanned, lines>>

LineInit ==
  /\ pc = "read"
  /\ buf = <<>>
  /\ old_len = 0
  /\ sz = 0
  /\ offs = 0
  /\ res = 0
  /\ stream = <<>>
  /\ scanned = 0
  /\ lines = <<>>

(* What is left over was scanned by the call before. *)
StartOfScan == old_len

(* read() returns between one byte and what fits behind the old ones. *)
LineRead ==
  \E n \in 1..(BufSize - old_len) :
    /\ pc = "read"
    /\ Len(stream) + n <= MaxBytes
    /\ \E bytes \in [1..n -> Char] :
         /\ buf' = SubSeq(buf, 1, old_len) \o bytes
         /\ stream' = stream \o bytes
    /\ sz' = StartOfScan
    /\ offs' = 0
    /\ res' = n + old_len
    /\ pc' = "scan"
    /\ UNCHANGED <<old_len, scanned, lines>>

(* End of file, an error, or a line that ends the session. *)
LineClose ==
  /\ pc # "closed"
  /\ pc' = "closed"
  /\ UNCHANGED <<buf, old_len, loopVars, stream, scanned, lines>>

ThisByte == buf[offs + sz + 1]

ScanText ==
  /\ pc = "scan"
  /\ sz < res
  /\ ThisByte \notin Ends
  /\ sz' = sz + 1
  /\ scanned' = scanned + 1
  /\ UNCHANGED <<pc, buf, old_len, offs, res, stream, lines>>

(* Defect: the '\r' is left in the line. *)
LengthWithCR == sz

(* The line without a '\r' at its end. *)
LineLength == IF sz > 0 /\ buf[offs + sz] = CR THEN sz - 1 ELSE sz

LineAndEnd == sz + 1

(* irc_process_input(c, buf + offs, ...). *)
ScanEnd ==
  /\ pc = "scan"
  /\ sz < res
  /\ ThisByte \in Ends
  /\ lines' = Append(lines, SubSeq(buf, offs + 1, offs + LineLength))
  /\ offs' = offs + LineAndEnd
  /\ res' = res - LineAndEnd
  /\ sz' = 0
  /\ scanned' = scanned + 1
  /\ UNCHANGED <<pc, buf, old_len, stream>>

(* Defect: the rest is counted and not moved. *)
RestInPlace == UNCHANGED buf

RestToFront == buf' = SubSeq(buf, offs + 1, offs + res)

EndScan ==
  /\ pc = "scan"
  /\ ~(sz < res)
  /\ RestToFront
  /\ old_len' = RestLength(res)
  /\ pc' = "read"
  /\ UNCHANGED <<loopVars, stream, scanned, lines>>

LineFinished == pc = "closed" /\ UNCHANGED lineVars

LineNext == LineRead \/ LineClose \/ ScanText \/ ScanEnd \/ EndScan \/ LineFinished

LineSpec == LineInit /\ [][LineNext]_lineVars

-----------------------------------------------------------------------------
(* Properties *)

(* Every variable has its type. *)
LineTypeOK ==
  /\ pc \in {"read", "scan", "closed"}
  /\ buf \in Seq(Char)
  /\ old_len \in 0..(BufSize - 1)
  /\ sz \in 0..BufSize
  /\ offs \in 0..BufSize
  /\ res \in 0..BufSize
  /\ stream \in Seq(Char)
  /\ scanned \in 0..Len(stream)
  /\ lines \in Seq(Seq(Char))

(* The bytes ahead of the scan are in the buffer and are the end of the    *)
(* stream: the loop of irc_read reads nothing behind what read() returned  *)
(* and passes over nothing, also after lines cut before and with a rest of *)
(* the call before.                                                        *)
AheadIsStream ==
  pc = "scan" =>
    /\ sz <= res
    /\ offs + res = Len(buf)
    /\ Len(buf) <= BufSize
    /\ Len(stream) - scanned = res - sz
    /\ \A i \in 1..(res - sz) : buf[offs + sz + i] = stream[scanned + i]

(* What was scanned and is not handed over has no line end in it; between  *)
(* two calls it is at the front of the buffer, and everything read was     *)
(* scanned (the memcpy that ends irc_read).                                *)
RestIsPart ==
  /\ pc = "scan" => \A i \in 1..sz : buf[offs + i] \notin Ends
  /\ pc = "read" =>
       /\ scanned = Len(stream)
       /\ old_len <= Len(buf)
       /\ \A i \in 1..old_len : buf[i] \notin Ends

(* Bytes are neither lost, looked at twice nor left from an earlier line:  *)
(* what was read and not handed over is in the buffer, scanned or ahead.   *)
BufferIsStream == AheadIsStream /\ RestIsPart

Part ==
  CASE pc = "read"   -> SubSeq(buf, 1, old_len)
    [] pc = "scan"   -> SubSeq(buf, offs + 1, offs + sz)
    [] pc = "closed" -> <<>>

(* The lines given to irc_process_input are those of the stream, however   *)
(* the network cuts it into reads.                                         *)
InLines == INSTANCE LineStream
             WITH Byte <- Char, open <- (pc # "closed"),
                  taken <- SubSeq(stream, 1, scanned), part <- Part, out <- lines
ImplementsLineStream == InLines!Spec
==============================================================================
