---------------------------- MODULE PacketFraming ----------------------------
(***************************************************************************)
(* c6_read and parse_indata: the bytes of one read() are appended to what  *)
(* the last one left over, whole packets are handed to c6_process_input in *)
(* place, and the rest is moved to the front of the buffer.  One step is   *)
(* the read() or one turn of the loop.                                     *)
(*                                                                         *)
(* The header of six bytes is abstracted to a type and a length; memcpy on *)
(* overlapping memory is taken to copy upwards, as in LineFraming.         *)
(***************************************************************************)
EXTENDS ReadBuffer

CONSTANTS
  MaxByte,     \* bytes are 0..MaxByte; as a length, the largest payload
  Valid,       \* the type every packet of a server has, 0x20
  HeadSize,    \* sizeof(struct c6_pkt_head)
  MaxPackets   \* bound: packets sent

Byte == 0..MaxByte

ASSUME PacketAssumption ==
  /\ MaxByte \in Nat
  /\ Valid \in Byte
  /\ HeadSize \in Nat \ {0, 1}
  /\ BufSize \in Nat
  /\ HeadSize < BufSize
  /\ MaxPackets \in Nat

VARIABLES
  ptr,       \* offset of the next packet
  avdata,    \* bytes from there on
  wire,      \* external: bytes sent and not read
  sent,      \* history: packets sent
  packets    \* history: packets given to c6_process_input

packetVars == <<pc, buf, old_len, ptr, avdata, wire, sent, packets>>

PacketInit ==
  /\ pc = "read"
  /\ buf = <<>>
  /\ old_len = 0
  /\ ptr = 0
  /\ avdata = 0
  /\ wire = <<>>
  /\ sent = <<>>
  /\ packets = <<>>

(* External: a packet, of any type and any length. *)
ServerSend ==
  \E type, len \in Byte :
    /\ pc = "read"
    /\ Len(sent) < MaxPackets
    /\ \E payload \in [1..(HeadSize - 2 + len) -> Byte] :
         LET packet == <<type, len>> \o payload IN
         /\ wire' = wire \o packet
         /\ sent' = Append(sent, packet)
    /\ UNCHANGED <<pc, buf, old_len, ptr, avdata, packets>>

ReadBehind == old_len

(* read() returns between one byte and what fits behind the old ones. *)
PacketRead ==
  \E n \in 1..Len(wire) :
    /\ pc = "read"
    /\ n <= BufSize - old_len
    /\ buf' = SubSeq(buf, 1, ReadBehind) \o SubSeq(wire, 1, n)
    /\ wire' = SubSeq(wire, n + 1, Len(wire))
    /\ ptr' = 0
    /\ avdata' = n + ReadBehind
    /\ pc' = "parse"
    /\ UNCHANGED <<old_len, sent, packets>>

(* End of file, an error, or a packet that ends the session. *)
PacketClose ==
  /\ pc # "closed"
  /\ pc' = "closed"
  /\ UNCHANGED <<buf, old_len, ptr, avdata, wire, sent, packets>>

(* "invalid packet... skipping data". *)
Skip ==
  /\ pc = "parse"
  /\ avdata # 0
  /\ buf[ptr + 1] # Valid
  /\ old_len' = 0
  /\ pc' = "read"
  /\ UNCHANGED <<buf, ptr, avdata, wire, sent, packets>>

(* The length is read also where the header is not complete, from whatever *)
(* the buffer holds; with it or not, pklen is then more than avdata.       *)
PkLen == HeadSize + buf[ptr + 2]

(* Defect: a packet that ends with the data is left for the next call. *)
CompleteAndMore == avdata >= HeadSize /\ PkLen < avdata

Complete == avdata >= HeadSize /\ PkLen <= avdata

(* Defect: the packet ends with what has arrived. *)
AllArrived == avdata

PacketSize == PkLen

(* c6_process_input(c, ptr, pklen), and on to the next. *)
Process ==
  /\ pc = "parse"
  /\ avdata # 0
  /\ buf[ptr + 1] = Valid
  /\ Complete
  /\ packets' = Append(packets, SubSeq(buf, ptr + 1, ptr + PkLen))
  /\ ptr' = ptr + PacketSize
  /\ avdata' = avdata - PacketSize
  /\ UNCHANGED <<pc, buf, old_len, wire, sent>>

(* Nothing is left, or a packet that is not complete. *)
EndParse ==
  /\ pc = "parse"
  /\ \/ avdata = 0
     \/ avdata # 0 /\ buf[ptr + 1] = Valid /\ ~Complete
  /\ old_len' = RestLength(avdata)
  /\ buf' = SubSeq(buf, ptr + 1, ptr + avdata)
  /\ pc' = "read"
  /\ UNCHANGED <<ptr, avdata, wire, sent, packets>>

PacketFinished == pc = "closed" /\ UNCHANGED packetVars

PacketNext == ServerSend \/ PacketRead \/ PacketClose \/ Skip \/ Process \/ EndParse \/ PacketFinished

PacketSpec == PacketInit /\ [][PacketNext]_packetVars

-----------------------------------------------------------------------------
(* Properties *)

(* Every variable has its type, and the loop stays inside what was read. *)
PacketTypeOK ==
  /\ pc \in {"read", "parse", "closed"}
  /\ buf \in Seq(Byte)
  /\ old_len \in 0..(BufSize - 1)
  /\ ptr \in 0..BufSize
  /\ avdata \in 0..BufSize
  /\ pc = "parse" => ptr + avdata = Len(buf)
  /\ wire \in Seq(Byte)
  /\ sent \in Seq(Seq(Byte))
  /\ packets \in Seq(Seq(Byte))

(* The server has kept to the protocol, and to packets that fit the buffer. *)
Polite == \A i \in 1..Len(sent) : sent[i][1] = Valid /\ Len(sent[i]) <= BufSize

(* A server that keeps to the protocol has each of its packets processed,  *)
(* whole and in order, and none made up of pieces of others, however the   *)
(* network cuts its stream (parse_indata, the offsets and the rest of      *)
(* c6_read); and no packet that has arrived waits for bytes of the next: a *)
(* server that waits for its answer gets it.                               *)
PacketsAsSent ==
  Polite =>
    /\ packets = SubSeq(sent, 1, Len(packets))
    /\ pc = "read" /\ wire = <<>> => packets = sent

Arrived ==
  CASE pc = "read"   -> SubSeq(buf, 1, old_len)
    [] pc = "parse"  -> SubSeq(buf, ptr + 1, ptr + avdata)
    [] pc = "closed" -> <<>>

(* Whatever a server sends, packets are cut from it as PacketStream has it. *)
InPackets == INSTANCE PacketStream
              WITH open <- (pc # "closed"), arrived <- Arrived, out <- packets
ImplementsPacketStream == InPackets!Spec
==============================================================================
