---------------------------- MODULE ArrivalProofs ----------------------------
(***************************************************************************)
(* What arrives is taken apart as it was put together: the readers of the  *)
(* two sockets stay inside their buffers and implement LineStream and      *)
(* PacketStream, for every alphabet, header and size of the buffer, and    *)
(* whatever is sent; packets sent are packets processed; a line is cut     *)
(* into its words (ArgsSep), for any line; and questions get their answers *)
(* (Answers), for any nicks and channels, any lines, and any number of     *)
(* questions that wait.                                                    *)
(***************************************************************************)
EXTENDS LineFraming, PacketFraming, Answers, SequenceFacts, FiniteSetTheorems, TLAPS


-----------------------------------------------------------------------------
(* Lines *)

(* The three invariants of LineFraming are inductive together. *)
LineIInv == LineTypeOK /\ AheadIsStream /\ RestIsPart

-----------------------------------------------------------------------------
LEMMA InitLineIInv ==
  ASSUME LineAssumption, LineInit
  PROVE  LineIInv
<1>1. <<>> \in Seq(Char) /\ <<>> \in Seq(Seq(Char)) /\ Len(<<>>) = 0
  BY EmptySeq
<1>2. LineTypeOK
  BY <1>1 DEF LineAssumption, LineInit, LineTypeOK
<1>3. AheadIsStream /\ RestIsPart
  BY <1>1 DEF LineInit, AheadIsStream, RestIsPart
<1>4. QED
  BY <1>2, <1>3 DEF LineIInv

(* read(): the new bytes are ahead, the rest is the part. *)
LEMMA ReadLineIInv ==
  ASSUME LineAssumption, LineIInv, LineRead
  PROVE  LineIInv'
<1>1. PICK n \in 1..(BufSize - old_len) :
        /\ pc = "read"
        /\ \E bytes \in [1..n -> Char] :
             /\ buf' = SubSeq(buf, 1, old_len) \o bytes
             /\ stream' = stream \o bytes
        /\ sz' = old_len
        /\ offs' = 0
        /\ res' = n + old_len
        /\ pc' = "scan"
        /\ UNCHANGED <<old_len, scanned, lines>>
  BY DEF LineRead, StartOfScan
<1>2. PICK bytes \in [1..n -> Char] :
        /\ buf' = SubSeq(buf, 1, old_len) \o bytes
        /\ stream' = stream \o bytes
  BY <1>1
<1>3. /\ BufSize \in Nat \ {0} /\ old_len \in 0..(BufSize - 1)
      /\ n \in Nat /\ n >= 1 /\ n + old_len <= BufSize
      /\ buf \in Seq(Char) /\ stream \in Seq(Char) /\ Len(stream) \in Nat
  BY LenProperties DEF LineAssumption, LineIInv, LineTypeOK
<1>4. /\ scanned = Len(stream)
      /\ old_len \in 0..Len(buf)
      /\ \A i \in 1..old_len : buf[i] \notin Ends
  BY <1>1, <1>3, LenProperties DEF LineIInv, RestIsPart
<1> DEFINE rest == SubSeq(buf, 1, old_len)
<1>5. /\ rest \in Seq(Char) /\ Len(rest) = old_len
      /\ \A i \in 1..old_len : rest[i] = buf[i]
  BY <1>3, <1>4, PrefixProperties
<1>6. rest \o bytes = buf' /\ stream \o bytes = stream'
  BY <1>2
<1> HIDE DEF rest
<1>7. /\ buf' \in Seq(Char) /\ Len(buf') = old_len + n
      /\ \A i \in 1..old_len : buf'[i] = rest[i]
      /\ \A i \in 1..n : buf'[old_len + i] = bytes[i]
  <2>1. /\ rest \o bytes \in Seq(Char)
        /\ Len(rest \o bytes) = old_len + n
        /\ \A i \in 1..old_len : (rest \o bytes)[i] = rest[i]
        /\ \A i \in 1..n : (rest \o bytes)[old_len + i] = bytes[i]
    <3>1. rest \in Seq(Char) /\ Len(rest) = old_len /\ n \in Nat
      BY <1>3, <1>5
    <3>2. QED
      BY <3>1, AppendedProperties
  <2>2. QED
    BY <1>6, <2>1
<1>8. /\ stream' \in Seq(Char) /\ Len(stream') = Len(stream) + n
      /\ \A i \in 1..n : stream'[Len(stream) + i] = bytes[i]
  <2>1. /\ stream \o bytes \in Seq(Char)
        /\ Len(stream \o bytes) = Len(stream) + n
        /\ \A i \in 1..n : (stream \o bytes)[Len(stream) + i] = bytes[i]
    <3>1. stream \in Seq(Char) /\ n \in Nat
      BY <1>3
    <3>2. QED
      BY <3>1, AppendedProperties
  <2>2. QED
    BY <1>6, <2>1
<1>9. LineTypeOK'
  <2>1. /\ buf' \in Seq(Char) /\ stream' \in Seq(Char)
        /\ scanned' \in 0..Len(stream') /\ res' \in 0..BufSize
    <3>1. scanned' = Len(stream) /\ Len(stream') = Len(stream) + n
      BY <1>1, <1>4, <1>8
    <3>2. res' \in 0..BufSize /\ scanned' \in 0..Len(stream')
      BY <1>1, <1>3, <3>1
    <3>3. QED
      BY <1>7, <1>8, <3>2
  <2>2. QED
    BY <1>1, <1>3, <2>1 DEF LineIInv, LineTypeOK
<1>10. AheadIsStream'
  <2>1. res' - sz' = n /\ offs' + sz' = old_len /\ scanned' = Len(stream)
    BY <1>1, <1>3, <1>4
  <2>2. \A i \in 1..(res' - sz') : buf'[offs' + sz' + i] = stream'[scanned' + i]
    BY <1>7, <1>8, <2>1
  <2>3. /\ sz' <= res' /\ offs' + res' = Len(buf') /\ Len(buf') <= BufSize
        /\ Len(stream') - scanned' = res' - sz'
    BY <1>1, <1>3, <1>4, <1>7, <1>8
  <2>4. QED
    BY <2>2, <2>3 DEF AheadIsStream
<1>11. RestIsPart'
  <2>1. \A i \in 1..old_len : buf'[i] = buf[i]
    BY <1>3, <1>5, <1>7
  <2>2. \A i \in 1..sz' : offs' + i = i /\ buf'[offs' + i] \notin Ends
    BY <1>1, <1>3, <1>4, <2>1
  <2>3. QED
    BY <1>1, <2>2 DEF RestIsPart
<1>12. QED
  BY <1>9, <1>10, <1>11 DEF LineIInv

(* One byte of a line: it goes from what is ahead to the part. *)
LEMMA ScanTextIInv ==
  ASSUME LineAssumption, LineIInv, ScanText
  PROVE  LineIInv'
<1>1. /\ pc = "scan" /\ pc' = "scan" /\ sz < res /\ sz' = sz + 1
      /\ buf[offs + sz + 1] \notin Ends
      /\ scanned' = scanned + 1
      /\ UNCHANGED <<buf, old_len, offs, res, stream, lines>>
  BY DEF ScanText, ThisByte
<1>2. /\ sz \in Nat /\ offs \in Nat /\ res \in 0..BufSize /\ scanned \in Nat
      /\ BufSize \in Nat /\ Len(stream) \in Nat /\ scanned <= Len(stream)
  BY LenProperties DEF LineAssumption, LineIInv, LineTypeOK
<1>3. /\ Len(stream) - scanned = res - sz
      /\ offs + res = Len(buf) /\ Len(buf) <= BufSize
      /\ \A i \in 1..(res - sz) : buf[offs + sz + i] = stream[scanned + i]
      /\ \A i \in 1..sz : buf[offs + i] \notin Ends
  BY <1>1 DEF LineIInv, AheadIsStream, RestIsPart
<1>4. LineTypeOK'
  BY <1>1, <1>2, <1>3 DEF LineIInv, LineTypeOK
<1>5. AheadIsStream'
  <2>1. \A i \in 1..(res - (sz + 1)) :
          i + 1 \in 1..(res - sz) /\ offs + (sz + 1) + i = offs + sz + (i + 1)
            /\ (scanned + 1) + i = scanned + (i + 1)
    BY <1>1, <1>2
  <2>2. \A i \in 1..(res - (sz + 1)) : buf[offs + (sz + 1) + i] = stream[(scanned + 1) + i]
    BY <1>3, <2>1
  <2>3. QED
    BY <1>1, <1>2, <1>3, <2>2 DEF AheadIsStream
<1>6. RestIsPart'
  <2>1. \A i \in 1..(sz + 1) : i \in 1..sz \/ offs + i = offs + sz + 1
    BY <1>2
  <2>2. QED
    BY <1>1, <1>3, <2>1 DEF RestIsPart
<1>7. QED
  BY <1>4, <1>5, <1>6 DEF LineIInv

(* A line end: what is behind it is ahead, and the part is empty. *)
LEMMA ScanEndIInv ==
  ASSUME LineAssumption, LineIInv, ScanEnd
  PROVE  LineIInv'
<1>1. /\ pc = "scan" /\ pc' = "scan" /\ sz < res /\ sz' = 0
      /\ lines' = Append(lines, SubSeq(buf, offs + 1, offs + LineLength))
      /\ offs' = offs + (sz + 1) /\ res' = res - (sz + 1)
      /\ scanned' = scanned + 1
      /\ UNCHANGED <<buf, old_len, stream>>
  BY DEF ScanEnd, LineAndEnd
<1>2. /\ sz \in Nat /\ offs \in Nat /\ res \in 0..BufSize /\ scanned \in Nat
      /\ BufSize \in Nat /\ Len(stream) \in Nat /\ scanned <= Len(stream)
      /\ buf \in Seq(Char) /\ lines \in Seq(Seq(Char))
  BY LenProperties DEF LineAssumption, LineIInv, LineTypeOK
<1>3. /\ Len(stream) - scanned = res - sz
      /\ offs + res = Len(buf) /\ Len(buf) <= BufSize
      /\ \A i \in 1..(res - sz) : buf[offs + sz + i] = stream[scanned + i]
  BY <1>1 DEF LineIInv, AheadIsStream
<1>4. SubSeq(buf, offs + 1, offs + LineLength) \in Seq(Char)
  <2>1. LineLength \in Nat /\ offs + LineLength <= Len(buf)
    BY <1>1, <1>2, <1>3 DEF LineLength
  <2>2. QED
    BY <1>2, <2>1, SliceProperties
<1>5. lines' \in Seq(Seq(Char))
  BY <1>1, <1>2, <1>4, AppendProperties
<1>6. LineTypeOK'
  <2>1. Len(buf) \in Nat
    BY <1>2, LenProperties
  <2>2. /\ offs + (sz + 1) \in 0..BufSize /\ res - (sz + 1) \in 0..BufSize
        /\ 0 \in 0..BufSize /\ scanned + 1 \in 0..Len(stream)
    <3>1. 0 <= offs + (sz + 1) /\ offs + (sz + 1) <= offs + res
      BY <1>1, <1>2
    <3>2. 0 <= res - (sz + 1) /\ res - (sz + 1) <= BufSize
      BY <1>1, <1>2
    <3>3. Len(stream) - scanned = res - sz
      BY <1>3
    <3>4. scanned + 1 <= Len(stream)
      BY <1>1, <1>2, <3>3
    <3>5. QED
      BY <1>2, <1>3, <2>1, <3>1, <3>2, <3>4
  <2>3. QED
    BY <1>1, <1>5, <2>2 DEF LineIInv, LineTypeOK
<1>7. AheadIsStream'
  <2>1. \A i \in 1..((res - (sz + 1)) - 0) :
          i + 1 \in 1..(res - sz) /\ (offs + (sz + 1)) + 0 + i = offs + sz + (i + 1)
            /\ (scanned + 1) + i = scanned + (i + 1)
    BY <1>1, <1>2
  <2>2. \A i \in 1..((res - (sz + 1)) - 0) :
          buf[(offs + (sz + 1)) + 0 + i] = stream[(scanned + 1) + i]
    BY <1>3, <2>1
  <2>3. /\ 0 <= res - (sz + 1) /\ (offs + (sz + 1)) + (res - (sz + 1)) = Len(buf)
        /\ Len(stream) - (scanned + 1) = (res - (sz + 1)) - 0
    <3>1. sz \in Int /\ offs \in Int /\ res \in Int /\ scanned \in Int
      BY <1>2
    <3>2. /\ 0 <= res - (sz + 1)
          /\ (offs + (sz + 1)) + (res - (sz + 1)) = offs + res
          /\ (res - sz) - 1 = (res - (sz + 1)) - 0
      BY <1>1, <3>1
    <3>3. Len(stream) - (scanned + 1) = (res - sz) - 1
      BY <1>2, <1>3, <3>1
    <3>4. QED
      BY <1>3, <3>2, <3>3
  <2>4. QED
    BY <1>1, <1>3, <2>2, <2>3 DEF AheadIsStream
<1>8. RestIsPart'
  BY <1>1 DEF RestIsPart
<1>9. QED
  BY <1>6, <1>7, <1>8 DEF LineIInv

(* The rest is moved to the front, or, where it fills the buffer, lost. *)
LEMMA EndScanIInv ==
  ASSUME LineAssumption, LineIInv, EndScan
  PROVE  LineIInv'
<1>1. /\ pc = "scan" /\ pc' = "read" /\ ~(sz < res)
      /\ buf' = SubSeq(buf, offs + 1, offs + res)
      /\ old_len' = res % BufSize
      /\ UNCHANGED <<loopVars, stream, scanned, lines>>
  BY DEF EndScan, RestToFront, RestLength
<1>2. /\ sz \in Nat /\ offs \in Nat /\ res \in 0..BufSize /\ scanned \in Nat
      /\ BufSize \in Nat \ {0} /\ Len(stream) \in Nat /\ buf \in Seq(Char)
  BY LenProperties DEF LineAssumption, LineIInv, LineTypeOK
<1>3. /\ sz = res /\ scanned = Len(stream)
      /\ offs + res = Len(buf)
      /\ \A i \in 1..sz : buf[offs + i] \notin Ends
  BY <1>1, <1>2 DEF LineIInv, AheadIsStream, RestIsPart
<1>4. /\ buf' \in Seq(Char) /\ Len(buf') = res
      /\ \A i \in 1..res : buf'[i] = buf[offs + i]
  <2>1. res \in Nat /\ Len(buf) \in Nat /\ offs + res <= Len(buf)
    BY <1>2, <1>3, LenProperties
  <2>2. /\ SubSeq(buf, offs + 1, offs + res) \in Seq(Char)
        /\ Len(SubSeq(buf, offs + 1, offs + res)) = res
        /\ \A i \in 1..res : SubSeq(buf, offs + 1, offs + res)[i] = buf[offs + i]
    BY <1>2, <2>1, SliceProperties
  <2>3. QED
    BY <1>1, <2>2
<1>5. old_len' \in 0..(BufSize - 1) /\ old_len' <= res
  BY <1>1, <1>2
<1>6. LineTypeOK'
  BY <1>1, <1>2, <1>4, <1>5 DEF LineIInv, LineTypeOK, loopVars
<1>7. AheadIsStream'
  BY <1>1 DEF AheadIsStream
<1>8. RestIsPart'
  <2>1. \A i \in 1..old_len' : i \in 1..res
    BY <1>2, <1>5
  <2>2. \A i \in 1..old_len' : buf'[i] \notin Ends
    BY <1>3, <1>4, <2>1
  <2>3. scanned' = Len(stream') /\ old_len' <= Len(buf')
    BY <1>1, <1>3, <1>4, <1>5
  <2>4. QED
    BY <1>1, <2>2, <2>3 DEF RestIsPart
<1>9. QED
  BY <1>6, <1>7, <1>8 DEF LineIInv

LEMMA NextIInv ==
  ASSUME LineAssumption, LineIInv, [LineNext]_lineVars
  PROVE  LineIInv'
<1>1. CASE LineRead
  BY <1>1, ReadLineIInv
<1>2. CASE LineClose
  BY <1>2 DEF LineClose, LineIInv, LineTypeOK, AheadIsStream, RestIsPart, loopVars
<1>3. CASE ScanText
  BY <1>3, ScanTextIInv
<1>4. CASE ScanEnd
  BY <1>4, ScanEndIInv
<1>5. CASE EndScan
  BY <1>5, EndScanIInv
<1>6. CASE UNCHANGED lineVars
  BY <1>6 DEF LineIInv, LineTypeOK, AheadIsStream, RestIsPart, lineVars, loopVars
<1>7. QED
  BY <1>1, <1>2, <1>3, <1>4, <1>5, <1>6 DEF LineNext, LineFinished

(* Every variable of irc_read keeps its type: no offset and no length ever *)
(* leaves the buffer.                                                      *)
THEOREM LineTypeCorrect == LineSpec => []LineTypeOK
<1>1. LineInit => LineIInv
  BY LineAssumption, InitLineIInv
<1>2. LineIInv /\ [LineNext]_lineVars => LineIInv'
  BY LineAssumption, NextIInv
<1>3. LineIInv => LineTypeOK
  BY DEF LineIInv
<1>4. QED
  BY <1>1, <1>2, <1>3, PTL DEF LineSpec

(* The loop looks at every byte of the stream once and at nothing else,    *)
(* and what waits for its line end is at the front between two reads.      *)
THEOREM NothingLostOrLeft == LineSpec => []BufferIsStream
<1>1. LineInit => LineIInv
  BY LineAssumption, InitLineIInv
<1>2. LineIInv /\ [LineNext]_lineVars => LineIInv'
  BY LineAssumption, NextIInv
<1>3. LineIInv => BufferIsStream
  BY DEF LineIInv, BufferIsStream
<1>4. QED
  BY <1>1, <1>2, <1>3, PTL DEF LineSpec

-----------------------------------------------------------------------------
(* A buffer without a byte in it has no part. *)
LEMMA InitRefines == LineAssumption /\ LineInit => InLines!Init
<1> SUFFICES ASSUME LineAssumption, LineInit
             PROVE  InLines!Init
  OBVIOUS
<1>1. SubSeq(<<>>, 1, 0) = <<>>
  BY SubSeqEmpty
<1>2. Part = <<>>
  BY <1>1 DEF LineInit, Part
<1>3. QED
  BY <1>1, <1>2 DEF LineInit, InLines!Init

(* What the invariant says of the loop, in the terms of LineStream. *)
LEMMA LineInLoop ==
  ASSUME LineAssumption, LineIInv, pc = "scan"
  PROVE  /\ sz \in Nat /\ offs \in Nat /\ res \in Nat /\ scanned \in Nat
         /\ BufSize \in Nat \ {0} /\ sz <= res /\ res <= BufSize
         /\ buf \in Seq(Char) /\ stream \in Seq(Char) /\ lines \in Seq(Seq(Char))
         /\ offs + res = Len(buf) /\ Len(buf) \in Nat
         /\ scanned + (res - sz) = Len(stream) /\ Len(stream) \in Nat
         /\ Part = SubSeq(buf, offs + 1, offs + sz)
         /\ Part \in Seq(Char) /\ Len(Part) = sz
         /\ \A i \in 1..sz : Part[i] = buf[offs + i]
<1>1. /\ sz \in Nat /\ offs \in Nat /\ res \in Nat /\ scanned \in Nat /\ res <= BufSize
      /\ BufSize \in Nat \ {0}
      /\ buf \in Seq(Char) /\ stream \in Seq(Char) /\ lines \in Seq(Seq(Char))
  BY DEF LineAssumption, LineIInv, LineTypeOK
<1>2. Len(buf) \in Nat /\ Len(stream) \in Nat
  BY <1>1, LenProperties
<1>3. sz <= res /\ offs + res = Len(buf) /\ Len(stream) - scanned = res - sz
  BY DEF LineIInv, AheadIsStream
<1>4. Part = SubSeq(buf, offs + 1, offs + sz)
  BY DEF Part
<1>5. offs + sz <= Len(buf) /\ scanned + (res - sz) = Len(stream)
  BY <1>1, <1>2, <1>3
<1>6. /\ SubSeq(buf, offs + 1, offs + sz) \in Seq(Char)
      /\ Len(SubSeq(buf, offs + 1, offs + sz)) = sz
      /\ \A i \in 1..sz : SubSeq(buf, offs + 1, offs + sz)[i] = buf[offs + i]
  BY <1>1, <1>5, SliceProperties
<1>7. QED
  BY <1>1, <1>2, <1>3, <1>4, <1>5, <1>6

(* The byte the loop looks at is the next one of the stream. *)
LEMMA ThisByteIsNext ==
  ASSUME LineAssumption, LineIInv, pc = "scan", sz < res
  PROVE  /\ ThisByte \in Char
         /\ SubSeq(stream, 1, scanned + 1) = Append(SubSeq(stream, 1, scanned), ThisByte)
<1>1. /\ sz \in Nat /\ offs \in Nat /\ res \in Nat /\ scanned \in Nat
      /\ buf \in Seq(Char) /\ stream \in Seq(Char)
      /\ offs + res = Len(buf) /\ Len(buf) \in Nat
      /\ scanned + (res - sz) = Len(stream) /\ Len(stream) \in Nat
  BY LineInLoop
<1>2. offs + sz + 1 \in 1..Len(buf) /\ 0 + scanned + 1 <= Len(stream) /\ 1 \in 1..(res - sz)
  BY <1>1
<1>3. buf[offs + sz + 1] \in Char
  BY <1>1, <1>2, ElementOfSeq
<1>4. buf[offs + sz + 1] = stream[scanned + 1]
  BY <1>2 DEF LineIInv, AheadIsStream
<1>5. SubSeq(stream, 0 + 1, 0 + (scanned + 1))
        = Append(SubSeq(stream, 0 + 1, 0 + scanned), stream[0 + scanned + 1])
  BY <1>1, <1>2, SliceGrows
<1>6. 0 + 1 = 1 /\ 0 + (scanned + 1) = scanned + 1 /\ 0 + scanned = scanned
  BY <1>1
<1>7. QED
  BY <1>3, <1>4, <1>5, <1>6 DEF ThisByte

-----------------------------------------------------------------------------
(* A read takes nothing from the stream yet. *)
LEMMA ReadRefines ==
  ASSUME LineAssumption, LineIInv, LineRead
  PROVE  UNCHANGED InLines!vars
<1>1. LineIInv' /\ pc = "read" /\ pc' = "scan" /\ lines' = lines
        /\ scanned' = scanned /\ sz' = old_len /\ offs' = 0
  BY ReadLineIInv DEF LineRead, StartOfScan
<1>2. PICK n \in 1..(BufSize - old_len) :
        \E bytes \in [1..n -> Char] :
          /\ buf' = SubSeq(buf, 1, old_len) \o bytes
          /\ stream' = stream \o bytes
  BY DEF LineRead
<1>3. PICK bytes \in [1..n -> Char] :
        /\ buf' = SubSeq(buf, 1, old_len) \o bytes
        /\ stream' = stream \o bytes
  BY <1>2
<1>4. /\ n \in Nat /\ bytes \in Seq(Char) /\ Len(bytes) = n
      /\ buf \in Seq(Char) /\ stream \in Seq(Char)
      /\ buf' \in Seq(Char) /\ stream' \in Seq(Char)
      /\ Len(stream) \in Nat /\ Len(buf) \in Nat
      /\ scanned = Len(stream) /\ old_len \in 0..Len(buf)
  BY <1>1, <1>3, LenProperties DEF LineAssumption, LineIInv, LineTypeOK, RestIsPart
<1> DEFINE rest == SubSeq(buf, 1, old_len)
<1>5. /\ rest \in Seq(Char) /\ Len(rest) = old_len
  BY <1>4, PrefixProperties
<1>a. buf' = rest \o bytes
  BY <1>3
<1> HIDE DEF rest
<1>6. SubSeq(buf', 1, old_len) = rest
  <2>1. Len(buf') = old_len + n /\ \A i \in 1..old_len : buf'[i] = rest[i]
    <3>1. /\ Len(rest \o bytes) = old_len + n
          /\ \A i \in 1..old_len : (rest \o bytes)[i] = rest[i]
      <4>1. rest \in Seq(Char) /\ Len(rest) = old_len /\ n \in Nat
        BY <1>4, <1>5
      <4>2. QED
        BY <4>1, AppendedProperties, SMTT(30)
    <3>2. QED
      BY <1>a, <3>1
  <2>2. /\ SubSeq(buf', 1, old_len) \in Seq(Char)
        /\ Len(SubSeq(buf', 1, old_len)) = old_len
        /\ \A i \in 1..old_len : SubSeq(buf', 1, old_len)[i] = buf'[i]
    <3>1. old_len \in 0..Len(buf')
      BY <1>4, <2>1
    <3>2. QED
      BY <1>4, <3>1, PrefixProperties
  <2>3. \A i \in 1..old_len : SubSeq(buf', 1, old_len)[i] = rest[i]
    BY <1>4, <2>1, <2>2
  <2>4. QED
    BY <1>5, <2>2, <2>3, SeqEqual
<1>7. SubSeq(stream', 1, scanned) = SubSeq(stream, 1, scanned)
  <2>1. Len(stream') = Len(stream) + n /\ \A i \in 1..Len(stream) : stream'[i] = stream[i]
    <3>1. /\ stream \o bytes \in Seq(Char)
          /\ Len(stream \o bytes) = Len(stream) + n
          /\ \A i \in 1..Len(stream) : (stream \o bytes)[i] = stream[i]
          /\ \A i \in 1..n : (stream \o bytes)[Len(stream) + i] = bytes[i]
      <4>1. stream \in Seq(Char) /\ n \in Nat
        BY <1>4
      <4>2. QED
        BY <4>1, AppendedProperties
    <3>2. QED
      BY <1>3, <3>1
  <2>2. /\ SubSeq(stream', 1, scanned) \in Seq(Char)
        /\ Len(SubSeq(stream', 1, scanned)) = scanned
        /\ \A i \in 1..scanned : SubSeq(stream', 1, scanned)[i] = stream'[i]
    <3>1. scanned \in 0..Len(stream')
      BY <1>4, <2>1
    <3>2. QED
      BY <1>4, <3>1, PrefixProperties
  <2>3. /\ SubSeq(stream, 1, scanned) \in Seq(Char)
        /\ Len(SubSeq(stream, 1, scanned)) = scanned
        /\ \A i \in 1..scanned : SubSeq(stream, 1, scanned)[i] = stream[i]
    <3>1. scanned \in 0..Len(stream)
      BY <1>4
    <3>2. QED
      BY <1>4, <3>1, PrefixProperties
  <2>4. \A i \in 1..scanned : SubSeq(stream', 1, scanned)[i] = SubSeq(stream, 1, scanned)[i]
    BY <1>4, <2>1, <2>2, <2>3
  <2>5. QED
    BY <2>2, <2>3, <2>4, SeqEqual
<1>8. Part' = Part
  <2>1. Part = rest
    BY <1>1 DEF Part, rest
  <2>2. Part' = SubSeq(buf', 0 + 1, 0 + old_len)
    BY <1>1 DEF Part
  <2>3. 0 + 1 = 1 /\ 0 + old_len = old_len
    BY <1>4
  <2>4. QED
    BY <1>6, <2>1, <2>2, <2>3
<1>9. QED
  BY <1>1, <1>7, <1>8 DEF InLines!vars

(* A byte of a line is taken and added to the part. *)
LEMMA ScanTextRefines ==
  ASSUME LineAssumption, LineIInv, ScanText
  PROVE  InLines!Next
<1>1. /\ pc = "scan" /\ pc' = pc /\ sz < res /\ sz' = sz + 1
      /\ ThisByte \notin Ends /\ scanned' = scanned + 1
      /\ UNCHANGED <<buf, offs, stream, lines>>
  BY DEF ScanText
<1>2. /\ sz \in Nat /\ offs \in Nat /\ res \in Nat /\ buf \in Seq(Char)
      /\ BufSize \in Nat /\ res <= BufSize
      /\ offs + res = Len(buf) /\ Len(buf) \in Nat
      /\ Part = SubSeq(buf, offs + 1, offs + sz) /\ Len(Part) = sz
  BY <1>1, LineInLoop
<1>3. /\ ThisByte \in Char
      /\ SubSeq(stream, 1, scanned)' = Append(SubSeq(stream, 1, scanned), ThisByte)
  BY <1>1, ThisByteIsNext
<1>4. Part' = Append(Part, ThisByte)
  <2>1. Part' = SubSeq(buf, offs + 1, offs + (sz + 1))
    BY <1>1 DEF Part
  <2>2. offs + sz + 1 <= Len(buf)
    BY <1>1, <1>2
  <2>3. SubSeq(buf, offs + 1, offs + (sz + 1))
          = Append(SubSeq(buf, offs + 1, offs + sz), buf[offs + sz + 1])
    BY <1>2, <2>2, SliceGrows
  <2>4. QED
    BY <1>2, <2>1, <2>3 DEF ThisByte
<1>5. Len(Part) < BufSize
  BY <1>1, <1>2
<1>6. InLines!Take(ThisByte)
  BY <1>1, <1>3, <1>4, <1>5 DEF InLines!Take
<1>7. QED
  BY <1>3, <1>6 DEF InLines!Next

(* A line end is taken, and the part, less its '\r', is a line. *)
LEMMA ScanEndRefines ==
  ASSUME LineAssumption, LineIInv, ScanEnd
  PROVE  InLines!Next
<1>1. /\ pc = "scan" /\ pc' = pc /\ sz < res /\ sz' = 0
      /\ ThisByte \in Ends /\ scanned' = scanned + 1
      /\ offs' = offs + (sz + 1)
      /\ lines' = Append(lines, SubSeq(buf, offs + 1, offs + LineLength))
      /\ UNCHANGED <<buf, stream>>
  BY DEF ScanEnd, LineAndEnd
<1>2. /\ sz \in Nat /\ offs \in Nat /\ res \in Nat /\ buf \in Seq(Char)
      /\ BufSize \in Nat /\ res <= BufSize
      /\ offs + res = Len(buf) /\ Len(buf) \in Nat
      /\ Part = SubSeq(buf, offs + 1, offs + sz)
      /\ Part \in Seq(Char) /\ Len(Part) = sz
      /\ \A i \in 1..sz : Part[i] = buf[offs + i]
  BY <1>1, LineInLoop
<1>3. /\ ThisByte \in Char
      /\ SubSeq(stream, 1, scanned)' = Append(SubSeq(stream, 1, scanned), ThisByte)
  BY <1>1, ThisByteIsNext
<1>4. Part' = <<>>
  <2>1. Part' = SubSeq(buf, (offs + (sz + 1)) + 1, (offs + (sz + 1)) + 0)
    BY <1>1 DEF Part
  <2>2. /\ (offs + (sz + 1)) + 1 \in Int /\ (offs + (sz + 1)) + 0 \in Int
        /\ (offs + (sz + 1)) + 0 < (offs + (sz + 1)) + 1
    BY <1>2
  <2>3. QED
    BY <2>1, <2>2, SubSeqEmpty
<1>5. SubSeq(buf, offs + 1, offs + LineLength) = InLines!WithoutCR(Part)
  <2>1. CASE sz > 0 /\ buf[offs + sz] = CR
    <3>1. LineLength = sz - 1
      BY <2>1 DEF LineLength
    <3>2. Part # <<>> /\ Part[Len(Part)] = CR
      <4>1. sz \in 1..sz
        BY <1>2, <2>1
      <4>2. QED
        <5>1. Part # <<>>
          <6>1. Len(<<>>) = 0
            BY EmptySeq
          <6>2. Len(Part) # 0
            BY <1>2, <2>1
          <6>3. QED
            BY <6>1, <6>2, Zenon
        <5>2. Part[sz] = buf[offs + sz]
          BY <1>2, <4>1
        <5>3. QED
          BY <1>2, <2>1, <5>1, <5>2
    <3>3. InLines!WithoutCR(Part) = SubSeq(Part, 1, sz - 1)
      BY <1>2, <3>2 DEF InLines!WithoutCR
    <3>4. SubSeq(SubSeq(buf, offs + 1, offs + sz), 1, sz - 1)
            = SubSeq(buf, offs + 1, offs + (sz - 1))
      <4>1. sz - 1 \in 0..sz /\ offs + sz <= Len(buf)
        BY <1>1, <1>2, <2>1
      <4>2. QED
        BY <1>2, <4>1, PrefixOfSlice
    <3>5. QED
      BY <1>2, <3>1, <3>3, <3>4
  <2>2. CASE ~(sz > 0 /\ buf[offs + sz] = CR)
    <3>1. LineLength = sz
      BY <2>2 DEF LineLength
    <3>2. ~(Part # <<>> /\ Part[Len(Part)] = CR)
      <4>1. CASE sz = 0
        BY <1>2, <4>1, EmptySeq
      <4>2. CASE sz > 0
        <5>1. sz \in 1..sz
          BY <1>2, <4>2
        <5>2. QED
          BY <1>2, <2>2, <4>2, <5>1
      <4>3. QED
        BY <1>2, <4>1, <4>2
    <3>3. QED
      BY <1>2, <3>1, <3>2 DEF InLines!WithoutCR
  <2>3. QED
    BY <2>1, <2>2
<1>6. Len(Part) < BufSize
  BY <1>1, <1>2
<1>7. InLines!Take(ThisByte)
  BY <1>1, <1>3, <1>4, <1>5, <1>6 DEF InLines!Take
<1>8. QED
  BY <1>3, <1>7 DEF InLines!Next

(* The rest keeps the part, or drops it where it fills the buffer. *)
LEMMA EndScanRefines ==
  ASSUME LineAssumption, LineIInv, EndScan
  PROVE  [InLines!Next]_(InLines!vars)
<1>1. /\ pc = "scan" /\ pc' = "read" /\ ~(sz < res)
      /\ buf' = SubSeq(buf, offs + 1, offs + res)
      /\ old_len' = res % BufSize
      /\ UNCHANGED <<stream, scanned, lines>>
  BY DEF EndScan, RestToFront, RestLength
<1>2. /\ sz \in Nat /\ offs \in Nat /\ res \in Nat /\ buf \in Seq(Char)
      /\ BufSize \in Nat \ {0} /\ sz <= res /\ res <= BufSize
      /\ Part = SubSeq(buf, offs + 1, offs + sz)
      /\ Part \in Seq(Char) /\ Len(Part) = sz
  BY <1>1, LineInLoop
<1>3. sz = res /\ buf' = Part
  BY <1>1, <1>2
<1>4. Part' = SubSeq(buf', 1, old_len')
  BY <1>1 DEF Part
<1>5. CASE res < BufSize
  <2>1. old_len' = res
    BY <1>1, <1>2, <1>5
  <2>2. Part' = Part
    BY <1>2, <1>3, <1>4, <2>1, SubSeqFull
  <2>3. QED
    BY <1>1, <2>2 DEF InLines!vars
<1>6. CASE res = BufSize
  <2>1. old_len' = 0
    BY <1>1, <1>2, <1>6
  <2>2. Part' = <<>>
    BY <1>4, <2>1, SubSeqEmpty
  <2>3. InLines!Overflow
    BY <1>1, <1>2, <1>3, <1>6, <2>2 DEF InLines!Overflow
  <2>4. QED
    BY <2>3 DEF InLines!Next
<1>7. QED
  BY <1>2, <1>5, <1>6

LEMMA CloseRefines ==
  ASSUME LineClose
  PROVE  InLines!Next
<1>1. /\ (pc # "closed") /\ (pc # "closed")' = FALSE /\ Part' = <<>>
      /\ UNCHANGED <<stream, scanned, lines>>
  BY DEF LineClose, Part
<1>2. InLines!End
  BY <1>1 DEF InLines!End
<1>3. QED
  BY <1>2 DEF InLines!Next

(* Every step of irc_read is a step of LineStream or a stutter. *)
LEMMA StepRefines ==
  LineAssumption /\ LineIInv /\ [LineNext]_lineVars => [InLines!Next]_(InLines!vars)
<1> SUFFICES ASSUME LineAssumption, LineIInv, [LineNext]_lineVars
             PROVE  [InLines!Next]_(InLines!vars)
  OBVIOUS
<1>1. CASE LineRead
  BY <1>1, ReadRefines
<1>2. CASE LineClose
  BY <1>2, CloseRefines
<1>3. CASE ScanText
  BY <1>3, ScanTextRefines
<1>4. CASE ScanEnd
  BY <1>4, ScanEndRefines
<1>5. CASE EndScan
  BY <1>5, EndScanRefines
<1>6. CASE UNCHANGED lineVars
  BY <1>6 DEF lineVars, loopVars, InLines!vars, Part
<1>7. QED
  BY <1>1, <1>2, <1>3, <1>4, <1>5, <1>6 DEF LineNext, LineFinished

(* The lines that irc_read hands over are those of the stream, however the *)
(* network cuts it, whatever the alphabet and the size of the buffer.      *)
THEOREM LineRefinement == LineSpec => ImplementsLineStream
<1>1. LineInit => LineIInv
  BY LineAssumption, InitLineIInv
<1>2. LineIInv /\ [LineNext]_lineVars => LineIInv'
  BY LineAssumption, NextIInv
<1>3. LineInit => InLines!Init
  BY LineAssumption, InitRefines
<1>4. LineIInv /\ [LineNext]_lineVars => [InLines!Next]_(InLines!vars)
  BY LineAssumption, StepRefines
<1>5. QED
  BY <1>1, <1>2, <1>3, <1>4, PTL DEF LineSpec, ImplementsLineStream, InLines!Spec

-----------------------------------------------------------------------------
(* Packets *)

(* What is kept between two reads is in the buffer and cannot be used yet; *)
(* the loop works on no more than the buffer holds.                        *)
RestWaits ==
  pc = "read" =>
    /\ old_len <= Len(buf)
    /\ ~InPackets!IsGarbage(Arrived)
    /\ ~InPackets!HasPacket(Arrived)

FitsBuffer == pc = "parse" => Len(buf) <= BufSize

PacketIInv == PacketTypeOK /\ RestWaits /\ FitsBuffer

-----------------------------------------------------------------------------
LEMMA InitPacketIInv ==
  ASSUME PacketAssumption, PacketInit
  PROVE  PacketIInv
<1>1. <<>> \in Seq(Byte) /\ <<>> \in Seq(Seq(Byte)) /\ Len(<<>>) = 0
  BY EmptySeq
<1>2. PacketTypeOK
  BY <1>1 DEF PacketAssumption, PacketInit, PacketTypeOK
<1>3. Arrived = <<>>
  <2>1. SubSeq(<<>>, 1, 0) = <<>>
    BY SubSeqEmpty
  <2>2. QED
    BY <2>1 DEF PacketInit, Arrived
<1>4. RestWaits /\ FitsBuffer
  <2>1. ~InPackets!IsGarbage(<<>>)
    BY DEF InPackets!IsGarbage
  <2>2. ~InPackets!HasPacket(<<>>)
    BY <1>1 DEF InPackets!HasPacket, PacketAssumption
  <2>3. QED
    BY <1>1, <1>3, <2>1, <2>2 DEF RestWaits, FitsBuffer, PacketInit
<1>5. QED
  BY <1>2, <1>4 DEF PacketIInv

(* A packet is written behind what is on its way. *)
LEMMA ServerSendIInv ==
  ASSUME PacketAssumption, PacketIInv, ServerSend
  PROVE  PacketIInv' /\ UNCHANGED InPackets!vars
<1>1. PICK type \in Byte, len \in Byte :
        /\ \E payload \in [1..(HeadSize - 2 + len) -> Byte] :
             /\ wire' = wire \o (<<type, len>> \o payload)
             /\ sent' = Append(sent, <<type, len>> \o payload)
        /\ UNCHANGED <<pc, buf, old_len, ptr, avdata, packets>>
  BY DEF ServerSend
<1>2. PICK payload \in [1..(HeadSize - 2 + len) -> Byte] :
        /\ wire' = wire \o (<<type, len>> \o payload)
        /\ sent' = Append(sent, <<type, len>> \o payload)
  BY <1>1
<1>3. HeadSize - 2 + len \in Nat
  BY DEF PacketAssumption, Byte
<1>4. payload \in Seq(Byte) /\ <<type, len>> \in Seq(Byte)
  BY <1>3
<1> DEFINE packet == <<type, len>> \o payload
<1>5. packet \in Seq(Byte)
  BY <1>4, ConcatProperties
<1> HIDE DEF packet
<1>6. wire' = wire \o packet /\ sent' = Append(sent, packet)
  BY <1>2 DEF packet
<1>7. wire \in Seq(Byte) /\ sent \in Seq(Seq(Byte))
  BY DEF PacketIInv, PacketTypeOK
<1>8. wire' \in Seq(Byte) /\ sent' \in Seq(Seq(Byte))
  BY <1>5, <1>6, <1>7, ConcatProperties, AppendProperties
<1>9. Arrived' = Arrived
  BY <1>1 DEF Arrived
<1>10. PacketTypeOK'
  BY <1>1, <1>8 DEF PacketIInv, PacketTypeOK
<1>11. RestWaits' /\ FitsBuffer'
  BY <1>1, <1>9 DEF PacketIInv, RestWaits, FitsBuffer
<1>12. QED
  BY <1>1, <1>9, <1>10, <1>11 DEF PacketIInv, InPackets!vars

LEMMA SplitAt ==
  ASSUME NEW S, NEW s \in Seq(S), NEW n \in 0..Len(s)
  PROVE  SubSeq(s, 1, n) \o SubSeq(s, n + 1, Len(s)) = s
<1>1. SubSeq(s, 1, n) \o SubSeq(s, n + 1, Len(s)) = SubSeq(s, 1, Len(s))
  <2>1. Len(s) \in Nat
    BY LenProperties
  <2>2. 1 \in 1..(Len(s) + 1) /\ n \in (1 - 1)..Len(s) /\ Len(s) \in n..Len(s)
    BY <2>1
  <2>3. QED
    BY <2>2, ConcatAdjacentSubSeq
<1>2. QED
  BY <1>1, SubSeqFull

(* The bytes a read() takes come behind the rest. *)
LEMMA ReadPacketIInv ==
  ASSUME PacketAssumption, PacketIInv, PacketRead
  PROVE  /\ PacketIInv'
         /\ \E n \in 1..BufSize : \E bytes \in [1..n -> Byte] :
              InPackets!Arrive(bytes) /\ bytes \o wire' = wire
<1>1. PICK n \in 1..Len(wire) :
        /\ pc = "read"
        /\ n <= BufSize - old_len
        /\ buf' = SubSeq(buf, 1, old_len) \o SubSeq(wire, 1, n)
        /\ wire' = SubSeq(wire, n + 1, Len(wire))
        /\ ptr' = 0
        /\ avdata' = n + old_len
        /\ pc' = "parse"
        /\ UNCHANGED <<old_len, sent, packets>>
  BY DEF PacketRead, ReadBehind
<1>2. /\ BufSize \in Nat /\ old_len \in 0..(BufSize - 1) /\ old_len <= Len(buf)
      /\ buf \in Seq(Byte) /\ wire \in Seq(Byte)
      /\ Len(buf) \in Nat /\ Len(wire) \in Nat
  BY <1>1, LenProperties DEF PacketAssumption, PacketIInv, PacketTypeOK, RestWaits
<1>3. n \in Nat /\ n >= 1 /\ n \in 1..BufSize /\ n + old_len \in 0..BufSize
      /\ n \in 0..Len(wire) /\ old_len \in 0..Len(buf)
  BY <1>1, <1>2
<1> DEFINE rest == SubSeq(buf, 1, old_len)
           new  == SubSeq(wire, 1, n)
<1>4. /\ rest \in Seq(Byte) /\ Len(rest) = old_len
      /\ new \in Seq(Byte) /\ Len(new) = n
  BY <1>2, <1>3, PrefixProperties
<1>5. Arrived = rest
  BY <1>1 DEF Arrived
<1>6. buf' = rest \o new
  BY <1>1
<1> HIDE DEF rest, new
<1>7. buf' \in Seq(Byte) /\ Len(buf') = n + old_len
  <2>1. rest \o new \in Seq(Byte) /\ Len(rest \o new) = Len(rest) + Len(new)
    BY <1>4, ConcatProperties
  <2>2. old_len + n = n + old_len
    BY <1>2, <1>3
  <2>3. QED
    BY <1>4, <1>6, <2>1, <2>2
<1>8. wire' \in Seq(Byte)
  <2>1. n + (Len(wire) - n) = Len(wire) /\ Len(wire) - n \in Nat
    BY <1>1, <1>2
  <2>2. SubSeq(wire, n + 1, n + (Len(wire) - n)) \in Seq(Byte)
    BY <1>2, <1>3, <2>1, SliceProperties
  <2>3. QED
    BY <1>1, <2>1, <2>2
<1>9. PacketIInv'
  <2>1. ptr' + avdata' = Len(buf') /\ ptr' \in 0..BufSize /\ avdata' \in 0..BufSize
    BY <1>1, <1>2, <1>3, <1>7
  <2>2. PacketTypeOK'
    BY <1>1, <1>2, <1>7, <1>8, <2>1 DEF PacketIInv, PacketTypeOK
  <2>3. RestWaits' /\ FitsBuffer'
    BY <1>1, <1>3, <1>7 DEF RestWaits, FitsBuffer
  <2>4. QED
    BY <2>2, <2>3 DEF PacketIInv
<1>10. Arrived' = Arrived \o new
  <2>1. Arrived' = SubSeq(buf', 0 + 1, 0 + (n + old_len))
    BY <1>1 DEF Arrived
  <2>2. 0 + 1 = 1 /\ 0 + (n + old_len) = Len(buf')
    BY <1>2, <1>3, <1>7
  <2>3. SubSeq(buf', 1, Len(buf')) = buf'
    BY <1>7, SubSeqFull
  <2>4. QED
    BY <1>5, <1>6, <2>1, <2>2, <2>3
<1>11. InPackets!Arrive(new)
  <2>1. ~InPackets!IsGarbage(Arrived) /\ ~InPackets!HasPacket(Arrived)
    BY <1>1 DEF PacketIInv, RestWaits
  <2>2. Len(Arrived) + Len(new) <= BufSize
    BY <1>2, <1>3, <1>4, <1>5
  <2>3. (pc # "closed") /\ (pc # "closed")' = (pc # "closed") /\ packets' = packets
    BY <1>1
  <2>4. QED
    BY <1>10, <2>1, <2>2, <2>3 DEF InPackets!Arrive
<1>12. new \in [1..n -> Byte]
  BY <1>4, LenProperties
<1>13. new \o wire' = wire
  BY <1>1, <1>2, <1>3, SplitAt DEF new
<1>14. QED
  BY <1>3, <1>9, <1>11, <1>12, <1>13

-----------------------------------------------------------------------------
(* What the invariant says of the loop, in the terms of PacketStream.      *)
LEMMA PacketInLoop ==
  ASSUME PacketAssumption, PacketIInv, pc = "parse"
  PROVE  /\ BufSize \in Nat \ {0} /\ HeadSize \in Nat /\ HeadSize > 1
         /\ ptr \in Nat /\ avdata \in Nat /\ ptr + avdata = Len(buf) /\ Len(buf) <= BufSize
         /\ buf \in Seq(Byte) /\ packets \in Seq(Seq(Byte))
         /\ Arrived = SubSeq(buf, ptr + 1, ptr + avdata)
         /\ Arrived \in Seq(Byte) /\ Len(Arrived) = avdata
         /\ \A i \in 1..avdata : Arrived[i] = buf[ptr + i]
<1>1. /\ BufSize \in Nat \ {0} /\ HeadSize \in Nat /\ HeadSize > 1
      /\ ptr \in Nat /\ avdata \in Nat /\ ptr + avdata = Len(buf) /\ Len(buf) <= BufSize
      /\ buf \in Seq(Byte) /\ packets \in Seq(Seq(Byte))
  BY DEF PacketAssumption, PacketIInv, PacketTypeOK, FitsBuffer
<1>2. buf \in Seq(Byte) /\ ptr \in Nat /\ avdata \in Nat /\ ptr + avdata <= Len(buf)
  BY <1>1
<1>3. /\ SubSeq(buf, ptr + 1, ptr + avdata) \in Seq(Byte)
      /\ Len(SubSeq(buf, ptr + 1, ptr + avdata)) = avdata
      /\ \A i \in 1..avdata : SubSeq(buf, ptr + 1, ptr + avdata)[i] = buf[ptr + i]
  BY <1>2, SliceProperties
<1>4. Arrived = SubSeq(buf, ptr + 1, ptr + avdata)
  BY DEF Arrived
<1>5. QED
  BY <1>1, <1>3, <1>4

(* parse_indata sees a packet exactly where PacketStream has one.          *)
LEMMA CompleteIsPacket ==
  ASSUME PacketAssumption, PacketIInv, pc = "parse", avdata # 0, buf[ptr + 1] = Valid
  PROVE  /\ Complete <=> InPackets!HasPacket(Arrived)
         /\ Complete => /\ InPackets!Size(Arrived) = PkLen
                        /\ PkLen \in 1..avdata
<1>1. /\ HeadSize \in Nat /\ HeadSize > 1 /\ avdata \in Nat /\ Len(Arrived) = avdata
      /\ Arrived \in Seq(Byte)
      /\ \A i \in 1..avdata : Arrived[i] = buf[ptr + i]
  BY PacketInLoop
<1>2. 1 \in 1..avdata
  BY <1>1
<1>3. Arrived[1] = Valid
  BY <1>1, <1>2
<1>4. CASE avdata >= HeadSize
  <2>1. 2 \in 1..avdata
    BY <1>1, <1>4
  <2>2. Arrived[2] = buf[ptr + 2] /\ Arrived[2] \in Byte
    BY <1>1, <2>1, ElementOfSeq
  <2>3. InPackets!Size(Arrived) = PkLen
    BY <2>2 DEF InPackets!Size, PkLen
  <2>4. PkLen \in Nat /\ PkLen >= 1
    BY <1>1, <2>2 DEF PkLen, Byte, PacketAssumption
  <2>5. QED
    BY <1>1, <1>3, <1>4, <2>3, <2>4 DEF Complete, InPackets!HasPacket
<1>5. CASE ~(avdata >= HeadSize)
  BY <1>1, <1>5 DEF Complete, InPackets!HasPacket
<1>6. QED
  BY <1>4, <1>5

(* A packet is processed: it is the first of what has arrived. *)
LEMMA ProcessIInv ==
  ASSUME PacketAssumption, PacketIInv, Process
  PROVE  PacketIInv' /\ InPackets!Deliver
<1>1. /\ pc = "parse" /\ pc' = "parse" /\ avdata # 0 /\ buf[ptr + 1] = Valid /\ Complete
      /\ packets' = Append(packets, SubSeq(buf, ptr + 1, ptr + PkLen))
      /\ ptr' = ptr + PkLen /\ avdata' = avdata - PkLen
      /\ UNCHANGED <<buf, old_len, wire, sent>>
  BY DEF Process, PacketSize
<1>2. /\ InPackets!HasPacket(Arrived) /\ InPackets!Size(Arrived) = PkLen /\ PkLen \in 1..avdata
  BY <1>1, CompleteIsPacket
<1>3. /\ BufSize \in Nat /\ ptr \in Nat /\ avdata \in Nat
      /\ ptr + avdata = Len(buf) /\ Len(buf) <= BufSize
      /\ buf \in Seq(Byte) /\ packets \in Seq(Seq(Byte))
      /\ Arrived = SubSeq(buf, ptr + 1, ptr + avdata) /\ Len(Arrived) = avdata
  BY <1>1, PacketInLoop
<1> DEFINE len == PkLen
<1>4. len \in Nat /\ len \in 0..avdata /\ ptr + avdata <= Len(buf) /\ ptr + len <= Len(buf)
  BY <1>2, <1>3
<1> HIDE DEF len
<1>5. packets' \in Seq(Seq(Byte))
  <2>1. SubSeq(buf, ptr + 1, ptr + len) \in Seq(Byte)
    BY <1>3, <1>4, SliceProperties
  <2>2. QED
    BY <1>1, <1>3, <2>1, AppendProperties DEF len
<1>6. PacketIInv'
  <2>1. /\ ptr + len \in 0..BufSize /\ avdata - len \in 0..BufSize
        /\ (ptr + len) + (avdata - len) = Len(buf)
    <3>1. /\ ptr \in Nat /\ avdata \in Nat /\ BufSize \in Nat /\ len \in Nat
          /\ len <= avdata /\ ptr + avdata <= BufSize
      BY <1>3, <1>4
    <3>2. (ptr + len) + (avdata - len) = ptr + avdata
      BY <3>1
    <3>3. ptr + len \in 0..BufSize
      BY <3>1
    <3>4. avdata - len \in 0..BufSize
      BY <3>1
    <3>5. QED
      BY <1>3, <3>2, <3>3, <3>4
  <2>2. PacketTypeOK'
    <3>1. /\ ptr' = ptr + len /\ avdata' = avdata - len
          /\ UNCHANGED <<pc, buf, old_len, wire, sent>>
      BY <1>1 DEF len
    <3>2. /\ ptr' \in 0..BufSize /\ avdata' \in 0..BufSize
          /\ pc' = "parse" => ptr' + avdata' = Len(buf')
      BY <2>1, <3>1
    <3>3. QED
      BY <1>5, <3>1, <3>2 DEF PacketIInv, PacketTypeOK
  <2>3. RestWaits' /\ FitsBuffer'
    BY <1>1, <1>3 DEF RestWaits, FitsBuffer
  <2>4. QED
    BY <2>2, <2>3 DEF PacketIInv
<1>7. SubSeq(Arrived, 1, len) = SubSeq(buf, ptr + 1, ptr + len)
  <2>1. SubSeq(SubSeq(buf, ptr + 1, ptr + avdata), 1, len) = SubSeq(buf, ptr + 1, ptr + len)
    <3>1. /\ buf \in Seq(Byte) /\ ptr \in Nat /\ avdata \in Nat
          /\ ptr + avdata <= Len(buf) /\ len \in 0..avdata
      BY <1>3, <1>4
    <3>2. QED
      BY <3>1, PrefixOfSlice
  <2>2. QED
    BY <1>3, <2>1
<1>8. Arrived' = SubSeq(Arrived, len + 1, Len(Arrived))
  <2>1. SubSeq(SubSeq(buf, ptr + 1, ptr + avdata), len + 1, avdata)
          = SubSeq(buf, (ptr + len) + 1, ptr + avdata)
    <3>1. /\ buf \in Seq(Byte) /\ ptr \in Nat /\ avdata \in Nat
          /\ ptr + avdata <= Len(buf) /\ len \in 0..avdata
      BY <1>3, <1>4
    <3>2. QED
      BY <3>1, SuffixOfSlice
  <2>2. (ptr + len) + (avdata - len) = ptr + avdata
    BY <1>3, <1>4
  <2>3. Arrived' = SubSeq(buf, (ptr + len) + 1, (ptr + len) + (avdata - len))
    BY <1>1 DEF Arrived, len
  <2>4. QED
    BY <1>3, <2>1, <2>2, <2>3
<1>9. InPackets!Deliver
  <2>1. (pc # "closed") /\ (pc # "closed")' = (pc # "closed")
    BY <1>1
  <2>2. packets' = Append(packets, SubSeq(Arrived, 1, InPackets!Size(Arrived)))
    BY <1>1, <1>2, <1>7 DEF len
  <2>3. Arrived' = SubSeq(Arrived, InPackets!Size(Arrived) + 1, Len(Arrived))
    BY <1>2, <1>8 DEF len
  <2>4. QED
    BY <1>2, <2>1, <2>2, <2>3 DEF InPackets!Deliver
<1>10. QED
  BY <1>6, <1>9

(* Data that is no packet is dropped, as far as it has arrived. *)
LEMMA SkipIInv ==
  ASSUME PacketAssumption, PacketIInv, Skip
  PROVE  PacketIInv' /\ InPackets!Skip
<1>1. /\ pc = "parse" /\ pc' = "read" /\ avdata # 0 /\ buf[ptr + 1] # Valid /\ old_len' = 0
      /\ UNCHANGED <<buf, ptr, avdata, wire, sent, packets>>
  BY DEF Skip
<1>2. /\ avdata \in Nat /\ Arrived \in Seq(Byte) /\ Len(Arrived) = avdata
      /\ BufSize \in Nat \ {0} /\ HeadSize \in Nat /\ HeadSize > 1
      /\ \A i \in 1..avdata : Arrived[i] = buf[ptr + i]
      /\ Len(buf) \in Nat
  BY <1>1, PacketInLoop, LenProperties
<1>3. InPackets!IsGarbage(Arrived)
  <2>1. 1 \in 1..avdata
    BY <1>1, <1>2
  <2>2. Arrived[1] # Valid
    BY <1>1, <1>2, <2>1
  <2>3. Arrived # <<>>
    <3>1. Len(<<>>) = 0
      BY EmptySeq
    <3>2. Len(Arrived) # 0
      BY <1>1, <1>2
    <3>3. QED
      BY <3>1, <3>2, Zenon
  <2>4. QED
    BY <2>2, <2>3 DEF InPackets!IsGarbage
<1>4. Arrived' = <<>>
  <2>1. SubSeq(buf, 1, 0) = <<>>
    BY SubSeqEmpty
  <2>2. Arrived' = SubSeq(buf, 1, 0)
    BY <1>1 DEF Arrived
  <2>3. QED
    BY <2>1, <2>2
<1>5. RestWaits'
  <2>1. ~InPackets!IsGarbage(<<>>)
    BY DEF InPackets!IsGarbage
  <2>2. ~InPackets!HasPacket(<<>>)
    BY <1>2, EmptySeq DEF InPackets!HasPacket
  <2>3. ~InPackets!IsGarbage(Arrived') /\ ~InPackets!HasPacket(Arrived')
    BY <1>4, <2>1, <2>2
  <2>4. old_len' <= Len(buf')
    BY <1>1, <1>2
  <2>5. QED
    BY <2>3, <2>4 DEF RestWaits, InPackets!IsGarbage, InPackets!HasPacket, InPackets!Size
<1>6. PacketTypeOK' /\ FitsBuffer'
  BY <1>1, <1>2 DEF PacketIInv, PacketTypeOK, FitsBuffer
<1>7. InPackets!Skip
  <2>1. (pc # "closed") /\ (pc # "closed")' = (pc # "closed") /\ packets' = packets
    BY <1>1
  <2>2. QED
    BY <1>3, <1>4, <2>1 DEF InPackets!Skip
<1>8. QED
  BY <1>5, <1>6, <1>7 DEF PacketIInv

(* What cannot be used is kept, or, where it fills the buffer, lost. *)
LEMMA EndParseIInv ==
  ASSUME PacketAssumption, PacketIInv, EndParse
  PROVE  PacketIInv' /\ (InPackets!Overflow \/ UNCHANGED InPackets!vars)
<1>1. /\ pc = "parse" /\ pc' = "read"
      /\ avdata # 0 => buf[ptr + 1] = Valid /\ ~Complete
      /\ old_len' = avdata % BufSize
      /\ buf' = SubSeq(buf, ptr + 1, ptr + avdata)
      /\ UNCHANGED <<ptr, avdata, wire, sent, packets>>
  BY DEF EndParse, RestLength
<1>2. /\ avdata \in Nat /\ Arrived \in Seq(Byte) /\ Len(Arrived) = avdata
      /\ ptr \in Nat /\ ptr + avdata = Len(buf) /\ Len(buf) <= BufSize
      /\ BufSize \in Nat \ {0} /\ HeadSize \in Nat /\ HeadSize > 1
      /\ Arrived = SubSeq(buf, ptr + 1, ptr + avdata)
      /\ \A i \in 1..avdata : Arrived[i] = buf[ptr + i]
  BY <1>1, PacketInLoop
<1>3. buf' = Arrived /\ avdata <= BufSize
  BY <1>1, <1>2
<1>4. ~InPackets!IsGarbage(Arrived) /\ ~InPackets!HasPacket(Arrived)
  <2>1. CASE avdata = 0
    <3>1. Arrived = <<>>
      BY <1>2, <2>1, EmptySeq
    <3>2. ~(Len(Arrived) >= HeadSize)
      BY <1>2, <2>1
    <3>3. QED
      BY <3>1, <3>2 DEF InPackets!IsGarbage, InPackets!HasPacket
  <2>2. CASE avdata # 0
    <3>1. ~InPackets!HasPacket(Arrived)
      BY <1>1, <2>2, CompleteIsPacket
    <3>2. 1 \in 1..avdata
      BY <1>2, <2>2
    <3>3. Arrived[1] = Valid
      BY <1>1, <1>2, <2>2, <3>2
    <3>4. QED
      BY <3>1, <3>3 DEF InPackets!IsGarbage
  <2>3. QED
    BY <2>1, <2>2
<1>5. Arrived' = SubSeq(buf', 1, old_len')
  BY <1>1 DEF Arrived
<1>6. old_len' \in 0..(BufSize - 1) /\ old_len' <= avdata
  BY <1>1, <1>2
<1>7. PacketTypeOK' /\ FitsBuffer' /\ old_len' <= Len(buf')
  BY <1>1, <1>2, <1>3, <1>6 DEF PacketIInv, PacketTypeOK, FitsBuffer
<1>8. CASE avdata < BufSize
  <2>1. old_len' = avdata
    <3>1. old_len' = avdata % BufSize
      BY <1>1
    <3>2. avdata \in Nat /\ BufSize \in Nat \ {0}
      BY <1>2
    <3>3. QED
      BY <1>8, <3>1, <3>2
  <2>2. Arrived' = Arrived
    <3>1. Arrived' = SubSeq(Arrived, 1, Len(Arrived))
      BY <1>2, <1>3, <1>5, <2>1
    <3>2. SubSeq(Arrived, 1, Len(Arrived)) = Arrived
      BY <1>2, SubSeqFull
    <3>3. QED
      BY <3>1, <3>2
  <2>3. RestWaits'
    BY <1>4, <1>7, <2>2 DEF RestWaits, InPackets!IsGarbage, InPackets!HasPacket, InPackets!Size
  <2>4. UNCHANGED InPackets!vars
    BY <1>1, <2>2 DEF InPackets!vars
  <2>5. QED
    BY <1>7, <2>3, <2>4 DEF PacketIInv
<1>9. CASE avdata = BufSize
  <2>1. old_len' = 0
    <3>1. old_len' = BufSize % BufSize
      BY <1>1, <1>9
    <3>2. BufSize \in Nat \ {0}
      BY <1>2
    <3>3. QED
      BY <3>1, <3>2
  <2>2. Arrived' = <<>>
    BY <1>5, <2>1, SubSeqEmpty
  <2>3. ~InPackets!IsGarbage(<<>>)
    BY DEF InPackets!IsGarbage
  <2>4. ~InPackets!HasPacket(<<>>)
    BY <1>2, EmptySeq DEF InPackets!HasPacket
  <2>5. RestWaits'
    BY <1>7, <2>2, <2>3, <2>4
    DEF RestWaits, InPackets!IsGarbage, InPackets!HasPacket, InPackets!Size
  <2>6. InPackets!Overflow
    <3>1. (pc # "closed") /\ (pc # "closed")' = (pc # "closed") /\ packets' = packets
      BY <1>1
    <3>2. QED
      BY <1>2, <1>4, <1>9, <2>2, <3>1 DEF InPackets!Overflow
  <2>7. QED
    BY <1>7, <2>5, <2>6 DEF PacketIInv
<1>10. QED
  BY <1>2, <1>3, <1>8, <1>9

LEMMA CloseIInv ==
  ASSUME PacketAssumption, PacketIInv, PacketClose
  PROVE  PacketIInv' /\ InPackets!Next
<1>1. /\ pc # "closed" /\ pc' = "closed"
      /\ UNCHANGED <<buf, old_len, ptr, avdata, wire, sent, packets>>
  BY DEF PacketClose
<1>2. PacketIInv'
  BY <1>1 DEF PacketIInv, PacketTypeOK, RestWaits, FitsBuffer
<1>3. Arrived' = <<>>
  BY <1>1 DEF Arrived
<1>4. InPackets!End
  BY <1>1, <1>3 DEF InPackets!End
<1>5. QED
  BY <1>2, <1>4 DEF InPackets!Next

(* Every step keeps the invariant and is a step of PacketStream or none. *)
LEMMA StepIInv == PacketAssumption /\ PacketIInv /\ [PacketNext]_packetVars => PacketIInv' /\ [InPackets!Next]_(InPackets!vars)
<1> SUFFICES ASSUME PacketAssumption, PacketIInv, [PacketNext]_packetVars
             PROVE  PacketIInv' /\ [InPackets!Next]_(InPackets!vars)
  OBVIOUS
<1>1. CASE ServerSend
  BY <1>1, ServerSendIInv
<1>2. CASE PacketRead
  BY <1>2, ReadPacketIInv DEF InPackets!Next
<1>3. CASE PacketClose
  BY <1>3, CloseIInv
<1>4. CASE Skip
  BY <1>4, SkipIInv DEF InPackets!Next
<1>5. CASE Process
  BY <1>5, ProcessIInv DEF InPackets!Next
<1>6. CASE EndParse
  BY <1>6, EndParseIInv DEF InPackets!Next
<1>7. CASE UNCHANGED packetVars
  <2>1. Arrived' = Arrived
    BY <1>7 DEF packetVars, Arrived
  <2>2. PacketTypeOK' /\ FitsBuffer'
    BY <1>7 DEF PacketIInv, PacketTypeOK, FitsBuffer, packetVars
  <2>3. RestWaits'
    BY <1>7, <2>1 DEF PacketIInv, RestWaits, packetVars, InPackets!IsGarbage, InPackets!HasPacket, InPackets!Size
  <2>4. QED
    BY <1>7, <2>1, <2>2, <2>3 DEF PacketIInv, packetVars, InPackets!vars
<1>8. QED
  BY <1>1, <1>2, <1>3, <1>4, <1>5, <1>6, <1>7 DEF PacketNext, PacketFinished

-----------------------------------------------------------------------------
(* The packets of a polite server: what has arrived and what is on its way *)
(* are the packets that were sent and not processed, one behind the other. *)
Rest(s, k) == SubSeq(s, k + 1, Len(s))

Whole(p) == p \in Seq(Byte) /\ Len(p) = HeadSize + p[2] /\ Len(p) >= 2

Processed == /\ Len(packets) <= Len(sent)
             /\ \A i \in 1..Len(packets) : packets[i] = sent[i]

InBetween == pc # "closed" => Arrived \o wire = FlattenSeq(Rest(sent, Len(packets)))

Order ==
  /\ \A i \in 1..Len(sent) : Whole(sent[i])
  /\ Polite => Processed /\ InBetween

LEMMA RestProperties ==
  ASSUME NEW S, NEW s \in Seq(Seq(S)), NEW k \in 0..Len(s)
  PROVE  /\ ListOfLists(Rest(s, k), S) /\ Len(Rest(s, k)) = Len(s) - k
         /\ \A i \in 1..(Len(s) - k) : Rest(s, k)[i] = s[k + i]
<1> DEFINE T == Seq(S)
<1>3. s \in Seq(T)
  OBVIOUS
<1> HIDE DEF T
<1>0. PICK l \in Nat : l = Len(s)
  BY <1>3, LenProperties
<1>1. PICK n \in Nat : n = Len(s) - k
  <2>1. l - k \in Nat
    BY <1>0
  <2>2. QED
    BY <1>0, <2>1
<1>2. k \in Nat /\ k + n = Len(s)
  BY <1>0, <1>1
<1>4. /\ SubSeq(s, k + 1, k + n) \in Seq(T)
      /\ Len(SubSeq(s, k + 1, k + n)) = n
      /\ \A i \in 1..n : SubSeq(s, k + 1, k + n)[i] = s[k + i]
  <2>1. k + n <= Len(s)
    BY <1>2
  <2>2. QED
    BY <1>2, <1>3, <2>1, SliceProperties
<1>5. QED
  BY <1>1, <1>2, <1>4 DEF Rest, ListOfLists, T

(* The same bytes cut in two ways. *)
SameBytes(a, w, h, t) == a \o w = h \o t

LEMMA CutFront ==
  ASSUME NEW S, NEW a \in Seq(S), NEW w \in Seq(S), NEW h \in Seq(S), NEW t \in Seq(S),
         SameBytes(a, w, h, t)
  PROVE  /\ \A i \in 1..Len(a) : i <= Len(h) => a[i] = h[i]
         /\ Len(h) <= Len(a) => /\ SubSeq(a, 1, Len(h)) = h
                               /\ SubSeq(a, Len(h) + 1, Len(a)) \o w = t
<1> DEFINE la == Len(a)
           lh == Len(h)
           lw == Len(w)
           lt == Len(t)
           c  == a \o w
<1>1. /\ la \in Nat /\ lh \in Nat /\ lw \in Nat /\ lt \in Nat
  BY LenProperties
<1>2. /\ Len(c) = la + lw
      /\ \A j \in 1..la : c[j] = a[j]
      /\ \A j \in 1..lw : c[la + j] = w[j]
  <2> HIDE DEF la, lw, c
  <2>1. /\ Len(a \o w) = Len(a) + Len(w)
        /\ \A j \in 1..Len(a) : (a \o w)[j] = a[j]
        /\ \A j \in 1..Len(w) : (a \o w)[Len(a) + j] = w[j]
    BY JoinedProperties
  <2>2. QED
    BY <2>1 DEF la, lw, c
<1>3. /\ Len(c) = lh + lt
      /\ \A j \in 1..lh : c[j] = h[j]
      /\ \A j \in 1..lt : c[lh + j] = t[j]
  <2> HIDE DEF lh, lt
  <2>1. /\ Len(h \o t) = Len(h) + Len(t)
        /\ \A j \in 1..Len(h) : (h \o t)[j] = h[j]
        /\ \A j \in 1..Len(t) : (h \o t)[Len(h) + j] = t[j]
    BY JoinedProperties
  <2>2. c = h \o t
    BY DEF SameBytes
  <2> HIDE DEF c
  <2>3. QED
    BY <2>1, <2>2 DEF lh, lt
<1>0. la = Len(a) /\ lh = Len(h) /\ lw = Len(w) /\ lt = Len(t)
  OBVIOUS
<1> HIDE DEF c, la, lh, lw, lt
<1>4. ASSUME NEW i \in 1..la, i <= lh PROVE a[i] = h[i]
  <2>1. i \in 1..lh
    BY <1>4
  <2>2. QED
    BY <1>2, <1>3, <2>1
<1>5. ASSUME lh <= la PROVE SubSeq(a, 1, lh) = h
  <2> DEFINE front == SubSeq(a, 1, lh)
  <2>1. front \in Seq(S) /\ Len(front) = lh /\ \A i \in 1..lh : front[i] = a[i]
    <3>1. lh \in 0..Len(a)
      BY <1>0, <1>1, <1>5
    <3>2. QED
      BY <3>1, PrefixProperties
  <2>2. \A i \in 1..lh : i \in 1..la /\ i <= lh
    BY <1>1, <1>5
  <2> HIDE DEF front
  <2>3. \A i \in 1..lh : front[i] = h[i]
    BY <1>4, <2>1, <2>2
  <2>4. QED
    BY <1>0, <2>1, <2>3, SeqEqual DEF front
<1>6. ASSUME lh <= la PROVE SubSeq(a, lh + 1, la) \o w = t
  <2>1. PICK n \in Nat : lh + n = la
    <3>1. la - lh \in Nat /\ lh + (la - lh) = la
      BY <1>1, <1>6
    <3>2. QED
      BY <3>1
  <2> DEFINE back == SubSeq(a, lh + 1, la)
             d    == back \o w
  <2>2. back \in Seq(S) /\ Len(back) = n /\ \A i \in 1..n : back[i] = a[lh + i]
    <3>1. /\ SubSeq(a, lh + 1, lh + n) \in Seq(S) /\ Len(SubSeq(a, lh + 1, lh + n)) = n
          /\ \A i \in 1..n : SubSeq(a, lh + 1, lh + n)[i] = a[lh + i]
      <4>1. lh + n <= Len(a)
        BY <1>0, <1>1, <2>1
      <4>2. QED
        BY <1>1, <4>1, SliceProperties
    <3>2. QED
      BY <2>1, <3>1
  <2> HIDE DEF back
  <2>3. /\ d \in Seq(S) /\ Len(d) = n + lw
        /\ \A j \in 1..n : d[j] = back[j]
        /\ \A j \in 1..lw : d[n + j] = w[j]
    <3>1. /\ back \o w \in Seq(S) /\ Len(back \o w) = Len(back) + Len(w)
          /\ \A j \in 1..Len(back) : (back \o w)[j] = back[j]
          /\ \A j \in 1..Len(w) : (back \o w)[Len(back) + j] = w[j]
      <4>1. back \in Seq(S)
        BY <2>2
      <4>2. QED
        BY <4>1, JoinedProperties
    <3>2. QED
      BY <1>0, <2>2, <3>1
  <2> HIDE DEF d
  <2>4. n + lw = lt
    BY <1>1, <1>2, <1>3, <2>1
  <2>5. ASSUME NEW i \in 1..lt PROVE d[i] = t[i]
    <3>1. t[i] = c[lh + i]
      BY <1>3
    <3>2. CASE i \in 1..n
      <4>1. lh + i \in 1..la
        BY <1>1, <2>1, <3>2
      <4>2. QED
        BY <1>2, <2>2, <2>3, <3>1, <3>2, <4>1
    <3>3. CASE i \notin 1..n
      <4>1. PICK j \in 1..lw : i = n + j /\ lh + i = la + j
        <5>1. i - n \in 1..lw /\ i = n + (i - n) /\ lh + i = la + (i - n)
          BY <1>1, <2>1, <2>4, <3>3
        <5>2. QED
          BY <5>1
      <4>2. QED
        BY <1>2, <2>3, <3>1, <4>1
    <3>4. QED
      BY <3>2, <3>3
  <2>6. QED
    BY <1>0, <2>3, <2>4, <2>5, SeqEqual DEF d, back
<1>7. QED
  BY <1>0, <1>4, <1>5, <1>6

LEMMA ArrivedIsBytes ==
  ASSUME PacketAssumption, PacketIInv
  PROVE  Arrived \in Seq(Byte) /\ wire \in Seq(Byte)
<1>1. CASE pc = "read"
  <2>1. old_len \in 0..Len(buf) /\ buf \in Seq(Byte)
    BY <1>1, LenProperties DEF PacketIInv, PacketTypeOK, RestWaits
  <2>2. SubSeq(buf, 1, old_len) \in Seq(Byte)
    BY <2>1, PrefixProperties
  <2>3. QED
    BY <1>1, <2>2 DEF Arrived, PacketIInv, PacketTypeOK
<1>2. CASE pc = "parse"
  BY <1>2, PacketInLoop DEF PacketIInv, PacketTypeOK
<1>3. CASE pc = "closed"
  BY <1>3, EmptySeq DEF Arrived, PacketIInv, PacketTypeOK
<1>4. QED
  BY <1>1, <1>2, <1>3 DEF PacketIInv, PacketTypeOK

Coming == sent[Len(packets) + 1]

Later == FlattenSeq(Rest(sent, Len(packets) + 1))

(* The next packet is at the front of what has arrived. *)
LEMMA ComingFirst ==
  ASSUME PacketAssumption, PacketIInv, Order, Polite, pc # "closed", Len(packets) # Len(sent)
  PROVE  /\ Whole(Coming) /\ Coming[1] = Valid /\ Len(Coming) <= BufSize
         /\ Later \in Seq(Byte) /\ SameBytes(Arrived, wire, Coming, Later)
         /\ Len(packets) + 1 \in 1..Len(sent)
<1> DEFINE k == Len(packets)
<1>1. sent \in Seq(Seq(Byte)) /\ packets \in Seq(Seq(Byte))
  BY DEF PacketIInv, PacketTypeOK
<1>2. PICK n \in Nat : n = Len(sent)
  BY <1>1, LenProperties
<1>3. k \in Nat /\ k <= n
  BY <1>1, <1>2, LenProperties DEF Order, Processed
<1> HIDE DEF k
<1>4. k # n
  BY <1>2 DEF k
<1>5. PICK m \in Nat : n = (k + 1) + m
  <2>1. n - (k + 1) \in Nat /\ n = (k + 1) + (n - (k + 1))
    BY <1>3, <1>4
  <2>2. QED
    BY <2>1
<1>6. k + 1 \in 1..n /\ k \in 0..Len(sent) /\ k + 1 \in 0..Len(sent)
      /\ n - k = m + 1 /\ n - (k + 1) = m
  BY <1>2, <1>3, <1>5
<1> DEFINE a == Rest(sent, k)
           b == Rest(sent, k + 1)
<1>7. /\ ListOfLists(a, Byte) /\ Len(a) = m + 1
      /\ \A i \in 1..(m + 1) : a[i] = sent[k + i]
  <2>1. ListOfLists(Rest(sent, k), Byte) /\ Len(Rest(sent, k)) = Len(sent) - k
        /\ \A i \in 1..(Len(sent) - k) : Rest(sent, k)[i] = sent[k + i]
    BY <1>1, <1>6, RestProperties
  <2>2. Len(sent) - k = m + 1
    BY <1>2, <1>6
  <2>3. QED
    BY <2>1, <2>2
<1>8. /\ ListOfLists(b, Byte) /\ Len(b) = m
      /\ \A i \in 1..m : b[i] = sent[(k + 1) + i]
  <2>1. ListOfLists(Rest(sent, k + 1), Byte) /\ Len(Rest(sent, k + 1)) = Len(sent) - (k + 1)
        /\ \A i \in 1..(Len(sent) - (k + 1)) : Rest(sent, k + 1)[i] = sent[(k + 1) + i]
    BY <1>1, <1>6, RestProperties
  <2>2. Len(sent) - (k + 1) = m
    BY <1>2, <1>6
  <2>3. QED
    BY <2>1, <2>2
<1> HIDE DEF a, b
<1>9. FlattenSeq(a) = a[1] \o FlattenSeq(b)
  <2>1. \A i \in 1..m : i + 1 \in 1..(m + 1) /\ (k + 1) + i = k + (i + 1)
    BY <1>3
  <2>2. \A i \in 1..m : b[i] = a[i + 1]
    BY <1>7, <1>8, <2>1
  <2>3. ListOfLists(a, Byte) /\ ListOfLists(b, Byte) /\ Len(a) = m + 1 /\ Len(b) = m
    BY <1>7, <1>8
  <2>4. QED
    BY <2>2, <2>3, FlattenFrom
<1>10. a[1] = Coming
  BY <1>7 DEF Coming, k
<1>11. Later \in Seq(Byte)
  <2>1. b \in Seq(Seq(Byte))
    BY <1>8 DEF ListOfLists
  <2>2. QED
    BY <2>1, FlattenType DEF Later, b, k
<1>12. SameBytes(Arrived, wire, Coming, Later)
  BY <1>9, <1>10 DEF Order, InBetween, SameBytes, Later, a, b, k
<1>13. Whole(Coming) /\ Coming[1] = Valid /\ Len(Coming) <= BufSize
  BY <1>2, <1>6 DEF Order, Polite, Coming, k
<1>14. QED
  BY <1>2, <1>6, <1>11, <1>12, <1>13 DEF k

(* It is there when all its bytes have arrived, and PacketStream sees it   *)
(* then.                                                                   *)
LEMMA ComingSeen ==
  ASSUME PacketAssumption, PacketIInv, Order, Polite, pc # "closed", Len(packets) # Len(sent)
  PROVE  /\ ~InPackets!IsGarbage(Arrived)
         /\ Len(Coming) <= Len(Arrived) => InPackets!HasPacket(Arrived)
         /\ InPackets!HasPacket(Arrived) =>
              /\ SubSeq(Arrived, 1, InPackets!Size(Arrived)) = Coming
              /\ SubSeq(Arrived, InPackets!Size(Arrived) + 1, Len(Arrived)) \o wire = Later
<1>1. /\ Whole(Coming) /\ Coming[1] = Valid
      /\ Later \in Seq(Byte) /\ SameBytes(Arrived, wire, Coming, Later)
  BY ComingFirst
<1>2. Arrived \in Seq(Byte) /\ wire \in Seq(Byte)
  BY ArrivedIsBytes
<1>3. Coming \in Seq(Byte) /\ Len(Coming) = HeadSize + Coming[2] /\ Len(Coming) >= 2
  BY <1>1 DEF Whole
<1> DEFINE a == Arrived
           h == Coming
<1>4. a \in Seq(Byte) /\ h \in Seq(Byte) /\ Len(a) \in Nat /\ Len(h) \in Nat
  BY <1>2, <1>3, LenProperties
<1> HIDE DEF a, h
<1>5. /\ \A i \in 1..Len(a) : i <= Len(h) => a[i] = h[i]
      /\ Len(h) <= Len(a) => /\ SubSeq(a, 1, Len(h)) = h
                            /\ SubSeq(a, Len(h) + 1, Len(a)) \o wire = Later
  BY <1>1, <1>2, <1>4, CutFront DEF a, h
<1>6. ASSUME a # << >> PROVE a[1] = Valid
  <2>1. Len(a) # 0
    BY <1>4, <1>6, EmptySeq
  <2>2. 1 \in 1..Len(a) /\ 1 <= Len(h)
    BY <1>3, <1>4, <2>1 DEF h
  <2>3. QED
    BY <1>1, <1>5, <2>2 DEF h
<1>7. HeadSize \in Nat /\ HeadSize >= 2
  BY DEF PacketAssumption
<1>8. ASSUME Len(a) >= 2 PROVE InPackets!Size(a) = Len(h)
  <2>1. 2 \in 1..Len(a) /\ 2 <= Len(h)
    BY <1>3, <1>4, <1>8 DEF h
  <2>2. a[2] = h[2]
    BY <1>5, <2>1
  <2>3. QED
    BY <1>3, <2>2 DEF InPackets!Size, h
<1>9. ASSUME Len(h) <= Len(a) PROVE InPackets!HasPacket(a)
  <2>1. h[2] \in Nat
    <3>1. 2 \in 1..Len(h)
      BY <1>3, <1>4 DEF h
    <3>2. h[2] \in Byte
      BY <1>4, <3>1, ElementOfSeq
    <3>3. QED
      BY <3>2 DEF Byte, PacketAssumption
  <2>2. Len(a) >= HeadSize /\ Len(a) >= 2
    BY <1>3, <1>4, <1>7, <1>9, <2>1 DEF h
  <2>3. a # << >>
    BY <2>2, EmptySeq
  <2>4. QED
    BY <1>6, <1>8, <1>9, <2>2, <2>3 DEF InPackets!HasPacket
<1>10. ASSUME InPackets!HasPacket(a)
       PROVE  /\ SubSeq(a, 1, InPackets!Size(a)) = h
              /\ SubSeq(a, InPackets!Size(a) + 1, Len(a)) \o wire = Later
  <2>1. Len(a) >= HeadSize /\ InPackets!Size(a) <= Len(a)
    BY <1>10 DEF InPackets!HasPacket
  <2>2. InPackets!Size(a) = Len(h)
    BY <1>4, <1>7, <1>8, <2>1
  <2>3. QED
    BY <1>5, <2>1, <2>2
<1>11. QED
  BY <1>6, <1>9, <1>10 DEF InPackets!IsGarbage, a, h

(* When every packet was processed, nothing has arrived or is on its way.  *)
LEMMA AllProcessed ==
  ASSUME PacketAssumption, PacketIInv, Order, Polite, pc # "closed", Len(packets) = Len(sent)
  PROVE  Arrived = << >> /\ wire = << >>
<1>1. sent \in Seq(Seq(Byte))
  BY DEF PacketIInv, PacketTypeOK
<1>2. PICK n \in Nat : n = Len(sent)
  BY <1>1, LenProperties
<1>3. n \in 0..Len(sent) /\ n - n = 0
  BY <1>2
<1>4. ListOfLists(Rest(sent, n), Byte) /\ Len(Rest(sent, n)) = 0
  BY <1>1, <1>2, <1>3, RestProperties
<1>5. Rest(sent, n) = << >>
  BY <1>4, EmptySeq DEF ListOfLists
<1>6. Arrived \o wire = << >>
  BY <1>2, <1>5, FlattenEmpty DEF Order, InBetween
<1>7. Arrived \in Seq(Byte) /\ wire \in Seq(Byte)
  BY ArrivedIsBytes
<1> DEFINE a == Arrived
<1>8. a \in Seq(Byte)
  BY <1>7
<1> HIDE DEF a
<1>9. Len(a \o wire) = Len(a) + Len(wire) /\ Len(a) \in Nat /\ Len(wire) \in Nat
  BY <1>7, <1>8, ConcatProperties, LenProperties
<1>10. Len(a \o wire) = 0
  BY <1>6, EmptySeq DEF a
<1>11. Len(a) = 0 /\ Len(wire) = 0
  BY <1>9, <1>10
<1>12. QED
  BY <1>7, <1>8, <1>11, EmptySeq DEF a

-----------------------------------------------------------------------------
(* The order of the packets, step by step.                                 *)
LEMMA ServerSendOrder ==
  ASSUME PacketAssumption, PacketIInv, Order, ServerSend
  PROVE  Order'
<1>1. PICK type \in Byte, len \in Byte :
        \E payload \in [1..(HeadSize - 2 + len) -> Byte] :
          /\ wire' = wire \o (<<type, len>> \o payload)
          /\ sent' = Append(sent, <<type, len>> \o payload)
  BY DEF ServerSend
<1>2. PICK payload \in [1..(HeadSize - 2 + len) -> Byte] :
        /\ wire' = wire \o (<<type, len>> \o payload)
        /\ sent' = Append(sent, <<type, len>> \o payload)
  BY <1>1
<1>3. HeadSize - 2 + len \in Nat /\ HeadSize \in Nat /\ len \in Nat /\ HeadSize >= 2
  BY DEF PacketAssumption, Byte
<1>4. payload \in Seq(Byte) /\ Len(payload) = HeadSize - 2 + len
  BY <1>3
<1> DEFINE packet == <<type, len>> \o payload
<1>5. Whole(packet)
  <2> DEFINE head == <<type, len>>
  <2>1. head \in Seq(Byte) /\ Len(head) = 2 /\ head[2] = len
    OBVIOUS
  <2> HIDE DEF head
  <2>2. /\ head \o payload \in Seq(Byte) /\ Len(head \o payload) = Len(head) + Len(payload)
        /\ \A j \in 1..Len(head) : (head \o payload)[j] = head[j]
    <3>1. head \in Seq(Byte) /\ payload \in Seq(Byte)
      BY <1>4, <2>1
    <3>2. QED
      BY <3>1, JoinedProperties
  <2>3. 2 \in 1..Len(head) /\ 2 + (HeadSize - 2 + len) = HeadSize + len
    BY <1>3, <2>1
  <2>4. /\ head \o payload \in Seq(Byte) /\ (head \o payload)[2] = len
        /\ Len(head \o payload) = HeadSize + len
    BY <1>4, <2>1, <2>2, <2>3
  <2>5. QED
    BY <1>3, <2>4 DEF Whole, head
<1> HIDE DEF packet
<1>6. wire' = wire \o packet /\ sent' = Append(sent, packet) /\ packet \in Seq(Byte)
  BY <1>2, <1>5 DEF packet, Whole
<1>7. sent \in Seq(Seq(Byte)) /\ packets \in Seq(Seq(Byte))
  BY DEF PacketIInv, PacketTypeOK
<1>8. PICK n \in Nat : n = Len(sent)
  BY <1>7, LenProperties
<1>9. /\ sent' \in Seq(Seq(Byte)) /\ Len(sent') = n + 1
      /\ \A i \in 1..n : sent'[i] = sent[i]
      /\ sent'[n + 1] = packet
  BY <1>6, <1>7, <1>8, AppendProperties
<1>10. \A i \in 1..(n + 1) : i \in 1..n \/ i = n + 1
  BY <1>8
<1>11. \A i \in 1..Len(sent') : Whole(sent'[i])
  BY <1>5, <1>8, <1>9, <1>10 DEF Order
<1>12. ASSUME Polite' PROVE Processed' /\ InBetween'
  <2>1. \A i \in 1..n : i \in 1..(n + 1)
    BY <1>8
  <2>2. Polite
    BY <1>8, <1>9, <1>12, <2>1 DEF Polite
  <2>3. UNCHANGED <<packets, pc, Arrived>>
    BY DEF ServerSend, Arrived
  <2> DEFINE k == Len(packets)
  <2>4. Processed /\ InBetween /\ k \in Nat
    BY <1>7, <2>2, LenProperties DEF Order
  <2>5. k <= n /\ \A i \in 1..k : packets[i] = sent[i]
    BY <1>8, <2>4 DEF Processed
  <2>6. Processed'
    <3>1. \A i \in 1..k : i \in 1..n
      BY <1>8, <2>4, <2>5
    <3>2. k <= n + 1 /\ \A i \in 1..k : packets[i] = sent'[i]
      BY <1>8, <1>9, <2>4, <2>5, <3>1
    <3>3. QED
      BY <1>9, <2>3, <3>2 DEF Processed
  <2> HIDE DEF k
  <2>7. PICK m \in Nat : n = k + m /\ n + 1 - k = m + 1 /\ n - k = m
    <3>1. n - k \in Nat /\ n = k + (n - k) /\ n + 1 - k = (n - k) + 1
      BY <1>8, <2>4, <2>5
    <3>2. QED
      BY <3>1
  <2> DEFINE a == Rest(sent, k)
             b == Rest(sent', k)
  <2>8. ListOfLists(a, Byte) /\ Len(a) = m /\ \A i \in 1..m : a[i] = sent[k + i]
    <3>1. k \in 0..Len(sent)
      BY <1>8, <2>4, <2>5
    <3>2. /\ ListOfLists(Rest(sent, k), Byte) /\ Len(Rest(sent, k)) = Len(sent) - k
          /\ \A i \in 1..(Len(sent) - k) : Rest(sent, k)[i] = sent[k + i]
      BY <1>7, <3>1, RestProperties
    <3>3. QED
      BY <1>8, <2>7, <3>2
  <2>9. ListOfLists(b, Byte) /\ Len(b) = m + 1 /\ \A i \in 1..(m + 1) : b[i] = sent'[k + i]
    <3> DEFINE s2 == sent'
    <3>1. s2 \in Seq(Seq(Byte)) /\ Len(s2) = n + 1 /\ k \in 0..Len(s2)
      BY <1>8, <1>9, <2>4, <2>5
    <3> HIDE DEF s2
    <3>2. /\ ListOfLists(Rest(s2, k), Byte) /\ Len(Rest(s2, k)) = Len(s2) - k
          /\ \A i \in 1..(Len(s2) - k) : Rest(s2, k)[i] = s2[k + i]
      BY <3>1, RestProperties
    <3>3. QED
      BY <2>7, <3>1, <3>2 DEF s2
  <2> HIDE DEF a, b
  <2>10. \A i \in 1..m : k + i \in 1..n /\ i \in 1..(m + 1)
    BY <2>4, <2>7 DEF k
  <2>11. \A i \in 1..m : b[i] = a[i]
    BY <1>9, <2>8, <2>9, <2>10
  <2>12. b[m + 1] = packet
    <3>1. m + 1 \in 1..(m + 1) /\ k + (m + 1) = n + 1
      BY <2>4, <2>7 DEF k
    <3>2. QED
      BY <1>9, <2>9, <3>1
  <2>13. FlattenSeq(b) = FlattenSeq(a) \o packet
    <3>1. ListOfLists(a, Byte) /\ ListOfLists(b, Byte) /\ Len(a) = m /\ Len(b) = m + 1
      BY <2>8, <2>9
    <3>2. packet \in Seq(Byte)
      BY <1>6
    <3>3. Lengthened(b, a, m, packet)
      BY <2>7, <2>11, <2>12, <3>1 DEF Lengthened
    <3>4. QED
      BY <3>1, <3>2, <3>3, FlattenLengthened
  <2>14. Arrived \o (wire \o packet) = (Arrived \o wire) \o packet
    BY <1>6, ArrivedIsBytes, ConcatAssociative, SMTT(30)
  <2>15. pc # "closed" => Arrived \o wire = FlattenSeq(a)
    BY <2>4 DEF InBetween, a, k
  <2>16. pc # "closed" => Arrived \o wire' = FlattenSeq(b)
    BY <1>6, <2>13, <2>14, <2>15
  <2>17. InBetween'
    BY <2>3, <2>16 DEF InBetween, b, k
  <2>18. QED
    BY <2>6, <2>17
<1>13. QED
  BY <1>11, <1>12 DEF Order

LEMMA ReadOrder ==
  ASSUME PacketAssumption, PacketIInv, Order, PacketRead
  PROVE  Order'
<1>1. PICK n \in 1..BufSize : \E bytes \in [1..n -> Byte] :
        InPackets!Arrive(bytes) /\ bytes \o wire' = wire
  BY ReadPacketIInv
<1>2. PICK bytes \in [1..n -> Byte] : InPackets!Arrive(bytes) /\ bytes \o wire' = wire
  BY <1>1
<1>3. bytes \in Seq(Byte)
  <2>1. n \in Nat
    BY DEF PacketAssumption
  <2>2. QED
    BY <2>1
<1>4. Arrived \in Seq(Byte) /\ wire' \in Seq(Byte) /\ Arrived' = Arrived \o bytes
  BY <1>2, ReadPacketIInv, ArrivedIsBytes DEF InPackets!Arrive, PacketIInv, PacketTypeOK
<1>5. Arrived' \o wire' = Arrived \o (bytes \o wire')
  BY <1>3, <1>4, ConcatAssociative
<1>6. Arrived' \o wire' = Arrived \o wire
  BY <1>2, <1>5
<1>7. UNCHANGED <<sent, packets>> /\ pc # "closed"
  BY DEF PacketRead
<1>8. QED
  BY <1>6, <1>7 DEF Order, Polite, Processed, InBetween

LEMMA ProcessOrder ==
  ASSUME PacketAssumption, PacketIInv, Order, Process
  PROVE  Order'
<1>1. /\ InPackets!HasPacket(Arrived)
      /\ packets' = Append(packets, SubSeq(Arrived, 1, InPackets!Size(Arrived)))
      /\ Arrived' = SubSeq(Arrived, InPackets!Size(Arrived) + 1, Len(Arrived))
  BY ProcessIInv DEF InPackets!Deliver
<1>2. UNCHANGED <<sent, wire, pc>> /\ pc # "closed"
  BY DEF Process
<1>3. ASSUME Polite PROVE Processed' /\ InBetween'
  <2>1. Len(packets) # Len(sent)
    <3>1. ASSUME Len(packets) = Len(sent) PROVE FALSE
      <4>1. Arrived = << >>
        BY <1>2, <1>3, <3>1, AllProcessed
      <4>2. Len(<< >>) >= HeadSize
        BY <1>1, <4>1 DEF InPackets!HasPacket
      <4>3. QED
        BY <4>2, EmptySeq DEF PacketAssumption
    <3>2. QED
      BY <3>1
  <2>2. packets' = Append(packets, Coming) /\ Arrived' \o wire' = Later
    BY <1>1, <1>2, <1>3, <2>1, ComingSeen
  <2>3. packets \in Seq(Seq(Byte)) /\ Coming \in Seq(Byte)
    BY <1>2, <1>3, <2>1, ComingFirst DEF PacketIInv, PacketTypeOK, Whole
  <2>4. /\ Len(packets') = Len(packets) + 1 /\ Len(packets) \in Nat
        /\ \A i \in 1..Len(packets) : packets'[i] = packets[i]
        /\ packets'[Len(packets) + 1] = Coming
    BY <2>2, <2>3, AppendProperties, LenProperties
  <2>5. Len(packets) + 1 \in 1..Len(sent)
    BY <1>2, <1>3, <2>1, ComingFirst
  <2>6. Processed'
    <3>1. \A i \in 1..(Len(packets) + 1) : i \in 1..Len(packets) \/ i = Len(packets) + 1
      BY <2>4
    <3>2. \A i \in 1..Len(packets) : packets[i] = sent[i]
      BY <1>3 DEF Order, Processed
    <3>3. \A i \in 1..Len(packets') : packets'[i] = sent'[i]
      BY <1>2, <2>4, <3>1, <3>2 DEF Coming
    <3>4. Len(packets') <= Len(sent')
      BY <1>2, <2>4, <2>5
    <3>5. QED
      BY <3>3, <3>4 DEF Processed
  <2>7. InBetween'
    BY <1>2, <2>2, <2>4 DEF InBetween, Later
  <2>8. QED
    BY <2>6, <2>7
<1>4. QED
  BY <1>2, <1>3 DEF Order, Polite

(* A polite server's data are never skipped and never fill the buffer.     *)
LEMMA NothingDropped ==
  ASSUME PacketAssumption, PacketIInv, Order, Polite, pc # "closed"
  PROVE  /\ ~InPackets!IsGarbage(Arrived)
         /\ Len(Arrived) = BufSize => InPackets!HasPacket(Arrived)
<1>1. CASE Len(packets) = Len(sent)
  <2>1. Arrived = << >>
    BY <1>1, AllProcessed
  <2>2. Len(Arrived) = 0
    BY <2>1, EmptySeq
  <2>3. QED
    BY <2>1, <2>2 DEF InPackets!IsGarbage, PacketAssumption
<1>2. CASE Len(packets) # Len(sent)
  <2>1. Len(Coming) <= BufSize
    BY <1>2, ComingFirst
  <2>2. QED
    BY <1>2, <2>1, ComingSeen
<1>3. QED
  BY <1>1, <1>2

LEMMA StepOrder == PacketAssumption /\ PacketIInv /\ Order /\ [PacketNext]_packetVars => Order'
<1> SUFFICES ASSUME PacketAssumption, PacketIInv, Order, [PacketNext]_packetVars
             PROVE  Order'
  OBVIOUS
<1>1. ASSUME UNCHANGED <<sent, packets, wire, Arrived>>, pc = "closed" => pc' = "closed"
      PROVE  Order'
  BY <1>1 DEF Order, Polite, Processed, InBetween
<1>2. CASE ServerSend
  BY <1>2, ServerSendOrder
<1>3. CASE PacketRead
  BY <1>3, ReadOrder
<1>4. CASE PacketClose
  BY <1>4 DEF PacketClose, Order, Polite, Processed, InBetween
<1>5. CASE Skip
  <2>1. InPackets!IsGarbage(Arrived)
    BY <1>5, SkipIInv DEF InPackets!Skip
  <2>2. pc # "closed" /\ UNCHANGED <<sent, packets>>
    BY <1>5 DEF Skip
  <2>3. ~Polite
    BY <2>1, <2>2, NothingDropped
  <2>4. QED
    BY <2>2, <2>3 DEF Order, Polite
<1>6. CASE Process
  BY <1>6, ProcessOrder
<1>7. CASE EndParse
  <2>1. pc # "closed" /\ UNCHANGED <<sent, packets, wire>>
    BY <1>7 DEF EndParse
  <2>2. CASE UNCHANGED InPackets!vars
    <3>1. UNCHANGED Arrived
      BY <2>2 DEF InPackets!vars
    <3>2. QED
      BY <1>1, <2>1, <3>1
  <2>3. CASE InPackets!Overflow
    <3>1. ~Polite
      BY <2>1, <2>3, NothingDropped DEF InPackets!Overflow
    <3>2. QED
      BY <2>1, <3>1 DEF Order, Polite
  <2>4. QED
    BY <1>7, <2>2, <2>3, EndParseIInv
<1>8. CASE UNCHANGED packetVars
  <2>1. UNCHANGED <<sent, packets, wire, Arrived, pc>>
    BY <1>8 DEF packetVars, Arrived
  <2>2. QED
    BY <1>1, <2>1
<1>9. QED
  BY <1>2, <1>3, <1>4, <1>5, <1>6, <1>7, <1>8 DEF PacketNext, PacketFinished

LEMMA InitOrder == PacketAssumption /\ PacketInit => Order
<1> SUFFICES ASSUME PacketAssumption, PacketInit
             PROVE  Order
  OBVIOUS
<1>1. sent = << >> /\ packets = << >> /\ wire = << >> /\ Len(<< >>) = 0
  BY EmptySeq DEF PacketInit
<1>2. Arrived = << >>
  BY SubSeqEmpty DEF PacketInit, Arrived
<1>3. Rest(sent, Len(packets)) = << >>
  <2>1. SubSeq(<< >>, 0 + 1, 0) = << >>
    BY SubSeqEmpty
  <2>2. QED
    BY <1>1, <2>1 DEF Rest
<1>4. << >> \o << >> = << >>
  BY EmptySeq, ConcatEmptySeq
<1>5. QED
  BY <1>1, <1>2, <1>3, <1>4, FlattenEmpty DEF Order, Processed, InBetween

LEMMA OrderShows == PacketAssumption /\ PacketIInv /\ Order => PacketsAsSent
<1> SUFFICES ASSUME PacketAssumption, PacketIInv, Order, Polite
             PROVE  /\ packets = SubSeq(sent, 1, Len(packets))
                    /\ pc = "read" /\ wire = << >> => packets = sent
  BY DEF PacketsAsSent
<1> DEFINE T == Seq(Byte)
<1>1. sent \in Seq(T) /\ packets \in Seq(T)
  BY DEF PacketIInv, PacketTypeOK
<1>2. Len(packets) <= Len(sent) /\ \A i \in 1..Len(packets) : packets[i] = sent[i]
  BY DEF Order, Processed
<1> HIDE DEF T
<1>3. Len(packets) \in 0..Len(sent)
  BY <1>1, <1>2, LenProperties
<1>4. packets = SubSeq(sent, 1, Len(packets))
  <2> DEFINE front == SubSeq(sent, 1, Len(packets))
  <2>1. /\ front \in Seq(T) /\ Len(front) = Len(packets)
        /\ \A i \in 1..Len(packets) : front[i] = sent[i]
    BY <1>1, <1>3, PrefixProperties
  <2> HIDE DEF front
  <2>2. \A i \in 1..Len(packets) : packets[i] = front[i]
    BY <1>2, <2>1
  <2>3. QED
    BY <1>1, <2>1, <2>2, SeqEqual DEF front
<1>5. ASSUME pc = "read", wire = << >> PROVE packets = sent
  <2>1. CASE Len(packets) = Len(sent)
    BY <1>1, <1>4, <2>1, SubSeqFull
  <2>2. CASE Len(packets) # Len(sent)
    <3>1. ~InPackets!HasPacket(Arrived)
      BY <1>5 DEF PacketIInv, RestWaits
    <3>2. ~(Len(Coming) <= Len(Arrived))
      BY <1>5, <2>2, <3>1, ComingSeen
    <3>3. /\ SameBytes(Arrived, << >>, Coming, Later) /\ Later \in Seq(Byte)
          /\ Coming \in Seq(Byte)
      BY <1>5, <2>2, ComingFirst DEF Whole
    <3>4. Arrived = Coming \o Later
      BY <3>3, ArrivedIsBytes, ConcatEmptySeq DEF SameBytes
    <3> DEFINE h == Coming
               t == Later
    <3>5. Arrived = h \o t /\ h \in Seq(Byte) /\ t \in Seq(Byte)
      BY <3>3, <3>4
    <3> HIDE DEF h, t
    <3>6. Len(Arrived) = Len(h) + Len(t) /\ Len(h) \in Nat /\ Len(t) \in Nat
      BY <3>5, ConcatProperties, LenProperties
    <3>7. QED
      BY <3>2, <3>6 DEF h
  <2>3. QED
    BY <2>1, <2>2
<1>6. QED
  BY <1>4, <1>5

-----------------------------------------------------------------------------
(* Every variable of c6_read keeps its type: the loop of parse_indata      *)
(* stays inside what was read, whatever lengths the packets claim.         *)
THEOREM PacketTypeCorrect == PacketSpec => []PacketTypeOK
<1>1. PacketInit => PacketIInv
  BY PacketAssumption, InitPacketIInv
<1>2. PacketIInv /\ [PacketNext]_packetVars => PacketIInv'
  BY PacketAssumption, StepIInv
<1>3. PacketIInv => PacketTypeOK
  BY DEF PacketIInv
<1>4. QED
  BY <1>1, <1>2, <1>3, PTL DEF PacketSpec

(* The packets of a server that keeps to the protocol are processed whole, *)
(* in order and as soon as they are there, however read() cuts them.       *)
THEOREM PacketsInOrder == PacketSpec => []PacketsAsSent
<1>1. PacketInit => PacketIInv /\ Order
  BY PacketAssumption, InitPacketIInv, InitOrder
<1>2. PacketIInv /\ Order /\ [PacketNext]_packetVars => PacketIInv' /\ Order'
  BY PacketAssumption, StepIInv, StepOrder
<1>3. PacketIInv /\ Order => PacketsAsSent
  BY PacketAssumption, OrderShows
<1>4. QED
  BY <1>1, <1>2, <1>3, PTL DEF PacketSpec

(* The packets c6_read hands over are those PacketStream takes from the    *)
(* bytes that arrived: each from their front, each before more is read,    *)
(* and of the rest nothing is lost but what has arrived behind garbage     *)
(* (which depends on the reads) and what fills the buffer.                 *)
THEOREM PacketRefinement == PacketSpec => ImplementsPacketStream
<1>1. PacketInit => PacketIInv
  BY PacketAssumption, InitPacketIInv
<1>2. PacketIInv /\ [PacketNext]_packetVars => PacketIInv' /\ [InPackets!Next]_(InPackets!vars)
  BY PacketAssumption, StepIInv
<1>3. PacketInit => InPackets!Init
  <2>1. ASSUME PacketInit PROVE InPackets!Init
    <3>1. SubSeq(<<>>, 1, 0) = <<>>
      BY SubSeqEmpty
    <3>2. Arrived = <<>>
      BY <2>1, <3>1 DEF PacketInit, Arrived
    <3>3. QED
      BY <2>1, <3>2 DEF PacketInit, InPackets!Init
  <2>2. QED
    BY <2>1
<1>4. QED
  BY <1>1, <1>2, <1>3, PTL DEF PacketSpec, ImplementsPacketStream, InPackets!Spec


-----------------------------------------------------------------------------
(* The two foldings: of the characters of a line into what is cut out of   *)
(* it, and into the number of words.                                       *)

Step(fold, x, c) == IF fold = "cut" THEN Cut(x, c) ELSE Count(x, c)

Folding(fold, s, f, it) ==
  it = [S \in SUBSET (DOMAIN s) |->
          IF S = {} THEN f ELSE Step(fold, it[S \ {Max(S)}], s[Max(S)])]

LEMMA MaxOfInterval ==
  ASSUME NEW n \in Nat, NEW S, S \subseteq 1..(n + 1), n + 1 \in S
  PROVE  Max(S) = n + 1
<1>1. \A y \in S : n + 1 >= y
  OBVIOUS
<1>2. \A x \in S : (\A y \in S : x >= y) => x = n + 1
  OBVIOUS
<1>3. QED
  BY <1>1, <1>2 DEF Max

LEMMA FoldingExists ==
  ASSUME NEW fold, NEW s, NEW n \in Nat, DOMAIN s = 1..n, NEW f
  PROVE  \E it : Folding(fold, s, f, it)
<1> DEFINE Body(it, S) == IF S = {} THEN f ELSE Step(fold, it[S \ {Max(S)}], s[Max(S)])
           Upto(k, it) == it = [S \in SUBSET (1..k) |-> Body(it, S)]
           T == {k \in Nat : \E it : Upto(k, it)}
<1>1. 0 \in T
  <2> DEFINE it == [S \in SUBSET (1..0) |-> f]
  <2>1. \A S \in SUBSET (1..0) : S = {}
    OBVIOUS
  <2>2. Upto(0, it)
    BY <2>1
  <2> HIDE DEF Upto, it
  <2>3. QED
    BY <2>2
<1>2. ASSUME NEW k \in Nat, k \in T
      PROVE  k + 1 \in T
  <2>1. PICK it : Upto(k, it)
    BY <1>2
  <2> DEFINE more == [S \in SUBSET (1..(k + 1)) |->
                        IF k + 1 \in S THEN Body(it, S) ELSE it[S]]
  <2>2. \A S \in SUBSET (1..k) : more[S] = it[S] /\ it[S] = Body(it, S)
    <3>1. \A S \in SUBSET (1..k) : S \in SUBSET (1..(k + 1)) /\ k + 1 \notin S
      OBVIOUS
    <3>2. QED
      BY <2>1, <3>1
  <2>3. \A S \in SUBSET (1..(k + 1)) : more[S] = Body(more, S)
    <3>1. SUFFICES ASSUME NEW S \in SUBSET (1..(k + 1))
                   PROVE  more[S] = Body(more, S)
      BY Zenon
    <3>2. S \ {Max(S)} \in SUBSET (1..k) => more[S \ {Max(S)}] = it[S \ {Max(S)}]
      BY <2>2
    <3>3. CASE k + 1 \in S
      <4>1. Max(S) = k + 1
        BY <3>3, MaxOfInterval
      <4>2. S \ {Max(S)} \in SUBSET (1..k)
        <5>1. \A x \in S : x # k + 1 => x \in 1..k
          OBVIOUS
        <5>2. QED
          BY <4>1, <5>1
      <4>3. more[S] = Body(it, S)
        BY <3>3
      <4> HIDE DEF more
      <4>4. QED
        BY <3>2, <4>2, <4>3
    <3>4. CASE k + 1 \notin S
      <4>1. S \in SUBSET (1..k)
        <5>1. \A x \in S : x # k + 1 => x \in 1..k
          OBVIOUS
        <5>2. QED
          BY <3>4, <5>1
      <4>2. S \ {Max(S)} \in SUBSET (1..k)
        BY <4>1
      <4> HIDE DEF more
      <4>3. QED
        BY <2>2, <3>2, <4>1, <4>2
    <3>5. QED
      BY <3>3, <3>4
  <2>4. more = [S \in SUBSET (1..(k + 1)) |-> more[S]]
    OBVIOUS
  <2> HIDE DEF more, Body
  <2>5. Upto(k + 1, more)
    BY <2>3, <2>4
  <2> HIDE DEF Upto
  <2>6. QED
    BY <2>5
<1>3. Nat \subseteq T
  <2> HIDE DEF T
  <2>1. QED
    BY <1>1, <1>2, SetInduction
<1>4. \E it : Upto(n, it)
  BY <1>3
<1>5. QED
  BY <1>4 DEF Folding

(* What is folded after every element. *)
Folded(fold, s, f, g) ==
  g[0] = f /\ \A k \in 1..Len(s) : g[k] = Step(fold, g[k - 1], s[k])

LEMMA FoldingSteps ==
  ASSUME NEW fold, NEW S, NEW s \in Seq(S), NEW f, NEW it, Folding(fold, s, f, it)
  PROVE  \E g : Folded(fold, s, f, g) /\ it[DOMAIN s] = g[Len(s)]
<1>1. PICK n \in Nat : n = Len(s) /\ DOMAIN s = 1..n
  BY LenProperties
<1> DEFINE g == [k \in 0..n |-> it[1..k]]
<1>2. \A k \in 0..n : g[k] = it[1..k]
  OBVIOUS
<1>3. it[{}] = f
  <2>1. {} \in SUBSET (DOMAIN s)
    OBVIOUS
  <2>2. QED
    BY <2>1 DEF Folding
<1>4. g[0] = f
  <2>1. 0 \in 0..n /\ 1..0 = {}
    OBVIOUS
  <2>2. QED
    BY <1>2, <1>3, <2>1
<1>5. ASSUME NEW k \in 1..n
      PROVE  g[k] = Step(fold, g[k - 1], s[k])
  <2> DEFINE S2 == 1..k
  <2>1. k - 1 \in Nat /\ k - 1 \in 0..n /\ k \in 0..n /\ (k - 1) + 1 = k
    OBVIOUS
  <2>2. S2 \in SUBSET (DOMAIN s) /\ S2 # {}
    <3>1. S2 \in SUBSET (1..n) /\ k \in S2
      OBVIOUS
    <3>2. QED
      BY <1>1, <3>1, Zenon
  <2>3. Max(1..((k - 1) + 1)) = (k - 1) + 1
    <3>1. (k - 1) + 1 \in 1..((k - 1) + 1)
      BY <2>1
    <3>2. QED
      BY <2>1, <3>1, MaxOfInterval
  <2>4. Max(S2) = k
    BY <2>1, <2>3
  <2>5. S2 \ {k} = 1..(k - 1)
    OBVIOUS
  <2>6. g[k] = it[S2] /\ g[k - 1] = it[1..(k - 1)]
    BY <1>2, <2>1
  <2> HIDE DEF S2, g
  <2>7. it[S2] = Step(fold, it[S2 \ {Max(S2)}], s[Max(S2)])
    BY <2>2 DEF Folding
  <2>8. QED
    BY <2>4, <2>5, <2>6, <2>7
<1>6. g[n] = it[DOMAIN s]
  BY <1>1, <1>2
<1> HIDE DEF g
<1>7. Folded(fold, s, f, g)
  BY <1>1, <1>4, <1>5 DEF Folded
<1>8. QED
  BY <1>1, <1>6, <1>7

Nothing == [done |-> << >>, last |-> << >>]
Nobody == [argc |-> 0, in |-> FALSE]

LEMMA FoldOfCut ==
  ASSUME NEW S, NEW str \in Seq(S)
  PROVE  \E g : /\ Folded("cut", str, Nothing, g)
                /\ Pieces(str) = Append(g[Len(str)].done, g[Len(str)].last)
<1> DEFINE Iter(it) == it = [D \in SUBSET (DOMAIN str) |->
                              IF D = {} THEN Nothing
                              ELSE Cut(it[D \ {Max(D)}], str[Max(D)])]
           it0 == CHOOSE it : Iter(it)
           all == it0[DOMAIN str]
<1>1. Pieces(str) = Append(all.done, all.last)
  BY DEF Pieces, FoldLeft, MapThenFoldSet, Nothing
<1>2. PICK n \in Nat : DOMAIN str = 1..n
  BY LenProperties
<1>3. \A it : Folding("cut", str, Nothing, it) <=> Iter(it)
  BY DEF Folding, Step
<1>4. PICK it : Folding("cut", str, Nothing, it)
  BY <1>2, FoldingExists
<1>5. Iter(it0)
  <2>1. Iter(it)
    BY <1>3, <1>4
  <2> HIDE DEF Iter
  <2>2. QED
    BY <2>1
<1>6. Folding("cut", str, Nothing, it0)
  <2> HIDE DEF Iter, it0
  <2>1. QED
    BY <1>3, <1>5
<1> HIDE DEF it0, Iter
<1>7. PICK g : Folded("cut", str, Nothing, g) /\ it0[DOMAIN str] = g[Len(str)]
  BY <1>6, FoldingSteps
<1>8. QED
  BY <1>1, <1>7

LEMMA FoldOfCount ==
  ASSUME NEW S, NEW str \in Seq(S)
  PROVE  \E g : Folded("count", str, Nobody, g) /\ Argc(str) = g[Len(str)].argc
<1> DEFINE Iter(it) == it = [D \in SUBSET (DOMAIN str) |->
                              IF D = {} THEN Nobody
                              ELSE Count(it[D \ {Max(D)}], str[Max(D)])]
           it0 == CHOOSE it : Iter(it)
           all == it0[DOMAIN str]
<1>1. Argc(str) = all.argc
  BY DEF Argc, FoldLeft, MapThenFoldSet, Nobody
<1>2. PICK n \in Nat : DOMAIN str = 1..n
  BY LenProperties
<1>3. \A it : Folding("count", str, Nobody, it) <=> Iter(it)
  BY DEF Folding, Step
<1>4. PICK it : Folding("count", str, Nobody, it)
  BY <1>2, FoldingExists
<1>5. Iter(it0)
  <2>1. Iter(it)
    BY <1>3, <1>4
  <2> HIDE DEF Iter
  <2>2. QED
    BY <2>1
<1>6. Folding("count", str, Nobody, it0)
  <2> HIDE DEF Iter, it0
  <2>1. QED
    BY <1>3, <1>5
<1> HIDE DEF it0, Iter
<1>7. PICK g : Folded("count", str, Nobody, g) /\ it0[DOMAIN str] = g[Len(str)]
  BY <1>6, FoldingSteps
<1>8. QED
  BY <1>1, <1>7

-----------------------------------------------------------------------------
(* Where the words are *)

(* The words that a reader has found before the character at k: word i is  *)
(* from b[i] to e[i], and they are all that start there.                   *)
Found(str, k, m, b, e) ==
  /\ b \in [1..m -> Nat] /\ e \in [1..m -> Nat]
  /\ \A i \in 1..m : b[i] \in Starts(str) /\ b[i] <= e[i] /\ e[i] < k
  /\ \A i \in 1..m : (\A j \in b[i]..e[i] : InWord(str, j)) /\ ~InWord(str, e[i] + 1)
  /\ \A i \in 1..m : \A j \in 1..(i - 1) : b[j] < b[i]
  /\ \A x \in Starts(str) : x <= k => \E i \in 1..m : b[i] = x

(* The last blank before or at k is a, the beginning is one. *)
LastBlank(str, a, k) == ~InWord(str, a) /\ \A i \in (a + 1)..k : InWord(str, i)

WordsOf(str, m, b, e) == [i \in 1..m |-> SubSeq(str, b[i], e[i])]

More(f, m, v) == [i \in 1..(m + 1) |-> IF i = m + 1 THEN v ELSE f[i]]

(* Nothing starts, or goes on, at k + 1: behind a blank it is as before.   *)
LEMMA FoundNoMore ==
  ASSUME NEW S, NEW str \in Seq(S), NEW k \in 0..Len(str), NEW m \in Nat, NEW b, NEW e,
         Found(str, k, m, b, e), ~InWord(str, k + 1)
  PROVE  Found(str, k + 1, m, b, e)
<1>1. \A x \in Starts(str) : x <= k + 1 => x <= k
  <2>1. \A x \in Starts(str) : x \in 1..Len(str) /\ x # k + 1
    BY LenProperties DEF Starts
  <2>2. QED
    BY <2>1, LenProperties
<1>2. \A i \in 1..m : e[i] < k => e[i] < k + 1
  BY LenProperties DEF Found
<1>3. QED
  BY <1>1, <1>2 DEF Found

(* Otherwise the word behind the last blank ends.                          *)
LEMMA FoundOneMore ==
  ASSUME NEW S, NEW str \in Seq(S), NEW k \in 0..Len(str), NEW a \in 0..k, a < k,
         NEW m \in Nat, NEW b, NEW e, Found(str, a, m, b, e), LastBlank(str, a, k),
         ~InWord(str, k + 1)
  PROVE  /\ Found(str, k + 1, m + 1, More(b, m, a + 1), More(e, m, k))
         /\ WordsOf(str, m + 1, More(b, m, a + 1), More(e, m, k))
              = Append(WordsOf(str, m, b, e), SubSeq(str, a + 1, k))
<1> DEFINE n == Len(str)
           b2 == More(b, m, a + 1)
           e2 == More(e, m, k)
<1>1. n \in Nat /\ DOMAIN str = 1..n
  BY LenProperties
<1>2. a \in Nat /\ k \in Nat /\ a + 1 \in 1..n /\ a + 1 \in (a + 1)..k
  BY <1>1
<1>3. a + 1 \in Starts(str)
  <2>1. InWord(str, a + 1) /\ (a + 1) - 1 = a
    BY <1>2 DEF LastBlank
  <2>2. QED
    BY <1>1, <1>2, <2>1 DEF LastBlank, Starts
<1>4. /\ b2 \in [1..(m + 1) -> Nat] /\ e2 \in [1..(m + 1) -> Nat]
      /\ b2[m + 1] = a + 1 /\ e2[m + 1] = k
      /\ \A i \in 1..m : b2[i] = b[i] /\ e2[i] = e[i]
  BY <1>2 DEF More, Found
<1>5. \A i \in 1..(m + 1) : i = m + 1 \/ i \in 1..m
  OBVIOUS
<1> HIDE DEF b2, e2
<1>6. \A i \in 1..(m + 1) : b2[i] \in Starts(str) /\ b2[i] <= e2[i] /\ e2[i] < k + 1
  <2>1. \A i \in 1..m : b[i] \in Starts(str) /\ b[i] <= e[i] /\ e[i] < a /\ e[i] \in Nat
    BY DEF Found
  <2>2. SUFFICES ASSUME NEW i \in 1..(m + 1)
                 PROVE  b2[i] \in Starts(str) /\ b2[i] <= e2[i] /\ e2[i] < k + 1
    OBVIOUS
  <2>3. CASE i = m + 1
    <3>1. b2[i] = a + 1 /\ e2[i] = k /\ a + 1 <= k /\ k < k + 1
      BY <1>2, <1>4, <2>3
    <3>2. QED
      BY <1>3, <3>1
  <2>4. CASE i \in 1..m
    <3>1. b2[i] = b[i] /\ e2[i] = e[i] /\ e[i] < k + 1
      BY <1>2, <1>4, <2>1, <2>4
    <3>2. QED
      BY <2>1, <2>4, <3>1
  <2>5. QED
    BY <1>5, <2>3, <2>4
<1>7. \A i \in 1..(m + 1) :
        (\A j \in b2[i]..e2[i] : InWord(str, j)) /\ ~InWord(str, e2[i] + 1)
  <2>1. \A i \in 1..m :
          (\A j \in b[i]..e[i] : InWord(str, j)) /\ ~InWord(str, e[i] + 1)
    BY DEF Found
  <2>2. \A j \in (a + 1)..k : InWord(str, j)
    BY DEF LastBlank
  <2>3. SUFFICES ASSUME NEW i \in 1..(m + 1)
                 PROVE  (\A j \in b2[i]..e2[i] : InWord(str, j)) /\ ~InWord(str, e2[i] + 1)
    OBVIOUS
  <2>4. CASE i = m + 1
    <3>1. b2[i] = a + 1 /\ e2[i] = k
      BY <1>4, <2>4
    <3>2. QED
      BY <2>2, <3>1
  <2>5. CASE i \in 1..m
    <3>1. b2[i] = b[i] /\ e2[i] = e[i]
      BY <1>4, <2>5
    <3>2. QED
      BY <2>1, <2>5, <3>1
  <2>6. QED
    BY <1>5, <2>4, <2>5
<1>8. \A i \in 1..(m + 1) : \A j \in 1..(i - 1) : b2[j] < b2[i]
  <2>1. \A i \in 1..m : \A j \in 1..(i - 1) : b[j] < b[i] /\ j \in 1..m
    BY DEF Found
  <2>2. \A j \in 1..m : b[j] < a + 1
    BY <1>2 DEF Found
  <2>3. \A j \in 1..((m + 1) - 1) : j \in 1..m
    OBVIOUS
  <2>4. QED
    BY <1>4, <1>5, <2>1, <2>2, <2>3
<1>9. \A x \in Starts(str) : x <= k + 1 => \E i \in 1..(m + 1) : b2[i] = x
  <2>1. SUFFICES ASSUME NEW x \in Starts(str), x <= k + 1
                 PROVE  \E i \in 1..(m + 1) : b2[i] = x
    OBVIOUS
  <2>2. x \in Nat /\ InWord(str, x) /\ ~InWord(str, x - 1)
    BY <1>1 DEF Starts
  <2>3. x # k + 1
    BY <2>2
  <2>4. CASE x <= a
    <3>1. PICK i \in 1..m : b[i] = x
      BY <2>4 DEF Found
    <3>2. QED
      BY <1>4, <3>1
  <2>5. CASE a < x
    <3>1. x - 1 \notin (a + 1)..k
      BY <2>2 DEF LastBlank
    <3>2. x = a + 1
      BY <1>2, <2>1, <2>2, <2>3, <2>5, <3>1
    <3>3. m + 1 \in 1..(m + 1)
      OBVIOUS
    <3>4. QED
      BY <1>4, <3>2, <3>3
  <2>6. QED
    BY <1>2, <2>2, <2>4, <2>5
<1>10. Found(str, k + 1, m + 1, b2, e2)
  BY <1>4, <1>6, <1>7, <1>8, <1>9 DEF Found
<1>11. WordsOf(str, m + 1, b2, e2) = Append(WordsOf(str, m, b, e), SubSeq(str, a + 1, k))
  <2> DEFINE ws == WordsOf(str, m, b, e)
             w2 == WordsOf(str, m + 1, b2, e2)
             V  == {SubSeq(str, b2[i], e2[i]) : i \in 1..(m + 1)}
  <2>1. m + 1 \in 1..(m + 1) /\ m + 1 \in Nat /\ \A i \in 1..m : i \in 1..(m + 1)
    OBVIOUS
  <2>2. \A i \in 1..(m + 1) : SubSeq(str, b2[i], e2[i]) \in V
    OBVIOUS
  <2>3. /\ \A i \in 1..m : ws[i] = SubSeq(str, b2[i], e2[i])
        /\ ws = [i \in 1..m |-> ws[i]]
    BY <1>4 DEF WordsOf
  <2>4. /\ \A i \in 1..(m + 1) : w2[i] = SubSeq(str, b2[i], e2[i])
        /\ w2 = [i \in 1..(m + 1) |-> w2[i]]
    BY DEF WordsOf
  <2> HIDE DEF ws, w2, V
  <2>5. w2[m + 1] = SubSeq(str, a + 1, k) /\ \A i \in 1..m : w2[i] = ws[i]
    BY <1>4, <2>1, <2>3, <2>4
  <2>6. ws \in Seq(V) /\ w2 \in Seq(V) /\ Len(ws) = m /\ Len(w2) = m + 1 /\ w2[m + 1] \in V
    <3>1. ws \in [1..m -> V]
      <4>1. \A i \in 1..m : ws[i] \in V
        BY <2>1, <2>2, <2>3
      <4>2. QED
        BY <2>3, <4>1
    <3>2. w2 \in [1..(m + 1) -> V]
      <4>1. \A i \in 1..(m + 1) : w2[i] \in V
        BY <2>2, <2>4
      <4>2. QED
        BY <2>4, <4>1
    <3>3. QED
      BY <2>1, <3>1, <3>2, LenProperties
  <2>7. w2 = Append(ws, w2[m + 1])
    <3> DEFINE x == w2[m + 1]
    <3>1. /\ x \in V /\ w2[m + 1] = x /\ Len(ws) = m /\ Len(w2) = m + 1
          /\ \A i \in 1..m : w2[i] = ws[i]
      BY <2>5, <2>6
    <3> HIDE DEF x
    <3>2. w2 = Append(ws, x)
      BY <2>6, <3>1, IsAppend
    <3>3. QED
      BY <3>2 DEF x
  <2>8. QED
    BY <2>5, <2>7 DEF ws, w2
<1>12. QED
  BY <1>10, <1>11 DEF b2, e2

(* What has been found before the end is what a reader finds.              *)
LEMMA FoundAll ==
  ASSUME NEW S, NEW str \in Seq(S), NEW m \in Nat, NEW b, NEW e,
         Found(str, Len(str) + 1, m, b, e)
  PROVE  Words(str) = WordsOf(str, m, b, e)
<1> DEFINE n == Len(str)
           X == Starts(str)
<1>1. n \in Nat /\ DOMAIN str = 1..n
  BY LenProperties
<1>2. X \subseteq 1..n
  BY <1>1 DEF Starts
<1>3. /\ b \in [1..m -> Nat] /\ e \in [1..m -> Nat]
      /\ \A i \in 1..m : b[i] \in X /\ b[i] <= e[i] /\ e[i] <= n
      /\ \A i \in 1..m : \A j \in 1..(i - 1) : b[j] < b[i]
      /\ \A x \in X : \E i \in 1..m : b[i] = x
  <2>1. \A x \in X : x <= n + 1
    BY <1>1, <1>2
  <2>2. \A i \in 1..m : e[i] < n + 1 => e[i] <= n
    BY <1>1 DEF Found
  <2>3. QED
    BY <2>1, <2>2 DEF Found
<1>4. \A i \in 1..m : (\A j \in b[i]..e[i] : InWord(str, j)) /\ ~InWord(str, e[i] + 1)
  BY DEF Found
<1> HIDE DEF X
<1>5. \A i \in 1..m : \A j \in 1..m : b[j] < b[i] <=> j < i
  <2>1. \A i \in 1..m : \A j \in 1..m : j < i => j \in 1..(i - 1)
    OBVIOUS
  <2>2. \A i \in 1..m : \A j \in 1..m : j < i => b[j] < b[i]
    BY <1>3, <2>1
  <2>3. \A i \in 1..m : b[i] \in Nat
    BY <1>3
  <2>4. SUFFICES ASSUME NEW i \in 1..m, NEW j \in 1..m, b[j] < b[i]
                 PROVE  j < i
    BY <2>2
  <2>5. i \in Nat /\ j \in Nat /\ b[i] \in Nat /\ b[j] \in Nat
    BY <2>3
  <2>6. ~(i < j) /\ i # j
    BY <2>2, <2>4, <2>5
  <2>7. QED
    BY <2>5, <2>6
<1>6. \A i \in 0..m : Cardinality({b[j] : j \in 1..i}) = i
  <2>1. SUFFICES ASSUME NEW i \in 0..m
                 PROVE  Cardinality({b[j] : j \in 1..i}) = i
    OBVIOUS
  <2> DEFINE D == {b[j] : j \in 1..i}
             f == [j \in 1..i |-> b[j]]
  <2>2. \A j \in 1..i : j \in 1..m
    OBVIOUS
  <2>3. f \in [1..i -> D] /\ \A d \in D : \E j \in 1..i : f[j] = d
    OBVIOUS
  <2>4. \A j \in 1..i : \A l \in 1..i : f[j] = f[l] => j = l
    <3>1. SUFFICES ASSUME NEW j \in 1..i, NEW l \in 1..i, b[j] = b[l]
                   PROVE  j = l
      OBVIOUS
    <3>2. j \in 1..m /\ l \in 1..m /\ b[j] \in Nat
      BY <1>3, <2>2
    <3>3. ~(j < l) /\ ~(l < j)
      BY <1>5, <3>1, <3>2
    <3>4. QED
      BY <3>2, <3>3
  <2> HIDE DEF D, f
  <2>5. f \in Bijection(1..i, D)
    BY <2>3, <2>4 DEF Bijection, Injection, Surjection, IsInjective
  <2>6. ExistsBijection(1..i, D)
    BY <2>5 DEF ExistsBijection
  <2>7. IsFiniteSet(1..i) /\ Cardinality(1..i) = i
    <3>1. 1 \in Int /\ i \in Int /\ (1 > i => i = 0) /\ i - 1 + 1 = i
      OBVIOUS
    <3>2. QED
      BY <3>1, FS_Interval
  <2>8. Cardinality(D) = Cardinality(1..i)
    BY <2>6, <2>7, FS_Bijection
  <2>9. QED
    BY <2>7, <2>8 DEF D
<1>7. Cardinality(X) = m
  <2>1. X = {b[j] : j \in 1..m}
    BY <1>3
  <2>2. QED
    BY <1>6, <2>1
<1>8. \A i \in 1..m : Cardinality({y \in X : y < b[i]}) = i - 1
  <2>1. SUFFICES ASSUME NEW i \in 1..m
                 PROVE  Cardinality({y \in X : y < b[i]}) = i - 1
    OBVIOUS
  <2>2. i - 1 \in 0..m /\ \A j \in 1..m : j < i <=> j \in 1..(i - 1)
    OBVIOUS
  <2>3. {y \in X : y < b[i]} = {b[j] : j \in 1..(i - 1)}
    <3>1. \A j \in 1..(i - 1) : j \in 1..m
      OBVIOUS
    <3>2. \A j \in 1..(i - 1) : b[j] \in X /\ b[j] < b[i]
      BY <1>3, <3>1
    <3>3. ASSUME NEW y \in X, y < b[i]
          PROVE  \E j \in 1..(i - 1) : b[j] = y
      <4>1. PICK j \in 1..m : b[j] = y
        BY <1>3
      <4>2. j < i
        BY <1>5, <3>3, <4>1
      <4>3. QED
        BY <2>2, <4>1, <4>2
    <3>4. QED
      BY <3>2, <3>3
  <2>4. QED
    BY <1>6, <2>2, <2>3
<1>9. \A i \in 1..m : Start(str, i) = b[i]
  <2>1. SUFFICES ASSUME NEW i \in 1..m
                 PROVE  Start(str, i) = b[i]
    OBVIOUS
  <2>2. b[i] \in X /\ Cardinality({y \in X : y < b[i]}) = i - 1
    BY <1>3, <1>8
  <2>3. ASSUME NEW x \in X, Cardinality({y \in X : y < x}) = i - 1
        PROVE  x = b[i]
    <3>1. PICK j \in 1..m : b[j] = x
      BY <1>3
    <3>2. j - 1 = i - 1
      BY <1>8, <2>3, <3>1
    <3>3. j = i
      BY <3>2
    <3>4. QED
      BY <3>1, <3>3
  <2>4. QED
    BY <2>2, <2>3 DEF Start, X
<1>10. \A i \in 1..m : End(str, b[i]) = e[i]
  <2>1. SUFFICES ASSUME NEW i \in 1..m
                 PROVE  End(str, b[i]) = e[i]
    OBVIOUS
  <2> DEFINE WordEnds(j) == (\A k \in b[i]..j : InWord(str, k)) /\ ~InWord(str, j + 1)
  <2>2. b[i] \in Nat /\ e[i] \in Nat /\ e[i] \in b[i]..n
    BY <1>1, <1>3
  <2>3. WordEnds(e[i])
    BY <1>4
  <2>4. ASSUME NEW j \in b[i]..n, WordEnds(j)
        PROVE  j = e[i]
    <3>1. j \in Int
      BY <2>2
    <3>2. ~(e[i] < j)
      <4>1. e[i] < j => e[i] + 1 \in b[i]..j
        BY <2>2, <3>1
      <4>2. QED
        BY <2>3, <2>4, <4>1
    <3>3. ~(j < e[i])
      <4>1. j < e[i] => j + 1 \in b[i]..e[i]
        BY <2>2, <2>4, <3>1
      <4>2. QED
        BY <2>3, <2>4, <4>1
    <3>4. QED
      BY <2>2, <3>1, <3>2, <3>3
  <2>5. End(str, b[i]) = CHOOSE j \in b[i]..n : WordEnds(j)
    BY DEF End
  <2> HIDE DEF WordEnds
  <2>6. QED
    BY <2>2, <2>3, <2>4, <2>5
<1>11. QED
  BY <1>7, <1>9, <1>10 DEF Words, WordsOf, X

-----------------------------------------------------------------------------
(* Cutting and counting *)

LEMMA ListIsSeq ==
  ASSUME NEW V, NEW n \in Nat, NEW f \in [1..n -> V]
  PROVE  f \in Seq(V) /\ Len(f) = n /\ DOMAIN f = 1..n
  BY LenProperties

LEMMA KeptProperties ==
  ASSUME NEW S, NEW p \in Seq(S)
  PROVE  /\ Kept(p) \in Seq(Seq(S))
         /\ p = << >> => Kept(p) = << >>
         /\ p # << >> => Kept(p) = <<p>>
<1>1. << >> \in Seq(Seq(S)) /\ <<p>> \in Seq(Seq(S))
  OBVIOUS
<1>2. QED
  BY <1>1 DEF Kept

LEMMA NonEmptyAppend ==
  ASSUME NEW S, NEW pieces \in Seq(Seq(S)), NEW p \in Seq(S)
  PROVE  NonEmpty(Append(pieces, p)) = NonEmpty(pieces) \o Kept(p)
<1> DEFINE more == Append(pieces, p)
           old  == [i \in DOMAIN pieces |-> Kept(pieces[i])]
           new  == [i \in DOMAIN more |-> Kept(more[i])]
<1>1. PICK n \in Nat : n = Len(pieces) /\ DOMAIN pieces = 1..n
  BY LenProperties
<1>2. /\ more \in Seq(Seq(S)) /\ DOMAIN more = 1..(n + 1) /\ more[n + 1] = p
      /\ \A i \in 1..n : more[i] = pieces[i]
  <2>1. more \in Seq(Seq(S)) /\ Len(more) = n + 1 /\ more[n + 1] = p
        /\ \A i \in 1..n : more[i] = pieces[i]
    <3> DEFINE V == Seq(S)
    <3>1. pieces \in Seq(V) /\ p \in V
      OBVIOUS
    <3> HIDE DEF V
    <3>2. QED
      <4>1. more \in Seq(V) /\ Len(more) = Len(pieces) + 1 /\ more[Len(pieces) + 1] = p
            /\ \A i \in 1..Len(pieces) : more[i] = pieces[i]
        BY <3>1, AppendProperties
      <4>2. QED
        BY <1>1, <4>1 DEF V
  <2> HIDE DEF more
  <2>2. DOMAIN more = 1..(n + 1)
    BY <2>1, LenProperties
  <2>3. QED
    BY <2>1, <2>2
<1>3. \A i \in 1..n : pieces[i] \in Seq(S) /\ i \in 1..(n + 1)
  BY <1>1, ElementOfSeq
<1> HIDE DEF more
<1>4. \A i \in 1..n : Kept(pieces[i]) \in Seq(Seq(S))
  BY <1>3, KeptProperties
<1>5. Kept(p) \in Seq(Seq(S))
  BY KeptProperties
<1>6. old \in [1..n -> Seq(Seq(S))]
  <2>1. \A i \in 1..n : old[i] = Kept(pieces[i]) /\ old = [j \in 1..n |-> old[j]]
    BY <1>1
  <2>2. CASE n = 0
    BY <1>1, <2>2
  <2>3. CASE n # 0
    <3> DEFINE V == Seq(Seq(S))
    <3>1. \A i \in 1..n : old[i] \in V
      BY <1>4, <2>1
    <3>2. 1 \in 1..n
      BY <1>1, <2>3
    <3> HIDE DEF old, V
    <3>3. old \in [1..n -> V]
      BY <2>1, <3>1, <3>2
    <3>4. QED
      BY <3>3 DEF V
  <2>4. QED
    BY <2>2, <2>3
<1>7. /\ new = [i \in 1..(n + 1) |-> new[i]] /\ new[n + 1] = Kept(p)
      /\ \A i \in 1..n : new[i] = old[i]
  <2>1. n + 1 \in 1..(n + 1)
    BY <1>1
  <2>2. QED
    BY <1>1, <1>2, <1>3, <2>1
<1> HIDE DEF old, new
<1>8. new \in [1..(n + 1) -> Seq(Seq(S))]
  <2>1. \A i \in 1..(n + 1) : i = n + 1 \/ i \in 1..n
    BY <1>1
  <2>2. \A i \in 1..(n + 1) : new[i] \in Seq(Seq(S))
    BY <1>5, <1>6, <1>7, <2>1
  <2>3. QED
    BY <1>7, <2>2
<1>9. old \in Seq(Seq(Seq(S))) /\ new \in Seq(Seq(Seq(S))) /\ Len(old) = n /\ Len(new) = n + 1
  <2> DEFINE V == Seq(Seq(S))
  <2>1. old \in [1..n -> V] /\ new \in [1..(n + 1) -> V] /\ n \in Nat /\ n + 1 \in Nat
    BY <1>1, <1>6, <1>8
  <2> HIDE DEF V
  <2>2. old \in Seq(V) /\ Len(old) = n
    BY <2>1, ListIsSeq
  <2>3. new \in Seq(V) /\ Len(new) = n + 1
    BY <2>1, ListIsSeq
  <2>4. QED
    BY <2>2, <2>3 DEF V
<1>10. FlattenSeq(new) = FlattenSeq(old) \o Kept(p)
  <2>1. ListOfLists(old, Seq(S)) /\ ListOfLists(new, Seq(S))
    BY <1>9 DEF ListOfLists
  <2> DEFINE V == Seq(S)
             w == Kept(p)
  <2>2. w \in Seq(V) /\ ListOfLists(old, V) /\ ListOfLists(new, V)
    BY <1>5, <2>1
  <2>3. new[n + 1] = w /\ Len(old) = n /\ Len(new) = n + 1 /\ n \in Nat
        /\ \A i \in 1..n : new[i] = old[i]
    BY <1>1, <1>7, <1>9
  <2> HIDE DEF V, w
  <2>4. FlattenSeq(new) = FlattenSeq(old) \o w
    <3>1. Lengthened(new, old, n, w)
      BY <2>3 DEF Lengthened
    <3>2. QED
      BY <2>2, <3>1, FlattenLengthened
  <2>5. QED
    BY <2>4 DEF w
<1>11. QED
  BY <1>10 DEF NonEmpty, old, new, more

(* After the first k characters: the last blank is a, m words were found.  *)
Cutting(str, k, cut, cnt, a, m, b, e) ==
  /\ a \in 0..k /\ m \in Nat /\ Found(str, a, m, b, e) /\ LastBlank(str, a, k)
  /\ NonEmpty(cut.done) = WordsOf(str, m, b, e)
  /\ cut.last = SubSeq(str, a + 1, k)
  /\ cnt.in = IF a < k THEN TRUE ELSE FALSE
  /\ cnt.argc = IF a < k THEN m + 1 ELSE m

CutTypes(S, cut, cnt) ==
  /\ cut \in [done : Seq(Seq(S)), last : Seq(S)]
  /\ cnt \in [argc : Nat, in : BOOLEAN]

(* A blank, or the end, ends the last piece. *)
LEMMA CutOff ==
  ASSUME NEW S, NEW str \in Seq(S), NEW k \in 0..Len(str), NEW cut, NEW cnt,
         CutTypes(S, cut, cnt),
         NEW a, NEW m, NEW b, NEW e, Cutting(str, k, cut, cnt, a, m, b, e),
         ~InWord(str, k + 1)
  PROVE  \E b2, e2 :
           /\ cnt.argc \in Nat /\ Found(str, k + 1, cnt.argc, b2, e2)
           /\ NonEmpty(Append(cut.done, cut.last)) = WordsOf(str, cnt.argc, b2, e2)
<1>1. /\ a \in 0..k /\ m \in Nat /\ k \in Nat /\ a \in Nat
      /\ Found(str, a, m, b, e) /\ LastBlank(str, a, k)
      /\ NonEmpty(cut.done) = WordsOf(str, m, b, e)
      /\ cut.last = SubSeq(str, a + 1, k) /\ cut.last \in Seq(S)
      /\ cut.done \in Seq(Seq(S))
  BY LenProperties DEF Cutting, CutTypes
<1>2. NonEmpty(Append(cut.done, cut.last)) = WordsOf(str, m, b, e) \o Kept(cut.last)
  BY <1>1, NonEmptyAppend
<1>3. Len(cut.last) = k - a
  <2>1. a + (k - a) = k /\ k - a \in Nat /\ k <= Len(str)
    BY <1>1, LenProperties
  <2>2. Len(SubSeq(str, a + 1, a + (k - a))) = k - a
    BY <1>1, <2>1, SliceProperties
  <2>3. QED
    BY <1>1, <2>1, <2>2
<1>4. WordsOf(str, m, b, e) \in Seq(Seq(S))
  <2>1. NonEmpty(cut.done) \in Seq(Seq(S))
    <3> DEFINE all == [i \in DOMAIN cut.done |-> Kept(cut.done[i])]
    <3>1. PICK n \in Nat : n = Len(cut.done) /\ DOMAIN cut.done = 1..n
      BY <1>1, LenProperties
    <3>2. \A i \in 1..n : cut.done[i] \in Seq(S)
      BY <1>1, <3>1, ElementOfSeq
    <3>3. \A i \in 1..n : Kept(cut.done[i]) \in Seq(Seq(S))
      BY <3>2, KeptProperties
    <3>4. all \in [1..n -> Seq(Seq(S))]
      BY <3>1, <3>3
    <3> HIDE DEF all
    <3>5. all \in Seq(Seq(Seq(S)))
      BY <3>1, <3>4
    <3>6. FlattenSeq(all) \in Seq(Seq(S))
      BY <3>5, FlattenType
    <3>7. QED
      BY <3>6 DEF NonEmpty, all
  <2>2. QED
    BY <1>1, <2>1
<1>5. CASE a = k
  <2>1. cut.last = << >>
    BY <1>1, <1>3, <1>5, EmptySeq
  <2>2. Kept(cut.last) = << >>
    BY <2>1 DEF Kept
  <2>3. NonEmpty(Append(cut.done, cut.last)) = WordsOf(str, m, b, e)
    BY <1>2, <1>4, <2>2, ConcatEmptySeq
  <2>4. cnt.argc = m
    BY <1>1, <1>5 DEF Cutting
  <2>5. Found(str, k, m, b, e)
    BY <1>1, <1>5
  <2>6. Found(str, k + 1, m, b, e)
    BY <1>1, <2>5, FoundNoMore
  <2>7. QED
    BY <1>1, <2>3, <2>4, <2>6
<1>6. CASE a < k
  <2> DEFINE b2 == More(b, m, a + 1)
             e2 == More(e, m, k)
  <2>1. cut.last # << >>
    <3>1. Len(cut.last) # 0
      BY <1>1, <1>3, <1>6
    <3>2. Len(<< >>) = 0
      BY EmptySeq
    <3>3. QED
      BY <3>1, <3>2, Zenon
  <2>2. Kept(cut.last) = <<cut.last>>
    BY <2>1 DEF Kept
  <2>3. WordsOf(str, m, b, e) \o <<cut.last>> = Append(WordsOf(str, m, b, e), cut.last)
    <3> DEFINE ws == WordsOf(str, m, b, e)
               l  == cut.last
               V  == Seq(S)
    <3>1. ws \in Seq(V) /\ l \in V
      BY <1>1, <1>4
    <3> HIDE DEF ws, l, V
    <3>2. ws \o <<l>> = Append(ws, l)
      BY <3>1, AppendIsConcat
    <3>3. QED
      BY <3>2 DEF ws, l
  <2>4. /\ Found(str, k + 1, m + 1, b2, e2)
        /\ WordsOf(str, m + 1, b2, e2) = Append(WordsOf(str, m, b, e), SubSeq(str, a + 1, k))
    BY <1>1, <1>6, FoundOneMore
  <2>5. cnt.argc = m + 1 /\ m + 1 \in Nat
    BY <1>1, <1>6 DEF Cutting
  <2> HIDE DEF b2, e2
  <2>6. NonEmpty(Append(cut.done, cut.last)) = WordsOf(str, m + 1, b2, e2)
    BY <1>1, <1>2, <2>2, <2>3, <2>4
  <2>7. QED
    BY <2>4, <2>5, <2>6
<1>7. QED
  BY <1>1, <1>5, <1>6

LEMMA CutTyped ==
  ASSUME NEW S, NEW cut, NEW cnt, CutTypes(S, cut, cnt), NEW c \in S
  PROVE  CutTypes(S, Cut(cut, c), Count(cnt, c))
<1>1. cut.done \in Seq(Seq(S)) /\ cut.last \in Seq(S) /\ cnt.argc \in Nat /\ cnt.in \in BOOLEAN
  BY DEF CutTypes
<1>2. Append(cut.done, cut.last) \in Seq(Seq(S)) /\ Append(cut.last, c) \in Seq(S)
      /\ << >> \in Seq(S)
  BY <1>1
<1>3. Cut(cut, c) \in [done : Seq(Seq(S)), last : Seq(S)]
  BY <1>1, <1>2 DEF Cut, CutTypes
<1>4. Count(cnt, c) \in [argc : Nat, in : BOOLEAN]
  BY <1>1 DEF Count, Counted
<1>5. QED
  BY <1>3, <1>4 DEF CutTypes

(* One character more. *)
LEMMA CutMore ==
  ASSUME NEW S, NEW str \in Seq(S), NEW k \in Nat, k + 1 \in 1..Len(str), NEW cut, NEW cnt,
         CutTypes(S, cut, cnt),
         NEW a, NEW m, NEW b, NEW e, Cutting(str, k, cut, cnt, a, m, b, e)
  PROVE  \E a2, m2, b2, e2 :
           Cutting(str, k + 1, Cut(cut, str[k + 1]), Count(cnt, str[k + 1]), a2, m2, b2, e2)
<1> DEFINE c == str[k + 1]
<1>1. /\ k \in 0..Len(str) /\ k + 1 \in DOMAIN str /\ a \in 0..k /\ a \in Nat /\ m \in Nat
      /\ cut.done \in Seq(Seq(S)) /\ cut.last \in Seq(S) /\ cnt.argc \in Nat
      /\ cnt.in \in BOOLEAN
  BY LenProperties DEF Cutting, CutTypes
<1>2. CASE c \in Blank
  <2>1. ~InWord(str, k + 1)
    BY <1>2 DEF InWord
  <2>2. PICK b2, e2 :
          /\ cnt.argc \in Nat /\ Found(str, k + 1, cnt.argc, b2, e2)
          /\ NonEmpty(Append(cut.done, cut.last)) = WordsOf(str, cnt.argc, b2, e2)
    BY <1>1, <2>1, CutOff
  <2>3. Cut(cut, c).done = Append(cut.done, cut.last) /\ Cut(cut, c).last = << >>
    BY <1>2 DEF Cut
  <2>4. Count(cnt, c).argc = cnt.argc /\ Count(cnt, c).in = FALSE
    BY <1>2 DEF Count, Counted
  <2>5. LastBlank(str, k + 1, k + 1)
    <3>1. \A i \in ((k + 1) + 1)..(k + 1) : FALSE
      OBVIOUS
    <3>2. QED
      BY <2>1, <3>1 DEF LastBlank
  <2>6. SubSeq(str, (k + 1) + 1, k + 1) = << >>
    <3>1. k + 1 \in Nat /\ (k + 1) + 0 <= Len(str) /\ (k + 1) + 0 = k + 1 /\ 0 \in Nat
      BY <1>1, LenProperties
    <3>2. SubSeq(str, (k + 1) + 1, (k + 1) + 0) \in Seq(S)
          /\ Len(SubSeq(str, (k + 1) + 1, (k + 1) + 0)) = 0
      BY <3>1, SliceProperties
    <3>3. QED
      BY <3>1, <3>2, EmptySeq
  <2>7. k + 1 \in 0..(k + 1) /\ ~(k + 1 < k + 1)
    OBVIOUS
  <2>8. Cutting(str, k + 1, Cut(cut, c), Count(cnt, c), k + 1, cnt.argc, b2, e2)
    <3>1. NonEmpty(Cut(cut, c).done) = WordsOf(str, cnt.argc, b2, e2)
      BY <2>2, <2>3
    <3>2. Cut(cut, c).last = SubSeq(str, (k + 1) + 1, k + 1)
      BY <2>3, <2>6
    <3>3. Count(cnt, c).in = IF k + 1 < k + 1 THEN TRUE ELSE FALSE
      BY <2>4, <2>7
    <3>4. Count(cnt, c).argc = IF k + 1 < k + 1 THEN cnt.argc + 1 ELSE cnt.argc
      BY <2>4, <2>7
    <3>5. Found(str, k + 1, cnt.argc, b2, e2) /\ cnt.argc \in Nat
      BY <2>2
    <3> HIDE DEF c
    <3>6. QED
      BY <2>5, <2>7, <3>1, <3>2, <3>3, <3>4, <3>5, Zenon DEF Cutting
  <2>9. QED
    BY <2>8
<1>3. CASE c \notin Blank
  <2>1. InWord(str, k + 1)
    BY <1>1, <1>3 DEF InWord
  <2>2. Cut(cut, c).done = cut.done /\ Cut(cut, c).last = Append(cut.last, c)
    BY <1>3 DEF Cut, CutTypes
  <2>3. /\ Count(cnt, c).in = TRUE
        /\ Count(cnt, c).argc = IF cnt.in THEN cnt.argc ELSE cnt.argc + 1
    BY <1>3 DEF Count, Counted
  <2>4. LastBlank(str, a, k + 1)
    <3>1. \A i \in (a + 1)..(k + 1) : i = k + 1 \/ i \in (a + 1)..k
      BY <1>1
    <3>2. QED
      BY <2>1, <3>1 DEF Cutting, LastBlank
  <2>5. Append(cut.last, c) = SubSeq(str, a + 1, k + 1)
    <3>1. k - a \in Nat /\ a + (k - a) = k /\ a + ((k - a) + 1) = k + 1
          /\ a + (k - a) + 1 <= Len(str)
      BY <1>1, LenProperties
    <3>2. SubSeq(str, a + 1, a + ((k - a) + 1))
            = Append(SubSeq(str, a + 1, a + (k - a)), str[a + (k - a) + 1])
      BY <1>1, <3>1, SliceGrows
    <3>3. cut.last = SubSeq(str, a + 1, k)
      BY DEF Cutting
    <3>4. QED
      BY <3>1, <3>2, <3>3
  <2>6. a \in 0..(k + 1) /\ a < k + 1
    BY <1>1
  <2>7. Count(cnt, c).argc = m + 1
    <3>1. /\ cnt.in = IF a < k THEN TRUE ELSE FALSE
          /\ cnt.argc = IF a < k THEN m + 1 ELSE m
      BY DEF Cutting
    <3>2. CASE a < k
      <4>1. cnt.in = TRUE /\ cnt.argc = m + 1
        BY <3>1, <3>2, Zenon
      <4>2. QED
        BY <2>3, <4>1, Zenon
    <3>3. CASE ~(a < k)
      <4>1. cnt.in = FALSE /\ cnt.argc = m
        BY <3>1, <3>3, Zenon
      <4>2. QED
        BY <2>3, <4>1, Zenon
    <3>4. QED
      BY <3>2, <3>3
  <2>8. Cutting(str, k + 1, Cut(cut, c), Count(cnt, c), a, m, b, e)
    <3>1. m \in Nat /\ Found(str, a, m, b, e) /\ NonEmpty(cut.done) = WordsOf(str, m, b, e)
      BY DEF Cutting
    <3>2. QED
      <4>1. NonEmpty(Cut(cut, c).done) = WordsOf(str, m, b, e)
        BY <2>2, <3>1
      <4>2. Cut(cut, c).last = SubSeq(str, a + 1, k + 1)
        BY <2>2, <2>5
      <4>3. Count(cnt, c).in = IF a < k + 1 THEN TRUE ELSE FALSE
        BY <2>3, <2>6, Zenon
      <4>4. Count(cnt, c).argc = IF a < k + 1 THEN m + 1 ELSE m
        BY <2>6, <2>7, Zenon
      <4>5. QED
        BY <2>4, <2>6, <3>1, <4>1, <4>2, <4>3, <4>4, Zenon DEF Cutting
  <2>9. QED
    BY <2>8
<1>4. QED
  BY <1>2, <1>3

CutSoFar(S, str, k, cut, cnt) ==
  /\ CutTypes(S, cut, cnt)
  /\ \E a, m, b, e : Cutting(str, k, cut, cnt, a, m, b, e)

LEMMA CutBegins ==
  ASSUME NEW S, NEW str \in Seq(S)
  PROVE  CutSoFar(S, str, 0, Nothing, Nobody)
<1> DEFINE none == [i \in 1..0 |-> 0]
<1>1. none \in [1..0 -> Nat] /\ \A i \in 1..0 : FALSE
  OBVIOUS
<1>2. Found(str, 0, 0, none, none)
  <2>1. \A x \in Starts(str) : ~(x <= 0)
    BY LenProperties DEF Starts
  <2>2. QED
    BY <1>1, <2>1 DEF Found
<1>3. LastBlank(str, 0, 0)
  <2>1. ~InWord(str, 0) /\ \A i \in (0 + 1)..0 : FALSE
    BY LenProperties DEF InWord
  <2>2. QED
    BY <2>1 DEF LastBlank
<1>4. NonEmpty(<< >>) = << >>
  <2> DEFINE all == [i \in DOMAIN << >> |-> Kept(<< >>[i])]
  <2>1. all = << >>
    OBVIOUS
  <2> HIDE DEF all
  <2>2. FlattenSeq(all) = << >>
    BY <2>1, FlattenEmpty
  <2>3. QED
    BY <2>2 DEF NonEmpty, all
<1>5. WordsOf(str, 0, none, none) = << >>
  BY DEF WordsOf
<1>6. SubSeq(str, 0 + 1, 0) = << >>
  <2>1. SubSeq(str, 1, 0) \in Seq(S) /\ Len(SubSeq(str, 1, 0)) = 0
    <3>1. 0 \in 0..Len(str)
      BY LenProperties
    <3>2. QED
      BY <3>1, PrefixProperties
  <2>2. QED
    BY <2>1, EmptySeq
<1> HIDE DEF none
<1>7. Cutting(str, 0, Nothing, Nobody, 0, 0, none, none)
  <2>1. Nothing.done = << >> /\ Nothing.last = << >> /\ Nobody.argc = 0 /\ Nobody.in = FALSE
    BY DEF Nothing, Nobody
  <2>2. 0 \in 0..0 /\ 0 \in Nat /\ ~(0 < 0)
    OBVIOUS
  <2>3. NonEmpty(Nothing.done) = WordsOf(str, 0, none, none)
    BY <1>4, <1>5, <2>1
  <2>4. Nothing.last = SubSeq(str, 0 + 1, 0)
    BY <1>6, <2>1
  <2>5. Nobody.in = IF 0 < 0 THEN TRUE ELSE FALSE
    BY <2>1, <2>2, Zenon
  <2>6. Nobody.argc = IF 0 < 0 THEN 0 + 1 ELSE 0
    BY <2>1
  <2>7. QED
    BY <1>2, <1>3, <2>2, <2>3, <2>4, <2>5, <2>6, Zenon DEF Cutting
<1>8. CutTypes(S, Nothing, Nobody)
  BY DEF CutTypes, Nothing, Nobody
<1>9. QED
  BY <1>7, <1>8 DEF CutSoFar

(* Whatever a line is, args_sep gives its words: the loop that cuts finds  *)
(* as many as were counted, and they are those of a reader.                *)
THEOREM ArgsAreWords == \A S : \A str \in Seq(S) : Args(str) = Words(str)
<1> SUFFICES ASSUME NEW S, NEW str \in Seq(S)
             PROVE  Args(str) = Words(str)
  OBVIOUS
<1>1. PICK n \in Nat : n = Len(str) /\ DOMAIN str = 1..n
  BY LenProperties
<1>2. PICK g : /\ Folded("cut", str, Nothing, g)
               /\ Pieces(str) = Append(g[n].done, g[n].last)
  BY <1>1, FoldOfCut
<1>3. PICK h : Folded("count", str, Nobody, h) /\ Argc(str) = h[n].argc
  BY <1>1, FoldOfCount
<1>4. /\ g[0] = Nothing /\ h[0] = Nobody
      /\ \A k \in 1..n : g[k] = Cut(g[k - 1], str[k]) /\ h[k] = Count(h[k - 1], str[k])
  BY <1>1, <1>2, <1>3 DEF Folded, Step
<1>5. CutSoFar(S, str, n, g[n], h[n])
  <2> DEFINE T == {k \in Nat : k <= n => CutSoFar(S, str, k, g[k], h[k])}
  <2>1. 0 \in T
    BY <1>4, CutBegins
  <2>2. ASSUME NEW k \in Nat, k \in T
        PROVE  k + 1 \in T
    <3>1. SUFFICES ASSUME k + 1 <= n
                   PROVE  CutSoFar(S, str, k + 1, g[k + 1], h[k + 1])
      OBVIOUS
    <3>2. k + 1 \in 1..n /\ (k + 1) - 1 = k /\ k + 1 \in 1..Len(str)
      BY <1>1, <3>1
    <3>3. CutTypes(S, g[k], h[k]) /\ \E a, m, b, e : Cutting(str, k, g[k], h[k], a, m, b, e)
      BY <2>2, <3>1 DEF CutSoFar
    <3>4. g[k + 1] = Cut(g[k], str[k + 1]) /\ h[k + 1] = Count(h[k], str[k + 1])
      BY <1>4, <3>2
    <3>5. str[k + 1] \in S
      BY <3>2, ElementOfSeq
    <3>6. CutTypes(S, g[k + 1], h[k + 1])
      BY <3>3, <3>4, <3>5, CutTyped
    <3>7. PICK a, m, b, e : Cutting(str, k, g[k], h[k], a, m, b, e)
      BY <3>3
    <3>8. \E a2, m2, b2, e2 :
            Cutting(str, k + 1, Cut(g[k], str[k + 1]), Count(h[k], str[k + 1]), a2, m2, b2, e2)
      BY <3>2, <3>3, <3>7, CutMore
    <3>9. QED
      BY <3>4, <3>6, <3>8 DEF CutSoFar
  <2> HIDE DEF T
  <2>3. Nat \subseteq T
    BY <2>1, <2>2, SetInduction
  <2>4. QED
    BY <2>3 DEF T
<1>6. PICK a, m, b, e : Cutting(str, n, g[n], h[n], a, m, b, e)
  BY <1>5 DEF CutSoFar
<1>7. ~InWord(str, n + 1)
  BY <1>1 DEF InWord
<1>8. PICK b2, e2 :
        /\ h[n].argc \in Nat /\ Found(str, n + 1, h[n].argc, b2, e2)
        /\ NonEmpty(Append(g[n].done, g[n].last)) = WordsOf(str, h[n].argc, b2, e2)
  <2>1. n \in 0..Len(str) /\ CutTypes(S, g[n], h[n])
    BY <1>1, <1>5 DEF CutSoFar
  <2>2. QED
    BY <1>6, <1>7, <2>1, CutOff
<1> DEFINE argc  == h[n].argc
           words == WordsOf(str, argc, b2, e2)
<1>9. argc \in Nat /\ Argc(str) = argc /\ NonEmpty(Pieces(str)) = words
  BY <1>2, <1>3, <1>8
<1>10. Words(str) = words
  BY <1>1, <1>8, FoundAll
<1>11. Len(words) = argc /\ SubSeq(words, 1, argc) = words
  <2> DEFINE V == {SubSeq(str, b2[i], e2[i]) : i \in 1..argc}
  <2>1. words \in [1..argc -> V]
    BY DEF WordsOf
  <2> HIDE DEF V, words, argc
  <2>2. words \in Seq(V) /\ Len(words) = argc
    BY <1>9, <2>1, ListIsSeq
  <2>3. argc \in 0..Len(words) /\ \A i \in 1..argc : i \in 1..Len(words)
    BY <1>9, <2>2
  <2>4. /\ SubSeq(words, 1, argc) \in Seq(V) /\ Len(SubSeq(words, 1, argc)) = argc
        /\ \A i \in 1..argc : SubSeq(words, 1, argc)[i] = words[i]
    BY <2>2, <2>3, PrefixProperties
  <2>5. SubSeq(words, 1, argc) = words
    BY <2>2, <2>4, SeqEqual
  <2>6. QED
    BY <2>2, <2>5
<1> HIDE DEF words, argc
<1>12. Args(str) = words
  <2>1. ~(argc < argc)
    BY <1>9
  <2>2. QED
    BY <1>9, <1>11, <2>1 DEF Args
<1>13. QED
  BY <1>10, <1>12

-----------------------------------------------------------------------------
(* The questions of one event *)

AllList(event, qs) == [i \in DOMAIN qs |-> IfOf(event, qs[i])]

LEMMA AllListProperties ==
  ASSUME NEW Q, NEW qs \in Seq(Q), NEW event
  PROVE  /\ ListOfLists(AllList(event, qs), Q) /\ Len(AllList(event, qs)) = Len(qs)
         /\ \A i \in 1..Len(qs) :
              AllList(event, qs)[i] = IfOf(event, qs[i]) /\ IfOf(event, qs[i]) \in Seq(Q)
<1>1. Len(qs) \in Nat /\ DOMAIN qs = 1..Len(qs) /\ \A i \in 1..Len(qs) : qs[i] \in Q
  BY LenProperties, ElementOfSeq
<1>2. \A q \in Q : <<q>> \in Seq(Q) /\ << >> \in Seq(Q)
  OBVIOUS
<1>3. \A i \in 1..Len(qs) : IfOf(event, qs[i]) \in Seq(Q)
  BY <1>1, <1>2 DEF IfOf
<1> DEFINE V == Seq(Q)
           n == Len(qs)
           f == AllList(event, qs)
<1>4. f \in [1..n -> V]
  BY <1>1, <1>3 DEF AllList
<1>5. \A i \in 1..n : f[i] = IfOf(event, qs[i])
  BY <1>1 DEF AllList
<1>6. f \in Seq(V) /\ Len(f) = n
  <2>1. n \in Nat
    BY <1>1
  <2> HIDE DEF f, V, n
  <2>2. QED
    BY <1>4, <2>1, ListIsSeq
<1>7. QED
  BY <1>3, <1>5, <1>6 DEF ListOfLists

LEMMA AllOfType ==
  ASSUME NEW Q, NEW qs \in Seq(Q), NEW event
  PROVE  AllOf(event, qs) \in Seq(Q)
<1>1. AllList(event, qs) \in Seq(Seq(Q))
  BY AllListProperties DEF ListOfLists
<1>2. FlattenSeq(AllList(event, qs)) \in Seq(Q)
  BY <1>1, FlattenType
<1>3. QED
  BY <1>2 DEF AllOf, AllList

LEMMA AllOfEmpty ==
  ASSUME NEW event
  PROVE  AllOf(event, << >>) = << >>
<1>1. AllList(event, << >>) = << >>
  BY DEF AllList
<1>2. FlattenSeq(AllList(event, << >>)) = << >>
  BY <1>1, FlattenEmpty
<1>3. QED
  BY <1>2 DEF AllOf, AllList

LEMMA AllOfAppend ==
  ASSUME NEW Q, NEW qs \in Seq(Q), NEW q \in Q, NEW event
  PROVE  AllOf(event, Append(qs, q)) = AllOf(event, qs) \o IfOf(event, q)
<1> DEFINE n == Len(qs)
           t == Append(qs, q)
           a == AllList(event, qs)
           b == AllList(event, t)
<1>1. /\ n \in Nat /\ t \in Seq(Q) /\ Len(t) = n + 1 /\ t[n + 1] = q
      /\ \A i \in 1..n : t[i] = qs[i]
  BY LenProperties, AppendProperties
<1> HIDE DEF t
<1>2. /\ ListOfLists(a, Q) /\ Len(a) = n
      /\ \A i \in 1..n : a[i] = IfOf(event, qs[i])
  BY AllListProperties
<1>3. /\ ListOfLists(b, Q) /\ Len(b) = n + 1
      /\ \A i \in 1..(n + 1) : b[i] = IfOf(event, t[i]) /\ IfOf(event, t[i]) \in Seq(Q)
  BY <1>1, AllListProperties
<1>4. \A i \in 1..n : b[i] = a[i]
  <2>1. \A i \in 1..n : i \in 1..(n + 1)
    BY <1>1
  <2>2. QED
    BY <1>1, <1>2, <1>3, <2>1
<1>5. b[n + 1] = IfOf(event, q) /\ IfOf(event, q) \in Seq(Q)
  <2>1. n + 1 \in 1..(n + 1)
    BY <1>1
  <2>2. QED
    BY <1>1, <1>3, <2>1
<1> HIDE DEF a, b, n
<1>6. FlattenSeq(b) = FlattenSeq(a) \o IfOf(event, q)
  <2>1. ListOfLists(a, Q) /\ ListOfLists(b, Q) /\ Len(a) = n /\ Len(b) = n + 1 /\ n \in Nat
    BY <1>1, <1>2, <1>3
  <2>2. Lengthened(b, a, n, IfOf(event, q))
    BY <1>4, <1>5, <2>1 DEF Lengthened
  <2>3. ListOfLists(a, Q) /\ ListOfLists(b, Q) /\ IfOf(event, q) \in Seq(Q)
    BY <1>5, <2>1
  <2>4. QED
    BY <2>2, <2>3, FlattenLengthened
<1>7. QED
  BY <1>6 DEF a, b, t, AllOf, AllList

LEMMA AllOfHead ==
  ASSUME NEW Q, NEW qs \in Seq(Q), qs # << >>, NEW event
  PROVE  AllOf(event, qs) = IfOf(event, Head(qs)) \o AllOf(event, Tail(qs))
<1> DEFINE t == Tail(qs)
           n == Len(t)
           a == AllList(event, qs)
           b == AllList(event, t)
<1>1. /\ n \in Nat /\ t \in Seq(Q) /\ Len(qs) = n + 1 /\ Head(qs) = qs[1]
      /\ \A i \in 1..n : t[i] = qs[i + 1]
  <2>1. /\ t \in Seq(Q) /\ Len(t) = Len(qs) - 1 /\ Head(qs) = qs[1]
        /\ \A i \in 1..(Len(qs) - 1) : t[i] = qs[i + 1]
    BY HeadTailProperties
  <2>2. Len(qs) \in Nat \ {0}
    BY EmptySeq
  <2>3. QED
    BY <2>1, <2>2
<1> HIDE DEF t
<1>2. /\ ListOfLists(a, Q) /\ Len(a) = n + 1
      /\ \A i \in 1..(n + 1) : a[i] = IfOf(event, qs[i])
  BY <1>1, AllListProperties
<1>3. /\ ListOfLists(b, Q) /\ Len(b) = n
      /\ \A i \in 1..n : b[i] = IfOf(event, t[i])
  BY <1>1, AllListProperties
<1>4. /\ \A i \in 1..n : b[i] = a[i + 1]
      /\ a[1] = IfOf(event, Head(qs))
  <2>1. 1 \in 1..(n + 1) /\ \A i \in 1..n : i + 1 \in 1..(n + 1)
    BY <1>1
  <2>2. QED
    BY <1>1, <1>2, <1>3, <2>1
<1>5. n \in Nat
  BY <1>1
<1> HIDE DEF a, b, n
<1>6. FlattenSeq(a) = a[1] \o FlattenSeq(b)
  <2>1. ListOfLists(a, Q) /\ ListOfLists(b, Q) /\ Len(a) = n + 1 /\ Len(b) = n
    BY <1>2, <1>3
  <2>2. QED
    BY <1>4, <1>5, <2>1, FlattenFrom
<1>7. QED
  BY <1>4, <1>6 DEF a, b, t, AllOf, AllList

LEMMA AllOfOne ==
  ASSUME NEW Q, NEW q \in Q, NEW event
  PROVE  AllOf(event, <<q>>) = IfOf(event, q)
<1>1. << >> \in Seq(Q) /\ Append(<< >>, q) = <<q>>
  BY EmptySeq
<1>2. AllOf(event, Append(<< >>, q)) = AllOf(event, << >>) \o IfOf(event, q)
  BY <1>1, AllOfAppend
<1>3. IfOf(event, q) \in Seq(Q)
  BY DEF IfOf
<1>4. QED
  BY <1>1, <1>2, <1>3, AllOfEmpty, ConcatEmptySeq

(* How long they are. *)
LEMMA IfOfType ==
  ASSUME NEW Q, NEW q \in Q, NEW event
  PROVE  IfOf(event, q) \in Seq(Q)
  BY DEF IfOf

LEMMA IfOfLength ==
  ASSUME NEW q, NEW event
  PROVE  Len(IfOf(event, q)) = IF q.event = event THEN 1 ELSE 0
  BY DEF IfOf

LEMMA AllOfLength ==
  ASSUME NEW Q, NEW qs \in Seq(Q), NEW event
  PROVE  Len(AllOf(event, qs)) \in Nat
  BY AllOfType, LenProperties

LEMMA AllOfMore ==
  ASSUME NEW Q, NEW qs \in Seq(Q), NEW q \in Q, NEW event
  PROVE  Len(AllOf(event, Append(qs, q))) = Len(AllOf(event, qs)) + Len(IfOf(event, q))
<1>1. AllOf(event, Append(qs, q)) = AllOf(event, qs) \o IfOf(event, q)
  BY AllOfAppend
<1>2. AllOf(event, qs) \in Seq(Q) /\ IfOf(event, q) \in Seq(Q)
  BY AllOfType DEF IfOf
<1>3. QED
  BY <1>1, <1>2, ConcatProperties

LEMMA AllOfLess ==
  ASSUME NEW Q, NEW qs \in Seq(Q), qs # << >>, NEW event
  PROVE  Len(AllOf(event, qs)) = Len(IfOf(event, Head(qs))) + Len(AllOf(event, Tail(qs)))
<1>1. AllOf(event, qs) = IfOf(event, Head(qs)) \o AllOf(event, Tail(qs))
  BY AllOfHead
<1>2. Head(qs) \in Q /\ Tail(qs) \in Seq(Q)
  BY HeadTailProperties
<1>3. AllOf(event, Tail(qs)) \in Seq(Q)
  BY <1>2, AllOfType
<1>4. IfOf(event, Head(qs)) \in Seq(Q)
  BY <1>2, IfOfType
<1>5. QED
  BY <1>1, <1>3, <1>4, ConcatProperties

(* Requests of the events of some questions, behind others.                *)
SameEvents(rs, qs) == Len(rs) = Len(qs) /\ \A i \in 1..Len(qs) : rs[i].event = qs[i].event

LEMMA AllOfBehind ==
  ASSUME NEW R, NEW Q, NEW c \in Seq(R), NEW rs \in Seq(R), NEW qs \in Seq(Q),
         SameEvents(rs, qs), NEW event
  PROVE  Len(AllOf(event, c \o rs)) = Len(AllOf(event, c)) + Len(AllOf(event, qs))
<1> DEFINE n == Len(qs)
           Upto(k) == Len(AllOf(event, c \o SubSeq(rs, 1, k)))
                        = Len(AllOf(event, c)) + Len(AllOf(event, SubSeq(qs, 1, k)))
           T == {k \in Nat : k <= n => Upto(k)}
<1>1. n \in Nat /\ Len(rs) = n /\ \A i \in 1..n : rs[i].event = qs[i].event
  BY LenProperties DEF SameEvents
<1>2. Len(AllOf(event, c)) \in Nat
  BY AllOfLength
<1>3. 0 \in T
  <2>1. SubSeq(rs, 1, 0) = << >> /\ SubSeq(qs, 1, 0) = << >>
    <3>1. 0 \in 0..Len(rs) /\ 0 \in 0..Len(qs)
      BY <1>1
    <3>2. SubSeq(rs, 1, 0) \in Seq(R) /\ Len(SubSeq(rs, 1, 0)) = 0
      BY <3>1, PrefixProperties
    <3>3. SubSeq(qs, 1, 0) \in Seq(Q) /\ Len(SubSeq(qs, 1, 0)) = 0
      BY <3>1, PrefixProperties
    <3>4. QED
      BY <3>2, <3>3, EmptySeq
  <2>2. c \o << >> = c
    BY ConcatEmptySeq
  <2>3. AllOf(event, << >>) = << >> /\ Len(<< >>) = 0
    BY AllOfEmpty, EmptySeq
  <2>4. Upto(0)
    <3>1. AllOf(event, c \o SubSeq(rs, 1, 0)) = AllOf(event, c)
      BY <2>1, <2>2
    <3>2. Len(AllOf(event, SubSeq(qs, 1, 0))) = 0
      BY <2>1, <2>3
    <3>3. QED
      BY <1>2, <3>1, <3>2
  <2> HIDE DEF Upto
  <2>5. QED
    BY <2>4
<1>4. ASSUME NEW k \in Nat, k \in T
      PROVE  k + 1 \in T
  <2>1. SUFFICES ASSUME k + 1 <= n
                 PROVE  Upto(k + 1)
    OBVIOUS
  <2> DEFINE r  == rs[k + 1]
             q  == qs[k + 1]
             r1 == SubSeq(rs, 1, k)
             r2 == SubSeq(rs, 1, k + 1)
             q1 == SubSeq(qs, 1, k)
             q2 == SubSeq(qs, 1, k + 1)
  <2>2. /\ k + 1 \in 1..n /\ k \in 0..n /\ k + 1 \in 0..n
        /\ r \in R /\ q \in Q /\ r.event = q.event
    <3>1. k + 1 \in 1..n /\ k \in 0..n /\ k + 1 \in 0..n
      BY <1>1, <2>1
    <3>2. QED
      BY <1>1, <3>1, ElementOfSeq
  <2>3. r1 \in Seq(R) /\ q1 \in Seq(Q)
    BY <1>1, <2>2, PrefixProperties
  <2>4. r2 = Append(r1, r) /\ q2 = Append(q1, q)
    <3>1. 0 \in Nat /\ 0 + 1 = 1 /\ 0 + k = k /\ 0 + (k + 1) = k + 1 /\ 0 + k + 1 = k + 1
          /\ 0 + k + 1 <= Len(rs) /\ 0 + k + 1 <= Len(qs)
      BY <1>1, <2>1
    <3>2. SubSeq(rs, 0 + 1, 0 + (k + 1)) = Append(SubSeq(rs, 0 + 1, 0 + k), rs[0 + k + 1])
      BY <3>1, SliceGrows
    <3>3. SubSeq(qs, 0 + 1, 0 + (k + 1)) = Append(SubSeq(qs, 0 + 1, 0 + k), qs[0 + k + 1])
      BY <3>1, SliceGrows
    <3>4. QED
      BY <3>1, <3>2, <3>3
  <2>5. Upto(k)
    <3>1. k <= n
      BY <1>1, <2>1
    <3> HIDE DEF Upto
    <3>2. QED
      BY <1>4, <3>1
  <2>6. Len(AllOf(event, c \o r1)) = Len(AllOf(event, c)) + Len(AllOf(event, q1))
    BY <2>5
  <2> HIDE DEF r1, r2, q1, q2, r, q, n, Upto, T
  <2>7. c \o r2 = Append(c \o r1, r) /\ c \o r1 \in Seq(R)
    <3>1. c \o r1 \in Seq(R)
      BY <2>3, ConcatProperties
    <3>2. c \o Append(r1, r) = Append(c \o r1, r)
      BY <2>2, <2>3
    <3>3. QED
      BY <2>4, <3>1, <3>2
  <2>8. Len(AllOf(event, c \o r2)) = Len(AllOf(event, c \o r1)) + Len(IfOf(event, r))
    <3>1. c \o r1 \in Seq(R) /\ r \in R
      BY <2>2, <2>7
    <3>2. Len(AllOf(event, Append(c \o r1, r))) = Len(AllOf(event, c \o r1)) + Len(IfOf(event, r))
      BY <3>1, AllOfMore
    <3>3. QED
      BY <2>7, <3>2
  <2>9. Len(AllOf(event, q2)) = Len(AllOf(event, q1)) + Len(IfOf(event, q))
    <3>1. q1 \in Seq(Q) /\ q \in Q
      BY <2>2, <2>3
    <3>2. Len(AllOf(event, Append(q1, q))) = Len(AllOf(event, q1)) + Len(IfOf(event, q))
      BY <3>1, AllOfMore
    <3>3. QED
      BY <2>4, <3>2
  <2>10. /\ Len(IfOf(event, r)) = Len(IfOf(event, q))
         /\ Len(IfOf(event, q)) \in Nat /\ Len(AllOf(event, q1)) \in Nat
    <3>1. q1 \in Seq(Q) /\ q \in Q /\ r1 \in Seq(R) /\ r \in R
      BY <2>2, <2>3
    <3>2. Len(IfOf(event, q)) = IF q.event = event THEN 1 ELSE 0
      BY IfOfLength
    <3>3. Len(IfOf(event, r)) = IF r.event = event THEN 1 ELSE 0
      BY IfOfLength
    <3>4. Len(AllOf(event, q1)) \in Nat
      BY <3>1, AllOfLength
    <3>5. QED
      BY <2>2, <3>2, <3>3, <3>4
  <2>11. Len(AllOf(event, c \o r2)) = Len(AllOf(event, c)) + Len(AllOf(event, q2))
    BY <1>2, <2>6, <2>8, <2>9, <2>10
  <2>12. QED
    BY <2>11 DEF Upto, r2, q2
<1> HIDE DEF T
<1>5. Nat \subseteq T
  BY <1>3, <1>4, SetInduction
<1>6. Upto(n)
  BY <1>1, <1>5 DEF T
<1>7. SubSeq(rs, 1, n) = rs /\ SubSeq(qs, 1, n) = qs
  <2>1. n \in 0..Len(rs) /\ n \in 0..Len(qs)
    BY <1>1
  <2>2. /\ SubSeq(rs, 1, n) \in Seq(R) /\ Len(SubSeq(rs, 1, n)) = n
        /\ \A i \in 1..n : SubSeq(rs, 1, n)[i] = rs[i]
    BY <2>1, PrefixProperties
  <2>3. /\ SubSeq(qs, 1, n) \in Seq(Q) /\ Len(SubSeq(qs, 1, n)) = n
        /\ \A i \in 1..n : SubSeq(qs, 1, n)[i] = qs[i]
    BY <2>1, PrefixProperties
  <2>4. SubSeq(rs, 1, n) = rs
    BY <1>1, <2>2, SeqEqual
  <2>5. SubSeq(qs, 1, n) = qs
    BY <1>1, <2>3, SeqEqual
  <2>6. QED
    BY <2>4, <2>5
<1>8. QED
  BY <1>6, <1>7

-----------------------------------------------------------------------------
(* The inductive invariant *)

Asked == [event : Events, func : Funcs, of : Nick \cup Room]
Request == [event : Events, of : Nick \cup Room]
Told == [func : Funcs, of : Nick \cup Room]
Handler == [func : Funcs, count : {1}]

(* While one question waits at most: what was shown are the answers of all *)
(* others, and the one that waits is the last asked and has the callback   *)
(* that is connected to its event.                                         *)
TheOneAsked(q) ==
  /\ asked # <<>>
  /\ q.of = asked[Len(asked)].of
  /\ handlers[q.event] = <<ForOne(asked[Len(asked)].func)>>

Alone ==
  /\ Waiting <= 1
  /\ Waiting <= Len(asked)
  /\ shown = SubSeq(asked, 1, Len(asked) - Waiting)
  /\ \A q \in Request : c2s = <<q>> \/ s2c = <<q>> => TheOneAsked(q)

IInv ==
  /\ TypeOK
  /\ HandlersAwaited
  /\ ~overlap => Alone

LEMMA TypesAre ==
  ASSUME TypeOK
  PROVE  /\ handlers \in [Events -> Seq(Handler)]
         /\ c2s \in Seq(Request) /\ s2c \in Seq(Request)
         /\ asked \in Seq(Told)
         /\ Len(c2s) \in Nat /\ Len(s2c) \in Nat /\ Waiting \in Nat /\ Len(asked) \in Nat
<1>1. /\ handlers \in [Events -> Seq(Handler)]
      /\ c2s \in Seq(Request) /\ s2c \in Seq(Request) /\ asked \in Seq(Told)
  BY DEF TypeOK, Handler, Request, Told
<1>2. Len(c2s) \in Nat /\ Len(s2c) \in Nat /\ Len(asked) \in Nat
  BY <1>1, LenProperties
<1>3. QED
  BY <1>1, <1>2 DEF Waiting

(* A sequence is its own beginning. *)
LEMMA AllOfItself ==
  ASSUME NEW V, NEW s \in Seq(V)
  PROVE  SubSeq(s, 1, Len(s)) = s
<1>1. Len(s) \in 0..Len(s)
  BY LenProperties
<1>2. /\ SubSeq(s, 1, Len(s)) \in Seq(V) /\ Len(SubSeq(s, 1, Len(s))) = Len(s)
      /\ \A i \in 1..Len(s) : SubSeq(s, 1, Len(s))[i] = s[i]
  BY <1>1, PrefixProperties
<1>3. QED
  BY <1>2, SeqEqual

LEMMA InitHolds ==
  ASSUME AnswersAssumption, Init
  PROVE  IInv
<1>1. TypeOK
  <2>1. handlers \in [Events -> Seq([func : Funcs, count : {1}])]
    <3>1. <<>> \in Seq([func : Funcs, count : {1}])
      BY EmptySeq
    <3>2. handlers = [e \in Events |-> <<>>]
      BY DEF Init, Events
    <3>3. QED
      BY <3>1, <3>2
  <2>2. \A V : <<>> \in Seq(V)
    BY EmptySeq
  <2>3. QED
    BY <2>1, <2>2 DEF Init, TypeOK
<1>2. HandlersAwaited
  <2>1. \A event \in Events : Len(handlers[event]) = 0
    BY DEF Init, Events
  <2>2. \A event \in Events : Len(AllOf(event, c2s)) = 0 /\ Len(AllOf(event, s2c)) = 0
    BY AllOfEmpty DEF Init
  <2>3. QED
    BY <2>1, <2>2 DEF HandlersAwaited, WaitingFor
<1>3. Alone
  <2>1. Waiting = 0 /\ Len(asked) = 0 /\ shown = <<>> /\ asked = <<>>
    BY DEF Init, Waiting
  <2>2. SubSeq(asked, 1, Len(asked) - Waiting) = <<>>
    <3>1. <<>> \in Seq(Told)
      BY EmptySeq
    <3>2. SubSeq(<<>>, 1, Len(<<>>)) = <<>>
      BY <3>1, AllOfItself
    <3>3. QED
      BY <2>1, <3>2
  <2>3. \A q \in Request : c2s # <<q>> /\ s2c # <<q>>
    BY DEF Init
  <2>4. QED
    BY <2>1, <2>2, <2>3 DEF Alone
<1>4. QED
  BY <1>1, <1>2, <1>3 DEF IInv

(* Nobody is left connected when nothing waits. *)
LEMMA NobodyConnected ==
  ASSUME IInv, Waiting = 0
  PROVE  c2s = <<>> /\ s2c = <<>> /\ \A e \in Events : handlers[e] = <<>>
<1>1. /\ handlers \in [Events -> Seq(Handler)] /\ c2s \in Seq(Request) /\ s2c \in Seq(Request)
      /\ Len(c2s) \in Nat /\ Len(s2c) \in Nat
  BY TypesAre DEF IInv
<1>2. Len(c2s) = 0 /\ Len(s2c) = 0
  BY <1>1 DEF Waiting
<1>3. c2s = <<>> /\ s2c = <<>>
  BY <1>1, <1>2, EmptySeq
<1>4. ASSUME NEW e \in Events
      PROVE  handlers[e] = <<>>
  <2>1. WaitingFor(e) = 0
    BY <1>3, AllOfEmpty DEF WaitingFor
  <2>2. Len(handlers[e]) <= 0
    BY <2>1 DEF IInv, HandlersAwaited
  <2>3. handlers[e] \in Seq(Handler)
    BY <1>1
  <2>4. Len(handlers[e]) = 0
    BY <2>2, <2>3, LenProperties
  <2>5. QED
    BY <2>3, <2>4, EmptySeq
<1>5. QED
  BY <1>3, <1>4

(* What the callbacks of the questions of an event are. *)
Connected(of) == [i \in DOMAIN of |-> ForOne(of[i].func)]

LEMMA ConnectedType ==
  ASSUME NEW of \in Seq(Asked)
  PROVE  Connected(of) \in Seq(Handler) /\ Len(Connected(of)) = Len(of)
<1>1. Len(of) \in Nat /\ DOMAIN of = 1..Len(of) /\ \A i \in 1..Len(of) : of[i] \in Asked
  BY LenProperties, ElementOfSeq
<1>2. \A i \in 1..Len(of) : ForOne(of[i].func) \in Handler
  BY <1>1 DEF ForOne, Handler, Asked
<1> DEFINE V == Handler
           f == Connected(of)
           n == Len(of)
<1>3. f \in [1..n -> V]
  BY <1>1, <1>2 DEF Connected
<1>4. n \in Nat
  BY <1>1
<1> HIDE DEF V, f, n
<1>5. f \in Seq(V) /\ Len(f) = n
  BY <1>3, <1>4, ListIsSeq
<1>6. QED
  BY <1>5 DEF V, f, n

Requests(qs) == [i \in DOMAIN qs |-> [event |-> qs[i].event, of |-> qs[i].of]]
Saids(qs) == [i \in DOMAIN qs |-> [func |-> qs[i].func, of |-> qs[i].of]]

LEMMA AskedTypes ==
  ASSUME NEW qs \in Seq(Asked)
  PROVE  /\ Requests(qs) \in Seq(Request) /\ Len(Requests(qs)) = Len(qs)
         /\ Saids(qs) \in Seq(Told) /\ Len(Saids(qs)) = Len(qs)
         /\ SameEvents(Requests(qs), qs)
<1>1. Len(qs) \in Nat /\ DOMAIN qs = 1..Len(qs) /\ \A i \in 1..Len(qs) : qs[i] \in Asked
  BY LenProperties, ElementOfSeq
<1> DEFINE n == Len(qs)
           r == Requests(qs)
           s == Saids(qs)
<1>2. r \in [1..n -> Request] /\ \A i \in 1..n : r[i].event = qs[i].event
  BY <1>1 DEF Requests, Request, Asked
<1>3. s \in [1..n -> Told]
  BY <1>1 DEF Saids, Told, Asked
<1>4. n \in Nat
  BY <1>1
<1>5. SameEvents(r, qs) <=> Len(r) = n /\ \A i \in 1..n : r[i].event = qs[i].event
  BY DEF SameEvents
<1> HIDE DEF n, r, s
<1>6. r \in Seq(Request) /\ Len(r) = n
  BY <1>2, <1>4, ListIsSeq
<1>7. s \in Seq(Told) /\ Len(s) = n
  BY <1>3, <1>4, ListIsSeq
<1>8. QED
  BY <1>2, <1>5, <1>6, <1>7 DEF n, r, s

-----------------------------------------------------------------------------
(* The steps preserve it *)

(* Questions that are asked are what was said. *)
LEMMA AskPreserves ==
  ASSUME IInv, NEW qs \in Seq(Asked), Ask(qs, qs)
  PROVE  IInv'
<1>1. /\ handlers \in [Events -> Seq(Handler)]
      /\ c2s \in Seq(Request) /\ s2c \in Seq(Request) /\ asked \in Seq(Told)
      /\ Len(c2s) \in Nat /\ Len(s2c) \in Nat /\ Waiting \in Nat /\ Len(asked) \in Nat
  BY TypesAre DEF IInv
<1>2. /\ handlers' = [e \in DOMAIN handlers |-> Connected(AllOf(e, qs)) \o handlers[e]]
      /\ c2s' = c2s \o Requests(qs) /\ asked' = asked \o Saids(qs)
      /\ overlap' = (overlap \/ Waiting + Len(qs) > 1)
      /\ s2c' = s2c /\ shown' = shown
  BY DEF Ask, Connected, Requests, Saids
<1>3. /\ Requests(qs) \in Seq(Request) /\ Len(Requests(qs)) = Len(qs)
      /\ Saids(qs) \in Seq(Told) /\ Len(Saids(qs)) = Len(qs)
      /\ SameEvents(Requests(qs), qs) /\ Len(qs) \in Nat
  BY AskedTypes, LenProperties
<1>4. \A e \in Events :
        /\ Connected(AllOf(e, qs)) \in Seq(Handler)
        /\ Len(Connected(AllOf(e, qs))) = Len(AllOf(e, qs))
        /\ Len(AllOf(e, qs)) \in Nat
  <2>1. \A e \in Events : AllOf(e, qs) \in Seq(Asked)
    BY AllOfType
  <2>2. QED
    BY <2>1, ConnectedType, LenProperties
<1>5. \A e \in Events :
        /\ handlers'[e] = Connected(AllOf(e, qs)) \o handlers[e]
        /\ handlers'[e] \in Seq(Handler)
        /\ Len(handlers'[e]) = Len(AllOf(e, qs)) + Len(handlers[e])
  <2>1. SUFFICES ASSUME NEW e \in Events
                 PROVE  /\ handlers'[e] = Connected(AllOf(e, qs)) \o handlers[e]
                        /\ handlers'[e] \in Seq(Handler)
                        /\ Len(handlers'[e]) = Len(AllOf(e, qs)) + Len(handlers[e])
    OBVIOUS
  <2>2. handlers'[e] = Connected(AllOf(e, qs)) \o handlers[e] /\ handlers[e] \in Seq(Handler)
    BY <1>1, <1>2
  <2>3. Connected(AllOf(e, qs)) \in Seq(Handler)
        /\ Len(Connected(AllOf(e, qs))) = Len(AllOf(e, qs))
    BY <1>4
  <2> DEFINE new == Connected(AllOf(e, qs))
             old == handlers[e]
  <2>4. new \in Seq(Handler) /\ old \in Seq(Handler)
    BY <2>2, <2>3
  <2> HIDE DEF new, old
  <2>5. new \o old \in Seq(Handler) /\ Len(new \o old) = Len(new) + Len(old)
    BY <2>4, ConcatProperties
  <2>6. QED
    BY <2>2, <2>3, <2>5 DEF new, old
<1>6. /\ c2s' \in Seq(Request) /\ Len(c2s') = Len(c2s) + Len(qs)
      /\ asked' \in Seq(Told) /\ Len(asked') = Len(asked) + Len(qs)
  <2> DEFINE r == Requests(qs)
             s == Saids(qs)
  <2>1. /\ c2s \in Seq(Request) /\ r \in Seq(Request) /\ Len(r) = Len(qs)
        /\ asked \in Seq(Told) /\ s \in Seq(Told) /\ Len(s) = Len(qs)
        /\ c2s' = c2s \o r /\ asked' = asked \o s
    BY <1>1, <1>2, <1>3
  <2> HIDE DEF r, s
  <2>2. c2s \o r \in Seq(Request) /\ Len(c2s \o r) = Len(c2s) + Len(r)
    BY <2>1, ConcatProperties
  <2>3. asked \o s \in Seq(Told) /\ Len(asked \o s) = Len(asked) + Len(s)
    BY <2>1, ConcatProperties
  <2>4. QED
    BY <2>1, <2>2, <2>3
<1>7. TypeOK'
  <2>1. handlers' \in [Events -> Seq(Handler)]
    <3> DEFINE V == Seq(Handler)
               f == [e \in Events |-> Connected(AllOf(e, qs)) \o handlers[e]]
    <3>1. DOMAIN handlers = Events
      BY <1>1
    <3>2. handlers' = f /\ f = [e \in Events |-> f[e]]
      BY <1>2, <3>1
    <3> HIDE DEF f
    <3>3. \A e \in Events : f[e] \in V
      BY <1>5, <3>2
    <3> HIDE DEF V
    <3>4. f \in [Events -> V]
      BY <3>2, <3>3
    <3>5. QED
      BY <3>2, <3>4 DEF V
  <2>2. overlap' \in BOOLEAN
    BY <1>2, Zenon DEF IInv, TypeOK
  <2>3. c2s' \in Seq(Request) /\ s2c' \in Seq(Request) /\ asked' \in Seq(Told)
        /\ shown' \in Seq([func : Funcs, of : Nick \cup Room \cup {Garbage}])
    <3>1. shown \in Seq([func : Funcs, of : Nick \cup Room \cup {Garbage}])
      BY DEF IInv, TypeOK
    <3>2. QED
      BY <1>1, <1>2, <1>6, <3>1
  <2>4. QED
    BY <2>1, <2>2, <2>3, Zenon DEF TypeOK, Handler, Request, Told
<1>8. HandlersAwaited'
  <2>1. SUFFICES ASSUME NEW e \in Events
                 PROVE  Len(handlers'[e]) <= WaitingFor(e)'
    BY DEF HandlersAwaited
  <2>2. Len(AllOf(e, c2s \o Requests(qs))) = Len(AllOf(e, c2s)) + Len(AllOf(e, qs))
    BY <1>1, <1>3, AllOfBehind
  <2>3. Len(handlers[e]) <= Len(AllOf(e, c2s)) + Len(AllOf(e, s2c))
    BY DEF IInv, HandlersAwaited, WaitingFor
  <2>4. /\ Len(AllOf(e, c2s)) \in Nat /\ Len(AllOf(e, s2c)) \in Nat
        /\ Len(handlers[e]) \in Nat /\ Len(AllOf(e, qs)) \in Nat
    BY <1>1, <1>4, AllOfLength, LenProperties
  <2>5. WaitingFor(e)' = (Len(AllOf(e, c2s)) + Len(AllOf(e, qs))) + Len(AllOf(e, s2c))
    BY <1>2, <2>2 DEF WaitingFor
  <2>6. QED
    BY <1>5, <2>3, <2>4, <2>5
<1>9. ASSUME ~overlap'
      PROVE  Alone'
  <2>1. ~overlap /\ Waiting + Len(qs) <= 1
    <3>1. ~overlap /\ ~(Waiting + Len(qs) > 1)
      BY <1>2, <1>9, Zenon
    <3>2. QED
      BY <1>1, <1>3, <3>1
  <2>2. Alone
    BY <2>1 DEF IInv
  <2>3. Waiting' = Waiting + Len(qs)
    BY <1>1, <1>2, <1>3, <1>6 DEF Waiting
  <2>4. CASE Len(qs) = 0
    <3>1. qs = <<>> /\ Requests(qs) = <<>> /\ Saids(qs) = <<>>
      BY <1>3, <2>4, EmptySeq
    <3>2. c2s' = c2s /\ asked' = asked
      BY <1>1, <1>2, <3>1, ConcatEmptySeq
    <3>3. \A e \in Events : handlers'[e] = handlers[e]
      <4>1. SUFFICES ASSUME NEW e \in Events
                     PROVE  handlers'[e] = handlers[e]
        OBVIOUS
      <4>2. Len(Connected(AllOf(e, qs))) = 0
        BY <1>4, <3>1, AllOfEmpty, EmptySeq
      <4>3. Connected(AllOf(e, qs)) = <<>>
        BY <1>4, <4>2, EmptySeq
      <4>4. handlers[e] \in Seq(Handler)
        BY <1>1
      <4>5. QED
        BY <1>5, <4>3, <4>4, ConcatEmptySeq
    <3>4. Waiting' = Waiting
      BY <1>1, <2>3, <2>4
    <3>5. \A q \in Request : c2s = <<q>> \/ s2c = <<q>> => TheOneAsked(q)'
      <4>1. \A q \in Request : q.event \in Events
        BY DEF Request
      <4>2. QED
        BY <2>2, <3>2, <3>3, <4>1 DEF Alone, TheOneAsked
    <3>6. QED
      BY <1>2, <2>2, <3>2, <3>4, <3>5 DEF Alone
  <2>5. CASE Len(qs) = 1
    <3> DEFINE x == qs[1]
               r == [event |-> x.event, of |-> x.of]
               t == [func |-> x.func, of |-> x.of]
    <3>1. Waiting = 0
      BY <1>1, <2>1, <2>5
    <3>2. c2s = <<>> /\ s2c = <<>> /\ \A e \in Events : handlers[e] = <<>>
      BY <3>1, NobodyConnected
    <3>3. x \in Asked /\ qs = <<x>> /\ DOMAIN qs = {1}
      <4>1. DOMAIN qs = 1..1
        BY <2>5, LenProperties
      <4>2. QED
        BY <2>5, <4>1, ElementOfSeq
    <3>4. Requests(qs) = <<r>> /\ Saids(qs) = <<t>>
      BY <3>3 DEF Requests, Saids
    <3>5. r \in Request /\ t \in Told /\ r.event \in Events
      BY <3>3 DEF Asked, Request, Told
    <3> HIDE DEF x
    <3>6. c2s' = <<r>>
      BY <1>2, <1>3, <3>2, <3>4, ConcatEmptySeq
    <3>7. asked' = Append(asked, t)
      BY <1>1, <1>2, <3>4, <3>5, AppendIsConcat
    <3>8. handlers'[r.event] = <<ForOne(x.func)>>
      <4>1. AllOf(r.event, qs) = <<x>>
        <5>1. AllOf(r.event, <<x>>) = IfOf(r.event, x)
          BY <3>3, AllOfOne
        <5>2. IfOf(r.event, x) = <<x>>
          BY DEF IfOf
        <5>3. QED
          BY <3>3, <5>1, <5>2
      <4>2. Connected(<<x>>) = <<ForOne(x.func)>>
        BY DEF Connected
      <4>3. Connected(AllOf(r.event, qs)) \in Seq(Handler)
        BY <1>4, <3>5
      <4>4. QED
        BY <1>5, <3>2, <3>5, <4>1, <4>2, <4>3, ConcatEmptySeq
    <3>9. /\ Len(asked') = Len(asked) + 1 /\ asked'[Len(asked) + 1] = t
          /\ \A i \in 1..Len(asked) : asked'[i] = asked[i]
      BY <1>1, <3>5, <3>7, AppendProperties
    <3>10. SubSeq(asked', 1, Len(asked)) = asked
      <4>1. Len(asked) \in 0..Len(asked')
        BY <1>1, <3>9
      <4>2. /\ SubSeq(asked', 1, Len(asked)) \in Seq(Told)
            /\ Len(SubSeq(asked', 1, Len(asked))) = Len(asked)
            /\ \A i \in 1..Len(asked) : SubSeq(asked', 1, Len(asked))[i] = asked'[i]
        BY <1>6, <4>1, PrefixProperties
      <4>3. \A i \in 1..Len(asked) : SubSeq(asked', 1, Len(asked))[i] = asked[i]
        BY <3>9, <4>2
      <4>4. QED
        BY <1>1, <4>2, <4>3, SeqEqual
    <3>11. shown = asked
      <4>1. Len(asked) - Waiting = Len(asked)
        BY <1>1, <3>1
      <4>2. SubSeq(asked, 1, Len(asked)) = asked
        BY <1>1, AllOfItself
      <4>3. QED
        BY <2>2, <4>1, <4>2 DEF Alone
    <3>12. Waiting' = 1 /\ Len(asked') - Waiting' = Len(asked) /\ Waiting' <= Len(asked')
      BY <1>1, <2>3, <2>5, <3>1, <3>9
    <3>13. shown' = SubSeq(asked', 1, Len(asked') - Waiting')
      BY <1>2, <3>10, <3>11, <3>12
    <3>14. ASSUME NEW q \in Request, c2s' = <<q>> \/ s2c' = <<q>>
           PROVE  TheOneAsked(q)'
      <4>1. q = r
        BY <1>2, <3>2, <3>6, <3>14
      <4>2. asked'[Len(asked')] = t /\ asked' # <<>>
        BY <3>7, <3>9
      <4>3. t.func = x.func /\ t.of = x.of /\ r.of = x.of
        OBVIOUS
      <4> HIDE DEF r, t
      <4>4. QED
        BY <3>8, <4>1, <4>2, <4>3 DEF TheOneAsked
    <3>15. QED
      BY <3>12, <3>13, <3>14 DEF Alone
  <2>6. Len(qs) = 0 \/ Len(qs) = 1
    BY <1>1, <1>3, <2>1
  <2>7. QED
    BY <2>4, <2>5, <2>6
<1>10. QED
  BY <1>7, <1>8, <1>9 DEF IInv

LEMMA ServerAnswerPreserves ==
  ASSUME IInv, ServerAnswer
  PROVE  IInv'
<1>1. /\ handlers \in [Events -> Seq(Handler)]
      /\ c2s \in Seq(Request) /\ s2c \in Seq(Request) /\ asked \in Seq(Told)
      /\ Len(c2s) \in Nat /\ Len(s2c) \in Nat /\ Waiting \in Nat /\ Len(asked) \in Nat
  BY TypesAre DEF IInv
<1>2. /\ c2s # <<>> /\ s2c' = Append(s2c, Head(c2s)) /\ c2s' = Tail(c2s)
      /\ handlers' = handlers /\ asked' = asked /\ shown' = shown /\ overlap' = overlap
  BY DEF ServerAnswer
<1>3. /\ Head(c2s) \in Request /\ Head(c2s) = c2s[1]
      /\ Tail(c2s) \in Seq(Request) /\ Len(Tail(c2s)) = Len(c2s) - 1
  BY <1>1, <1>2, HeadTailProperties
<1>4. /\ s2c' \in Seq(Request) /\ Len(s2c') = Len(s2c) + 1 /\ s2c'[Len(s2c) + 1] = Head(c2s)
  BY <1>1, <1>2, <1>3, AppendProperties
<1>5. TypeOK'
  BY <1>2, <1>3, <1>4 DEF IInv, TypeOK, Request
<1>6. HandlersAwaited'
  <2>1. SUFFICES ASSUME NEW e \in Events
                 PROVE  Len(handlers'[e]) <= WaitingFor(e)'
    BY DEF HandlersAwaited
  <2>2. Len(AllOf(e, c2s)) = Len(IfOf(e, Head(c2s))) + Len(AllOf(e, Tail(c2s)))
    BY <1>1, <1>2, AllOfLess
  <2>3. Len(AllOf(e, Append(s2c, Head(c2s)))) = Len(AllOf(e, s2c)) + Len(IfOf(e, Head(c2s)))
    BY <1>1, <1>3, AllOfMore
  <2>4. /\ Len(AllOf(e, s2c)) \in Nat /\ Len(AllOf(e, Tail(c2s))) \in Nat
        /\ Len(IfOf(e, Head(c2s))) \in Nat
    <3>1. Len(AllOf(e, s2c)) \in Nat
      BY <1>1, AllOfLength
    <3>2. Len(AllOf(e, Tail(c2s))) \in Nat
      BY <1>3, AllOfLength
    <3>3. Len(IfOf(e, Head(c2s))) \in Nat
      BY IfOfLength
    <3>4. QED
      BY <3>1, <3>2, <3>3
  <2>5. WaitingFor(e)' = WaitingFor(e)
    <3>1. WaitingFor(e) = Len(AllOf(e, c2s)) + Len(AllOf(e, s2c))
      BY DEF WaitingFor
    <3>2. WaitingFor(e)' = Len(AllOf(e, Tail(c2s))) + Len(AllOf(e, Append(s2c, Head(c2s))))
      BY <1>2 DEF WaitingFor
    <3>3. QED
      BY <2>2, <2>3, <2>4, <3>1, <3>2
  <2>6. QED
    BY <1>2, <2>5 DEF IInv, HandlersAwaited
<1>7. ASSUME ~overlap'
      PROVE  Alone'
  <2>1. Alone
    BY <1>2, <1>7 DEF IInv
  <2>2. Waiting' = Waiting
    BY <1>1, <1>2, <1>3, <1>4 DEF Waiting
  <2>3. Len(c2s) = 1 /\ Len(s2c) = 0
    <3>1. Len(c2s) # 0
      BY <1>1, <1>2, EmptySeq
    <3>2. Len(c2s) + Len(s2c) <= 1
      BY <2>1 DEF Alone, Waiting
    <3>3. Len(c2s) \in Nat /\ Len(s2c) \in Nat
      BY <1>1
    <3>4. QED
      BY <3>1, <3>2, <3>3
  <2>4. c2s = <<Head(c2s)>>
    BY <1>1, <1>3, <2>3
  <2>5. TheOneAsked(Head(c2s))
    BY <1>3, <2>1, <2>4 DEF Alone
  <2>6. ASSUME NEW q \in Request, c2s' = <<q>> \/ s2c' = <<q>>
        PROVE  TheOneAsked(q)'
    <3>1. c2s' # <<q>>
      <4>1. Len(c2s') = 0
        BY <1>2, <1>3, <2>3
      <4>2. QED
        BY <4>1
    <3>2. s2c' = <<q>>
      BY <2>6, <3>1
    <3>3. q = Head(c2s)
      BY <1>4, <2>3, <3>2
    <3>4. TheOneAsked(q)
      BY <2>5, <3>3
    <3>5. QED
      BY <1>2, <3>4 DEF TheOneAsked
  <2>7. QED
    BY <1>2, <2>1, <2>2, <2>6 DEF Alone
<1>8. QED
  BY <1>5, <1>6, <1>7 DEF IInv

(* All callbacks fire for the last time. *)
LEMMA NobodyRemains ==
  ASSUME NEW hdls \in Seq(Handler)
  PROVE  Remaining(hdls) = <<>>
<1> DEFINE V == Seq({})
           all == [i \in DOMAIN hdls |-> Lasting(hdls[i])]
           n == Len(hdls)
<1>1. n \in Nat /\ DOMAIN hdls = 1..n /\ \A i \in 1..n : hdls[i] \in Handler
  BY LenProperties, ElementOfSeq
<1>2. \A h \in Handler : Lasting(h) = <<>>
  BY DEF Lasting, Handler
<1>3. <<>> \in V
  BY EmptySeq
<1>4. all \in [1..n -> V]
  BY <1>1, <1>2, <1>3
<1>5. all \in Seq(V)
  <2> HIDE DEF V, n, all
  <2>1. QED
    BY <1>1, <1>4, ListIsSeq
<1> HIDE DEF all
<1>6. FlattenSeq(all) \in Seq({})
  BY <1>5, FlattenType
<1>7. FlattenSeq(all) = <<>>
  <2>1. Len(FlattenSeq(all)) = 0
    <3>1. Len(FlattenSeq(all)) \in Nat
      BY <1>6, LenProperties
    <3>2. \A i \in 1..Len(FlattenSeq(all)) : FALSE
      BY <1>6, ElementOfSeq
    <3>3. QED
      BY <3>1, <3>2
  <2>2. QED
    BY <1>6, <2>1, EmptySeq
<1>8. QED
  BY <1>7 DEF Remaining, all

(* What callbacks tell the IRC client. *)
LEMMA ToldType ==
  ASSUME NEW hdls \in Seq(Handler), NEW of \in Nick \cup Room, NEW kept \in BOOLEAN
  PROVE  [i \in DOMAIN hdls |->
            [func |-> hdls[i].func, of |-> IF i = 1 \/ kept THEN of ELSE Garbage]]
           \in Seq([func : Funcs, of : Nick \cup Room \cup {Garbage}])
<1> DEFINE n == Len(hdls)
           V == [func : Funcs, of : Nick \cup Room \cup {Garbage}]
           f == [i \in DOMAIN hdls |->
                   [func |-> hdls[i].func, of |-> IF i = 1 \/ kept THEN of ELSE Garbage]]
<1>1. n \in Nat /\ DOMAIN hdls = 1..n /\ \A i \in 1..n : hdls[i].func \in Funcs
  <2>1. n \in Nat /\ DOMAIN hdls = 1..n
    BY LenProperties
  <2>2. \A i \in 1..n : hdls[i] \in Handler
    BY ElementOfSeq
  <2>3. \A h \in Handler : h.func \in Funcs
    BY DEF Handler
  <2>4. QED
    BY <2>1, <2>2, <2>3
<1>2. \A i \in 1..n : (IF i = 1 \/ kept THEN of ELSE Garbage) \in Nick \cup Room \cup {Garbage}
  OBVIOUS
<1>3. f \in [1..n -> V]
  BY <1>1, <1>2
<1>4. f \in Seq(V)
  <2> HIDE DEF f, V, n
  <2>1. QED
    BY <1>1, <1>3, ListIsSeq
<1>5. QED
  BY <1>4

LEMMA RecvAnswerPreserves ==
  ASSUME IInv, RecvAnswer
  PROVE  IInv'
<1> DEFINE q == Head(s2c)
           fired == handlers[q.event]
<1>1. /\ handlers \in [Events -> Seq(Handler)]
      /\ c2s \in Seq(Request) /\ s2c \in Seq(Request) /\ asked \in Seq(Told)
      /\ Len(c2s) \in Nat /\ Len(s2c) \in Nat /\ Waiting \in Nat /\ Len(asked) \in Nat
  BY TypesAre DEF IInv
<1>2. /\ s2c # <<>> /\ s2c' = Tail(s2c)
      /\ c2s' = c2s /\ asked' = asked /\ overlap' = overlap
      /\ handlers' = [handlers EXCEPT ![q.event] = Remaining(fired)]
  BY DEF RecvAnswer, Emit
<1>3. PICK kept \in BOOLEAN :
        shown' = shown \o [i \in DOMAIN fired |->
                   [func |-> fired[i].func, of |-> IF i = 1 \/ kept THEN q.of ELSE Garbage]]
  BY DEF RecvAnswer, Emit
<1>4. /\ q \in Request /\ q = s2c[1]
      /\ Tail(s2c) \in Seq(Request) /\ Len(Tail(s2c)) = Len(s2c) - 1
  BY <1>1, <1>2, HeadTailProperties
<1> HIDE DEF q
<1>5. q.event \in Events /\ q.of \in Nick \cup Room
  BY <1>4 DEF Request
<1>6. fired \in Seq(Handler) /\ Remaining(fired) = <<>>
  BY <1>1, <1>5, NobodyRemains
<1>7. /\ handlers'[q.event] = <<>>
      /\ \A e \in Events : e # q.event => handlers'[e] = handlers[e]
  BY <1>1, <1>2, <1>5, <1>6
<1>8. TypeOK'
  <2>1. handlers' \in [Events -> Seq(Handler)]
    <3>1. <<>> \in Seq(Handler)
      BY EmptySeq
    <3>2. QED
      BY <1>1, <1>2, <1>5, <1>6, <3>1
  <2>2. shown' \in Seq([func : Funcs, of : Nick \cup Room \cup {Garbage}])
    <3> DEFINE V == [func : Funcs, of : Nick \cup Room \cup {Garbage}]
               new == [i \in DOMAIN fired |->
                         [func |-> fired[i].func, of |-> IF i = 1 \/ kept THEN q.of ELSE Garbage]]
    <3>1. shown \in Seq(V)
      BY DEF IInv, TypeOK
    <3>2. new \in Seq(V)
      BY <1>5, <1>6, ToldType
    <3>3. shown' = shown \o new
      BY <1>3
    <3> HIDE DEF V, new
    <3>4. shown' \in Seq(V)
      BY <3>1, <3>2, <3>3, ConcatProperties
    <3>5. QED
      BY <3>4 DEF V
  <2>3. c2s' \in Seq(Request) /\ s2c' \in Seq(Request) /\ asked' \in Seq(Told)
    BY <1>1, <1>2, <1>4
  <2>4. overlap' \in BOOLEAN
    BY <1>2 DEF IInv, TypeOK
  <2>5. QED
    BY <2>1, <2>2, <2>3, <2>4, Zenon DEF TypeOK, Handler, Request, Told
<1>9. HandlersAwaited'
  <2>1. SUFFICES ASSUME NEW e \in Events
                 PROVE  Len(handlers'[e]) <= WaitingFor(e)'
    BY DEF HandlersAwaited
  <2>2. Len(AllOf(e, s2c)) = Len(IfOf(e, q)) + Len(AllOf(e, Tail(s2c)))
    BY <1>1, <1>2, AllOfLess DEF q
  <2>3. Len(AllOf(e, c2s)) \in Nat /\ Len(AllOf(e, Tail(s2c))) \in Nat
    BY <1>1, <1>4, AllOfLength
  <2>4. WaitingFor(e)' = Len(AllOf(e, c2s)) + Len(AllOf(e, Tail(s2c)))
    BY <1>2 DEF WaitingFor
  <2>5. CASE e = q.event
    <3>1. Len(handlers'[e]) = 0
      BY <1>7, <2>5, EmptySeq
    <3>2. QED
      BY <2>3, <2>4, <3>1
  <2>6. CASE e # q.event
    <3>1. Len(IfOf(e, q)) = 0
      BY <2>6, IfOfLength
    <3>2. WaitingFor(e)' = WaitingFor(e)
      BY <2>2, <2>3, <2>4, <3>1 DEF WaitingFor
    <3>3. handlers'[e] = handlers[e]
      BY <1>7, <2>6
    <3>4. QED
      BY <3>2, <3>3 DEF IInv, HandlersAwaited
  <2>7. QED
    BY <2>5, <2>6
<1>10. ASSUME ~overlap'
       PROVE  Alone'
  <2>1. Alone
    BY <1>2, <1>10 DEF IInv
  <2>2. Len(s2c) = 1 /\ Len(c2s) = 0
    <3>1. Len(s2c) # 0
      BY <1>1, <1>2, EmptySeq
    <3>2. Len(c2s) + Len(s2c) <= 1
      BY <2>1 DEF Alone, Waiting
    <3>3. Len(c2s) \in Nat /\ Len(s2c) \in Nat
      BY <1>1
    <3>4. \A m, n \in Nat : m + n <= 1 /\ n # 0 => n = 1 /\ m = 0
      OBVIOUS
    <3>5. QED
      BY <3>1, <3>2, <3>3, <3>4
  <2>3. s2c = <<q>>
    BY <1>1, <1>4, <2>2
  <2>4. TheOneAsked(q)
    BY <1>4, <2>1, <2>3 DEF Alone
  <2>5. Waiting = 1 /\ Waiting' = 0
    BY <1>1, <1>2, <1>4, <2>2 DEF Waiting
  <2> DEFINE n == Len(asked)
             t == asked[n]
  <2>6. n \in Nat /\ n # 0
    BY <1>1, <2>1, <2>5 DEF Alone
  <2>7. t \in Told /\ t.of = q.of /\ fired = <<ForOne(t.func)>>
    <3>1. n \in 1..Len(asked)
      BY <2>6
    <3>2. QED
      BY <1>1, <2>4, <3>1, ElementOfSeq DEF TheOneAsked
  <2>8. shown' = shown \o <<t>>
    <3>1. DOMAIN fired = {1} /\ fired[1].func = t.func
      BY <2>7 DEF ForOne
    <3>2. t = [func |-> t.func, of |-> t.of]
      BY <2>7 DEF Told
    <3> HIDE DEF fired, t
    <3>3. [i \in DOMAIN fired |->
             [func |-> fired[i].func, of |-> IF i = 1 \/ kept THEN q.of ELSE Garbage]]
            = <<[func |-> t.func, of |-> t.of]>>
      BY <2>7, <3>1
    <3>4. QED
      BY <1>3, <3>2, <3>3
  <2>9. shown = SubSeq(asked, 1, n - 1)
    BY <2>1, <2>5 DEF Alone
  <2>10. shown' = asked
    <3>1. 0 \in Nat /\ n - 1 \in Nat /\ 0 + (n - 1) + 1 <= Len(asked) /\ 0 + 1 = 1
          /\ 0 + (n - 1) = n - 1 /\ 0 + ((n - 1) + 1) = n /\ 0 + (n - 1) + 1 = n
      BY <2>6
    <3>2. SubSeq(asked, 0 + 1, 0 + ((n - 1) + 1))
            = Append(SubSeq(asked, 0 + 1, 0 + (n - 1)), asked[0 + (n - 1) + 1])
      BY <1>1, <3>1, SliceGrows
    <3>3. SubSeq(asked, 1, n) = Append(shown, t)
      BY <2>9, <3>1, <3>2
    <3>4. SubSeq(asked, 1, n) = asked
      BY <1>1, AllOfItself
    <3>5. shown \in Seq(Told)
      <4>1. n - 1 \in 0..Len(asked)
        BY <2>6
      <4>2. SubSeq(asked, 1, n - 1) \in Seq(Told)
        BY <1>1, <4>1, PrefixProperties
      <4>3. QED
        BY <2>9, <4>2
    <3> HIDE DEF t
    <3>6. Append(shown, t) = shown \o <<t>>
      BY <2>7, <3>5, AppendIsConcat
    <3>7. QED
      BY <2>8, <3>3, <3>4, <3>6
  <2>11. shown' = SubSeq(asked', 1, Len(asked') - Waiting')
    <3>1. Len(asked') - Waiting' = Len(asked)
      BY <1>1, <1>2, <2>5
    <3>2. SubSeq(asked, 1, Len(asked)) = asked
      BY <1>1, AllOfItself
    <3>3. QED
      BY <1>2, <2>10, <3>1, <3>2
  <2>12. \A p \in Request : c2s' # <<p>> /\ s2c' # <<p>>
    <3>1. Len(c2s') = 0 /\ Len(s2c') = 0
      BY <1>2, <1>4, <2>2
    <3>2. QED
      BY <3>1
  <2>13. Waiting' <= 1 /\ Waiting' <= Len(asked')
    BY <1>1, <1>2, <2>5
  <2>14. QED
    BY <2>11, <2>12, <2>13 DEF Alone
<1>11. QED
  BY <1>8, <1>9, <1>10 DEF IInv

(* What a command asks is what was said. *)
LEMMA CommandAsks ==
  ASSUME AnswersAssumption, NEW cmd, NEW l \in Command(cmd)
  PROVE  l.qs = l.said /\ l.qs \in Seq(Asked)
<1>1. PICK x \in Lines :
        /\ Words(x) # <<>>
        /\ l = [qs |-> Questions(cmd, Tail(Args(x))), said |-> Questions(cmd, Tail(Words(x)))]
  BY DEF Command
<1>2. x \in Seq(STRING) /\ Range(Tail(Words(x))) \subseteq Nick \cup Room
  BY DEF AnswersAssumption
<1>3. Args(x) = Words(x)
  BY <1>2, ArgsAreWords
<1> DEFINE ws == Tail(Words(x))
           n  == Len(ws)
<1>4. ws \in Seq(Nick \cup Room)
  <2> DEFINE V == {Words(x)[k] : k \in 1..Cardinality(Starts(x))}
             w == Words(x)
             m == Cardinality(Starts(x))
  <2>1. m \in Nat
    <3>1. PICK k \in Nat : DOMAIN x = 1..k
      BY <1>2, LenProperties
    <3>2. IsFiniteSet(1..k)
      BY <3>1, FS_Interval
    <3>3. Starts(x) \subseteq 1..k
      BY <3>1 DEF Starts
    <3>4. IsFiniteSet(Starts(x))
      BY <3>2, <3>3, FS_Subset
    <3>5. QED
      BY <3>4, FS_CardinalityType
  <2>2. w = [k \in 1..m |-> w[k]]
    BY DEF Words
  <2>3. \A k \in 1..m : w[k] \in V
    OBVIOUS
  <2> HIDE DEF V, w, m
  <2>4. w \in [1..m -> V]
    BY <2>2, <2>3
  <2>5. w \in Seq(V) /\ w # <<>>
    BY <1>1, <2>1, <2>4, ListIsSeq DEF w
  <2>6. Tail(w) \in Seq(V)
    BY <2>5, HeadTailProperties
  <2>7. PICK k \in Nat : k = Len(Tail(w)) /\ DOMAIN Tail(w) = 1..k /\ Tail(w) \in [1..k -> V]
    BY <2>6, LenProperties
  <2>8. \A i \in 1..k : Tail(w)[i] \in Range(Tail(w))
    BY <2>7 DEF Range
  <2> DEFINE NR == Nick \cup Room
  <2>9. \A i \in 1..k : Tail(w)[i] \in NR
    BY <1>2, <2>8 DEF w
  <2> HIDE DEF NR
  <2>10. Tail(w) \in [1..k -> NR]
    BY <2>7, <2>9
  <2>11. Tail(w) \in Seq(NR)
    BY <2>10, ListIsSeq
  <2>12. QED
    BY <2>11 DEF w, NR
<1>5. n \in Nat /\ DOMAIN ws = 1..n /\ \A i \in 1..n : ws[i] \in Nick \cup Room
  BY <1>4, LenProperties, ElementOfSeq
<1> HIDE DEF ws, n
<1>6. \A w \in Nick \cup Room : Question(cmd, w) \in Asked
  BY DEF Question, Asked, Events, Funcs
<1>7. Questions(cmd, ws) \in [1..n -> Asked]
  BY <1>5, <1>6 DEF Questions
<1>8. Questions(cmd, ws) \in Seq(Asked)
  BY <1>5, <1>7, ListIsSeq
<1>9. QED
  BY <1>1, <1>3, <1>8 DEF ws

LEMMA StepHolds ==
  ASSUME AnswersAssumption, IInv, [Next]_vars
  PROVE  IInv'
<1>1. CASE Whois
  BY <1>1, CommandAsks, AskPreserves DEF Whois, WhoisLines
<1>2. CASE Userinfo
  BY <1>2, CommandAsks, AskPreserves DEF Userinfo, UserinfoLines
<1>3. CASE Entered
  <2>1. PICK r \in Room :
          Ask(<<[event |-> RoomInfo, func |-> "irc_out_roomtopic", of |-> r]>>,
              <<[event |-> RoomInfo, func |-> "irc_out_roomtopic", of |-> r]>>)
    BY <1>3 DEF Entered
  <2> DEFINE q == [event |-> RoomInfo, func |-> "irc_out_roomtopic", of |-> r]
             qs == <<q>>
  <2>2. q \in Asked
    BY DEF Asked, Events, Funcs
  <2>3. Ask(qs, qs)
    BY <2>1
  <2> HIDE DEF q
  <2>4. qs \in Seq(Asked)
    BY <2>2
  <2> HIDE DEF qs
  <2>5. QED
    BY <2>3, <2>4, AskPreserves
<1>4. CASE ServerAnswer
  BY <1>4, ServerAnswerPreserves
<1>5. CASE RecvAnswer
  BY <1>5, RecvAnswerPreserves
<1>6. CASE Done \/ UNCHANGED vars
  <2>1. /\ handlers' = handlers /\ c2s' = c2s /\ s2c' = s2c
        /\ asked' = asked /\ shown' = shown /\ overlap' = overlap
    BY <1>6 DEF Done, vars
  <2>2. TypeOK'
    BY <2>1 DEF IInv, TypeOK
  <2>3. HandlersAwaited'
    BY <2>1 DEF IInv, HandlersAwaited, WaitingFor
  <2>4. ~overlap' => Alone'
    BY <2>1 DEF IInv, Alone, Waiting, TheOneAsked
  <2>5. QED
    BY <2>2, <2>3, <2>4 DEF IInv
<1>7. QED
  BY <1>1, <1>2, <1>3, <1>4, <1>5, <1>6 DEF Next

LEMMA IInvAlways == Spec => []IInv
<1> USE AnswersAssumption
<1>1. Init => IInv
  BY InitHolds
<1>2. IInv /\ [Next]_vars => IInv'
  BY StepHolds
<1>3. QED
  BY <1>1, <1>2, PTL DEF Spec

-----------------------------------------------------------------------------
(* The properties *)

(* Whatever is asked and answered, every variable has its type; a callback *)
(* that is connected has one emission left.                                *)
THEOREM AnswersTyped == Spec => []TypeOK
<1>1. IInv => TypeOK
  BY DEF IInv
<1>2. QED
  BY <1>1, IInvAlways, PTL

(* However many questions wait, no callback of signals.c is left over for  *)
(* whom no answer comes.                                                   *)
THEOREM HandlersAreAwaited == Spec => []HandlersAwaited
<1>1. IInv => HandlersAwaited
  BY DEF IInv
<1>2. QED
  BY <1>1, IInvAlways, PTL

(* Until two questions wait at a time, whoever asks with WHOIS or profilo  *)
(* is shown every answer once, in order, and by the callback that asked.   *)
THEOREM AnsweredWhenAlone == Spec => []AnsweredOneByOne
<1>1. IInv => AnsweredOneByOne
  BY DEF IInv, Alone, AnsweredOneByOne, AnsweredAsAsked
<1>2. QED
  BY <1>1, IInvAlways, PTL

=============================================================================
