------------------------------- MODULE Packets -------------------------------
(***************************************************************************)
(* The packets of C6 as c6/client.c builds them and as the handlers of     *)
(* c6/server.c take them apart.  A packet is built group by group, one     *)
(* call of buf_new_pack or buf_append_pack each; c6_send completes it with *)
(* its lengths, encodes it and puts the outer head before it.  The other   *)
(* side gets all of it or, if its peer counted wrong, the beginning, and   *)
(* reads it group by group, one call of buf_unpack_data each, up to the    *)
(* call that refuses.                                                      *)
(*                                                                         *)
(* External: how the server builds what it sends (as the handlers read     *)
(* it) and reads what the client sends (as the client built it).  The      *)
(* nicks, rooms and texts are taken from Words; commands, sequence numbers *)
(* and constants are one byte value each.  Kind "edit" runs the edits of   *)
(* Buffer, whose callers are other programs.                               *)
(***************************************************************************)
EXTENDS PackCodec

CONSTANTS
    Words,      \* texts
    Names,      \* lists of texts
    Key,        \* the key of the server, eight bytes
    Style,      \* the style of messages, two bytes
    XorOf       \* the exclusive or of two bytes

ASSUME PacketsAssumption ==
    /\ Key \in [1..8 -> Byte]
    /\ Words \subseteq Seq(Byte)
    /\ Names \subseteq Seq(Words)
    /\ Style \in [1..2 -> Byte]
    /\ XorOf \in [Byte \X Byte -> Byte]
    /\ \A a, b \in Byte : XorOf[<<XorOf[<<a, b>>], b>>] = a

VARIABLES
    packet,     \* [kind, groups: the fields each call packs]
    made,       \* how many groups were packed
    wire,       \* the bytes that reached the other side, behind the heads
    offs,       \* where its next read begins
    got,        \* the values each of its reads stored
    outcome     \* how far the packet has come, or how reading it ended

vars == <<buf, live, call, packet, made, wire, offs, got, outcome>>

Packet(kind, groups) == [kind |-> kind, groups |-> groups]

-----------------------------------------------------------------------------
(* What arrives: the handlers of c6/server.c that read what is in it.      *)
Helo == Packet("in", <<<<Zeroes, Lit(2), Lit(3), Raw(Key)>>>>)

Redir == Packet("in", <<<<Raw(<<1, 2, 3, 4>>), Skip(2), Num(2, Base + 1)>>>>)

ErrPkt == Packet("in", <<<<Num(2, 7)>>>>)

(* Banners, then buttons.                                                  *)
InfoLogin(bs, ps) ==
    Packet("in", <<<<Skip(4), Num(1, Len(bs))>>>>
                 \o [i \in DOMAIN bs |-> <<Str(1, bs[i]), Str(1, bs[i]), Str(1, bs[i])>>]
                 \o <<<<Skip(2), Num(1, Len(ps))>>>>
                 \o [i \in DOMAIN ps |-> <<Skip(1), Num(1, 2), Str(1, ps[i]), Str(1, ps[i])>>])

Wlcome(w) == Packet("in", <<<<Str(2, w)>>>>)

Message(a, b, w) == Packet("message", <<<<Str(1, a), Str(1, b), Data(2, Style \o w)>>>>)

(* Also cmd_foundemail.                                                    *)
SndUsers(ns) == Packet("in", <<<<Num(2, Len(ns))>>>> \o [i \in DOMAIN ns |-> <<Str(1, ns[i])>>])

StatusUser(a) == Packet("in", <<<<Str(1, a), Num(1, 1)>>>>)

UserChgStatus(a) == Packet("in", <<<<Str(1, a), Skip(9), Num(1, 4)>>>>)

UserInfo(a, ns) ==
    Packet("in", <<<<Str(1, a), Num(IntSize, 9), Raw(<<1, 2, 3, 4>>), Num(1, 4), Num(2, Len(ns))>>>>
                 \o [i \in DOMAIN ns |-> <<Num(1, i), Num(1, 2)>>])

RoomList(ns) ==
    Packet("in", <<<<Zeroes, Zeroes, Num(2, Len(ns))>>>>
                 \o [i \in DOMAIN ns |-> <<Str(1, ns[i]), Num(2, 5), Num(1, 3), Unread(2)>>])

RoomInfo(r, t, a) ==
    Packet("in", <<<<Str(1, r), Num(1, 1), Str(1, t), Str(1, a), Num(2, 5)>>>>)

RoomUserList(r, ns) ==
    Packet("in", <<<<Str(1, r), Skip(2), Num(1, Len(ns))>>>>
                 \o [i \in DOMAIN ns |-> <<Str(1, ns[i])>>])

RoomMsg(a, r, w) ==
    Packet("message", <<<<Str(1, a), Str(1, r), Str(1, a), Num(1, 0), Data(2, Style \o w)>>>>)

RoomUEnterOrLeave(a, r) == Packet("in", <<<<Str(1, a), Str(1, r)>>>>)

RoomIsFull(r) == Packet("in", <<<<Str(1, r), Skip(1)>>>>)

FoundNicks(ns) ==
    Packet("in", <<<<Num(2, Len(ns))>>>> \o [i \in DOMAIN ns |-> <<Str(1, ns[i]), Num(1, 1)>>])

Nicks(w) == Packet("in", <<<<Data(2, w)>>>>)

Arriving ==
    {Helo, Redir, ErrPkt}
    \cup (UNION {{Wlcome(a), StatusUser(a), UserChgStatus(a), RoomIsFull(a), Nicks(a)} : a \in Words})
    \cup (UNION {{RoomUEnterOrLeave(a, b), Message(a, a, b), RoomInfo(a, b, a),
                 RoomMsg(a, a, b)} : a \in Words, b \in Words})
    \cup (UNION {{SndUsers(ns), RoomList(ns), FoundNicks(ns)} : ns \in Names})
    \cup (UNION {{UserInfo(a, ns), RoomUserList(a, ns)} : a \in Words, ns \in Names})
    \cup {InfoLogin(bs, ps) : bs \in Names, ps \in Names}

-----------------------------------------------------------------------------
(* What is sent: the functions of c6/client.c, all behind the head, whose  *)
(* length is 0 until c6_send fills it in.                                  *)
HeadSize == 6

Head6(id) == <<Lit(1), Lit(2), Num(2, id), Num(2, 0)>>

Plain(fields) == Packet("out", <<fields>>)

Login(user) ==
    Plain(<<Str(1, user), Str(1, <<1, 2>>), Str(1, <<2, 1>>), Num(2, 3), Num(IntSize, 4), Zeroes, Lit(4)>>)

Pong == Plain(<< >>)

(* The length counts the style, whose two bytes precede the text.          *)
Msg(a, b, w) == Plain(<<Str(1, a), Zeroes, Lit(1), Str(1, b), Data(2, Style \o w)>>)

OfMsg(a, b, w) == Plain(<<Str(1, a), Zeroes, Lit(1), Str(1, b), Str(2, w)>>)

ReqDelUsers(ns) ==
    Packet("out", <<<<Num(2, Len(ns)), Str(1, ns[1])>>>>
                  \o [i \in 1..(Len(ns) - 1) |-> <<Str(1, ns[i + 1])>>])

SendStatus == Plain(<<Num(1, 4)>>)

ReqUserInfo(a) == Plain(<<Str(1, a)>>)

RoomLeaveEnter(a, r) == Plain(<<Str(1, a), Str(1, r)>>)

SendRoomMsg(a, r, w) == Plain(<<Str(1, a), Str(1, r), Data(2, Style \o w)>>)

CreateRoom(a, r, w) ==
    Plain(<<Str(1, a), Str(1, r), Str(1, w), Num(1, 1), Zeroes, Zeroes>>)

(* The pairs are packed first, behind a buffer of no bytes, and the whole  *)
(* then goes into the packet behind their count.                           *)
SearchNicks(n) ==
    Packet("search", <<<<Num(2, n)>>>> \o [i \in 1..n |-> <<Num(1, i), Num(1, 2)>>])

(* The answer to HELO: the text in a blob of whole blocks of eight.        *)
Blob(s) == [i \in 1..((Len(s) \div 8) + 1) * 8 |-> IF i <= Len(s) THEN s[i] ELSE 0]

SendUsername(user, pass) ==
    Plain(<<Str(1, <<1, 2>>), Data(2, Blob(user \o <<3>> \o pass)), Lit(2), Lit(4)>>)

Leaving ==
    {Pong, SendStatus}
    \cup (UNION {{Login(a), ReqUserInfo(a), SendUsername(a, <<1>>)} : a \in Words})
    \cup (UNION {{RoomLeaveEnter(a, b), Msg(a, a, b), OfMsg(a, a, b),
                 SendRoomMsg(a, a, b), CreateRoom(a, a, b)} : a \in Words, b \in Words})
    \cup {ReqDelUsers(ns) : ns \in Names \ {<< >>}}
    \cup {SearchNicks(n) : n \in 0..2}

-----------------------------------------------------------------------------
(* c6_packet_encode: the same for both directions, seven bytes of the key  *)
(* in the order OrderKey gives them, from the first one on again in every  *)
(* packet.                                                                 *)
ReorderedKey ==
    [i \in 0..7 |-> IF i = 0 THEN Key[1] ELSE Key[((i * (Key[6] % 7)) % 7) + 1]]

XorCode(s) == [i \in DOMAIN s |-> XorOf[<<s[i], ReorderedKey[(i - 1) % 7]>>]]

(* The bytes behind what was read that a handler steps over itself.        *)
SteppedOver(fields) ==
    IF fields # << >> /\ Last(fields).t = "tail" THEN Last(fields).w ELSE 0

Outgoing == packet.kind \in {"out", "search"}

Built == made = Len(packet.groups)

-----------------------------------------------------------------------------
SomeId == 3

PacketInit ==
    /\ Init
    /\ packet \in {Packet("edit", << >>)} \cup Arriving \cup Leaving
    /\ made = 0
    /\ wire = << >>
    /\ offs = 0
    /\ got = << >>
    /\ outcome = "build"

(* The edits of Buffer, and buf_insert_pack, which nobody calls.           *)
EditAlone ==
    /\ packet.kind = "edit"
    /\ \/ Edit
       \/ \E s \in Sources, pos \in Lengths : InsertPack(pos, <<Num(1, 1), Raw(s)>>)
    /\ UNCHANGED <<packet, made, wire, offs, got, outcome>>

Start ==
    /\ packet.kind # "edit"
    /\ made = 0
    /\ CASE packet.kind = "search" -> NewZeroed(0)
         [] packet.kind = "out"    -> NewPack(Head6(SomeId) \o packet.groups[1])
         [] OTHER                  -> NewPack(packet.groups[1])
    /\ made' = 1
    /\ UNCHANGED <<packet, wire, offs, got, outcome>>

More ==
    /\ made \in 1..(Len(packet.groups) - 1)
    /\ AppendPack(packet.groups[made + 1])
    /\ made' = made + 1
    /\ UNCHANGED <<packet, wire, offs, got, outcome>>

(* c6_search_nicks puts what it appended behind the count.                 *)
Wrap ==
    /\ packet.kind = "search"
    /\ Built
    /\ outcome = "build"
    /\ NewPack(Head6(SomeId) \o packet.groups[1] \o <<Rest(Text(buf))>>)
    /\ outcome' = "wrapped"
    /\ UNCHANGED <<packet, made, wire, offs, got>>

(* c6_send: the length of the payload into its head, an outer head with    *)
(* the whole size, and the payload behind it, encoded.                     *)
Completed(payload) ==
    LET n == Digits(Len(payload) - HeadSize, 2)
    IN  [payload EXCEPT ![5] = n[1], ![6] = n[2]]

Send ==
    LET payload == Completed(Text(buf))
        pkt     == NewOf(Packed(<<Lit(1), Lit(3), Num(2, SomeId), Num(2, Len(payload))>>))
        size    == pkt.size + Len(payload)
    IN  /\ Outgoing
        /\ Built
        /\ outcome = IF packet.kind = "search" THEN "wrapped" ELSE "build"
        /\ buf' = Buf(Copy(Resize(pkt.mem, size), pkt.size, XorCode(payload), 0, Len(payload)),
                      size)
        /\ UNCHANGED live
        /\ Called("new", Text(buf'), 0, 0, size)
        /\ outcome' = "sent"
        /\ UNCHANGED <<packet, made, wire, offs, got>>

(* The server takes the payload out by the sizes in the heads.             *)
Inner == XorCode(SubSeq(Text(buf), HeadSize + 1, Len(Text(buf))))

Deliver ==
    /\ outcome = "sent"
    /\ wire' = SubSeq(Inner, HeadSize + 1, Len(Inner))
    /\ outcome' = "read"
    /\ UNCHANGED <<bufVars, packet, made, offs, got>>

(* What the server sends may come inside an ENCODED packet, which          *)
(* cmd_encoded decodes before the handler sees it, and may be cut.         *)
Arrive ==
    /\ ~Outgoing
    /\ packet.kind # "edit"
    /\ Built
    /\ outcome = "build"
    /\ \E n \in 0..buf.size :
          LET part == SubSeq(Text(buf), 1, n)
          IN  \/ wire' = part
              \/ wire' = XorCode(XorCode(part))
    /\ outcome' = "read"
    /\ UNCHANGED <<bufVars, packet, made, offs, got>>

Read ==
    /\ outcome = "read"
    /\ LET fields == packet.groups[Len(got) + 1]
           r      == IF offs > Len(wire) THEN Stopped(Reader, "past")
                     ELSE Unpack(SubSeq(wire, offs + 1, Len(wire)), fields)
           last   == Len(got) + 1 = Len(packet.groups)
       IN  IF r.out = "ok"
             THEN /\ offs' = offs + r.offs + SteppedOver(fields)
                  /\ got' = Append(got, r.vals)
                  /\ outcome' = IF last THEN "done" ELSE "read"
             ELSE /\ outcome' = r.out
                  /\ UNCHANGED <<offs, got>>
    /\ UNCHANGED <<bufVars, packet, made, wire>>

(* cmd_message and cmd_roommsg refuse a text of its style alone and make   *)
(* room for a terminating zero, which buf_realloc writes.                  *)
Keep ==
    /\ packet.kind = "message"
    /\ outcome = "done"
    /\ LET tmpmsg == got[1][Len(got[1])]
           size   == Len(tmpmsg) + 1
       IN  IF Len(tmpmsg) <= 2
             THEN /\ outcome' = "refused"
                  /\ UNCHANGED bufVars
             ELSE /\ buf' = Buf(Resize(NewOf(tmpmsg).mem, size), size)
                  /\ Called("new", tmpmsg, 0, 0, size)
                  /\ outcome' = "kept"
                  /\ UNCHANGED live
    /\ UNCHANGED <<packet, made, wire, offs, got>>

Stop ==
    /\ \/ outcome \in {"refused", "past", "kept"}
       \/ outcome = "done" /\ packet.kind # "message"
    /\ UNCHANGED vars

Next ==
    \/ EditAlone
    \/ Start \/ More \/ Wrap \/ Send
    \/ Deliver \/ Arrive
    \/ Read \/ Keep
    \/ Stop

Spec == PacketInit /\ [][Next]_vars

-----------------------------------------------------------------------------
TypeOK ==
    /\ BufferOK
    /\ made \in 0..Len(packet.groups)
    /\ wire \in Seq(Byte)
    /\ offs \in Nat
    /\ Len(got) <= Len(packet.groups)
    /\ outcome \in {"build", "wrapped", "sent", "read", "done", "refused", "past", "kept"}

(* What is said of a field is what is read of it.                          *)
Said(fields) ==
    Flat([i \in DOMAIN fields |->
            IF fields[i].t \in {"num", "str", "data", "raw"} THEN <<fields[i].v>> ELSE << >>])

(* A counted text survives only if its count does: it is neither empty nor *)
(* as long as a byte has values, nor cut short by a zero in it.  A number, *)
(* too, must be one its bytes can say.                                     *)
Countable(f) ==
    /\ f.t = "num"  => f.v[1] < Values[f.w]
    /\ f.t = "str"  => Len(f.v) \in 1..(Values[f.w] - 1) /\ UpToZero(f.v) = 0
    /\ f.t = "data" => Len(f.v) < Values[f.w]

AllCountable == \A g \in Range(packet.groups) : \A f \in Range(g) : Countable(f)

Whole == Outgoing \/ wire = Text(buf)

(* Whatever reads a packet call by call gets, value for value and in       *)
(* order, what was put into it field by field, all of it if nothing was    *)
(* cut, and message texts end where they ended at the other side: the      *)
(* counts, the lists built and read in loops and the coding agree, for     *)
(* texts whose length their count can say; and for any text the two        *)
(* lengths c6_send fills in are those of the parts, as far as two bytes    *)
(* can say them.                                                           *)
FieldsSurvive ==
    /\ outcome = "sent" =>
          /\ Number(SubSeq(Text(buf), 5, 6)) = (buf.size - HeadSize) % Values[2]
          /\ Number(SubSeq(Inner, 5, 6)) = (Len(Inner) - HeadSize) % Values[2]
    /\ AllCountable =>
        /\ \A i \in 1..Len(got) : got[i] = Said(packet.groups[i])
        /\ outcome = "read" /\ Whole /\ Len(got) < Len(packet.groups) =>
              Unpack(SubSeq(wire, offs + 1, Len(wire)), packet.groups[Len(got) + 1]).out = "ok"
        /\ outcome = "kept" =>
              SubSeq(Text(buf), 3, buf.size) =
                BS!From(Said(packet.groups[1])[Len(Said(packet.groups[1]))], 2) \o <<0>>

(* The directives that are compared with the length before they read (not  *)
(* %Z, constants, or a number without a size), and the handlers that do    *)
(* not step over bytes themselves.                                         *)
Compared(f) ==
    /\ f.t \notin {"zero", "lit", "tail"}
    /\ f.t = "num" => f.w # IntSize
    /\ Countable(f)

(* A packet that ends too early is refused at the call that meets the end, *)
(* and no byte behind the end is read, where all the directives of its     *)
(* formats are compared with the length.                                   *)
CutIsRefused ==
    (\A g \in Range(packet.groups) : \A f \in Range(g) : Compared(f)) =>
        /\ outcome # "past"
        /\ outcome = "done" => offs = Len(wire)
        /\ outcome \in {"done", "kept"} /\ ~Outgoing =>
              Len(wire) >= Len(Flat([i \in DOMAIN packet.groups |-> Packed(packet.groups[i])]))
=============================================================================
