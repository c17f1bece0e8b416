------------------------------ MODULE PackCodec ------------------------------
(***************************************************************************)
(* Fields to bytes and back: the directives of buf_new_pack,               *)
(* buf_append_pack and buf_insert_pack on one side, those of               *)
(* buf_unpack_data and buf_unpack on the other (lib/buffer.c).             *)
(*                                                                         *)
(* A byte has Base values, so that a length of Base is what 256 is in the  *)
(* code.  A format is the sequence of its directives, each with the size   *)
(* its modifiers give it: the formats are constants of the program, and    *)
(* reading one character by character is left out, as are the directives   *)
(* no format has ("%n$", "%i", sizes other than 1, 2 and 4).               *)
(***************************************************************************)
EXTENDS Buffer, SequencesExt

CONSTANT Base   \* values of a byte

(* The formats have constants up to 4.                                     *)
ASSUME BaseAssumption ==
    /\ Base \in Nat /\ Base > 4
    /\ Byte = 0..(Base - 1)

(* A number without a size is an int, of four bytes.                       *)
IntSize == 4

(* How many values w bytes have.                                           *)
Values[w \in 0..IntSize] == IF w = 0 THEN 1 ELSE Base * Values[w - 1]

-----------------------------------------------------------------------------
(* Fields: type, width of the number or of the count, value.               *)
Field(t, w, v) == [t |-> t, w |-> w, v |-> v]

Num(w, n)  == Field("num", w, <<n>>)    \* "%bu", "%^hu"; "%^u" of IntSize
Str(w, s)  == Field("str", w, s)        \* "%bu%s", read by "%b$%s"
Data(w, s) == Field("data", w, s)       \* "%^hu%r", read by "%^h$%r"
Raw(s)     == Field("raw", Len(s), s)   \* "%8p"
Zeroes     == Field("zero", 1, <<0>>)   \* "%Z"
Lit(b)     == Field("lit", 1, <<b>>)    \* a character of the format
Skip(w)    == Field("skip", w, [i \in 1..w |-> 1])    \* read by "%9k"
Rest(s)    == Field("rest", 0, s)       \* "%r"
Unread(w)  == Field("tail", w, [i \in 1..w |-> 1])    \* stepped over by the caller

(* A directive: conversion, size from modifiers (0: none), argument.       *)
Directive(c, size, v) == [c |-> c, size |-> size, v |-> v]

(* No format has a modifier for an int.                                    *)
Modifier(w) == IF w = IntSize THEN 0 ELSE w

Packing(f) ==
    CASE f.t = "num"  -> <<Directive("u", Modifier(f.w), f.v)>>
      [] f.t = "str"  -> <<Directive("u", f.w, <<Len(f.v)>>), Directive("s", 0, f.v)>>
      [] f.t = "data" -> <<Directive("u", f.w, <<Len(f.v)>>), Directive("r", 0, f.v)>>
      [] f.t = "zero" -> <<Directive("Z", 0, << >>)>>
      [] f.t = "lit"  -> <<Directive("lit", 0, f.v)>>
      [] f.t = "rest" -> <<Directive("r", 0, f.v)>>
      [] OTHER        -> <<Directive("p", f.w, f.v)>>

Unpacking(f) ==
    CASE f.t = "num"  -> <<Directive("u", Modifier(f.w), << >>)>>
      [] f.t = "str"  -> <<Directive("$", f.w, << >>), Directive("s", 0, << >>)>>
      [] f.t = "data" -> <<Directive("$", f.w, << >>), Directive("r", 0, << >>)>>
      [] f.t = "raw"  -> <<Directive("p", f.w, << >>)>>
      [] f.t = "zero" -> <<Directive("Z", 0, << >>)>>
      [] f.t = "lit"  -> <<Directive("lit", 0, f.v)>>
      [] f.t = "skip" -> <<Directive("k", f.w, << >>)>>
      [] OTHER        -> << >>

Flat(ss) == FlattenSeq(ss)

Each(Op(_), s) == [i \in DOMAIN s |-> Op(s[i])]

-----------------------------------------------------------------------------
(* Packing.                                                                *)
Digits(n, w) == [i \in 1..w |-> (n \div Values[w - i]) % Base]

Number(s) ==
    LET upto[i \in 0..Len(s)] == IF i = 0 THEN 0 ELSE upto[i - 1] * Base + s[i]
    IN  upto[Len(s)]

UpToZero(s) == SelectInSeq(s, LAMBDA b : b = 0)

PackDirective(d) ==
    CASE d.c = "u"   -> Digits(d.v[1], IF d.size = 0 THEN IntSize ELSE d.size)
      [] d.c = "s"   -> IF UpToZero(d.v) = 0 THEN d.v
                        ELSE SubSeq(d.v, 1, UpToZero(d.v) - 1)
      [] d.c = "r"   -> IF d.size = 0 \/ d.size > Len(d.v) THEN d.v
                        ELSE SubSeq(d.v, 1, d.size)
      [] d.c = "p"   -> SubSeq(d.v, 1, d.size)
      [] d.c = "Z"   -> <<0>>
      [] d.c = "lit" -> d.v

(* _build_pack_queue and _dequeue_pack. *)
Packed(fields) == Flat(Each(PackDirective, Flat(Each(Packing, fields))))

(* Of an empty pack there is no buffer, and nothing to append or insert.   *)
NewPack(fields) ==
    LET s == Packed(fields)
    IN  IF s = << >> THEN /\ buf' = Buf(<< >>, 0)
                          /\ live' = FALSE
                          /\ Called("free", << >>, 0, 0, 0)
        ELSE New(s)

(* Defect: the size of the buffer is not counted up. *)
AppendPackShort(fields) ==
    LET s == Packed(fields)
        b == Appended(buf, s)
    IN  /\ live
        /\ s # << >>
        /\ buf' = Buf(b.mem, Larger(Len(s), buf.size))
        /\ UNCHANGED live
        /\ Called("append", s, 0, 0, Len(s))

AppendPack(fields) ==
    LET s == Packed(fields)
    IN  /\ live
        /\ s # << >>
        /\ buf' = Appended(buf, s)
        /\ UNCHANGED live
        /\ Called("append", s, 0, 0, Len(s))

InsertPack(pos, fields) ==
    LET s    == Packed(fields)
        size == Larger(pos, buf.size) + Len(s)
        mem  == Expand(buf.mem, size)
        room == IF buf.size > pos THEN Move(mem, pos, Len(s), buf.size - pos)
                ELSE Zero(mem, buf.size, pos - buf.size)
    IN  /\ live
        /\ s # << >>
        /\ size <= MaxBuffer
        /\ buf' = Buf(Copy(room, pos, s, 0, Len(s)), size)
        /\ UNCHANGED live
        /\ Called("insert", s, pos, 0, Len(s))

-----------------------------------------------------------------------------
(* Unpacking: a reader has an offset, the sizes read by "$" and not used   *)
(* yet, the values stored so far and whether it may go on.                 *)
Reader == [offs |-> 0, sizes |-> << >>, vals |-> << >>, out |-> "ok"]

Stopped(r, why) == [r EXCEPT !.out = why]

(* The bytes of a number without a size are not compared with what there   *)
(* is; nor is the byte of "%Z" or of a constant.  A string without a size  *)
(* goes up to the next zero, wherever that is.                             *)
Taken(r, n, vals) == [r EXCEPT !.offs = @ + n, !.vals = @ \o vals]

TakeString(r, data) ==
    LET rest == SubSeq(data, r.offs + 1, Len(data))
        e    == UpToZero(rest)
    IN  IF e = 0 THEN Stopped(r, "past")
        ELSE Taken(r, e, <<SubSeq(rest, 1, e - 1)>>)

TakeByte(r, data, b) ==
    IF r.offs >= Len(data) THEN Stopped(r, "past")
    ELSE IF data[r.offs + 1] # b THEN Stopped(r, "refused") ELSE Taken(r, 1, << >>)

Convert(r, d, size, data) ==
    LET n     == IF size = 0 /\ d.c \in {"u", "$"} THEN IntSize ELSE size
        bytes == SubSeq(data, r.offs + 1, r.offs + n)
    IN  CASE d.c = "lit" -> TakeByte(r, data, d.v[1])
          [] d.c = "Z"   -> TakeByte(r, data, 0)
          [] d.c = "s" /\ n = 0 -> TakeString(r, data)
          [] OTHER -> IF r.offs + n > Len(data) THEN Stopped(r, "past")
                      ELSE CASE d.c = "u" -> Taken(r, n, <<<<Number(bytes)>>>>)
                             [] d.c = "$" -> [Taken(r, n, << >>) EXCEPT !.sizes = <<Number(bytes)>> \o @]
                             [] d.c = "k" -> Taken(r, n, << >>)
                             [] OTHER     -> Taken(r, n, <<bytes>>)

(* Before each character of the format the offset, and the size in force,  *)
(* are compared with the length; a counted directive takes no size.        *)
Pending(r, d) == d.c # "lit" /\ r.sizes # << >>

Counted(r, d) == IF Pending(r, d) THEN Head(r.sizes) ELSE 0

Left(r, d) == IF Pending(r, d) THEN Tail(r.sizes) ELSE r.sizes

(* Defect: the size in force is left out of the comparison. *)
RefusedLate(r, d, data) ==
    \/ r.offs > Len(data)
    \/ d.size > 0 /\ Counted(r, d) > 0

Refused(r, d, data) ==
    \/ r.offs + Larger(d.size, Counted(r, d)) > Len(data)
    \/ d.size > 0 /\ Counted(r, d) > 0

ReadDirective(r, d, data) ==
    IF r.out # "ok" THEN r
    ELSE IF Refused(r, d, data) THEN Stopped(r, "refused")
    ELSE Convert([r EXCEPT !.sizes = Left(r, d)], d,
                 Larger(d.size, Counted(r, d)), data)

Unpack(data, fields) ==
    LET ds == Flat(Each(Unpacking, fields))
        after[i \in 0..Len(ds)] ==
            IF i = 0 THEN Reader ELSE ReadDirective(after[i - 1], ds[i], data)
    IN  after[Len(ds)]
=============================================================================
