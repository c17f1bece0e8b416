----------------------------- MODULE RoomNames ------------------------------
(***************************************************************************)
(* irc/room.c: the name of a room as the name of an IRC channel and back.  *)
(* Letters and digits stand for themselves, every other character for a    *)
(* percent sign and two digits; the channel has a # before it.             *)
(*                                                                         *)
(* The digits have the base 3, so that eight characters are enough to have *)
(* one of every kind: the code has 255, and hexadecimal digits in two      *)
(* cases.  Not modelled: the decoder allocates as many bytes as the name   *)
(* has and, of a name with neither # nor escape, writes one more.          *)
(***************************************************************************)
EXTENDS Naturals, Sequences, SequencesExt

Hash    == 1
Percent == 2
Space   == 3
Char    == 1..8

DigitOf(n)  == 4 + n
IsDigit(c)  == c \in 4..6
ValueOf(c)  == c - 4
IsAlnum(c)  == IsDigit(c) \/ c = 7

(* Defect: the sign of the escapes is not escaped itself. *)
PercentStays(c) == IF IsAlnum(c) \/ c = Percent THEN <<c>>
                   ELSE <<Percent, DigitOf(c \div 3), DigitOf(c % 3)>>

Escaped(c) == IF IsAlnum(c) THEN <<c>>
              ELSE <<Percent, DigitOf(c \div 3), DigitOf(c % 3)>>

(* irc_room_encode *)
Encode(room) ==
  IF room = << >> THEN << >>
  ELSE <<Hash>> \o FlattenSeq([i \in DOMAIN room |-> Escaped(room[i])])

IsEscape(p, i) ==
  /\ p[i] = Percent
  /\ i + 2 <= Len(p)
  /\ IsDigit(p[i + 1]) /\ IsDigit(p[i + 2])

(* irc_room_decode: an escaped zero ends the name.                         *)
Decode(name) ==
  LET p == IF name # << >> /\ Head(name) = Hash THEN Tail(name) ELSE name
      from[i \in 1..(Len(p) + 1)] ==
        IF i > Len(p) THEN << >>
        ELSE IF IsEscape(p, i)
        THEN LET c == 3 * ValueOf(p[i + 1]) + ValueOf(p[i + 2])
             IN  IF c = 0 THEN << >> ELSE <<c>> \o from[i + 3]
        ELSE <<p[i]>> \o from[i + 1]
  IN  from[1]
=============================================================================
