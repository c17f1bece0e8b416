----------------------------- MODULE RoomsProofs -----------------------------
(* What Rooms and RoomNames promise, proved for any rooms, users, channels *)
(* and bounds.                                                             *)
EXTENDS Rooms, SequenceFacts

-----------------------------------------------------------------------------
(* The names: what irc_room_decode makes of what irc_room_encode wrote.    *)

LEMMA EscapedLetter ==
  ASSUME NEW c \in Char, IsAlnum(c)
  PROVE  Escaped(c) = <<c>> /\ c # Percent
  BY DEF Escaped, IsAlnum, IsDigit, Char, Percent

LEMMA EscapedOther ==
  ASSUME NEW c \in Char, ~IsAlnum(c)
  PROVE  \E d \in Char, e \in Char :
           /\ Escaped(c) = <<Percent, d, e>>
           /\ IsDigit(d) /\ IsDigit(e)
           /\ 3 * ValueOf(d) + ValueOf(e) = c /\ c # 0
<1>1. PICK q \in Int, r \in Int : q = c \div 3 /\ r = c % 3
  <2>1. c \div 3 \in Int /\ c % 3 \in Int
    BY DEF Char
  <2>2. QED
    BY <2>1, Zenon
<1>2. q \in 0..2 /\ r \in 0..2 /\ 3 * q + r = c /\ c # 0
  BY <1>1 DEF Char
<1> DEFINE d == DigitOf(q)
           e == DigitOf(r)
<1>3. d \in Char /\ e \in Char /\ IsDigit(d) /\ IsDigit(e)
  BY <1>2 DEF Char, IsDigit, DigitOf
<1>4. ValueOf(d) = q /\ ValueOf(e) = r
  BY <1>2 DEF ValueOf, DigitOf
<1>5. Escaped(c) = <<Percent, d, e>>
  BY <1>1, Zenon DEF Escaped
<1>6. 3 * ValueOf(d) + ValueOf(e) = c
  BY <1>2, <1>4, Zenon
<1> HIDE DEF d, e
<1>7. QED
  BY <1>2, <1>3, <1>5, <1>6, Zenon

LEMMA EscapedType ==
  ASSUME NEW c \in Char
  PROVE  Escaped(c) \in Seq(Char) /\ Len(Escaped(c)) = IF IsAlnum(c) THEN 1 ELSE 3
<1>1. CASE IsAlnum(c)
  <2>1. <<c>> \in Seq(Char) /\ Len(<<c>>) = 1
    OBVIOUS
  <2>2. QED
    BY <1>1, <2>1, EscapedLetter, Zenon
<1>2. CASE ~IsAlnum(c)
  <2>1. PICK d \in Char, e \in Char : Escaped(c) = <<Percent, d, e>>
    BY <1>2, EscapedOther
  <2>2. Percent \in Char
    BY DEF Percent, Char
  <2>3. <<Percent, d, e>> \in Seq(Char) /\ Len(<<Percent, d, e>>) = 3
    BY <2>2
  <2>4. QED
    BY <1>2, <2>1, <2>3, Zenon
<1>3. QED
  BY <1>1, <1>2

(* The recursive function of irc_room_decode exists.                       *)
DecodeAt(p, f, i) ==
  IF i > Len(p) THEN << >>
  ELSE IF IsEscape(p, i)
  THEN LET c == 3 * ValueOf(p[i + 1]) + ValueOf(p[i + 2])
       IN  IF c = 0 THEN << >> ELSE <<c>> \o f[i + 3]
  ELSE <<p[i]>> \o f[i + 1]

Decoding(p, f) == f = [i \in 1..(Len(p) + 1) |-> DecodeAt(p, f, i)]

LEMMA DecodeLooksAhead ==
  ASSUME NEW p, NEW n \in Nat, n = Len(p), NEW i \in 1..(n + 1), NEW f, NEW g,
         \A j \in (i + 1)..(n + 1) : f[j] = g[j]
  PROVE  DecodeAt(p, f, i) = DecodeAt(p, g, i)
<1>1. CASE i > Len(p)
  BY <1>1 DEF DecodeAt
<1>2. CASE i <= Len(p) /\ IsEscape(p, i)
  <2>1. i + 3 \in (i + 1)..(n + 1)
    BY <1>2 DEF IsEscape
  <2>2. f[i + 3] = g[i + 3]
    BY <2>1
  <2>3. QED
    BY <1>2, <2>2 DEF DecodeAt
<1>3. CASE i <= Len(p) /\ ~IsEscape(p, i)
  <2>1. i + 1 \in (i + 1)..(n + 1)
    BY <1>3
  <2>2. f[i + 1] = g[i + 1]
    BY <2>1
  <2>3. QED
    BY <1>3, <2>2 DEF DecodeAt
<1>4. QED
  BY <1>1, <1>2, <1>3

LEMMA DecodingExists ==
  ASSUME NEW p, NEW n \in Nat, n = Len(p)
  PROVE  \E f : Decoding(p, f)
<1> DEFINE From(k, f) == /\ f = [i \in (n + 1 - k)..(n + 1) |-> f[i]]
                         /\ \A i \in (n + 1 - k)..(n + 1) : f[i] = DecodeAt(p, f, i)
           T == {k \in Nat : k <= n => \E f : From(k, f)}
<1>1. 0 \in T
  <2> DEFINE f == [i \in (n + 1 - 0)..(n + 1) |-> << >>]
  <2>1. \A i \in (n + 1 - 0)..(n + 1) : f[i] = << >> /\ i > Len(p)
    OBVIOUS
  <2>2. \A i \in (n + 1 - 0)..(n + 1) : f[i] = DecodeAt(p, f, i)
    <3> HIDE DEF f
    <3>1. QED
      BY <2>1 DEF DecodeAt
  <2>3. f = [i \in (n + 1 - 0)..(n + 1) |-> f[i]]
    OBVIOUS
  <2> HIDE DEF f
  <2>4. From(0, f)
    BY <2>2, <2>3
  <2>5. QED
    BY <2>4
<1>2. ASSUME NEW k \in Nat, k \in T
      PROVE  k + 1 \in T
  <2> SUFFICES ASSUME k + 1 <= n
               PROVE  \E f : From(k + 1, f)
    OBVIOUS
  <2>1. PICK g : From(k, g)
    BY <1>2
  <2> DEFINE lo == n + 1 - (k + 1)
             f == [i \in lo..(n + 1) |-> IF i = lo THEN DecodeAt(p, g, i) ELSE g[i]]
  <2>2. lo \in 1..n /\ lo + 1 = n + 1 - k
    OBVIOUS
  <2> HIDE DEF lo
  <2>3. f = [i \in lo..(n + 1) |-> f[i]]
    OBVIOUS
  <2>4. f[lo] = DecodeAt(p, g, lo) /\ \A j \in (lo + 1)..(n + 1) : f[j] = g[j]
    BY <2>2
  <2> HIDE DEF f
  <2>5. \A i \in lo..(n + 1) : DecodeAt(p, f, i) = DecodeAt(p, g, i)
    <3>1. SUFFICES ASSUME NEW i \in lo..(n + 1)
                   PROVE  DecodeAt(p, f, i) = DecodeAt(p, g, i)
      BY Zenon
    <3>2. i \in 1..(n + 1) /\ \A j \in (i + 1)..(n + 1) : f[j] = g[j]
      BY <2>2, <2>4
    <3>3. QED
      BY <3>2, DecodeLooksAhead
  <2>6. \A i \in lo..(n + 1) : f[i] = DecodeAt(p, f, i)
    <3>1. SUFFICES ASSUME NEW i \in lo..(n + 1)
                   PROVE  f[i] = DecodeAt(p, f, i)
      BY Zenon
    <3>2. CASE i = lo
      BY <2>4, <2>5, <3>2
    <3>3. CASE i # lo
      <4>1. i \in (lo + 1)..(n + 1) /\ i \in (n + 1 - k)..(n + 1)
        BY <2>2, <3>3
      <4>2. f[i] = g[i] /\ g[i] = DecodeAt(p, g, i)
        BY <2>1, <2>4, <4>1
      <4>3. QED
        BY <2>5, <4>2
    <3>4. QED
      BY <3>2, <3>3
  <2>7. From(k + 1, f)
    BY <2>3, <2>6 DEF lo
  <2>8. QED
    BY <2>7
<1>3. Nat \subseteq T
  <2> HIDE DEF T
  <2>1. QED
    BY <1>1, <1>2, SetInduction
<1>4. PICK f : From(n, f)
  BY <1>3
<1>5. n + 1 - n = 1
  OBVIOUS
<1>6. f = [i \in 1..(n + 1) |-> DecodeAt(p, f, i)]
  BY <1>4, <1>5
<1>7. QED
  BY <1>6 DEF Decoding

LEMMA DecodeIsFirst ==
  ASSUME NEW name, NEW p, NEW n \in Nat, n = Len(p),
         p = IF name # << >> /\ Head(name) = Hash THEN Tail(name) ELSE name
  PROVE  \E f : Decoding(p, f) /\ Decode(name) = f[1]
<1> DEFINE f == CHOOSE g : Decoding(p, g)
<1>1. Decoding(p, f)
  BY DecodingExists
<1>2. Decode(name) = f[1]
  BY DEF Decode, Decoding, DecodeAt
<1>3. QED
  BY <1>1, <1>2

LEMMA PutBefore ==
  ASSUME NEW S, NEW c \in S, NEW s \in Seq(S)
  PROVE  /\ <<c>> \o s \in Seq(S) /\ <<c>> \o s # << >>
         /\ Head(<<c>> \o s) = c /\ Tail(<<c>> \o s) = s
<1> DEFINE t == <<c>> \o s
<1>1. <<c>> \in Seq(S) /\ Len(<<c>>) = 1 /\ <<c>>[1] = c /\ Len(s) \in Nat
  BY LenProperties
<1>2. /\ t \in Seq(S) /\ Len(t) = 1 + Len(s)
      /\ \A i \in 1..(1 + Len(s)) : t[i] = IF i <= 1 THEN <<c>>[i] ELSE s[i - 1]
  BY <1>1, ConcatProperties
<1> HIDE DEF t
<1>3. t # << >>
  BY <1>1, <1>2, EmptySeq
<1>4. /\ Head(t) = t[1] /\ Tail(t) \in Seq(S) /\ Len(Tail(t)) = Len(t) - 1
      /\ \A i \in 1..(Len(t) - 1) : Tail(t)[i] = t[i + 1]
  BY <1>2, <1>3, HeadTailProperties
<1>5. t[1] = c
  BY <1>1, <1>2
<1>6. Tail(t) = s
  <2>1. Len(Tail(t)) = Len(s)
    BY <1>1, <1>2, <1>4
  <2>2. \A i \in 1..Len(s) : Tail(t)[i] = s[i]
    <3>1. \A i \in 1..Len(s) : /\ i \in 1..(Len(t) - 1) /\ i + 1 \in 1..(1 + Len(s))
                             /\ ~(i + 1 <= 1) /\ i + 1 - 1 = i
      BY <1>1, <1>2
    <3>2. QED
      BY <1>2, <1>4, <3>1
  <2>3. QED
    BY <1>4, <2>1, <2>2, SeqEqual
<1>7. QED
  BY <1>2, <1>3, <1>4, <1>5, <1>6 DEF t

(* irc_room_decode gives back what irc_room_encode was given: a channel    *)
(* name that the IRC client sends leads to its room, whatever escapes the  *)
(* name of the room looks like.                                            *)
THEOREM DecodeEncode ==
  ASSUME NEW room \in Seq(Char), room # << >>
  PROVE  Decode(Encode(room)) = room
<1> DEFINE n == Len(room)
           seqs == [i \in DOMAIN room |-> Escaped(room[i])]
           p == FlattenSeq(seqs)
           name == <<Hash>> \o p
<1>1. n \in Nat \ {0} /\ DOMAIN room = 1..n /\ \A i \in 1..n : room[i] \in Char
  BY LenProperties, EmptySeq, ElementOfSeq
<1>2. Len(seqs) = n /\ \A i \in 1..n : seqs[i] = Escaped(room[i])
  BY <1>1
<1>3. ListOfLists(seqs, Char)
  <2>1. \A i \in 1..n : Escaped(room[i]) \in Seq(Char)
    BY <1>1, EscapedType
  <2>2. QED
    BY <1>1, <2>1, IsASeq DEF ListOfLists
<1> HIDE DEF seqs
<1>4. p \in Seq(Char)
  BY <1>3, FlattenType DEF ListOfLists
<1>5. PICK flat : Flatten(seqs, flat) /\ p = flat[n]
  <2>1. Len(seqs) \in Nat \ {0}
    BY <1>1, <1>2
  <2>2. QED
    BY <1>2, <2>1, FlattenIsDefined
<1> HIDE DEF n, p
<1>6. \A i \in 1..n : flat[i] \in Seq(Char) /\ seqs[i] \in Seq(Char)
  <2>1. \A i \in 1..n : flat[i] \in Seq(Char)
    BY <1>2, <1>3, <1>5, FlattenValues DEF ListOfLists
  <2>2. \A i \in 1..n : seqs[i] \in Seq(Char)
    BY <1>1, <1>2, EscapedType
  <2>3. QED
    BY <2>1, <2>2
<1> DEFINE at(k) == At(flat, k)
<1>7. \A k \in 1..n :
        /\ at(k) = at(k - 1) + Len(Escaped(room[k]))
        /\ at(k) <= Len(p)
        /\ \A j \in 1..Len(Escaped(room[k])) : p[at(k - 1) + j] = Escaped(room[k])[j]
  <2>1. n \in Nat /\ n = Len(seqs)
    BY <1>1, <1>2
  <2>2. \A k \in 1..n :
          /\ At(flat, k) = At(flat, k - 1) + Len(seqs[k])
          /\ At(flat, k) <= Len(flat[n])
          /\ \A j \in 1..Len(seqs[k]) : flat[n][At(flat, k - 1) + j] = seqs[k][j]
    <3>1. SUFFICES ASSUME NEW k \in 1..n
                   PROVE  /\ At(flat, k) = At(flat, k - 1) + Len(seqs[k])
                          /\ At(flat, k) <= Len(flat[n])
                          /\ \A j \in 1..Len(seqs[k]) :
                               flat[n][At(flat, k - 1) + j] = seqs[k][j]
      BY Zenon
    <3>2. QED
      <4>1. Flattened(seqs, flat, n, Char)
        BY <1>5, <1>6, <2>1 DEF Flattened
      <4>2. QED
        BY <2>1, <4>1, FlattenPlaces
  <2>3. QED
    BY <1>2, <1>5, <2>2
<1>8. \A k \in 0..n : at(k) \in Nat
  <2>1. \A k \in 1..n : Len(flat[k]) \in Nat
    BY <1>6, LenProperties
  <2>2. QED
    BY <1>1, <2>1 DEF At
<1>9. at(0) = 0 /\ at(n) = Len(p)
  BY <1>1, <1>5 DEF At
<1> HIDE DEF at
<1>10. Len(p) \in Nat
  BY <1>4, LenProperties
<1>11. PICK f : Decoding(p, f) /\ Decode(name) = f[1]
  <2>1. name # << >> /\ Head(name) = Hash /\ Tail(name) = p
    <3>1. Hash \in Char
      BY DEF Hash, Char
    <3>2. QED
      BY <1>4, <3>1, PutBefore
  <2>2. p = IF name # << >> /\ Head(name) = Hash THEN Tail(name) ELSE name
    BY <2>1
  <2> HIDE DEF name
  <2>3. QED
    BY <1>10, <2>2, DecodeIsFirst
<1>12. \A i \in 1..(Len(p) + 1) : f[i] = DecodeAt(p, f, i)
  <2>1. f = [i \in 1..(Len(p) + 1) |-> DecodeAt(p, f, i)]
    BY <1>11 DEF Decoding
  <2>2. QED
    BY <2>1
<1>13. f[at(n) + 1] = << >>
  <2>1. at(n) + 1 \in 1..(Len(p) + 1) /\ at(n) + 1 > Len(p)
    BY <1>9, <1>10
  <2>2. QED
    BY <1>12, <2>1 DEF DecodeAt
<1>14. ASSUME NEW k \in 1..n
       PROVE  f[at(k - 1) + 1] = <<room[k]>> \o f[at(k) + 1]
  <2> DEFINE c == room[k]
             i == at(k - 1) + 1
  <2>1. c \in Char /\ k - 1 \in 0..n /\ k \in 0..n
    BY <1>1
  <2>2. /\ at(k) = at(k - 1) + Len(Escaped(c)) /\ at(k) <= Len(p)
        /\ \A j \in 1..Len(Escaped(c)) : p[at(k - 1) + j] = Escaped(c)[j]
        /\ at(k) \in Nat /\ at(k - 1) \in Nat
    BY <1>7, <1>8, <2>1
  <2> HIDE DEF c
  <2>3. CASE IsAlnum(c)
    <3>1. Escaped(c) = <<c>> /\ c # Percent /\ Len(Escaped(c)) = 1
      BY <2>1, <2>3, EscapedLetter, EscapedType
    <3>2. p[i] = c
      <4>1. 1 \in 1..Len(Escaped(c)) /\ Escaped(c)[1] = c
        BY <3>1
      <4>2. QED
        BY <2>2, <4>1
    <3>3. i + 1 = at(k) + 1 /\ i \in 1..(Len(p) + 1) /\ ~(i > Len(p))
      BY <1>10, <2>2, <3>1
    <3>4. ~IsEscape(p, i)
      BY <3>1, <3>2 DEF IsEscape
    <3> HIDE DEF i
    <3>5. f[i] = <<p[i]>> \o f[i + 1]
      <4>1. f[i] = DecodeAt(p, f, i)
        BY <1>12, <3>3
      <4>2. DecodeAt(p, f, i) = <<p[i]>> \o f[i + 1]
        BY <3>3, <3>4 DEF DecodeAt
      <4>3. QED
        BY <4>1, <4>2
    <3>6. QED
      BY <3>2, <3>3, <3>5 DEF i, c
  <2>4. CASE ~IsAlnum(c)
    <3>1. PICK d \in Char, e \in Char :
            /\ Escaped(c) = <<Percent, d, e>>
            /\ IsDigit(d) /\ IsDigit(e)
            /\ 3 * ValueOf(d) + ValueOf(e) = c /\ c # 0
      BY <2>1, <2>4, EscapedOther
    <3>2. Len(Escaped(c)) = 3
      BY <2>1, <2>4, EscapedType
    <3>3. p[at(k - 1) + 1] = Percent /\ p[at(k - 1) + 2] = d /\ p[at(k - 1) + 3] = e
      <4>1. /\ 1 \in 1..Len(Escaped(c)) /\ Escaped(c)[1] = Percent
            /\ 2 \in 1..Len(Escaped(c)) /\ Escaped(c)[2] = d
            /\ 3 \in 1..Len(Escaped(c)) /\ Escaped(c)[3] = e
        BY <3>1, <3>2
      <4>2. QED
        BY <2>2, <4>1
    <3>4. /\ i + 3 = at(k) + 1 /\ i \in 1..(Len(p) + 1) /\ ~(i > Len(p)) /\ i + 2 <= Len(p)
          /\ i + 1 = at(k - 1) + 2 /\ i + 2 = at(k - 1) + 3
      BY <1>10, <2>2, <3>2
    <3>5. p[i] = Percent /\ p[i + 1] = d /\ p[i + 2] = e
      BY <3>3, <3>4
    <3> HIDE DEF i
    <3>6. IsEscape(p, i)
      BY <3>1, <3>4, <3>5 DEF IsEscape
    <3>7. f[i] = <<c>> \o f[i + 3]
      <4>1. f[i] = DecodeAt(p, f, i)
        BY <1>12, <3>4
      <4>2. 3 * ValueOf(p[i + 1]) + ValueOf(p[i + 2]) = c
        BY <3>1, <3>5, Zenon
      <4>3. DecodeAt(p, f, i) = <<c>> \o f[i + 3]
        BY <3>1, <3>4, <3>6, <4>2 DEF DecodeAt
      <4>4. QED
        BY <4>1, <4>3
    <3>8. QED
      BY <3>4, <3>7 DEF i, c
  <2>5. QED
    BY <2>3, <2>4
<1>15. /\ SubSeq(room, n + 1, n) = << >>
       /\ \A k \in 1..n : SubSeq(room, k, n) = <<room[k]>> \o SubSeq(room, k + 1, n)
  <2>1. SubSeq(room, n + 1, n) = << >>
    BY <1>1, SubSeqEmpty
  <2>2. ASSUME NEW k \in 1..n
        PROVE  SubSeq(room, k, n) = <<room[k]>> \o SubSeq(room, k + 1, n)
    <3>1. k \in 1..Len(room) /\ n \in k..Len(room)
      BY <1>1 DEF n
    <3>2. QED
      BY <3>1, SubSeqRecursiveFirst
  <2>3. QED
    BY <2>1, <2>2
<1> DEFINE Right(k) == f[at(k - 1) + 1] = SubSeq(room, k, n)
           T == {d \in Nat : d <= n => Right(n + 1 - d)}
<1>16. Right(n + 1)
  <2>1. (n + 1) - 1 = n
    BY <1>1
  <2>2. QED
    BY <1>13, <1>15, <2>1
<1>17. ASSUME NEW k \in 1..n, Right(k + 1)
       PROVE  Right(k)
  <2>1. (k + 1) - 1 = k
    OBVIOUS
  <2>2. f[at(k) + 1] = SubSeq(room, k + 1, n)
    BY <1>17, <2>1
  <2>3. QED
    BY <1>14, <1>15, <2>2
<1> HIDE DEF Right
<1>18. 0 \in T
  BY <1>1, <1>16
<1>19. ASSUME NEW d \in Nat, d \in T
       PROVE  d + 1 \in T
  <2> SUFFICES ASSUME d + 1 <= n
               PROVE  Right(n + 1 - (d + 1))
    OBVIOUS
  <2>1. n + 1 - (d + 1) \in 1..n /\ (n + 1 - (d + 1)) + 1 = n + 1 - d
    BY <1>1
  <2>2. Right(n + 1 - d)
    BY <1>1, <1>19
  <2>3. QED
    BY <1>17, <2>1, <2>2
<1>20. Nat \subseteq T
  <2> HIDE DEF T
  <2>1. QED
    BY <1>18, <1>19, SetInduction
<1>21. Right(1)
  <2>1. n \in Nat /\ n + 1 - n = 1
    BY <1>1
  <2>2. QED
    BY <1>20, <2>1
<1>22. f[1] = room
  <2>1. at(1 - 1) + 1 = 1
    BY <1>9
  <2>2. SubSeq(room, 1, n) = room
    BY SubSeqFull DEF n
  <2>3. QED
    BY <1>21, <2>1, <2>2 DEF Right
<1>23. Encode(room) = name
  BY DEF Encode, p, seqs
<1>24. QED
  BY <1>11, <1>22, <1>23

-----------------------------------------------------------------------------
(* The folding of After over the packets on their way.                     *)

Folding(s, f, it) ==
  it = [S \in SUBSET (DOMAIN s) |-> IF S = {} THEN f ELSE After(it[S \ {Max(S)}], s[Max(S)])]

LEMMA MaxOfInterval ==
  ASSUME NEW n \in Nat, NEW S, S \subseteq 1..(n + 1), n + 1 \in S
  PROVE  Max(S) = n + 1
<1>1. \A y \in S : n + 1 >= y
  OBVIOUS
<1>2. \A x \in S : (\A y \in S : x >= y) => x = n + 1
  OBVIOUS
<1>3. QED
  BY <1>1, <1>2 DEF Max

LEMMA FoldingExists ==
  ASSUME NEW s, NEW n \in Nat, DOMAIN s = 1..n, NEW f
  PROVE  \E it : Folding(s, f, it)
<1> DEFINE Body(it, S) == IF S = {} THEN f ELSE After(it[S \ {Max(S)}], s[Max(S)])
           Upto(k, it) == it = [S \in SUBSET (1..k) |-> Body(it, S)]
           T == {k \in Nat : \E it : Upto(k, it)}
<1>1. 0 \in T
  <2> DEFINE it == [S \in SUBSET (1..0) |-> f]
  <2>1. \A S \in SUBSET (1..0) : S = {}
    OBVIOUS
  <2>2. Upto(0, it)
    BY <2>1
  <2> HIDE DEF Upto, it
  <2>3. QED
    BY <2>2
<1>2. ASSUME NEW k \in Nat, k \in T
      PROVE  k + 1 \in T
  <2>1. PICK it : Upto(k, it)
    BY <1>2
  <2> DEFINE more == [S \in SUBSET (1..(k + 1)) |->
                        IF k + 1 \in S THEN Body(it, S) ELSE it[S]]
  <2>2. \A S \in SUBSET (1..k) : more[S] = it[S] /\ it[S] = Body(it, S)
    <3>1. \A S \in SUBSET (1..k) : S \in SUBSET (1..(k + 1)) /\ k + 1 \notin S
      OBVIOUS
    <3>2. QED
      BY <2>1, <3>1
  <2>3. \A S \in SUBSET (1..(k + 1)) : more[S] = Body(more, S)
    <3>1. SUFFICES ASSUME NEW S \in SUBSET (1..(k + 1))
                   PROVE  more[S] = Body(more, S)
      BY Zenon
    <3>2. S \ {Max(S)} \in SUBSET (1..k) => more[S \ {Max(S)}] = it[S \ {Max(S)}]
      BY <2>2
    <3>3. CASE k + 1 \in S
      <4>1. Max(S) = k + 1
        BY <3>3, MaxOfInterval
      <4>2. S \ {Max(S)} \in SUBSET (1..k)
        <5>1. \A x \in S : x # k + 1 => x \in 1..k
          OBVIOUS
        <5>2. QED
          BY <4>1, <5>1
      <4>3. more[S] = Body(it, S)
        BY <3>3
      <4> HIDE DEF more
      <4>4. QED
        BY <3>2, <4>2, <4>3
    <3>4. CASE k + 1 \notin S
      <4>1. S \in SUBSET (1..k)
        <5>1. \A x \in S : x # k + 1 => x \in 1..k
          OBVIOUS
        <5>2. QED
          BY <3>4, <5>1
      <4>2. S \ {Max(S)} \in SUBSET (1..k)
        BY <4>1
      <4> HIDE DEF more
      <4>3. QED
        BY <2>2, <3>2, <4>1, <4>2
    <3>5. QED
      BY <3>3, <3>4
  <2>4. more = [S \in SUBSET (1..(k + 1)) |-> more[S]]
    OBVIOUS
  <2> HIDE DEF more, Body
  <2>5. Upto(k + 1, more)
    BY <2>3, <2>4
  <2> HIDE DEF Upto
  <2>6. QED
    BY <2>5
<1>3. Nat \subseteq T
  <2> HIDE DEF T
  <2>1. QED
    BY <1>1, <1>2, SetInduction
<1>4. \E it : Upto(n, it)
  BY <1>3
<1>5. QED
  BY <1>4 DEF Folding

(* What is known of the rooms after every packet: f before the packets s   *)
(* and g behind them.                                                      *)
Proper(f, p) ==
  /\ p.type = "ROOM_USERLIST" => (p.of \in DOMAIN f => f[p.of] = p.nicks)
  /\ p.type = "ROOM_USERENTER" => p.of \in DOMAIN f /\ p.nicks \cap f[p.of] = {}
  /\ p.type = "ROOM_USERLEAVE" => p.of \in DOMAIN f /\ p.nicks \subseteq f[p.of]
  /\ p.type = "ROOM_MSG" => p.of \in DOMAIN f

Chain(b, f, s, g) ==
  /\ b[0] = f /\ b[Len(s)] = g
  /\ \A i \in 1..Len(s) : b[i] = After(b[i - 1], s[i]) /\ Proper(b[i - 1], s[i])

Leads(f, s, g) == \E b : Chain(b, f, s, g)

LEMMA LeadsFold ==
  ASSUME NEW S, NEW s \in Seq(S), NEW f, NEW g, Leads(f, s, g)
  PROVE  FoldLeft(After, f, s) = g
<1> DEFINE n == Len(s)
           it == CHOOSE iter : Folding(s, f, iter)
<1>1. n \in Nat /\ DOMAIN s = 1..n
  BY LenProperties
<1>2. Folding(s, f, it)
  BY <1>1, FoldingExists
<1>3. FoldLeft(After, f, s) = it[1..n]
  BY <1>1 DEF FoldLeft, MapThenFoldSet, Folding
<1> HIDE DEF it, n
<1>4. PICK b : Chain(b, f, s, g)
  BY DEF Leads
<1>5. /\ b[0] = f /\ b[n] = g
      /\ \A i \in 1..n : b[i] = After(b[i - 1], s[i])
  BY <1>4 DEF Chain, n
<1> DEFINE T == {k \in Nat : k <= n => it[1..k] = b[k]}
<1>6. 0 \in T
  <2>1. {} \in SUBSET (DOMAIN s) /\ 1..0 = {}
    OBVIOUS
  <2>2. it[{}] = f
    BY <1>2, <2>1 DEF Folding
  <2>3. QED
    BY <1>5, <2>1, <2>2
<1>7. ASSUME NEW k \in Nat, k \in T
      PROVE  k + 1 \in T
  <2> SUFFICES ASSUME k + 1 <= n
               PROVE  it[1..(k + 1)] = b[k + 1]
    OBVIOUS
  <2> DEFINE S2 == 1..(k + 1)
  <2>1. S2 \in SUBSET (DOMAIN s) /\ k + 1 \in S2 /\ S2 # {}
    <3>1. n \in Nat
      BY <1>1
    <3>2. S2 \in SUBSET (1..n) /\ k + 1 \in S2
      BY <3>1
    <3>3. QED
      BY <1>1, <3>2, Zenon
  <2>2. Max(S2) = k + 1
    BY MaxOfInterval
  <2>3. S2 \ {k + 1} = 1..k
    OBVIOUS
  <2> HIDE DEF S2
  <2>4. it[S2] = After(it[S2 \ {Max(S2)}], s[Max(S2)])
    BY <1>2, <2>1 DEF Folding
  <2>5. it[1..k] = b[k]
    BY <1>1, <1>7
  <2>6. b[k + 1] = After(b[k], s[k + 1])
    <3>1. k + 1 \in 1..n /\ k + 1 - 1 = k
      BY <1>1
    <3>2. QED
      BY <1>5, <3>1
  <2>7. it[S2] = b[k + 1]
    BY <2>2, <2>3, <2>4, <2>5, <2>6
  <2>8. QED
    BY <2>7 DEF S2
<1>8. Nat \subseteq T
  <2> HIDE DEF T
  <2>1. QED
    BY <1>6, <1>7, SetInduction
<1>9. QED
  BY <1>1, <1>3, <1>5, <1>8

LEMMA LeadsNowhere ==
  ASSUME NEW f
  PROVE  Leads(f, << >>, f)
<1> DEFINE b == [i \in {0} |-> f]
<1>1. Chain(b, f, << >>, f)
  BY DEF Chain
<1>2. QED
  BY <1>1 DEF Leads

LEMMA LeadsOn ==
  ASSUME NEW S, NEW s \in Seq(S), NEW p \in S, NEW f, NEW g, NEW h,
         Leads(f, s, g), Proper(g, p), h = After(g, p)
  PROVE  Leads(f, Append(s, p), h)
<1> DEFINE n == Len(s)
           t == Append(s, p)
<1>1. n \in Nat /\ Len(t) = n + 1 /\ t[n + 1] = p /\ \A i \in 1..n : t[i] = s[i]
  BY LenProperties, AppendProperties
<1> HIDE DEF t
<1>2. PICK b : Chain(b, f, s, g)
  BY DEF Leads
<1>3. /\ b[0] = f /\ b[n] = g
      /\ \A i \in 1..n : b[i] = After(b[i - 1], s[i]) /\ Proper(b[i - 1], s[i])
  BY <1>2 DEF Chain
<1> HIDE DEF n
<1> DEFINE c == [i \in 0..(n + 1) |-> IF i = n + 1 THEN h ELSE b[i]]
<1>4. c[n + 1] = h /\ \A i \in 0..n : c[i] = b[i]
  BY <1>1
<1> HIDE DEF c
<1>5. c[0] = f /\ c[n] = g
  BY <1>1, <1>3, <1>4
<1>6. \A i \in 1..(n + 1) : c[i] = After(c[i - 1], t[i]) /\ Proper(c[i - 1], t[i])
  <2>1. SUFFICES ASSUME NEW i \in 1..(n + 1)
                 PROVE  c[i] = After(c[i - 1], t[i]) /\ Proper(c[i - 1], t[i])
    BY Zenon
  <2>2. CASE i = n + 1
    <3>1. i - 1 = n
      BY <1>1, <2>2
    <3>2. QED
      BY <1>1, <1>4, <1>5, <2>2, <3>1
  <2>3. CASE i # n + 1
    <3>1. i \in 1..n /\ i \in 0..n /\ i - 1 \in 0..n
      BY <1>1, <2>3
    <3>2. c[i] = b[i] /\ c[i - 1] = b[i - 1] /\ t[i] = s[i]
      BY <1>1, <1>4, <3>1
    <3>3. QED
      BY <1>3, <3>1, <3>2
  <2>4. QED
    BY <2>2, <2>3
<1>7. Chain(c, f, t, h)
  BY <1>1, <1>4, <1>5, <1>6 DEF Chain
<1>8. QED
  BY <1>7 DEF Leads, t

LEMMA LeadsFrom ==
  ASSUME NEW S, NEW s \in Seq(S), s # << >>, NEW f, NEW g, Leads(f, s, g)
  PROVE  Proper(f, Head(s)) /\ Leads(After(f, Head(s)), Tail(s), g)
<1> DEFINE n == Len(s)
           t == Tail(s)
<1>1. /\ n \in Nat \ {0} /\ Head(s) = s[1] /\ Len(t) = n - 1
      /\ \A i \in 1..(n - 1) : t[i] = s[i + 1]
  BY LenProperties, EmptySeq, HeadTailProperties
<1> HIDE DEF t
<1>2. PICK b : Chain(b, f, s, g)
  BY DEF Leads
<1>3. /\ b[0] = f /\ b[n] = g
      /\ \A i \in 1..n : b[i] = After(b[i - 1], s[i]) /\ Proper(b[i - 1], s[i])
  BY <1>2 DEF Chain
<1> HIDE DEF n
<1>4. b[1] = After(f, Head(s)) /\ Proper(f, Head(s))
  <2>1. 1 \in 1..n /\ 1 - 1 = 0
    BY <1>1
  <2>2. QED
    BY <1>1, <1>3, <2>1
<1> DEFINE c == [i \in 0..(n - 1) |-> b[i + 1]]
<1>5. \A i \in 0..(n - 1) : c[i] = b[i + 1]
  BY <1>1
<1> HIDE DEF c
<1>6. c[0] = b[1] /\ c[n - 1] = g
  <2>1. 0 \in 0..(n - 1) /\ n - 1 \in 0..(n - 1) /\ 0 + 1 = 1 /\ (n - 1) + 1 = n
    BY <1>1
  <2>2. QED
    BY <1>3, <1>5, <2>1
<1>7. \A i \in 1..(n - 1) : c[i] = After(c[i - 1], t[i]) /\ Proper(c[i - 1], t[i])
  <2>1. SUFFICES ASSUME NEW i \in 1..(n - 1)
                 PROVE  c[i] = After(c[i - 1], t[i]) /\ Proper(c[i - 1], t[i])
    BY Zenon
  <2>2. /\ i \in 0..(n - 1) /\ i - 1 \in 0..(n - 1) /\ i + 1 \in 1..n
        /\ (i - 1) + 1 = i /\ (i + 1) - 1 = i
    BY <1>1
  <2>3. c[i] = b[i + 1] /\ c[i - 1] = b[i] /\ t[i] = s[i + 1]
    BY <1>1, <1>5, <2>2
  <2>4. b[i + 1] = After(b[i], s[i + 1]) /\ Proper(b[i], s[i + 1])
    BY <1>3, <2>2
  <2>5. QED
    BY <2>3, <2>4
<1>8. Chain(c, b[1], t, g)
  BY <1>1, <1>6, <1>7 DEF Chain
<1>9. QED
  BY <1>4, <1>8 DEF Leads, t

-----------------------------------------------------------------------------
(* The rooms that wait for an answer.                                      *)

Taken(packets) == FlattenSeq([i \in DOMAIN packets |-> TakenBy(packets[i])])
Waiting(asked) == FlattenSeq([i \in DOMAIN asked |-> WaitedFor(asked[i])])

Sent == {Packet(type, r, nicks) : type \in PacketTypes, r \in Room, nicks \in SUBSET Nick}
Asked == [op : {"enter", "leave", "create"}, room : Room]

LEMMA SentFields ==
  ASSUME NEW p \in Sent
  PROVE  /\ p.type \in PacketTypes /\ p.of \in Room /\ p.nicks \subseteq Nick
         /\ p.room \in Room \cup {<< >>}
         /\ p.type \notin {"ROOM_CANLEAVE", "ROOM_NOTEXIST", "ROOM_ALREXIST"} => p.room = p.of
         /\ p \in [type : PacketTypes, of : Room, room : Room \cup {<< >>}, nicks : SUBSET Nick]
<1>1. PICK type \in PacketTypes, r \in Room, nicks \in SUBSET Nick : p = Packet(type, r, nicks)
  BY DEF Sent
<1>2. QED
  BY <1>1 DEF Packet

LEMMA PacketFields ==
  ASSUME NEW type \in PacketTypes, NEW r \in Room, NEW nicks \in SUBSET Nick
  PROVE  /\ Packet(type, r, nicks) \in Sent
         /\ Packet(type, r, nicks).type = type
         /\ Packet(type, r, nicks).of = r
         /\ Packet(type, r, nicks).nicks = nicks
<1>1. Packet(type, r, nicks) \in Sent
  BY SMT DEF Sent
<1>2. QED
  BY <1>1 DEF Packet

LEMMA TakenByType ==
  ASSUME NEW p \in Sent
  PROVE  TakenBy(p) \in Seq(Room)
  BY SentFields DEF TakenBy

LEMMA WaitedForType ==
  ASSUME NEW q \in Asked
  PROVE  WaitedFor(q) \in Seq(Room)
  BY DEF WaitedFor, Asked

LEMMA TakenParts ==
  ASSUME NEW s \in Seq(Sent)
  PROVE  ListOfLists([i \in DOMAIN s |-> TakenBy(s[i])], Room)
<1>1. Len(s) \in Nat /\ DOMAIN s = 1..Len(s) /\ \A i \in 1..Len(s) : s[i] \in Sent
  BY LenProperties, ElementOfSeq
<1>2. \A i \in 1..Len(s) : TakenBy(s[i]) \in Seq(Room)
  BY <1>1, TakenByType
<1>3. [i \in 1..Len(s) |-> TakenBy(s[i])] \in Seq(Seq(Room))
  BY <1>1, <1>2, IsASeq
<1>4. QED
  BY <1>1, <1>3 DEF ListOfLists

LEMMA WaitingParts ==
  ASSUME NEW c \in Seq(Asked)
  PROVE  ListOfLists([i \in DOMAIN c |-> WaitedFor(c[i])], Room)
<1>1. Len(c) \in Nat /\ DOMAIN c = 1..Len(c) /\ \A i \in 1..Len(c) : c[i] \in Asked
  BY LenProperties, ElementOfSeq
<1>2. \A i \in 1..Len(c) : WaitedFor(c[i]) \in Seq(Room)
  BY <1>1, WaitedForType
<1>3. [i \in 1..Len(c) |-> WaitedFor(c[i])] \in Seq(Seq(Room))
  BY <1>1, <1>2, IsASeq
<1>4. QED
  BY <1>1, <1>3 DEF ListOfLists

LEMMA TakenType ==
  ASSUME NEW s \in Seq(Sent)
  PROVE  Taken(s) \in Seq(Room)
  BY TakenParts, FlattenType DEF Taken, ListOfLists

LEMMA WaitingType ==
  ASSUME NEW c \in Seq(Asked)
  PROVE  Waiting(c) \in Seq(Room)
  BY WaitingParts, FlattenType DEF Waiting, ListOfLists

LEMMA TakenOn ==
  ASSUME NEW s \in Seq(Sent), NEW p \in Sent
  PROVE  Taken(Append(s, p)) = Taken(s) \o TakenBy(p)
<1> DEFINE n == Len(s)
           t == Append(s, p)
           a == [i \in DOMAIN s |-> TakenBy(s[i])]
           b == [i \in DOMAIN t |-> TakenBy(t[i])]
<1>1. /\ n \in Nat /\ t \in Seq(Sent) /\ Len(t) = n + 1 /\ t[n + 1] = p
      /\ \A i \in 1..n : t[i] = s[i]
      /\ DOMAIN s = 1..n /\ DOMAIN t = 1..(n + 1)
  BY LenProperties, AppendProperties
<1>2. ListOfLists(a, Room) /\ ListOfLists(b, Room) /\ TakenBy(p) \in Seq(Room)
  BY <1>1, TakenParts, TakenByType
<1>3. Len(a) = n /\ Len(b) = n + 1
  BY <1>1
<1>4. /\ \A i \in 1..n : b[i] = a[i]
      /\ b[n + 1] = TakenBy(p)
  BY <1>1
<1> HIDE DEF a, b, n, t
<1>5. n \in Nat
  BY <1>1
<1>6. FlattenSeq(b) = FlattenSeq(a) \o TakenBy(p)
  BY <1>2, <1>3, <1>4, <1>5, FlattenOn
<1>7. QED
  BY <1>6 DEF Taken, a, b, t

LEMMA TakenFrom ==
  ASSUME NEW s \in Seq(Sent), s # << >>
  PROVE  Taken(s) = TakenBy(Head(s)) \o Taken(Tail(s))
<1> DEFINE n == Len(s) - 1
           t == Tail(s)
           a == [i \in DOMAIN s |-> TakenBy(s[i])]
           b == [i \in DOMAIN t |-> TakenBy(t[i])]
<1>1. Len(s) \in Nat \ {0}
  BY LenProperties, EmptySeq
<1>2. /\ n \in Nat /\ Len(s) = n + 1 /\ t \in Seq(Sent) /\ Len(t) = n /\ s[1] = Head(s)
      /\ \A i \in 1..n : t[i] = s[i + 1]
  BY <1>1, HeadTailProperties
<1>3. DOMAIN s = 1..(n + 1) /\ DOMAIN t = 1..n
  BY <1>2, LenProperties
<1> HIDE DEF t
<1>4. ListOfLists(a, Room) /\ ListOfLists(b, Room)
  BY <1>2, TakenParts
<1>5. Len(a) = n + 1 /\ Len(b) = n
  BY <1>2, <1>3
<1>6. \A i \in 1..n : b[i] = a[i + 1]
  <2>1. \A i \in 1..n : i + 1 \in 1..(n + 1)
    BY <1>2
  <2>2. QED
    BY <1>2, <1>3, <2>1
<1>7. a[1] = TakenBy(Head(s))
  <2>1. 1 \in 1..(n + 1)
    BY <1>2
  <2>2. QED
    BY <1>2, <1>3, <2>1
<1> HIDE DEF a, b, n
<1>8. n \in Nat
  BY <1>2
<1>9. FlattenSeq(a) = a[1] \o FlattenSeq(b)
  BY <1>4, <1>5, <1>6, <1>8, FlattenFrom
<1>10. QED
  BY <1>7, <1>9 DEF Taken, a, b, t

LEMMA WaitingOn ==
  ASSUME NEW s \in Seq(Asked), NEW p \in Asked
  PROVE  Waiting(Append(s, p)) = Waiting(s) \o WaitedFor(p)
<1> DEFINE n == Len(s)
           t == Append(s, p)
           a == [i \in DOMAIN s |-> WaitedFor(s[i])]
           b == [i \in DOMAIN t |-> WaitedFor(t[i])]
<1>1. /\ n \in Nat /\ t \in Seq(Asked) /\ Len(t) = n + 1 /\ t[n + 1] = p
      /\ \A i \in 1..n : t[i] = s[i]
      /\ DOMAIN s = 1..n /\ DOMAIN t = 1..(n + 1)
  BY LenProperties, AppendProperties
<1>2. ListOfLists(a, Room) /\ ListOfLists(b, Room) /\ WaitedFor(p) \in Seq(Room)
  BY <1>1, WaitingParts, WaitedForType
<1>3. Len(a) = n /\ Len(b) = n + 1
  BY <1>1
<1>4. /\ \A i \in 1..n : b[i] = a[i]
      /\ b[n + 1] = WaitedFor(p)
  BY <1>1
<1> HIDE DEF a, b, n, t
<1>5. n \in Nat
  BY <1>1
<1>6. FlattenSeq(b) = FlattenSeq(a) \o WaitedFor(p)
  BY <1>2, <1>3, <1>4, <1>5, FlattenOn
<1>7. QED
  BY <1>6 DEF Waiting, a, b, t

LEMMA WaitingFrom ==
  ASSUME NEW s \in Seq(Asked), s # << >>
  PROVE  Waiting(s) = WaitedFor(Head(s)) \o Waiting(Tail(s))
<1> DEFINE n == Len(s) - 1
           t == Tail(s)
           a == [i \in DOMAIN s |-> WaitedFor(s[i])]
           b == [i \in DOMAIN t |-> WaitedFor(t[i])]
<1>1. Len(s) \in Nat \ {0}
  BY LenProperties, EmptySeq
<1>2. /\ n \in Nat /\ Len(s) = n + 1 /\ t \in Seq(Asked) /\ Len(t) = n /\ s[1] = Head(s)
      /\ \A i \in 1..n : t[i] = s[i + 1]
  BY <1>1, HeadTailProperties
<1>3. DOMAIN s = 1..(n + 1) /\ DOMAIN t = 1..n
  BY <1>2, LenProperties
<1> HIDE DEF t
<1>4. ListOfLists(a, Room) /\ ListOfLists(b, Room)
  BY <1>2, WaitingParts
<1>5. Len(a) = n + 1 /\ Len(b) = n
  BY <1>2, <1>3
<1>6. \A i \in 1..n : b[i] = a[i + 1]
  <2>1. \A i \in 1..n : i + 1 \in 1..(n + 1)
    BY <1>2
  <2>2. QED
    BY <1>2, <1>3, <2>1
<1>7. a[1] = WaitedFor(Head(s))
  <2>1. 1 \in 1..(n + 1)
    BY <1>2
  <2>2. QED
    BY <1>2, <1>3, <2>1
<1> HIDE DEF a, b, n
<1>8. n \in Nat
  BY <1>2
<1>9. FlattenSeq(a) = a[1] \o FlattenSeq(b)
  BY <1>4, <1>5, <1>6, <1>8, FlattenFrom
<1>10. QED
  BY <1>7, <1>9 DEF Waiting, a, b, t

LEMMA NothingWaits == Taken(<< >>) = << >> /\ Waiting(<< >>) = << >>
  BY FlattenEmpty DEF Taken, Waiting

-----------------------------------------------------------------------------
(* Lists of users, and the IRC client's of the session's.                  *)

LEMMA ListsIntro ==
  ASSUME NEW N, NEW D \in SUBSET N, NEW f \in [D -> SUBSET Nick]
  PROVE  f \in Lists(N)
  BY DEF Lists

LEMMA ListsElim ==
  ASSUME NEW N, NEW f \in Lists(N)
  PROVE  DOMAIN f \subseteq N /\ f \in [DOMAIN f -> SUBSET Nick]
<1>1. PICK D \in SUBSET N : f \in [D -> SUBSET Nick]
  BY DEF Lists
<1>2. QED
  BY <1>1

LEMMA WithType ==
  ASSUME NEW N, NEW f \in Lists(N), NEW r \in N, NEW nicks \in SUBSET Nick
  PROVE  With(f, r, nicks) \in Lists(N)
<1>1. DOMAIN f \subseteq N /\ f \in [DOMAIN f -> SUBSET Nick]
  BY ListsElim
<1>2. With(f, r, nicks) \in [DOMAIN f \cup {r} -> SUBSET Nick]
  BY <1>1 DEF With
<1>3. DOMAIN f \cup {r} \in SUBSET N
  BY <1>1
<1>4. QED
  BY <1>2, <1>3, ListsIntro

LEMMA LessType ==
  ASSUME NEW N, NEW f \in Lists(N), NEW r
  PROVE  Less(f, r) \in Lists(N)
<1>1. DOMAIN f \subseteq N /\ f \in [DOMAIN f -> SUBSET Nick]
  BY ListsElim
<1>2. Less(f, r) \in [DOMAIN f \ {r} -> SUBSET Nick]
  BY <1>1 DEF Less
<1>3. DOMAIN f \ {r} \in SUBSET N
  BY <1>1
<1>4. QED
  BY <1>2, <1>3, ListsIntro

LEMMA NoListType ==
  ASSUME NEW N
  PROVE  << >> \in Lists(N)
<1>1. << >> \in [{} -> SUBSET Nick]
  OBVIOUS
<1>2. QED
  BY <1>1, ListsIntro

(* ViewIsChans, of any two lists. *)
Shows(v, f) ==
  /\ DOMAIN v = {Encode(r) : r \in DOMAIN f}
  /\ \A r \in DOMAIN f : v[Encode(r)] = f[r] /\ Decode(Encode(r)) = r

LEMMA RoomDecodes ==
  ASSUME NEW r \in Room
  PROVE  Decode(Encode(r)) = r
<1>1. r \in Seq(Char) /\ r # << >>
  BY RoomsAssumption
<1>2. QED
  BY <1>1, DecodeEncode

LEMMA EncodeInjective ==
  ASSUME NEW r \in Room, NEW q \in Room, Encode(r) = Encode(q)
  PROVE  r = q
<1>1. Decode(Encode(r)) = r /\ Decode(Encode(q)) = q
  BY RoomDecodes
<1>2. QED
  BY <1>1

LEMMA ShowsWith ==
  ASSUME NEW v, NEW f, DOMAIN f \subseteq Room, Shows(v, f), NEW r \in Room, NEW nicks
  PROVE  Shows(With(v, Encode(r), nicks), With(f, r, nicks))
<1> DEFINE w == With(v, Encode(r), nicks)
           g == With(f, r, nicks)
<1>1. /\ DOMAIN v = {Encode(q) : q \in DOMAIN f}
      /\ \A q \in DOMAIN f : v[Encode(q)] = f[q]
  BY DEF Shows
<1>2. /\ DOMAIN w = DOMAIN v \cup {Encode(r)}
      /\ \A x \in DOMAIN v : x # Encode(r) => w[x] = v[x]
      /\ w[Encode(r)] = nicks
  BY DEF With
<1>3. /\ DOMAIN g = DOMAIN f \cup {r}
      /\ \A q \in DOMAIN f : q # r => g[q] = f[q]
      /\ g[r] = nicks
  BY DEF With
<1> HIDE DEF w, g
<1>4. DOMAIN w = {Encode(q) : q \in DOMAIN g}
  BY <1>1, <1>2, <1>3
<1>5. ASSUME NEW q \in DOMAIN g
      PROVE  w[Encode(q)] = g[q] /\ Decode(Encode(q)) = q
  <2>1. q \in Room
    BY <1>3
  <2>2. Decode(Encode(q)) = q
    BY <2>1, RoomDecodes
  <2>3. CASE q = r
    BY <1>2, <1>3, <2>2, <2>3
  <2>4. CASE q # r
    <3>1. Encode(q) # Encode(r)
      BY <2>1, <2>4, EncodeInjective
    <3>2. q \in DOMAIN f /\ Encode(q) \in DOMAIN v
      BY <1>1, <1>3, <2>4
    <3>3. QED
      BY <1>1, <1>2, <1>3, <2>2, <2>4, <3>1, <3>2
  <2>5. QED
    BY <2>3, <2>4
<1>6. QED
  BY <1>4, <1>5 DEF Shows, w, g

LEMMA ShowsLess ==
  ASSUME NEW v, NEW f, DOMAIN f \subseteq Room, Shows(v, f), NEW r \in Room
  PROVE  Shows(Less(v, Encode(r)), Less(f, r))
<1> DEFINE w == Less(v, Encode(r))
           g == Less(f, r)
<1>1. /\ DOMAIN v = {Encode(q) : q \in DOMAIN f}
      /\ \A q \in DOMAIN f : v[Encode(q)] = f[q]
  BY DEF Shows
<1>2. DOMAIN w = DOMAIN v \ {Encode(r)} /\ \A x \in DOMAIN w : w[x] = v[x]
  BY DEF Less
<1>3. DOMAIN g = DOMAIN f \ {r} /\ \A q \in DOMAIN g : g[q] = f[q]
  BY DEF Less
<1> HIDE DEF w, g
<1>4. \A q \in DOMAIN g : q \in DOMAIN f /\ q \in Room /\ Encode(q) # Encode(r)
  BY <1>3, EncodeInjective
<1>5. DOMAIN w = {Encode(q) : q \in DOMAIN g}
  BY <1>1, <1>2, <1>3, <1>4
<1>6. \A q \in DOMAIN g : w[Encode(q)] = g[q] /\ Decode(Encode(q)) = q
  <2>1. \A q \in DOMAIN g : Decode(Encode(q)) = q
    BY <1>4, RoomDecodes
  <2>2. \A q \in DOMAIN g : Encode(q) \in DOMAIN w
    BY <1>5
  <2>3. QED
    BY <1>1, <1>2, <1>3, <1>4, <2>1, <2>2
<1>7. QED
  BY <1>5, <1>6 DEF Shows, w, g

-----------------------------------------------------------------------------
(* The invariant, by whose state it is.                                    *)

Names == {Encode(r) : r \in Room}

ClientInv ==
  /\ proom \in Seq(Room)
  /\ chans \in Lists(Room)
  /\ view \in Lists(Names)
  /\ Shows(view, chans)
  /\ stray \in BOOLEAN
  /\ untold \subseteq PacketTypes

ServerInv ==
  /\ inside \subseteq existing
  /\ existing \subseteq Room
  /\ unasked \in BOOLEAN
  /\ members \in [Room -> SUBSET Nick]

FlightInv == c2s \in Seq(Asked) /\ s2c \in Seq(Sent)

CountInv == requests \in 0..MaxRequests /\ moves \in 0..MaxMoves

Waits == ~unasked => proom = Taken(s2c) \o Waiting(c2s)

ServersRooms == [r \in inside |-> members[r]]

Past == ~unasked => Leads(chans, s2c, ServersRooms) /\ ~stray

Types == ClientInv /\ ServerInv /\ FlightInv /\ CountInv
Inv == Types /\ Waits /\ Past

LEMMA InitTypes == Init => Types
<1> SUFFICES ASSUME Init
             PROVE  Types
  OBVIOUS
<1>1. ClientInv
  <2>1. Shows(<< >>, << >>)
    BY DEF Shows
  <2>2. << >> \in Lists(Room) /\ << >> \in Lists(Names)
    BY NoListType
  <2>3. << >> \in Seq(Room)
    OBVIOUS
  <2>4. QED
    BY <2>1, <2>2, <2>3 DEF Init, ClientInv
<1>2. ServerInv
  BY DEF Init, ServerInv
<1>3. FlightInv
  BY DEF Init, FlightInv
<1>4. CountInv
  BY RoomsAssumption DEF Init, CountInv
<1>5. QED
  BY <1>1, <1>2, <1>3, <1>4 DEF Types

LEMMA InitInv == Init => Inv
<1> SUFFICES ASSUME Init
             PROVE  Inv
  OBVIOUS
<1>1. Types
  BY InitTypes
<1>2. Waits
  <2>1. << >> \o << >> = << >>
    BY ConcatEmptySeq, EmptySeq
  <2>2. QED
    BY <2>1, NothingWaits DEF Init, Waits
<1>3. Past
  <2>1. ServersRooms = << >>
    BY DEF Init, ServersRooms
  <2>2. Leads(<< >>, << >>, << >>)
    BY LeadsNowhere
  <2>3. QED
    BY <2>1, <2>2 DEF Init, Past
<1>4. QED
  BY <1>1, <1>2, <1>3 DEF Inv

LEMMA RequestType ==
  ASSUME Types, NEW op \in {"enter", "leave", "create"}, NEW r \in Room, Request(op, r),
         proom' \in Seq(Room)
  PROVE  Types'
<1>1. ClientInv'
  BY DEF Types, ClientInv, Request
<1>2. ServerInv'
  BY DEF Types, ServerInv, Request, serverVars
<1>3. FlightInv'
  <2>1. [op |-> op, room |-> r] \in Asked
    BY DEF Asked
  <2>2. c2s \in Seq(Asked) /\ s2c \in Seq(Sent)
    BY DEF Types, FlightInv
  <2>3. c2s' = Append(c2s, [op |-> op, room |-> r]) /\ s2c' = s2c
    BY DEF Request
  <2>4. Append(c2s, [op |-> op, room |-> r]) \in Seq(Asked)
    BY <2>1, <2>2, AppendProperties
  <2>5. QED
    BY <2>2, <2>3, <2>4 DEF FlightInv
<1>4. CountInv'
  BY RoomsAssumption DEF Types, CountInv, Request
<1>5. QED
  BY <1>1, <1>2, <1>3, <1>4 DEF Types

(* An answer leaves the client alone. *)
LEMMA AnswerType ==
  ASSUME Types, NEW q, NEW p \in Sent, Answer(q, p), ServerInv'
  PROVE  Types'
<1>1. ClientInv'
  BY DEF Types, ClientInv, Answer, clientVars
<1>2. FlightInv'
  <2>1. c2s # << >> /\ c2s \in Seq(Asked) /\ s2c \in Seq(Sent)
    BY DEF Types, FlightInv, Answer
  <2>2. c2s' = Tail(c2s) /\ s2c' = Append(s2c, p)
    BY DEF Answer
  <2>3. Tail(c2s) \in Seq(Asked)
    BY <2>1, HeadTailProperties
  <2>4. Append(s2c, p) \in Seq(Sent)
    BY <2>1, AppendProperties
  <2>5. QED
    BY <2>2, <2>3, <2>4 DEF FlightInv
<1>3. CountInv'
  BY DEF Types, CountInv, Answer
<1>4. QED
  BY <1>1, <1>2, <1>3 DEF Types

LEMMA ReceiveType ==
  ASSUME Types, NEW type, Receive(type), ClientInv'
  PROVE  Types'
<1>1. ServerInv'
  BY DEF Types, ServerInv, Receive, serverVars
<1>2. FlightInv'
  <2>1. s2c # << >> /\ c2s \in Seq(Asked) /\ s2c \in Seq(Sent)
    BY DEF Types, FlightInv, Receive
  <2>2. c2s' = c2s /\ s2c' = Tail(s2c)
    BY DEF Receive
  <2>3. Tail(s2c) \in Seq(Sent)
    BY <2>1, HeadTailProperties
  <2>4. QED
    BY <2>1, <2>2, <2>3 DEF FlightInv
<1>3. CountInv'
  BY DEF Types, CountInv, Receive
<1>4. QED
  BY <1>1, <1>2, <1>3 DEF Types

(* What a packet that is received has to say. *)
LEMMA ReceivedPacket ==
  ASSUME Types, NEW type, Receive(type)
  PROVE  /\ Head(s2c) \in Sent /\ Head(s2c).type = type /\ type \in PacketTypes
         /\ Head(s2c).of \in Room /\ Head(s2c).nicks \in SUBSET Nick
         /\ type \notin {"ROOM_CANLEAVE", "ROOM_NOTEXIST", "ROOM_ALREXIST"} =>
              Head(s2c).room = Head(s2c).of
<1>1. s2c # << >> /\ s2c \in Seq(Sent) /\ Head(s2c).type = type
  BY DEF Types, FlightInv, Receive
<1>2. Head(s2c) \in Sent
  BY <1>1, HeadTailProperties
<1>3. QED
  BY <1>1, <1>2, SentFields

LEMMA PopType ==
  ASSUME proom \in Seq(Room), PopRoom
  PROVE  proom' \in Seq(Room)
  BY HeadTailProperties, EmptySeq DEF PopRoom

LEMMA ToldType ==
  ASSUME untold \subseteq PacketTypes, NEW event, NEW type \in PacketTypes, Told(event, type)
  PROVE  untold' \subseteq PacketTypes
  BY DEF Told

LEMMA RequestsTyped ==
  ASSUME Types,
         \/ \E ch \in Channel : Enter(ch) \/ Leave(ch)
         \/ \E name \in NewName : Create(name)
  PROVE  Types'
<1>1. \A name \in Channel \cup NewName : Decode(name) \in Room
  BY RoomsAssumption
<1>2. proom \in Seq(Room)
  BY DEF Types, ClientInv
<1>3. ASSUME NEW ch \in Channel, Enter(ch)
      PROVE  Types'
  <2>1. Append(proom, Decode(ch)) \in Seq(Room) /\ Decode(ch) \in Room
    BY <1>1, <1>2, AppendProperties
  <2>2. proom' \in Seq(Room) /\ Request("enter", Decode(ch))
    BY <1>3, <2>1 DEF Enter, Await
  <2>3. QED
    BY <2>1, <2>2, RequestType
<1>4. ASSUME NEW ch \in Channel, Leave(ch)
      PROVE  Types'
  <2>1. Append(proom, Decode(ch)) \in Seq(Room) /\ Decode(ch) \in Room
    BY <1>1, <1>2, AppendProperties
  <2>2. proom' \in Seq(Room) /\ Request("leave", Decode(ch))
    BY <1>4, <2>1 DEF Leave, Await
  <2>3. QED
    BY <2>1, <2>2, RequestType
<1>5. ASSUME NEW name \in NewName, Create(name)
      PROVE  Types'
  <2>1. Decode(name) \in Room
    BY <1>1
  <2>2. proom' \in Seq(Room) /\ Request("create", Decode(name))
    BY <1>2, <1>5 DEF Create
  <2>3. QED
    BY <2>1, <2>2, RequestType
<1>6. QED
  BY <1>3, <1>4, <1>5

LEMMA UserListSent ==
  ASSUME Types, NEW r \in Room
  PROVE  /\ UserList(r) \in Sent
         /\ UserList(r).type = "ROOM_USERLIST"
         /\ UserList(r).of = r
         /\ UserList(r).nicks = members[r]
<1>1. members[r] \in SUBSET Nick /\ "ROOM_USERLIST" \in PacketTypes
  BY DEF Types, ServerInv, PacketTypes
<1>2. QED
  BY <1>1, PacketFields DEF UserList

LEMMA AnswersTyped ==
  ASSUME Types, AnswerEnter \/ AnswerLeave \/ AnswerCreate
  PROVE  Types'
<1>1. /\ inside \subseteq existing /\ existing \subseteq Room /\ unasked \in BOOLEAN
      /\ members \in [Room -> SUBSET Nick]
  BY DEF Types, ServerInv
<1>2. \A r \in Room :
        /\ Packet("ROOM_ISFULL", r, {}) \in Sent /\ Packet("ROOM_NOTEXIST", r, {}) \in Sent
        /\ Packet("ROOM_CANLEAVE", r, {}) \in Sent /\ Packet("ROOM_ALREXIST", r, {}) \in Sent
  <2>1. {"ROOM_ISFULL", "ROOM_NOTEXIST", "ROOM_CANLEAVE", "ROOM_ALREXIST"} \subseteq PacketTypes
    BY DEF PacketTypes
  <2>2. {} \in SUBSET Nick
    OBVIOUS
  <2>3. QED
    BY <2>1, <2>2, PacketFields
<1>3. ASSUME NEW q, NEW p \in Sent, Answer(q, p),
             inside' \subseteq existing', existing' \subseteq Room, unasked' \in BOOLEAN
      PROVE  Types'
  <2>1. ServerInv'
    BY <1>1, <1>3 DEF ServerInv, Answer
  <2>2. QED
    BY <1>3, <2>1, AnswerType
<1>4. CASE AnswerEnter
  <2>1. PICK r \in Room :
          \/ /\ r \in existing
             /\ Answer([op |-> "enter", room |-> r], UserList(r))
             /\ inside' = inside \cup {r}
             /\ UNCHANGED <<existing, unasked>>
          \/ /\ r \in existing
             /\ Answer([op |-> "enter", room |-> r], Packet("ROOM_ISFULL", r, {}))
             /\ r \notin inside
             /\ UNCHANGED <<inside, existing, unasked>>
          \/ /\ r \notin existing
             /\ Answer([op |-> "enter", room |-> r], Packet("ROOM_NOTEXIST", r, {}))
             /\ UNCHANGED <<inside, existing, unasked>>
    BY <1>4 DEF AnswerEnter
  <2>2. inside' \subseteq existing' /\ existing' \subseteq Room /\ unasked' \in BOOLEAN
    BY <1>1, <2>1
  <2>3. QED
    BY <1>2, <1>3, <2>1, <2>2, UserListSent
<1>5. CASE AnswerLeave
  <2>1. PICK r \in Room :
          /\ Answer([op |-> "leave", room |-> r], Packet("ROOM_CANLEAVE", r, {}))
          /\ inside' = inside \ {r}
          /\ UNCHANGED <<existing, unasked>>
    BY <1>5 DEF AnswerLeave
  <2>2. inside' \subseteq existing' /\ existing' \subseteq Room /\ unasked' \in BOOLEAN
    BY <1>1, <2>1
  <2>3. QED
    BY <1>2, <1>3, <2>1, <2>2
<1>6. CASE AnswerCreate
  <2>1. PICK r \in Room :
          \/ /\ r \in existing
             /\ Answer([op |-> "create", room |-> r], Packet("ROOM_ALREXIST", r, {}))
             /\ UNCHANGED <<inside, existing, unasked>>
          \/ /\ r \notin existing
             /\ Answer([op |-> "create", room |-> r], UserList(r))
             /\ inside' = inside \cup {r}
             /\ existing' = existing \cup {r}
             /\ unasked' = TRUE
          \/ /\ r \notin existing
             /\ c2s # <<>>
             /\ Head(c2s) = [op |-> "create", room |-> r]
             /\ c2s' = Tail(c2s)
             /\ existing' = existing \cup {r}
             /\ UNCHANGED <<clientVars, s2c, inside, members, unasked, requests, moves>>
    BY <1>6 DEF AnswerCreate
  <2>2. inside' \subseteq existing' /\ existing' \subseteq Room /\ unasked' \in BOOLEAN
    BY <1>1, <2>1
  <2>3. CASE \E q : \E p \in Sent : Answer(q, p)
    BY <1>3, <2>2, <2>3
  <2>4. CASE /\ c2s # << >> /\ c2s' = Tail(c2s)
             /\ UNCHANGED <<clientVars, s2c, inside, members, unasked, requests, moves>>
    <3>1. ClientInv'
      BY <2>4 DEF Types, ClientInv, clientVars
    <3>2. ServerInv'
      BY <1>1, <2>2, <2>4 DEF ServerInv
    <3>3. FlightInv'
      BY <2>4, HeadTailProperties DEF Types, FlightInv
    <3>4. CountInv'
      BY <2>4 DEF Types, CountInv
    <3>5. QED
      BY <3>1, <3>2, <3>3, <3>4 DEF Types
  <2>5. QED
    BY <1>2, <2>1, <2>3, <2>4, UserListSent
<1>7. QED
  BY <1>4, <1>5, <1>6

(* What the others do: of those inside the session is told. *)
LEMMA OthersTyped ==
  ASSUME Types, OtherMoves \/ OtherSpeaks
  PROVE  Types'
<1>1. /\ inside \subseteq existing /\ existing \subseteq Room
      /\ members \in [Room -> SUBSET Nick] /\ s2c \in Seq(Sent)
  BY DEF Types, ServerInv, FlightInv
<1>2. MaxMoves \in Nat /\ moves \in 0..MaxMoves
  BY RoomsAssumption DEF Types, CountInv
<1>3. CASE OtherMoves
  <2>1. PICK r \in Room, n \in Nick, type \in {"ROOM_USERENTER", "ROOM_USERLEAVE"},
             others \in SUBSET Nick : Move(r, type, n, others)
    <3>1. PICK r \in Room, n \in Nick :
            \/ Move(r, "ROOM_USERENTER", n, members[r] \cup {n})
            \/ Move(r, "ROOM_USERLEAVE", n, members[r] \ {n})
      BY <1>3 DEF OtherMoves
    <3>2. members[r] \cup {n} \in SUBSET Nick /\ members[r] \ {n} \in SUBSET Nick
      BY <1>1
    <3>3. QED
      BY <3>1, <3>2
  <2>2. Packet(type, r, {n}) \in Sent
    <3>1. type \in PacketTypes /\ {n} \in SUBSET Nick
      BY DEF PacketTypes
    <3>2. QED
      BY <3>1, PacketFields
  <2>3. ClientInv'
    BY <2>1 DEF Types, ClientInv, Move, clientVars
  <2>4. ServerInv'
    BY <2>1 DEF Types, ServerInv, Move
  <2>5. FlightInv'
    <3>1. Append(s2c, Packet(type, r, {n})) \in Seq(Sent)
      BY <1>1, <2>2, AppendProperties
    <3>2. c2s' = c2s /\ (s2c' = s2c \/ s2c' = Append(s2c, Packet(type, r, {n})))
      BY <2>1 DEF Move
    <3>3. QED
      BY <3>1, <3>2 DEF Types, FlightInv
  <2>6. CountInv'
    BY <1>2, <2>1 DEF Types, CountInv, Move
  <2>7. QED
    BY <2>3, <2>4, <2>5, <2>6 DEF Types
<1>4. CASE OtherSpeaks
  <2>1. PICK r \in inside, n \in Nick :
          /\ moves < MaxMoves
          /\ moves' = moves + 1
          /\ s2c' = Append(s2c, Packet("ROOM_MSG", r, {n}))
          /\ UNCHANGED <<clientVars, c2s, serverVars, requests>>
    BY <1>1, <1>4 DEF OtherSpeaks
  <2>2. Packet("ROOM_MSG", r, {n}) \in Sent
    <3>1. "ROOM_MSG" \in PacketTypes /\ {n} \in SUBSET Nick /\ r \in Room
      BY <1>1 DEF PacketTypes
    <3>2. QED
      BY <3>1, PacketFields
  <2>3. ClientInv'
    BY <2>1 DEF Types, ClientInv, clientVars
  <2>4. ServerInv'
    BY <2>1 DEF Types, ServerInv, serverVars
  <2>5. FlightInv'
    <3>1. Append(s2c, Packet("ROOM_MSG", r, {n})) \in Seq(Sent)
      BY <1>1, <2>2, AppendProperties
    <3>2. QED
      BY <2>1, <3>1 DEF Types, FlightInv
  <2>6. CountInv'
    BY <1>2, <2>1 DEF Types, CountInv
  <2>7. QED
    BY <2>3, <2>4, <2>5, <2>6 DEF Types
<1>5. QED
  BY <1>3, <1>4

(* The session's list and the client's change together. *)
LEMMA BothWith ==
  ASSUME ClientInv, NEW r \in Room, NEW nicks \in SUBSET Nick,
         chans' = With(chans, r, nicks), view' = With(view, Encode(r), nicks)
  PROVE  chans' \in Lists(Room) /\ view' \in Lists(Names) /\ Shows(view', chans')
<1>1. chans \in Lists(Room) /\ view \in Lists(Names) /\ Shows(view, chans) /\ Encode(r) \in Names
  BY DEF ClientInv, Names
<1>2. DOMAIN chans \subseteq Room
  BY <1>1, ListsElim
<1>3. With(chans, r, nicks) \in Lists(Room)
  BY <1>1, WithType
<1>4. With(view, Encode(r), nicks) \in Lists(Names)
  BY <1>1, WithType
<1>5. Shows(With(view, Encode(r), nicks), With(chans, r, nicks))
  BY <1>1, <1>2, ShowsWith
<1>6. QED
  BY <1>3, <1>4, <1>5

LEMMA BothLess ==
  ASSUME ClientInv, NEW r \in Room,
         chans' = Less(chans, r), view' = Less(view, Encode(r))
  PROVE  chans' \in Lists(Room) /\ view' \in Lists(Names) /\ Shows(view', chans')
<1>1. chans \in Lists(Room) /\ view \in Lists(Names) /\ Shows(view, chans)
  BY DEF ClientInv
<1>2. DOMAIN chans \subseteq Room
  BY <1>1, ListsElim
<1>3. Less(chans, r) \in Lists(Room)
  BY <1>1, LessType
<1>4. Less(view, Encode(r)) \in Lists(Names)
  BY <1>1, LessType
<1>5. Shows(Less(view, Encode(r)), Less(chans, r))
  BY <1>1, <1>2, ShowsLess
<1>6. QED
  BY <1>3, <1>4, <1>5

LEMMA BothSame ==
  ASSUME ClientInv, UNCHANGED <<chans, view>>
  PROVE  chans' \in Lists(Room) /\ view' \in Lists(Names) /\ Shows(view', chans')
  BY DEF ClientInv

LEMMA ReceivedTyped ==
  ASSUME Types,
         \/ RecvUserList \/ RecvCanLeave \/ RecvNotExist \/ RecvIsFull
         \/ RecvAlrExist \/ RecvMove \/ RecvMessage
  PROVE  Types'
<1>1. ClientInv /\ proom \in Seq(Room) /\ untold \subseteq PacketTypes /\ stray \in BOOLEAN
      /\ chans \in Lists(Room) /\ Shows(view, chans)
  BY DEF Types, ClientInv
<1>2. ASSUME NEW type, Receive(type), proom' \in Seq(Room), untold' \subseteq PacketTypes,
             chans' \in Lists(Room) /\ view' \in Lists(Names) /\ Shows(view', chans'),
             stray' \in BOOLEAN
      PROVE  Types'
  <2>1. ClientInv'
    BY <1>2 DEF ClientInv
  <2>2. QED
    BY <1>2, <2>1, ReceiveType
<1>3. CASE RecvUserList
  <2>1. Receive("ROOM_USERLIST") /\ PopRoom /\ Told("gui room user list", "ROOM_USERLIST")
    BY <1>3 DEF RecvUserList, PopUnread
  <2> DEFINE r == Head(s2c).room
             nicks == Head(s2c).nicks
  <2>2. r \in Room /\ nicks \in SUBSET Nick /\ "ROOM_USERLIST" \in PacketTypes
    <3>1. /\ Head(s2c).of \in Room /\ nicks \in SUBSET Nick /\ "ROOM_USERLIST" \in PacketTypes
          /\ "ROOM_USERLIST" \notin {"ROOM_CANLEAVE", "ROOM_NOTEXIST", "ROOM_ALREXIST"} =>
               r = Head(s2c).of
      BY <2>1, ReceivedPacket
    <3>2. QED
      BY <3>1
  <2>3. \/ chans' = With(chans, r, nicks) /\ view' = With(view, Encode(r), nicks)
        \/ UNCHANGED <<chans, view>>
    BY <1>3 DEF RecvUserList
  <2> HIDE DEF r, nicks
  <2>4. chans' \in Lists(Room) /\ view' \in Lists(Names) /\ Shows(view', chans')
    BY <1>1, <2>2, <2>3, BothWith, BothSame
  <2>5. proom' \in Seq(Room) /\ untold' \subseteq PacketTypes
    BY <1>1, <2>1, <2>2, PopType, ToldType
  <2>6. stray' \in BOOLEAN
    BY <1>1, <2>1 DEF Receive
  <2>7. QED
    BY <1>2, <2>1, <2>4, <2>5, <2>6
<1>4. CASE RecvCanLeave
  <2>1. Receive("ROOM_CANLEAVE")
    BY <1>4 DEF RecvCanLeave
  <2>2. "ROOM_CANLEAVE" \in PacketTypes
    BY DEF PacketTypes
  <2>3. stray' \in BOOLEAN
    BY <1>1, <2>1 DEF Receive
  <2>4. CASE proom = << >>
    <3>1. Told("", "ROOM_CANLEAVE") /\ UNCHANGED <<proom, chans, view>>
      BY <1>4, <2>4 DEF RecvCanLeave
    <3>2. untold' \subseteq PacketTypes
      BY <1>1, <2>2, <3>1, ToldType
    <3>3. QED
      BY <1>1, <1>2, <2>1, <2>3, <3>1, <3>2, BothSame
  <2>5. CASE proom # << >>
    <3>1. /\ PopRoom
          /\ Told("gui room can leave", "ROOM_CANLEAVE")
          /\ \/ /\ chans' = Less(chans, Head(proom))
                /\ view' = Less(view, Encode(Head(proom)))
             \/ UNCHANGED <<chans, view>>
      BY <1>4, <2>5 DEF RecvCanLeave, DropChannel, RoomOfAnswer
    <3>2. Head(proom) \in Room
      BY <1>1, <2>5, HeadTailProperties
    <3>3. chans' \in Lists(Room) /\ view' \in Lists(Names) /\ Shows(view', chans')
      BY <1>1, <3>1, <3>2, BothLess, BothSame
    <3>4. proom' \in Seq(Room) /\ untold' \subseteq PacketTypes
      BY <1>1, <2>2, <3>1, PopType, ToldType
    <3>5. QED
      BY <1>2, <2>1, <2>3, <3>3, <3>4
  <2>6. QED
    BY <2>4, <2>5
<1>5. CASE RecvNotExist
  <2>1. Receive("ROOM_NOTEXIST") /\ PopRoom /\ UNCHANGED <<chans, view>>
    BY <1>5 DEF RecvNotExist
  <2>2. \E event : Told(event, "ROOM_NOTEXIST")
    BY <1>5 DEF RecvNotExist
  <2>3. proom' \in Seq(Room) /\ untold' \subseteq PacketTypes
    BY <1>1, <2>1, <2>2, PopType, ToldType DEF PacketTypes
  <2>4. stray' \in BOOLEAN
    BY <1>1, <2>1 DEF Receive
  <2>5. QED
    BY <1>1, <1>2, <2>1, <2>3, <2>4, BothSame
<1>6. CASE RecvIsFull
  <2>1. Receive("ROOM_ISFULL") /\ PopRoom /\ UNCHANGED <<chans, view>>
    BY <1>6 DEF RecvIsFull, PopUnread
  <2>2. \E event : Told(event, "ROOM_ISFULL")
    BY <1>6 DEF RecvIsFull
  <2>3. proom' \in Seq(Room) /\ untold' \subseteq PacketTypes
    BY <1>1, <2>1, <2>2, PopType, ToldType DEF PacketTypes
  <2>4. stray' \in BOOLEAN
    BY <1>1, <2>1 DEF Receive
  <2>5. QED
    BY <1>1, <1>2, <2>1, <2>3, <2>4, BothSame
<1>7. CASE RecvAlrExist
  <2>1. Receive("ROOM_ALREXIST") /\ UNCHANGED <<proom, chans, view>>
    BY <1>7 DEF RecvAlrExist
  <2>2. \E event : Told(event, "ROOM_ALREXIST")
    BY <1>7 DEF RecvAlrExist
  <2>3. proom' \in Seq(Room) /\ untold' \subseteq PacketTypes
    BY <1>1, <2>1, <2>2, ToldType DEF PacketTypes
  <2>4. stray' \in BOOLEAN
    BY <1>1, <2>1 DEF Receive
  <2>5. QED
    BY <1>1, <1>2, <2>1, <2>3, <2>4, BothSame
<1>8. CASE RecvMove
  <2>1. PICK type \in {"ROOM_USERENTER", "ROOM_USERLEAVE"} : Receive(type)
    BY <1>8 DEF RecvMove
  <2> DEFINE r == Head(s2c).room
             nicks == Head(s2c).nicks
  <2>2. r \in Room /\ nicks \in SUBSET Nick
    BY <2>1, ReceivedPacket
  <2>3. \/ /\ r \in DOMAIN chans
           /\ \/ /\ chans' = With(chans, r, chans[r] \cup nicks)
                 /\ view' = With(view, Encode(r), view[Encode(r)] \cup nicks)
              \/ /\ chans' = With(chans, r, chans[r] \ nicks)
                 /\ view' = With(view, Encode(r), view[Encode(r)] \ nicks)
        \/ UNCHANGED <<chans, view>>
    BY <1>8 DEF RecvMove, Joined
  <2>4. proom' = proom /\ untold' = untold
    BY <1>8 DEF RecvMove
  <2> HIDE DEF r, nicks
  <2>5. r \in DOMAIN chans => view[Encode(r)] = chans[r] /\ chans[r] \subseteq Nick
    BY <1>1, ListsElim DEF Shows
  <2>6. \/ \E others \in SUBSET Nick :
             /\ chans' = With(chans, r, others)
             /\ view' = With(view, Encode(r), others)
        \/ UNCHANGED <<chans, view>>
    <3>1. CASE r \in DOMAIN chans
      <4>1. chans[r] \cup nicks \in SUBSET Nick /\ chans[r] \ nicks \in SUBSET Nick
        BY <2>2, <2>5, <3>1
      <4>2. view[Encode(r)] = chans[r]
        BY <2>5, <3>1
      <4>3. QED
        BY <2>3, <4>1, <4>2
    <3>2. CASE r \notin DOMAIN chans
      BY <2>3, <3>2
    <3>3. QED
      BY <3>1, <3>2
  <2>7. chans' \in Lists(Room) /\ view' \in Lists(Names) /\ Shows(view', chans')
    BY <1>1, <2>2, <2>6, BothWith, BothSame
  <2>8. stray' \in BOOLEAN
    BY <1>1, <2>1 DEF Receive
  <2>9. QED
    BY <1>1, <1>2, <2>1, <2>4, <2>7, <2>8
<1>9. CASE RecvMessage
  <2>1. Receive("ROOM_MSG") /\ UNCHANGED <<proom, chans, view, untold>> /\ stray' \in BOOLEAN
    BY <1>1, <1>9 DEF RecvMessage
  <2>2. QED
    BY <1>1, <1>2, <2>1, BothSame
<1>10. QED
  BY <1>3, <1>4, <1>5, <1>6, <1>7, <1>8, <1>9

LEMMA TypesStep ==
  ASSUME Types, [Next]_vars
  PROVE  Types'
<1>1. CASE UNCHANGED vars
  BY <1>1 DEF vars, clientVars, serverVars, Types, ClientInv, ServerInv, FlightInv, CountInv
<1>2. CASE Idle
  BY <1>1, <1>2 DEF Idle
<1>3. QED
  BY <1>1, <1>2, RequestsTyped, AnswersTyped, OthersTyped, ReceivedTyped DEF Next

-----------------------------------------------------------------------------
(* The names in the queue are those of the answers on their way and of the *)
(* requests on theirs.                                                     *)

LEMMA QueueTypes ==
  ASSUME Types
  PROVE  Taken(s2c) \in Seq(Room) /\ Waiting(c2s) \in Seq(Room)
  BY TakenType, WaitingType DEF Types, FlightInv

LEMMA RequestWaits ==
  ASSUME Types, Waits, NEW op \in {"enter", "leave", "create"}, NEW r \in Room, Request(op, r),
         IF op # "create" THEN proom' = Append(proom, r) ELSE proom' = proom
  PROVE  Waits'
<1> SUFFICES ASSUME ~unasked'
             PROVE  proom' = Taken(s2c') \o Waiting(c2s')
  BY DEF Waits
<1> DEFINE q == [op |-> op, room |-> r]
           T == Taken(s2c)
           W == Waiting(c2s)
<1>1. q \in Asked /\ WaitedFor(q) = IF op # "create" THEN <<r>> ELSE << >>
  BY DEF Asked, WaitedFor
<1>2. c2s \in Seq(Asked) /\ proom \in Seq(Room)
  BY DEF Types, FlightInv, ClientInv
<1>3. c2s' = Append(c2s, q) /\ s2c' = s2c /\ unasked' = unasked
  BY DEF Request, serverVars
<1>4. T \in Seq(Room) /\ W \in Seq(Room)
  BY QueueTypes
<1>5. Waiting(c2s') = W \o WaitedFor(q)
  BY <1>1, <1>2, <1>3, WaitingOn
<1>6. proom = T \o W
  BY <1>3 DEF Waits
<1> HIDE DEF q, T, W
<1>7. proom' = proom \o WaitedFor(q)
  <2>1. Append(proom, r) = proom \o <<r>> /\ proom \o << >> = proom
    BY <1>2, AppendIsConcat, ConcatEmptySeq
  <2>2. QED
    BY <1>1, <2>1
<1>8. WaitedFor(q) \in Seq(Room)
  BY <1>1, WaitedForType
<1>9. (T \o W) \o WaitedFor(q) = T \o (W \o WaitedFor(q))
  BY <1>4, <1>8, ConcatAssociative
<1>10. QED
  BY <1>3, <1>5, <1>6, <1>7, <1>9 DEF T

(* An answer takes the place of its request. *)
LEMMA AnswerWaits ==
  ASSUME Types, Waits, NEW q, NEW p \in Sent, Answer(q, p), TakenBy(p) = WaitedFor(q),
         unasked' = unasked
  PROVE  Waits'
<1> SUFFICES ASSUME ~unasked'
             PROVE  proom' = Taken(s2c') \o Waiting(c2s')
  BY DEF Waits
<1> DEFINE T == Taken(s2c)
           W == Waiting(Tail(c2s))
           x == TakenBy(p)
<1>1. c2s # << >> /\ c2s \in Seq(Asked) /\ s2c \in Seq(Sent) /\ q = Head(c2s)
  BY DEF Types, FlightInv, Answer
<1>2. c2s' = Tail(c2s) /\ s2c' = Append(s2c, p) /\ proom' = proom
  BY DEF Answer, clientVars
<1>3. Tail(c2s) \in Seq(Asked)
  BY <1>1, HeadTailProperties
<1>4. T \in Seq(Room) /\ W \in Seq(Room) /\ x \in Seq(Room)
  BY <1>3, QueueTypes, WaitingType, TakenByType
<1>5. proom = T \o Waiting(c2s)
  BY DEF Waits
<1>6. Waiting(c2s) = x \o W
  BY <1>1, WaitingFrom
<1>7. Taken(s2c') = T \o x
  BY <1>1, <1>2, TakenOn
<1> HIDE DEF T, W, x
<1>8. (T \o x) \o W = T \o (x \o W)
  BY <1>4, ConcatAssociative
<1>9. QED
  BY <1>2, <1>5, <1>6, <1>7, <1>8 DEF W

LEMMA SendWaits ==
  ASSUME Types, Waits, NEW p \in Sent, TakenBy(p) = << >>, s2c' = Append(s2c, p),
         UNCHANGED <<proom, c2s, unasked>>
  PROVE  Waits'
<1>1. s2c \in Seq(Sent) /\ Taken(s2c) \in Seq(Room)
  BY QueueTypes DEF Types, FlightInv
<1>2. Taken(s2c') = Taken(s2c) \o << >>
  BY <1>1, TakenOn
<1>3. Taken(s2c) \o << >> = Taken(s2c)
  BY <1>1, ConcatEmptySeq
<1>4. QED
  BY <1>2, <1>3 DEF Waits

LEMMA NotWaitedFor ==
  ASSUME Types, Waits, c2s # << >>, WaitedFor(Head(c2s)) = << >>, c2s' = Tail(c2s),
         UNCHANGED <<proom, s2c, unasked>>
  PROVE  Waits'
<1>1. c2s \in Seq(Asked)
  BY DEF Types, FlightInv
<1>2. Tail(c2s) \in Seq(Asked)
  BY <1>1, HeadTailProperties
<1>3. Waiting(Tail(c2s)) \in Seq(Room)
  BY <1>2, WaitingType
<1>4. Waiting(c2s) = << >> \o Waiting(Tail(c2s))
  BY <1>1, WaitingFrom
<1>5. << >> \o Waiting(Tail(c2s)) = Waiting(Tail(c2s))
  BY <1>3, ConcatEmptySeq
<1>6. QED
  BY <1>4, <1>5 DEF Waits

(* The head of the queue is the room of the answer that takes it. *)
LEMMA HeadOfQueue ==
  ASSUME Types, Waits, ~unasked, NEW type, Receive(type), NEW r \in Room,
         TakenBy(Head(s2c)) = <<r>>
  PROVE  /\ proom # << >> /\ Head(proom) = r
         /\ Tail(proom) = Taken(s2c') \o Waiting(c2s')
<1> DEFINE T == Taken(Tail(s2c))
           W == Waiting(c2s)
<1>1. s2c # << >> /\ s2c \in Seq(Sent) /\ c2s' = c2s /\ s2c' = Tail(s2c)
  BY DEF Types, FlightInv, Receive
<1>2. Tail(s2c) \in Seq(Sent)
  BY <1>1, HeadTailProperties
<1>3. T \in Seq(Room) /\ W \in Seq(Room)
  BY <1>2, QueueTypes, TakenType
<1>4. Taken(s2c) = <<r>> \o T
  BY <1>1, TakenFrom
<1>5. proom = Taken(s2c) \o W
  BY DEF Waits
<1> HIDE DEF T, W
<1>6. T \o W \in Seq(Room) /\ <<r>> \in Seq(Room)
  BY <1>3, ConcatProperties
<1>7. (<<r>> \o T) \o W = <<r>> \o (T \o W)
  BY <1>3, <1>6, ConcatAssociative
<1>8. proom = <<r>> \o (T \o W)
  BY <1>4, <1>5, <1>7
<1>9. proom # << >> /\ Head(proom) = r /\ Tail(proom) = T \o W
  BY <1>6, <1>8, PutBefore
<1>10. QED
  BY <1>1, <1>9 DEF T, W

LEMMA PopWaits ==
  ASSUME Types, Waits, NEW type, Receive(type), NEW r \in Room,
         TakenBy(Head(s2c)) = <<r>>, PopRoom
  PROVE  Waits'
<1> SUFFICES ASSUME ~unasked'
             PROVE  proom' = Taken(s2c') \o Waiting(c2s')
  BY DEF Waits
<1>1. ~unasked
  BY DEF Receive, serverVars
<1>2. proom # << >> /\ Tail(proom) = Taken(s2c') \o Waiting(c2s')
  BY <1>1, HeadOfQueue
<1>3. QED
  BY <1>2 DEF PopRoom

LEMMA KeepWaits ==
  ASSUME Types, Waits, NEW type, Receive(type), TakenBy(Head(s2c)) = << >>, proom' = proom
  PROVE  Waits'
<1>1. /\ s2c # << >> /\ s2c \in Seq(Sent)
      /\ c2s' = c2s /\ s2c' = Tail(s2c) /\ unasked' = unasked
  BY DEF Types, FlightInv, Receive, serverVars
<1>2. Tail(s2c) \in Seq(Sent)
  BY <1>1, HeadTailProperties
<1>3. Taken(Tail(s2c)) \in Seq(Room)
  BY <1>2, TakenType
<1>4. Taken(s2c) = << >> \o Taken(Tail(s2c))
  BY <1>1, TakenFrom
<1>5. << >> \o Taken(Tail(s2c)) = Taken(Tail(s2c))
  BY <1>3, ConcatEmptySeq
<1>6. QED
  BY <1>1, <1>4, <1>5 DEF Waits

LEMMA WaitsStep ==
  ASSUME Types, Waits, [Next]_vars
  PROVE  Waits'
<1>1. \A name \in Channel \cup NewName : Decode(name) \in Room
  BY RoomsAssumption
<1>2. ASSUME NEW ch \in Channel, Enter(ch)
      PROVE  Waits'
  <2>1. Decode(ch) \in Room /\ Request("enter", Decode(ch)) /\ proom' = Append(proom, Decode(ch))
    BY <1>1, <1>2 DEF Enter, Await
  <2>2. QED
    BY <2>1, RequestWaits
<1>3. ASSUME NEW ch \in Channel, Leave(ch)
      PROVE  Waits'
  <2>1. Decode(ch) \in Room /\ Request("leave", Decode(ch)) /\ proom' = Append(proom, Decode(ch))
    BY <1>1, <1>3 DEF Leave, Await
  <2>2. QED
    BY <2>1, RequestWaits
<1>4. ASSUME NEW name \in NewName, Create(name)
      PROVE  Waits'
  <2>1. Decode(name) \in Room /\ Request("create", Decode(name)) /\ proom' = proom
    BY <1>1, <1>4 DEF Create
  <2>2. QED
    BY <2>1, RequestWaits
<1>5. \A r \in Room :
        /\ Packet("ROOM_ISFULL", r, {}) \in Sent /\ Packet("ROOM_NOTEXIST", r, {}) \in Sent
        /\ Packet("ROOM_CANLEAVE", r, {}) \in Sent /\ Packet("ROOM_ALREXIST", r, {}) \in Sent
        /\ UserList(r) \in Sent
  <2>1. {"ROOM_ISFULL", "ROOM_NOTEXIST", "ROOM_CANLEAVE", "ROOM_ALREXIST"} \subseteq PacketTypes
    BY DEF PacketTypes
  <2>2. {} \in SUBSET Nick
    OBVIOUS
  <2>3. QED
    BY <2>1, <2>2, PacketFields, UserListSent
<1>6. \A r \in Room :
        /\ TakenBy(UserList(r)) = <<r>>
        /\ TakenBy(Packet("ROOM_ISFULL", r, {})) = <<r>>
        /\ TakenBy(Packet("ROOM_NOTEXIST", r, {})) = <<r>>
        /\ TakenBy(Packet("ROOM_CANLEAVE", r, {})) = <<r>>
        /\ TakenBy(Packet("ROOM_ALREXIST", r, {})) = << >>
        /\ WaitedFor([op |-> "enter", room |-> r]) = <<r>>
        /\ WaitedFor([op |-> "leave", room |-> r]) = <<r>>
        /\ WaitedFor([op |-> "create", room |-> r]) = << >>
  BY DEF TakenBy, WaitedFor, UserList, Packet
<1>7. CASE AnswerEnter
  <2>1. PICK r \in Room :
          /\ \/ Answer([op |-> "enter", room |-> r], UserList(r))
             \/ Answer([op |-> "enter", room |-> r], Packet("ROOM_ISFULL", r, {}))
             \/ Answer([op |-> "enter", room |-> r], Packet("ROOM_NOTEXIST", r, {}))
          /\ unasked' = unasked
    BY <1>7 DEF AnswerEnter
  <2>2. QED
    BY <1>5, <1>6, <2>1, AnswerWaits
<1>8. CASE AnswerLeave
  <2>1. PICK r \in Room : Answer([op |-> "leave", room |-> r], Packet("ROOM_CANLEAVE", r, {}))
                         /\ unasked' = unasked
    BY <1>8 DEF AnswerLeave
  <2>2. QED
    BY <1>5, <1>6, <2>1, AnswerWaits
<1>9. CASE AnswerCreate
  <2>1. PICK r \in Room :
          \/ /\ Answer([op |-> "create", room |-> r], Packet("ROOM_ALREXIST", r, {}))
             /\ unasked' = unasked
          \/ unasked' = TRUE
          \/ /\ c2s # <<>>
             /\ Head(c2s) = [op |-> "create", room |-> r]
             /\ c2s' = Tail(c2s)
             /\ UNCHANGED <<clientVars, s2c, unasked>>
    BY <1>9 DEF AnswerCreate
  <2>2. CASE /\ Answer([op |-> "create", room |-> r], Packet("ROOM_ALREXIST", r, {}))
             /\ unasked' = unasked
    BY <1>5, <1>6, <2>2, AnswerWaits
  <2>3. CASE unasked' = TRUE
    BY <2>3 DEF Waits
  <2>4. CASE /\ c2s # <<>>
             /\ Head(c2s) = [op |-> "create", room |-> r]
             /\ c2s' = Tail(c2s)
             /\ UNCHANGED <<clientVars, s2c, unasked>>
    <3>1. WaitedFor(Head(c2s)) = << >> /\ UNCHANGED <<proom, s2c, unasked>>
      BY <1>6, <2>4 DEF clientVars
    <3>2. QED
      BY <2>4, <3>1, NotWaitedFor
  <2>5. QED
    BY <2>1, <2>2, <2>3, <2>4
<1>10. ASSUME NEW r \in Room, NEW n \in Nick,
              NEW type \in {"ROOM_USERENTER", "ROOM_USERLEAVE", "ROOM_MSG"}
       PROVE  Packet(type, r, {n}) \in Sent /\ TakenBy(Packet(type, r, {n})) = << >>
  <2>1. type \in PacketTypes /\ {n} \in SUBSET Nick
    BY DEF PacketTypes
  <2>2. Packet(type, r, {n}) \in Sent /\ Packet(type, r, {n}).type = type
    BY <2>1, PacketFields
  <2>3. QED
    BY <2>2 DEF TakenBy
<1>11. CASE OtherMoves
  <2>1. PICK r \in Room, n \in Nick, type \in {"ROOM_USERENTER", "ROOM_USERLEAVE"} :
          \E others : Move(r, type, n, others)
    BY <1>11 DEF OtherMoves
  <2>2. /\ s2c' = s2c \/ s2c' = Append(s2c, Packet(type, r, {n}))
        /\ UNCHANGED <<proom, c2s, unasked>>
    BY <2>1 DEF Move, clientVars
  <2>3. CASE s2c' = s2c
    BY <2>2, <2>3 DEF Waits
  <2>4. CASE s2c' = Append(s2c, Packet(type, r, {n}))
    BY <1>10, <2>2, <2>4, SendWaits
  <2>5. QED
    BY <2>2, <2>3, <2>4
<1>12. CASE OtherSpeaks
  <2>1. PICK r \in inside : \E n \in members[r] :
          /\ s2c' = Append(s2c, Packet("ROOM_MSG", r, {n}))
          /\ UNCHANGED <<clientVars, c2s, serverVars>>
    BY <1>12 DEF OtherSpeaks
  <2>2. r \in Room /\ members[r] \subseteq Nick
    BY DEF Types, ServerInv
  <2>3. PICK n \in Nick : s2c' = Append(s2c, Packet("ROOM_MSG", r, {n}))
    BY <2>1, <2>2
  <2>4. UNCHANGED <<proom, c2s, unasked>>
    BY <2>1 DEF clientVars, serverVars
  <2>5. QED
    BY <1>10, <2>2, <2>3, <2>4, SendWaits
<1>13. ASSUME NEW type \in {"ROOM_USERLIST", "ROOM_ISFULL", "ROOM_NOTEXIST", "ROOM_CANLEAVE"},
              Receive(type), PopRoom
       PROVE  Waits'
  <2>1. Head(s2c).type = type /\ Head(s2c).of \in Room
    BY <1>13, ReceivedPacket
  <2>2. TakenBy(Head(s2c)) = <<Head(s2c).of>>
    BY <2>1 DEF TakenBy
  <2>3. QED
    BY <1>13, <2>1, <2>2, PopWaits
<1>14. ASSUME NEW type \in {"ROOM_ALREXIST", "ROOM_USERENTER", "ROOM_USERLEAVE", "ROOM_MSG"},
              Receive(type), proom' = proom
       PROVE  Waits'
  <2>1. Head(s2c).type = type
    BY <1>14, ReceivedPacket
  <2>2. TakenBy(Head(s2c)) = << >>
    BY <2>1 DEF TakenBy
  <2>3. QED
    BY <1>14, <2>2, KeepWaits
<1>15. CASE RecvUserList \/ RecvNotExist \/ RecvIsFull
  BY <1>13, <1>15 DEF RecvUserList, RecvNotExist, RecvIsFull, PopUnread
<1>16. CASE RecvCanLeave
  <2>1. Receive("ROOM_CANLEAVE")
    BY <1>16 DEF RecvCanLeave
  <2>2. PopRoom
    BY <1>16 DEF RecvCanLeave, PopRoom
  <2>3. QED
    BY <1>13, <2>1, <2>2
<1>17. CASE RecvAlrExist \/ RecvMove \/ RecvMessage
  BY <1>14, <1>17 DEF RecvAlrExist, RecvMove, RecvMessage
<1>18. CASE UNCHANGED vars
  BY <1>18 DEF vars, clientVars, serverVars, Waits
<1>19. CASE Idle
  BY <1>18, <1>19 DEF Idle
<1>20. QED
  BY <1>2, <1>3, <1>4, <1>7, <1>8, <1>9, <1>11, <1>12, <1>15, <1>16, <1>17, <1>18, <1>19 DEF Next

-----------------------------------------------------------------------------
(* The session's rooms lead to the server's.                               *)

LEMMA AfterTypes ==
  ASSUME NEW f, NEW p
  PROVE  /\ p.type = "ROOM_USERLIST"  => After(f, p) = With(f, p.of, p.nicks)
         /\ p.type = "ROOM_CANLEAVE"  => After(f, p) = Less(f, p.of)
         /\ p.type = "ROOM_USERENTER" => After(f, p) = With(f, p.of, f[p.of] \cup p.nicks)
         /\ p.type = "ROOM_USERLEAVE" => After(f, p) = With(f, p.of, f[p.of] \ p.nicks)
         /\ p.type \in {"ROOM_ISFULL", "ROOM_NOTEXIST", "ROOM_ALREXIST", "ROOM_MSG"} =>
              After(f, p) = f
  BY DEF After

LEMMA QuietPast ==
  ASSUME Past, UNCHANGED <<chans, stray, s2c, unasked>>, ServersRooms' = ServersRooms
  PROVE  Past'
  BY DEF Past

LEMMA SendPast ==
  ASSUME Types, Past, NEW p \in Sent, s2c' = Append(s2c, p), UNCHANGED <<chans, stray, unasked>>,
         Proper(ServersRooms, p), ServersRooms' = After(ServersRooms, p)
  PROVE  Past'
<1> SUFFICES ASSUME ~unasked
             PROVE  Leads(chans, Append(s2c, p), ServersRooms') /\ ~stray
  BY DEF Past
<1>1. Leads(chans, s2c, ServersRooms) /\ ~stray
  BY DEF Past
<1>2. s2c \in Seq(Sent)
  BY DEF Types, FlightInv
<1>3. Leads(chans, Append(s2c, p), ServersRooms')
  <2> DEFINE g == ServersRooms
             h == ServersRooms'
  <2>1. Leads(chans, s2c, g) /\ Proper(g, p) /\ h = After(g, p)
    BY <1>1
  <2> HIDE DEF g, h
  <2>2. Leads(chans, Append(s2c, p), h)
    BY <1>2, <2>1, LeadsOn
  <2>3. QED
    BY <2>2 DEF h
<1>4. QED
  BY <1>1, <1>3

LEMMA ReceivePast ==
  ASSUME Types, Past, ~unasked, NEW type, Receive(type)
  PROVE  /\ Proper(chans, Head(s2c))
         /\ (chans' = After(chans, Head(s2c)) /\ ~stray') => Past'
<1>1. s2c # << >> /\ s2c \in Seq(Sent)
  BY DEF Types, FlightInv, Receive
<1>2. /\ s2c' = Tail(s2c) /\ ServersRooms' = ServersRooms
  BY DEF Receive, ServersRooms, serverVars
<1> DEFINE g == ServersRooms
<1>3. Leads(chans, s2c, g)
  BY DEF Past
<1> HIDE DEF g
<1>4. Proper(chans, Head(s2c)) /\ Leads(After(chans, Head(s2c)), Tail(s2c), g)
  BY <1>1, <1>3, LeadsFrom
<1>5. QED
  BY <1>2, <1>4 DEF Past, g

LEMMA ServerEntered ==
  ASSUME Types, NEW r \in Room, inside' = inside \cup {r}, members' = members
  PROVE  /\ Proper(ServersRooms, UserList(r))
         /\ ServersRooms' = After(ServersRooms, UserList(r))
<1>1. UserList(r).type = "ROOM_USERLIST" /\ UserList(r).of = r /\ UserList(r).nicks = members[r]
  BY UserListSent
<1>2. After(ServersRooms, UserList(r)) = With(ServersRooms, r, members[r])
  <2>1. After(ServersRooms, UserList(r))
          = With(ServersRooms, UserList(r).of, UserList(r).nicks)
    BY <1>1, AfterTypes
  <2>2. QED
    BY <1>1, <2>1, Zenon
<1>3. Proper(ServersRooms, UserList(r))
  BY <1>1 DEF Proper, ServersRooms
<1>4. ServersRooms' = With(ServersRooms, r, members[r])
  BY DEF ServersRooms, With
<1>5. QED
  BY <1>2, <1>3, <1>4

LEMMA NothingToSay ==
  ASSUME NEW type \in {"ROOM_ISFULL", "ROOM_NOTEXIST", "ROOM_ALREXIST"}, NEW r \in Room,
         UNCHANGED <<inside, members>>
  PROVE  /\ Packet(type, r, {}) \in Sent
         /\ Proper(ServersRooms, Packet(type, r, {}))
         /\ ServersRooms' = After(ServersRooms, Packet(type, r, {}))
<1> DEFINE p == Packet(type, r, {})
<1>1. p \in Sent /\ p.type = type
  <2>1. type \in PacketTypes /\ {} \in SUBSET Nick
    BY DEF PacketTypes
  <2>2. QED
    BY <2>1, PacketFields
<1> HIDE DEF p
<1>2. Proper(ServersRooms, p)
  BY <1>1 DEF Proper
<1>3. After(ServersRooms, p) = ServersRooms
  BY <1>1, AfterTypes
<1>4. ServersRooms' = ServersRooms
  BY DEF ServersRooms
<1>5. QED
  BY <1>1, <1>2, <1>3, <1>4 DEF p

LEMMA ServerLeft ==
  ASSUME NEW r \in Room, inside' = inside \ {r}, members' = members
  PROVE  /\ Packet("ROOM_CANLEAVE", r, {}) \in Sent
         /\ Proper(ServersRooms, Packet("ROOM_CANLEAVE", r, {}))
         /\ ServersRooms' = After(ServersRooms, Packet("ROOM_CANLEAVE", r, {}))
<1> DEFINE p == Packet("ROOM_CANLEAVE", r, {})
<1>1. p \in Sent /\ p.type = "ROOM_CANLEAVE" /\ p.of = r
  <2>1. "ROOM_CANLEAVE" \in PacketTypes /\ {} \in SUBSET Nick
    BY DEF PacketTypes
  <2>2. QED
    BY <2>1, PacketFields
<1> HIDE DEF p
<1>2. Proper(ServersRooms, p)
  BY <1>1 DEF Proper
<1>3. After(ServersRooms, p) = Less(ServersRooms, r)
  BY <1>1, AfterTypes
<1>4. ServersRooms' = Less(ServersRooms, r)
  BY DEF ServersRooms, Less
<1>5. QED
  BY <1>1, <1>2, <1>3, <1>4 DEF p

LEMMA OtherEntered ==
  ASSUME Types, NEW r \in inside, NEW n \in Nick, n \notin members[r], inside' = inside,
         members' = [members EXCEPT ![r] = members[r] \cup {n}]
  PROVE  /\ Packet("ROOM_USERENTER", r, {n}) \in Sent
         /\ Proper(ServersRooms, Packet("ROOM_USERENTER", r, {n}))
         /\ ServersRooms' = After(ServersRooms, Packet("ROOM_USERENTER", r, {n}))
<1> DEFINE p == Packet("ROOM_USERENTER", r, {n})
<1>1. r \in Room /\ inside \subseteq Room /\ members \in [Room -> SUBSET Nick]
  BY DEF Types, ServerInv
<1>2. p \in Sent /\ p.type = "ROOM_USERENTER" /\ p.of = r /\ p.nicks = {n}
  <2>1. "ROOM_USERENTER" \in PacketTypes /\ {n} \in SUBSET Nick
    BY DEF PacketTypes
  <2>2. QED
    BY <1>1, <2>1, PacketFields
<1> HIDE DEF p
<1>3. r \in DOMAIN ServersRooms /\ ServersRooms[r] = members[r]
  BY DEF ServersRooms
<1>4. Proper(ServersRooms, p)
  BY <1>2, <1>3 DEF Proper
<1>5. After(ServersRooms, p) = With(ServersRooms, r, members[r] \cup {n})
  BY <1>2, <1>3, AfterTypes
<1>6. ServersRooms' = With(ServersRooms, r, members[r] \cup {n})
  BY <1>1 DEF ServersRooms, With
<1>7. QED
  BY <1>2, <1>4, <1>5, <1>6 DEF p

LEMMA OtherLeft ==
  ASSUME Types, NEW r \in inside, NEW n \in Nick, n \in members[r], inside' = inside,
         members' = [members EXCEPT ![r] = members[r] \ {n}]
  PROVE  /\ Packet("ROOM_USERLEAVE", r, {n}) \in Sent
         /\ Proper(ServersRooms, Packet("ROOM_USERLEAVE", r, {n}))
         /\ ServersRooms' = After(ServersRooms, Packet("ROOM_USERLEAVE", r, {n}))
<1> DEFINE p == Packet("ROOM_USERLEAVE", r, {n})
<1>1. r \in Room /\ inside \subseteq Room /\ members \in [Room -> SUBSET Nick]
  BY DEF Types, ServerInv
<1>2. p \in Sent /\ p.type = "ROOM_USERLEAVE" /\ p.of = r /\ p.nicks = {n}
  <2>1. "ROOM_USERLEAVE" \in PacketTypes /\ {n} \in SUBSET Nick
    BY DEF PacketTypes
  <2>2. QED
    BY <1>1, <2>1, PacketFields
<1> HIDE DEF p
<1>3. r \in DOMAIN ServersRooms /\ ServersRooms[r] = members[r]
  BY DEF ServersRooms
<1>4. Proper(ServersRooms, p)
  BY <1>2, <1>3 DEF Proper
<1>5. After(ServersRooms, p) = With(ServersRooms, r, members[r] \ {n})
  <2>1. After(ServersRooms, p) = With(ServersRooms, p.of, ServersRooms[p.of] \ p.nicks)
    BY <1>2, AfterTypes
  <2>2. QED
    BY <1>2, <1>3, <2>1, Zenon
<1>6. ServersRooms' = With(ServersRooms, r, members[r] \ {n})
  BY <1>1 DEF ServersRooms, With
<1>7. QED
  BY <1>2, <1>4, <1>5, <1>6 DEF p

LEMMA OtherSpoke ==
  ASSUME Types, NEW r \in inside, NEW n \in Nick, UNCHANGED <<inside, members>>
  PROVE  /\ Packet("ROOM_MSG", r, {n}) \in Sent
         /\ Proper(ServersRooms, Packet("ROOM_MSG", r, {n}))
         /\ ServersRooms' = After(ServersRooms, Packet("ROOM_MSG", r, {n}))
<1> DEFINE p == Packet("ROOM_MSG", r, {n})
<1>1. p \in Sent /\ p.type = "ROOM_MSG" /\ p.of = r
  <2>1. "ROOM_MSG" \in PacketTypes /\ {n} \in SUBSET Nick /\ r \in Room
    BY DEF PacketTypes, Types, ServerInv
  <2>2. QED
    BY <2>1, PacketFields
<1> HIDE DEF p
<1>2. Proper(ServersRooms, p)
  BY <1>1 DEF Proper, ServersRooms
<1>3. After(ServersRooms, p) = ServersRooms
  BY <1>1, AfterTypes
<1>4. ServersRooms' = ServersRooms
  BY DEF ServersRooms
<1>5. QED
  BY <1>1, <1>2, <1>3, <1>4 DEF p

LEMMA AnswersPast ==
  ASSUME Types, Past, AnswerEnter \/ AnswerLeave \/ AnswerCreate
  PROVE  Past'
<1>1. ASSUME NEW q, NEW p \in Sent, Answer(q, p), unasked' = unasked,
             Proper(ServersRooms, p), ServersRooms' = After(ServersRooms, p)
      PROVE  Past'
  <2>1. s2c' = Append(s2c, p) /\ UNCHANGED <<chans, stray>>
    BY <1>1 DEF Answer, clientVars
  <2>2. QED
    BY <1>1, <2>1, SendPast
<1>2. CASE AnswerEnter
  <2>1. PICK r \in Room :
          \/ /\ Answer([op |-> "enter", room |-> r], UserList(r))
             /\ inside' = inside \cup {r}
             /\ UNCHANGED <<existing, unasked>>
          \/ /\ Answer([op |-> "enter", room |-> r], Packet("ROOM_ISFULL", r, {}))
             /\ UNCHANGED <<inside, existing, unasked>>
          \/ /\ Answer([op |-> "enter", room |-> r], Packet("ROOM_NOTEXIST", r, {}))
             /\ UNCHANGED <<inside, existing, unasked>>
    BY <1>2 DEF AnswerEnter
  <2>2. members' = members /\ UserList(r) \in Sent
    BY <2>1, UserListSent DEF Answer
  <2>3. QED
    BY <1>1, <2>1, <2>2, ServerEntered, NothingToSay
<1>3. CASE AnswerLeave
  <2>1. PICK r \in Room :
          /\ Answer([op |-> "leave", room |-> r], Packet("ROOM_CANLEAVE", r, {}))
          /\ inside' = inside \ {r}
          /\ unasked' = unasked
    BY <1>3 DEF AnswerLeave
  <2>2. members' = members
    BY <2>1 DEF Answer
  <2>3. QED
    BY <1>1, <2>1, <2>2, ServerLeft
<1>4. CASE AnswerCreate
  <2>1. PICK r \in Room :
          \/ /\ Answer([op |-> "create", room |-> r], Packet("ROOM_ALREXIST", r, {}))
             /\ UNCHANGED <<inside, existing, unasked>>
          \/ unasked' = TRUE
          \/ UNCHANGED <<clientVars, s2c, inside, members, unasked>>
    BY <1>4 DEF AnswerCreate
  <2>2. CASE /\ Answer([op |-> "create", room |-> r], Packet("ROOM_ALREXIST", r, {}))
             /\ UNCHANGED <<inside, existing, unasked>>
    <3>1. members' = members
      BY <2>2 DEF Answer
    <3>2. QED
      BY <1>1, <2>2, <3>1, NothingToSay
  <2>3. CASE unasked' = TRUE
    BY <2>3 DEF Past
  <2>4. CASE UNCHANGED <<clientVars, s2c, inside, members, unasked>>
    <3>1. ServersRooms' = ServersRooms
      BY <2>4 DEF ServersRooms
    <3>2. QED
      BY <2>4, <3>1, QuietPast DEF clientVars
  <2>5. QED
    BY <2>1, <2>2, <2>3, <2>4
<1>5. QED
  BY <1>2, <1>3, <1>4

LEMMA OthersPast ==
  ASSUME Types, Past, OtherMoves \/ OtherSpeaks
  PROVE  Past'
<1>1. inside \subseteq Room /\ members \in [Room -> SUBSET Nick]
  BY DEF Types, ServerInv
<1>2. CASE OtherMoves
  <2>1. PICK r \in Room, n \in Nick :
          \/ n \notin members[r] /\ Move(r, "ROOM_USERENTER", n, members[r] \cup {n})
          \/ n \in members[r] /\ Move(r, "ROOM_USERLEAVE", n, members[r] \ {n})
    BY <1>2 DEF OtherMoves
  <2>2. inside' = inside /\ UNCHANGED <<chans, stray, unasked>>
    BY <2>1 DEF Move, clientVars
  <2>3. CASE r \notin inside
    <3>1. s2c' = s2c /\ \E others : members' = [members EXCEPT ![r] = others]
      BY <2>1, <2>3 DEF Move
    <3>2. ServersRooms' = ServersRooms
      BY <1>1, <2>2, <2>3, <3>1 DEF ServersRooms
    <3>3. QED
      BY <2>2, <3>1, <3>2, QuietPast
  <2>4. CASE r \in inside /\ n \notin members[r]
    <3>1. /\ s2c' = Append(s2c, Packet("ROOM_USERENTER", r, {n}))
          /\ members' = [members EXCEPT ![r] = members[r] \cup {n}]
      BY <2>1, <2>4 DEF Move
    <3>2. QED
      BY <2>2, <2>4, <3>1, OtherEntered, SendPast
  <2>5. CASE r \in inside /\ n \in members[r]
    <3>1. /\ s2c' = Append(s2c, Packet("ROOM_USERLEAVE", r, {n}))
          /\ members' = [members EXCEPT ![r] = members[r] \ {n}]
      BY <2>1, <2>5 DEF Move
    <3>2. QED
      BY <2>2, <2>5, <3>1, OtherLeft, SendPast
  <2>6. QED
    BY <2>3, <2>4, <2>5
<1>3. CASE OtherSpeaks
  <2>1. PICK r \in inside : \E n \in members[r] :
          /\ s2c' = Append(s2c, Packet("ROOM_MSG", r, {n}))
          /\ UNCHANGED <<clientVars, c2s, serverVars>>
    BY <1>3 DEF OtherSpeaks
  <2>2. PICK n \in Nick : s2c' = Append(s2c, Packet("ROOM_MSG", r, {n}))
    BY <1>1, <2>1
  <2>3. UNCHANGED <<chans, stray, unasked, inside, members>>
    BY <2>1 DEF clientVars, serverVars
  <2>4. QED
    BY <2>2, <2>3, OtherSpoke, SendPast
<1>4. QED
  BY <1>2, <1>3

LEMMA WithSame ==
  ASSUME NEW f \in Lists(Room), NEW r \in DOMAIN f
  PROVE  With(f, r, f[r]) = f
<1>1. f \in [DOMAIN f -> SUBSET Nick]
  BY ListsElim
<1>2. DOMAIN f \cup {r} = DOMAIN f
  OBVIOUS
<1>3. With(f, r, f[r]) = [x \in DOMAIN f |-> f[x]]
  BY <1>2 DEF With
<1>4. QED
  BY <1>1, <1>3

LEMMA LessSame ==
  ASSUME NEW f \in Lists(Room), NEW r, r \notin DOMAIN f
  PROVE  Less(f, r) = f
<1>1. f \in [DOMAIN f -> SUBSET Nick]
  BY ListsElim
<1>2. DOMAIN f \ {r} = DOMAIN f
  OBVIOUS
<1>3. Less(f, r) = [x \in DOMAIN f |-> f[x]]
  BY <1>2 DEF Less
<1>4. QED
  BY <1>1, <1>3

LEMMA ReceivesPast ==
  ASSUME Types, Waits, Past,
         \/ RecvUserList \/ RecvCanLeave \/ RecvNotExist \/ RecvIsFull
         \/ RecvAlrExist \/ RecvMove \/ RecvMessage
  PROVE  Past'
<1>1. PICK type : Receive(type)
  BY DEF RecvUserList, RecvCanLeave, RecvNotExist, RecvIsFull, RecvAlrExist, RecvMove, RecvMessage
<1>2. unasked' = unasked
  BY <1>1 DEF Receive, serverVars
<1> SUFFICES ASSUME ~unasked
             PROVE  Past'
  BY <1>2 DEF Past
<1> DEFINE p == Head(s2c)
<1>3. p.type = type
  BY <1>1 DEF Receive
<1>4. p.of \in Room /\ p.nicks \in SUBSET Nick
      /\ (type \notin {"ROOM_CANLEAVE", "ROOM_NOTEXIST", "ROOM_ALREXIST"} => p.room = p.of)
  BY <1>1, ReceivedPacket
<1>5. Proper(chans, p) /\ (chans' = After(chans, p) /\ ~stray' => Past')
  BY <1>1, ReceivePast
<1>6. ~stray /\ chans \in Lists(Room) /\ Shows(view, chans)
  BY DEF Past, Types, ClientInv
<1>7. type # "ROOM_MSG" => stray' = stray
  BY <1>1 DEF Receive
<1> HIDE DEF p
<1>8. CASE RecvUserList
  <2>1. type = "ROOM_USERLIST"
    BY <1>3, <1>8 DEF RecvUserList, Receive, p
  <2>2. \/ chans' = With(chans, p.of, p.nicks)
        \/ p.of \in DOMAIN chans /\ chans' = chans
    <3>1. p.room = p.of
      BY <1>4, <2>1
    <3>2. \/ chans' = With(chans, p.room, p.nicks)
          \/ p.room \in DOMAIN chans /\ chans' = chans
      BY <1>8 DEF RecvUserList, Joined, p
    <3>3. QED
      BY <3>1, <3>2
  <2>3. p.of \in DOMAIN chans => p.nicks = chans[p.of]
    BY <1>3, <1>5, <2>1 DEF Proper
  <2>4. chans' = With(chans, p.of, p.nicks)
    BY <1>6, <2>2, <2>3, WithSame
  <2>5. After(chans, p) = With(chans, p.of, p.nicks)
    BY <1>3, <2>1, AfterTypes
  <2>6. QED
    BY <1>5, <1>6, <1>7, <2>1, <2>4, <2>5
<1>9. CASE RecvCanLeave
  <2>1. type = "ROOM_CANLEAVE"
    BY <1>3, <1>9 DEF RecvCanLeave, Receive, p
  <2>2. TakenBy(p) = <<p.of>>
    BY <1>3, <2>1 DEF TakenBy
  <2>3. proom # << >> /\ Head(proom) = p.of
    BY <1>1, <1>4, <2>2, HeadOfQueue DEF p
  <2>4. \/ chans' = Less(chans, p.of)
        \/ p.of \notin DOMAIN chans /\ chans' = chans
    BY <1>9, <2>3 DEF RecvCanLeave, DropChannel, RoomOfAnswer, Joined
  <2>5. chans' = Less(chans, p.of)
    BY <1>6, <2>4, LessSame
  <2>6. After(chans, p) = Less(chans, p.of)
    BY <1>3, <2>1, AfterTypes
  <2>7. QED
    BY <1>5, <1>6, <1>7, <2>1, <2>5, <2>6
<1>10. CASE RecvNotExist \/ RecvIsFull \/ RecvAlrExist
  <2>1. type \in {"ROOM_NOTEXIST", "ROOM_ISFULL", "ROOM_ALREXIST"}
    BY <1>3, <1>10 DEF RecvNotExist, RecvIsFull, RecvAlrExist, Receive, p
  <2>2. chans' = chans
    BY <1>10 DEF RecvNotExist, RecvIsFull, RecvAlrExist
  <2>3. After(chans, p) = chans
    BY <1>3, <2>1, AfterTypes
  <2>4. QED
    BY <1>5, <1>6, <1>7, <2>1, <2>2, <2>3
<1>11. CASE RecvMove
  <2>1. type \in {"ROOM_USERENTER", "ROOM_USERLEAVE"}
    BY <1>3, <1>11 DEF RecvMove, Receive, p
  <2>2. p.room = p.of
    BY <1>4, <2>1
  <2>3. CASE type = "ROOM_USERENTER"
    <3>1. p.of \in DOMAIN chans /\ p.nicks \cap chans[p.of] = {}
      BY <1>3, <1>5, <2>3 DEF Proper
    <3>2. ~Receive("ROOM_USERLEAVE")
      BY <1>3, <2>3 DEF Receive, p
    <3>3. \/ chans' = With(chans, p.room, chans[p.room] \cup p.nicks)
          \/ p.room \in DOMAIN chans => p.nicks \cap chans[p.room] # {}
      BY <1>11, <3>2 DEF RecvMove, Joined, p
    <3>4. chans' = With(chans, p.of, chans[p.of] \cup p.nicks)
      BY <2>2, <3>1, <3>3
    <3>5. After(chans, p) = With(chans, p.of, chans[p.of] \cup p.nicks)
      BY <1>3, <2>3, AfterTypes
    <3>6. QED
      BY <1>5, <1>6, <1>7, <2>3, <3>4, <3>5
  <2>4. CASE type = "ROOM_USERLEAVE"
    <3>1. p.of \in DOMAIN chans /\ p.nicks \subseteq chans[p.of]
      BY <1>3, <1>5, <2>4 DEF Proper
    <3>2. ~Receive("ROOM_USERENTER")
      BY <1>3, <2>4 DEF Receive, p
    <3>3. \/ chans' = With(chans, p.room, chans[p.room] \ p.nicks)
          \/ p.room \in DOMAIN chans => ~(p.nicks \subseteq chans[p.room])
      BY <1>11, <3>2 DEF RecvMove, Joined, p
    <3>4. chans' = With(chans, p.of, chans[p.of] \ p.nicks)
      BY <2>2, <3>1, <3>3
    <3>5. After(chans, p) = With(chans, p.of, chans[p.of] \ p.nicks)
      BY <1>3, <2>4, AfterTypes
    <3>6. QED
      BY <1>5, <1>6, <1>7, <2>4, <3>4, <3>5
  <2>5. QED
    BY <2>1, <2>3, <2>4
<1>12. CASE RecvMessage
  <2>1. type = "ROOM_MSG"
    BY <1>3, <1>12 DEF RecvMessage, Receive, p
  <2>2. p.room = p.of /\ p.of \in DOMAIN chans
    BY <1>3, <1>4, <1>5, <2>1 DEF Proper
  <2>3. Encode(p.of) \in DOMAIN view
    BY <1>6, <2>2 DEF Shows
  <2>4. ~stray' /\ chans' = chans
    BY <1>6, <1>12, <2>2, <2>3 DEF RecvMessage, p
  <2>5. After(chans, p) = chans
    BY <1>3, <2>1, AfterTypes
  <2>6. QED
    BY <1>5, <2>4, <2>5
<1>13. QED
  BY <1>8, <1>9, <1>10, <1>11, <1>12

LEMMA PastStep ==
  ASSUME Types, Waits, Past, [Next]_vars
  PROVE  Past'
<1>1. CASE \/ \E ch \in Channel : Enter(ch) \/ Leave(ch)
           \/ \E name \in NewName : Create(name)
  <2>1. UNCHANGED <<chans, stray, s2c, serverVars>>
    BY <1>1 DEF Enter, Leave, Create, Request
  <2>2. ServersRooms' = ServersRooms
    BY <2>1 DEF ServersRooms, serverVars
  <2>3. QED
    BY <2>1, <2>2, QuietPast DEF serverVars
<1>2. CASE UNCHANGED vars
  BY <1>2, QuietPast DEF vars, clientVars, serverVars, ServersRooms
<1>3. CASE Idle
  BY <1>2, <1>3 DEF Idle
<1>4. QED
  BY <1>1, <1>2, <1>3, AnswersPast, OthersPast, ReceivesPast DEF Next

-----------------------------------------------------------------------------
LEMMA InvStep == Inv /\ [Next]_vars => Inv'
<1>1. Inv /\ [Next]_vars => Types'
  BY TypesStep DEF Inv
<1>2. Inv /\ [Next]_vars => Waits'
  BY WaitsStep DEF Inv
<1>3. Inv /\ [Next]_vars => Past'
  BY PastStep DEF Inv
<1>4. QED
  BY <1>1, <1>2, <1>3 DEF Inv

LEMMA Invariance == Spec => []Inv
<1>1. QED
  BY InitInv, InvStep, PTL DEF Spec

(* Every variable has its type. *)
THEOREM RoomsTyped == Spec => []TypeOK
<1>1. Inv => TypeOK
  <2> SUFFICES ASSUME Inv
               PROVE  TypeOK
    OBVIOUS
  <2>1. Sent \subseteq [type : PacketTypes, of : Room, room : Room \cup {<< >>}, nicks : SUBSET Nick]
    BY SentFields
  <2>2. s2c \in Seq([type : PacketTypes, of : Room, room : Room \cup {<< >>}, nicks : SUBSET Nick])
    <3>1. s2c \in Seq(Sent)
      BY DEF Inv, Types, FlightInv
    <3>2. QED
      BY <2>1, <3>1, SeqMonotonic
  <2>3. QED
    BY <2>2 DEF Inv, Types, ClientInv, ServerInv, FlightInv, CountInv, TypeOK, Names, Asked
<1>2. QED
  BY <1>1, Invariance, PTL

(* However requests are pipelined, an answer finds the room it is about at *)
(* the head of the queue.                                                  *)
THEOREM RoomsPendingInOrder == Spec => []PendingInOrder
<1>1. Inv => PendingInOrder
  BY DEF Inv, Waits, Taken, Waiting, PendingInOrder
<1>2. QED
  BY <1>1, Invariance, PTL

(* The IRC client sees the rooms of the session and their users, under     *)
(* names that lead back to them.                                           *)
THEOREM RoomsViewIsChans == Spec => []ViewIsChans
<1>1. Inv => ViewIsChans
  BY DEF Inv, Types, ClientInv, Shows, ViewIsChans, Joined
<1>2. QED
  BY <1>1, Invariance, PTL

(* The session's rooms are the server's of the last packet that arrived,   *)
(* and no message is shown outside its channel.                            *)
THEOREM RoomsChansAreServersPast == Spec => []ChansAreServersPast
<1>1. Inv => ChansAreServersPast
  <2> SUFFICES ASSUME Inv, ~unasked
               PROVE  FoldLeft(After, chans, s2c) = [r \in inside |-> members[r]] /\ ~stray
    BY DEF ChansAreServersPast
  <2>1. Leads(chans, s2c, ServersRooms) /\ ~stray /\ s2c \in Seq(Sent)
    BY DEF Inv, Past, Types, FlightInv
  <2>2. FoldLeft(After, chans, s2c) = ServersRooms
    BY <2>1, LeadsFold
  <2>3. QED
    BY <2>1, <2>2 DEF ServersRooms
<1>2. QED
  BY <1>1, Invariance, PTL
=============================================================================
