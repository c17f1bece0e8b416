---------------------------- MODULE PacketsProofs ----------------------------
(***************************************************************************)
(* What lib/buffer.c promises of the bytes of a buffer, and what its       *)
(* packing and unpacking, c6/client.c and c6/server.c promise of packets:  *)
(* for any bytes, texts, lists, key and style, and for packets of any      *)
(* length and number of groups.                                            *)
(***************************************************************************)
EXTENDS Packets, SequenceFacts, TLAPS

-----------------------------------------------------------------------------
(* lib/buffer.c, byte by byte.                                             *)

Cell == Byte \cup {Junk}

(* A buffer whose memory is no more than its bytes, as they all are. *)
Exact(t) == Buf(t, Len(t))

-----------------------------------------------------------------------------
(* Lemmas about the operators of Buffer *)

LEMMA FunctionMemory ==
  ASSUME NEW n \in Nat, NEW m \in [1..n -> Cell]
  PROVE  m \in Memory /\ Len(m) = n
  BY IsASeq DEF Memory, Cell

LEMMA MemoryCells ==
  ASSUME NEW m \in Memory
  PROVE  /\ Len(m) \in Nat /\ DOMAIN m = 1..Len(m)
         /\ \A i \in 1..Len(m) : m[i] \in Cell
  BY LenProperties, ElementOfSeq DEF Memory, Cell

(* malloc *)
LEMMA AllocProperties ==
  ASSUME NEW n \in Nat
  PROVE  Alloc(n) \in Memory /\ Len(Alloc(n)) = n
<1>1. Alloc(n) \in [1..n -> Cell]
  BY DEF Alloc, Cell
<1>2. QED
  BY <1>1, FunctionMemory

(* memcpy from the beginning of the source *)
LEMMA CopyStart ==
  ASSUME NEW m \in Memory, NEW place \in Nat, NEW src, NEW n \in Nat,
         \A i \in 1..n : src[i] \in Cell
  PROVE  /\ Copy(m, place, src, 0, n) \in Memory
         /\ Len(Copy(m, place, src, 0, n)) = Len(m)
         /\ \A i \in 1..Len(m) :
              Copy(m, place, src, 0, n)[i] =
                IF place < i /\ i <= place + n THEN src[i - place] ELSE m[i]
<1>1. /\ Len(m) \in Nat /\ DOMAIN m = 1..Len(m)
      /\ \A i \in 1..Len(m) : m[i] \in Cell
  BY MemoryCells
<1>2. ASSUME NEW i \in 1..Len(m), place < i, i <= place + n
      PROVE  src[i - place] \in Cell
  <2>1. i - place \in 1..n
    BY <1>1, <1>2
  <2>2. QED
    BY <2>1
<1>3. \A i \in 1..Len(m) : 0 + (i - place) = i - place
  BY <1>1
<1>4. Copy(m, place, src, 0, n)
        = [i \in 1..Len(m) |->
             IF place < i /\ i <= place + n THEN src[i - place] ELSE m[i]]
  BY <1>1, <1>3 DEF Copy, Within
<1>5. Copy(m, place, src, 0, n) \in [1..Len(m) -> Cell]
  BY <1>1, <1>2, <1>4
<1>6. QED
  BY <1>1, <1>4, <1>5, FunctionMemory

(* memmove *)
IsMoved(u, m, place, by, n) ==
  /\ u \in Memory
  /\ Len(u) = Len(m)
  /\ \A i \in 1..Len(m) :
       u[i] = IF place + by < i /\ i <= place + by + n THEN m[i - by] ELSE m[i]

LEMMA MoveProperties ==
  ASSUME NEW m \in Memory, NEW place \in Nat, NEW by \in Nat, NEW n \in Nat,
         place + n <= Len(m)
  PROVE  IsMoved(Move(m, place, by, n), m, place, by, n)
<1>1. /\ Len(m) \in Nat /\ DOMAIN m = 1..Len(m)
      /\ \A i \in 1..Len(m) : m[i] \in Cell
  BY MemoryCells
<1>2. ASSUME NEW i \in 1..Len(m), place + by < i, i <= place + by + n
      PROVE  m[i - by] \in Cell
  <2>1. i - by \in 1..Len(m)
    BY <1>1, <1>2
  <2>2. QED
    BY <1>1, <2>1
<1>3. Move(m, place, by, n)
        = [i \in 1..Len(m) |->
             IF place + by < i /\ i <= place + by + n THEN m[i - by] ELSE m[i]]
  BY <1>1 DEF Move, Within
<1>4. Move(m, place, by, n) \in [1..Len(m) -> Cell]
  BY <1>1, <1>2, <1>3
<1>5. QED
  BY <1>1, <1>3, <1>4, FunctionMemory DEF IsMoved

(* memset *)
LEMMA ZeroProperties ==
  ASSUME BufferAssumption, NEW m \in Memory, NEW place \in Int, NEW n \in Int
  PROVE  /\ Zero(m, place, n) \in Memory
         /\ Len(Zero(m, place, n)) = Len(m)
         /\ \A i \in 1..Len(m) :
              Zero(m, place, n)[i] = IF place < i /\ i <= place + n THEN 0 ELSE m[i]
<1>1. /\ Len(m) \in Nat /\ DOMAIN m = 1..Len(m)
      /\ \A i \in 1..Len(m) : m[i] \in Cell
  BY MemoryCells
<1>2. 0 \in Cell
  BY DEF BufferAssumption, Cell
<1>3. Zero(m, place, n)
        = [i \in 1..Len(m) |-> IF place < i /\ i <= place + n THEN 0 ELSE m[i]]
  BY <1>1 DEF Zero, Within
<1>4. Zero(m, place, n) \in [1..Len(m) -> Cell]
  BY <1>1, <1>2, <1>3
<1>5. QED
  BY <1>1, <1>3, <1>4, FunctionMemory

(* a_expand *)
LEMMA ExpandProperties ==
  ASSUME NEW m \in Memory, NEW n \in Nat
  PROVE  /\ Expand(m, n) \in Memory
         /\ Len(Expand(m, n)) \in Nat
         /\ Len(m) <= n => Len(Expand(m, n)) = n
         /\ \A i \in 1..Len(m) : Expand(m, n)[i] = m[i]
<1>1. /\ Len(m) \in Nat /\ DOMAIN m = 1..Len(m)
      /\ \A i \in 1..Len(m) : m[i] \in Cell
  BY MemoryCells
<1> DEFINE k == Larger(Len(m), n)
<1>2. k \in Nat /\ k >= Len(m) /\ (Len(m) <= n => k = n)
  <2>1. k = IF Len(m) < n THEN n ELSE Len(m)
    BY DEF Larger
  <2>2. Len(m) \in Nat
    BY <1>1
  <2> HIDE DEF k
  <2>3. CASE Len(m) < n
    <3>1. k = n
      BY <2>1, <2>3
    <3>2. QED
      BY <2>2, <2>3, <3>1
  <2>4. CASE ~(Len(m) < n)
    <3>1. k = Len(m)
      BY <2>1, <2>4
    <3>2. QED
      BY <2>2, <2>4, <3>1
  <2>5. QED
    BY <2>3, <2>4
<1> HIDE DEF k
<1>3. Expand(m, n) = [i \in 1..k |-> IF i <= Len(m) THEN m[i] ELSE Junk]
  BY DEF Expand, k
<1>4. Expand(m, n) \in [1..k -> Cell]
  BY <1>1, <1>2, <1>3 DEF Cell
<1>5. Expand(m, n) \in Memory /\ Len(Expand(m, n)) = k
  BY <1>2, <1>4, FunctionMemory
<1>6. \A i \in 1..Len(m) : i \in 1..k
  BY <1>1, <1>2
<1>7. QED
  BY <1>1, <1>2, <1>3, <1>5, <1>6

(* a_realloc0 *)
LEMMA ResizeProperties ==
  ASSUME BufferAssumption, NEW m \in Memory, NEW n \in Nat
  PROVE  /\ Resize(m, n) \in Memory
         /\ Len(Resize(m, n)) = n
         /\ \A i \in 1..n : Resize(m, n)[i] = IF i <= Len(m) THEN m[i] ELSE 0
<1>1. Len(m) \in Nat /\ \A i \in 1..Len(m) : m[i] \in Cell
  BY MemoryCells
<1>2. Resize(m, n) = [i \in 1..n |-> IF i <= Len(m) THEN m[i] ELSE 0]
  BY DEF Resize
<1>3. Resize(m, n) \in [1..n -> Cell]
  BY <1>1, <1>2 DEF Cell, BufferAssumption
<1>4. QED
  BY <1>2, <1>3, FunctionMemory

-----------------------------------------------------------------------------
(* Lemmas about the operators of ByteString *)

LEMMA PaddedProperties ==
  ASSUME BufferAssumption, NEW s \in Seq(Byte), NEW n \in Nat
  PROVE  /\ BS!Padded(s, n) \in Seq(Byte)
         /\ Len(BS!Padded(s, n)) = n
         /\ \A i \in 1..n : BS!Padded(s, n)[i] = IF i <= Len(s) THEN s[i] ELSE 0
<1>1. Len(s) \in Nat /\ \A i \in 1..Len(s) : s[i] \in Byte
  BY LenProperties, ElementOfSeq
<1>2. BS!Padded(s, n) = [i \in 1..n |-> IF i <= Len(s) THEN s[i] ELSE 0]
  BY DEF BS!Padded
<1>3. BS!Padded(s, n) \in [1..n -> Byte]
  BY <1>1, <1>2 DEF BufferAssumption
<1>4. QED
  BY <1>2, <1>3, IsASeq

LEMMA FromProperties ==
  ASSUME NEW s \in Seq(Byte), NEW n \in Nat
  PROVE  /\ BS!From(s, n) \in Seq(Byte)
         /\ Len(BS!From(s, n)) = IF n < Len(s) THEN Len(s) - n ELSE 0
         /\ \A i \in 1..Len(BS!From(s, n)) : BS!From(s, n)[i] = s[n + i]
<1>1. Len(s) \in Nat
  BY LenProperties
<1>2. CASE n <= Len(s)
  <2> DEFINE k == Len(s) - n
  <2>1. k \in Nat /\ n + k = Len(s) /\ n + k <= Len(s)
    BY <1>1, <1>2
  <2> HIDE DEF k
  <2>2. /\ SubSeq(s, n + 1, n + k) \in Seq(Byte)
        /\ Len(SubSeq(s, n + 1, n + k)) = k
        /\ \A i \in 1..k : SubSeq(s, n + 1, n + k)[i] = s[n + i]
    BY <2>1, SliceProperties
  <2>3. BS!From(s, n) = SubSeq(s, n + 1, n + k)
    BY <2>1 DEF BS!From
  <2>4. k = IF n < Len(s) THEN Len(s) - n ELSE 0
    BY <1>1, <1>2 DEF k
  <2>5. QED
    BY <2>2, <2>3, <2>4 DEF k
<1>3. CASE n > Len(s)
  <2>1. BS!From(s, n) = <<>>
    BY <1>1, <1>3, SubSeqEmpty DEF BS!From
  <2>2. QED
    BY <1>1, <1>3, <2>1, EmptySeq
<1>4. QED
  BY <1>1, <1>2, <1>3

(* What two strings joined are, and what three. *)
LEMMA Joined2 ==
  ASSUME NEW a \in Seq(Byte), NEW b \in Seq(Byte)
  PROVE  /\ a \o b \in Seq(Byte)
         /\ Len(a \o b) = Len(a) + Len(b)
         /\ \A i \in 1..(Len(a) + Len(b)) :
              (a \o b)[i] = IF i <= Len(a) THEN a[i] ELSE b[i - Len(a)]
BY ConcatProperties

IsJoin(u, a, b, c) ==
  /\ u \in Seq(Byte)
  /\ Len(u) = Len(a) + Len(b) + Len(c)
  /\ \A i \in 1..(Len(a) + Len(b) + Len(c)) :
       u[i] = IF i <= Len(a) THEN a[i]
              ELSE IF i <= Len(a) + Len(b) THEN b[i - Len(a)]
              ELSE c[i - Len(a) - Len(b)]

LEMMA Joined3 ==
  ASSUME NEW a \in Seq(Byte), NEW b \in Seq(Byte), NEW c \in Seq(Byte)
  PROVE  IsJoin(a \o b \o c, a, b, c)
<1> DEFINE k == Len(a)
           l == Len(b)
           m == Len(c)
           ab == a \o b
<1>1. k \in Nat /\ l \in Nat /\ m \in Nat
  BY LenProperties
<1>2. /\ ab \in Seq(Byte) /\ Len(ab) = k + l
      /\ \A i \in 1..(k + l) : ab[i] = IF i <= k THEN a[i] ELSE b[i - k]
  BY ConcatProperties
<1> HIDE DEF ab
<1>3. /\ ab \o c \in Seq(Byte) /\ Len(ab \o c) = (k + l) + m
      /\ \A i \in 1..((k + l) + m) :
           (ab \o c)[i] = IF i <= k + l THEN ab[i] ELSE c[i - (k + l)]
  <2>1. ab \in Seq(Byte) /\ Len(ab) = k + l
    BY <1>2
  <2>2. /\ ab \o c \in Seq(Byte) /\ Len(ab \o c) = Len(ab) + Len(c)
        /\ \A i \in 1..(Len(ab) + Len(c)) :
             (ab \o c)[i] = IF i <= Len(ab) THEN ab[i] ELSE c[i - Len(ab)]
    BY <2>1, Joined2
  <2>3. QED
    BY <2>1, <2>2
<1> HIDE DEF k, l, m
<1>4. ASSUME NEW i \in 1..(k + l + m)
      PROVE  (ab \o c)[i] = IF i <= k THEN a[i]
                            ELSE IF i <= k + l THEN b[i - k] ELSE c[i - k - l]
  <2>1. CASE i <= k + l
    <3>1. i \in 1..(k + l)
      BY <1>1, <2>1
    <3>2. QED
      BY <1>1, <1>2, <1>3, <2>1, <3>1
  <2>2. CASE ~(i <= k + l)
    <3>1. ~(i <= k) /\ i - (k + l) = i - k - l
      BY <1>1, <2>2
    <3>2. QED
      BY <1>3, <2>2, <3>1
  <2>3. QED
    BY <2>1, <2>2
<1>5. QED
  BY <1>3, <1>4 DEF IsJoin, ab, k, l, m

-----------------------------------------------------------------------------
(* What every edit leaves *)

LEMMA BytesAreMemory ==
  ASSUME NEW r \in Seq(Byte)
  PROVE  /\ r \in Memory /\ Len(r) \in Nat
         /\ \A i \in 1..Len(r) : r[i] \in Byte /\ r[i] \in Cell
<1>1. Len(r) \in Nat /\ \A i \in 1..Len(r) : r[i] \in Byte
  BY LenProperties, ElementOfSeq
<1>2. r \in [1..Len(r) -> Cell]
  BY <1>1, LenProperties DEF Cell
<1>3. r \in Memory
  BY <1>1, <1>2, FunctionMemory
<1>4. QED
  BY <1>1, <1>3 DEF Cell

(* Memory that is byte for byte a string is that string. *)
LEMMA SameBytes ==
  ASSUME NEW m \in Memory, NEW r \in Seq(Byte), Len(m) = Len(r),
         \A i \in 1..Len(r) : m[i] = r[i]
  PROVE  m = r
<1>1. m \in Seq(Cell) /\ r \in Seq(Cell)
  BY BytesAreMemory DEF Memory, Cell
<1>2. QED
  BY <1>1, SeqEqual

(* buf_new *)
LEMMA NewHolds ==
  ASSUME BufferAssumption, NEW s \in Seq(Byte)
  PROVE  NewOf(s) = Exact(BS!Padded(s, Len(s)))
<1> DEFINE n == Len(s)
           m == Copy(Alloc(n), 0, s, 0, n)
           r == BS!Padded(s, n)
<1>1. n \in Nat /\ \A i \in 1..n : s[i] \in Cell
  BY BytesAreMemory
<1>2. r \in Seq(Byte) /\ Len(r) = n /\ \A i \in 1..n : r[i] = s[i]
  BY <1>1, PaddedProperties
<1>3. Alloc(n) \in Memory /\ Len(Alloc(n)) = n
  BY <1>1, AllocProperties
<1>4. /\ m \in Memory /\ Len(m) = n
      /\ \A i \in 1..n : m[i] = IF 0 < i /\ i <= 0 + n THEN s[i - 0] ELSE Alloc(n)[i]
  <2> HIDE DEF n
  <2>1. QED
    BY <1>1, <1>3, CopyStart
<1>5. \A i \in 1..n : m[i] = r[i]
  <2> HIDE DEF m, r
  <2>1. \A i \in 1..n : 0 < i /\ i <= 0 + n /\ i - 0 = i
    BY <1>1
  <2>2. QED
    BY <1>2, <1>4, <2>1
<1> HIDE DEF m, r
<1>6. m = r
  BY <1>2, <1>4, <1>5, SameBytes
<1>7. QED
  BY <1>2, <1>6 DEF NewOf, Exact, m, r

(* buf_new without data *)
LEMMA ZeroOfHolds ==
  ASSUME BufferAssumption, NEW n \in Nat
  PROVE  ZeroOf(n) = Exact(BS!Padded(<<>>, n))
<1>1. <<>> \in Seq(Byte) /\ Len(<<>>) = 0
  BY EmptySeq
<1>2. /\ BS!Padded(<<>>, n) \in Seq(Byte) /\ Len(BS!Padded(<<>>, n)) = n
  BY <1>1, PaddedProperties
<1>3. BS!Padded(<<>>, n) = [i \in 1..n |-> 0]
  BY <1>1 DEF BS!Padded
<1>4. QED
  BY <1>2, <1>3 DEF ZeroOf, Exact

(* buf_realloc *)
LEMMA ResizeHolds ==
  ASSUME BufferAssumption, NEW t \in Seq(Byte), NEW n \in Nat
  PROVE  Buf(Resize(t, n), n) = Exact(BS!Padded(t, n))
<1>1. BS!Padded(t, n) = Resize(t, n)
  BY DEF BS!Padded, Resize
<1>2. Len(BS!Padded(t, n)) = n
  BY PaddedProperties
<1>3. QED
  BY <1>1, <1>2 DEF Exact

(* buf_append, whatever size is named *)
LEMMA AppendHolds ==
  ASSUME BufferAssumption, NEW t \in Seq(Byte), NEW s \in Seq(Byte)
  PROVE  Appended(Exact(t), s) = Exact(t \o s)
<1> DEFINE k == Len(t)
           l == Len(s)
           e == Expand(t, k + l)
           m == Copy(e, k, s, 0, l)
           r == t \o s
<1>1. /\ k \in Nat /\ l \in Nat /\ k + l \in Nat /\ t \in Memory
      /\ \A i \in 1..l : s[i] \in Cell
  BY BytesAreMemory
<1>2. /\ r \in Seq(Byte) /\ Len(r) = k + l
      /\ \A i \in 1..(k + l) : r[i] = IF i <= k THEN t[i] ELSE s[i - k]
  BY ConcatProperties
<1>3. e \in Memory /\ Len(e) = k + l /\ \A i \in 1..k : e[i] = t[i]
  <2>1. k <= k + l
    BY <1>1
  <2>2. QED
    BY <1>1, <2>1, ExpandProperties
<1> HIDE DEF e, k, l
<1>4. /\ m \in Memory /\ Len(m) = k + l
      /\ \A i \in 1..(k + l) :
           m[i] = IF k < i /\ i <= k + l THEN s[i - k] ELSE e[i]
  BY <1>1, <1>3, CopyStart
<1> HIDE DEF m, r
<1>5. \A i \in 1..(k + l) : m[i] = r[i]
  <2> TAKE i \in 1..(k + l)
  <2>1. CASE i <= k
    <3>1. i \in 1..k /\ ~(k < i)
      BY <1>1, <2>1
    <3>2. QED
      BY <1>2, <1>3, <1>4, <2>1, <3>1
  <2>2. CASE ~(i <= k)
    <3>1. k < i /\ i <= k + l
      BY <1>1, <2>2
    <3>2. QED
      BY <1>2, <1>4, <2>2, <3>1
  <2>3. QED
    BY <2>1, <2>2
<1>6. m = r
  BY <1>2, <1>4, <1>5, SameBytes
<1>7. QED
  BY <1>2, <1>6 DEF Appended, Exact, Buf, m, r, e, k, l

(* buf_dup *)
LEMMA DupHolds ==
  ASSUME BufferAssumption, NEW t \in Seq(Byte)
  PROVE  Copy(Alloc(Len(t)), 0, t, 0, Len(t)) = t
<1> DEFINE n == Len(t)
           m == Copy(Alloc(n), 0, t, 0, n)
<1>1. n \in Nat /\ \A i \in 1..n : t[i] \in Cell
  BY BytesAreMemory
<1>2. Alloc(n) \in Memory /\ Len(Alloc(n)) = n
  BY <1>1, AllocProperties
<1> HIDE DEF n
<1>3. /\ m \in Memory /\ Len(m) = n
      /\ \A i \in 1..n : m[i] = IF 0 < i /\ i <= 0 + n THEN t[i - 0] ELSE Alloc(n)[i]
  BY <1>1, <1>2, CopyStart
<1> HIDE DEF m
<1>4. \A i \in 1..n : 0 < i /\ i <= 0 + n /\ i - 0 = i
  BY <1>1
<1>5. \A i \in 1..n : m[i] = t[i]
  BY <1>3, <1>4
<1>6. m = t
  BY <1>3, <1>5, SameBytes DEF n
<1>7. QED
  BY <1>6 DEF m, n

-----------------------------------------------------------------------------
(* Edits inside the text *)

(* Where a place in the third part is. *)
LEMMA ThirdPart ==
  ASSUME NEW p \in Nat, NEW n \in Nat, NEW r \in Nat,
         NEW i \in 1..(p + n + r), ~(i <= p + n)
  PROVE  i - p - n \in 1..r /\ p + n + (i - p - n) = i
OBVIOUS

(* n bytes of s between the beginning of t and what t has behind q *)
Spliced(t, p, s, n, q) == BS!Padded(t, p) \o BS!Padded(s, n) \o BS!From(t, q)

(* Byte for byte: the beginning of t up to p, s up to n, t behind q. *)
Parts(m, t, s, p, n, q, r) ==
  /\ \A i \in 1..p : m[i] = IF i <= Len(t) THEN t[i] ELSE 0
  /\ \A i \in 1..n : m[p + i] = IF i <= Len(s) THEN s[i] ELSE 0
  /\ \A i \in 1..r : m[p + n + i] = t[q + i]

(* Memory whose bytes are, in turn, the beginning of t up to p, s up to n  *)
(* and what t has behind q is these three parts joined.                    *)
LEMMA Assembled ==
  ASSUME BufferAssumption, NEW t \in Seq(Byte), NEW s \in Seq(Byte),
         NEW p \in Nat, NEW n \in Nat, NEW q \in Nat, NEW m \in Memory,
         NEW r \in Nat, r = Len(BS!From(t, q)),
         Len(m) = p + n + r, Parts(m, t, s, p, n, q, r)
  PROVE  m = Spliced(t, p, s, n, q)
<1> DEFINE a == BS!Padded(t, p)
           b == BS!Padded(s, n)
           c == BS!From(t, q)
<1>1. /\ a \in Seq(Byte) /\ Len(a) = p
      /\ \A i \in 1..p : a[i] = IF i <= Len(t) THEN t[i] ELSE 0
  BY PaddedProperties
<1>2. /\ b \in Seq(Byte) /\ Len(b) = n
      /\ \A i \in 1..n : b[i] = IF i <= Len(s) THEN s[i] ELSE 0
  BY PaddedProperties
<1>4. /\ c \in Seq(Byte) /\ Len(c) = r
      /\ \A i \in 1..r : c[i] = t[q + i]
  BY FromProperties
<1> HIDE DEF a, b, c
<1>5. /\ a \o b \o c \in Seq(Byte)
      /\ Len(a \o b \o c) = p + n + r
      /\ \A i \in 1..(p + n + r) :
           (a \o b \o c)[i] = IF i <= p THEN a[i]
                              ELSE IF i <= p + n THEN b[i - p] ELSE c[i - p - n]
  <2>1. a \in Seq(Byte) /\ b \in Seq(Byte) /\ c \in Seq(Byte)
    BY <1>1, <1>2, <1>4
  <2>2. Len(a) = p /\ Len(b) = n /\ Len(c) = r
    BY <1>1, <1>2, <1>4
  <2>3. IsJoin(a \o b \o c, a, b, c)
    BY <2>1, Joined3
  <2>4. QED
    BY <2>2, <2>3 DEF IsJoin
<1> DEFINE abc == a \o b \o c
<1> HIDE DEF abc
<1>6. ASSUME NEW i \in 1..(p + n + r)
      PROVE  m[i] = abc[i]
  <2>0. abc[i] = IF i <= p THEN a[i]
                 ELSE IF i <= p + n THEN b[i - p] ELSE c[i - p - n]
    BY <1>5 DEF abc
  <2>1. CASE i <= p
    <3>1. i \in 1..p
      BY <2>1
    <3>2. m[i] = a[i]
      BY <1>1, <3>1 DEF Parts
    <3>3. QED
      BY <2>0, <2>1, <3>2
  <2>2. CASE ~(i <= p) /\ i <= p + n
    <3> DEFINE j == i - p
    <3>1. j \in 1..n /\ p + j = i
      BY <2>2
    <3> HIDE DEF j
    <3>2. m[p + j] = b[j]
      BY <1>2, <3>1 DEF Parts
    <3>3. QED
      BY <2>0, <2>2, <3>1, <3>2 DEF j
  <2>3. CASE ~(i <= p) /\ ~(i <= p + n)
    <3> DEFINE j == i - p - n
    <3>1. j \in 1..r /\ p + n + j = i
      BY <2>3, ThirdPart
    <3> HIDE DEF j
    <3>2. m[p + n + j] = c[j]
      BY <1>4, <3>1 DEF Parts
    <3>3. QED
      BY <2>0, <2>3, <3>1, <3>2 DEF j
  <2>4. QED
    BY <2>1, <2>2, <2>3
<1>7. m = abc
  <2>1. abc \in Seq(Byte) /\ Len(abc) = p + n + r
    BY <1>5 DEF abc
  <2>2. \A i \in 1..Len(abc) : m[i] = abc[i]
    BY <1>6, <2>1
  <2>3. Len(m) = Len(abc)
    BY <2>1
  <2>4. QED
    BY <2>1, <2>2, <2>3, SameBytes
<1>8. QED
  BY <1>7 DEF Spliced, abc, a, b, c

(* n bytes from p on: those of s, then zeroes *)
Laid(m, p, s, n) ==
  IF Len(s) < n THEN Zero(Copy(m, p, s, 0, Len(s)), p + Len(s), n - Len(s))
  ELSE Copy(m, p, s, 0, n)

LEMMA LaidProperties ==
  ASSUME BufferAssumption, NEW m \in Memory, NEW p \in Nat, NEW s \in Seq(Byte), NEW n \in Nat
  PROVE  /\ Laid(m, p, s, n) \in Memory
         /\ Len(Laid(m, p, s, n)) = Len(m)
         /\ \A i \in 1..Len(m) :
              Laid(m, p, s, n)[i] =
                IF p < i /\ i <= p + n
                  THEN IF i - p <= Len(s) THEN s[i - p] ELSE 0
                  ELSE m[i]
<1> DEFINE l == Len(s)
           d == Laid(m, p, s, n)
<1>1. l \in Nat /\ \A i \in 1..l : s[i] \in Cell
  BY BytesAreMemory
<1>2. Len(m) \in Nat
  BY MemoryCells
<1>3. CASE l < n
  <2> DEFINE c == Copy(m, p, s, 0, l)
             z == Zero(c, p + l, n - l)
  <2>1. d = z
    BY <1>3 DEF Laid
  <2> HIDE DEF l, d
  <2>2. /\ c \in Memory /\ Len(c) = Len(m)
        /\ \A i \in 1..Len(m) : c[i] = IF p < i /\ i <= p + l THEN s[i - p] ELSE m[i]
    BY <1>1, CopyStart
  <2>3. p + l \in Int /\ n - l \in Int
    BY <1>1
  <2> HIDE DEF c
  <2>4. /\ z \in Memory /\ Len(z) = Len(m)
        /\ \A i \in 1..Len(m) :
             z[i] = IF p + l < i /\ i <= p + l + (n - l) THEN 0 ELSE c[i]
    BY <2>2, <2>3, ZeroProperties
  <2> HIDE DEF z
  <2>5. ASSUME NEW i \in 1..Len(m)
        PROVE  z[i] = IF p < i /\ i <= p + n
                        THEN IF i - p <= l THEN s[i - p] ELSE 0
                        ELSE m[i]
    <3>1. z[i] = IF p + l < i /\ i <= p + l + (n - l) THEN 0 ELSE c[i]
      BY <2>4
    <3>2. c[i] = IF p < i /\ i <= p + l THEN s[i - p] ELSE m[i]
      BY <2>2
    <3>3. CASE i <= p + l
      <4>1. i <= p + n /\ i - p <= l /\ ~(p + l < i)
        BY <1>1, <1>2, <1>3, <3>3
      <4>2. QED
        BY <3>1, <3>2, <3>3, <4>1
    <3>4. CASE ~(i <= p + l)
      <4>1. p < i /\ p + l < i /\ ~(i - p <= l) /\ (i <= p + l + (n - l) <=> i <= p + n)
        BY <1>1, <1>2, <1>3, <3>4
      <4>2. QED
        BY <3>1, <3>2, <3>4, <4>1
    <3>5. QED
      BY <3>3, <3>4
  <2>6. QED
    BY <2>1, <2>4, <2>5 DEF l, d
<1>4. CASE ~(l < n)
  <2> DEFINE c == Copy(m, p, s, 0, n)
  <2>1. d = c
    BY <1>4 DEF Laid
  <2>2. \A i \in 1..n : s[i] \in Cell
    BY <1>1, <1>4
  <2> HIDE DEF l, d
  <2>3. /\ c \in Memory /\ Len(c) = Len(m)
        /\ \A i \in 1..Len(m) : c[i] = IF p < i /\ i <= p + n THEN s[i - p] ELSE m[i]
    BY <2>2, CopyStart
  <2>4. \A i \in 1..Len(m) : p < i /\ i <= p + n => i - p <= l
    BY <1>1, <1>2, <1>4
  <2> HIDE DEF c
  <2>5. QED
    BY <2>1, <2>3, <2>4 DEF l, d
<1>5. QED
  BY <1>3, <1>4

(* buf_append to no buffer: the first bytes, or zeroes behind them all. *)
LEMMA DupSizeHolds ==
  ASSUME BufferAssumption, NEW s \in Seq(Byte), NEW n \in Nat
  PROVE  DupSize(s, n) = Exact(BS!Padded(s, n))
<1> DEFINE l == Len(s)
           a == Alloc(n)
           m == Laid(a, 0, s, n)
           r == BS!Padded(s, n)
<1>1. l \in Nat
  BY LenProperties
<1>2. r \in Seq(Byte) /\ Len(r) = n /\ \A i \in 1..n : r[i] = IF i <= l THEN s[i] ELSE 0
  BY PaddedProperties
<1>3. a \in Memory /\ Len(a) = n
  BY AllocProperties
<1>4. DupSize(s, n) = Buf(m, n)
  <2>1. 0 + l = l
    BY <1>1
  <2>2. QED
    BY <2>1 DEF DupSize, Laid
<1> HIDE DEF a, l, r
<1>5. /\ m \in Memory /\ Len(m) = n
      /\ \A i \in 1..n :
           m[i] = IF 0 < i /\ i <= 0 + n
                    THEN IF i - 0 <= Len(s) THEN s[i - 0] ELSE 0
                    ELSE a[i]
  BY <1>3, LaidProperties
<1>6. \A i \in 1..n : 0 < i /\ i <= 0 + n /\ i - 0 = i
  OBVIOUS
<1> HIDE DEF m
<1>7. \A i \in 1..n : m[i] = r[i]
  BY <1>2, <1>5, <1>6 DEF l
<1>8. m = r
  BY <1>2, <1>5, <1>7, SameBytes
<1>9. QED
  BY <1>2, <1>4, <1>8 DEF Exact, r

(* The memory buf_copy writes into: as long as it must be, and zero from   *)
(* the end of the text to p.                                               *)
Grown(t, p, q) ==
  IF Len(t) < q
    THEN Zero(Expand(t, q), Len(t), Larger(p, Len(t)) - Len(t))
    ELSE t

LEMMA GrownProperties ==
  ASSUME BufferAssumption, NEW t \in Seq(Byte), NEW p \in Nat, NEW q \in Nat, p <= q
  PROVE  /\ Grown(t, p, q) \in Memory
         /\ Len(Grown(t, p, q)) = q + Len(BS!From(t, q))
         /\ \A i \in 1..p : Grown(t, p, q)[i] = IF i <= Len(t) THEN t[i] ELSE 0
         /\ \A i \in 1..Len(BS!From(t, q)) :
              Grown(t, p, q)[q + i] = t[q + i]
<1> DEFINE l == Len(t)
           g == Grown(t, p, q)
           r == Len(BS!From(t, q))
<1>1. l \in Nat /\ t \in Memory
  BY BytesAreMemory
<1>2. r = IF q < l THEN l - q ELSE 0
  BY FromProperties
<1>3. CASE l < q
  <2> DEFINE e == Expand(t, q)
             w == Larger(p, l) - l
             z == Zero(e, l, w)
  <2>1. g = z
    BY <1>3 DEF Grown
  <2>2. e \in Memory /\ Len(e) = q /\ \A i \in 1..l : e[i] = t[i]
    <3>1. l <= q
      BY <1>1, <1>3
    <3>2. QED
      BY <1>1, <3>1, ExpandProperties
  <2>3. w \in Int /\ p <= l + w /\ l \in Int
    <3> DEFINE k == Larger(p, l)
    <3>1. k = IF p < l THEN l ELSE p
      BY DEF Larger
    <3> HIDE DEF k, l
    <3>2. k \in Nat /\ p <= k
      BY <1>1, <3>1
    <3>3. k - l \in Int /\ l + (k - l) = k
      BY <1>1, <3>2
    <3>4. QED
      BY <1>1, <3>2, <3>3 DEF k
  <2> HIDE DEF e, w, g, l, r
  <2>4. /\ z \in Memory /\ Len(z) = Len(e)
        /\ \A i \in 1..Len(e) : z[i] = IF l < i /\ i <= l + w THEN 0 ELSE e[i]
    BY <2>2, <2>3, ZeroProperties
  <2> HIDE DEF z
  <2>5. r = 0
    BY <1>1, <1>2, <1>3
  <2>6. ASSUME NEW i \in 1..p
        PROVE  z[i] = IF i <= l THEN t[i] ELSE 0
    <3>1. i \in 1..Len(e)
      BY <2>2
    <3>2. z[i] = IF l < i /\ i <= l + w THEN 0 ELSE e[i]
      BY <2>4, <3>1
    <3>3. CASE i <= l
      <4>1. i \in 1..l /\ ~(l < i)
        BY <1>1, <3>3
      <4>2. QED
        BY <2>2, <3>2, <3>3, <4>1
    <3>4. CASE ~(i <= l)
      <4>1. l < i /\ i <= l + w
        BY <1>1, <2>3, <3>4
      <4>2. QED
        BY <3>2, <3>4, <4>1
    <3>5. QED
      BY <3>3, <3>4
  <2>7. q + 0 = q
    OBVIOUS
  <2>8. QED
    BY <2>1, <2>2, <2>4, <2>5, <2>6, <2>7 DEF g, l, r
<1>4. CASE ~(l < q)
  <2>1. g = t
    BY <1>4 DEF Grown
  <2>2. \A i \in 1..p : i <= l
    BY <1>1, <1>4
  <2>3. l = q + r
    <3> HIDE DEF l, r
    <3>1. QED
      BY <1>1, <1>2, <1>4
  <2> HIDE DEF g, r
  <2>4. QED
    BY <1>1, <2>1, <2>2, <2>3 DEF g, r
<1>5. QED
  BY <1>3, <1>4

IsSum(q, p, n) == q = p + n

(* buf_copy from the beginning of the source, from k on, at most p *)
LEMMA PutHolds ==
  ASSUME BufferAssumption, NEW t \in Seq(Byte), NEW s \in Seq(Byte),
         NEW p \in Nat, NEW k \in Nat, NEW n \in Nat, NEW q \in Nat,
         k <= p, p <= q, IsSum(q, k, n)
  PROVE  Laid(Grown(t, p, q), k, s, n) = Spliced(t, k, s, n, q)
<1> DEFINE g == Grown(t, p, q)
           m == Laid(g, k, s, n)
           r == Len(BS!From(t, q))
<1>0. q = k + n
  BY DEF IsSum
<1>1. r \in Nat
  <2>1. BS!From(t, q) \in Seq(Byte)
    BY FromProperties
  <2>2. QED
    BY <2>1, LenProperties
<1>2. /\ g \in Memory /\ Len(g) = q + r
      /\ \A i \in 1..p : g[i] = IF i <= Len(t) THEN t[i] ELSE 0
      /\ \A i \in 1..r : g[q + i] = t[q + i]
  BY <1>1, GrownProperties
<1> HIDE DEF g, r
<1>3. /\ m \in Memory /\ Len(m) = Len(g)
      /\ \A i \in 1..Len(g) :
           m[i] = IF k < i /\ i <= k + n
                    THEN IF i - k <= Len(s) THEN s[i - k] ELSE 0
                    ELSE g[i]
  BY <1>2, LaidProperties
<1> HIDE DEF m
<1>4. ASSUME NEW i \in 1..k
      PROVE  m[i] = IF i <= Len(t) THEN t[i] ELSE 0
  <2>1. i \in 1..(q + r) /\ i \in 1..p /\ ~(k < i)
    BY <1>1
  <2>2. QED
    BY <1>2, <1>3, <2>1
<1>5. ASSUME NEW i \in 1..n
      PROVE  m[k + i] = IF i <= Len(s) THEN s[i] ELSE 0
  <2>1. k + i \in 1..(q + r) /\ k < k + i /\ k + i <= k + n /\ (k + i) - k = i
    BY <1>0, <1>1
  <2>2. QED
    BY <1>2, <1>3, <2>1
<1>6. ASSUME NEW i \in 1..r
      PROVE  m[k + n + i] = t[q + i]
  <2>1. k + n + i = q + i /\ q + i \in 1..(q + r) /\ ~(q + i <= k + n)
    BY <1>0, <1>1
  <2>2. QED
    BY <1>2, <1>3, <2>1
<1>7. Parts(m, t, s, k, n, q, r)
  BY <1>4, <1>5, <1>6 DEF Parts
<1>8. Len(m) = k + n + r
  BY <1>0, <1>2, <1>3
<1>9. r = Len(BS!From(t, q))
  BY DEF r
<1>10. m = Spliced(t, k, s, n, q)
  BY <1>1, <1>3, <1>7, <1>8, <1>9, Assembled
<1>11. QED
  BY <1>10 DEF m, g

(* From the smaller to the larger of two sizes *)
LEMMA LargerProperties ==
  ASSUME NEW a \in Nat, NEW b \in Nat
  PROVE  /\ Larger(a, b) \in Nat /\ Larger(a, b) - b \in Int
         /\ a <= Larger(a, b) /\ b <= Larger(a, b)
         /\ b + (Larger(a, b) - b) = Larger(a, b)
         /\ Larger(a, b) = b \/ Larger(a, b) = a
<1> DEFINE k == Larger(a, b)
<1>1. k = IF a < b THEN b ELSE a
  BY DEF Larger
<1> HIDE DEF k
<1>2. k \in Nat /\ a <= k /\ b <= k /\ (k = b \/ k = a)
  BY <1>1
<1>3. k - b \in Int /\ b + (k - b) = k
  BY <1>2
<1>4. QED
  BY <1>2, <1>3 DEF k

(* The text with a hole of n bytes at p *)
Opened(t, p, n, r) == Move(Expand(t, p + n + r), p, n, r)

IsOpened(m, t, p, n, r) ==
  /\ m \in Memory
  /\ Len(m) = p + n + r
  /\ \A i \in 1..p : i <= Len(t) => m[i] = t[i]
  /\ \A i \in 1..r : m[p + n + i] = t[p + i]

LEMMA OpenedProperties ==
  ASSUME NEW t \in Seq(Byte), NEW p \in Nat, NEW n \in Nat,
         NEW r \in Nat, r = Len(BS!From(t, p))
  PROVE  IsOpened(Opened(t, p, n, r), t, p, n, r)
<1> DEFINE l == Len(t)
           q == p + n + r
           e == Expand(t, q)
           m == Move(e, p, n, r)
<1>1. l \in Nat /\ t \in Memory
  BY BytesAreMemory
<1>2. r = IF p < l THEN l - p ELSE 0
  BY FromProperties
<1>3. q \in Nat /\ l <= q /\ p + r <= q /\ q = p + n + r
  <2> HIDE DEF l
  <2>1. QED
    BY <1>1, <1>2
<1> HIDE DEF q
<1>4. e \in Memory /\ Len(e) = q /\ \A i \in 1..l : e[i] = t[i]
  BY <1>1, <1>3, ExpandProperties
<1> HIDE DEF e, l
<1>5. /\ m \in Memory /\ Len(m) = q
      /\ \A i \in 1..q : m[i] = IF p + n < i /\ i <= p + n + r THEN e[i - n] ELSE e[i]
  <2>1. p + r <= Len(e)
    BY <1>3, <1>4
  <2>2. /\ m \in Memory /\ Len(m) = Len(e)
        /\ \A i \in 1..Len(e) :
             m[i] = IF p + n < i /\ i <= p + n + r THEN e[i - n] ELSE e[i]
    <3>1. IsMoved(m, e, p, n, r)
      BY <1>4, <2>1, MoveProperties
    <3> HIDE DEF m
    <3>2. QED
      BY <3>1 DEF IsMoved
  <2>3. QED
    BY <1>4, <2>2
<1> HIDE DEF m
<1>6. ASSUME NEW i \in 1..p, i <= l
      PROVE  m[i] = t[i]
  <2>1. i \in 1..q /\ i \in 1..l /\ ~(p + n < i)
    BY <1>1, <1>3, <1>6
  <2>2. QED
    BY <1>4, <1>5, <2>1
<1>7. ASSUME NEW i \in 1..r
      PROVE  m[p + n + i] = t[p + i]
  <2>1. p < l
    BY <1>1, <1>2
  <2>2. /\ p + n + i \in 1..q /\ p + n < p + n + i /\ p + n + i <= p + n + r
        /\ (p + n + i) - n = p + i
    BY <1>3
  <2>3. p + i \in 1..l
    BY <1>1, <1>2, <2>1
  <2>4. QED
    BY <1>4, <1>5, <2>2, <2>3
<1>8. /\ m \in Memory /\ Len(m) = p + n + r
      /\ \A i \in 1..p : i <= Len(t) => m[i] = t[i]
      /\ \A i \in 1..r : m[p + n + i] = t[p + i]
  BY <1>3, <1>5, <1>6, <1>7 DEF l
<1>9. m = Opened(t, p, n, r)
  BY DEF Opened, m, e, q
<1>10. QED
  BY <1>8, <1>9 DEF IsOpened

(* The hole filled: what part of s there is, then zeroes before p and      *)
(* behind the part.                                                        *)
Filled(m, t, s, p, n) ==
  LET part == IF Len(s) < n THEN Len(s) ELSE n
      put  == Copy(m, p, s, 0, part)
      gap  == Zero(put, Len(t), Larger(p, Len(t)) - Len(t))
  IN  Zero(gap, p + Len(s), Larger(n, Len(s)) - Len(s))

IsFilled(f, m, t, s, p, n) ==
  /\ f \in Memory
  /\ Len(f) = Len(m)
  /\ \A i \in 1..p : f[i] = IF i <= Len(t) THEN m[i] ELSE 0
  /\ \A i \in 1..n : f[p + i] = IF i <= Len(s) THEN s[i] ELSE 0
  /\ \A i \in 1..Len(m) : p + n < i => f[i] = m[i]

LEMMA FilledProperties ==
  ASSUME BufferAssumption, NEW m \in Memory, NEW t \in Seq(Byte), NEW s \in Seq(Byte),
         NEW p \in Nat, NEW n \in Nat, p + n <= Len(m)
  PROVE  IsFilled(Filled(m, t, s, p, n), m, t, s, p, n)
<1> DEFINE l    == Len(t)
           k    == Len(s)
           part == IF k < n THEN k ELSE n
           put  == Copy(m, p, s, 0, part)
           w    == Larger(p, l) - l
           gap  == Zero(put, l, w)
           x    == Larger(n, k) - k
           res  == Zero(gap, p + k, x)
<1>1. l \in Nat /\ k \in Nat /\ \A i \in 1..k : s[i] \in Cell
  BY BytesAreMemory
<1>2. Len(m) \in Nat
  BY MemoryCells
<1>3. /\ w \in Int /\ p <= l + w
      /\ \A i \in Int : l < i /\ i <= l + w => i <= p
  <2> DEFINE y == Larger(p, l)
  <2> HIDE DEF l
  <2>1. y \in Nat /\ y - l \in Int /\ p <= y /\ l + (y - l) = y /\ (y = l \/ y = p)
    BY <1>1, LargerProperties
  <2> HIDE DEF y
  <2>2. QED
    BY <1>1, <2>1 DEF y
<1>4. /\ x \in Int /\ p + n <= p + k + x
      /\ \A i \in Int : p + k < i /\ i <= p + k + x => i <= p + n
  <2> DEFINE y == Larger(n, k)
  <2> HIDE DEF k
  <2>1. y \in Nat /\ y - k \in Int /\ n <= y /\ k + (y - k) = y /\ (y = k \/ y = n)
    BY <1>1, LargerProperties
  <2> HIDE DEF y
  <2>2. x \in Int /\ n <= k + x /\ (k + x = k \/ k + x = n)
    BY <2>1 DEF y
  <2> HIDE DEF x
  <2>3. p + k + x = p + k \/ p + k + x = p + n
    BY <1>1, <2>2
  <2>4. p + n <= p + k + x
    BY <1>1, <2>2
  <2>5. ASSUME NEW i \in Int, p + k < i, i <= p + k + x
        PROVE  i <= p + n
    BY <1>1, <2>3, <2>5
  <2>6. QED
    BY <2>2, <2>4, <2>5
<1>5. part \in Nat /\ part <= n /\ part <= k /\ \A i \in 1..n : i <= k <=> i <= part
  <2> HIDE DEF k
  <2>1. QED
    BY <1>1
<1>6. Filled(m, t, s, p, n) = res
  BY DEF Filled
<1> HIDE DEF l, k, part, w, x
<1>7. /\ put \in Memory /\ Len(put) = Len(m)
      /\ \A i \in 1..Len(m) :
           put[i] = IF p < i /\ i <= p + part THEN s[i - p] ELSE m[i]
  <2>1. \A i \in 1..part : s[i] \in Cell
    BY <1>1, <1>5
  <2>2. QED
    BY <1>5, <2>1, CopyStart
<1> HIDE DEF put
<1>8. /\ gap \in Memory /\ Len(gap) = Len(m)
      /\ \A i \in 1..Len(m) : gap[i] = IF l < i /\ i <= l + w THEN 0 ELSE put[i]
  <2>1. l \in Int
    BY <1>1
  <2>2. /\ gap \in Memory /\ Len(gap) = Len(put)
        /\ \A i \in 1..Len(put) : gap[i] = IF l < i /\ i <= l + w THEN 0 ELSE put[i]
    BY <1>3, <1>7, <2>1, ZeroProperties
  <2>3. QED
    BY <1>7, <2>2
<1> HIDE DEF gap
<1>9. /\ res \in Memory /\ Len(res) = Len(m)
      /\ \A i \in 1..Len(m) :
           res[i] = IF p + k < i /\ i <= p + k + x THEN 0 ELSE gap[i]
  <2> DEFINE o == p + k
  <2>1. o \in Int
    BY <1>1
  <2> HIDE DEF o
  <2>2. /\ Zero(gap, o, x) \in Memory /\ Len(Zero(gap, o, x)) = Len(gap)
        /\ \A i \in 1..Len(gap) :
             Zero(gap, o, x)[i] = IF o < i /\ i <= o + x THEN 0 ELSE gap[i]
    BY <1>4, <1>8, <2>1, ZeroProperties
  <2>3. QED
    BY <1>8, <2>2 DEF o
<1> HIDE DEF res
<1>10. ASSUME NEW i \in 1..p
       PROVE  res[i] = IF i <= l THEN m[i] ELSE 0
  <2>1. i \in 1..Len(m) /\ ~(p < i) /\ ~(p + k < i)
    BY <1>1, <1>2
  <2>2. l < i => i <= l + w
    BY <1>1, <1>3
  <2>3. l < i <=> ~(i <= l)
    BY <1>1
  <2>4. QED
    BY <1>7, <1>8, <1>9, <2>1, <2>2, <2>3
<1>11. ASSUME NEW i \in 1..n
       PROVE  res[p + i] = IF i <= k THEN s[i] ELSE 0
  <2> DEFINE j == p + i
  <2>1. j \in 1..Len(m) /\ j \in Int /\ p < j /\ j - p = i /\ ~(j <= p)
    BY <1>2
  <2>2. ~(l < j /\ j <= l + w)
    BY <1>3, <2>1
  <2>3. (j <= p + part <=> i <= k) /\ (p + k < j <=> ~(i <= k)) /\ j <= p + k + x
    <3>1. i <= k <=> i <= part
      BY <1>5
    <3>2. j <= p + part <=> i <= part
      BY <1>5
    <3>3. p + k < j <=> ~(i <= k)
      BY <1>1
    <3>4. j <= p + k + x
      BY <1>1, <1>4
    <3>5. QED
      BY <3>1, <3>2, <3>3, <3>4
  <2> HIDE DEF j
  <2>4. res[j] = IF i <= k THEN s[i] ELSE 0
    BY <1>7, <1>8, <1>9, <2>1, <2>2, <2>3
  <2>5. QED
    BY <2>4 DEF j
<1>12. ASSUME NEW i \in 1..Len(m), p + n < i
       PROVE  res[i] = m[i]
  <2>1. i \in Int /\ ~(i <= p) /\ ~(i <= p + n) /\ ~(i <= p + part)
    BY <1>2, <1>5, <1>12
  <2>2. ~(l < i /\ i <= l + w) /\ ~(p + k < i /\ i <= p + k + x)
    BY <1>3, <1>4, <2>1
  <2>3. QED
    BY <1>7, <1>8, <1>9, <2>1, <2>2
<1>13. QED
  BY <1>6, <1>9, <1>10, <1>11, <1>12 DEF l, k, IsFilled

(* buf_insert *)
LEMMA InsertHolds ==
  ASSUME BufferAssumption, NEW t \in Seq(Byte), NEW s \in Seq(Byte),
         NEW p \in Nat, NEW n \in Nat, NEW r \in Nat, r = Len(BS!From(t, p))
  PROVE  Filled(Opened(t, p, n, r), t, s, p, n) = Spliced(t, p, s, n, p)
<1> DEFINE o == Opened(t, p, n, r)
           m == Filled(o, t, s, p, n)
<1>1. /\ o \in Memory /\ Len(o) = p + n + r
      /\ \A i \in 1..p : i <= Len(t) => o[i] = t[i]
      /\ \A i \in 1..r : o[p + n + i] = t[p + i]
  <2>1. IsOpened(o, t, p, n, r)
    BY OpenedProperties
  <2> HIDE DEF o
  <2>2. QED
    BY <2>1 DEF IsOpened
<1> HIDE DEF o
<1>2. /\ m \in Memory /\ Len(m) = Len(o)
      /\ \A i \in 1..p : m[i] = IF i <= Len(t) THEN o[i] ELSE 0
      /\ \A i \in 1..n : m[p + i] = IF i <= Len(s) THEN s[i] ELSE 0
      /\ \A i \in 1..Len(o) : p + n < i => m[i] = o[i]
  <2>1. p + n <= Len(o)
    BY <1>1
  <2>2. QED
    <3>1. IsFilled(m, o, t, s, p, n)
      BY <1>1, <2>1, FilledProperties
    <3> HIDE DEF m
    <3>2. QED
      BY <3>1 DEF IsFilled
<1> HIDE DEF m
<1>3. ASSUME NEW i \in 1..r
      PROVE  m[p + n + i] = t[p + i]
  <2>1. p + n + i \in 1..(p + n + r) /\ p + n < p + n + i
    OBVIOUS
  <2>2. QED
    BY <1>1, <1>2, <2>1
<1>4. Parts(m, t, s, p, n, p, r)
  BY <1>1, <1>2, <1>3 DEF Parts
<1>5. m \in Memory /\ Len(m) = p + n + r
  BY <1>1, <1>2
<1>6. m = Spliced(t, p, s, n, p)
  BY <1>4, <1>5, Assembled
<1>7. QED
  BY <1>6 DEF m, o

(* What is inserted or laid over the text is a string again, and how long. *)
OfLength(u, k) == u \in Seq(Byte) /\ Len(u) = k

LEMMA PartsJoined ==
  ASSUME BufferAssumption, NEW t \in Seq(Byte), NEW s \in Seq(Byte),
         NEW p \in Nat, NEW n \in Nat, NEW q \in Nat
  PROVE  OfLength(Spliced(t, p, s, n, q), p + n + Len(BS!From(t, q)))
<1> DEFINE a == BS!Padded(t, p)
           b == BS!Padded(s, n)
           c == BS!From(t, q)
<1>1. a \in Seq(Byte) /\ Len(a) = p
  BY PaddedProperties
<1>2. b \in Seq(Byte) /\ Len(b) = n
  BY PaddedProperties
<1>3. c \in Seq(Byte)
  BY FromProperties
<1> HIDE DEF a, b, c
<1>4. a \o b \o c \in Seq(Byte) /\ Len(a \o b \o c) = Len(a) + Len(b) + Len(c)
  <2>1. IsJoin(a \o b \o c, a, b, c)
    BY <1>1, <1>2, <1>3, Joined3
  <2>2. QED
    BY <2>1 DEF IsJoin
<1>5. QED
  BY <1>1, <1>2, <1>4 DEF OfLength, Spliced, a, b, c

(* buf_insert into a buffer *)
LEMMA InsertedHolds ==
  ASSUME BufferAssumption, NEW t \in Seq(Byte), NEW s \in Seq(Byte),
         NEW p \in Nat, NEW n \in Nat
  PROVE  Inserted(Exact(t), s, p, n) = Exact(Spliced(t, p, s, n, p))
<1> DEFINE l == Len(t)
           r == Len(BS!From(t, p))
           u == Spliced(t, p, s, n, p)
           f == Filled(Opened(t, p, n, r), t, s, p, n)
<1>1. l \in Nat
  BY LenProperties
<1>2. r = (IF l > p THEN l - p ELSE 0) /\ r \in Nat
  <2>1. r = IF p < l THEN l - p ELSE 0
    BY FromProperties
  <2> HIDE DEF r, l
  <2>2. QED
    BY <1>1, <2>1
<1>3. Larger(p, l) + n = p + n + r
  <2>1. Larger(p, l) = IF p < l THEN l ELSE p
    BY DEF Larger
  <2> HIDE DEF r, l
  <2>2. CASE p < l
    BY <1>1, <1>2, <2>1, <2>2
  <2>3. CASE ~(p < l)
    BY <1>1, <1>2, <2>1, <2>3
  <2>4. QED
    BY <2>2, <2>3
<1>4. f = u
  <2>1. r \in Nat /\ r = Len(BS!From(t, p))
    BY <1>2
  <2> HIDE DEF r
  <2>2. QED
    BY <2>1, InsertHolds
<1>5. Len(u) = p + n + r
  BY PartsJoined DEF OfLength
<1>6. Inserted(Exact(t), s, p, n) = Buf(f, p + n + r)
  <2>1. Exact(t).mem = t /\ Exact(t).size = l
    BY DEF Exact, Buf
  <2>2. Inserted(Exact(t), s, p, n)
          = Buf(Filled(Move(Expand(t, Larger(p, l) + n), p, n,
                            IF l > p THEN l - p ELSE 0), t, s, p, n),
                Larger(p, l) + n)
    <3> DEFINE x == Exact(t)
    <3>1. x.mem = t /\ x.size = l
      BY <2>1
    <3> HIDE DEF x
    <3>2. Inserted(x, s, p, n)
            = Buf(Filled(Move(Expand(x.mem, Larger(p, x.size) + n), p, n,
                              IF x.size > p THEN x.size - p ELSE 0), t, s, p, n),
                  Larger(p, x.size) + n)
      BY <3>1 DEF Inserted, Filled
    <3>3. QED
      BY <3>1, <3>2 DEF x
  <2>3. QED
    BY <1>2, <1>3, <2>2 DEF Opened
<1>7. QED
  BY <1>4, <1>5, <1>6 DEF Exact

(* memcpy from further on is memcpy of what is there. *)
LEMMA CopySkips ==
  ASSUME NEW m \in Memory, NEW p \in Nat, NEW s \in Seq(Byte), NEW f \in Nat,
         NEW n \in Nat, n <= Len(BS!From(s, f))
  PROVE  Copy(m, p, s, f, n) = Copy(m, p, BS!From(s, f), 0, n)
<1> DEFINE c == BS!From(s, f)
<1>1. c \in Seq(Byte) /\ \A i \in 1..Len(c) : c[i] = s[f + i]
  BY FromProperties
<1>2. Len(c) \in Nat
  BY <1>1, LenProperties
<1>3. Len(m) \in Nat /\ DOMAIN m = 1..Len(m)
  BY MemoryCells
<1> HIDE DEF c
<1>4. ASSUME NEW i \in 1..Len(m), p < i, i <= p + n
      PROVE  s[f + (i - p)] = c[0 + (i - p)]
  <2> DEFINE j == i - p
  <2>1. j \in 1..Len(c) /\ 0 + j = j
    BY <1>2, <1>3, <1>4 DEF c
  <2> HIDE DEF j
  <2>2. s[f + j] = c[0 + j]
    BY <1>1, <2>1
  <2>3. QED
    BY <2>2 DEF j
<1>5. QED
  BY <1>3, <1>4 DEF Copy, Within, c

(* buf_copy onto a buffer, from a place in the source *)
LEMMA OverwrittenWithin ==
  ASSUME BufferAssumption, NEW t \in Seq(Byte), NEW s \in Seq(Byte),
         NEW p \in Nat, NEW f \in Nat, NEW n \in Nat, f <= Len(s)
  PROVE  Overwritten(Exact(t), s, p, f, n)
           = Exact(Spliced(t, p, BS!From(s, f), n, p + n))
<1> DEFINE l == Len(t)
           c == BS!From(s, f)
           a == Len(s) - f
           q == p + n
           r == Len(BS!From(t, q))
           g == Grown(t, p, q)
           u == Spliced(t, p, c, n, q)
<1>1. l \in Nat
  BY LenProperties
<1>2. c \in Seq(Byte) /\ Len(c) = a /\ a \in Nat
  <2>1. c \in Seq(Byte) /\ Len(c) = IF f < Len(s) THEN Len(s) - f ELSE 0
    BY FromProperties
  <2>2. Len(s) \in Nat
    BY LenProperties
  <2> HIDE DEF c
  <2>3. QED
    BY <2>1, <2>2
<1>3. q \in Nat /\ p <= q
  OBVIOUS
<1>4. Laid(g, p, c, n) = u
  <2>1. q \in Nat /\ IsSum(q, p, n) /\ p <= p /\ p <= q
    BY DEF IsSum
  <2> HIDE DEF c, q
  <2>2. QED
    BY <1>2, <2>1, PutHolds
<1>5. /\ Len(u) = p + n + r
      /\ r = IF q < l THEN l - q ELSE 0
  <2>1. r = IF q < l THEN l - q ELSE 0
    <3> HIDE DEF q
    <3>1. QED
      BY <1>3, FromProperties
  <2> HIDE DEF c, q
  <2>2. Len(u) = p + n + r
    <3>1. Len(Spliced(t, p, c, n, q)) = p + n + Len(BS!From(t, q))
      <4>1. c \in Seq(Byte)
        BY <1>2
      <4>2. q \in Nat
        BY <1>3
      <4>3. OfLength(Spliced(t, p, c, n, q), p + n + Len(BS!From(t, q)))
        BY <4>1, <4>2, PartsJoined, Zenon
      <4>4. QED
        BY <4>3 DEF OfLength
    <3>2. QED
      BY <3>1
  <2>3. QED
    BY <2>1, <2>2
<1>6. g \in Memory
  <2> HIDE DEF q
  <2>1. QED
    BY <1>3, GrownProperties
<1>7. IF a < n THEN Copy(g, p, s, f, a) = Copy(g, p, c, 0, a)
      ELSE Copy(g, p, s, f, n) = Copy(g, p, c, 0, n)
  <2> HIDE DEF g
  <2>1. CASE a < n
    <3>1. a <= Len(c)
      BY <1>2
    <3> HIDE DEF a
    <3>2. Copy(g, p, s, f, a) = Copy(g, p, c, 0, a)
      BY <1>2, <1>6, <3>1, CopySkips
    <3>3. QED
      BY <2>1, <3>2
  <2>2. CASE ~(a < n)
    <3>1. n <= Len(c)
      BY <1>2, <2>2
    <3>2. Copy(g, p, s, f, n) = Copy(g, p, c, 0, n)
      BY <1>6, <3>1, CopySkips
    <3>3. QED
      BY <2>2, <3>2
  <2>3. QED
    BY <2>1, <2>2
<1>8. Overwritten(Exact(t), s, p, f, n)
        = Buf(IF a < n THEN Zero(Copy(g, p, s, f, a), p + a, n - a)
              ELSE Copy(g, p, s, f, n),
              IF l < q THEN q ELSE l)
  <2> DEFINE x == Exact(t)
  <2>1. x.mem = t /\ x.size = l
    BY DEF Exact, Buf
  <2>2. g = IF ~(x.size < p + n) THEN x.mem
            ELSE Zero(Expand(x.mem, p + n), x.size, Larger(p, x.size) - x.size)
    BY <2>1 DEF Grown
  <2> HIDE DEF x, g
  <2>3. Overwritten(x, s, p, f, n)
          = Buf(IF a < n THEN Zero(Copy(g, p, s, f, a), p + a, n - a)
                ELSE Copy(g, p, s, f, n),
                IF x.size < p + n THEN p + n ELSE x.size)
    BY <2>2 DEF Overwritten
  <2>4. QED
    BY <2>1, <2>3 DEF x
<1>9. (IF a < n THEN Zero(Copy(g, p, s, f, a), p + a, n - a)
       ELSE Copy(g, p, s, f, n)) = Laid(g, p, c, n)
  <2> HIDE DEF g, c, a
  <2>1. QED
    BY <1>2, <1>7 DEF Laid
<1>10. (IF l < q THEN q ELSE l) = p + n + r
  <2>1. q = p + n
    OBVIOUS
  <2> HIDE DEF l, q, r, u
  <2>2. QED
    BY <1>1, <1>3, <1>5, <2>1
<1>11. Overwritten(Exact(t), s, p, f, n) = Buf(u, Len(u))
  BY <1>4, <1>5, <1>8, <1>9, <1>10
<1>12. QED
  BY <1>11 DEF Exact

(* Nothing is copied of a negative number of bytes, or of none. *)
LEMMA CopyOfNothing ==
  ASSUME NEW m \in Memory, NEW p \in Nat, NEW s, NEW f, NEW n \in Int, n <= 0
  PROVE  Copy(m, p, s, f, n) = m
<1>1. Len(m) \in Nat /\ m \in [1..Len(m) -> Cell] /\ DOMAIN m = 1..Len(m)
  BY MemoryCells, LenProperties DEF Memory, Cell
<1>2. \A i \in 1..Len(m) : ~Within(i, p, n)
  BY <1>1 DEF Within
<1>3. QED
  BY <1>1, <1>2 DEF Copy

(* How far behind the end of s the place f is *)
Lacking(s, f) == IF f > Len(s) THEN f - Len(s) ELSE 0

(* buf_copy from behind the end of the source *)
LEMMA OverwrittenBehind ==
  ASSUME BufferAssumption, NEW t \in Seq(Byte), NEW s \in Seq(Byte),
         NEW p \in Nat, NEW f \in Nat, NEW n \in Nat, f > Len(s), f <= Len(s) + p
  PROVE  Overwritten(Exact(t), s, p, f, n)
           = Exact(Spliced(t, p - (f - Len(s)), BS!From(s, f), n + (f - Len(s)), p + n))
<1> DEFINE l == Len(t)
           d == f - Len(s)
           k == p - d
           w == n + d
           q == p + n
           a == Len(s) - f
           r == Len(BS!From(t, q))
           g == Grown(t, p, q)
           u == Spliced(t, k, <<>>, w, q)
<1>1. /\ l \in Nat /\ d \in Nat /\ d > 0 /\ k \in Nat /\ k <= p /\ w \in Nat /\ w > 0
      /\ q \in Nat /\ p <= q /\ q = k + w
      /\ a \in Int /\ a <= 0 /\ a < n /\ p + a = k /\ n - a = w
  BY LenProperties
<1>2. BS!From(s, f) = <<>>
  <2>1. BS!From(s, f) \in Seq(Byte) /\ Len(BS!From(s, f)) = IF f < Len(s) THEN Len(s) - f ELSE 0
    BY FromProperties
  <2>2. Len(BS!From(s, f)) = 0
    BY <2>1, LenProperties
  <2>3. QED
    BY <2>1, <2>2, EmptySeq
<1>3. <<>> \in Seq(Byte) /\ Len(<<>>) = 0
  BY EmptySeq
<1>4. Overwritten(Exact(t), s, p, f, n)
        = Buf(Zero(Copy(g, p, s, f, a), k, w), IF l < q THEN q ELSE l)
  <2> DEFINE x == Exact(t)
  <2>1. x.mem = t /\ x.size = l
    BY DEF Exact, Buf
  <2>2. g = IF ~(x.size < p + n) THEN x.mem
            ELSE Zero(Expand(x.mem, p + n), x.size, Larger(p, x.size) - x.size)
    BY <2>1 DEF Grown
  <2>3. a < n /\ p + a = k /\ n - a = w
    BY <1>1
  <2> HIDE DEF x, g
  <2>4. Overwritten(x, s, p, f, n)
          = Buf(IF a < n THEN Zero(Copy(g, p, s, f, a), p + a, n - a)
                ELSE Copy(g, p, s, f, n),
                IF x.size < p + n THEN p + n ELSE x.size)
    BY <2>2 DEF Overwritten
  <2> HIDE DEF l, a, k, w
  <2>5. QED
    BY <2>1, <2>3, <2>4 DEF x
<1> HIDE DEF l, d, k, w, q, a
<1>5. g \in Memory /\ Len(g) = q + r
  BY <1>1, GrownProperties
<1>6. Len(u) = k + w + r
  <2>1. OfLength(Spliced(t, k, <<>>, w, q), k + w + Len(BS!From(t, q)))
    BY <1>1, <1>3, PartsJoined, Zenon
  <2>2. QED
    BY <2>1 DEF OfLength
<1>7. r = IF q < l THEN l - q ELSE 0
  BY <1>1, FromProperties DEF l
<1>8. Laid(g, k, <<>>, w) = u
  <2>1. IsSum(q, k, w)
    BY <1>1 DEF IsSum
  <2>2. k <= p /\ p <= q /\ k \in Nat /\ w \in Nat /\ q \in Nat
    BY <1>1
  <2> DEFINE e == <<>>
  <2>3. e \in Seq(Byte)
    BY <1>3
  <2> HIDE DEF e
  <2>4. Laid(Grown(t, p, q), k, e, w) = Spliced(t, k, e, w, q)
    BY <2>1, <2>2, <2>3, PutHolds
  <2>5. QED
    BY <2>4 DEF e
<1> HIDE DEF g, r, u
<1>9. Copy(g, p, s, f, a) = g /\ Copy(g, k, <<>>, 0, 0) = g
  BY <1>1, <1>5, CopyOfNothing
<1>10. Laid(g, k, <<>>, w) = Zero(g, k, w)
  <2>1. k + 0 = k /\ w - 0 = w /\ 0 < w
    BY <1>1
  <2>2. QED
    BY <1>3, <1>9, <2>1 DEF Laid
<1>11. (IF l < q THEN q ELSE l) = k + w + r
  BY <1>1, <1>7
<1>12. Overwritten(Exact(t), s, p, f, n) = Buf(u, Len(u))
  BY <1>4, <1>6, <1>8, <1>9, <1>10, <1>11
<1>13. QED
  BY <1>2, <1>12 DEF Exact, u, k, w, q, d

(* buf_copy onto a buffer *)
LEMMA OverwrittenHolds ==
  ASSUME BufferAssumption, NEW t \in Seq(Byte), NEW s \in Seq(Byte),
         NEW p \in Nat, NEW f \in Nat, NEW n \in Nat, f <= Len(s) + p
  PROVE  Overwritten(Exact(t), s, p, f, n)
           = Exact(Spliced(t, p - Lacking(s, f), BS!From(s, f), n + Lacking(s, f), p + n))
<1>1. CASE f > Len(s)
  BY <1>1, OverwrittenBehind DEF Lacking
<1>2. CASE ~(f > Len(s))
  <2>1. Lacking(s, f) = 0 /\ f <= Len(s)
    BY <1>2, LenProperties DEF Lacking
  <2>2. p - 0 = p /\ n + 0 = n
    OBVIOUS
  <2>3. QED
    BY <2>1, <2>2, OverwrittenWithin
<1>3. QED
  BY <1>1, <1>2

-----------------------------------------------------------------------------
(* Edits of no buffer: the text is empty, the memory is zeroes *)

LEMMA FromNothing ==
  ASSUME NEW n \in Nat
  PROVE  BS!From(<<>>, n) = <<>>
BY EmptySeq, SubSeqEmpty DEF BS!From

LEMMA FromStart ==
  ASSUME NEW s \in Seq(Byte)
  PROVE  BS!From(s, 0) = s
<1>1. Len(s) \in Nat
  BY LenProperties
<1>2. Len(s) \in 0..Len(s) /\ 0 + 1 = 1
  BY <1>1
<1>3. /\ SubSeq(s, 1, Len(s)) \in Seq(Byte) /\ Len(SubSeq(s, 1, Len(s))) = Len(s)
      /\ \A i \in 1..Len(s) : SubSeq(s, 1, Len(s))[i] = s[i]
  BY <1>2, PrefixProperties
<1>4. SubSeq(s, 1, Len(s)) = s
  BY <1>3, SeqEqual
<1>5. QED
  BY <1>2, <1>4 DEF BS!From

(* Zeroes in the place of nothing make no difference. *)
LEMMA ZeroesAreNothing ==
  ASSUME BufferAssumption, NEW c \in Seq(Byte), NEW p \in Nat, NEW n \in Nat,
         NEW q \in Nat, IsSum(q, p, n)
  PROVE  Spliced(BS!Padded(<<>>, q), p, c, n, q) = Spliced(<<>>, p, c, n, q)
<1> DEFINE z == BS!Padded(<<>>, q)
<1>1. <<>> \in Seq(Byte) /\ Len(<<>>) = 0
  BY EmptySeq
<1>2. z \in Seq(Byte) /\ Len(z) = q /\ \A i \in 1..q : z[i] = 0
  <2>1. z \in Seq(Byte) /\ Len(z) = q
    BY <1>1, PaddedProperties
  <2>2. z = [i \in 1..q |-> 0]
    BY <1>1 DEF BS!Padded
  <2> HIDE DEF z
  <2>3. QED
    BY <2>1, <2>2
<1>3. \A i \in 1..p : i \in 1..q /\ i \in Nat /\ ~(i <= 0)
  BY DEF IsSum
<1> HIDE DEF z
<1>4. BS!Padded(z, p) = BS!Padded(<<>>, p)
  <2>1. BS!Padded(z, p) = [i \in 1..p |-> 0]
    BY <1>2, <1>3 DEF BS!Padded
  <2>2. BS!Padded(<<>>, p) = [i \in 1..p |-> 0]
    BY <1>1, <1>3 DEF BS!Padded
  <2>3. QED
    BY <2>1, <2>2
<1>5. BS!From(z, q) = <<>>
  BY <1>2, SubSeqEmpty DEF BS!From
<1>6. BS!From(<<>>, q) = <<>>
  BY FromNothing
<1>7. QED
  BY <1>4, <1>5, <1>6 DEF Spliced, z

LEMMA FreshHolds ==
  ASSUME BufferAssumption, NEW s \in Seq(Byte),
         NEW p \in Nat, NEW f \in Nat, NEW n \in Nat, f <= Len(s) + p
  PROVE  Overwritten(ZeroOf(n + p), s, p, f, n)
           = Exact(Spliced(<<>>, p - Lacking(s, f), BS!From(s, f), n + Lacking(s, f), p + n))
<1> DEFINE q == p + n
           z == BS!Padded(<<>>, q)
           c == BS!From(s, f)
           k == p - Lacking(s, f)
           w == n + Lacking(s, f)
<1>1. n + p = q /\ q \in Nat /\ k \in Nat /\ w \in Nat /\ IsSum(q, k, w)
  <2>1. Lacking(s, f) \in Nat /\ Lacking(s, f) <= p
    BY LenProperties DEF Lacking
  <2>2. QED
    BY <2>1 DEF IsSum
<1>2. c \in Seq(Byte) /\ <<>> \in Seq(Byte)
  BY FromProperties, EmptySeq
<1>3. ZeroOf(n + p) = Exact(z)
  <2>1. ZeroOf(q) = Exact(z)
    <3> HIDE DEF q
    <3>1. QED
      BY <1>1, ZeroOfHolds
  <2>2. QED
    BY <1>1, <2>1
<1>4. z \in Seq(Byte)
  <2> HIDE DEF q
  <2>1. QED
    BY <1>1, <1>2, PaddedProperties
<1>5. Overwritten(Exact(z), s, p, f, n) = Exact(Spliced(z, k, c, w, q))
  <2> HIDE DEF z
  <2>1. QED
    BY <1>4, OverwrittenHolds
<1>6. Spliced(z, k, c, w, q) = Spliced(<<>>, k, c, w, q)
  <2> HIDE DEF c, q, k, w
  <2>1. QED
    BY <1>1, <1>2, ZeroesAreNothing
<1>7. QED
  BY <1>3, <1>5, <1>6

LEMMA FreshInsertHolds ==
  ASSUME BufferAssumption, NEW s \in Seq(Byte), NEW p \in Nat, NEW n \in Nat
  PROVE  Overwritten(ZeroOf(n + p), s, p, 0, n) = Exact(Spliced(<<>>, p, s, n, p))
<1>1. BS!From(s, 0) = s /\ 0 <= Len(s) /\ 0 <= Len(s) + p
  BY FromStart, LenProperties
<1>2. Overwritten(ZeroOf(n + p), s, p, 0, n)
        = Exact(Spliced(<<>>, p, BS!From(s, 0), n, p + n))
  <2>1. Lacking(s, 0) = 0 /\ p - 0 = p /\ n + 0 = n
    BY <1>1, LenProperties DEF Lacking
  <2>2. QED
    BY <1>1, <2>1, FreshHolds
<1>3. BS!From(<<>>, p) = <<>> /\ BS!From(<<>>, p + n) = <<>>
  <2> DEFINE q == p + n
  <2>1. q \in Nat
    OBVIOUS
  <2> HIDE DEF q
  <2>2. BS!From(<<>>, p) = <<>> /\ BS!From(<<>>, q) = <<>>
    BY <2>1, FromNothing
  <2>3. QED
    BY <2>2 DEF q
<1>4. QED
  BY <1>1, <1>2, <1>3 DEF Spliced

-----------------------------------------------------------------------------
(* The inductive invariant: the memory of a buffer is no more and no less  *)
(* than its bytes, whatever was done to it.                                *)
IInv ==
  /\ live \in BOOLEAN
  /\ \E t \in Seq(Byte) : buf = Exact(t) /\ (live \/ t = <<>>)

LEMMA TextOfExact ==
  ASSUME NEW t \in Seq(Byte)
  PROVE  Text(Exact(t)) = t
<1>1. BS!From(t, 0) = t
  BY FromStart
<1>2. SubSeq(t, 1, Len(t)) = t
  BY <1>1 DEF BS!From
<1>3. QED
  BY <1>2 DEF Text, Exact, Buf

(* What each call means *)
LEMMA Meanings ==
  ASSUME NEW t, NEW c
  PROVE  /\ c.op = "new" => BS!Meaning(t, c) = BS!Padded(c.arg, c.len)
         /\ c.op = "same" => BS!Meaning(t, c) = t
         /\ c.op = "resize" => BS!Meaning(t, c) = BS!Padded(t, c.len)
         /\ c.op = "append" => BS!Meaning(t, c) = t \o c.arg
         /\ c.op = "insert" => BS!Meaning(t, c) = Spliced(t, c.at, c.arg, c.len, c.at)
         /\ c.op = "put" =>
              BS!Meaning(t, c)
                = Spliced(t, c.at - Lacking(c.arg, c.skip), BS!From(c.arg, c.skip),
                          c.len + Lacking(c.arg, c.skip), c.at + c.len)
         /\ c.op = "free" => BS!Meaning(t, c) = <<>>
<1> DEFINE m == BS!Meaning(t, c)
<1>1. m = CASE c.op = "new"    -> BS!Padded(c.arg, c.len)
            [] c.op = "same"   -> t
            [] c.op = "resize" -> BS!Padded(t, c.len)
            [] c.op = "append" -> t \o c.arg
            [] c.op = "insert" -> Spliced(t, c.at, c.arg, c.len, c.at)
            [] c.op = "put"    -> Spliced(t, c.at - Lacking(c.arg, c.skip), BS!From(c.arg, c.skip),
                                          c.len + Lacking(c.arg, c.skip), c.at + c.len)
            [] OTHER           -> <<>>
  BY DEF BS!Meaning, BS!Missing, Lacking, Spliced
<1> HIDE DEF m
<1>2. c.op = "new" => m = BS!Padded(c.arg, c.len)
  BY <1>1
<1>3. c.op = "same" => m = t
  BY <1>1
<1>4. c.op = "resize" => m = BS!Padded(t, c.len)
  BY <1>1
<1>5. c.op = "append" => m = t \o c.arg
  BY <1>1
<1>6. c.op = "insert" => m = Spliced(t, c.at, c.arg, c.len, c.at)
  BY <1>1
<1>7. c.op = "put" => m = Spliced(t, c.at - Lacking(c.arg, c.skip), BS!From(c.arg, c.skip),
                                  c.len + Lacking(c.arg, c.skip), c.at + c.len)
  BY <1>1
<1>8. c.op = "free" => m = <<>>
  BY <1>1
<1>9. QED
  BY <1>2, <1>3, <1>4, <1>5, <1>6, <1>7, <1>8 DEF m

(* A call that leaves exactly what it means is a step of ByteString. *)
LEMMA ExactStep ==
  ASSUME NEW t \in Seq(Byte), NEW u \in Seq(Byte),
         buf = Exact(t), buf' = Exact(u), u = BS!Meaning(t, call'),
         live' = (call'.op # "free"), live' \/ u = <<>>
  PROVE  BS!Next /\ IInv'
<1>1. Text(buf) = t /\ Text(Exact(u)) = u
  BY TextOfExact
<1>2. Text(buf)' = u
  BY <1>1 DEF Text
<1>3. live' \in BOOLEAN
  OBVIOUS
<1>4. BS!Next
  BY <1>1, <1>2 DEF BS!Next
<1>5. IInv'
  BY <1>3 DEF IInv, Exact, Buf
<1>6. QED
  BY <1>4, <1>5

LEMMA InitExact == ASSUME Init PROVE BS!Init /\ IInv
<1>1. <<>> \in Seq(Byte) /\ Len(<<>>) = 0
  BY EmptySeq
<1>2. buf = Exact(<<>>) /\ live = FALSE
  BY <1>1 DEF Init, Exact
<1>3. Text(buf) = <<>>
  BY <1>1, <1>2, TextOfExact
<1>4. IInv
  BY <1>1, <1>2 DEF IInv
<1>5. BS!Init
  BY <1>3 DEF Init, BS!Init
<1>6. QED
  BY <1>4, <1>5

LEMMA EditExact ==
  ASSUME IInv, Edit
  PROVE  BS!Next /\ IInv'
<1>1. BufferAssumption
  BY BufferAssumption
<1>2. PICK t \in Seq(Byte) : buf = Exact(t) /\ (live \/ t = <<>>)
  BY DEF IInv
<1>3. live \in BOOLEAN /\ buf.mem = t /\ buf.size = Len(t)
  BY <1>2 DEF IInv, Exact, Buf
<1>4. Sources \subseteq Seq(Byte) /\ Lengths \subseteq Nat /\ <<>> \in Seq(Byte)
  BY EmptySeq, BufferAssumption DEF BufferAssumption, Lengths
<1>5. ASSUME NEW s \in Sources, New(s)
      PROVE  BS!Next /\ IInv'
  <2> DEFINE u == BS!Padded(s, Len(s))
  <2>1. s \in Seq(Byte) /\ Len(s) \in Nat
    BY <1>4, LenProperties
  <2>2. u \in Seq(Byte) /\ buf' = Exact(u)
    BY <1>1, <1>5, <2>1, PaddedProperties, NewHolds DEF New
  <2>3. live' = TRUE /\ call'.op = "new" /\ call'.arg = s /\ call'.len = Len(s)
    BY <1>5 DEF New, Called
  <2>4. u = BS!Meaning(t, call')
    BY <2>3, Meanings
  <2> HIDE DEF u
  <2>5. QED
    BY <1>2, <2>2, <2>3, <2>4, ExactStep
<1>6. ASSUME NEW n \in Lengths, NewZeroed(n)
      PROVE  BS!Next /\ IInv'
  <2> DEFINE u == BS!Padded(<<>>, n)
  <2>1. u \in Seq(Byte) /\ buf' = Exact(u)
    BY <1>1, <1>4, <1>6, PaddedProperties, ZeroOfHolds DEF NewZeroed
  <2>2. live' = TRUE /\ call'.op = "new" /\ call'.arg = <<>> /\ call'.len = n
    BY <1>6 DEF NewZeroed, Called
  <2>3. u = BS!Meaning(t, call')
    BY <2>2, Meanings
  <2> HIDE DEF u
  <2>4. QED
    BY <1>2, <2>1, <2>2, <2>3, ExactStep
<1>7. CASE Free
  <2>1. buf' = Exact(<<>>)
    BY <1>4, <1>7, EmptySeq DEF Free, Exact
  <2>2. live' = FALSE /\ call'.op = "free"
    BY <1>7 DEF Free, Called
  <2>3. <<>> = BS!Meaning(t, call')
    BY <2>2, Meanings
  <2>4. QED
    BY <1>2, <1>4, <2>1, <2>2, <2>3, ExactStep
<1>8. ASSUME NEW n \in Lengths, Realloc(n)
      PROVE  BS!Next /\ IInv'
  <2> DEFINE u == BS!Padded(t, n)
  <2>1. u \in Seq(Byte) /\ buf' = Exact(u)
    BY <1>1, <1>3, <1>4, <1>8, PaddedProperties, ResizeHolds DEF Realloc
  <2>2. live' = TRUE /\ call'.op = "resize" /\ call'.len = n
    BY <1>3, <1>8 DEF Realloc, Called
  <2>3. u = BS!Meaning(t, call')
    BY <2>2, Meanings
  <2> HIDE DEF u
  <2>4. QED
    BY <1>2, <2>1, <2>2, <2>3, ExactStep
<1>9. CASE Dup
  <2>1. buf' = Exact(t)
    BY <1>1, <1>3, <1>9, DupHolds DEF Dup, Exact
  <2>2. live' = TRUE /\ call'.op = "same"
    BY <1>3, <1>9 DEF Dup, Called
  <2>3. t = BS!Meaning(t, call')
    BY <2>2, Meanings
  <2>4. QED
    BY <1>2, <2>1, <2>2, <2>3, ExactStep
<1>10. ASSUME NEW s \in Sources, NEW n \in Lengths, AppendSize(s, n)
       PROVE  BS!Next /\ IInv'
  <2>1. s \in Seq(Byte) /\ n \in Nat /\ live' = TRUE
    BY <1>4, <1>10 DEF AppendSize
  <2>2. CASE live
    <3> DEFINE u == t \o s
    <3>1. buf' = Exact(u)
      BY <1>1, <1>2, <1>10, <2>1, <2>2, AppendHolds DEF AppendSize
    <3>2. u \in Seq(Byte)
      BY <2>1, ConcatProperties
    <3>3. call'.op = "append" /\ call'.arg = s
      BY <1>10, <2>2 DEF AppendSize, Called
    <3>4. u = BS!Meaning(t, call')
      BY <3>3, Meanings
    <3> HIDE DEF u
    <3>5. QED
      BY <1>2, <2>1, <3>1, <3>2, <3>3, <3>4, ExactStep
  <2>3. CASE ~live
    <3> DEFINE u == BS!Padded(s, n)
    <3>1. u \in Seq(Byte) /\ buf' = Exact(u)
      BY <1>1, <1>10, <2>1, <2>3, PaddedProperties, DupSizeHolds DEF AppendSize
    <3>2. call'.op = "new" /\ call'.arg = s /\ call'.len = n
      BY <1>10, <2>3 DEF AppendSize, Called
    <3>3. u = BS!Meaning(t, call')
      BY <3>2, Meanings
    <3> HIDE DEF u
    <3>4. QED
      BY <1>2, <2>1, <3>1, <3>2, <3>3, ExactStep
  <2>4. QED
    BY <2>2, <2>3
<1>11. ASSUME NEW s \in Sources, NEW p \in Lengths, NEW f \in Lengths, NEW n \in Lengths,
              Overwrite(s, p, f, n)
       PROVE  BS!Next /\ IInv'
  <2> DEFINE c == BS!From(s, f)
             q == p + n
             k == p - Lacking(s, f)
             w == n + Lacking(s, f)
             u == Spliced(t, k, c, w, q)
  <2>1. /\ s \in Seq(Byte) /\ p \in Nat /\ f \in Nat /\ n \in Nat /\ q \in Nat
        /\ f <= Len(s) + p /\ live' = TRUE
    BY <1>4, <1>11 DEF Overwrite
  <2>2. u \in Seq(Byte)
    <3>1. c \in Seq(Byte)
      BY <2>1, FromProperties
    <3>2. k \in Nat /\ w \in Nat
      BY <2>1, LenProperties DEF Lacking
    <3> HIDE DEF c, q, k, w
    <3>3. OfLength(Spliced(t, k, c, w, q), k + w + Len(BS!From(t, q)))
      BY <1>1, <2>1, <3>1, <3>2, PartsJoined, Zenon
    <3>4. QED
      BY <3>3 DEF OfLength
  <2>3. buf' = Exact(u)
    <3>1. CASE live
      <4>1. buf' = Overwritten(Exact(t), s, p, f, n)
        BY <1>2, <1>11, <3>1 DEF Overwrite
      <4>2. QED
        BY <1>1, <2>1, <4>1, OverwrittenHolds
    <3>2. CASE ~live
      <4>1. t = <<>> /\ buf' = Overwritten(ZeroOf(n + p), s, p, f, n)
        BY <1>2, <1>11, <3>2 DEF Overwrite
      <4>2. QED
        BY <1>1, <2>1, <4>1, FreshHolds
    <3>3. QED
      BY <3>1, <3>2
  <2>4. /\ call'.op = "put" /\ call'.arg = s /\ call'.at = p
        /\ call'.skip = f /\ call'.len = n
    BY <1>11 DEF Overwrite, Called
  <2>5. u = BS!Meaning(t, call')
    BY <2>4, Meanings
  <2> HIDE DEF u
  <2>6. QED
    BY <1>2, <2>1, <2>2, <2>3, <2>4, <2>5, ExactStep
<1>12. ASSUME NEW s \in Sources, NEW p \in Lengths, NEW n \in Lengths, InsertSize(s, p, n)
       PROVE  BS!Next /\ IInv'
  <2> DEFINE u == Spliced(t, p, s, n, p)
  <2>1. s \in Seq(Byte) /\ p \in Nat /\ n \in Nat /\ live' = TRUE
    BY <1>4, <1>12 DEF InsertSize
  <2>2. u \in Seq(Byte)
    <3>1. OfLength(Spliced(t, p, s, n, p), p + n + Len(BS!From(t, p)))
      BY <1>1, <2>1, PartsJoined, Zenon
    <3>2. QED
      BY <3>1 DEF OfLength
  <2>3. buf' = Exact(u)
    <3>1. CASE live
      <4>1. buf' = Inserted(Exact(t), s, p, n)
        BY <1>2, <1>12, <3>1 DEF InsertSize
      <4>2. QED
        BY <1>1, <2>1, <4>1, InsertedHolds
    <3>2. CASE ~live
      <4>1. t = <<>> /\ buf' = Overwritten(ZeroOf(n + p), s, p, 0, n)
        BY <1>2, <1>12, <3>2 DEF InsertSize
      <4>2. QED
        BY <1>1, <2>1, <4>1, FreshInsertHolds
    <3>3. QED
      BY <3>1, <3>2
  <2>4. call'.op = "insert" /\ call'.arg = s /\ call'.at = p /\ call'.len = n
    BY <1>12 DEF InsertSize, Called
  <2>5. u = BS!Meaning(t, call')
    BY <2>4, Meanings
  <2> HIDE DEF u
  <2>6. QED
    BY <1>2, <2>1, <2>2, <2>3, <2>4, <2>5, ExactStep
<1>13. QED
  BY <1>5, <1>6, <1>7, <1>8, <1>9, <1>10, <1>11, <1>12 DEF Edit

LEMMA StutterExact ==
  ASSUME IInv, UNCHANGED bufVars
  PROVE  UNCHANGED BS!vars /\ IInv'
<1>1. UNCHANGED <<buf, live, call>>
  BY DEF bufVars
<1>2. Text(buf)' = Text(buf)
  BY <1>1 DEF Text
<1>3. IInv'
  BY <1>1 DEF IInv
<1>4. QED
  BY <1>1, <1>2, <1>3 DEF BS!vars

(* Every sequence of calls of lib/buffer.c, on any bytes and at any places, *)
(* does to the string what the calls mean: no byte of a chunk that was     *)
(* never written, moved away or left from before is ever part of it.       *)
THEOREM BufferRefinement == EditSpec => ImplementsByteString
<1>1. Init => BS!Init /\ IInv
  BY InitExact
<1>2. IInv /\ [Edit]_bufVars => [BS!Next]_(BS!vars) /\ IInv'
  BY EditExact, StutterExact
<1>3. QED
  BY <1>1, <1>2, PTL DEF EditSpec, ImplementsByteString, BS!Spec

-----------------------------------------------------------------------------
(* Numbers: what w bytes say, and how they say it.                         *)

LEMMA ValuesAre ==
  /\ Values[0] = 1 /\ Values[1] = Base /\ Values[2] = Base * Base
  /\ Values[3] = Base * (Base * Base) /\ Values[4] = Base * (Base * (Base * Base))
<1> DEFINE Right(g) == g = [w \in 0..4 |-> IF w = 0 THEN 1 ELSE Base * g[w - 1]]
           two == Base * Base
           three == Base * two
           f == [w \in 0..4 |-> IF w = 0 THEN 1 ELSE IF w = 1 THEN Base
                                ELSE IF w = 2 THEN two ELSE IF w = 3 THEN three
                                ELSE Base * three]
           g0 == CHOOSE g : Right(g)
<1>1. Base \in Nat /\ Base * 1 = Base
  BY BaseAssumption DEF BaseAssumption
<1>2. Right(f)
  <2>1. ASSUME NEW w \in 0..4
        PROVE  f[w] = IF w = 0 THEN 1 ELSE Base * f[w - 1]
    <3> HIDE DEF two, three
    <3>1. w = 0 \/ w = 1 \/ w = 2 \/ w = 3 \/ w = 4
      OBVIOUS
    <3>2. f[0] = 1 /\ f[1] = Base /\ f[2] = two /\ f[3] = three /\ f[4] = Base * three
      OBVIOUS
    <3>3. two = Base * Base /\ three = Base * two
      BY DEF two, three
    <3> HIDE DEF f
    <3>4. QED
      BY <1>1, <3>1, <3>2, <3>3
  <2>2. f = [w \in 0..4 |-> f[w]]
    OBVIOUS
  <2> HIDE DEF f
  <2>3. QED
    BY <2>1, <2>2
<1>3. Right(g0)
  <2> HIDE DEF f, Right
  <2>1. QED
    BY <1>2
<1>4. Values = g0
  BY DEF Values, IntSize
<1> HIDE DEF g0
<1>5. /\ g0[0] = 1 /\ g0[1] = Base * g0[0] /\ g0[2] = Base * g0[1]
      /\ g0[3] = Base * g0[2] /\ g0[4] = Base * g0[3]
  BY <1>3
<1>6. QED
  BY <1>1, <1>4, <1>5

(* The two halves of a division. *)
LEMMA Divided ==
  ASSUME NEW n \in Nat, NEW b \in Nat, b > 0
  PROVE  /\ n \div b \in Nat /\ n % b \in Nat /\ n % b < b
         /\ n = b * (n \div b) + (n % b)
OBVIOUS

LEMMA DivisionIsUnique ==
  ASSUME NEW b \in Nat, NEW q \in Nat, NEW r \in Nat, b > 0, r < b
  PROVE  (b * q + r) \div b = q /\ (b * q + r) % b = r
<1> DEFINE n == b * q + r
           p == n \div b
           s == n % b
<1>1. n \in Nat
  OBVIOUS
<1>2. p \in Nat /\ s \in Nat /\ s < b /\ n = b * p + s
  BY <1>1, Divided
<1>3. b * q + r = b * p + s
  BY <1>2
<1> HIDE DEF n, p, s
<1>4. p = q
  <2>1. CASE p < q
    <3>1. PICK d \in Nat : q = p + 1 + d
      <4>1. q - p - 1 \in Nat /\ q = p + 1 + (q - p - 1)
        BY <1>2, <2>1
      <4>2. QED
        BY <4>1
    <3>2. b * q = b * p + b + b * d /\ b * d \in Nat
      BY <1>2, <3>1
    <3>3. b * p \in Nat /\ b * q \in Nat
      BY <1>2
    <3>4. QED
      BY <1>2, <1>3, <3>2, <3>3
  <2>2. CASE q < p
    <3>1. PICK d \in Nat : p = q + 1 + d
      <4>1. p - q - 1 \in Nat /\ p = q + 1 + (p - q - 1)
        BY <1>2, <2>2
      <4>2. QED
        BY <4>1
    <3>2. b * p = b * q + b + b * d /\ b * d \in Nat
      BY <1>2, <3>1
    <3>3. b * p \in Nat /\ b * q \in Nat
      BY <1>2
    <3>4. QED
      BY <1>2, <1>3, <3>2, <3>3
  <2>3. QED
    BY <1>2, <2>1, <2>2
<1>5. r = s
  <2>1. b * q \in Nat
    OBVIOUS
  <2>2. QED
    BY <1>2, <1>3, <1>4, <2>1
<1>6. QED
  BY <1>4, <1>5 DEF p, s, n

(* Number, byte by byte. *)
Counts(s, upto) ==
  upto[0] = 0 /\ \A i \in 1..Len(s) : upto[i] = upto[i - 1] * Base + s[i]

LEMMA NumberIsDefined ==
  ASSUME NEW s, Len(s) \in Nat
  PROVE  \E upto : Counts(s, upto) /\ Number(s) = upto[Len(s)]
<1> DEFINE Upto(k, g) ==
             g = [i \in 0..k |-> IF i = 0 THEN 0 ELSE g[i - 1] * Base + s[i]]
           T == {k \in Nat : \E g : Upto(k, g)}
           chosen == CHOOSE g : Upto(Len(s), g)
<1>1. 0 \in T
  <2> DEFINE g == [i \in 0..0 |-> 0]
  <2>1. Upto(0, g)
    OBVIOUS
  <2> HIDE DEF Upto, g
  <2>2. QED
    BY <2>1
<1>2. ASSUME NEW k \in Nat, k \in T
      PROVE  k + 1 \in T
  <2>1. PICK g : Upto(k, g)
    BY <1>2
  <2> DEFINE last == g[k] * Base + s[k + 1]
             h == [i \in 0..(k + 1) |-> IF i = k + 1 THEN last ELSE g[i]]
  <2>2. \A i \in 0..(k + 1) : h[i] = IF i = 0 THEN 0 ELSE h[i - 1] * Base + s[i]
    <3> TAKE i \in 0..(k + 1)
    <3>1. i # 0 => h[i - 1] = g[i - 1]
      OBVIOUS
    <3>2. CASE i = k + 1
      BY <3>1, <3>2
    <3>3. CASE i # k + 1
      <4>1. i \in 0..k /\ h[i] = g[i]
        BY <3>3
      <4>2. g[i] = IF i = 0 THEN 0 ELSE g[i - 1] * Base + s[i]
        BY <2>1, <4>1
      <4> HIDE DEF h
      <4>3. QED
        BY <3>1, <4>1, <4>2
    <3>4. QED
      BY <3>2, <3>3
  <2>3. h = [i \in 0..(k + 1) |-> h[i]]
    OBVIOUS
  <2> HIDE DEF h
  <2>4. Upto(k + 1, h)
    BY <2>2, <2>3
  <2> HIDE DEF Upto
  <2>5. QED
    BY <2>4
<1>3. Nat \subseteq T
  <2> HIDE DEF T
  <2>1. QED
    BY <1>1, <1>2, SetInduction
<1>4. Upto(Len(s), chosen)
  <2>1. \E g : Upto(Len(s), g)
    BY <1>3
  <2> HIDE DEF Upto
  <2>2. QED
    BY <2>1
<1>5. Number(s) = chosen[Len(s)]
  BY DEF Number
<1> HIDE DEF chosen
<1>6. Counts(s, chosen)
  BY <1>4 DEF Counts
<1>7. QED
  BY <1>5, <1>6

LEMMA NumberType ==
  ASSUME NEW s \in Seq(Byte)
  PROVE  Number(s) \in Nat
<1>1. /\ Len(s) \in Nat /\ Base \in Nat
      /\ \A i \in 1..Len(s) : s[i] \in Nat
  BY LenProperties, ElementOfSeq, BaseAssumption, BufferAssumption
     DEF BaseAssumption, BufferAssumption
<1>2. PICK g : Counts(s, g) /\ Number(s) = g[Len(s)]
  BY <1>1, NumberIsDefined
<1> DEFINE T == {k \in Nat : k <= Len(s) => g[k] \in Nat}
<1>3. 0 \in T
  BY <1>2 DEF Counts
<1>4. ASSUME NEW k \in Nat, k \in T
      PROVE  k + 1 \in T
  <2>1. ASSUME k + 1 <= Len(s)
        PROVE  g[k + 1] \in Nat
    <3>1. k + 1 \in 1..Len(s) /\ (k + 1) - 1 = k /\ g[k] \in Nat
      BY <1>1, <1>4, <2>1
    <3>2. g[k + 1] = g[k] * Base + s[k + 1]
      BY <1>2, <3>1 DEF Counts
    <3>3. s[k + 1] \in Nat
      BY <1>1, <3>1
    <3>4. g[k] * Base \in Nat
      BY <1>1, <3>1
    <3>5. QED
      BY <3>2, <3>3, <3>4
  <2>2. QED
    BY <2>1
<1>5. Nat \subseteq T
  <2> HIDE DEF T
  <2>1. QED
    BY <1>3, <1>4, SetInduction
<1>6. QED
  BY <1>1, <1>2, <1>5

LEMMA NumberOfFew ==
  ASSUME NEW s \in Seq(Byte)
  PROVE  /\ Len(s) = 1 => Number(s) = s[1]
         /\ Len(s) = 2 => Number(s) = Base * s[1] + s[2]
         /\ Len(s) = 4 =>
              Number(s) = Base * (Base * (Base * s[1] + s[2]) + s[3]) + s[4]
<1>1. /\ Len(s) \in Nat /\ Base \in Nat
      /\ \A i \in 1..Len(s) : s[i] \in Nat
  BY LenProperties, ElementOfSeq, BaseAssumption, BufferAssumption
     DEF BaseAssumption, BufferAssumption
<1>2. PICK g : Counts(s, g) /\ Number(s) = g[Len(s)]
  BY <1>1, NumberIsDefined
<1>3. ASSUME Len(s) >= 1
      PROVE  g[1] = s[1]
  <2>1. 1 \in 1..Len(s) /\ 1 - 1 = 0
    BY <1>1, <1>3
  <2>2. g[1] = 0 * Base + s[1]
    BY <1>2, <2>1 DEF Counts
  <2>3. QED
    BY <1>1, <2>1, <2>2
<1>4. ASSUME Len(s) >= 2
      PROVE  g[2] = Base * s[1] + s[2]
  <2>1. 2 \in 1..Len(s) /\ 1 \in 1..Len(s) /\ 2 - 1 = 1 /\ g[1] = s[1]
    BY <1>1, <1>3, <1>4
  <2>2. g[2] = s[1] * Base + s[2]
    BY <1>2, <2>1 DEF Counts
  <2>3. s[1] * Base = Base * s[1]
    BY <1>1, <2>1
  <2>4. QED
    BY <2>2, <2>3
<1>5. ASSUME Len(s) = 4
      PROVE  g[4] = Base * (Base * (Base * s[1] + s[2]) + s[3]) + s[4]
  <2> DEFINE two == Base * s[1] + s[2]
             three == Base * two + s[3]
  <2>1. /\ 1 \in 1..Len(s) /\ 2 \in 1..Len(s) /\ 3 \in 1..Len(s) /\ 4 \in 1..Len(s)
        /\ 3 - 1 = 2 /\ 4 - 1 = 3 /\ g[2] = two
    BY <1>1, <1>4, <1>5
  <2>2. g[3] = g[2] * Base + s[3] /\ g[4] = g[3] * Base + s[4]
    BY <1>2, <2>1 DEF Counts
  <2>3. two \in Nat
    BY <1>1, <2>1
  <2> HIDE DEF two
  <2>4. g[3] = three
    BY <1>1, <2>1, <2>2, <2>3
  <2>5. three \in Nat
    BY <1>1, <2>1, <2>3
  <2> HIDE DEF three
  <2>6. g[4] = Base * three + s[4]
    BY <1>1, <2>2, <2>4, <2>5
  <2>7. QED
    BY <2>6 DEF two, three
<1>6. Len(s) = 1 => Number(s) = s[1]
  BY <1>2, <1>3
<1>7. Len(s) = 2 => Number(s) = Base * s[1] + s[2]
  BY <1>2, <1>4
<1>8. Len(s) = 4 =>
        Number(s) = Base * (Base * (Base * s[1] + s[2]) + s[3]) + s[4]
  BY <1>2, <1>5
<1>9. QED
  BY <1>6, <1>7, <1>8

(* Dividing twice is dividing by the product. *)
LEMMA DividedTwice ==
  ASSUME NEW n \in Nat, NEW b \in Nat, NEW c \in Nat, b > 0, c > 0
  PROVE  /\ b * c \in Nat /\ b * c > 0
         /\ n \div (b * c) = (n \div b) \div c
         /\ n % (b * c) = b * ((n \div b) % c) + (n % b)
<1> DEFINE q == n \div b
           r == n % b
           p == q \div c
           s == q % c
           t == b * s + r
<1>1. q \in Nat /\ r \in Nat /\ r < b /\ n = b * q + r
  BY Divided
<1>2. p \in Nat /\ s \in Nat /\ s < c /\ q = c * p + s
  BY <1>1, Divided
<1>3. b * c \in Nat /\ b * c > 0
  OBVIOUS
<1> HIDE DEF q, r, p, s
<1>4. t \in Nat /\ t < b * c
  <2>1. s + 1 <= c
    BY <1>2
  <2>2. b * (s + 1) <= b * c
    BY <1>2, <2>1
  <2>3. b * (s + 1) = b * s + b
    BY <1>2
  <2>4. b * s \in Nat
    BY <1>2
  <2>5. QED
    BY <1>1, <1>3, <2>2, <2>3, <2>4
<1>5. n = (b * c) * p + t
  <2>1. n = b * (c * p + s) + r
    BY <1>1, <1>2
  <2>2. b * (c * p + s) = (b * c) * p + b * s
    BY <1>2
  <2>3. QED
    BY <1>1, <1>2, <2>1, <2>2
<1> DEFINE d == b * c
<1>6. d \in Nat /\ d > 0 /\ t < d /\ n = d * p + t
  BY <1>3, <1>4, <1>5
<1> HIDE DEF d, t
<1>7. (d * p + t) \div d = p /\ (d * p + t) % d = t
  BY <1>2, <1>4, <1>6, DivisionIsUnique
<1>8. n \div d = p /\ n % d = t
  BY <1>6, <1>7
<1>9. QED
  BY <1>3, <1>8 DEF p, s, q, r, t, d

(* The widths that numbers and counts have. *)
Widths == {1, 2, 4}

LEMMA WidthsAre ==
  ASSUME NEW w \in Widths
  PROVE  /\ w \in Nat /\ w > 0 /\ w \in 0..IntSize
         /\ Values[w] \in Nat /\ Values[w] > 0
<1>1. Base \in Nat /\ Base > 0
  BY BaseAssumption DEF BaseAssumption
<1> DEFINE two == Base * Base
           four == Base * (Base * two)
<1>2. two \in Nat /\ two > 0
  BY <1>1
<1>3. four \in Nat /\ four > 0
  <2> HIDE DEF two
  <2>1. Base * two \in Nat /\ Base * two > 0
    BY <1>1, <1>2
  <2>2. QED
    BY <1>1, <2>1, DividedTwice
<1> HIDE DEF two, four
<1>4. Values[1] = Base /\ Values[2] = two /\ Values[4] = four
  BY ValuesAre DEF two, four
<1>5. w = 1 \/ w = 2 \/ w = 4
  BY DEF Widths
<1>6. QED
  BY <1>1, <1>2, <1>3, <1>4, <1>5 DEF IntSize

LEMMA DigitsType ==
  ASSUME NEW w \in Widths, NEW n \in Nat
  PROVE  Digits(n, w) \in Seq(Byte) /\ Len(Digits(n, w)) = w
<1>1. Base \in Nat /\ Base > 0 /\ Byte = 0..(Base - 1)
  BY BaseAssumption DEF BaseAssumption
<1>2. w \in Nat
  BY WidthsAre
<1>3. ASSUME NEW i \in 1..w
      PROVE  (n \div Values[w - i]) % Base \in Byte
  <2> DEFINE v == Values[w - i]
  <2>1. v \in Nat /\ v > 0
    <3>1. w - i = 0 \/ w - i = 1 \/ w - i = 2 \/ w - i = 3
      BY DEF Widths
    <3> DEFINE two == Base * Base
    <3>2. two \in Nat /\ two > 0
      BY <1>1
    <3>3. Base * two \in Nat /\ Base * two > 0
      <4> HIDE DEF two
      <4>1. QED
        BY <1>1, <3>2, DividedTwice
    <3>4. Values[0] = 1 /\ Values[1] = Base /\ Values[2] = two /\ Values[3] = Base * two
      BY ValuesAre
    <3> HIDE DEF two
    <3>5. QED
      BY <1>1, <3>1, <3>2, <3>3, <3>4
  <2> HIDE DEF v
  <2>2. n \div v \in Nat
    BY <2>1, Divided
  <2>3. (n \div v) % Base \in Nat /\ (n \div v) % Base < Base
    BY <1>1, <2>2, Divided
  <2>4. QED
    BY <1>1, <2>3 DEF v
<1>4. Digits(n, w) \in [1..w -> Byte]
  BY <1>3 DEF Digits
<1>5. QED
  BY <1>2, <1>4, IsASeq

(* The bytes of a number say it, as far as they can.                       *)
LEMMA NumberOfDigits ==
  ASSUME NEW w \in Widths, NEW n \in Nat
  PROVE  /\ Number(Digits(n, w)) = n % Values[w]
         /\ n < Values[w] => Number(Digits(n, w)) = n
<1> DEFINE s == Digits(n, w)
           two == Base * Base
           three == Base * two
           a == n \div Base
           b == a \div Base
<1>1. Base \in Nat /\ Base > 0
  BY BaseAssumption DEF BaseAssumption
<1>2. /\ s \in Seq(Byte) /\ Len(s) = w
      /\ \A i \in 1..w : s[i] = (n \div Values[w - i]) % Base
  BY DigitsType DEF Digits
<1>3. a \in Nat /\ b \in Nat
  BY <1>1, Divided
<1>4. two \in Nat /\ two > 0 /\ three \in Nat /\ three > 0
  <2>1. two \in Nat /\ two > 0
    BY <1>1
  <2> HIDE DEF two
  <2>2. three \in Nat /\ three > 0
    BY <1>1, <2>1, DividedTwice
  <2>3. QED
    BY <2>1, <2>2
<1>5. /\ Values[0] = 1 /\ Values[1] = Base /\ Values[2] = two /\ Values[3] = three
      /\ Values[4] = Base * three
  BY ValuesAre
<1>6. n \div Values[0] = n /\ n \div Values[1] = a
  <2>1. n \div 1 = n
    OBVIOUS
  <2>2. QED
    BY <1>5, <2>1
<1>7. n \div two = b /\ n % two = Base * (a % Base) + (n % Base)
  BY <1>1, DividedTwice
<1>8. a \div two = b \div Base /\ a % two = Base * (b % Base) + (a % Base)
  <2> HIDE DEF a
  <2>1. QED
    BY <1>1, <1>3, DividedTwice
<1>9. n \div three = b \div Base
      /\ n % three = Base * (a % two) + (n % Base)
  <2> HIDE DEF two
  <2>1. n \div (Base * two) = (n \div Base) \div two
        /\ n % (Base * two) = Base * ((n \div Base) % two) + (n % Base)
    BY <1>1, <1>4, DividedTwice
  <2>2. QED
    BY <1>8, <2>1
<1>10. a % three = Base * (b % two) + (a % Base)
  <2> HIDE DEF two, a
  <2>1. a % (Base * two) = Base * ((a \div Base) % two) + (a % Base)
    BY <1>1, <1>3, <1>4, DividedTwice
  <2>2. QED
    BY <2>1
<1>11. b % two = Base * ((b \div Base) % Base) + (b % Base)
  <2> HIDE DEF b
  <2>1. QED
    BY <1>1, <1>3, DividedTwice
<1>12. n % (Base * three) = Base * (a % three) + (n % Base)
  <2> HIDE DEF three
  <2>1. n % (Base * three) = Base * ((n \div Base) % three) + (n % Base)
    BY <1>1, <1>4, DividedTwice
  <2>2. QED
    BY <2>1
<1> HIDE DEF s, two, three, a, b
<1>13. CASE w = 1
  <2>1. 1 \in 1..w /\ w - 1 = 0
    BY <1>13
  <2>2. s[1] = n % Base
    BY <1>2, <1>6, <2>1
  <2>3. Number(s) = s[1]
    BY <1>2, <1>13, NumberOfFew
  <2>4. QED
    BY <1>1, <1>5, <1>13, <2>2, <2>3 DEF s
<1>14. CASE w = 2
  <2>1. 1 \in 1..w /\ 2 \in 1..w /\ w - 1 = 1 /\ w - 2 = 0
    BY <1>14
  <2>2. s[1] = a % Base /\ s[2] = n % Base
    BY <1>2, <1>6, <2>1
  <2>3. Number(s) = Base * s[1] + s[2]
    BY <1>2, <1>14, NumberOfFew
  <2>4. Number(s) = n % two
    BY <1>7, <2>2, <2>3
  <2>5. QED
    BY <1>4, <1>5, <1>14, <2>4 DEF s
<1>15. CASE w = 4
  <2>1. /\ 1 \in 1..w /\ 2 \in 1..w /\ 3 \in 1..w /\ 4 \in 1..w
        /\ w - 1 = 3 /\ w - 2 = 2 /\ w - 3 = 1 /\ w - 4 = 0
    BY <1>15
  <2>2. /\ s[1] = (b \div Base) % Base /\ s[2] = b % Base
        /\ s[3] = a % Base /\ s[4] = n % Base
    BY <1>2, <1>5, <1>6, <1>7, <1>9, <2>1
  <2>3. Number(s) = Base * (Base * (Base * s[1] + s[2]) + s[3]) + s[4]
    BY <1>2, <1>15, NumberOfFew
  <2>4. Number(s) = n % (Base * three)
    BY <1>10, <1>11, <1>12, <2>2, <2>3
  <2>5. n % Values[w] = n % (Base * three)
    BY <1>5, <1>15
  <2>6. n < Values[w] => n % Values[w] = n
    BY WidthsAre
  <2>7. QED
    BY <2>4, <2>5, <2>6 DEF s
<1>16. QED
  BY <1>13, <1>14, <1>15 DEF Widths

-----------------------------------------------------------------------------
(* Induction over sequences, with a set in the place of the predicate.     *)

LEMMA SequenceInduction ==
  ASSUME NEW S, NEW T, << >> \in T, \A s \in Seq(S), e \in S : s \in T => Append(s, e) \in T
  PROVE  Seq(S) \subseteq T
<1> DEFINE N == {n \in Nat : \A s \in Seq(S) : Len(s) = n => s \in T}
<1>1. 0 \in N
  <2>1. \A s \in Seq(S) : Len(s) = 0 => s = << >>
    BY EmptySeq
  <2>2. QED
    BY <2>1
<1>2. ASSUME NEW n \in Nat, n \in N
      PROVE  n + 1 \in N
  <2>1. ASSUME NEW s \in Seq(S), Len(s) = n + 1
        PROVE  s \in T
    <3>1. s # << >>
      BY <2>1, EmptySeq
    <3>2. PICK r \in Seq(S), e \in S : s = Append(r, e)
      BY <3>1, SequenceEmptyOrAppend
    <3>3. Len(s) = Len(r) + 1 /\ Len(r) \in Nat
      BY <3>2, AppendProperties, LenProperties
    <3>4. r \in T
      BY <1>2, <2>1, <3>3
    <3>5. QED
      BY <3>2, <3>4
  <2>2. QED
    BY <2>1
<1>3. Nat \subseteq N
  <2> HIDE DEF N
  <2>1. QED
    BY <1>1, <1>2, SetInduction
<1>4. QED
  BY <1>3, LenProperties

LEMMA ConcatAppend ==
  ASSUME NEW S, NEW a \in Seq(S), NEW b \in Seq(S), NEW e \in S
  PROVE  a \o Append(b, e) = Append(a \o b, e)
<1>1. <<e>> \in Seq(S)
  OBVIOUS
<1>2. Append(b, e) = b \o <<e>> /\ a \o b \in Seq(S)
  BY AppendIsConcat, ConcatProperties
<1>3. Append(a \o b, e) = (a \o b) \o <<e>>
  BY <1>2, AppendIsConcat
<1>4. (a \o b) \o <<e>> = a \o (b \o <<e>>)
  <2> DEFINE one == <<e>>
  <2>1. one \in Seq(S)
    BY <1>1
  <2> HIDE DEF one
  <2>2. (a \o b) \o one = a \o (b \o one)
    BY <2>1, ConcatAssociative
  <2>3. QED
    BY <2>2 DEF one
<1>5. QED
  BY <1>2, <1>3, <1>4

LEMMA FlattenConcat ==
  ASSUME NEW S, NEW a \in Seq(Seq(S)), NEW b \in Seq(Seq(S))
  PROVE  FlattenSeq(a \o b) = FlattenSeq(a) \o FlattenSeq(b)
<1> DEFINE V == Seq(S)
           T == {s \in Seq(V) : FlattenSeq(a \o s) = FlattenSeq(a) \o FlattenSeq(s)}
<1>1. FlattenSeq(a) \in V
  BY FlattenType
<1>2. << >> \in T
  <2>1. a \o << >> = a
    BY ConcatEmptySeq
  <2>2. FlattenSeq(a) \o << >> = FlattenSeq(a)
    BY <1>1, ConcatEmptySeq
  <2>3. QED
    BY <2>1, <2>2, FlattenEmpty, EmptySeq
<1>3. ASSUME NEW s \in Seq(V), NEW e \in V, s \in T
      PROVE  Append(s, e) \in T
  <2>1. a \o Append(s, e) = Append(a \o s, e)
    <3> HIDE DEF V
    <3>1. a \in Seq(V)
      BY DEF V
    <3>2. QED
      BY <3>1, ConcatAppend
  <2>2. a \o s \in Seq(V) /\ Append(s, e) \in Seq(V)
    BY ConcatProperties, AppendProperties
  <2>3. /\ FlattenSeq(Append(a \o s, e)) = FlattenSeq(a \o s) \o e
        /\ FlattenSeq(Append(s, e)) = FlattenSeq(s) \o e
    BY <2>2, FlattenAppend
  <2>4. FlattenSeq(s) \in V
    BY FlattenType
  <2>5. (FlattenSeq(a) \o FlattenSeq(s)) \o e = FlattenSeq(a) \o (FlattenSeq(s) \o e)
    BY <1>1, <2>4, ConcatAssociative, SMTT(30)
  <2>6. QED
    BY <1>3, <2>1, <2>2, <2>3, <2>5
<1>4. Seq(V) \subseteq T
  <2> HIDE DEF T, V
  <2>1. QED
    BY <1>2, <1>3, SequenceInduction
<1>5. QED
  BY <1>4

(* The first zero of a string *)
LEMMA FirstZero ==
  ASSUME NEW s \in Seq(Byte)
  PROVE  /\ UpToZero(s) \in 0..Len(s)
         /\ UpToZero(s) = 0 => \A i \in 1..Len(s) : s[i] # 0
<1> DEFINE I == {i \in 1..Len(s) : s[i] = 0}
<1>1. UpToZero(s) = IF I # {} THEN CHOOSE x \in I : \A y \in I : x =< y ELSE 0
  BY DEF UpToZero, SelectInSeq, Min
<1>2. Len(s) \in Nat
  BY LenProperties
<1>3. I # {} => \E x \in I : \A y \in I : x =< y
  <2>1. ASSUME I # {}, \A x \in I : \E y \in I : ~(x =< y)
        PROVE  FALSE
    <3> DEFINE T == {n \in Nat : \A i \in I : ~(i =< n)}
    <3>1. 0 \in T
      BY <1>2
    <3>2. ASSUME NEW n \in Nat, n \in T
          PROVE  n + 1 \in T
      <4>1. ASSUME NEW i \in I, i =< n + 1
            PROVE  FALSE
        <5>1. i = n + 1
          BY <3>2, <4>1
        <5>2. PICK y \in I : ~(i =< y)
          BY <2>1, <4>1
        <5>3. y =< n
          BY <5>1, <5>2
        <5>4. QED
          BY <3>2, <5>3
      <4>2. QED
        BY <4>1
    <3>3. Nat \subseteq T
      <4> HIDE DEF T
      <4>1. QED
        BY <3>1, <3>2, SetInduction
    <3>4. PICK i \in I : TRUE
      BY <2>1
    <3>5. i \in T /\ i =< i
      BY <3>3, <3>4
    <3>6. QED
      BY <3>5
  <2>2. QED
    BY <2>1
<1>4. CASE I = {}
  <2>1. \A i \in 1..Len(s) : s[i] # 0
    BY <1>4
  <2>2. QED
    BY <1>1, <1>2, <1>4, <2>1
<1>5. CASE I # {}
  <2> HIDE DEF I
  <2>1. PICK x \in I : \A y \in I : x =< y
    BY <1>3, <1>5
  <2>2. UpToZero(s) \in I
    BY <1>1, <1>5, <2>1
  <2>3. UpToZero(s) \in 1..Len(s)
    BY <2>2 DEF I
  <2>4. QED
    BY <1>2, <2>3
<1>6. QED
  BY <1>4, <1>5

-----------------------------------------------------------------------------
(* Fields and directives as the formats of the program have them.          *)

Drawn(ds) == [c : {"u", "s", "r", "p", "Z", "lit"}, size : Nat, v : Seq(ds)]

Directives ==
  {d \in Drawn(Nat) :
     /\ d.c = "u" => d.size \in Widths \cup {0} /\ Len(d.v) = 1
     /\ d.c \in {"s", "r"} => d.v \in Seq(Byte) /\ d.size = 0
     /\ d.c = "lit" => d.v \in Seq(Byte)
     /\ d.c = "p" => d.v \in Seq(Byte) /\ d.size = Len(d.v)}

(* How many bytes a number of the given size has *)
NumSize(size) == IF size = 0 THEN IntSize ELSE size

LEMMA NumSizeIs ==
  ASSUME NEW size \in Widths \cup {0}
  PROVE  NumSize(size) \in Widths /\ (size \in Widths => NumSize(size) = size)
BY DEF NumSize, Widths, IntSize

LEMMA ModifierIs ==
  ASSUME NEW w \in Widths
  PROVE  /\ Modifier(w) \in Widths \cup {0} /\ Modifier(w) \in Nat
         /\ NumSize(Modifier(w)) = w
         /\ w # IntSize => Modifier(w) = w
BY DEF NumSize, Modifier, Widths, IntSize

Types == {"num", "str", "data", "raw", "zero", "lit", "skip", "rest", "tail"}

Fields ==
  {f \in [t : Types, w : Nat, v : Seq(Nat)] :
     /\ f.t = "num" => f.w \in Widths /\ Len(f.v) = 1
     /\ f.t \in {"str", "data"} => f.w \in Widths
     /\ f.t = "lit" => Len(f.v) = 1
     /\ f.t \in {"raw", "skip", "tail"} => f.w = Len(f.v) /\ f.w > 0
     /\ f.t # "num" => f.v \in Seq(Byte)}

LEMMA BytesAreNumbers ==
  /\ Byte \subseteq Nat /\ 0 \in Byte
  /\ \A s \in Seq(Byte) : s \in Seq(Nat) /\ Len(s) \in Nat
<1>1. Byte \subseteq Nat /\ 0 \in Byte
  BY BufferAssumption DEF BufferAssumption
<1>2. \A s \in Seq(Byte) : s \in Seq(Nat)
  BY <1>1, SeqMonotonic
<1>3. QED
  BY <1>1, <1>2, LenProperties

(* What a directive packs of a string that may have a zero in it. *)
CutAtZero(s) == IF UpToZero(s) = 0 THEN s ELSE SubSeq(s, 1, UpToZero(s) - 1)

LEMMA CutAtZeroType ==
  ASSUME NEW s \in Seq(Byte)
  PROVE  CutAtZero(s) \in Seq(Byte)
<1>1. UpToZero(s) \in 0..Len(s) /\ Len(s) \in Nat
  BY FirstZero, LenProperties
<1>2. CASE UpToZero(s) = 0
  BY <1>2 DEF CutAtZero
<1>3. CASE UpToZero(s) # 0
  <2> DEFINE k == UpToZero(s) - 1
  <2>1. k \in 0..Len(s)
    BY <1>1, <1>3
  <2> HIDE DEF k
  <2>2. SubSeq(s, 1, k) \in Seq(Byte)
    BY <2>1, PrefixProperties
  <2>3. QED
    BY <1>3, <2>2 DEF CutAtZero, k
<1>4. QED
  BY <1>2, <1>3

(* What each directive packs *)
LEMMA PackedByOne ==
  ASSUME NEW d \in Directives
  PROVE  /\ PackDirective(d) \in Seq(Byte)
         /\ d.c = "u" => PackDirective(d) = Digits(d.v[1], NumSize(d.size)) /\ d.v[1] \in Nat
         /\ d.c = "s" => PackDirective(d) = CutAtZero(d.v)
         /\ d.c \in {"r", "p", "lit"} => PackDirective(d) = d.v
         /\ d.c = "Z" => PackDirective(d) = << 0 >>
<1> DEFINE p == PackDirective(d)
<1>1. /\ d.c \in {"u", "s", "r", "p", "Z", "lit"} /\ d.size \in Nat /\ d.v \in Seq(Nat)
      /\ d.c = "u" => d.size \in Widths \cup {0} /\ Len(d.v) = 1
      /\ d.c \in {"s", "r"} => d.v \in Seq(Byte) /\ d.size = 0
      /\ d.c = "lit" => d.v \in Seq(Byte)
      /\ d.c = "p" => d.v \in Seq(Byte) /\ d.size = Len(d.v)
  BY DEF Directives, Drawn
<1>2. p = CASE d.c = "u"   -> Digits(d.v[1], NumSize(d.size))
            [] d.c = "s"   -> CutAtZero(d.v)
            [] d.c = "r"   -> IF d.size = 0 \/ d.size > Len(d.v) THEN d.v
                              ELSE SubSeq(d.v, 1, d.size)
            [] d.c = "p"   -> SubSeq(d.v, 1, d.size)
            [] d.c = "Z"   -> << 0 >>
            [] d.c = "lit" -> d.v
  BY DEF PackDirective, CutAtZero, NumSize
<1> HIDE DEF p
<1>3. CASE d.c = "u"
  <2>1. d.v[1] \in Nat
    <3>1. Len(d.v) = 1 /\ d.v \in Seq(Nat)
      BY <1>1, <1>3, Zenon
    <3>2. 1 \in 1..Len(d.v)
      BY <3>1
    <3>3. QED
      BY <3>1, <3>2, ElementOfSeq
  <2>2. p = Digits(d.v[1], NumSize(d.size))
    BY <1>2, <1>3
  <2>3. p \in Seq(Byte)
    BY <1>1, <1>3, <2>1, <2>2, NumSizeIs, DigitsType
  <2>4. QED
    BY <1>3, <2>1, <2>2, <2>3 DEF p
<1>4. CASE d.c = "s"
  <2>1. p = CutAtZero(d.v)
    BY <1>2, <1>4
  <2>2. QED
    BY <1>1, <1>4, <2>1, CutAtZeroType DEF p
<1>5. CASE d.c = "r"
  <2>1. p = d.v
    BY <1>1, <1>2, <1>5
  <2>2. QED
    BY <1>1, <1>5, <2>1 DEF p
<1>6. CASE d.c = "p"
  <2>1. p = SubSeq(d.v, 1, Len(d.v))
    BY <1>1, <1>2, <1>6
  <2>2. p = d.v
    BY <1>1, <1>6, <2>1, SubSeqFull
  <2>3. QED
    BY <1>1, <1>6, <2>2 DEF p
<1>7. CASE d.c = "Z"
  <2>1. p = << 0 >>
    BY <1>2, <1>7
  <2>2. << 0 >> \in Seq(Byte)
    BY BytesAreNumbers
  <2>3. QED
    BY <1>7, <2>1, <2>2 DEF p
<1>8. CASE d.c = "lit"
  <2>1. p = d.v
    BY <1>2, <1>8
  <2>2. QED
    BY <1>1, <1>8, <2>1 DEF p
<1>9. QED
  BY <1>1, <1>3, <1>4, <1>5, <1>6, <1>7, <1>8

(* One directive after the other *)
Packs(ds) == [i \in DOMAIN ds |-> PackDirective(ds[i])]

Packings(fields) == [i \in DOMAIN fields |-> Packing(fields[i])]

LEMMA PackedIs ==
  ASSUME NEW fields
  PROVE  Packed(fields) = FlattenSeq(Packs(FlattenSeq(Packings(fields))))
BY DEF Packed, Flat, Each, Packs, Packings

LEMMA PacksType ==
  ASSUME NEW ds \in Seq(Directives)
  PROVE  /\ Packs(ds) \in Seq(Seq(Byte)) /\ Len(Packs(ds)) = Len(ds)
         /\ \A i \in 1..Len(ds) : Packs(ds)[i] = PackDirective(ds[i])
<1>1. PICK n \in Nat : n = Len(ds) /\ DOMAIN ds = 1..n
  BY LenProperties
<1>2. \A i \in 1..n : PackDirective(ds[i]) \in Seq(Byte)
  BY <1>1, ElementOfSeq, PackedByOne
<1>3. Packs(ds) = [i \in 1..n |-> PackDirective(ds[i])]
  BY <1>1 DEF Packs
<1>4. Packs(ds) \in [1..n -> Seq(Byte)]
  BY <1>2, <1>3
<1>5. Packs(ds) \in Seq(Seq(Byte)) /\ Len(Packs(ds)) = n
  <2> DEFINE p == Packs(ds)
             V == Seq(Byte)
  <2>1. p \in [1..n -> V]
    BY <1>4
  <2> HIDE DEF p, V
  <2>2. p \in Seq(V) /\ Len(p) = n
    BY <2>1, IsASeq
  <2>3. QED
    BY <2>2 DEF p, V
<1>6. QED
  BY <1>1, <1>3, <1>5

LEMMA PacksConcat ==
  ASSUME NEW a \in Seq(Directives), NEW b \in Seq(Directives)
  PROVE  Packs(a \o b) = Packs(a) \o Packs(b)
<1> DEFINE V == Seq(Byte)
           left == Packs(a \o b)
           right == Packs(a) \o Packs(b)
           pa == Packs(a)
           pb == Packs(b)
           m == Len(a)
           n == Len(b)
<1>1. /\ a \o b \in Seq(Directives) /\ Len(a \o b) = m + n /\ m \in Nat /\ n \in Nat
      /\ \A i \in 1..(m + n) : (a \o b)[i] = IF i <= m THEN a[i] ELSE b[i - m]
  BY ConcatProperties, LenProperties
<1>2. /\ pa \in Seq(V) /\ Len(pa) = m /\ \A i \in 1..m : pa[i] = PackDirective(a[i])
      /\ pb \in Seq(V) /\ Len(pb) = n /\ \A i \in 1..n : pb[i] = PackDirective(b[i])
  BY PacksType
<1>3. /\ left \in Seq(V) /\ Len(left) = m + n
      /\ \A i \in 1..(m + n) : left[i] = PackDirective((a \o b)[i])
  BY <1>1, PacksType
<1> HIDE DEF pa, pb, V, left, m, n
<1>4. /\ pa \o pb \in Seq(V) /\ Len(pa \o pb) = m + n
      /\ \A i \in 1..(m + n) : (pa \o pb)[i] = IF i <= m THEN pa[i] ELSE pb[i - m]
  BY <1>2, ConcatProperties
<1>5. \A i \in 1..(m + n) : left[i] = (pa \o pb)[i]
  <2> TAKE i \in 1..(m + n)
  <2>1. CASE i <= m
    <3>1. i \in 1..m
      BY <1>1, <2>1
    <3>2. (a \o b)[i] = a[i] /\ (pa \o pb)[i] = pa[i]
      BY <1>1, <1>4, <2>1
    <3>3. left[i] = PackDirective(a[i]) /\ pa[i] = PackDirective(a[i])
      BY <1>2, <1>3, <3>1, <3>2
    <3>4. QED
      BY <3>2, <3>3
  <2>2. CASE ~(i <= m)
    <3>1. i - m \in 1..n
      BY <1>1, <2>2
    <3>2. (a \o b)[i] = b[i - m] /\ (pa \o pb)[i] = pb[i - m]
      BY <1>1, <1>4, <2>2
    <3>3. left[i] = PackDirective(b[i - m]) /\ pb[i - m] = PackDirective(b[i - m])
      BY <1>2, <1>3, <3>1, <3>2
    <3>4. QED
      BY <3>2, <3>3
  <2>3. QED
    BY <2>1, <2>2
<1>6. left = pa \o pb
  BY <1>1, <1>3, <1>4, <1>5, SeqEqual
<1>7. QED
  BY <1>6 DEF left, pa, pb

LEMMA OneDirective ==
  ASSUME NEW d \in Directives
  PROVE  <<d>> \in Seq(Directives) /\ FlattenSeq(Packs(<<d>>)) = PackDirective(d)
<1> DEFINE one == <<d>>
<1>1. one \in Seq(Directives) /\ Len(one) = 1 /\ one[1] = d
  OBVIOUS
<1> HIDE DEF one
<1>2. Len(Packs(one)) = 1 /\ Packs(one)[1] = PackDirective(d)
  BY <1>1, PacksType
<1>3. FlattenSeq(Packs(one)) = PackDirective(d)
  BY <1>2, FlattenOne
<1>4. QED
  BY <1>1, <1>3 DEF one

LEMMA PairIsConcat ==
  ASSUME NEW S, NEW d \in S, NEW e \in S
  PROVE  <<d, e>> \in Seq(S) /\ <<d, e>> = <<d>> \o <<e>>
<1> DEFINE a == <<d>>
           pair == <<d, e>>
<1>1. a \in Seq(S) /\ Len(a) = 1 /\ a[1] = d
  OBVIOUS
<1>2. pair \in Seq(S) /\ Len(pair) = 2 /\ pair[1] = d /\ pair[2] = e
  OBVIOUS
<1> HIDE DEF a, pair
<1>3. pair = Append(a, e)
  <2>1. PICK n \in Nat : n = 1
    OBVIOUS
  <2>2. /\ Len(a) = n /\ Len(pair) = n + 1 /\ pair[n + 1] = e
        /\ \A i \in 1..n : pair[i] = a[i]
    BY <1>1, <1>2, <2>1
  <2>3. QED
    BY <1>1, <1>2, <2>2, IsAppend
<1>4. Append(a, e) = a \o <<e>>
  BY <1>1, AppendIsConcat
<1>5. QED
  BY <1>2, <1>3, <1>4 DEF a, pair

LEMMA TwoDirectives ==
  ASSUME NEW d \in Directives, NEW e \in Directives
  PROVE  /\ <<d, e>> \in Seq(Directives)
         /\ FlattenSeq(Packs(<<d, e>>)) = PackDirective(d) \o PackDirective(e)
<1> DEFINE a == <<d>>
           b == <<e>>
<1>1. <<d, e>> = a \o b /\ <<d, e>> \in Seq(Directives)
  BY PairIsConcat
<1>2. /\ a \in Seq(Directives) /\ FlattenSeq(Packs(a)) = PackDirective(d)
      /\ b \in Seq(Directives) /\ FlattenSeq(Packs(b)) = PackDirective(e)
  BY OneDirective
<1> HIDE DEF a, b
<1>3. Packs(a \o b) = Packs(a) \o Packs(b)
  BY <1>2, PacksConcat
<1>4. Packs(a) \in Seq(Seq(Byte)) /\ Packs(b) \in Seq(Seq(Byte))
  BY <1>2, PacksType
<1>5. FlattenSeq(Packs(a) \o Packs(b)) = FlattenSeq(Packs(a)) \o FlattenSeq(Packs(b))
  BY <1>4, FlattenConcat
<1>6. QED
  BY <1>1, <1>2, <1>3, <1>5

(* What a field becomes *)
BytesOf(f) == FlattenSeq(Packs(Packing(f)))

LEMMA FieldParts ==
  ASSUME NEW f \in Fields
  PROVE  /\ f.t \in Types /\ f.w \in Nat /\ f.v \in Seq(Nat) /\ Len(f.v) \in Nat
         /\ f.t = "num" => f.w \in Widths /\ Len(f.v) = 1 /\ f.v[1] \in Nat
         /\ f.t \in {"str", "data"} => f.w \in Widths
         /\ f.t = "lit" => Len(f.v) = 1
         /\ f.t \in {"raw", "skip", "tail"} => f.w = Len(f.v) /\ f.w > 0
         /\ f.t # "num" => f.v \in Seq(Byte)
<1>1. /\ f.t \in Types /\ f.w \in Nat /\ f.v \in Seq(Nat)
      /\ f.t = "num" => f.w \in Widths /\ Len(f.v) = 1
      /\ f.t \in {"str", "data"} => f.w \in Widths
      /\ f.t = "lit" => Len(f.v) = 1
      /\ f.t \in {"raw", "skip", "tail"} => f.w = Len(f.v) /\ f.w > 0
      /\ f.t # "num" => f.v \in Seq(Byte)
  BY DEF Fields
<1>2. Len(f.v) \in Nat /\ \A i \in 1..Len(f.v) : f.v[i] \in Nat
  BY <1>1, LenProperties, ElementOfSeq
<1>3. f.t = "num" => f.v[1] \in Nat
  <2>1. ASSUME f.t = "num" PROVE f.v[1] \in Nat
    <3>1. Len(f.v) = 1
      BY <1>1, <2>1, Zenon
    <3>2. 1 \in 1..Len(f.v)
      BY <3>1
    <3>3. QED
      BY <1>2, <3>2
  <2>2. QED
    BY <2>1
<1>4. QED
  BY <1>1, <1>2, <1>3, Zenon

LEMMA DirectiveIs ==
  ASSUME NEW c \in {"u", "s", "r", "p", "Z", "lit"}, NEW size \in Nat, NEW v \in Seq(Nat),
         c = "u" => size \in Widths \cup {0} /\ Len(v) = 1,
         c \in {"s", "r"} => v \in Seq(Byte) /\ size = 0,
         c = "lit" => v \in Seq(Byte),
         c = "p" => v \in Seq(Byte) /\ size = Len(v)
  PROVE  /\ Directive(c, size, v) \in Directives
         /\ Directive(c, size, v).c = c
         /\ Directive(c, size, v).size = size
         /\ Directive(c, size, v).v = v
BY DEF Directive, Directives, Drawn

(* A count and what it counts *)
LEMMA CountedPacking ==
  ASSUME NEW w \in Widths, NEW s \in Seq(Byte), NEW c \in {"s", "r"}
  PROVE  /\ <<Directive("u", w, <<Len(s)>>), Directive(c, 0, s)>> \in Seq(Directives)
         /\ FlattenSeq(Packs(<<Directive("u", w, <<Len(s)>>), Directive(c, 0, s)>>))
              = Digits(Len(s), w) \o (IF c = "s" THEN CutAtZero(s) ELSE s)
<1> DEFINE n == Len(s)
           one == <<n>>
           d == Directive("u", w, one)
           e == Directive(c, 0, s)
<1>1. n \in Nat /\ w \in Nat /\ s \in Seq(Nat)
  BY BytesAreNumbers, WidthsAre
<1> HIDE DEF n
<1>2. one \in Seq(Nat) /\ Len(one) = 1 /\ one[1] = n
  BY <1>1
<1> HIDE DEF one
<1>3. d \in Directives /\ d.c = "u" /\ d.size = w /\ d.v = one
  BY <1>1, <1>2, DirectiveIs
<1>4. e \in Directives /\ e.c = c /\ e.v = s
  BY <1>1, DirectiveIs
<1> HIDE DEF d, e
<1>5. PackDirective(d) = Digits(n, w)
  BY <1>2, <1>3, PackedByOne, NumSizeIs
<1>6. PackDirective(e) = IF c = "s" THEN CutAtZero(s) ELSE s
  BY <1>4, PackedByOne
<1>7. QED
  BY <1>3, <1>4, <1>5, <1>6, TwoDirectives DEF d, e, one, n

LEMMA SinglePacking ==
  ASSUME NEW c \in {"u", "r", "p", "Z", "lit"}, NEW size \in Nat, NEW v \in Seq(Nat),
         c = "u" => size \in Widths \cup {0} /\ Len(v) = 1,
         c = "r" => v \in Seq(Byte) /\ size = 0,
         c = "lit" => v \in Seq(Byte),
         c = "p" => v \in Seq(Byte) /\ size = Len(v)
  PROVE  /\ <<Directive(c, size, v)>> \in Seq(Directives)
         /\ FlattenSeq(Packs(<<Directive(c, size, v)>>))
              = IF c = "u" THEN Digits(v[1], NumSize(size)) ELSE IF c = "Z" THEN << 0 >> ELSE v
<1> DEFINE d == Directive(c, size, v)
<1>1. d \in Directives /\ d.c = c /\ d.size = size /\ d.v = v
  BY DirectiveIs
<1> HIDE DEF d
<1>2. PackDirective(d) = IF c = "u" THEN Digits(v[1], NumSize(size)) ELSE IF c = "Z" THEN << 0 >> ELSE v
  BY <1>1, PackedByOne
<1>3. QED
  BY <1>1, <1>2, OneDirective DEF d

LEMMA FieldBytes ==
  ASSUME NEW f \in Fields
  PROVE  /\ Packing(f) \in Seq(Directives)
         /\ BytesOf(f) \in Seq(Byte)
         /\ f.t = "num" => BytesOf(f) = Digits(f.v[1], f.w)
         /\ f.t = "str" => BytesOf(f) = Digits(Len(f.v), f.w) \o CutAtZero(f.v)
         /\ f.t = "data" => BytesOf(f) = Digits(Len(f.v), f.w) \o f.v
         /\ f.t = "zero" => BytesOf(f) = << 0 >>
         /\ f.t \in {"raw", "lit", "skip", "rest", "tail"} => BytesOf(f) = f.v
<1> DEFINE p == Packing(f)
           b == BytesOf(f)
<1>1. /\ f.t \in Types /\ f.w \in Nat /\ f.v \in Seq(Nat) /\ Len(f.v) \in Nat
      /\ f.t = "num" => f.w \in Widths /\ Len(f.v) = 1 /\ f.v[1] \in Nat
      /\ f.t \in {"str", "data"} => f.w \in Widths
      /\ f.t = "lit" => Len(f.v) = 1
      /\ f.t \in {"raw", "skip", "tail"} => f.w = Len(f.v) /\ f.w > 0
      /\ f.t # "num" => f.v \in Seq(Byte)
  BY FieldParts
<1>2. p = CASE f.t = "num"  -> <<Directive("u", Modifier(f.w), f.v)>>
            [] f.t = "str"  -> <<Directive("u", f.w, <<Len(f.v)>>), Directive("s", 0, f.v)>>
            [] f.t = "data" -> <<Directive("u", f.w, <<Len(f.v)>>), Directive("r", 0, f.v)>>
            [] f.t = "zero" -> <<Directive("Z", 0, << >>)>>
            [] f.t = "lit"  -> <<Directive("lit", 0, f.v)>>
            [] f.t = "rest" -> <<Directive("r", 0, f.v)>>
            [] OTHER        -> <<Directive("p", f.w, f.v)>>
  BY DEF Packing
<1>3. b = FlattenSeq(Packs(p))
  BY DEF BytesOf
<1> HIDE DEF p, b
<1>4. CASE f.t = "num"
  <2> DEFINE k == Modifier(f.w)
  <2>1. p = <<Directive("u", k, f.v)>>
    BY <1>2, <1>4
  <2>2. k \in Widths \cup {0} /\ k \in Nat /\ NumSize(k) = f.w
    BY <1>1, <1>4, ModifierIs
  <2> HIDE DEF k
  <2>3. p \in Seq(Directives) /\ b = Digits(f.v[1], NumSize(k))
    BY <1>1, <1>3, <1>4, <2>1, <2>2, SinglePacking
  <2>4. b = Digits(f.v[1], f.w)
    BY <2>2, <2>3
  <2>5. b \in Seq(Byte)
    BY <1>1, <1>4, <2>4, DigitsType
  <2>6. QED
    BY <1>4, <2>3, <2>4, <2>5 DEF p, b
<1>5. CASE f.t = "str"
  <2>1. p = <<Directive("u", f.w, <<Len(f.v)>>), Directive("s", 0, f.v)>>
    BY <1>2, <1>5
  <2>2. f.w \in Widths /\ f.v \in Seq(Byte)
    BY <1>1, <1>5
  <2>3. p \in Seq(Directives) /\ b = Digits(Len(f.v), f.w) \o CutAtZero(f.v)
    BY <1>3, <2>1, <2>2, CountedPacking
  <2>4. Digits(Len(f.v), f.w) \in Seq(Byte) /\ CutAtZero(f.v) \in Seq(Byte)
    BY <1>1, <2>2, DigitsType, CutAtZeroType
  <2>5. b \in Seq(Byte)
    BY <2>3, <2>4, ConcatProperties
  <2>6. QED
    BY <1>5, <2>3, <2>5 DEF p, b
<1>6. CASE f.t = "data"
  <2>1. p = <<Directive("u", f.w, <<Len(f.v)>>), Directive("r", 0, f.v)>>
    BY <1>2, <1>6
  <2>2. f.w \in Widths /\ f.v \in Seq(Byte)
    BY <1>1, <1>6
  <2>3. p \in Seq(Directives) /\ b = Digits(Len(f.v), f.w) \o f.v
    BY <1>3, <2>1, <2>2, CountedPacking
  <2>4. Digits(Len(f.v), f.w) \in Seq(Byte)
    BY <1>1, <2>2, DigitsType
  <2>5. b \in Seq(Byte)
    BY <2>2, <2>3, <2>4, ConcatProperties
  <2>6. QED
    BY <1>6, <2>3, <2>5 DEF p, b
<1>7. CASE f.t = "zero"
  <2>1. p = <<Directive("Z", 0, << >>)>>
    BY <1>2, <1>7
  <2>2. << >> \in Seq(Nat)
    BY EmptySeq
  <2>3. p \in Seq(Directives) /\ b = << 0 >>
    BY <1>3, <2>1, <2>2, SinglePacking
  <2>4. b \in Seq(Byte)
    BY <2>3, BytesAreNumbers
  <2>5. QED
    BY <1>7, <2>3, <2>4 DEF p, b
<1>8. CASE f.t = "lit"
  <2>1. p = <<Directive("lit", 0, f.v)>> /\ f.v \in Seq(Byte)
    BY <1>1, <1>2, <1>8
  <2>2. p \in Seq(Directives) /\ b = f.v
    BY <1>1, <1>3, <2>1, SinglePacking
  <2>3. QED
    BY <1>8, <2>1, <2>2 DEF p, b
<1>9. CASE f.t = "rest"
  <2>1. p = <<Directive("r", 0, f.v)>> /\ f.v \in Seq(Byte)
    BY <1>1, <1>2, <1>9
  <2>2. p \in Seq(Directives) /\ b = f.v
    BY <1>1, <1>3, <2>1, SinglePacking
  <2>3. QED
    BY <1>9, <2>1, <2>2 DEF p, b
<1>10. CASE f.t \in {"raw", "skip", "tail"}
  <2>1. p = <<Directive("p", f.w, f.v)>> /\ f.v \in Seq(Byte) /\ f.w = Len(f.v)
    BY <1>1, <1>2, <1>10
  <2>2. p \in Seq(Directives) /\ b = f.v
    BY <1>1, <1>3, <2>1, SinglePacking
  <2>3. QED
    BY <1>10, <2>1, <2>2 DEF p, b
<1>11. QED
  BY <1>1, <1>4, <1>5, <1>6, <1>7, <1>8, <1>9, <1>10 DEF Types

-----------------------------------------------------------------------------
(* Packing field after field                                               *)

LEMMA PackingsType ==
  ASSUME NEW fields \in Seq(Fields)
  PROVE  /\ Packings(fields) \in Seq(Seq(Directives)) /\ Len(Packings(fields)) = Len(fields)
         /\ \A i \in 1..Len(fields) : Packings(fields)[i] = Packing(fields[i])
<1>1. PICK n \in Nat : n = Len(fields) /\ DOMAIN fields = 1..n
  BY LenProperties
<1>2. \A i \in 1..n : Packing(fields[i]) \in Seq(Directives)
  BY <1>1, ElementOfSeq, FieldBytes
<1>3. Packings(fields) = [i \in 1..n |-> Packing(fields[i])]
  BY <1>1 DEF Packings
<1> DEFINE p == Packings(fields)
           V == Seq(Directives)
<1>4. p \in [1..n -> V]
  BY <1>2, <1>3
<1>5. p \in Seq(V) /\ Len(p) = n
  <2> HIDE DEF p, V
  <2>1. QED
    BY <1>4, IsASeq
<1>6. QED
  BY <1>1, <1>3, <1>5

LEMMA PackingsConcat ==
  ASSUME NEW a \in Seq(Fields), NEW b \in Seq(Fields)
  PROVE  Packings(a \o b) = Packings(a) \o Packings(b)
<1> DEFINE V == Seq(Directives)
           left == Packings(a \o b)
           pa == Packings(a)
           pb == Packings(b)
           m == Len(a)
           n == Len(b)
<1>1. /\ a \o b \in Seq(Fields) /\ Len(a \o b) = m + n /\ m \in Nat /\ n \in Nat
      /\ \A i \in 1..(m + n) : (a \o b)[i] = IF i <= m THEN a[i] ELSE b[i - m]
  BY ConcatProperties, LenProperties
<1>2. /\ pa \in Seq(V) /\ Len(pa) = m /\ \A i \in 1..m : pa[i] = Packing(a[i])
      /\ pb \in Seq(V) /\ Len(pb) = n /\ \A i \in 1..n : pb[i] = Packing(b[i])
  BY PackingsType
<1>3. /\ left \in Seq(V) /\ Len(left) = m + n
      /\ \A i \in 1..(m + n) : left[i] = Packing((a \o b)[i])
  BY <1>1, PackingsType
<1> HIDE DEF pa, pb, V, left, m, n
<1>4. /\ pa \o pb \in Seq(V) /\ Len(pa \o pb) = m + n
      /\ \A i \in 1..(m + n) : (pa \o pb)[i] = IF i <= m THEN pa[i] ELSE pb[i - m]
  BY <1>2, ConcatProperties
<1>5. \A i \in 1..(m + n) : left[i] = (pa \o pb)[i]
  <2> TAKE i \in 1..(m + n)
  <2>1. CASE i <= m
    <3>1. i \in 1..m
      BY <1>1, <2>1
    <3>2. (a \o b)[i] = a[i] /\ (pa \o pb)[i] = pa[i]
      BY <1>1, <1>4, <2>1
    <3>3. left[i] = Packing(a[i]) /\ pa[i] = Packing(a[i])
      BY <1>2, <1>3, <3>1, <3>2
    <3>4. QED
      BY <3>2, <3>3
  <2>2. CASE ~(i <= m)
    <3>1. i - m \in 1..n
      BY <1>1, <2>2
    <3>2. (a \o b)[i] = b[i - m] /\ (pa \o pb)[i] = pb[i - m]
      BY <1>1, <1>4, <2>2
    <3>3. left[i] = Packing(b[i - m]) /\ pb[i - m] = Packing(b[i - m])
      BY <1>2, <1>3, <3>1, <3>2
    <3>4. QED
      BY <3>2, <3>3
  <2>3. QED
    BY <2>1, <2>2
<1>6. left = pa \o pb
  BY <1>1, <1>3, <1>4, <1>5, SeqEqual
<1>7. QED
  BY <1>6 DEF left, pa, pb

LEMMA PackedType ==
  ASSUME NEW fields \in Seq(Fields)
  PROVE  Packed(fields) \in Seq(Byte)
<1>1. Packings(fields) \in Seq(Seq(Directives))
  BY PackingsType
<1>2. FlattenSeq(Packings(fields)) \in Seq(Directives)
  BY <1>1, FlattenType
<1>3. Packs(FlattenSeq(Packings(fields))) \in Seq(Seq(Byte))
  BY <1>2, PacksType
<1>4. QED
  BY <1>3, FlattenType, PackedIs

LEMMA PackedConcat ==
  ASSUME NEW a \in Seq(Fields), NEW b \in Seq(Fields)
  PROVE  Packed(a \o b) = Packed(a) \o Packed(b)
<1> DEFINE pa == Packings(a)
           pb == Packings(b)
           da == FlattenSeq(pa)
           db == FlattenSeq(pb)
<1>1. pa \in Seq(Seq(Directives)) /\ pb \in Seq(Seq(Directives))
  BY PackingsType
<1>2. Packings(a \o b) = pa \o pb
  BY PackingsConcat
<1> HIDE DEF pa, pb
<1>3. FlattenSeq(pa \o pb) = da \o db
  BY <1>1, FlattenConcat
<1>4. da \in Seq(Directives) /\ db \in Seq(Directives)
  BY <1>1, FlattenType
<1> HIDE DEF da, db
<1>5. Packs(da \o db) = Packs(da) \o Packs(db)
  BY <1>4, PacksConcat
<1>6. Packs(da) \in Seq(Seq(Byte)) /\ Packs(db) \in Seq(Seq(Byte))
  BY <1>4, PacksType
<1>7. FlattenSeq(Packs(da) \o Packs(db)) = FlattenSeq(Packs(da)) \o FlattenSeq(Packs(db))
  BY <1>6, FlattenConcat
<1>8. /\ Packed(a \o b) = FlattenSeq(Packs(da \o db))
      /\ Packed(a) = FlattenSeq(Packs(da)) /\ Packed(b) = FlattenSeq(Packs(db))
  BY <1>2, <1>3, PackedIs DEF da, db, pa, pb
<1>9. QED
  BY <1>5, <1>7, <1>8

LEMMA PackedOne ==
  ASSUME NEW f \in Fields
  PROVE  <<f>> \in Seq(Fields) /\ Packed(<<f>>) = BytesOf(f)
<1> DEFINE one == <<f>>
<1>1. one \in Seq(Fields) /\ Len(one) = 1 /\ one[1] = f
  OBVIOUS
<1> HIDE DEF one
<1>2. Len(Packings(one)) = 1 /\ Packings(one)[1] = Packing(f)
  BY <1>1, PackingsType
<1>3. FlattenSeq(Packings(one)) = Packing(f)
  BY <1>2, FlattenOne
<1>4. Packed(one) = BytesOf(f)
  BY <1>3, PackedIs DEF BytesOf
<1>5. QED
  BY <1>1, <1>4 DEF one

LEMMA PackedAppend ==
  ASSUME NEW fields \in Seq(Fields), NEW f \in Fields
  PROVE  Packed(Append(fields, f)) = Packed(fields) \o BytesOf(f)
<1> DEFINE one == <<f>>
<1>1. one \in Seq(Fields) /\ Packed(one) = BytesOf(f)
  BY PackedOne
<1>2. Append(fields, f) = fields \o one
  BY AppendIsConcat
<1> HIDE DEF one
<1>3. QED
  BY <1>1, <1>2, PackedConcat

LEMMA PackedNone == Packed(<< >>) = << >>
<1>1. << >> \in Seq(Fields) /\ Len(<< >>) = 0
  BY EmptySeq
<1>2. Packings(<< >>) \in Seq(Seq(Directives)) /\ Len(Packings(<< >>)) = 0
  BY <1>1, PackingsType
<1>3. Packings(<< >>) = << >>
  BY <1>2, EmptySeq
<1>4. << >> \in Seq(Directives)
  BY EmptySeq
<1>5. Packs(<< >>) \in Seq(Seq(Byte)) /\ Len(Packs(<< >>)) = 0
  BY <1>1, <1>4, PacksType
<1>6. Packs(<< >>) = << >>
  BY <1>5, EmptySeq
<1>7. QED
  BY <1>3, <1>6, FlattenEmpty, PackedIs

-----------------------------------------------------------------------------
(* Reading directive after directive                                       *)

Formats ==
  {d \in [c : {"u", "$", "s", "r", "p", "Z", "lit", "k"}, size : Nat, v : Seq(Nat)] :
     /\ d.c = "u" => d.size \in Widths \cup {0}
     /\ d.c = "$" => d.size \in Widths
     /\ d.c \in {"s", "r", "Z", "lit"} => d.size = 0
     /\ d.c = "lit" => Len(d.v) = 1}

Unpackings(fields) == [i \in DOMAIN fields |-> Unpacking(fields[i])]

LEMMA FormatIs ==
  ASSUME NEW c \in {"u", "$", "s", "r", "p", "Z", "lit", "k"}, NEW size \in Nat,
         NEW v \in Seq(Nat),
         c = "u" => size \in Widths \cup {0}, c = "$" => size \in Widths,
         c \in {"s", "r", "Z", "lit"} => size = 0,
         c = "lit" => Len(v) = 1
  PROVE  /\ Directive(c, size, v) \in Formats
         /\ Directive(c, size, v).c = c
         /\ Directive(c, size, v).size = size
         /\ Directive(c, size, v).v = v
BY DEF Directive, Formats

LEMMA UnpackingOf ==
  ASSUME NEW f \in Fields
  PROVE  /\ Unpacking(f) \in Seq(Formats) /\ Len(Unpacking(f)) \in 0..2
         /\ f.t = "num" => Unpacking(f) = <<Directive("u", Modifier(f.w), << >>)>>
         /\ f.t = "str" => Unpacking(f) = <<Directive("$", f.w, << >>), Directive("s", 0, << >>)>>
         /\ f.t = "data" => Unpacking(f) = <<Directive("$", f.w, << >>), Directive("r", 0, << >>)>>
         /\ f.t = "raw" => Unpacking(f) = <<Directive("p", f.w, << >>)>>
         /\ f.t = "zero" => Unpacking(f) = <<Directive("Z", 0, << >>)>>
         /\ f.t = "lit" => Unpacking(f) = <<Directive("lit", 0, f.v)>>
         /\ f.t = "skip" => Unpacking(f) = <<Directive("k", f.w, << >>)>>
         /\ f.t \in {"rest", "tail"} => Unpacking(f) = << >>
<1> DEFINE p == Unpacking(f)
           S == Formats
           none == << >>
<1>1. /\ f.t \in Types /\ f.w \in Nat /\ f.v \in Seq(Nat) /\ Len(f.v) \in Nat
      /\ f.t = "num" => f.w \in Widths /\ Len(f.v) = 1 /\ f.v[1] \in Nat
      /\ f.t \in {"str", "data"} => f.w \in Widths
      /\ f.t = "lit" => Len(f.v) = 1
  BY FieldParts
<1>2. p = CASE f.t = "num"  -> <<Directive("u", Modifier(f.w), none)>>
            [] f.t = "str"  -> <<Directive("$", f.w, none), Directive("s", 0, none)>>
            [] f.t = "data" -> <<Directive("$", f.w, none), Directive("r", 0, none)>>
            [] f.t = "raw"  -> <<Directive("p", f.w, none)>>
            [] f.t = "zero" -> <<Directive("Z", 0, none)>>
            [] f.t = "lit"  -> <<Directive("lit", 0, f.v)>>
            [] f.t = "skip" -> <<Directive("k", f.w, none)>>
            [] OTHER        -> << >>
  BY DEF Unpacking
<1> HIDE DEF p
<1>3. /\ f.t = "num" => p = <<Directive("u", Modifier(f.w), none)>>
      /\ f.t = "str" => p = <<Directive("$", f.w, none), Directive("s", 0, none)>>
      /\ f.t = "data" => p = <<Directive("$", f.w, none), Directive("r", 0, none)>>
      /\ f.t = "raw" => p = <<Directive("p", f.w, none)>>
      /\ f.t = "zero" => p = <<Directive("Z", 0, none)>>
      /\ f.t = "lit" => p = <<Directive("lit", 0, f.v)>>
      /\ f.t = "skip" => p = <<Directive("k", f.w, none)>>
      /\ f.t \in {"rest", "tail"} => p = << >>
  BY <1>2
<1>4. none \in Seq(Nat)
  BY EmptySeq
<1>5. \A d \in S : <<d>> \in Seq(S) /\ Len(<<d>>) \in 0..2
  <2> HIDE DEF S
  <2>1. QED
    OBVIOUS
<1>6. \A d \in S, e \in S : <<d, e>> \in Seq(S) /\ Len(<<d, e>>) \in 0..2
  <2> HIDE DEF S
  <2>1. QED
    OBVIOUS
<1> HIDE DEF none, S
<1>7. p \in Seq(S) /\ Len(p) \in 0..2
  <2>1. CASE f.t = "num"
    <3>1. Directive("u", Modifier(f.w), none) \in S
      BY <1>1, <1>4, ModifierIs, <2>1, FormatIs DEF S
    <3>2. QED
      BY <1>3, <1>5, <2>1, <3>1, Zenon
  <2>2. CASE f.t = "str"
    <3>1. Directive("$", f.w, none) \in S
      BY <1>1, <1>4, <2>2, FormatIs DEF S
    <3>2. Directive("s", 0, none) \in S
      BY <1>4, FormatIs DEF S
    <3>3. QED
      BY <1>3, <1>6, <2>2, <3>1, <3>2, Zenon
  <2>3. CASE f.t = "data"
    <3>1. Directive("$", f.w, none) \in S
      BY <1>1, <1>4, <2>3, FormatIs DEF S
    <3>2. Directive("r", 0, none) \in S
      BY <1>4, FormatIs DEF S
    <3>3. QED
      BY <1>3, <1>6, <2>3, <3>1, <3>2, Zenon
  <2>4. CASE f.t = "raw"
    <3>1. Directive("p", f.w, none) \in S
      BY <1>1, <1>4, FormatIs DEF S
    <3>2. QED
      BY <1>3, <1>5, <2>4, <3>1, Zenon
  <2>5. CASE f.t = "zero"
    <3>1. Directive("Z", 0, none) \in S
      BY <1>4, FormatIs DEF S
    <3>2. QED
      BY <1>3, <1>5, <2>5, <3>1, Zenon
  <2>6. CASE f.t = "lit"
    <3>1. Directive("lit", 0, f.v) \in S
      BY <1>1, <2>6, FormatIs DEF S
    <3>2. QED
      BY <1>3, <1>5, <2>6, <3>1, Zenon
  <2>7. CASE f.t = "skip"
    <3>1. Directive("k", f.w, none) \in S
      BY <1>1, <1>4, FormatIs DEF S
    <3>2. QED
      BY <1>3, <1>5, <2>7, <3>1, Zenon
  <2>8. CASE f.t \in {"rest", "tail"}
    <3>1. p = << >> /\ << >> \in Seq(S) /\ Len(<< >>) = 0
      BY <1>3, <2>8, EmptySeq
    <3>2. QED
      BY <2>8, <3>1
  <2>9. QED
    BY <1>1, <2>1, <2>2, <2>3, <2>4, <2>5, <2>6, <2>7, <2>8 DEF Types
<1>8. QED
  BY <1>3, <1>7 DEF p, S, none

LEMMA UnpackingsType ==
  ASSUME NEW fields \in Seq(Fields)
  PROVE  /\ Unpackings(fields) \in Seq(Seq(Formats))
         /\ Len(Unpackings(fields)) = Len(fields)
         /\ \A i \in 1..Len(fields) : Unpackings(fields)[i] = Unpacking(fields[i])
<1>1. PICK n \in Nat : n = Len(fields) /\ DOMAIN fields = 1..n
  BY LenProperties
<1>2. \A i \in 1..n : Unpacking(fields[i]) \in Seq(Formats)
  BY <1>1, ElementOfSeq, UnpackingOf
<1>3. Unpackings(fields) = [i \in 1..n |-> Unpacking(fields[i])]
  BY <1>1 DEF Unpackings
<1> DEFINE p == Unpackings(fields)
           V == Seq(Formats)
<1>4. p \in [1..n -> V]
  BY <1>2, <1>3
<1>5. p \in Seq(V) /\ Len(p) = n
  <2> HIDE DEF p, V
  <2>1. QED
    BY <1>4, IsASeq
<1>6. QED
  BY <1>1, <1>3, <1>5

Reading(ds, data, run) ==
  /\ run[0] = Reader
  /\ \A i \in 1..Len(ds) : run[i] = ReadDirective(run[i - 1], ds[i], data)

LEMMA UnpackIsDefined ==
  ASSUME NEW fields \in Seq(Fields), NEW data
  PROVE  \E run : /\ Reading(FlattenSeq(Unpackings(fields)), data, run)
                  /\ Unpack(data, fields) = run[Len(FlattenSeq(Unpackings(fields)))]
<1> DEFINE ds == FlattenSeq(Unpackings(fields))
           Upto(k, g) ==
             g = [i \in 0..k |-> IF i = 0 THEN Reader ELSE ReadDirective(g[i - 1], ds[i], data)]
           T == {k \in Nat : \E g : Upto(k, g)}
           chosen == CHOOSE g : Upto(Len(ds), g)
<1>1. 0 \in T
  <2> DEFINE g == [i \in 0..0 |-> Reader]
  <2>1. Upto(0, g)
    <3> HIDE DEF ds
    <3>1. QED
      OBVIOUS
  <2> HIDE DEF Upto, g
  <2>2. QED
    BY <2>1
<1>2. ASSUME NEW k \in Nat, k \in T
      PROVE  k + 1 \in T
  <2>1. PICK g : Upto(k, g)
    BY <1>2
  <2> HIDE DEF ds
  <2> DEFINE last == ReadDirective(g[k], ds[k + 1], data)
             h == [i \in 0..(k + 1) |-> IF i = k + 1 THEN last ELSE g[i]]
  <2>2. \A i \in 0..(k + 1) :
          h[i] = IF i = 0 THEN Reader ELSE ReadDirective(h[i - 1], ds[i], data)
    <3> TAKE i \in 0..(k + 1)
    <3>1. i # 0 => h[i - 1] = g[i - 1]
      OBVIOUS
    <3>2. CASE i = k + 1
      BY <3>1, <3>2
    <3>3. CASE i # k + 1
      <4>1. i \in 0..k /\ h[i] = g[i]
        BY <3>3
      <4>2. g[i] = IF i = 0 THEN Reader ELSE ReadDirective(g[i - 1], ds[i], data)
        BY <2>1, <4>1
      <4> HIDE DEF h
      <4>3. QED
        BY <3>1, <4>1, <4>2
    <3>4. QED
      BY <3>2, <3>3
  <2>3. h = [i \in 0..(k + 1) |-> h[i]]
    OBVIOUS
  <2> HIDE DEF h
  <2>4. Upto(k + 1, h)
    BY <2>2, <2>3
  <2> HIDE DEF Upto
  <2>5. QED
    BY <2>4
<1>3. Nat \subseteq T
  <2> HIDE DEF T
  <2>1. QED
    BY <1>1, <1>2, SetInduction
<1>4. Len(ds) \in Nat
  <2>1. ds \in Seq(Formats)
    BY UnpackingsType, FlattenType
  <2> HIDE DEF ds
  <2>2. QED
    BY <2>1, LenProperties
<1>5. Upto(Len(ds), chosen)
  <2>1. \E g : Upto(Len(ds), g)
    BY <1>3, <1>4
  <2> HIDE DEF Upto
  <2>2. QED
    BY <2>1
<1>6. Unpack(data, fields) = chosen[Len(ds)]
  BY DEF Unpack, Flat, Each, Unpackings
<1> HIDE DEF chosen, ds
<1>7. Reading(ds, data, chosen)
  BY <1>4, <1>5 DEF Reading
<1>8. QED
  BY <1>6, <1>7 DEF ds

SameUpTo(ds, other, n) ==
  /\ n \in Nat /\ Len(ds) \in Nat /\ Len(other) \in Nat
  /\ n <= Len(ds) /\ n <= Len(other)
  /\ \A i \in 1..n : ds[i] = other[i]

LEMMA ReadingIsUnique ==
  ASSUME NEW ds, NEW other, NEW data, NEW run, NEW again, NEW n,
         Reading(ds, data, run), Reading(other, data, again), SameUpTo(ds, other, n)
  PROVE  run[n] = again[n]
<1>0. /\ n \in Nat /\ Len(ds) \in Nat /\ Len(other) \in Nat
      /\ n <= Len(ds) /\ n <= Len(other)
      /\ \A i \in 1..n : ds[i] = other[i]
  BY DEF SameUpTo
<1> DEFINE T == {k \in Nat : k <= n => run[k] = again[k]}
<1>1. 0 \in T
  BY DEF Reading
<1>2. ASSUME NEW k \in Nat, k \in T
      PROVE  k + 1 \in T
  <2>1. ASSUME k + 1 <= n
        PROVE  run[k + 1] = again[k + 1]
    <3>1. /\ k + 1 \in 1..Len(ds) /\ k + 1 \in 1..Len(other) /\ k + 1 \in 1..n
          /\ (k + 1) - 1 = k /\ run[k] = again[k]
      BY <1>0, <1>2, <2>1
    <3>2. run[k + 1] = ReadDirective(run[k], ds[k + 1], data)
      BY <3>1 DEF Reading
    <3>3. again[k + 1] = ReadDirective(again[k], other[k + 1], data)
      BY <3>1 DEF Reading
    <3>4. ds[k + 1] = other[k + 1]
      BY <1>0, <3>1
    <3>5. QED
      BY <3>1, <3>2, <3>3, <3>4
  <2>2. QED
    BY <2>1
<1>3. Nat \subseteq T
  <2> HIDE DEF T
  <2>1. QED
    BY <1>1, <1>2, SetInduction
<1>4. QED
  BY <1>0, <1>3

(* What the directives of one field, one or two, make of a reader. *)
Taking(r, ds, data) ==
  IF Len(ds) = 0 THEN r
  ELSE IF Len(ds) = 1 THEN ReadDirective(r, ds[1], data)
  ELSE ReadDirective(ReadDirective(r, ds[1], data), ds[2], data)

LEMMA UnpackNone ==
  ASSUME NEW data
  PROVE  Unpack(data, << >>) = Reader
<1> DEFINE ds == FlattenSeq(Unpackings(<< >>))
<1>1. << >> \in Seq(Fields) /\ Len(<< >>) = 0
  BY EmptySeq
<1>2. Unpackings(<< >>) \in Seq(Seq(Formats)) /\ Len(Unpackings(<< >>)) = 0
  BY <1>1, UnpackingsType
<1>3. Unpackings(<< >>) = << >>
  BY <1>2, EmptySeq
<1>4. ds = << >>
  BY <1>3, FlattenEmpty
<1>5. PICK run : Reading(ds, data, run) /\ Unpack(data, << >>) = run[Len(ds)]
  BY <1>1, UnpackIsDefined
<1>6. Unpack(data, << >>) = run[0] /\ run[0] = Reader
  BY <1>1, <1>4, <1>5 DEF Reading
<1>7. QED
  BY <1>6

LEMMA UnpackAppend ==
  ASSUME NEW fields \in Seq(Fields), NEW f \in Fields, NEW data
  PROVE  Unpack(data, Append(fields, f)) = Taking(Unpack(data, fields), Unpacking(f), data)
<1> DEFINE more == Append(fields, f)
           new == Unpacking(f)
           ds == FlattenSeq(Unpackings(fields))
           all == FlattenSeq(Unpackings(more))
           n == Len(ds)
<1>1. new \in Seq(Formats) /\ Len(new) \in 0..2
  BY UnpackingOf
<1>2. /\ more \in Seq(Fields) /\ Len(more) = Len(fields) + 1
      /\ \A i \in 1..Len(fields) : more[i] = fields[i]
      /\ more[Len(fields) + 1] = f /\ Len(fields) \in Nat
  BY AppendProperties, LenProperties
<1> HIDE DEF more, new
<1>3. /\ Unpackings(fields) \in Seq(Seq(Formats))
      /\ Len(Unpackings(fields)) = Len(fields)
      /\ \A i \in 1..Len(fields) : Unpackings(fields)[i] = Unpacking(fields[i])
  BY UnpackingsType
<1>4. /\ Unpackings(more) \in Seq(Seq(Formats))
      /\ Len(Unpackings(more)) = Len(more)
      /\ \A i \in 1..Len(more) : Unpackings(more)[i] = Unpacking(more[i])
  BY <1>2, UnpackingsType
<1>5. all = ds \o new
  <2> DEFINE a == Unpackings(fields)
             b == Unpackings(more)
             k == Len(fields)
  <2>1. ListOfLists(a, Formats) /\ ListOfLists(b, Formats)
    BY <1>3, <1>4 DEF ListOfLists
  <2>2. k \in Nat /\ Len(a) = k /\ Len(b) = k + 1
    BY <1>2, <1>3, <1>4
  <2>3. \A i \in 1..k : b[i] = a[i]
    <3> TAKE i \in 1..k
    <3>1. i \in 1..Len(more) /\ more[i] = fields[i]
      BY <1>2
    <3>2. a[i] = Unpacking(fields[i]) /\ b[i] = Unpacking(more[i])
      BY <1>3, <1>4, <3>1
    <3>3. QED
      BY <3>1, <3>2
  <2>4. b[k + 1] = new
    <3>1. k + 1 \in 1..Len(more)
      BY <1>2
    <3>2. b[k + 1] = Unpacking(more[k + 1])
      BY <1>4, <3>1
    <3>3. QED
      BY <1>2, <3>2 DEF new
  <2> HIDE DEF a, b, k
  <2>5. FlattenSeq(b) = FlattenSeq(a) \o new
    <3>1. Lengthened(b, a, k, new)
      BY <2>2, <2>3, <2>4 DEF Lengthened
    <3>2. QED
      BY <1>1, <2>1, <3>1, FlattenLengthened
  <2>6. QED
    BY <2>5 DEF a, b
<1>6. ds \in Seq(Formats)
  BY <1>3, FlattenType
<1>7. PICK run : Reading(ds, data, run) /\ Unpack(data, fields) = run[n]
  BY UnpackIsDefined
<1>8. PICK again : Reading(all, data, again) /\ Unpack(data, more) = again[Len(all)]
  BY <1>2, UnpackIsDefined
<1>16. /\ Reading(ds, data, run) /\ Reading(all, data, again)
       /\ Unpack(data, fields) = run[n] /\ Unpack(data, more) = again[Len(all)]
  BY <1>7, <1>8
<1> HIDE DEF ds, all
<1>17. \A j \in 1..Len(all) : again[j] = ReadDirective(again[j - 1], all[j], data)
  BY <1>16 DEF Reading
<1>9. /\ n \in Nat /\ Len(all) = n + Len(new)
      /\ \A i \in 1..n : all[i] = ds[i]
      /\ \A i \in 1..Len(new) : all[n + i] = new[i]
  BY <1>1, <1>5, <1>6, JoinedProperties, LenProperties
<1> HIDE DEF n
<1>10. again[n] = run[n]
  <2>1. Len(ds) \in Nat /\ n <= Len(ds) /\ Len(all) \in Nat /\ n <= Len(all)
    BY <1>1, <1>9 DEF n
  <2>2. \A i \in 1..n : ds[i] = all[i]
    BY <1>9
  <2>3. SameUpTo(ds, all, n)
    BY <1>9, <2>1, <2>2 DEF SameUpTo
  <2>4. run[n] = again[n]
    BY <1>16, <2>3, ReadingIsUnique
  <2>5. QED
    BY <2>4
<1>11. ASSUME NEW i \in 1..Len(new)
       PROVE  again[n + i] = ReadDirective(again[n + i - 1], new[i], data)
  <2>1. n + i \in 1..Len(all)
    BY <1>1, <1>9
  <2>2. again[n + i] = ReadDirective(again[n + i - 1], all[n + i], data)
    BY <1>9, <1>17, <2>1
  <2>3. QED
    BY <1>9, <2>2
<1>12. /\ Unpack(data, fields) = again[n]
       /\ Unpack(data, more) = again[n + Len(new)]
  BY <1>9, <1>10, <1>16
<1> DEFINE u == Unpack(data, fields)
           v == Unpack(data, more)
<1>13. u = again[n] /\ v = again[n + Len(new)]
  BY <1>12
<1> HIDE DEF u, v
<1>14. v = Taking(u, new, data)
  <2>1. CASE Len(new) = 0
    <3>1. v = u
      BY <1>9, <1>13, <2>1
    <3>2. QED
      BY <2>1, <3>1 DEF Taking
  <2>2. CASE Len(new) = 1
    <3>1. n + 1 - 1 = n /\ 1 \in 1..Len(new)
      BY <1>9, <2>2
    <3>2. again[n + 1] = ReadDirective(again[n], new[1], data)
      BY <1>11, <3>1
    <3>3. v = ReadDirective(u, new[1], data)
      BY <1>13, <2>2, <3>2
    <3>4. Taking(u, new, data) = ReadDirective(u, new[1], data)
      BY <2>2 DEF Taking
    <3>5. QED
      BY <3>3, <3>4
  <2>3. CASE Len(new) = 2
    <3>1. /\ n + 1 - 1 = n /\ n + 2 - 1 = n + 1
          /\ 1 \in 1..Len(new) /\ 2 \in 1..Len(new)
      BY <1>9, <2>3
    <3>2. again[n + 1] = ReadDirective(again[n], new[1], data)
      BY <1>11, <3>1
    <3>3. again[n + 2] = ReadDirective(again[n + 1], new[2], data)
      <4>1. again[n + 2] = ReadDirective(again[n + 2 - 1], new[2], data)
        BY <1>11, <3>1
      <4>2. QED
        BY <3>1, <4>1
    <3>4. v = ReadDirective(ReadDirective(u, new[1], data), new[2], data)
      BY <1>13, <2>3, <3>2, <3>3
    <3>5. Taking(u, new, data) = ReadDirective(ReadDirective(u, new[1], data), new[2], data)
      BY <2>3 DEF Taking
    <3>6. QED
      BY <3>4, <3>5
  <2>4. QED
    BY <1>1, <2>1, <2>2, <2>3
<1>15. QED
  BY <1>14 DEF u, v, more, new

-----------------------------------------------------------------------------
(* What one directive makes of a reader                                    *)

Rd(o, s, v, x) == [offs |-> o, sizes |-> s, vals |-> v, out |-> x]

LEMMA ReaderParts ==
  ASSUME NEW o, NEW s, NEW v, NEW x
  PROVE  /\ Rd(o, s, v, x).offs = o /\ Rd(o, s, v, x).sizes = s
         /\ Rd(o, s, v, x).vals = v /\ Rd(o, s, v, x).out = x
BY DEF Rd

LEMMA ReaderIs == Reader = Rd(0, << >>, << >>, "ok")
BY DEF Reader, Rd

LEMMA StoppedIs ==
  ASSUME NEW o, NEW s, NEW v, NEW x, NEW why
  PROVE  Stopped(Rd(o, s, v, x), why) = Rd(o, s, v, why)
BY DEF Stopped, Rd

LEMMA SizedIs ==
  ASSUME NEW o, NEW s, NEW v, NEW x, NEW t
  PROVE  [Rd(o, s, v, x) EXCEPT !.sizes = t] = Rd(o, t, v, x)
BY DEF Rd

(* Sums and joins by name, to be found by matching *)
Summed(p, o, n) == p = o + n

Joins(q, v, w) == q = v \o w

LEMMA TakenIs ==
  ASSUME NEW o, NEW s, NEW v, NEW x, NEW n, NEW w, NEW p, NEW q,
         Summed(p, o, n), Joins(q, v, w)
  PROVE  Taken(Rd(o, s, v, x), n, w) = Rd(p, s, q, x)
<1> DEFINE r == Rd(o, s, v, x)
<1>1. r.offs = o /\ r.vals = v
  BY ReaderParts
<1>2. [r EXCEPT !.offs = p, !.vals = q] = Rd(p, s, q, x)
  <2>1. [r EXCEPT !.offs = p] = Rd(p, s, v, x)
    BY DEF Rd
  <2>2. [Rd(p, s, v, x) EXCEPT !.vals = q] = Rd(p, s, q, x)
    BY DEF Rd
  <2> HIDE DEF r
  <2>3. [r EXCEPT !.offs = p, !.vals = q] = [[r EXCEPT !.offs = p] EXCEPT !.vals = q]
    OBVIOUS
  <2>4. QED
    BY <2>1, <2>2, <2>3
<1> HIDE DEF r
<1>3. Taken(r, n, w) = [r EXCEPT !.offs = r.offs + n, !.vals = r.vals \o w]
  BY DEF Taken
<1>4. r.offs + n = p /\ r.vals \o w = q
  BY <1>1 DEF Summed, Joins
<1>5. Taken(r, n, w) = Rd(p, s, q, x)
  BY <1>2, <1>3, <1>4, Zenon
<1>6. QED
  BY <1>5 DEF r

(* The byte of "%Z" or of a constant, and a string without a size *)
ByteRead(o, s, v, data, b) ==
  IF o >= Len(data) THEN Rd(o, s, v, "past")
  ELSE IF data[o + 1] # b THEN Rd(o, s, v, "refused")
  ELSE Rd(o + 1, s, v \o << >>, "ok")

StringRead(o, s, v, data) ==
  LET rest == SubSeq(data, o + 1, Len(data))
      e == UpToZero(rest)
  IN  IF e = 0 THEN Rd(o, s, v, "past")
      ELSE Rd(o + e, s, v \o <<SubSeq(rest, 1, e - 1)>>, "ok")

LEMMA TakeByteIs ==
  ASSUME NEW o, NEW s, NEW v, NEW data, NEW b
  PROVE  TakeByte(Rd(o, s, v, "ok"), data, b) = ByteRead(o, s, v, data, b)
<1> DEFINE r == Rd(o, s, v, "ok")
           none == << >>
           p == o + 1
           q == v \o none
<1>1. r.offs = o
  BY ReaderParts
<1>2. /\ Stopped(r, "past") = Rd(o, s, v, "past")
      /\ Stopped(r, "refused") = Rd(o, s, v, "refused")
  BY StoppedIs
<1>3. Taken(r, 1, none) = Rd(p, s, q, "ok")
  <2>1. Summed(p, o, 1) /\ Joins(q, v, none)
    BY DEF Summed, Joins
  <2> HIDE DEF p, q, none
  <2>2. QED
    BY <2>1, TakenIs
<1>4. TakeByte(r, data, b) =
        IF r.offs >= Len(data) THEN Stopped(r, "past")
        ELSE IF data[r.offs + 1] # b THEN Stopped(r, "refused") ELSE Taken(r, 1, none)
  BY DEF TakeByte
<1>5. ByteRead(o, s, v, data, b) =
        IF o >= Len(data) THEN Rd(o, s, v, "past")
        ELSE IF data[o + 1] # b THEN Rd(o, s, v, "refused") ELSE Rd(p, s, q, "ok")
  BY DEF ByteRead
<1> HIDE DEF r, p, q, none
<1>6. TakeByte(r, data, b) = ByteRead(o, s, v, data, b)
  BY <1>1, <1>2, <1>3, <1>4, <1>5, Zenon
<1>7. QED
  BY <1>6 DEF r

LEMMA TakeStringIs ==
  ASSUME NEW o, NEW s, NEW v, NEW data
  PROVE  TakeString(Rd(o, s, v, "ok"), data) = StringRead(o, s, v, data)
<1> DEFINE r == Rd(o, s, v, "ok")
           rest == SubSeq(data, o + 1, Len(data))
           e == UpToZero(rest)
           w == <<SubSeq(rest, 1, e - 1)>>
           p == o + e
           q == v \o w
<1>1. r.offs = o
  BY ReaderParts
<1>2. Stopped(r, "past") = Rd(o, s, v, "past")
  BY StoppedIs
<1>3. Taken(r, e, w) = Rd(p, s, q, "ok")
  <2>1. Summed(p, o, e) /\ Joins(q, v, w)
    BY DEF Summed, Joins
  <2> HIDE DEF p, q, w, e
  <2>2. QED
    BY <2>1, TakenIs
<1>4. TakeString(r, data) =
        LET more == SubSeq(data, r.offs + 1, Len(data))
            k == UpToZero(more)
        IN  IF k = 0 THEN Stopped(r, "past") ELSE Taken(r, k, <<SubSeq(more, 1, k - 1)>>)
  BY DEF TakeString
<1>5. TakeString(r, data) = IF e = 0 THEN Stopped(r, "past") ELSE Taken(r, e, w)
  <2> HIDE DEF r
  <2>1. QED
    BY <1>1, <1>4, Zenon
<1>6. StringRead(o, s, v, data) = IF e = 0 THEN Rd(o, s, v, "past") ELSE Rd(p, s, q, "ok")
  BY DEF StringRead
<1> HIDE DEF e, w, p, q
<1>7. TakeString(r, data) = StringRead(o, s, v, data)
  BY <1>2, <1>3, <1>5, <1>6, Zenon
<1>8. QED
  BY <1>7 DEF r

(* Convert with the names of its parts *)
Sized(n, size, d) == n = IF size = 0 /\ d.c \in {"u", "$"} THEN IntSize ELSE size

Sliced(bytes, data, o, n) == bytes = SubSeq(data, o + 1, o + n)

Conversion(z, r, d, n, data, bytes, m) ==
  /\ d.c = "lit" => z = TakeByte(r, data, d.v[1])
  /\ d.c = "Z" => z = TakeByte(r, data, 0)
  /\ d.c = "s" /\ n = 0 => z = TakeString(r, data)
  /\ d.c \notin {"lit", "Z"} /\ ~(d.c = "s" /\ n = 0) =>
       IF r.offs + n > Len(data) THEN z = Stopped(r, "past")
       ELSE /\ d.c = "u" => z = Taken(r, n, <<<<m>>>>)
            /\ d.c = "$" =>
                 z = [Taken(r, n, << >>) EXCEPT !.sizes = <<m>> \o Taken(r, n, << >>).sizes]
            /\ d.c = "k" => z = Taken(r, n, << >>)
            /\ d.c \in {"p", "r", "s"} => z = Taken(r, n, <<bytes>>)

LEMMA ConvertIs ==
  ASSUME NEW r, NEW d, NEW size, NEW data, NEW n, NEW m, NEW bytes,
         Sized(n, size, d), Sliced(bytes, data, r.offs, n), m = Number(bytes)
  PROVE  Conversion(Convert(r, d, size, data), r, d, n, data, bytes, m)
<1>0. /\ n = (IF size = 0 /\ d.c \in {"u", "$"} THEN IntSize ELSE size)
      /\ bytes = SubSeq(data, r.offs + 1, r.offs + n) /\ m = Number(bytes)
  BY DEF Sized, Sliced
<1> DEFINE z == Convert(r, d, size, data)
           A == TakeByte(r, data, d.v[1])
           B == TakeByte(r, data, 0)
           C == TakeString(r, data)
           D == Stopped(r, "past")
           E == Taken(r, n, <<<<m>>>>)
           F == [Taken(r, n, << >>) EXCEPT !.sizes = <<m>> \o Taken(r, n, << >>).sizes]
           G == Taken(r, n, << >>)
           H == Taken(r, n, <<bytes>>)
           P == r.offs + n > Len(data)
<1>1. z = LET k == IF size = 0 /\ d.c \in {"u", "$"} THEN IntSize ELSE size
              b == SubSeq(data, r.offs + 1, r.offs + k)
          IN  CASE d.c = "lit" -> A
                [] d.c = "Z"   -> B
                [] d.c = "s" /\ k = 0 -> C
                [] OTHER ->
                     IF r.offs + k > Len(data) THEN D
                     ELSE CASE d.c = "u" -> Taken(r, k, <<<<Number(b)>>>>)
                            [] d.c = "$" ->
                                 [Taken(r, k, << >>) EXCEPT
                                    !.sizes = <<Number(b)>> \o Taken(r, k, << >>).sizes]
                            [] d.c = "k" -> Taken(r, k, << >>)
                            [] OTHER     -> Taken(r, k, <<b>>)
  BY Zenon DEF Convert
<1> HIDE DEF z
<1>2. z = CASE d.c = "lit" -> A
            [] d.c = "Z"   -> B
            [] d.c = "s" /\ n = 0 -> C
            [] OTHER ->
                 IF P THEN D
                 ELSE CASE d.c = "u" -> E
                        [] d.c = "$" -> F
                        [] d.c = "k" -> G
                        [] OTHER     -> H
  BY <1>0, <1>1, Zenon
<1> HIDE DEF A, B, C, D, E, F, G, H, P
<1>3. /\ d.c = "lit" => z = A
      /\ d.c = "Z" => z = B
      /\ d.c = "s" /\ n = 0 => z = C
      /\ d.c \notin {"lit", "Z"} /\ ~(d.c = "s" /\ n = 0) =>
           IF P THEN z = D
           ELSE /\ d.c = "u" => z = E
                /\ d.c = "$" => z = F
                /\ d.c = "k" => z = G
                /\ d.c \in {"p", "r", "s"} => z = H
  BY <1>2
<1>4. QED
  BY <1>3, Zenon DEF A, B, C, D, E, F, G, H, P, z, Conversion

Vals == Seq(Seq(Nat))

(* The size in force, the comparison and the conversion *)
InForce(d, s, c, t) ==
  IF d.c # "lit" /\ s # << >> THEN c = Head(s) /\ t = Tail(s) ELSE c = 0 /\ t = s

Fits(o, k, data) == ~(o + k > Len(data))

LEMMA ReadIs ==
  ASSUME NEW o \in Nat, NEW s, NEW v, NEW data, NEW d, d.size \in Nat,
         NEW c \in Nat, NEW t, NEW k, InForce(d, s, c, t), d.size = 0 \/ c = 0,
         k = Larger(d.size, c)
  PROVE  /\ ~Fits(o, k, data) => ReadDirective(Rd(o, s, v, "ok"), d, data) = Rd(o, s, v, "refused")
         /\ Fits(o, k, data) =>
              ReadDirective(Rd(o, s, v, "ok"), d, data) = Convert(Rd(o, t, v, "ok"), d, k, data)
<1> DEFINE r == Rd(o, s, v, "ok")
           more == Rd(o, t, v, "ok")
           no == Rd(o, s, v, "refused")
<1>1. r.offs = o /\ r.sizes = s /\ r.out = "ok"
  BY ReaderParts
<1>2. [r EXCEPT !.sizes = t] = more /\ Stopped(r, "refused") = no
  <2>1. [r EXCEPT !.sizes = t] = more
    BY SizedIs
  <2>2. Stopped(r, "refused") = no
    BY StoppedIs
  <2>3. QED
    BY <2>1, <2>2
<1> HIDE DEF r, more, no
<1>3. Counted(r, d) = c /\ Left(r, d) = t
  BY <1>1 DEF Counted, Left, Pending, InForce
<1>4. Refused(r, d, data) <=> ~Fits(o, k, data)
  BY <1>1, <1>3 DEF Refused, Fits
<1>5. ReadDirective(r, d, data) =
        IF Refused(r, d, data) THEN Stopped(r, "refused")
        ELSE Convert([r EXCEPT !.sizes = Left(r, d)], d, Larger(d.size, Counted(r, d)), data)
  BY <1>1, Zenon DEF ReadDirective
<1>6. ReadDirective(r, d, data) =
        IF Refused(r, d, data) THEN no ELSE Convert(more, d, k, data)
  BY <1>2, <1>3, <1>5, Zenon
<1>7. /\ ~Fits(o, k, data) => ReadDirective(r, d, data) = no
      /\ Fits(o, k, data) => ReadDirective(r, d, data) = Convert(more, d, k, data)
  BY <1>4, <1>6, Zenon
<1>8. QED
  BY <1>7 DEF r, more, no

LEMMA LargerIs ==
  ASSUME NEW n \in Nat
  PROVE  Larger(n, 0) = n /\ Larger(0, n) = n
BY DEF Larger

LEMMA SubBytes ==
  ASSUME NEW data \in Seq(Byte), NEW o \in Nat, NEW n \in Nat, ~(o + n > Len(data))
  PROVE  /\ SubSeq(data, o + 1, o + n) \in Seq(Byte)
         /\ Len(SubSeq(data, o + 1, o + n)) = n
         /\ \A i \in 1..n : SubSeq(data, o + 1, o + n)[i] = data[o + i]
<1>1. o + n <= Len(data)
  BY LenProperties
<1>2. QED
  BY <1>1, SliceProperties

Between(bytes, data, o, p) == bytes = SubSeq(data, o + 1, p)

SizedRead(q, c, o, v, data, p, bytes, m) ==
  /\ p > Len(data) => q = Rd(o, << >>, v, "refused")
  /\ ~(p > Len(data)) =>
       /\ c = "u" => q = Rd(p, << >>, v \o <<<<m>>>>, "ok")
       /\ c = "$" => q = Rd(p, <<m>> \o << >>, v \o << >>, "ok")
       /\ c = "p" => q = Rd(p, << >>, v \o <<bytes>>, "ok")
       /\ c = "k" => q = Rd(p, << >>, v \o << >>, "ok")

LEMMA ReadSized ==
  ASSUME NEW o \in Nat, NEW v, NEW data \in Seq(Byte),
         NEW c \in {"u", "$", "p", "k"}, NEW w \in Nat, w > 0, NEW p, NEW bytes, NEW m,
         Summed(p, o, w), Between(bytes, data, o, p), m = Number(bytes)
  PROVE  SizedRead(ReadDirective(Rd(o, << >>, v, "ok"), Directive(c, w, << >>), data),
                   c, o, v, data, p, bytes, m)
<1> DEFINE d == Directive(c, w, << >>)
           none == << >>
           r == Rd(o, none, v, "ok")
           z == Convert(r, d, w, data)
           two == <<<<m>>>>
           one == <<m>>
           said == <<bytes>>
           q == ReadDirective(r, d, data)
<1>0. bytes = SubSeq(data, o + 1, p)
  BY DEF Between
<1>1. d.c = c /\ d.size = w
  BY DEF Directive
<1>2. none \in Seq(Nat) /\ none = << >> /\ Len(data) \in Nat
  BY EmptySeq, LenProperties
<1>3. r.offs = o
  BY ReaderParts
<1>4. /\ Stopped(r, "past") = Rd(o, none, v, "past")
      /\ Taken(r, w, two) = Rd(p, none, v \o two, "ok")
      /\ Taken(r, w, none) = Rd(p, none, v \o none, "ok")
      /\ Taken(r, w, said) = Rd(p, none, v \o said, "ok")
  <2>1. Stopped(r, "past") = Rd(o, none, v, "past")
    BY StoppedIs
  <2> DEFINE a == v \o two
             b == v \o none
             e == v \o said
  <2>2. Joins(a, v, two) /\ Joins(b, v, none) /\ Joins(e, v, said)
    BY DEF Joins
  <2> HIDE DEF a, b, e, two, none, said
  <2>3. /\ Taken(r, w, two) = Rd(p, none, a, "ok")
        /\ Taken(r, w, none) = Rd(p, none, b, "ok")
        /\ Taken(r, w, said) = Rd(p, none, e, "ok")
    BY <2>2, TakenIs
  <2>4. QED
    BY <2>1, <2>3 DEF a, b, e
<1>5. /\ ~Fits(o, w, data) => q = Rd(o, none, v, "refused")
      /\ Fits(o, w, data) => q = z
  <2>1. q = ReadDirective(r, d, data)
    OBVIOUS
  <2>2. InForce(d, none, 0, none)
    BY DEF InForce
  <2>3. w = Larger(d.size, 0)
    BY <1>1, LargerIs
  <2> HIDE DEF d, none
  <2>4. /\ ~Fits(o, w, data) => ReadDirective(r, d, data) = Rd(o, none, v, "refused")
        /\ Fits(o, w, data) => ReadDirective(r, d, data) = Convert(r, d, w, data)
    BY <1>1, <2>2, <2>3, ReadIs
  <2>5. QED
    BY <2>1, <2>4
<1> HIDE DEF d, r, z, q, two, one, none, said
<1>6. /\ d.c \notin {"lit", "Z"} /\ ~(d.c = "s" /\ w = 0)
      /\ Sized(w, w, d) /\ Sliced(bytes, data, r.offs, w)
  BY <1>0, <1>1, <1>3 DEF Summed, Sized, Sliced
<1>7. IF r.offs + w > Len(data) THEN z = Stopped(r, "past")
      ELSE /\ d.c = "u" => z = Taken(r, w, two)
           /\ d.c = "$" => z = [Taken(r, w, none) EXCEPT !.sizes = one \o Taken(r, w, none).sizes]
           /\ d.c = "k" => z = Taken(r, w, none)
           /\ d.c \in {"p", "r", "s"} => z = Taken(r, w, said)
  <2>1. Conversion(z, r, d, w, data, bytes, m)
    BY <1>6, ConvertIs DEF z
  <2>2. QED
    BY <1>6, <2>1, Zenon DEF Conversion, two, one, none, said
<1>8. [Taken(r, w, none) EXCEPT !.sizes = one \o Taken(r, w, none).sizes]
        = Rd(p, one \o none, v \o none, "ok")
  <2> DEFINE b == v \o none
             u == Rd(p, none, b, "ok")
             t == one \o none
  <2>1. Taken(r, w, none) = u /\ u.sizes = none
    BY <1>4, ReaderParts
  <2> HIDE DEF b
  <2>2. [u EXCEPT !.sizes = t] = Rd(p, t, b, "ok")
    <3> HIDE DEF t
    <3>1. QED
      BY SizedIs
  <2> HIDE DEF u
  <2>3. QED
    BY <2>1, <2>2, Zenon DEF b
<1>9. r.offs + w = p
  BY <1>3 DEF Summed
<1>10. ASSUME ~(p > Len(data))
       PROVE  /\ d.c = "u" => q = Rd(p, none, v \o two, "ok")
              /\ d.c = "$" => q = Rd(p, one \o none, v \o none, "ok")
              /\ d.c = "k" => q = Rd(p, none, v \o none, "ok")
              /\ d.c \in {"p", "r", "s"} => q = Rd(p, none, v \o said, "ok")
  <2>1. q = z
    BY <1>5, <1>10 DEF Fits, Summed
  <2>2. /\ d.c = "u" => z = Taken(r, w, two)
        /\ d.c = "$" => z = [Taken(r, w, none) EXCEPT !.sizes = one \o Taken(r, w, none).sizes]
        /\ d.c = "k" => z = Taken(r, w, none)
        /\ d.c \in {"p", "r", "s"} => z = Taken(r, w, said)
    BY <1>7, <1>9, <1>10
  <2>3. QED
    BY <1>4, <1>8, <2>1, <2>2
<1>11. p > Len(data) => q = Rd(o, none, v, "refused")
  BY <1>5 DEF Fits, Summed
<1>12. SizedRead(q, c, o, v, data, p, bytes, m)
  BY <1>1, <1>10, <1>11 DEF SizedRead, two, one, none, said
<1>13. QED
  BY <1>12 DEF q, r, d, none

(* A number without a size is not compared with the length. *)
IntRead(q, o, v, data, p, m) ==
  /\ p > Len(data) => q = Rd(o, << >>, v, "past")
  /\ ~(p > Len(data)) => q = Rd(p, << >>, v \o <<<<m>>>>, "ok")

LEMMA ReadInt ==
  ASSUME NEW o \in Nat, NEW v, NEW data \in Seq(Byte), o <= Len(data),
         NEW p, NEW bytes, NEW m,
         Summed(p, o, IntSize), Between(bytes, data, o, p), m = Number(bytes)
  PROVE  IntRead(ReadDirective(Rd(o, << >>, v, "ok"), Directive("u", 0, << >>), data),
                 o, v, data, p, m)
<1> DEFINE d == Directive("u", 0, << >>)
           none == << >>
           r == Rd(o, none, v, "ok")
           z == Convert(r, d, 0, data)
           two == <<<<m>>>>
           q == ReadDirective(r, d, data)
           n == IntSize
<1>1. d.c = "u" /\ d.size = 0 /\ r.offs = o
  BY ReaderParts DEF Directive
<1>2. Stopped(r, "past") = Rd(o, none, v, "past") /\ Taken(r, n, two) = Rd(p, none, v \o two, "ok")
  <2>1. Stopped(r, "past") = Rd(o, none, v, "past")
    BY StoppedIs
  <2> DEFINE a == v \o two
  <2>2. Joins(a, v, two) /\ Summed(p, o, n)
    BY DEF Joins
  <2> HIDE DEF a, two, none, n
  <2>3. Taken(r, n, two) = Rd(p, none, a, "ok")
    BY <2>2, TakenIs
  <2>4. QED
    BY <2>1, <2>3 DEF a
<1>3. q = z
  <2>1. InForce(d, none, 0, none) /\ 0 = Larger(d.size, 0)
    BY <1>1, LargerIs DEF InForce
  <2>2. Fits(o, 0, data)
    BY LenProperties DEF Fits
  <2> HIDE DEF d, none
  <2>3. QED
    BY <1>1, <2>1, <2>2, ReadIs
<1>4. Sized(n, 0, d) /\ Sliced(bytes, data, r.offs, n)
  BY <1>1 DEF Summed, Between, Sized, Sliced
<1> HIDE DEF d, r, z, q, two, none, n
<1>5. Conversion(z, r, d, n, data, bytes, m)
  BY <1>4, ConvertIs DEF z
<1>6. IF r.offs + n > Len(data) THEN z = Stopped(r, "past") ELSE z = Taken(r, n, two)
  BY <1>1, <1>5 DEF Conversion, two
<1>7. r.offs + n = p
  BY <1>1 DEF Summed, n
<1>8. IntRead(q, o, v, data, p, m)
  BY <1>2, <1>3, <1>6, <1>7 DEF IntRead, two, none
<1>9. QED
  BY <1>8 DEF q, r, d, none

LEMMA ReadByteIs ==
  ASSUME NEW o \in Nat, NEW v, NEW data \in Seq(Byte), o <= Len(data), NEW d, NEW b,
         d.size = 0, \/ d.c = "Z" /\ b = 0
                     \/ d.c = "lit" /\ b = d.v[1]
  PROVE  ReadDirective(Rd(o, << >>, v, "ok"), d, data) = ByteRead(o, << >>, v, data, b)
<1> DEFINE none == << >>
           r == Rd(o, none, v, "ok")
           z == Convert(r, d, 0, data)
           n == IF d.c \in {"u", "$"} THEN IntSize ELSE 0
           bytes == SubSeq(data, r.offs + 1, r.offs + n)
           m == Number(bytes)
<1>1. InForce(d, none, 0, none) /\ 0 = Larger(d.size, 0)
  BY LargerIs DEF InForce
<1>2. Fits(o, 0, data)
  BY LenProperties DEF Fits
<1>3. Sized(n, 0, d) /\ Sliced(bytes, data, r.offs, n) /\ m = Number(bytes)
  BY Zenon DEF Sized, Sliced
<1>4. TakeByte(r, data, b) = ByteRead(o, none, v, data, b)
  BY TakeByteIs
<1> HIDE DEF none, r, n, bytes, m
<1>5. ReadDirective(r, d, data) = z
  BY <1>1, <1>2, ReadIs DEF r, z
<1>6. Conversion(z, r, d, n, data, bytes, m)
  BY <1>3, ConvertIs DEF z
<1>7. z = TakeByte(r, data, b)
  BY <1>6 DEF Conversion
<1>8. QED
  BY <1>4, <1>5, <1>7 DEF r, none

CountedRead(q, c, k, o, v, data, p, bytes) ==
  /\ p > Len(data) => q = Rd(o, <<k>>, v, "refused")
  /\ ~(p > Len(data)) =>
       /\ k > 0 \/ c = "r" => q = Rd(p, << >>, v \o <<bytes>>, "ok")
       /\ k = 0 /\ c = "s" => q = StringRead(o, << >>, v, data)

LEMMA ReadCounted ==
  ASSUME NEW o \in Nat, NEW v, NEW data \in Seq(Byte), NEW c \in {"s", "r"}, NEW k \in Nat,
         NEW p, NEW bytes, Summed(p, o, k), Between(bytes, data, o, p)
  PROVE  CountedRead(ReadDirective(Rd(o, <<k>>, v, "ok"), Directive(c, 0, << >>), data),
                     c, k, o, v, data, p, bytes)
<1> DEFINE d == Directive(c, 0, << >>)
           none == << >>
           one == <<k>>
           said == <<bytes>>
           r == Rd(o, none, v, "ok")
           z == Convert(r, d, k, data)
           m == Number(bytes)
           new == v \o said
           q == ReadDirective(Rd(o, one, v, "ok"), d, data)
<1>0. bytes = SubSeq(data, o + 1, p)
  BY DEF Between
<1>1. d.c = c /\ d.size = 0
  BY DEF Directive
<1>2. r.offs = o
  BY ReaderParts
<1>3. TakeString(r, data) = StringRead(o, none, v, data)
  BY TakeStringIs
<1>4. InForce(d, one, k, none)
  <2>1. one # << >> /\ Head(one) = k /\ Tail(one) = << >>
    OBVIOUS
  <2>2. QED
    BY <1>1, <2>1 DEF InForce
<1>5. k = Larger(d.size, k)
  BY <1>1, LargerIs
<1>6. Joins(new, v, said)
  BY DEF Joins
<1>7. q = ReadDirective(Rd(o, one, v, "ok"), d, data)
  OBVIOUS
<1> HIDE DEF d, none, one, said, new, q
<1>8. /\ ~Fits(o, k, data) => q = Rd(o, one, v, "refused")
      /\ Fits(o, k, data) => q = z
  BY <1>1, <1>4, <1>5, <1>7, ReadIs
<1>9. Taken(r, k, said) = Rd(p, none, new, "ok")
  BY <1>6, TakenIs
<1> HIDE DEF r
<1>10. Sized(k, k, d) /\ Sliced(bytes, data, r.offs, k)
  BY <1>0, <1>1, <1>2 DEF Summed, Sized, Sliced
<1>11. Conversion(z, r, d, k, data, bytes, m)
  BY <1>10, ConvertIs DEF z, m
<1> HIDE DEF z
<1>12. ASSUME ~(p > Len(data))
       PROVE  /\ k > 0 \/ c = "r" => q = Rd(p, none, new, "ok")
              /\ k = 0 /\ c = "s" => q = StringRead(o, none, v, data)
  <2>1. q = z /\ ~(r.offs + k > Len(data))
    BY <1>2, <1>8, <1>12 DEF Fits, Summed
  <2>2. k > 0 \/ c = "r" => z = Taken(r, k, said)
    BY <1>1, <1>11, <2>1 DEF Conversion, said
  <2>3. k = 0 /\ c = "s" => z = TakeString(r, data)
    BY <1>1, <1>11 DEF Conversion
  <2>4. QED
    BY <1>3, <1>9, <2>1, <2>2, <2>3
<1>13. p > Len(data) => q = Rd(o, one, v, "refused")
  BY <1>8 DEF Fits, Summed
<1>14. CountedRead(q, c, k, o, v, data, p, bytes)
  BY <1>12, <1>13 DEF CountedRead, one, none, new, said
<1>15. QED
  BY <1>14 DEF q, one, d, none

LEMMA TakingFew ==
  ASSUME NEW r, NEW data, NEW d
  PROVE  /\ Taking(r, << >>, data) = r
         /\ Taking(r, <<d>>, data) = ReadDirective(r, d, data)
<1> DEFINE none == << >>
           one == <<d>>
<1>1. Len(none) = 0 /\ Len(one) = 1 /\ one[1] = d
  OBVIOUS
<1> HIDE DEF none, one
<1>2. Taking(r, none, data) = r
  BY <1>1 DEF Taking
<1>3. Taking(r, one, data) = ReadDirective(r, d, data)
  BY <1>1 DEF Taking
<1>4. QED
  BY <1>2, <1>3 DEF none, one

LEMMA TakingTwo ==
  ASSUME NEW q, NEW r, NEW data, NEW d, NEW e, q = Taking(r, <<d, e>>, data)
  PROVE  q = ReadDirective(ReadDirective(r, d, data), e, data)
<1> DEFINE two == <<d, e>>
<1>1. Len(two) = 2 /\ two[1] = d /\ two[2] = e /\ q = Taking(r, two, data)
  OBVIOUS
<1> HIDE DEF two
<1>2. QED
  BY <1>1 DEF Taking

(* A reader that stopped goes no further. *)
LEMMA TakingStopped ==
  ASSUME NEW r, NEW ds, NEW data, r.out # "ok"
  PROVE  Taking(r, ds, data) = r
<1>1. \A d : ReadDirective(r, d, data) = r
  BY DEF ReadDirective
<1>2. QED
  BY <1>1 DEF Taking

-----------------------------------------------------------------------------
(* What the directives of one field make of a reader                       *)

(* How a reader stops at a field with a size of its own: a number of an    *)
(* int's size is not compared with the length.                             *)
CutOut(f) == IF f.t = "num" /\ f.w = IntSize THEN "past" ELSE "refused"

SizedTaken(q, f, o, v, data, p, bytes, m) ==
  /\ p > Len(data) => q = Rd(o, << >>, v, CutOut(f))
  /\ ~(p > Len(data)) =>
       /\ f.t = "num" => q = Rd(p, << >>, v \o <<<<m>>>>, "ok")
       /\ f.t = "raw" => q = Rd(p, << >>, v \o <<bytes>>, "ok")
       /\ f.t = "skip" => q = Rd(p, << >>, v \o << >>, "ok")

LEMMA TakesSized ==
  ASSUME NEW f \in Fields, f.t \in {"num", "raw", "skip"},
         NEW o \in Nat, NEW v, NEW data \in Seq(Byte), o <= Len(data),
         NEW q, NEW p, NEW bytes, NEW m,
         q = Taking(Rd(o, << >>, v, "ok"), Unpacking(f), data),
         Summed(p, o, f.w), Between(bytes, data, o, p), m = Number(bytes)
  PROVE  SizedTaken(q, f, o, v, data, p, bytes, m)
<1>0. CASE f.t = "num" /\ f.w = IntSize
  <2> DEFINE d == Directive("u", 0, << >>)
             r == Rd(o, << >>, v, "ok")
  <2>1. Modifier(f.w) = 0
    BY <1>0 DEF Modifier
  <2>2. Unpacking(f) = <<d>>
    BY <1>0, <2>1, UnpackingOf
  <2>3. q = Taking(r, <<d>>, data)
    BY <2>2
  <2>4. q = ReadDirective(r, d, data)
    <3> HIDE DEF d, r
    <3>1. QED
      BY <2>3, TakingFew
  <2>5. Summed(p, o, IntSize)
    BY <1>0
  <2>6. IntRead(q, o, v, data, p, m)
    BY <2>4, <2>5, ReadInt
  <2>7. CutOut(f) = "past"
    BY <1>0 DEF CutOut
  <2>8. QED
    BY <1>0, <2>6, <2>7 DEF IntRead, SizedTaken
<1>1. f.w \in Nat /\ f.w > 0
  <2>1. /\ f.w \in Nat
        /\ f.t = "num" => f.w \in Widths
        /\ f.t \in {"raw", "skip", "tail"} => f.w > 0
    BY FieldParts
  <2>2. f.w \in Widths => f.w > 0
    BY WidthsAre
  <2>3. QED
    BY <2>1, <2>2, Zenon
<1> DEFINE c == IF f.t = "num" THEN "u" ELSE IF f.t = "raw" THEN "p" ELSE "k"
           none == << >>
           d == Directive(c, f.w, none)
           r == Rd(o, none, v, "ok")
<1>2. ASSUME ~(f.t = "num" /\ f.w = IntSize)
      PROVE  Unpacking(f) = <<d>>
  <2>1. f.t = "num" => Modifier(f.w) = f.w
    BY <1>2, FieldParts, ModifierIs
  <2>2. QED
    BY <2>1, UnpackingOf
<1>3. c \in {"u", "$", "p", "k"}
  OBVIOUS
<1>4. /\ f.t = "num" => c = "u"
      /\ f.t = "raw" => c = "p"
      /\ f.t = "skip" => c = "k"
  OBVIOUS
<1> HIDE DEF c
<1>5. CASE ~(f.t = "num" /\ f.w = IntSize)
  <2>1. q = Taking(r, <<d>>, data)
    BY <1>2, <1>5
  <2>2. q = ReadDirective(r, d, data)
    <3> HIDE DEF d, r
    <3>1. QED
      BY <2>1, TakingFew
  <2>3. SizedRead(q, c, o, v, data, p, bytes, m)
    BY <1>1, <1>3, <2>2, ReadSized
  <2>4. CutOut(f) = "refused"
    BY <1>5 DEF CutOut
  <2>5. QED
    BY <1>4, <2>3, <2>4 DEF SizedRead, SizedTaken
<1>6. QED
  BY <1>0, <1>5

LEMMA TakesByte ==
  ASSUME NEW f \in Fields, f.t \in {"zero", "lit"},
         NEW o \in Nat, NEW v, NEW data \in Seq(Byte), o <= Len(data), NEW b,
         b = (IF f.t = "zero" THEN 0 ELSE f.v[1])
  PROVE  Taking(Rd(o, << >>, v, "ok"), Unpacking(f), data) = ByteRead(o, << >>, v, data, b)
<1> DEFINE d == IF f.t = "zero" THEN Directive("Z", 0, << >>) ELSE Directive("lit", 0, f.v)
           r == Rd(o, << >>, v, "ok")
<1>1. Unpacking(f) = <<d>>
  BY UnpackingOf
<1>2. /\ d.size = 0
      /\ \/ d.c = "Z" /\ b = 0
         \/ d.c = "lit" /\ b = d.v[1]
  BY DEF Directive
<1> HIDE DEF d
<1>3. Taking(r, <<d>>, data) = ReadDirective(r, d, data)
  <2> HIDE DEF r
  <2>1. QED
    BY TakingFew
<1>4. ReadDirective(r, d, data) = ByteRead(o, << >>, v, data, b)
  BY <1>2, ReadByteIs, ZenonT(30)
<1>5. QED
  BY <1>1, <1>3, <1>4

CountedTaken(q, f, o, v, data, p, k, e, bytes) ==
  /\ p > Len(data) => q = Rd(o, << >>, v, "refused")
  /\ ~(p > Len(data)) =>
       /\ k \in Nat
       /\ e > Len(data) => q = Rd(p, <<k>>, v, "refused")
       /\ ~(e > Len(data)) =>
            /\ k > 0 \/ f.t = "data" => q = Rd(e, << >>, v \o <<bytes>>, "ok")
            /\ k = 0 /\ f.t = "str" => q = StringRead(p, << >>, v, data)

LEMMA TakesCounted ==
  ASSUME NEW f \in Fields, f.t \in {"str", "data"},
         NEW o \in Nat, NEW v \in Vals, NEW data \in Seq(Byte), NEW q,
         NEW p, NEW count, NEW k, NEW e, NEW bytes,
         q = Taking(Rd(o, << >>, v, "ok"), Unpacking(f), data),
         Summed(p, o, f.w), Between(count, data, o, p), k = Number(count),
         Summed(e, p, k), Between(bytes, data, p, e)
  PROVE  CountedTaken(q, f, o, v, data, p, k, e, bytes)
<1>1. f.w \in Nat /\ f.w > 0
  <2>1. f.w \in Widths
    BY FieldParts
  <2>2. QED
    BY <2>1, WidthsAre
<1> DEFINE c == IF f.t = "str" THEN "s" ELSE "r"
           none == << >>
           one == <<k>>
           d == Directive("$", f.w, none)
           g == Directive(c, 0, none)
           r == Rd(o, none, v, "ok")
           u == ReadDirective(r, d, data)
<1>2. Unpacking(f) = <<d, g>>
  BY UnpackingOf
<1>3. q = Taking(r, <<d, g>>, data)
  BY <1>2
<1>4. c \in {"s", "r"} /\ (f.t = "data" => c = "r") /\ (f.t = "str" => c = "s")
  OBVIOUS
<1> HIDE DEF c
<1>5. q = ReadDirective(u, g, data)
  <2> HIDE DEF d, g, r
  <2>1. QED
    BY <1>3, TakingTwo DEF u
<1>6. one \o none = one /\ v \o none = v
  <2>1. one \in Seq({k})
    OBVIOUS
  <2> HIDE DEF one
  <2>2. one \o none = one
    BY <2>1, ConcatEmptySeq
  <2>3. v \o none = v
    BY ConcatEmptySeq DEF Vals
  <2>4. QED
    BY <2>2, <2>3
<1>7. /\ p > Len(data) => u = Rd(o, none, v, "refused")
      /\ ~(p > Len(data)) => u = Rd(p, one, v, "ok")
  <2>1. "$" \in {"u", "$", "p", "k"}
    OBVIOUS
  <2>2. SizedRead(u, "$", o, v, data, p, count, k)
    BY <1>1, <2>1, ReadSized DEF u, r, d, none
  <2> HIDE DEF u
  <2>3. p > Len(data) => u = Rd(o, none, v, "refused")
    BY <2>2 DEF SizedRead
  <2>4. ~(p > Len(data)) => u = Rd(p, one \o none, v \o none, "ok")
    BY <2>2 DEF SizedRead
  <2> HIDE DEF one
  <2>5. QED
    BY <1>6, <2>3, <2>4, Zenon
<1> HIDE DEF u
<1>8. p > Len(data) => q = Rd(o, << >>, v, "refused")
  <2>1. ASSUME p > Len(data)
        PROVE  q = Rd(o, << >>, v, "refused")
    <3>1. u = Rd(o, none, v, "refused") /\ u.out = "refused"
      BY <1>7, <2>1, ReaderParts
    <3>2. q = u
      BY <1>5, <3>1 DEF ReadDirective
    <3>3. QED
      BY <3>1, <3>2
  <2>2. QED
    BY <2>1
<1>9. ASSUME ~(p > Len(data))
      PROVE  /\ k \in Nat
             /\ e > Len(data) => q = Rd(p, <<k>>, v, "refused")
             /\ ~(e > Len(data)) =>
                   /\ k > 0 \/ f.t = "data" => q = Rd(e, << >>, v \o <<bytes>>, "ok")
                   /\ k = 0 /\ f.t = "str" => q = StringRead(p, << >>, v, data)
  <2>1. k \in Nat /\ p \in Nat
    <3>1. ~(o + f.w > Len(data)) /\ p = o + f.w
      BY <1>9 DEF Summed
    <3>2. SubSeq(data, o + 1, o + f.w) \in Seq(Byte)
      BY <1>1, <3>1, SubBytes
    <3>3. count = SubSeq(data, o + 1, o + f.w) /\ Number(count) \in Nat
      BY <3>1, <3>2, NumberType DEF Between
    <3>4. QED
      BY <1>1, <3>1, <3>3, SMTT(60)
  <2>2. q = ReadDirective(Rd(p, <<k>>, v, "ok"), Directive(c, 0, << >>), data)
    BY <1>5, <1>7, <1>9
  <2>3. CountedRead(q, c, k, p, v, data, e, bytes)
    BY <1>4, <2>1, <2>2, ReadCounted
  <2>4. QED
    BY <1>4, <2>1, <2>3 DEF CountedRead
<1>10. QED
  BY <1>8, <1>9 DEF CountedTaken

(* The bytes of data from o on, as far as there are any, are those of b. *)
Agrees(data, o, b) == \A j \in 1..Len(b) : o + j <= Len(data) => data[o + j] = b[j]

LEMMA SliceAgrees ==
  ASSUME NEW data \in Seq(Byte), NEW o \in Nat, NEW b \in Seq(Byte), Agrees(data, o, b),
         NEW p, Summed(p, o, Len(b)), ~(p > Len(data)), NEW bytes, Between(bytes, data, o, p)
  PROVE  bytes = b
<1> DEFINE n == Len(b)
<1>1. n \in Nat /\ Len(data) \in Nat /\ p = o + n /\ bytes = SubSeq(data, o + 1, o + n)
  BY LenProperties DEF Summed, Between
<1>2. ~(o + n > Len(data))
  BY <1>1
<1>3. /\ bytes \in Seq(Byte) /\ Len(bytes) = n
      /\ \A i \in 1..n : bytes[i] = data[o + i]
  BY <1>1, <1>2, SubBytes
<1>4. \A i \in 1..n : bytes[i] = b[i]
  <2> TAKE i \in 1..n
  <2>1. o + i <= Len(data)
    BY <1>1, <1>2
  <2>2. data[o + i] = b[i]
    BY <2>1 DEF Agrees
  <2>3. QED
    BY <1>3, <2>2
<1>5. QED
  BY <1>3, <1>4, SeqEqual

LEMMA AgreesConcat ==
  ASSUME NEW data \in Seq(Byte), NEW o \in Nat, NEW a \in Seq(Byte), NEW b \in Seq(Byte),
         Agrees(data, o, a \o b)
  PROVE  Agrees(data, o, a) /\ Agrees(data, o + Len(a), b)
<1> DEFINE c == a \o b
           m == Len(a)
           n == Len(b)
<1>1. /\ m \in Nat /\ n \in Nat /\ Len(c) = m + n
      /\ \A j \in 1..m : c[j] = a[j]
      /\ \A j \in 1..n : c[m + j] = b[j]
  BY JoinedProperties, LenProperties
<1>2. \A j \in 1..Len(c) : o + j <= Len(data) => data[o + j] = c[j]
  BY DEF Agrees
<1>3. Len(data) \in Nat
  BY LenProperties
<1> HIDE DEF c, m, n
<1>4. ASSUME NEW j \in 1..m, o + j <= Len(data)
      PROVE  data[o + j] = a[j]
  <2>1. j \in 1..Len(c)
    BY <1>1
  <2>2. QED
    BY <1>1, <1>2, <1>4, <2>1
<1>5. ASSUME NEW j \in 1..n, (o + m) + j <= Len(data)
      PROVE  data[(o + m) + j] = b[j]
  <2>1. m + j \in 1..Len(c) /\ o + (m + j) = (o + m) + j
    BY <1>1
  <2>2. data[o + (m + j)] = c[m + j]
    BY <1>2, <1>5, <2>1
  <2>3. QED
    BY <1>1, <2>1, <2>2
<1>6. QED
  BY <1>4, <1>5 DEF Agrees, m, n

Plain1 == {f \in Fields : Countable(f) /\ f.t \notin {"rest", "tail"}}

SaidOf(f) == IF f.t \in {"num", "str", "data", "raw"} THEN <<f.v>> ELSE << >>

(* What reading f from o on comes to, b being its bytes. *)
FieldRead(q, f, o, v, data, b, p) ==
  /\ p <= Len(data) => q = Rd(p, << >>, v \o SaidOf(f), "ok")
  /\ p > Len(data) => /\ q.out \in {"refused", "past"}
                      /\ Compared(f) => q.out = "refused"

LEMMA SizedAgrees ==
  ASSUME NEW f \in Fields, Countable(f), f.t \in {"num", "raw", "skip"},
         NEW o \in Nat, NEW v \in Vals, NEW data \in Seq(Byte), o <= Len(data),
         NEW b, b = BytesOf(f), Agrees(data, o, b), NEW p, Summed(p, o, Len(b))
  PROVE  FieldRead(Taking(Rd(o, << >>, v, "ok"), Unpacking(f), data), f, o, v, data, b, p)
<1> DEFINE q == Taking(Rd(o, << >>, v, "ok"), Unpacking(f), data)
           bytes == SubSeq(data, o + 1, p)
           m == Number(bytes)
<1>1. /\ f.w \in Nat /\ Len(data) \in Nat /\ Len(b) = f.w /\ b \in Seq(Byte)
      /\ f.t = "num" => /\ f.v = <<f.v[1]>> /\ f.v[1] \in Nat /\ f.w \in Widths
                        /\ b = Digits(f.v[1], f.w) /\ f.v[1] < Values[f.w]
      /\ f.t = "raw" => b = f.v
  <2>1. /\ f.w \in Nat /\ f.v \in Seq(Nat)
        /\ f.t = "num" => f.w \in Widths /\ Len(f.v) = 1 /\ f.v[1] \in Nat
        /\ f.t \in {"raw", "skip", "tail"} => f.w = Len(f.v) /\ f.w > 0
    BY FieldParts
  <2>2. /\ b \in Seq(Byte)
        /\ f.t = "num" => b = Digits(f.v[1], f.w)
        /\ f.t \in {"raw", "lit", "skip", "rest", "tail"} => b = f.v
    BY FieldBytes
  <2>3. f.t = "num" => f.v[1] < Values[f.w]
    BY DEF Countable
  <2>4. CASE f.t = "num"
    <3>1. f.w \in Widths /\ Len(f.v) = 1 /\ f.v[1] \in Nat /\ b = Digits(f.v[1], f.w)
      BY <2>1, <2>2, <2>4
    <3>2. Len(b) = f.w
      BY <3>1, DigitsType
    <3>3. f.v = <<f.v[1]>>
      BY <2>1, <3>1
    <3>4. QED
      BY <2>1, <2>2, <2>3, <2>4, <3>1, <3>2, <3>3, LenProperties
  <2>5. CASE f.t \in {"raw", "skip"}
    <3>1. b = f.v /\ f.w = Len(f.v)
      BY <2>1, <2>2, <2>5
    <3>2. QED
      BY <2>1, <2>2, <2>5, <3>1, LenProperties
  <2>6. QED
    BY <2>4, <2>5
<1>2. Summed(p, o, f.w) /\ Between(bytes, data, o, p) /\ p = o + f.w
  BY <1>1 DEF Summed, Between
<1> HIDE DEF q, bytes, m
<1>3. SizedTaken(q, f, o, v, data, p, bytes, m)
  BY <1>2, TakesSized DEF q, m
<1>4. CASE p > Len(data)
  <2>1. q.out = CutOut(f)
    BY <1>3, <1>4, ReaderParts DEF SizedTaken
  <2>2. /\ CutOut(f) \in {"refused", "past"}
        /\ Compared(f) => CutOut(f) = "refused"
    BY DEF CutOut, Compared
  <2>3. ~(p <= Len(data))
    BY <1>1, <1>2, <1>4
  <2>4. QED
    BY <1>4, <2>1, <2>2, <2>3 DEF FieldRead, q
<1>5. CASE ~(p > Len(data))
  <2>1. bytes = b
    BY <1>1, <1>2, <1>5, SliceAgrees
  <2>2. f.t = "num" => <<m>> = f.v
    <3>1. ASSUME f.t = "num" PROVE m = f.v[1]
      BY <1>1, <2>1, <3>1, NumberOfDigits DEF m
    <3>2. QED
      BY <1>1, <3>1
  <2>3. f.t = "raw" => bytes = f.v
    BY <1>1, <2>1
  <2>4. q = Rd(p, << >>, v \o SaidOf(f), "ok")
    <3>1. CASE f.t = "num"
      BY <1>3, <1>5, <2>2, <3>1 DEF SaidOf, SizedTaken
    <3>2. CASE f.t = "raw"
      BY <1>3, <1>5, <2>3, <3>2 DEF SaidOf, SizedTaken
    <3>3. CASE f.t = "skip"
      BY <1>3, <1>5, <3>3 DEF SaidOf, SizedTaken
    <3>4. QED
      BY <3>1, <3>2, <3>3
  <2>5. QED
    BY <1>5, <2>4 DEF FieldRead, q
<1>6. QED
  BY <1>4, <1>5

LEMMA ByteAgrees ==
  ASSUME NEW f \in Fields, f.t \in {"zero", "lit"},
         NEW o \in Nat, NEW v \in Vals, NEW data \in Seq(Byte), o <= Len(data),
         NEW b, b = BytesOf(f), Agrees(data, o, b), NEW p, Summed(p, o, Len(b))
  PROVE  FieldRead(Taking(Rd(o, << >>, v, "ok"), Unpacking(f), data), f, o, v, data, b, p)
<1> DEFINE q == Taking(Rd(o, << >>, v, "ok"), Unpacking(f), data)
           e == IF f.t = "zero" THEN 0 ELSE f.v[1]
<1>1. Len(b) = 1 /\ b[1] = e
  <2>1. /\ f.t = "zero" => b = << 0 >>
        /\ f.t \in {"raw", "lit", "skip", "rest", "tail"} => b = f.v
    BY FieldBytes
  <2>2. f.t = "lit" => Len(f.v) = 1
    BY FieldParts
  <2>3. QED
    BY <2>1, <2>2
<1>2. p = o + 1 /\ Len(data) \in Nat
  BY <1>1, LenProperties DEF Summed
<1>3. q = ByteRead(o, << >>, v, data, e)
  BY TakesByte
<1> HIDE DEF q, e
<1>4. CASE p > Len(data)
  <2>1. o >= Len(data)
    BY <1>2, <1>4
  <2>2. q = Rd(o, << >>, v, "past")
    BY <1>3, <2>1 DEF ByteRead
  <2>3. q.out = "past"
    BY <2>2, ReaderParts
  <2>4. ~Compared(f)
    BY DEF Compared
  <2>5. ~(p <= Len(data))
    BY <1>2, <1>4
  <2>6. QED
    BY <1>4, <2>3, <2>4, <2>5 DEF FieldRead, q
<1>5. CASE ~(p > Len(data))
  <2>1. ~(o >= Len(data)) /\ o + 1 <= Len(data) /\ 1 \in 1..Len(b)
    BY <1>1, <1>2, <1>5
  <2>2. data[o + 1] = e
    BY <1>1, <2>1 DEF Agrees
  <2>3. q = Rd(o + 1, << >>, v \o << >>, "ok")
    BY <1>3, <2>1, <2>2 DEF ByteRead
  <2>4. SaidOf(f) = << >>
    BY DEF SaidOf
  <2>5. QED
    BY <1>2, <1>5, <2>3, <2>4 DEF FieldRead, q
<1>6. QED
  BY <1>4, <1>5

LEMMA CountedAgrees ==
  ASSUME NEW f \in Fields, Countable(f), f.t \in {"str", "data"},
         NEW o \in Nat, NEW v \in Vals, NEW data \in Seq(Byte), o <= Len(data),
         NEW b, b = BytesOf(f), Agrees(data, o, b), NEW p, Summed(p, o, Len(b))
  PROVE  FieldRead(Taking(Rd(o, << >>, v, "ok"), Unpacking(f), data), f, o, v, data, b, p)
<1> DEFINE q == Taking(Rd(o, << >>, v, "ok"), Unpacking(f), data)
           w == f.w
           n == Len(f.v)
           d == Digits(n, w)
           s == f.v
           u == o + w
           count == SubSeq(data, o + 1, u)
           k == Number(count)
           e == u + k
           bytes == SubSeq(data, u + 1, e)
<1>1. /\ w \in Widths /\ w \in Nat /\ n \in Nat /\ s \in Seq(Byte) /\ n = Len(s)
      /\ Len(data) \in Nat
  <2>1. w \in Widths /\ w \in Nat /\ s \in Seq(Byte) /\ n \in Nat
    BY FieldParts
  <2>2. QED
    BY <2>1, LenProperties
<1>2. b = d \o s /\ d \in Seq(Byte) /\ Len(d) = w /\ Len(b) = w + n
  <2>1. /\ f.t = "str" => b = Digits(Len(f.v), f.w) \o CutAtZero(f.v)
        /\ f.t = "data" => b = Digits(Len(f.v), f.w) \o f.v
    BY FieldBytes
  <2>2. f.t = "str" => CutAtZero(f.v) = f.v
    BY DEF Countable, CutAtZero
  <2>3. b = d \o s
    BY <2>1, <2>2
  <2>4. d \in Seq(Byte) /\ Len(d) = w
    BY <1>1, DigitsType
  <2> HIDE DEF d, s
  <2>5. Len(d \o s) = Len(d) + Len(s)
    BY <1>1, <2>4, JoinedProperties
  <2>6. QED
    BY <1>1, <2>3, <2>4, <2>5
<1>3. n < Values[w] /\ (f.t = "str" => n > 0)
  <2>1. CASE f.t = "str"
    <3>1. n \in 1..(Values[w] - 1)
      BY <2>1 DEF Countable
    <3>2. Values[w] \in Nat
      BY <1>1, WidthsAre
    <3>3. QED
      BY <3>1, <3>2
  <2>2. CASE f.t = "data"
    BY <2>2 DEF Countable
  <2>3. QED
    BY <2>1, <2>2
<1>4. /\ Summed(u, o, f.w) /\ Between(count, data, o, u) /\ k = Number(count)
      /\ Summed(e, u, k) /\ Between(bytes, data, u, e)
  BY DEF Summed, Between
<1>5. CountedTaken(q, f, o, v, data, u, k, e, bytes)
  <2>1. q = Taking(Rd(o, << >>, v, "ok"), Unpacking(f), data)
    OBVIOUS
  <2> HIDE DEF q, u, count, k, e, bytes
  <2>2. QED
    BY <1>4, <2>1, TakesCounted
<1>6. p = u + n /\ u = o + w
  <2>1. p = o + Len(b)
    BY DEF Summed
  <2>2. QED
    BY <1>1, <1>2, <2>1
<1>7. Agrees(data, o, d) /\ Agrees(data, u, s)
  <2> HIDE DEF d, s
  <2>1. Agrees(data, o, d \o s)
    BY <1>2
  <2>2. Agrees(data, o, d) /\ Agrees(data, o + Len(d), s)
    BY <1>1, <1>2, <2>1, AgreesConcat
  <2>3. QED
    BY <1>2, <2>2
<1>8. SaidOf(f) = <<s>>
  BY DEF SaidOf
<1>9. /\ u > Len(data) => q = Rd(o, << >>, v, "refused")
      /\ ~(u > Len(data)) =>
           /\ e > Len(data) => q = Rd(u, <<k>>, v, "refused")
           /\ ~(e > Len(data)) /\ (k > 0 \/ f.t = "data") => q = Rd(e, << >>, v \o <<bytes>>, "ok")
  BY <1>5, Zenon DEF CountedTaken
<1> HIDE DEF q, w, n, d, s, count, k, e, bytes, u
<1>10. CASE u > Len(data)
  <2>1. q.out = "refused"
    BY <1>9, <1>10, ReaderParts
  <2>2. ~(p <= Len(data)) /\ p > Len(data)
    BY <1>1, <1>6, <1>10
  <2>3. QED
    BY <2>1, <2>2 DEF FieldRead, q
<1>11. CASE ~(u > Len(data))
  <2>1. count = d
    <3>1. Summed(u, o, Len(d))
      BY <1>2, <1>6 DEF Summed
    <3>2. QED
      BY <1>2, <1>4, <1>7, <1>11, <3>1, SliceAgrees
  <2>2. k = n
    <3>1. Number(d) = n
      BY <1>1, <1>3, NumberOfDigits DEF d
    <3>2. QED
      BY <1>4, <2>1, <3>1
  <2>3. e = p /\ u \in Nat
    BY <1>1, <1>4, <1>6, <2>2 DEF Summed
  <2>4. CASE e > Len(data)
    <3>1. q.out = "refused"
      BY <1>9, <1>11, <2>4, ReaderParts
    <3>2. ~(p <= Len(data)) /\ p > Len(data)
      BY <1>1, <1>6, <2>3, <2>4
    <3>3. QED
      BY <3>1, <3>2 DEF FieldRead, q
  <2>5. CASE ~(e > Len(data))
    <3>1. bytes = s
      <4>1. Summed(e, u, Len(s))
        BY <1>1, <2>2, <1>4 DEF Summed
      <4>2. QED
        BY <1>1, <1>4, <1>7, <2>3, <2>5, <4>1, SliceAgrees
    <3>2. k > 0 \/ f.t = "data"
      BY <1>1, <1>3, <2>2
    <3>3. q = Rd(e, << >>, v \o <<bytes>>, "ok")
      BY <1>9, <1>11, <2>5, <3>2
    <3>4. q = Rd(p, << >>, v \o SaidOf(f), "ok")
      BY <1>8, <2>3, <3>1, <3>3
    <3>5. ~(p > Len(data))
      BY <2>3, <2>5
    <3>6. QED
      BY <3>4, <3>5 DEF FieldRead, q
  <2>6. QED
    BY <2>4, <2>5
<1>12. QED
  BY <1>10, <1>11

LEMMA FieldAgrees ==
  ASSUME NEW f \in Plain1, NEW o \in Nat, NEW v \in Vals, NEW data \in Seq(Byte),
         o <= Len(data), NEW b, b = BytesOf(f), Agrees(data, o, b), NEW p, Summed(p, o, Len(b))
  PROVE  FieldRead(Taking(Rd(o, << >>, v, "ok"), Unpacking(f), data), f, o, v, data, b, p)
<1>1. f \in Fields /\ Countable(f) /\ f.t \notin {"rest", "tail"}
  BY DEF Plain1
<1>2. f.t \in Types
  BY <1>1, FieldParts
<1>3. CASE f.t \in {"num", "raw", "skip"}
  BY <1>1, <1>3, SizedAgrees
<1>4. CASE f.t \in {"zero", "lit"}
  BY <1>1, <1>4, ByteAgrees
<1>5. CASE f.t \in {"str", "data"}
  BY <1>1, <1>5, CountedAgrees
<1>6. QED
  BY <1>1, <1>2, <1>3, <1>4, <1>5 DEF Types

-----------------------------------------------------------------------------
(* What is packed is read back                                             *)

SaidList(fields) == [i \in DOMAIN fields |-> SaidOf(fields[i])]

LEMMA SaidIs ==
  ASSUME NEW fields
  PROVE  Said(fields) = FlattenSeq(SaidList(fields))
BY DEF Said, SaidList, SaidOf, Flat

LEMMA SaidListType ==
  ASSUME NEW fields \in Seq(Fields)
  PROVE  /\ SaidList(fields) \in Seq(Vals) /\ Len(SaidList(fields)) = Len(fields)
         /\ \A i \in 1..Len(fields) : SaidList(fields)[i] = SaidOf(fields[i])
<1>1. PICK n \in Nat : n = Len(fields) /\ DOMAIN fields = 1..n
  BY LenProperties
<1>2. ASSUME NEW i \in 1..n
      PROVE  SaidOf(fields[i]) \in Vals
  <2>1. fields[i] \in Fields
    BY <1>1, ElementOfSeq
  <2> DEFINE S == Seq(Nat)
             x == fields[i].v
  <2>2. x \in S
    BY <2>1, FieldParts
  <2> HIDE DEF S, x
  <2>3. <<x>> \in Seq(S) /\ << >> \in Seq(S)
    BY <2>2, EmptySeq
  <2>4. QED
    BY <2>3 DEF SaidOf, Vals, S, x
<1>3. SaidList(fields) = [i \in 1..n |-> SaidOf(fields[i])]
  BY <1>1 DEF SaidList
<1> DEFINE p == SaidList(fields)
<1>4. p \in [1..n -> Vals]
  BY <1>2, <1>3
<1>5. p \in Seq(Vals) /\ Len(p) = n
  <2> HIDE DEF p
  <2>1. QED
    BY <1>4, IsASeq
<1>6. QED
  BY <1>1, <1>3, <1>5

LEMMA SaidType ==
  ASSUME NEW fields \in Seq(Fields)
  PROVE  Said(fields) \in Vals
<1>1. SaidList(fields) \in Seq(Seq(Seq(Nat)))
  BY SaidListType DEF Vals
<1>2. FlattenSeq(SaidList(fields)) \in Seq(Seq(Nat))
  BY <1>1, FlattenType
<1>3. QED
  BY <1>2, SaidIs DEF Vals

LEMMA SaidNone == Said(<< >>) = << >>
<1>1. << >> \in Seq(Fields) /\ Len(<< >>) = 0
  BY EmptySeq
<1>2. SaidList(<< >>) \in Seq(Vals) /\ Len(SaidList(<< >>)) = 0
  BY <1>1, SaidListType
<1>3. SaidList(<< >>) = << >>
  BY <1>2, EmptySeq
<1>4. QED
  BY <1>3, SaidIs, FlattenEmpty

LEMMA SaidAppend ==
  ASSUME NEW fields \in Seq(Fields), NEW f \in Fields
  PROVE  Said(Append(fields, f)) = Said(fields) \o SaidOf(f)
<1> DEFINE more == Append(fields, f)
           a == SaidList(fields)
           b == SaidList(more)
           n == Len(fields)
           new == SaidOf(f)
           S == Seq(Nat)
<1>1. /\ more \in Seq(Fields) /\ Len(more) = n + 1
      /\ \A i \in 1..n : more[i] = fields[i]
      /\ more[n + 1] = f /\ n \in Nat
  BY AppendProperties, LenProperties
<1> HIDE DEF more
<1>2. /\ a \in Seq(Vals) /\ Len(a) = n
      /\ \A i \in 1..n : a[i] = SaidOf(fields[i])
  BY SaidListType
<1>3. /\ b \in Seq(Vals) /\ Len(b) = n + 1
      /\ \A i \in 1..(n + 1) : b[i] = SaidOf(more[i])
  BY <1>1, SaidListType
<1>4. \A i \in 1..n : b[i] = a[i]
  <2> TAKE i \in 1..n
  <2>1. i \in 1..(n + 1) /\ more[i] = fields[i]
    BY <1>1
  <2>2. a[i] = SaidOf(fields[i]) /\ b[i] = SaidOf(more[i])
    BY <1>2, <1>3, <2>1
  <2>3. QED
    BY <2>1, <2>2
<1>5. b[n + 1] = new
  <2>1. n + 1 \in 1..(n + 1)
    BY <1>1
  <2>2. b[n + 1] = SaidOf(more[n + 1])
    BY <1>3, <2>1
  <2>3. QED
    BY <1>1, <2>2
<1>6. new \in Seq(S)
  <2>1. n + 1 \in 1..(n + 1)
    BY <1>1
  <2>2. b[n + 1] \in Vals
    BY <1>3, <2>1, ElementOfSeq
  <2>3. QED
    BY <1>5, <2>2 DEF Vals
<1>7. ListOfLists(a, S) /\ ListOfLists(b, S)
  BY <1>2, <1>3 DEF ListOfLists, Vals
<1>7a. n \in Nat /\ Len(a) = n /\ Len(b) = n + 1
  BY <1>1, <1>2, <1>3
<1> HIDE DEF a, b, new, S, n
<1>8. FlattenSeq(b) = FlattenSeq(a) \o new
  <2>1. Lengthened(b, a, n, new)
    BY <1>4, <1>5, <1>7a DEF Lengthened
  <2>2. QED
    BY <1>6, <1>7, <2>1, FlattenLengthened
<1>9. QED
  BY <1>8, SaidIs DEF a, b, new, more

CodecRead(u, fields, data) ==
  /\ Len(Packed(fields)) <= Len(data) =>
       u = Rd(Len(Packed(fields)), << >>, Said(fields), "ok")
  /\ Len(Packed(fields)) > Len(data) =>
       /\ u.out \in {"refused", "past"}
       /\ (\A i \in 1..Len(fields) : Compared(fields[i])) => u.out = "refused"

LEMMA PlainAreFields == \A s \in Seq(Plain1) : s \in Seq(Fields)
<1>1. Plain1 \subseteq Fields
  BY DEF Plain1
<1>2. QED
  BY <1>1, SeqMonotonic

LEMMA UnpackPackedStep ==
  ASSUME NEW fields \in Seq(Plain1), NEW f \in Plain1, NEW data \in Seq(Byte),
         Agrees(data, 0, Packed(Append(fields, f))),
         Agrees(data, 0, Packed(fields)) => CodecRead(Unpack(data, fields), fields, data)
  PROVE  CodecRead(Unpack(data, Append(fields, f)), Append(fields, f), data)
<1> DEFINE more == Append(fields, f)
           a == Packed(fields)
           b == BytesOf(f)
           m == Len(a)
           p == m + Len(b)
           u == Unpack(data, fields)
           v == Unpack(data, more)
           ds == Unpacking(f)
           said == Said(fields)
<1>1. fields \in Seq(Fields) /\ f \in Fields /\ more \in Seq(Fields)
  BY PlainAreFields, AppendProperties DEF Plain1
<1>2. /\ Len(more) = Len(fields) + 1 /\ Len(fields) \in Nat
      /\ \A i \in 1..Len(fields) : more[i] = fields[i]
      /\ more[Len(fields) + 1] = f
  BY <1>1, AppendProperties, LenProperties
<1>3. a \in Seq(Byte) /\ b \in Seq(Byte) /\ said \in Vals
  BY <1>1, PackedType, FieldBytes, SaidType
<1>4. Packed(more) = a \o b
  BY <1>1, PackedAppend
<1>5. Said(more) = said \o SaidOf(f)
  BY <1>1, SaidAppend
<1>6. v = Taking(u, ds, data)
  BY <1>1, UnpackAppend
<1>7. m \in Nat /\ Len(b) \in Nat /\ Len(data) \in Nat /\ p \in Nat
  BY <1>3, LenProperties
<1>8. Len(Packed(more)) = p
  BY <1>3, <1>4, JoinedProperties
<1>9. Agrees(data, 0, a) /\ Agrees(data, m, b)
  <2>1. Agrees(data, 0, a \o b)
    BY <1>4
  <2> HIDE DEF a, b
  <2>2. Agrees(data, 0, a) /\ Agrees(data, 0 + Len(a), b)
    BY <1>3, <2>1, AgreesConcat
  <2>3. 0 + Len(a) = m
    BY <1>7
  <2>4. QED
    BY <2>2, <2>3
<1>10. CodecRead(u, fields, data)
  BY <1>9
<1>11. /\ m <= Len(data) => u = Rd(m, << >>, said, "ok")
       /\ m > Len(data) =>
            /\ u.out \in {"refused", "past"}
            /\ (\A i \in 1..Len(fields) : Compared(fields[i])) => u.out = "refused"
  BY <1>10, Zenon DEF CodecRead
<1>12. Summed(p, m, Len(b)) /\ b = BytesOf(f)
  BY DEF Summed
<1> HIDE DEF more, a, b, m, p, u, v, ds, said
<1>13. CASE m <= Len(data)
  <2>1. u = Rd(m, << >>, said, "ok")
    BY <1>11, <1>13
  <2>2. FieldRead(v, f, m, said, data, b, p)
    <3>1. FieldRead(Taking(Rd(m, << >>, said, "ok"), Unpacking(f), data), f, m, said, data, b, p)
      BY <1>3, <1>7, <1>9, <1>12, <1>13, FieldAgrees
    <3>2. QED
      BY <1>6, <2>1, <3>1 DEF ds
  <2>3. p <= Len(data) => v = Rd(p, << >>, said \o SaidOf(f), "ok")
    BY <2>2 DEF FieldRead
  <2>4. p > Len(data) => v.out \in {"refused", "past"} /\ (Compared(f) => v.out = "refused")
    BY <2>2 DEF FieldRead
  <2>5. (\A i \in 1..Len(more) : Compared(more[i])) => Compared(f)
    <3>1. Len(fields) + 1 \in 1..Len(more)
      BY <1>2
    <3>2. QED
      BY <1>2, <3>1
  <2>6. CodecRead(v, more, data)
    BY <1>5, <1>8, <2>3, <2>4, <2>5 DEF CodecRead
  <2>7. QED
    BY <2>6 DEF v, more
<1>14. CASE m > Len(data)
  <2>1. u.out \in {"refused", "past"} /\ u.out # "ok"
    BY <1>11, <1>14
  <2>2. v = u
    BY <1>6, <2>1, TakingStopped
  <2>3. p > Len(data) /\ ~(p <= Len(data))
    BY <1>7, <1>14 DEF p
  <2>4. (\A i \in 1..Len(more) : Compared(more[i])) => \A i \in 1..Len(fields) : Compared(fields[i])
    <3>1. \A i \in 1..Len(fields) : i \in 1..Len(more)
      BY <1>2
    <3>2. QED
      BY <1>2, <3>1
  <2>5. (\A i \in 1..Len(fields) : Compared(fields[i])) => u.out = "refused"
    BY <1>11, <1>14
  <2>6. CodecRead(v, more, data)
    BY <1>8, <2>1, <2>2, <2>3, <2>4, <2>5 DEF CodecRead
  <2>7. QED
    BY <2>6 DEF v, more
<1>15. QED
  BY <1>7, <1>13, <1>14

LEMMA UnpackPacked ==
  ASSUME NEW fields \in Seq(Plain1), NEW data \in Seq(Byte), Agrees(data, 0, Packed(fields))
  PROVE  CodecRead(Unpack(data, fields), fields, data)
<1> DEFINE Right(s) == \A x \in Seq(Byte) : Agrees(x, 0, Packed(s)) => CodecRead(Unpack(x, s), s, x)
           T == {s \in Seq(Plain1) : Right(s)}
<1>1. << >> \in T
  <2>1. ASSUME NEW x \in Seq(Byte)
        PROVE  CodecRead(Unpack(x, << >>), << >>, x)
    <3> DEFINE none == << >>
    <3>1. Packed(none) = none /\ Said(none) = none /\ Unpack(x, none) = Rd(0, none, none, "ok")
      BY PackedNone, SaidNone, UnpackNone, ReaderIs
    <3>2. Len(none) = 0 /\ Len(x) \in Nat
      BY LenProperties
    <3>3. 0 <= Len(x) /\ ~(0 > Len(x))
      BY <3>2
    <3> HIDE DEF none
    <3>4. CodecRead(Unpack(x, none), none, x)
      BY <3>1, <3>2, <3>3 DEF CodecRead, none
    <3>5. QED
      BY <3>4 DEF none
  <2>2. QED
    BY <2>1, EmptySeq
<1>2. ASSUME NEW s \in Seq(Plain1), NEW e \in Plain1, s \in T
      PROVE  Append(s, e) \in T
  <2>1. ASSUME NEW x \in Seq(Byte), Agrees(x, 0, Packed(Append(s, e)))
        PROVE  CodecRead(Unpack(x, Append(s, e)), Append(s, e), x)
    <3>1. Agrees(x, 0, Packed(s)) => CodecRead(Unpack(x, s), s, x)
      BY <1>2
    <3>2. QED
      BY <2>1, <3>1, UnpackPackedStep
  <2>2. QED
    BY <2>1, AppendProperties
<1>3. Seq(Plain1) \subseteq T
  <2> HIDE DEF T
  <2>1. QED
    BY <1>1, <1>2, SequenceInduction
<1>4. QED
  BY <1>3

-----------------------------------------------------------------------------
(* What reading stores, whatever the bytes are                             *)

Ended(q) == q.out \in {"refused", "past"}

(* A reader that stands within the data. *)
Running(q, o, v, data) ==
  /\ o \in Nat /\ o <= Len(data) /\ v \in Vals
  /\ q = Rd(o, << >>, v, "ok")

Stored(q, f, v, data) ==
  \/ Ended(q)
  \/ \E o, x : /\ Running(q, o, v \o x, data)
               /\ f.t = "data" => \E s \in Seq(Byte) : x = <<s>>

LEMMA EndedIs ==
  ASSUME NEW o, NEW s, NEW v
  PROVE  Ended(Rd(o, s, v, "refused")) /\ Ended(Rd(o, s, v, "past"))
BY ReaderParts DEF Ended

LEMMA ValueType ==
  ASSUME NEW v \in Vals
  PROVE  /\ \A x \in Seq(Nat) : v \o <<x>> \in Vals
         /\ \A x \in Seq(Byte) : v \o <<x>> \in Vals
         /\ v \o << >> \in Vals
<1> DEFINE S == Seq(Nat)
<1>1. v \in Seq(S)
  BY DEF Vals
<1>2. \A x \in Seq(Byte) : x \in S
  BY BytesAreNumbers
<1> HIDE DEF S
<1>3. \A x \in S : v \o <<x>> \in Seq(S)
  <2> TAKE x \in S
  <2> DEFINE one == <<x>>
  <2>1. one \in Seq(S)
    OBVIOUS
  <2> HIDE DEF one
  <2>2. QED
    BY <1>1, <2>1, ConcatProperties DEF one
<1>4. v \o << >> \in Seq(S)
  <2> DEFINE none == << >>
  <2>1. none \in Seq(S)
    OBVIOUS
  <2> HIDE DEF none
  <2>2. QED
    BY <1>1, <2>1, ConcatProperties DEF none
<1>5. QED
  BY <1>2, <1>3, <1>4 DEF Vals, S

LEMMA StoredOne ==
  ASSUME NEW q, NEW f, NEW o, NEW v \in Vals, NEW data, NEW x \in Seq(Nat),
         o \in Nat, o <= Len(data), q = Rd(o, << >>, v \o <<x>>, "ok"),
         f.t = "data" => x \in Seq(Byte)
  PROVE  Stored(q, f, v, data)
<1>1. v \o <<x>> \in Vals
  BY ValueType
<1>2. Running(q, o, v \o <<x>>, data)
  BY <1>1 DEF Running
<1> DEFINE one == <<x>>
<1>3. f.t = "data" => \E s \in Seq(Byte) : one = <<s>>
  OBVIOUS
<1> HIDE DEF one
<1>4. Running(q, o, v \o one, data)
  BY <1>2 DEF one
<1>5. QED
  BY <1>3, <1>4 DEF Stored

LEMMA StoredNone ==
  ASSUME NEW q, NEW f, NEW o, NEW v \in Vals, NEW data, f.t # "data",
         o \in Nat, o <= Len(data), q = Rd(o, << >>, v \o << >>, "ok")
  PROVE  Stored(q, f, v, data)
<1>1. v \o << >> \in Vals
  BY ValueType
<1>2. Running(q, o, v \o << >>, data)
  BY <1>1 DEF Running
<1>3. QED
  BY <1>2 DEF Stored

LEMMA SizedStored ==
  ASSUME NEW f \in Fields, f.t \in {"num", "raw", "skip"},
         NEW o \in Nat, NEW v \in Vals, NEW data \in Seq(Byte), o <= Len(data)
  PROVE  Stored(Taking(Rd(o, << >>, v, "ok"), Unpacking(f), data), f, v, data)
<1> DEFINE q == Taking(Rd(o, << >>, v, "ok"), Unpacking(f), data)
           p == o + f.w
           bytes == SubSeq(data, o + 1, p)
           m == Number(bytes)
<1>1. f.w \in Nat /\ p \in Nat /\ Len(data) \in Nat
  BY FieldParts, LenProperties
<1>2. Summed(p, o, f.w) /\ Between(bytes, data, o, p)
  BY DEF Summed, Between
<1>3. ~(p > Len(data)) => bytes \in Seq(Byte)
  BY <1>1, SubBytes
<1>4. ~(p > Len(data)) => m \in Nat
  BY <1>3, NumberType
<1> HIDE DEF q, p, bytes, m
<1>5. SizedTaken(q, f, o, v, data, p, bytes, m)
  BY <1>2, TakesSized DEF q, m
<1>6. CASE p > Len(data)
  <2>1. q = Rd(o, << >>, v, CutOut(f))
    BY <1>5, <1>6 DEF SizedTaken
  <2>2. CutOut(f) \in {"refused", "past"}
    BY DEF CutOut
  <2>3. QED
    BY <2>1, <2>2, EndedIs DEF Stored, q
<1>7. CASE ~(p > Len(data))
  <2>0. p <= Len(data)
    BY <1>1, <1>7
  <2>1. CASE f.t = "num"
    <3>1. q = Rd(p, << >>, v \o <<<<m>>>>, "ok")
      BY <1>5, <1>7, <2>1 DEF SizedTaken
    <3>2. <<m>> \in Seq(Nat)
      BY <1>4, <1>7
    <3> DEFINE x == <<m>>
    <3>3. q = Rd(p, << >>, v \o <<x>>, "ok") /\ x \in Seq(Nat)
      BY <3>1, <3>2
    <3> HIDE DEF x
    <3>4. QED
      BY <1>1, <2>0, <2>1, <3>3, StoredOne DEF q
  <2>2. CASE f.t = "raw"
    <3>1. q = Rd(p, << >>, v \o <<bytes>>, "ok")
      BY <1>5, <1>7, <2>2 DEF SizedTaken
    <3>2. bytes \in Seq(Nat)
      BY <1>3, <1>7, BytesAreNumbers
    <3>3. QED
      BY <1>1, <2>0, <2>2, <3>1, <3>2, StoredOne DEF q
  <2>3. CASE f.t = "skip"
    <3>1. q = Rd(p, << >>, v \o << >>, "ok")
      BY <1>5, <1>7, <2>3 DEF SizedTaken
    <3>2. QED
      BY <1>1, <2>0, <2>3, <3>1, StoredNone DEF q
  <2>4. QED
    BY <2>1, <2>2, <2>3
<1>8. QED
  BY <1>6, <1>7

LEMMA ByteStored ==
  ASSUME NEW f \in Fields, f.t \in {"zero", "lit"},
         NEW o \in Nat, NEW v \in Vals, NEW data \in Seq(Byte), o <= Len(data)
  PROVE  Stored(Taking(Rd(o, << >>, v, "ok"), Unpacking(f), data), f, v, data)
<1> DEFINE q == Taking(Rd(o, << >>, v, "ok"), Unpacking(f), data)
           b == IF f.t = "zero" THEN 0 ELSE f.v[1]
<1>1. q = ByteRead(o, << >>, v, data, b)
  BY TakesByte
<1>2. Len(data) \in Nat
  BY LenProperties
<1> HIDE DEF q, b
<1>3. CASE o >= Len(data) \/ data[o + 1] # b
  <2>1. q = Rd(o, << >>, v, "past") \/ q = Rd(o, << >>, v, "refused")
    BY <1>1, <1>3 DEF ByteRead
  <2>2. QED
    BY <2>1, EndedIs DEF Stored, q
<1>4. CASE ~(o >= Len(data) \/ data[o + 1] # b)
  <2>1. q = Rd(o + 1, << >>, v \o << >>, "ok")
    BY <1>1, <1>4 DEF ByteRead
  <2>2. o + 1 \in Nat /\ o + 1 <= Len(data)
    BY <1>2, <1>4
  <2>3. QED
    BY <2>1, <2>2, StoredNone DEF q
<1>5. QED
  BY <1>3, <1>4

LEMMA StringStored ==
  ASSUME NEW f, f.t # "data", NEW o \in Nat, NEW v \in Vals, NEW data \in Seq(Byte),
         o <= Len(data)
  PROVE  Stored(StringRead(o, << >>, v, data), f, v, data)
<1> DEFINE q == StringRead(o, << >>, v, data)
           n == Len(data) - o
           rest == SubSeq(data, o + 1, Len(data))
           e == UpToZero(rest)
           s == SubSeq(rest, 1, e - 1)
<1>1. n \in Nat /\ Len(data) = o + n /\ Len(data) \in Nat
  BY LenProperties
<1>2. rest \in Seq(Byte) /\ Len(rest) = n
  <2>1. ~(o + n > Len(data))
    BY <1>1
  <2> DEFINE more == SubSeq(data, o + 1, o + n)
  <2>2. more \in Seq(Byte) /\ Len(more) = n
    <3> HIDE DEF n
    <3>1. QED
      BY <1>1, <2>1, SubBytes
  <2>3. more = rest
    BY <1>1
  <2> HIDE DEF more, rest, n
  <2>4. QED
    BY <2>2, <2>3
<1>3. e \in 0..n
  BY <1>2, FirstZero
<1>4. /\ e = 0 => q = Rd(o, << >>, v, "past")
      /\ e # 0 => q = Rd(o + e, << >>, v \o <<s>>, "ok")
  BY DEF StringRead
<1> HIDE DEF q, n, rest, e
<1>5. CASE e = 0
  BY <1>4, <1>5, EndedIs DEF Stored, q
<1>6. CASE e # 0
  <2>1. e - 1 \in 0..n /\ o + e \in Nat /\ o + e <= Len(data)
    BY <1>1, <1>3, <1>6
  <2>2. s \in Seq(Byte)
    BY <1>2, <2>1, PrefixProperties
  <2>3. s \in Seq(Nat)
    BY <2>2, BytesAreNumbers
  <2> HIDE DEF s
  <2>4. QED
    BY <1>4, <1>6, <2>1, <2>3, StoredOne DEF q
<1>7. QED
  BY <1>5, <1>6

LEMMA CountedStored ==
  ASSUME NEW f \in Fields, f.t \in {"str", "data"},
         NEW o \in Nat, NEW v \in Vals, NEW data \in Seq(Byte)
  PROVE  Stored(Taking(Rd(o, << >>, v, "ok"), Unpacking(f), data), f, v, data)
<1> DEFINE q == Taking(Rd(o, << >>, v, "ok"), Unpacking(f), data)
           p == o + f.w
           count == SubSeq(data, o + 1, p)
           k == Number(count)
           e == p + k
           bytes == SubSeq(data, p + 1, e)
<1>1. f.w \in Nat /\ p \in Nat /\ Len(data) \in Nat
  BY FieldParts, LenProperties
<1>2. /\ Summed(p, o, f.w) /\ Between(count, data, o, p) /\ k = Number(count)
      /\ Summed(e, p, k) /\ Between(bytes, data, p, e)
  BY DEF Summed, Between
<1>3. k \in Nat /\ ~(e > Len(data)) => bytes \in Seq(Byte)
  BY <1>1, SubBytes
<1>4. q = Taking(Rd(o, << >>, v, "ok"), Unpacking(f), data)
  OBVIOUS
<1> HIDE DEF q, p, count, k, e, bytes
<1>5. CountedTaken(q, f, o, v, data, p, k, e, bytes)
  BY <1>2, <1>4, TakesCounted
<1>6. CASE p > Len(data)
  <2>1. q = Rd(o, << >>, v, "refused")
    BY <1>5, <1>6 DEF CountedTaken
  <2>2. QED
    BY <2>1, EndedIs DEF Stored, q
<1>7. CASE ~(p > Len(data)) /\ e > Len(data)
  <2>1. q = Rd(p, <<k>>, v, "refused")
    BY <1>5, <1>7 DEF CountedTaken
  <2>2. QED
    BY <2>1, EndedIs DEF Stored, q
<1>8. CASE ~(p > Len(data)) /\ ~(e > Len(data))
  <2>1. /\ k \in Nat
        /\ k > 0 \/ f.t = "data" => q = Rd(e, << >>, v \o <<bytes>>, "ok")
        /\ k = 0 /\ f.t = "str" => q = StringRead(p, << >>, v, data)
    BY <1>5, <1>8 DEF CountedTaken
  <2>2. p <= Len(data)
    BY <1>1, <1>8
  <2>3. CASE k > 0 \/ f.t = "data"
    <3>1. e \in Nat /\ e <= Len(data)
      BY <1>1, <1>2, <1>8, <2>1 DEF Summed
    <3>2. bytes \in Seq(Byte) /\ bytes \in Seq(Nat)
      BY <1>3, <1>8, <2>1, BytesAreNumbers
    <3>3. q = Rd(e, << >>, v \o <<bytes>>, "ok")
      BY <2>1, <2>3
    <3>4. QED
      BY <3>1, <3>2, <3>3, StoredOne DEF q
  <2>4. CASE k = 0 /\ f.t = "str"
    <3>1. f.t # "data" /\ q = StringRead(p, << >>, v, data)
      BY <2>1, <2>4
    <3>2. QED
      BY <1>1, <2>2, <3>1, StringStored DEF q
  <2>5. QED
    BY <2>1, <2>3, <2>4
<1>9. QED
  BY <1>6, <1>7, <1>8

LEMMA FieldStored ==
  ASSUME NEW f \in Fields, NEW o \in Nat, NEW v \in Vals, NEW data \in Seq(Byte),
         o <= Len(data)
  PROVE  Stored(Taking(Rd(o, << >>, v, "ok"), Unpacking(f), data), f, v, data)
<1>1. f.t \in Types
  BY FieldParts
<1>2. CASE f.t \in {"num", "raw", "skip"}
  BY <1>2, SizedStored
<1>3. CASE f.t \in {"zero", "lit"}
  BY <1>3, ByteStored
<1>4. CASE f.t \in {"str", "data"}
  BY <1>4, CountedStored
<1>5. CASE f.t \in {"rest", "tail"}
  <2> DEFINE r == Rd(o, << >>, v, "ok")
             none == << >>
  <2>1. Unpacking(f) = none
    BY <1>5, UnpackingOf
  <2>2. Taking(r, none, data) = r
    <3> HIDE DEF r
    <3>1. QED
      BY TakingFew
  <2>3. v \o << >> = v
    BY ConcatEmptySeq DEF Vals
  <2>4. Taking(r, Unpacking(f), data) = Rd(o, << >>, v \o << >>, "ok")
    BY <2>1, <2>2, <2>3
  <2>5. QED
    BY <1>5, <2>4, StoredNone
<1>6. QED
  BY <1>1, <1>2, <1>3, <1>4, <1>5 DEF Types

(* One call of buf_unpack_data. *)
Gained(u, fields, data) ==
  \/ Ended(u)
  \/ \E o, v : /\ Running(u, o, v, data)
               /\ fields # << >> /\ Last(fields).t = "data" =>
                    v # << >> /\ Last(v) \in Seq(Byte)

LEMMA LastOfJoined ==
  ASSUME NEW S, NEW v \in Seq(S), NEW one \in Seq(S), Len(one) = 1
  PROVE  v \o one # << >> /\ Last(v \o one) = one[1]
<1>1. /\ v \o one \in Seq(S) /\ Len(v \o one) = Len(v) + Len(one)
      /\ \A j \in 1..Len(one) : (v \o one)[Len(v) + j] = one[j]
  BY JoinedProperties
<1>2. Len(v) \in Nat
  BY LenProperties
<1>3. 1 \in 1..Len(one)
  OBVIOUS
<1>4. Len(v \o one) = Len(v) + 1 /\ (v \o one)[Len(v) + 1] = one[1]
  BY <1>1, <1>3
<1>5. v \o one # << >>
  BY <1>2, <1>4
<1>6. QED
  BY <1>4, <1>5 DEF Last

LEMMA LastAdded ==
  ASSUME NEW v \in Vals, NEW s \in Seq(Nat)
  PROVE  v \o <<s>> # << >> /\ Last(v \o <<s>>) = s
<1> DEFINE S == Seq(Nat)
           one == <<s>>
<1>1. v \in Seq(S) /\ s \in S
  BY DEF Vals
<1> HIDE DEF S
<1>2. one \in Seq(S) /\ Len(one) = 1 /\ one[1] = s
  BY <1>1
<1> HIDE DEF one
<1>3. v \o one # << >> /\ Last(v \o one) = one[1]
  BY <1>1, <1>2, LastOfJoined
<1>4. QED
  BY <1>2, <1>3 DEF one

LEMMA GainedMore ==
  ASSUME NEW fields \in Seq(Fields), NEW f \in Fields, NEW data \in Seq(Byte),
         Gained(Unpack(data, fields), fields, data)
  PROVE  Gained(Unpack(data, Append(fields, f)), Append(fields, f), data)
<1> DEFINE u == Unpack(data, fields)
           more == Append(fields, f)
           w == Unpack(data, more)
<1>1. w = Taking(u, Unpacking(f), data)
  BY UnpackAppend
<1>2. Len(more) = Len(fields) + 1 /\ more[Len(fields) + 1] = f /\ Len(fields) \in Nat
  BY AppendProperties, LenProperties
<1>3. Last(more) = f
  BY <1>2 DEF Last
<1>4. Gained(u, fields, data)
  OBVIOUS
<1> HIDE DEF u, w, more
<1>5. CASE Ended(u)
  <2>1. u.out # "ok"
    BY <1>5 DEF Ended
  <2>2. w = u
    BY <1>1, <2>1, TakingStopped
  <2>3. QED
    BY <1>5, <2>2 DEF Gained, w, more
<1>6. ASSUME NEW o, NEW v, Running(u, o, v, data)
      PROVE  Gained(w, more, data)
  <2>1. o \in Nat /\ o <= Len(data) /\ v \in Vals /\ u = Rd(o, << >>, v, "ok")
    BY <1>6 DEF Running
  <2>2. Stored(w, f, v, data)
    <3>1. Stored(Taking(Rd(o, << >>, v, "ok"), Unpacking(f), data), f, v, data)
      BY <2>1, FieldStored
    <3>2. QED
      BY <1>1, <2>1, <3>1
  <2>3. CASE Ended(w)
    BY <2>3 DEF Gained
  <2>4. ASSUME NEW p, NEW x, Running(w, p, v \o x, data),
               f.t = "data" => \E s \in Seq(Byte) : x = <<s>>
        PROVE  Gained(w, more, data)
    <3> DEFINE y == v \o x
    <3>1. f.t = "data" => y # << >> /\ Last(y) \in Seq(Byte)
      <4>1. ASSUME NEW s \in Seq(Byte), x = <<s>>
            PROVE  y # << >> /\ Last(y) \in Seq(Byte)
        <5>1. v \in Vals /\ s \in Seq(Nat)
          BY <2>1, BytesAreNumbers
        <5>2. v \o <<s>> # << >> /\ Last(v \o <<s>>) = s
          BY <5>1, LastAdded
        <5>3. QED
          BY <4>1, <5>2
      <4>2. QED
        BY <2>4, <4>1
    <3>2. Running(w, p, y, data)
      BY <2>4
    <3> HIDE DEF y
    <3>3. more # << >> /\ Last(more).t = "data" => y # << >> /\ Last(y) \in Seq(Byte)
      BY <1>3, <3>1
    <3>4. QED
      BY <3>2, <3>3 DEF Gained
  <2>5. QED
    BY <2>2, <2>3, <2>4 DEF Stored
<1>7. Gained(w, more, data)
  BY <1>4, <1>5, <1>6 DEF Gained, w, more
<1>8. QED
  BY <1>7 DEF w, more

LEMMA UnpackGains ==
  ASSUME NEW fields \in Seq(Fields), NEW data \in Seq(Byte)
  PROVE  Gained(Unpack(data, fields), fields, data)
<1> DEFINE Right(s) == Gained(Unpack(data, s), s, data)
           T == {s \in Seq(Fields) : Right(s)}
<1>1. << >> \in T
  <2> DEFINE none == << >>
  <2>1. Unpack(data, none) = Rd(0, << >>, << >>, "ok")
    BY UnpackNone, ReaderIs
  <2>2. Len(data) \in Nat /\ 0 <= Len(data) /\ << >> \in Vals /\ 0 \in Nat
    BY LenProperties DEF Vals
  <2>3. Running(Unpack(data, none), 0, << >>, data)
    BY <2>1, <2>2 DEF Running
  <2>4. Gained(Unpack(data, none), none, data)
    BY <2>3 DEF Gained
  <2>5. QED
    BY <2>4, EmptySeq
<1>2. ASSUME NEW s \in Seq(Fields), NEW e \in Fields, s \in T
      PROVE  Append(s, e) \in T
  <2>1. Gained(Unpack(data, s), s, data)
    BY <1>2
  <2>2. Gained(Unpack(data, Append(s, e)), Append(s, e), data)
    BY <2>1, GainedMore
  <2>3. QED
    BY <2>2, AppendProperties
<1>3. Seq(Fields) \subseteq T
  <2> HIDE DEF T
  <2>1. QED
    BY <1>1, <1>2, SequenceInduction
<1>4. QED
  BY <1>3

-----------------------------------------------------------------------------
(* One group: fields, of which the caller may step over the last           *)

Bodies == {f \in Fields : f.t \notin {"rest", "tail"}}

Tails == {f \in Fields : f.t = "tail"}

Groups ==
  {g \in Seq(Fields) :
     \/ g \in Seq(Bodies)
     \/ \E s \in Seq(Bodies), f \in Tails : g = Append(s, f)}

GroupRead(u, g, data) ==
  /\ u.out = "ok" => u.vals = Said(g) /\ u.offs + SteppedOver(g) = Len(Packed(g))
  /\ Len(Packed(g)) <= Len(data) => u.out = "ok"
  /\ (\A i \in 1..Len(g) : Compared(g[i])) =>
       /\ u.out # "past"
       /\ u.out = "ok" => Len(Packed(g)) <= Len(data)

LEMMA BodiesAreFields == \A s \in Seq(Bodies) : s \in Seq(Fields)
<1>1. Bodies \subseteq Fields
  BY DEF Bodies
<1>2. QED
  BY <1>1, SeqMonotonic

LEMMA BodiesArePlain ==
  ASSUME NEW s \in Seq(Bodies), \A i \in 1..Len(s) : Countable(s[i])
  PROVE  s \in Seq(Plain1)
<1>1. PICK n \in Nat : n = Len(s) /\ DOMAIN s = 1..n /\ s \in [1..n -> Bodies]
  BY LenProperties, SeqDef
<1>2. \A i \in 1..n : s[i] \in Plain1
  BY <1>1 DEF Bodies, Plain1
<1>3. s \in [1..n -> Plain1]
  BY <1>1, <1>2
<1>4. QED
  BY <1>3, IsASeq

LEMMA LastBody ==
  ASSUME NEW s \in Seq(Bodies)
  PROVE  SteppedOver(s) = 0
<1>1. CASE s = << >>
  BY <1>1 DEF SteppedOver
<1>2. CASE s # << >>
  <2>1. Len(s) \in 1..Len(s)
    BY <1>2, EmptySeq, LenProperties
  <2>2. Last(s) \in Bodies
    BY <2>1, ElementOfSeq DEF Last
  <2>3. Last(s).t # "tail"
    BY <2>2 DEF Bodies
  <2>4. QED
    BY <2>3 DEF SteppedOver
<1>3. QED
  BY <1>1, <1>2

LEMMA ReadBodies ==
  ASSUME NEW s \in Seq(Bodies), \A i \in 1..Len(s) : Countable(s[i]),
         NEW data \in Seq(Byte), Agrees(data, 0, Packed(s))
  PROVE  GroupRead(Unpack(data, s), s, data)
<1> DEFINE u == Unpack(data, s)
           n == Len(Packed(s))
<1>1. s \in Seq(Plain1)
  BY BodiesArePlain
<1>2. CodecRead(u, s, data)
  BY <1>1, UnpackPacked
<1>3. n \in Nat /\ Len(data) \in Nat
  BY BodiesAreFields, PackedType, LenProperties
<1>4. /\ n <= Len(data) => u = Rd(n, << >>, Said(s), "ok")
      /\ n > Len(data) =>
           /\ u.out \in {"refused", "past"}
           /\ (\A i \in 1..Len(s) : Compared(s[i])) => u.out = "refused"
  BY <1>2, Zenon DEF CodecRead
<1>5. SteppedOver(s) = 0
  BY LastBody
<1> HIDE DEF u, n
<1>6. CASE n <= Len(data)
  <2>1. u.out = "ok" /\ u.vals = Said(s) /\ u.offs = n
    BY <1>4, <1>6, ReaderParts
  <2>2. u.offs + SteppedOver(s) = n
    BY <1>3, <1>5, <2>1
  <2>3. QED
    BY <1>6, <2>1, <2>2 DEF GroupRead, n, u
<1>7. CASE n > Len(data)
  <2>1. ~(n <= Len(data))
    BY <1>3, <1>7
  <2>2. u.out # "ok"
    BY <1>4, <1>7
  <2>3. (\A i \in 1..Len(s) : Compared(s[i])) => u.out # "past"
    BY <1>4, <1>7
  <2>4. QED
    BY <2>1, <2>2, <2>3 DEF GroupRead, n, u
<1>8. QED
  BY <1>3, <1>6, <1>7

(* The bytes of the last field stay unread behind those of the others. *)
LEMMA TailUnread ==
  ASSUME NEW s \in Seq(Bodies), NEW f \in Tails, NEW data
  PROVE  /\ Unpack(data, Append(s, f)) = Unpack(data, s)
         /\ Packed(Append(s, f)) = Packed(s) \o f.v
         /\ Len(Packed(Append(s, f))) = Len(Packed(s)) + f.w
         /\ Said(Append(s, f)) = Said(s)
         /\ SteppedOver(Append(s, f)) = f.w
         /\ ~Compared(f) /\ f.w \in Nat /\ Len(Packed(s)) \in Nat
         /\ f.v \in Seq(Byte) /\ f.w = Len(f.v)
<1> DEFINE g == Append(s, f)
           none == << >>
           u == Unpack(data, s)
<1>1. s \in Seq(Fields) /\ f \in Fields /\ f.t = "tail"
  BY BodiesAreFields DEF Tails
<1>2. /\ Len(g) = Len(s) + 1 /\ g[Len(s) + 1] = f /\ Len(s) \in Nat
  BY <1>1, AppendProperties, LenProperties
<1>3. f.v \in Seq(Byte) /\ f.w = Len(f.v) /\ f.w \in Nat
  BY <1>1, FieldParts
<1>4. BytesOf(f) = f.v
  BY <1>1, FieldBytes
<1>5. Packed(s) \in Seq(Byte) /\ Len(Packed(s)) \in Nat
  BY <1>1, PackedType, LenProperties
<1>6. Packed(g) = Packed(s) \o f.v
  BY <1>1, <1>4, PackedAppend
<1>7. Len(Packed(g)) = Len(Packed(s)) + f.w
  BY <1>3, <1>5, <1>6, JoinedProperties
<1>8. Said(g) = Said(s)
  <2>1. SaidOf(f) = none
    BY <1>1 DEF SaidOf
  <2>2. Said(g) = Said(s) \o SaidOf(f)
    BY <1>1, SaidAppend
  <2>3. Said(s) \in Vals
    BY <1>1, SaidType
  <2>4. Said(s) \o << >> = Said(s)
    BY <2>3, ConcatEmptySeq DEF Vals
  <2>5. QED
    BY <2>1, <2>2, <2>4
<1>9. Unpack(data, g) = u
  <2>1. Unpack(data, g) = Taking(u, Unpacking(f), data)
    BY <1>1, UnpackAppend
  <2>2. Unpacking(f) = none
    BY <1>1, UnpackingOf
  <2> HIDE DEF u
  <2>3. Taking(u, none, data) = u
    BY TakingFew
  <2>4. QED
    BY <2>1, <2>2, <2>3
<1>10. SteppedOver(g) = f.w
  <2>1. g # << >> /\ Last(g) = f
    BY <1>2 DEF Last
  <2> HIDE DEF g
  <2>2. QED
    BY <1>1, <2>1 DEF SteppedOver
<1>11. ~Compared(f)
  BY <1>1 DEF Compared
<1>12. QED
  BY <1>3, <1>5, <1>6, <1>7, <1>8, <1>9, <1>10, <1>11

LEMMA ReadGroup ==
  ASSUME NEW g \in Groups, \A i \in 1..Len(g) : Countable(g[i]),
         NEW data \in Seq(Byte), Agrees(data, 0, Packed(g))
  PROVE  GroupRead(Unpack(data, g), g, data)
<1>1. CASE g \in Seq(Bodies)
  BY <1>1, ReadBodies
<1>2. ASSUME NEW s \in Seq(Bodies), NEW f \in Tails, g = Append(s, f)
      PROVE  GroupRead(Unpack(data, g), g, data)
  <2> DEFINE u == Unpack(data, s)
             m == Len(Packed(s))
             n == Len(Packed(g))
  <2>1. /\ Unpack(data, g) = u
        /\ Packed(g) = Packed(s) \o f.v
        /\ n = m + f.w
        /\ Said(g) = Said(s)
        /\ SteppedOver(g) = f.w
        /\ ~Compared(f) /\ f.w \in Nat /\ m \in Nat
        /\ f.v \in Seq(Byte)
    BY <1>2, TailUnread
  <2>2. s \in Seq(Fields) /\ f \in Fields /\ Packed(s) \in Seq(Byte) /\ Len(data) \in Nat
    BY BodiesAreFields, PackedType, LenProperties DEF Tails
  <2>3. /\ Len(g) = Len(s) + 1 /\ Len(s) \in Nat /\ g[Len(s) + 1] = f
        /\ \A i \in 1..Len(s) : g[i] = s[i]
    BY <1>2, <2>2, AppendProperties, LenProperties
  <2>4. \A i \in 1..Len(s) : Countable(s[i])
    <3> TAKE i \in 1..Len(s)
    <3>1. i \in 1..Len(g)
      BY <2>3
    <3>2. QED
      BY <2>3, <3>1
  <2>5. Agrees(data, 0, Packed(s))
    <3> DEFINE a == Packed(s)
    <3> HIDE DEF a
    <3>1. Agrees(data, 0, a \o f.v)
      BY <2>1 DEF a
    <3>2. Agrees(data, 0, a)
      BY <2>1, <2>2, <3>1, AgreesConcat DEF a
    <3>3. QED
      BY <3>2 DEF a
  <2>6. GroupRead(u, s, data) /\ SteppedOver(s) = 0
    BY <2>4, <2>5, ReadBodies, LastBody
  <2> HIDE DEF u, m, n
  <2>7. CodecRead(u, s, data)
    <3>1. s \in Seq(Plain1)
      BY <2>4, BodiesArePlain
    <3>2. QED
      BY <2>5, <3>1, UnpackPacked DEF u
  <2>8. u.out = "ok" => u.vals = Said(s) /\ u.offs = m
    <3>1. m <= Len(data) => u = Rd(m, << >>, Said(s), "ok")
      BY <2>7 DEF CodecRead, m
    <3>2. m > Len(data) => u.out # "ok"
      BY <2>7 DEF CodecRead, m
    <3>3. QED
      BY <2>1, <2>2, <3>1, <3>2, ReaderParts
  <2>9. u.out = "ok" => u.vals = Said(g) /\ u.offs + SteppedOver(g) = n
    BY <2>1, <2>8
  <2>10. n <= Len(data) => u.out = "ok"
    <3>1. m <= Len(data) => u.out = "ok"
      BY <2>6 DEF GroupRead, m
    <3>2. QED
      BY <2>1, <2>2, <3>1
  <2>11. ~\A i \in 1..Len(g) : Compared(g[i])
    <3>1. Len(s) + 1 \in 1..Len(g)
      BY <2>3
    <3>2. QED
      BY <2>1, <2>3, <3>1
  <2>12. QED
    BY <2>1, <2>9, <2>10, <2>11 DEF GroupRead, n
<1>3. QED
  BY <1>1, <1>2 DEF Groups

-----------------------------------------------------------------------------
(* A packet group by group                                                 *)

PackedGroups(gs, k) == [i \in 1..k |-> Packed(gs[i])]

(* The bytes of the first k groups. *)
SoFar(gs, k) == FlattenSeq(PackedGroups(gs, k))

Total(gs) == SoFar(gs, Len(gs))

LEMMA GroupsAreFields ==
  ASSUME NEW g \in Groups
  PROVE  g \in Seq(Fields) /\ Packed(g) \in Seq(Byte) /\ Len(Packed(g)) \in Nat
<1>1. g \in Seq(Fields)
  BY DEF Groups
<1>2. QED
  BY <1>1, PackedType, LenProperties

LEMMA PackedGroupsType ==
  ASSUME NEW gs \in Seq(Groups), NEW k \in Nat, k <= Len(gs)
  PROVE  /\ PackedGroups(gs, k) \in Seq(Seq(Byte)) /\ Len(PackedGroups(gs, k)) = k
         /\ \A i \in 1..k : PackedGroups(gs, k)[i] = Packed(gs[i])
<1> DEFINE V == Seq(Byte)
<1>1. ASSUME NEW i \in 1..k
      PROVE  Packed(gs[i]) \in V
  <2>1. i \in 1..Len(gs)
    BY LenProperties
  <2>2. gs[i] \in Groups
    BY <2>1, ElementOfSeq
  <2>3. QED
    BY <2>2, GroupsAreFields
<1> HIDE DEF V
<1>2. PackedGroups(gs, k) \in [1..k -> V]
  BY <1>1 DEF PackedGroups
<1>3. PackedGroups(gs, k) \in Seq(V) /\ Len(PackedGroups(gs, k)) = k
  BY <1>2, IsASeq
<1>4. \A i \in 1..k : PackedGroups(gs, k)[i] = Packed(gs[i])
  BY DEF PackedGroups
<1>5. QED
  BY <1>3, <1>4 DEF V

LEMMA SoFarType ==
  ASSUME NEW gs \in Seq(Groups), NEW k \in Nat, k <= Len(gs)
  PROVE  SoFar(gs, k) \in Seq(Byte) /\ Len(SoFar(gs, k)) \in Nat
<1>1. PackedGroups(gs, k) \in Seq(Seq(Byte))
  BY PackedGroupsType
<1>2. SoFar(gs, k) \in Seq(Byte)
  BY <1>1, FlattenType DEF SoFar
<1>3. QED
  BY <1>2, LenProperties

LEMMA SoFarNone ==
  ASSUME NEW gs \in Seq(Groups)
  PROVE  SoFar(gs, 0) = << >>
<1>1. PackedGroups(gs, 0) \in Seq(Seq(Byte)) /\ Len(PackedGroups(gs, 0)) = 0
  BY PackedGroupsType, LenProperties
<1>2. PackedGroups(gs, 0) = << >>
  BY <1>1, EmptySeq
<1>3. QED
  BY <1>2, FlattenEmpty DEF SoFar

LEMMA SoFarMore ==
  ASSUME NEW gs \in Seq(Groups), NEW k \in Nat, k + 1 <= Len(gs)
  PROVE  /\ gs[k + 1] \in Groups
         /\ SoFar(gs, k + 1) = SoFar(gs, k) \o Packed(gs[k + 1])
         /\ Len(SoFar(gs, k + 1)) = Len(SoFar(gs, k)) + Len(Packed(gs[k + 1]))
<1> DEFINE a == PackedGroups(gs, k)
           b == PackedGroups(gs, k + 1)
           e == Packed(gs[k + 1])
<1>1. k <= Len(gs) /\ k + 1 \in 1..Len(gs) /\ k + 1 \in Nat
  BY LenProperties
<1>2. gs[k + 1] \in Groups
  BY <1>1, ElementOfSeq
<1>3. e \in Seq(Byte)
  BY <1>2, GroupsAreFields
<1>4. /\ a \in Seq(Seq(Byte)) /\ Len(a) = k
      /\ \A i \in 1..k : a[i] = Packed(gs[i])
  BY <1>1, PackedGroupsType
<1>5. /\ b \in Seq(Seq(Byte)) /\ Len(b) = k + 1
      /\ \A i \in 1..(k + 1) : b[i] = Packed(gs[i])
  BY <1>1, PackedGroupsType
<1> HIDE DEF a, b
<1>6. \A i \in 1..k : b[i] = a[i]
  <2> TAKE i \in 1..k
  <2>1. i \in 1..(k + 1)
    OBVIOUS
  <2>2. QED
    BY <1>4, <1>5, <2>1
<1>7. b[k + 1] = e
  <2>1. k + 1 \in 1..(k + 1)
    OBVIOUS
  <2>2. QED
    BY <1>5, <2>1
<1>8. ListOfLists(a, Byte) /\ ListOfLists(b, Byte)
  BY <1>4, <1>5 DEF ListOfLists
<1>9. Len(a) = k /\ Len(b) = k + 1
  BY <1>4, <1>5
<1> HIDE DEF e
<1>10. FlattenSeq(b) = FlattenSeq(a) \o e
  <2>1. Lengthened(b, a, k, e)
    BY <1>6, <1>7, <1>9 DEF Lengthened
  <2>2. QED
    BY <1>3, <1>8, <2>1, FlattenLengthened
<1>11. SoFar(gs, k + 1) = SoFar(gs, k) \o e
  BY <1>10 DEF SoFar, a, b
<1>12. SoFar(gs, k) \in Seq(Byte)
  BY <1>1, SoFarType
<1>13. Len(SoFar(gs, k + 1)) = Len(SoFar(gs, k)) + Len(e)
  BY <1>3, <1>11, <1>12, JoinedProperties
<1>14. QED
  BY <1>2, <1>11, <1>13 DEF e

LEMMA SoFarAgrees ==
  ASSUME NEW gs \in Seq(Groups), NEW data \in Seq(Byte), Agrees(data, 0, Total(gs)),
         NEW k \in Nat, k <= Len(gs)
  PROVE  Agrees(data, 0, SoFar(gs, k)) /\ Len(SoFar(gs, k)) <= Len(Total(gs))
<1> DEFINE n == Len(gs)
           Right(j) == Agrees(data, 0, SoFar(gs, j)) /\ Len(SoFar(gs, j)) <= Len(Total(gs))
           T == {i \in Nat : i <= n => Right(n - i)}
<1>0. n \in Nat
  BY LenProperties
<1>1. 0 \in T
  <2>1. Len(Total(gs)) \in Nat /\ Total(gs) = SoFar(gs, n)
    BY <1>0, SoFarType DEF Total
  <2>2. Right(n) /\ n - 0 = n
    BY <1>0, <2>1
  <2>3. QED
    BY <2>2
<1>2. ASSUME NEW i \in Nat, i \in T
      PROVE  i + 1 \in T
  <2>1. ASSUME i + 1 <= n
        PROVE  Right(n - (i + 1))
    <3> DEFINE j == n - (i + 1)
               a == SoFar(gs, j)
               b == Packed(gs[j + 1])
    <3>1. j \in Nat /\ j + 1 <= n /\ n - i = j + 1 /\ i <= n /\ j <= n
      BY <1>0, <2>1
    <3>2. Right(j + 1)
      <4>1. Right(n - i)
        BY <1>2, <3>1
      <4>2. QED
        BY <3>1, <4>1
    <3> HIDE DEF j
    <3>3. /\ gs[j + 1] \in Groups
          /\ SoFar(gs, j + 1) = a \o b
          /\ Len(SoFar(gs, j + 1)) = Len(a) + Len(b)
      BY <3>1, SoFarMore
    <3>4. a \in Seq(Byte) /\ Len(a) \in Nat /\ b \in Seq(Byte) /\ Len(b) \in Nat
      BY <3>1, <3>3, SoFarType, GroupsAreFields
    <3>5. Len(Total(gs)) \in Nat
      BY <1>0, SoFarType DEF Total
    <3> HIDE DEF a, b
    <3>6. Agrees(data, 0, a)
      <4>1. Agrees(data, 0, a \o b)
        BY <3>2, <3>3
      <4>2. QED
        BY <3>4, <4>1, AgreesConcat
    <3>7. Len(a) <= Len(Total(gs))
      BY <3>2, <3>3, <3>4, <3>5
    <3>8. QED
      BY <3>6, <3>7 DEF a, j
  <2>2. QED
    BY <2>1
<1>3. Nat \subseteq T
  <2> HIDE DEF T
  <2>1. QED
    BY <1>1, <1>2, SetInduction
<1>4. n - k \in Nat /\ n - k <= n /\ n - (n - k) = k
  BY <1>0
<1>5. n - k \in T
  BY <1>3, <1>4
<1>6. Right(k)
  BY <1>4, <1>5
<1>7. QED
  BY <1>6

(* What the reader of group k + 1 finds. *)
Remains(rest, gs, data, k, o) ==
  /\ rest \in Seq(Byte) /\ Len(rest) = Len(data) - o
  /\ Agrees(rest, 0, Packed(gs[k + 1]))
  /\ o \in Nat /\ Len(Packed(gs[k + 1])) \in Nat
  /\ Len(SoFar(gs, k + 1)) = o + Len(Packed(gs[k + 1]))
  /\ Len(SoFar(gs, k + 1)) <= Len(Total(gs))

LEMMA RestAgrees ==
  ASSUME NEW gs \in Seq(Groups), NEW data \in Seq(Byte), Agrees(data, 0, Total(gs)),
         NEW k \in Nat, k + 1 <= Len(gs), NEW o, o = Len(SoFar(gs, k)), o <= Len(data),
         NEW rest, Between(rest, data, o, Len(data))
  PROVE  Remains(rest, gs, data, k, o)
<1> DEFINE a == SoFar(gs, k)
           b == Packed(gs[k + 1])
           n == Len(data) - o
<1>1. k <= Len(gs) /\ k + 1 \in Nat
  BY LenProperties
<1>2. /\ gs[k + 1] \in Groups
      /\ SoFar(gs, k + 1) = a \o b
      /\ Len(SoFar(gs, k + 1)) = o + Len(b)
  BY SoFarMore
<1>3. a \in Seq(Byte) /\ o \in Nat /\ b \in Seq(Byte) /\ Len(b) \in Nat
  BY <1>1, <1>2, SoFarType, GroupsAreFields
<1>4. Agrees(data, 0, SoFar(gs, k + 1)) /\ Len(SoFar(gs, k + 1)) <= Len(Total(gs))
  BY <1>1, SoFarAgrees
<1>5. Agrees(data, o, b)
  <2> HIDE DEF a, b
  <2>1. Agrees(data, 0, a \o b)
    BY <1>2, <1>4
  <2>2. Agrees(data, 0 + Len(a), b)
    BY <1>3, <2>1, AgreesConcat
  <2>3. 0 + Len(a) = o
    BY <1>3 DEF a
  <2>4. QED
    BY <2>2, <2>3
<1>6. n \in Nat /\ o + n = Len(data) /\ ~(o + n > Len(data))
  BY <1>3, LenProperties
<1>7. /\ rest \in Seq(Byte) /\ Len(rest) = n
      /\ \A i \in 1..n : rest[i] = data[o + i]
  <2>1. rest = SubSeq(data, o + 1, o + n)
    BY <1>6 DEF Between
  <2> HIDE DEF n
  <2> DEFINE more == SubSeq(data, o + 1, o + n)
  <2>2. /\ more \in Seq(Byte) /\ Len(more) = n
        /\ \A i \in 1..n : more[i] = data[o + i]
    BY <1>3, <1>6, SubBytes
  <2>3. QED
    BY <2>1, <2>2
<1>8. Agrees(rest, 0, b)
  <2> HIDE DEF b, n
  <2>1. ASSUME NEW j \in 1..Len(b), 0 + j <= Len(rest)
        PROVE  rest[0 + j] = b[j]
    <3>1. j \in 1..n /\ o + j <= Len(data) /\ 0 + j = j
      BY <1>3, <1>6, <1>7, <2>1
    <3>2. rest[j] = data[o + j]
      BY <1>7, <3>1
    <3>3. data[o + j] = b[j]
      BY <1>5, <3>1 DEF Agrees
    <3>4. QED
      BY <3>1, <3>2, <3>3
  <2>2. QED
    BY <2>1 DEF Agrees
<1>9. QED
  BY <1>2, <1>3, <1>4, <1>7, <1>8 DEF Remains

-----------------------------------------------------------------------------
(* The packets of the handlers and of the client are made of such groups   *)

WellMade(p) ==
  /\ p.kind \in {"edit", "in", "message", "out", "search"}
  /\ p.groups \in Seq(Groups)
  /\ p.kind # "edit" => Len(p.groups) > 0
  /\ p.kind = "message" => /\ Len(p.groups) = 1
                           /\ p.groups[1] # << >>
                           /\ Last(p.groups[1]).t = "data"

LEMMA FieldIs ==
  ASSUME NEW t \in Types, NEW w \in Nat, NEW v \in Seq(Nat),
         t = "num" => w \in Widths /\ Len(v) = 1,
         t \in {"str", "data"} => w \in Widths,
         t = "lit" => Len(v) = 1,
         t \in {"raw", "skip", "tail"} => w = Len(v) /\ w > 0,
         t # "num" => v \in Seq(Byte)
  PROVE  Field(t, w, v) \in Fields /\ Field(t, w, v).t = t
<1> DEFINE f == Field(t, w, v)
<1>1. f.t = t /\ f.w = w /\ f.v = v
  BY DEF Field
<1>2. f \in [t : Types, w : Nat, v : Seq(Nat)]
  BY DEF Field
<1> HIDE DEF f
<1>3. f \in Fields
  BY <1>1, <1>2, Zenon DEF Fields
<1>4. QED
  BY <1>1, <1>3 DEF f

LEMMA SmallBytes == {0, 1, 2, 3, 4} \subseteq Byte /\ {0, 1, 2, 3, 4} \subseteq Nat
BY BaseAssumption DEF BaseAssumption

LEMMA NumIs ==
  ASSUME NEW w \in Widths, NEW n \in Nat
  PROVE  Num(w, n) \in Bodies
<1> DEFINE v == <<n>>
<1>1. v \in Seq(Nat) /\ Len(v) = 1
  OBVIOUS
<1> HIDE DEF v
<1>2. w \in Nat /\ "num" \in Types
  BY WidthsAre DEF Types
<1>3. Field("num", w, v) \in Fields /\ Field("num", w, v).t = "num"
  BY <1>1, <1>2, FieldIs
<1>4. QED
  BY <1>3 DEF Num, Bodies, v

LEMMA StrIs ==
  ASSUME NEW w \in Widths, NEW s \in Seq(Byte)
  PROVE  Str(w, s) \in Bodies
<1>1. w \in Nat /\ "str" \in Types /\ s \in Seq(Nat)
  BY WidthsAre, BytesAreNumbers DEF Types
<1>2. Field("str", w, s) \in Fields /\ Field("str", w, s).t = "str"
  BY <1>1, FieldIs
<1>3. QED
  BY <1>2 DEF Str, Bodies

LEMMA DataIs ==
  ASSUME NEW w \in Widths, NEW s \in Seq(Byte)
  PROVE  Data(w, s) \in Bodies /\ Data(w, s).t = "data"
<1>1. w \in Nat /\ "data" \in Types /\ s \in Seq(Nat)
  BY WidthsAre, BytesAreNumbers DEF Types
<1>2. Field("data", w, s) \in Fields /\ Field("data", w, s).t = "data"
  BY <1>1, FieldIs
<1>3. QED
  BY <1>2 DEF Data, Bodies

LEMMA RawIs ==
  ASSUME NEW s \in Seq(Byte), Len(s) > 0
  PROVE  Raw(s) \in Bodies
<1>1. Len(s) \in Nat /\ "raw" \in Types /\ s \in Seq(Nat)
  BY LenProperties, BytesAreNumbers DEF Types
<1> DEFINE n == Len(s)
<1>2. n \in Nat /\ n = Len(s) /\ n > 0
  BY <1>1
<1> HIDE DEF n
<1>3. Field("raw", n, s) \in Fields /\ Field("raw", n, s).t = "raw"
  BY <1>1, <1>2, FieldIs
<1>4. QED
  BY <1>3 DEF Raw, Bodies, n

LEMMA LitIs ==
  ASSUME NEW b \in Byte
  PROVE  Lit(b) \in Bodies
<1> DEFINE v == <<b>>
<1>1. b \in Nat /\ v \in Seq(Byte) /\ Len(v) = 1
  BY BytesAreNumbers
<1> HIDE DEF v
<1>2. v \in Seq(Nat) /\ "lit" \in Types
  BY <1>1, BytesAreNumbers DEF Types
<1>3. Field("lit", 1, v) \in Fields /\ Field("lit", 1, v).t = "lit"
  BY <1>1, <1>2, FieldIs
<1>4. QED
  BY <1>3 DEF Lit, Bodies, v

LEMMA ZeroesIs == Zeroes \in Bodies
<1> DEFINE v == << 0 >>
<1>1. v \in Seq(Byte)
  BY BytesAreNumbers
<1> HIDE DEF v
<1>2. v \in Seq(Nat) /\ "zero" \in Types
  BY <1>1, BytesAreNumbers DEF Types
<1>3. Field("zero", 1, v) \in Fields /\ Field("zero", 1, v).t = "zero"
  BY <1>1, <1>2, FieldIs
<1>4. QED
  BY <1>3 DEF Zeroes, Bodies, v

LEMMA OnesAre ==
  ASSUME NEW w \in Nat, w > 0
  PROVE  /\ [i \in 1..w |-> 1] \in Seq(Byte) /\ Len([i \in 1..w |-> 1]) = w
         /\ [i \in 1..w |-> 1] \in Seq(Nat)
<1> DEFINE v == [i \in 1..w |-> 1]
<1>1. v \in [1..w -> Byte]
  BY SmallBytes
<1> HIDE DEF v
<1>2. v \in Seq(Byte) /\ Len(v) = w
  BY <1>1, IsASeq
<1>3. QED
  BY <1>2, BytesAreNumbers DEF v

LEMMA SkipIs ==
  ASSUME NEW w \in Nat, w > 0
  PROVE  /\ Skip(w) \in Bodies
         /\ Unread(w) \in Tails
<1> DEFINE v == [i \in 1..w |-> 1]
<1>1. v \in Seq(Byte) /\ v \in Seq(Nat) /\ Len(v) = w
  BY OnesAre
<1> HIDE DEF v
<1>2. "skip" \in Types /\ "tail" \in Types
  BY DEF Types
<1>3. Field("skip", w, v) \in Fields /\ Field("skip", w, v).t = "skip"
  BY <1>1, <1>2, FieldIs
<1>4. Field("tail", w, v) \in Fields /\ Field("tail", w, v).t = "tail"
  BY <1>1, <1>2, FieldIs
<1>5. QED
  BY <1>3, <1>4 DEF Skip, Unread, Bodies, Tails, v

LEMMA RestIs ==
  ASSUME NEW s \in Seq(Byte)
  PROVE  Rest(s) \in Fields /\ BytesOf(Rest(s)) = s
<1>1. s \in Seq(Nat) /\ "rest" \in Types /\ 0 \in Nat
  BY BytesAreNumbers DEF Types
<1>2. Field("rest", 0, s) \in Fields /\ Field("rest", 0, s).t = "rest"
  BY <1>1, FieldIs
<1>3. Field("rest", 0, s).v = s
  BY DEF Field
<1> DEFINE f == Field("rest", 0, s)
<1> HIDE DEF f
<1>4. BytesOf(f) = f.v
  BY <1>2, FieldBytes DEF f
<1>5. QED
  BY <1>2, <1>3, <1>4 DEF f, Rest

(* One group, and a first one with a list behind it *)
LEMMA BodiesAreGroups == \A s \in Seq(Bodies) : s \in Groups
BY BodiesAreFields DEF Groups

LEMMA TailedIsGroup ==
  ASSUME NEW s \in Seq(Bodies), NEW f \in Tails
  PROVE  Append(s, f) \in Groups
<1>1. s \in Seq(Fields) /\ f \in Fields
  BY BodiesAreFields DEF Tails
<1>2. Append(s, f) \in Seq(Fields)
  BY <1>1, AppendProperties
<1>3. QED
  BY <1>2 DEF Groups

LEMMA OneGroup ==
  ASSUME NEW kind \in {"in", "out"}, NEW fields \in Seq(Bodies)
  PROVE  WellMade(Packet(kind, <<fields>>))
<1> DEFINE gs == <<fields>>
           p == Packet(kind, gs)
<1>1. fields \in Groups
  BY BodiesAreGroups
<1>2. gs \in Seq(Groups) /\ Len(gs) = 1
  BY <1>1
<1> HIDE DEF gs
<1>3. p.kind = kind /\ p.groups = gs
  BY DEF Packet
<1> HIDE DEF p
<1>4. WellMade(p)
  BY <1>2, <1>3 DEF WellMade
<1>5. QED
  BY <1>4 DEF p, gs

LEMMA MessageGroup ==
  ASSUME NEW fields \in Seq(Bodies), fields # << >>, Last(fields).t = "data"
  PROVE  WellMade(Packet("message", <<fields>>))
<1> DEFINE gs == <<fields>>
           p == Packet("message", gs)
<1>1. fields \in Groups
  BY BodiesAreGroups
<1>2. gs \in Seq(Groups) /\ Len(gs) = 1 /\ gs[1] = fields
  BY <1>1
<1> HIDE DEF gs
<1>3. p.kind = "message" /\ p.groups = gs
  BY DEF Packet
<1> HIDE DEF p
<1>4. WellMade(p)
  <2>1. /\ p.kind \in {"edit", "in", "message", "out", "search"} /\ p.groups \in Seq(Groups)
        /\ Len(p.groups) = 1 /\ Len(p.groups) > 0
    <3>1. p.kind \in {"edit", "in", "message", "out", "search"}
      BY <1>3, Zenon
    <3>2. p.groups \in Seq(Groups) /\ Len(p.groups) = 1
      BY <1>2, <1>3, Zenon
    <3>3. Len(p.groups) > 0
      BY <3>2
    <3>4. QED
      BY <3>1, <3>2, <3>3
  <2>2. p.groups[1] = fields
    BY <1>2, <1>3
  <2>3. p.groups[1] # << >> /\ Last(p.groups[1]).t = "data"
    BY <2>2, Zenon
  <2>4. QED
    BY <2>1, <2>3, Zenon DEF WellMade
<1>5. QED
  BY <1>4 DEF p, gs

LEMMA GroupsBehind ==
  ASSUME NEW kind \in {"in", "out", "search"}, NEW fields \in Seq(Bodies), NEW n \in Nat,
         NEW more \in [1..n -> Groups]
  PROVE  WellMade(Packet(kind, <<fields>> \o more))
<1> DEFINE one == <<fields>>
           gs == one \o more
           p == Packet(kind, gs)
<1>1. fields \in Groups
  BY BodiesAreGroups
<1>2. one \in Seq(Groups) /\ Len(one) = 1
  BY <1>1
<1>3. more \in Seq(Groups) /\ Len(more) = n
  BY IsASeq
<1> HIDE DEF one
<1>4. gs \in Seq(Groups) /\ Len(gs) = Len(one) + Len(more)
  BY <1>2, <1>3, JoinedProperties
<1>5. Len(gs) > 0
  BY <1>2, <1>3, <1>4
<1> HIDE DEF gs
<1>6. p.kind = kind /\ p.groups = gs
  BY DEF Packet
<1> HIDE DEF p
<1>7. WellMade(p)
  BY <1>4, <1>5, <1>6 DEF WellMade
<1>8. QED
  BY <1>7 DEF p, gs, one

LEMMA Tuples ==
  ASSUME NEW S
  PROVE  /\ \A a \in S : <<a>> \in Seq(S)
         /\ \A a, b \in S : <<a, b>> \in Seq(S)
         /\ \A a, b, c \in S : <<a, b, c>> \in Seq(S)
         /\ \A a, b, c, d \in S : <<a, b, c, d>> \in Seq(S)
         /\ \A a, b, c, d, e \in S : <<a, b, c, d, e>> \in Seq(S)
         /\ \A a, b, c, d, e, f \in S : <<a, b, c, d, e, f>> \in Seq(S)
         /\ \A a, b, c, d, e, f, g \in S : <<a, b, c, d, e, f, g>> \in Seq(S)
OBVIOUS

LEMMA BodiesAre ==
  /\ \A w \in {1, 2, 4}, n \in Nat : Num(w, n) \in Bodies
  /\ \A w \in {1, 2, 4}, s \in Seq(Byte) : Str(w, s) \in Bodies
  /\ \A w \in {1, 2, 4}, s \in Seq(Byte) : Data(w, s) \in Bodies
  /\ \A b \in {1, 2, 3, 4} : Lit(b) \in Bodies
  /\ \A w \in {1, 2, 4, 9} : Skip(w) \in Bodies
  /\ Zeroes \in Bodies
<1>1. \A w \in {1, 2, 4} : w \in Widths
  BY DEF Widths
<1>2. \A b \in {1, 2, 3, 4} : b \in Byte
  BY SmallBytes
<1>3. \A w \in {1, 2, 4, 9} : w \in Nat /\ w > 0
  OBVIOUS
<1>4. \A w \in {1, 2, 4}, n \in Nat : Num(w, n) \in Bodies
  BY <1>1, NumIs
<1>5. \A w \in {1, 2, 4}, s \in Seq(Byte) : Str(w, s) \in Bodies /\ Data(w, s) \in Bodies
  BY <1>1, StrIs, DataIs
<1>6. QED
  BY <1>2, <1>3, <1>4, <1>5, LitIs, SkipIs, ZeroesIs

LEMMA IntsAreSized == IntSize \in {1, 2, 4}
BY DEF IntSize

LEMMA TextsAre ==
  /\ \A w \in Words : w \in Seq(Byte) /\ Style \o w \in Seq(Byte)
  /\ \A ns \in Names : Len(ns) \in Nat /\ \A i \in 1..Len(ns) : ns[i] \in Words
  /\ Key \in Seq(Byte) /\ Len(Key) = 8
<1>1. Words \subseteq Seq(Byte) /\ Names \subseteq Seq(Words)
      /\ Style \in [1..2 -> Byte] /\ Key \in [1..8 -> Byte]
  BY PacketsAssumption DEF PacketsAssumption
<1>2. Style \in Seq(Byte) /\ Key \in Seq(Byte) /\ Len(Key) = 8
  <2>1. ASSUME NEW n \in Nat, NEW s \in [1..n -> Byte]
        PROVE  s \in Seq(Byte) /\ Len(s) = n
    BY IsASeq
  <2>2. QED
    BY <1>1, <2>1
<1>3. \A w \in Words : Style \o w \in Seq(Byte)
  BY <1>1, <1>2, JoinedProperties
<1>4. \A ns \in Names : Len(ns) \in Nat
  BY <1>1, LenProperties
<1>5. ASSUME NEW ns \in Names, NEW i \in 1..Len(ns)
      PROVE  ns[i] \in Words
  BY <1>1, ElementOfSeq
<1>6. QED
  BY <1>1, <1>2, <1>3, <1>4, <1>5

(* What the handlers read *)
LEMMA HeadsAreMade == WellMade(Helo) /\ WellMade(Redir) /\ WellMade(ErrPkt)
<1> DEFINE S == Bodies
           some == <<1, 2, 3, 4>>
<1>1. Zeroes \in S /\ Lit(2) \in S /\ Lit(3) \in S /\ Raw(Key) \in S
  <2>1. Zeroes \in S /\ Lit(2) \in S /\ Lit(3) \in S
    BY BodiesAre
  <2>2. Key \in Seq(Byte) /\ Len(Key) > 0
    BY TextsAre
  <2>3. QED
    BY <2>1, <2>2, RawIs
<1>2. some \in Seq(Byte) /\ Len(some) = 4
  BY SmallBytes
<1> HIDE DEF some
<1>3. Raw(some) \in S
  BY <1>2, RawIs
<1>4. Base + 1 \in Nat
  BY BaseAssumption DEF BaseAssumption
<1>5. Skip(2) \in S /\ Num(2, Base + 1) \in S /\ Num(2, 7) \in S
  BY <1>4, BodiesAre
<1>6. <<Zeroes, Lit(2), Lit(3), Raw(Key)>> \in Seq(S)
  <2> HIDE DEF S
  <2>1. QED
    BY <1>1, Tuples
<1>7. <<Raw(some), Skip(2), Num(2, Base + 1)>> \in Seq(S)
  <2> HIDE DEF S
  <2>1. QED
    BY <1>3, <1>5, Tuples
<1>8. <<Num(2, 7)>> \in Seq(S)
  <2> HIDE DEF S
  <2>1. QED
    BY <1>5, Tuples
<1>9. QED
  BY <1>6, <1>7, <1>8, OneGroup DEF Helo, Redir, ErrPkt, some

LEMMA WordsAreMade ==
  ASSUME NEW a \in Words
  PROVE  /\ WellMade(Wlcome(a)) /\ WellMade(StatusUser(a)) /\ WellMade(UserChgStatus(a))
         /\ WellMade(RoomIsFull(a)) /\ WellMade(Nicks(a))
<1> DEFINE S == Bodies
<1>1. a \in Seq(Byte)
  BY TextsAre
<1>2. /\ Str(2, a) \in S /\ Str(1, a) \in S /\ Num(1, 1) \in S /\ Skip(9) \in S
      /\ Num(1, 4) \in S /\ Skip(1) \in S /\ Data(2, a) \in S
  BY <1>1, BodiesAre
<1> HIDE DEF S
<1>3. /\ <<Str(2, a)>> \in Seq(S)
      /\ <<Str(1, a), Num(1, 1)>> \in Seq(S)
      /\ <<Str(1, a), Skip(9), Num(1, 4)>> \in Seq(S)
      /\ <<Str(1, a), Skip(1)>> \in Seq(S)
      /\ <<Data(2, a)>> \in Seq(S)
  BY <1>2, Tuples
<1>4. QED
  BY <1>3, OneGroup DEF Wlcome, StatusUser, UserChgStatus, RoomIsFull, Nicks, S

LEMMA MessagesAreMade ==
  ASSUME NEW a \in Words, NEW b \in Words
  PROVE  WellMade(Message(a, a, b)) /\ WellMade(RoomMsg(a, a, b))
<1> DEFINE S == Bodies
           d == Data(2, Style \o b)
           m == <<Str(1, a), Str(1, a), d>>
           r == <<Str(1, a), Str(1, a), Str(1, a), Num(1, 0), d>>
<1>1. a \in Seq(Byte) /\ Style \o b \in Seq(Byte)
  BY TextsAre
<1>2. Str(1, a) \in S /\ Num(1, 0) \in S /\ d \in S
  BY <1>1, BodiesAre
<1>3. d.t = "data"
  BY <1>1, DataIs DEF Widths
<1> HIDE DEF S, d
<1>4. m \in Seq(S) /\ r \in Seq(S)
  BY <1>2, Tuples
<1>5. Len(m) = 3 /\ m[3] = d /\ Len(r) = 5 /\ r[5] = d
  OBVIOUS
<1> HIDE DEF m, r
<1>6. m # << >> /\ Last(m) = d /\ r # << >> /\ Last(r) = d
  <2>1. m # << >> /\ r # << >>
    <3>1. Len(m) # 0 /\ Len(r) # 0
      BY <1>5
    <3>2. QED
      BY <1>4, <3>1, EmptySeq
  <2>2. Last(m) = m[Len(m)] /\ Last(r) = r[Len(r)]
    BY DEF Last
  <2>3. QED
    BY <1>5, <2>1, <2>2
<1>7. WellMade(Packet("message", <<m>>)) /\ WellMade(Packet("message", <<r>>))
  BY <1>3, <1>4, <1>6, MessageGroup DEF S
<1>8. QED
  BY <1>7 DEF Message, RoomMsg, m, r, d

LEMMA PairsAreMade ==
  ASSUME NEW a \in Words, NEW b \in Words
  PROVE  WellMade(RoomUEnterOrLeave(a, b)) /\ WellMade(RoomInfo(a, b, a))
<1> DEFINE S == Bodies
<1>1. a \in Seq(Byte) /\ b \in Seq(Byte)
  BY TextsAre
<1>2. Str(1, a) \in S /\ Str(1, b) \in S /\ Num(1, 1) \in S /\ Num(2, 5) \in S
  BY <1>1, BodiesAre
<1> HIDE DEF S
<1>3. /\ <<Str(1, a), Str(1, b)>> \in Seq(S)
      /\ <<Str(1, a), Num(1, 1), Str(1, b), Str(1, a), Num(2, 5)>> \in Seq(S)
  BY <1>2, Tuples
<1>4. QED
  BY <1>3, OneGroup DEF RoomUEnterOrLeave, RoomInfo, S

LEMMA ListsAreMade ==
  ASSUME NEW ns \in Names
  PROVE  WellMade(SndUsers(ns)) /\ WellMade(RoomList(ns)) /\ WellMade(FoundNicks(ns))
<1> DEFINE S == Bodies
           G == Groups
           n == Len(ns)
<1>1. n \in Nat /\ DOMAIN ns = 1..n /\ \A i \in 1..n : ns[i] \in Seq(Byte)
  <2>1. n \in Nat /\ \A i \in 1..n : ns[i] \in Seq(Byte)
    BY TextsAre
  <2>2. ns \in Seq(Words)
    BY PacketsAssumption DEF PacketsAssumption
  <2>3. QED
    BY <2>1, <2>2, LenProperties
<1>2. Num(2, n) \in S /\ Zeroes \in S /\ Num(2, 5) \in S /\ Num(1, 3) \in S /\ Num(1, 1) \in S
  BY <1>1, BodiesAre
<1>3. Unread(2) \in Tails
  BY SkipIs
<1>4. \A i \in 1..n : Str(1, ns[i]) \in S
  BY <1>1, BodiesAre
<1>5. <<Num(2, n)>> \in Seq(S) /\ <<Zeroes, Zeroes, Num(2, n)>> \in Seq(S)
  <2> HIDE DEF S, n
  <2>1. QED
    BY <1>2, Tuples
<1>6. \A i \in 1..n : <<Str(1, ns[i])>> \in G
  <2> TAKE i \in 1..n
  <2> HIDE DEF S
  <2>1. <<Str(1, ns[i])>> \in Seq(S)
    BY <1>4, Tuples
  <2>2. QED
    BY <2>1, BodiesAreGroups DEF S
<1>7. \A i \in 1..n : <<Str(1, ns[i]), Num(1, 1)>> \in G
  <2> TAKE i \in 1..n
  <2> HIDE DEF S
  <2>1. <<Str(1, ns[i]), Num(1, 1)>> \in Seq(S)
    BY <1>2, <1>4, Tuples
  <2>2. QED
    BY <2>1, BodiesAreGroups DEF S
<1>8. \A i \in 1..n : <<Str(1, ns[i]), Num(2, 5), Num(1, 3), Unread(2)>> \in G
  <2> TAKE i \in 1..n
  <2> DEFINE a == Str(1, ns[i])
             b == Num(2, 5)
             c == Num(1, 3)
             d == Unread(2)
             s == <<a, b, c>>
             t == <<a, b, c, d>>
  <2> HIDE DEF S
  <2>0. a \in S /\ b \in S /\ c \in S
    BY <1>2, <1>4
  <2> HIDE DEF a, b, c, d
  <2>1. s \in Seq(S)
    BY <2>0, Tuples
  <2>2. t = Append(s, d)
    OBVIOUS
  <2> HIDE DEF s, t
  <2>3. Append(s, d) \in G
    BY <1>3, <2>1, TailedIsGroup DEF S, d
  <2>4. QED
    BY <2>2, <2>3 DEF t, a, b, c, d
<1> HIDE DEF G
<1>9. /\ [i \in 1..n |-> <<Str(1, ns[i])>>] \in [1..n -> G]
      /\ [i \in 1..n |-> <<Str(1, ns[i]), Num(1, 1)>>] \in [1..n -> G]
      /\ [i \in 1..n |-> <<Str(1, ns[i]), Num(2, 5), Num(1, 3), Unread(2)>>] \in [1..n -> G]
  BY <1>6, <1>7, <1>8
<1>10. WellMade(Packet("in", <<<<Num(2, n)>>>> \o [i \in 1..n |-> <<Str(1, ns[i])>>]))
  BY <1>1, <1>5, <1>9, GroupsBehind DEF G
<1>11. WellMade(Packet("in", <<<<Num(2, n)>>>> \o [i \in 1..n |-> <<Str(1, ns[i]), Num(1, 1)>>]))
  BY <1>1, <1>5, <1>9, GroupsBehind DEF G
<1>12. WellMade(Packet("in", <<<<Zeroes, Zeroes, Num(2, n)>>>>
                  \o [i \in 1..n |-> <<Str(1, ns[i]), Num(2, 5), Num(1, 3), Unread(2)>>]))
  BY <1>1, <1>5, <1>9, GroupsBehind DEF G
<1>13. QED
  BY <1>1, <1>10, <1>11, <1>12 DEF SndUsers, RoomList, FoundNicks

LEMMA ListsOfAreMade ==
  ASSUME NEW a \in Words, NEW ns \in Names
  PROVE  WellMade(UserInfo(a, ns)) /\ WellMade(RoomUserList(a, ns))
<1> DEFINE S == Bodies
           G == Groups
           n == Len(ns)
           some == <<1, 2, 3, 4>>
<1>1. n \in Nat /\ DOMAIN ns = 1..n /\ \A i \in 1..n : ns[i] \in Seq(Byte)
  <2>1. n \in Nat /\ \A i \in 1..n : ns[i] \in Seq(Byte)
    BY TextsAre
  <2>2. ns \in Seq(Words)
    BY PacketsAssumption DEF PacketsAssumption
  <2>3. QED
    BY <2>1, <2>2, LenProperties
<1>2. a \in Seq(Byte) /\ some \in Seq(Byte) /\ Len(some) = 4
  BY SmallBytes, TextsAre
<1> HIDE DEF some
<1>3. /\ Str(1, a) \in S /\ Num(IntSize, 9) \in S /\ Num(1, 4) \in S /\ Num(2, n) \in S
      /\ Skip(2) \in S /\ Num(1, n) \in S /\ Num(1, 2) \in S /\ Raw(some) \in S
  <2> HIDE DEF n
  <2>1. Str(1, a) \in S /\ Skip(2) \in S
    BY <1>2, BodiesAre
  <2>2. Num(IntSize, 9) \in S /\ Num(1, 4) \in S /\ Num(2, n) \in S /\ Num(1, n) \in S /\ Num(1, 2) \in S
    BY <1>1, IntsAreSized, BodiesAre
  <2>3. Raw(some) \in S
    <3>1. some \in Seq(Byte) /\ Len(some) > 0
      BY <1>2
    <3>2. QED
      BY <3>1, RawIs
  <2>4. QED
    BY <2>1, <2>2, <2>3
<1>4. \A i \in 1..n : Str(1, ns[i]) \in S /\ Num(1, i) \in S
  BY <1>1, BodiesAre
<1>5. /\ <<Str(1, a), Num(IntSize, 9), Raw(some), Num(1, 4), Num(2, n)>> \in Seq(S)
      /\ <<Str(1, a), Skip(2), Num(1, n)>> \in Seq(S)
  <2> HIDE DEF S, n
  <2>1. QED
    BY <1>3, Tuples
<1>6. \A i \in 1..n : <<Str(1, ns[i])>> \in G
  <2> TAKE i \in 1..n
  <2> HIDE DEF S
  <2>1. <<Str(1, ns[i])>> \in Seq(S)
    BY <1>4, Tuples
  <2>2. QED
    BY <2>1, BodiesAreGroups DEF S
<1>7. \A i \in 1..n : <<Num(1, i), Num(1, 2)>> \in G
  <2> TAKE i \in 1..n
  <2> HIDE DEF S
  <2>1. <<Num(1, i), Num(1, 2)>> \in Seq(S)
    BY <1>3, <1>4, Tuples
  <2>2. QED
    BY <2>1, BodiesAreGroups DEF S
<1> HIDE DEF G
<1>8. /\ [i \in 1..n |-> <<Str(1, ns[i])>>] \in [1..n -> G]
      /\ [i \in 1..n |-> <<Num(1, i), Num(1, 2)>>] \in [1..n -> G]
  BY <1>6, <1>7
<1>9. WellMade(Packet("in", <<<<Str(1, a), Num(IntSize, 9), Raw(some), Num(1, 4), Num(2, n)>>>>
                 \o [i \in 1..n |-> <<Num(1, i), Num(1, 2)>>]))
  BY <1>1, <1>5, <1>8, GroupsBehind DEF G
<1>10. WellMade(Packet("in", <<<<Str(1, a), Skip(2), Num(1, n)>>>>
                 \o [i \in 1..n |-> <<Str(1, ns[i])>>]))
  BY <1>1, <1>5, <1>8, GroupsBehind DEF G
<1>11. QED
  BY <1>1, <1>9, <1>10 DEF UserInfo, RoomUserList, some

LEMMA InfoLoginsAreMade ==
  ASSUME NEW bs \in Names, NEW ps \in Names
  PROVE  WellMade(InfoLogin(bs, ps))
<1> DEFINE S == Bodies
           G == Groups
           m == Len(bs)
           n == Len(ps)
           one == <<<<Skip(4), Num(1, m)>>>>
           two == <<<<Skip(2), Num(1, n)>>>>
           x == [i \in 1..m |-> <<Str(1, bs[i]), Str(1, bs[i]), Str(1, bs[i])>>]
           y == [i \in 1..n |-> <<Skip(1), Num(1, 2), Str(1, ps[i]), Str(1, ps[i])>>]
           gs == one \o x \o two \o y
           p == Packet("in", gs)
<1>1. /\ m \in Nat /\ DOMAIN bs = 1..m /\ \A i \in 1..m : bs[i] \in Seq(Byte)
      /\ n \in Nat /\ DOMAIN ps = 1..n /\ \A i \in 1..n : ps[i] \in Seq(Byte)
  <2>1. /\ m \in Nat /\ \A i \in 1..m : bs[i] \in Seq(Byte)
        /\ n \in Nat /\ \A i \in 1..n : ps[i] \in Seq(Byte)
    BY TextsAre
  <2>2. bs \in Seq(Words) /\ ps \in Seq(Words)
    BY PacketsAssumption DEF PacketsAssumption
  <2>3. QED
    BY <2>1, <2>2, LenProperties
<1>2. /\ \A i \in 1..m : Str(1, bs[i]) \in S
      /\ \A i \in 1..n : Str(1, ps[i]) \in S
      /\ Skip(4) \in S /\ Skip(2) \in S /\ Skip(1) \in S
      /\ Num(1, m) \in S /\ Num(1, n) \in S /\ Num(1, 2) \in S
  BY <1>1, BodiesAre
<1>3. one \in Seq(G) /\ Len(one) = 1 /\ two \in Seq(G)
  <2> DEFINE a == <<Skip(4), Num(1, m)>>
             b == <<Skip(2), Num(1, n)>>
  <2>1. a \in Seq(S) /\ b \in Seq(S)
    <3> HIDE DEF S, m, n
    <3>1. QED
      BY <1>2, Tuples
  <2>2. a \in G /\ b \in G
    BY <2>1, BodiesAreGroups
  <2> HIDE DEF a, b, G
  <2>3. <<a>> \in Seq(G) /\ Len(<<a>>) = 1 /\ <<b>> \in Seq(G)
    BY <2>2
  <2>4. QED
    BY <2>3 DEF a, b
<1>4. \A i \in 1..m : <<Str(1, bs[i]), Str(1, bs[i]), Str(1, bs[i])>> \in G
  <2> TAKE i \in 1..m
  <2> HIDE DEF S
  <2>1. <<Str(1, bs[i]), Str(1, bs[i]), Str(1, bs[i])>> \in Seq(S)
    BY <1>2, Tuples
  <2>2. QED
    BY <2>1, BodiesAreGroups DEF S
<1>5. \A i \in 1..n : <<Skip(1), Num(1, 2), Str(1, ps[i]), Str(1, ps[i])>> \in G
  <2> TAKE i \in 1..n
  <2> HIDE DEF S
  <2>1. <<Skip(1), Num(1, 2), Str(1, ps[i]), Str(1, ps[i])>> \in Seq(S)
    BY <1>2, Tuples
  <2>2. QED
    BY <2>1, BodiesAreGroups DEF S
<1>6. InfoLogin(bs, ps) = p
  BY <1>1 DEF InfoLogin
<1> HIDE DEF G
<1>7. x \in [1..m -> G] /\ y \in [1..n -> G]
  BY <1>4, <1>5
<1> HIDE DEF one, two, x, y, m, n
<1>8. x \in Seq(G) /\ y \in Seq(G)
  BY <1>1, <1>7, IsASeq
<1>9. \A a, b \in Seq(G) : a \o b \in Seq(G) /\ Len(a \o b) = Len(a) + Len(b)
  BY JoinedProperties
<1>10. one \o x \in Seq(G) /\ Len(one \o x) = 1 + Len(x)
  BY <1>3, <1>8, <1>9, Zenon
<1>11. one \o x \o two \in Seq(G) /\ Len(one \o x \o two) = 1 + Len(x) + Len(two)
  BY <1>3, <1>9, <1>10, Zenon
<1>12. gs \in Seq(G) /\ Len(gs) = 1 + Len(x) + Len(two) + Len(y)
  BY <1>8, <1>9, <1>11, Zenon
<1>13. Len(gs) > 0
  BY <1>3, <1>8, <1>12, LenProperties
<1> HIDE DEF gs
<1>14. p.kind = "in" /\ p.groups = gs
  BY DEF Packet
<1> HIDE DEF p
<1>15. WellMade(p)
  BY <1>12, <1>13, <1>14 DEF WellMade, G
<1>16. QED
  BY <1>6, <1>15

(* What the client sends *)
LEMMA PlainIsMade ==
  ASSUME NEW fields \in Seq(Bodies)
  PROVE  WellMade(Plain(fields))
BY OneGroup DEF Plain

LEMMA FewAreMade == WellMade(Pong) /\ WellMade(SendStatus)
<1> DEFINE S == Bodies
<1>1. Num(1, 4) \in S
  BY BodiesAre
<1> HIDE DEF S
<1>2. << >> \in Seq(S) /\ <<Num(1, 4)>> \in Seq(S)
  BY <1>1, Tuples, EmptySeq
<1>3. QED
  BY <1>2, PlainIsMade DEF Pong, SendStatus, S

LEMMA BlobType ==
  ASSUME NEW s \in Seq(Byte)
  PROVE  Blob(s) \in Seq(Byte)
<1> DEFINE n == ((Len(s) \div 8) + 1) * 8
<1>1. Len(s) \in Nat
  BY LenProperties
<1>2. n \in Nat
  BY <1>1
<1> HIDE DEF n
<1>3. \A i \in 1..n : (IF i <= Len(s) THEN s[i] ELSE 0) \in Byte
  <2> TAKE i \in 1..n
  <2>1. i <= Len(s) => s[i] \in Byte
    BY <1>1, <1>2, ElementOfSeq
  <2>2. QED
    BY <2>1, SmallBytes
<1>4. [i \in 1..n |-> IF i <= Len(s) THEN s[i] ELSE 0] \in [1..n -> Byte]
  BY <1>3
<1>5. Blob(s) \in [1..n -> Byte]
  BY <1>4 DEF Blob, n
<1>6. QED
  BY <1>2, <1>5, IsASeq

LEMMA SomeBytes ==
  /\ <<1, 2>> \in Seq(Byte) /\ <<2, 1>> \in Seq(Byte)
  /\ << 1 >> \in Seq(Byte) /\ << 3 >> \in Seq(Byte)
<1>1. 1 \in Byte /\ 2 \in Byte /\ 3 \in Byte
  BY SmallBytes
<1>2. QED
  BY <1>1, Tuples

LEMMA LoginsAreMade ==
  ASSUME NEW a \in Words
  PROVE  WellMade(Login(a)) /\ WellMade(ReqUserInfo(a)) /\ WellMade(SendUsername(a, << 1 >>))
<1> DEFINE S == Bodies
           b == <<1, 2>>
           c == <<2, 1>>
           d == << 1 >>
           e == << 3 >>
           x == Blob(a \o e \o d)
<1>1. a \in Seq(Byte) /\ b \in Seq(Byte) /\ c \in Seq(Byte) /\ d \in Seq(Byte) /\ e \in Seq(Byte)
  BY TextsAre, SomeBytes
<1> HIDE DEF b, c, d, e
<1>2. a \o e \in Seq(Byte)
  BY <1>1, ConcatProperties
<1>3. (a \o e) \o d \in Seq(Byte)
  BY <1>1, <1>2, ConcatProperties
<1>4. x \in Seq(Byte)
  BY <1>3, BlobType
<1> HIDE DEF x
<1>5. /\ Str(1, a) \in S /\ Str(1, b) \in S /\ Str(1, c) \in S /\ Data(2, x) \in S
      /\ Num(2, 3) \in S /\ Num(IntSize, 4) \in S /\ Zeroes \in S /\ Lit(4) \in S /\ Lit(2) \in S
  BY <1>1, <1>4, IntsAreSized, BodiesAre
<1> HIDE DEF S
<1>6. /\ <<Str(1, a), Str(1, b), Str(1, c), Num(2, 3), Num(IntSize, 4), Zeroes, Lit(4)>> \in Seq(S)
      /\ <<Str(1, a)>> \in Seq(S)
      /\ <<Str(1, b), Data(2, x), Lit(2), Lit(4)>> \in Seq(S)
  BY <1>5, Tuples
<1>7. QED
  BY <1>6, PlainIsMade DEF Login, ReqUserInfo, SendUsername, S, x, b, c, d, e

LEMMA TextsAreMade ==
  ASSUME NEW a \in Words, NEW b \in Words
  PROVE  /\ WellMade(RoomLeaveEnter(a, b)) /\ WellMade(Msg(a, a, b)) /\ WellMade(OfMsg(a, a, b))
         /\ WellMade(SendRoomMsg(a, a, b)) /\ WellMade(CreateRoom(a, a, b))
<1> DEFINE S == Bodies
           d == Data(2, Style \o b)
<1>1. a \in Seq(Byte) /\ b \in Seq(Byte) /\ Style \o b \in Seq(Byte)
  BY TextsAre
<1>2. /\ Str(1, a) \in S /\ Str(1, b) \in S /\ Str(2, b) \in S /\ d \in S
      /\ Zeroes \in S /\ Lit(1) \in S /\ Num(1, 1) \in S
  BY <1>1, BodiesAre
<1> HIDE DEF S, d
<1>3. /\ <<Str(1, a), Str(1, b)>> \in Seq(S)
      /\ <<Str(1, a), Zeroes, Lit(1), Str(1, a), d>> \in Seq(S)
      /\ <<Str(1, a), Zeroes, Lit(1), Str(1, a), Str(2, b)>> \in Seq(S)
      /\ <<Str(1, a), Str(1, a), d>> \in Seq(S)
      /\ <<Str(1, a), Str(1, a), Str(1, b), Num(1, 1), Zeroes, Zeroes>> \in Seq(S)
  BY <1>2, Tuples
<1>4. QED
  BY <1>3, PlainIsMade DEF RoomLeaveEnter, Msg, OfMsg, SendRoomMsg, CreateRoom, S, d

LEMMA DeletionsAreMade ==
  ASSUME NEW ns \in Names \ {<< >>}
  PROVE  WellMade(ReqDelUsers(ns))
<1> DEFINE S == Bodies
           G == Groups
           n == Len(ns)
           m == n - 1
<1>1. n \in Nat /\ n > 0 /\ \A i \in 1..n : ns[i] \in Seq(Byte)
  <2>1. n \in Nat /\ \A i \in 1..n : ns[i] \in Seq(Byte)
    BY TextsAre
  <2>2. ns \in Seq(Words) /\ ns # << >>
    BY PacketsAssumption DEF PacketsAssumption
  <2>3. QED
    BY <2>1, <2>2, EmptySeq
<1>2. m \in Nat /\ \A i \in 1..m : i + 1 \in 1..n
  BY <1>1
<1>3. Num(2, n) \in S
  BY <1>1, BodiesAre
<1>4. \A i \in 1..n : Str(1, ns[i]) \in S
  BY <1>1, BodiesAre
<1>5. <<Num(2, n), Str(1, ns[1])>> \in Seq(S)
  <2>1. Str(1, ns[1]) \in S
    BY <1>1, <1>4
  <2> HIDE DEF S, n
  <2>2. QED
    BY <1>3, <2>1, Tuples
<1>6. \A i \in 1..m : <<Str(1, ns[i + 1])>> \in G
  <2> TAKE i \in 1..m
  <2>1. Str(1, ns[i + 1]) \in S
    BY <1>2, <1>4
  <2> HIDE DEF S
  <2>2. <<Str(1, ns[i + 1])>> \in Seq(S)
    BY <2>1, Tuples
  <2>3. QED
    BY <2>2, BodiesAreGroups DEF S
<1> HIDE DEF G, m
<1>7. [i \in 1..m |-> <<Str(1, ns[i + 1])>>] \in [1..m -> G]
  BY <1>6
<1>8. WellMade(Packet("out", <<<<Num(2, n), Str(1, ns[1])>>>>
                 \o [i \in 1..m |-> <<Str(1, ns[i + 1])>>]))
  BY <1>2, <1>5, <1>7, GroupsBehind DEF G
<1>9. QED
  BY <1>8 DEF ReqDelUsers, m

LEMMA SearchesAreMade ==
  ASSUME NEW n \in 0..2
  PROVE  WellMade(SearchNicks(n))
<1> DEFINE S == Bodies
           G == Groups
<1>1. n \in Nat
  OBVIOUS
<1>2. Num(2, n) \in S /\ Num(1, 2) \in S /\ \A i \in 1..n : Num(1, i) \in S
  BY <1>1, BodiesAre
<1>3. <<Num(2, n)>> \in Seq(S)
  <2> HIDE DEF S
  <2>1. QED
    BY <1>2, Tuples
<1>4. \A i \in 1..n : <<Num(1, i), Num(1, 2)>> \in G
  <2> TAKE i \in 1..n
  <2> HIDE DEF S
  <2>1. <<Num(1, i), Num(1, 2)>> \in Seq(S)
    BY <1>2, Tuples
  <2>2. QED
    BY <2>1, BodiesAreGroups DEF S
<1> HIDE DEF G
<1>5. [i \in 1..n |-> <<Num(1, i), Num(1, 2)>>] \in [1..n -> G]
  BY <1>4
<1>6. QED
  BY <1>1, <1>3, <1>5, GroupsBehind DEF SearchNicks, G

(* Every packet there is *)
LEMMA AllAreMade ==
  ASSUME NEW p \in {Packet("edit", << >>)} \cup Arriving \cup Leaving
  PROVE  WellMade(p)
<1>1. CASE p = Packet("edit", << >>)
  <2> DEFINE gs == << >>
  <2>1. gs \in Seq(Groups)
    OBVIOUS
  <2> HIDE DEF gs
  <2>2. p.kind = "edit" /\ p.groups = gs
    BY <1>1 DEF Packet, gs
  <2>3. QED
    BY <2>1, <2>2 DEF WellMade
<1>2. CASE p \in Arriving
  <2> DEFINE A == UNION {{Wlcome(a), StatusUser(a), UserChgStatus(a), RoomIsFull(a), Nicks(a)} : a \in Words}
             B == UNION {{RoomUEnterOrLeave(a, b), Message(a, a, b), RoomInfo(a, b, a), RoomMsg(a, a, b)} :
                       a \in Words, b \in Words}
             C == UNION {{SndUsers(ns), RoomList(ns), FoundNicks(ns)} : ns \in Names}
             D == UNION {{UserInfo(a, ns), RoomUserList(a, ns)} : a \in Words, ns \in Names}
             E == {InfoLogin(bs, ps) : bs \in Names, ps \in Names}
  <2>1. p \in {Helo, Redir, ErrPkt} \/ p \in A \/ p \in B \/ p \in C \/ p \in D \/ p \in E
    <3>1. Arriving = {Helo, Redir, ErrPkt} \cup A \cup B \cup C \cup D \cup E
      BY DEF Arriving
    <3> HIDE DEF A, B, C, D, E
    <3>2. QED
      BY <1>2, <3>1
  <2>2. CASE p \in {Helo, Redir, ErrPkt}
    BY <2>2, HeadsAreMade
  <2>3. CASE p \in A
    <3>1. PICK a \in Words : p \in {Wlcome(a), StatusUser(a), UserChgStatus(a), RoomIsFull(a), Nicks(a)}
      BY <2>3
    <3>2. QED
      BY <3>1, WordsAreMade
  <2>4. CASE p \in B
    <3>1. PICK a \in Words, b \in Words :
                 p \in {RoomUEnterOrLeave(a, b), Message(a, a, b), RoomInfo(a, b, a), RoomMsg(a, a, b)}
      BY <2>4
    <3>2. QED
      BY <3>1, MessagesAreMade, PairsAreMade
  <2>5. CASE p \in C
    <3>1. PICK ns \in Names : p \in {SndUsers(ns), RoomList(ns), FoundNicks(ns)}
      BY <2>5
    <3>2. QED
      BY <3>1, ListsAreMade
  <2>6. CASE p \in D
    <3>1. PICK a \in Words, ns \in Names : p \in {UserInfo(a, ns), RoomUserList(a, ns)}
      BY <2>6
    <3>2. QED
      BY <3>1, ListsOfAreMade
  <2>7. CASE p \in E
    BY <2>7, InfoLoginsAreMade
  <2> HIDE DEF A, B, C, D, E
  <2>8. QED
    BY <2>1, <2>2, <2>3, <2>4, <2>5, <2>6, <2>7
<1>3. CASE p \in Leaving
  <2> DEFINE A == UNION {{Login(a), ReqUserInfo(a), SendUsername(a, << 1 >>)} : a \in Words}
             B == UNION {{RoomLeaveEnter(a, b), Msg(a, a, b), OfMsg(a, a, b), SendRoomMsg(a, a, b),
                        CreateRoom(a, a, b)} : a \in Words, b \in Words}
             C == {ReqDelUsers(ns) : ns \in Names \ {<< >>}}
             D == {SearchNicks(n) : n \in 0..2}
  <2>1. p \in {Pong, SendStatus} \/ p \in A \/ p \in B \/ p \in C \/ p \in D
    <3>1. Leaving = {Pong, SendStatus} \cup A \cup B \cup C \cup D
      BY DEF Leaving
    <3> HIDE DEF A, B, C, D
    <3>2. QED
      BY <1>3, <3>1
  <2>2. CASE p \in {Pong, SendStatus}
    BY <2>2, FewAreMade
  <2>3. CASE p \in A
    <3>1. PICK a \in Words : p \in {Login(a), ReqUserInfo(a), SendUsername(a, << 1 >>)}
      BY <2>3
    <3>2. QED
      BY <3>1, LoginsAreMade
  <2>4. CASE p \in B
    <3>1. PICK a \in Words, b \in Words :
                 p \in {RoomLeaveEnter(a, b), Msg(a, a, b), OfMsg(a, a, b), SendRoomMsg(a, a, b),
                        CreateRoom(a, a, b)}
      BY <2>4
    <3>2. QED
      BY <3>1, TextsAreMade
  <2>5. CASE p \in C
    BY <2>5, DeletionsAreMade
  <2>6. CASE p \in D
    BY <2>6, SearchesAreMade
  <2> HIDE DEF A, B, C, D
  <2>7. QED
    BY <2>1, <2>2, <2>3, <2>4, <2>5, <2>6
<1>4. QED
  BY <1>1, <1>2, <1>3

-----------------------------------------------------------------------------
(* The coding and the lengths that c6_send fills in                        *)

LEMMA KeyByte ==
  ASSUME NEW i \in 0..6
  PROVE  ReorderedKey[i] \in Byte
<1> DEFINE k == Key[6] % 7
           j == (i * k) % 7
<1>1. \A m \in 1..8 : Key[m] \in Byte
  BY PacketsAssumption DEF PacketsAssumption
<1>2. Key[6] \in Nat
  <2>1. Key[6] \in Byte
    BY <1>1
  <2>2. QED
    BY <2>1, BytesAreNumbers
<1>3. k \in 0..6
  BY <1>2
<1> HIDE DEF k
<1>4. i * k \in Nat
  BY <1>3
<1>5. j \in 0..6
  <2> DEFINE n == i * k
  <2> HIDE DEF n
  <2>1. n \in Nat
    BY <1>4 DEF n
  <2>2. n % 7 \in 0..6
    BY <2>1
  <2>3. QED
    BY <2>2 DEF n
<1> HIDE DEF j
<1>6. ReorderedKey[i] = IF i = 0 THEN Key[1] ELSE Key[j + 1]
  BY DEF ReorderedKey, j, k
<1>7. j + 1 \in 1..8 /\ 1 \in 1..8
  BY <1>5
<1>8. QED
  BY <1>1, <1>6, <1>7

LEMMA KeyOf ==
  ASSUME NEW i \in Nat, i > 0
  PROVE  ReorderedKey[(i - 1) % 7] \in Byte
<1> DEFINE j == (i - 1) % 7
<1>1. j \in 0..6
  OBVIOUS
<1> HIDE DEF j
<1>2. ReorderedKey[j] \in Byte
  BY <1>1, KeyByte
<1>3. QED
  BY <1>2 DEF j

LEMMA XorByte ==
  ASSUME NEW a \in Byte, NEW b \in Byte
  PROVE  XorOf[<<a, b>>] \in Byte /\ XorOf[<<XorOf[<<a, b>>], b>>] = a
<1>1. XorOf \in [Byte \X Byte -> Byte]
  BY PacketsAssumption DEF PacketsAssumption
<1>2. XorOf[<<a, b>>] \in Byte
  BY <1>1
<1>3. XorOf[<<XorOf[<<a, b>>], b>>] = a
  BY PacketsAssumption DEF PacketsAssumption
<1>4. QED
  BY <1>2, <1>3

LEMMA XorType ==
  ASSUME NEW s \in Seq(Byte)
  PROVE  /\ XorCode(s) \in Seq(Byte) /\ Len(XorCode(s)) = Len(s)
         /\ \A i \in 1..Len(s) : XorCode(s)[i] = XorOf[<<s[i], ReorderedKey[(i - 1) % 7]>>]
<1>1. PICK n \in Nat : n = Len(s) /\ DOMAIN s = 1..n
  BY LenProperties
<1>2. \A i \in 1..n : XorOf[<<s[i], ReorderedKey[(i - 1) % 7]>>] \in Byte
  <2> TAKE i \in 1..n
  <2>1. s[i] \in Byte
    BY <1>1, ElementOfSeq
  <2>2. ReorderedKey[(i - 1) % 7] \in Byte
    BY KeyOf
  <2>3. QED
    BY <2>1, <2>2, XorByte
<1>3. XorCode(s) = [i \in 1..n |-> XorOf[<<s[i], ReorderedKey[(i - 1) % 7]>>]]
  BY <1>1 DEF XorCode
<1>4. XorCode(s) \in [1..n -> Byte]
  BY <1>2, <1>3
<1>5. XorCode(s) \in Seq(Byte) /\ Len(XorCode(s)) = n
  BY <1>4, IsASeq
<1>6. QED
  BY <1>1, <1>3, <1>5

LEMMA XorTwice ==
  ASSUME NEW s \in Seq(Byte)
  PROVE  XorCode(XorCode(s)) = s
<1> DEFINE x == XorCode(s)
           y == XorCode(x)
           n == Len(s)
<1>1. /\ x \in Seq(Byte) /\ Len(x) = n /\ n \in Nat
      /\ \A i \in 1..n : x[i] = XorOf[<<s[i], ReorderedKey[(i - 1) % 7]>>]
  BY XorType, LenProperties
<1> HIDE DEF x
<1>2. /\ y \in Seq(Byte) /\ Len(y) = n
      /\ \A i \in 1..n : y[i] = XorOf[<<x[i], ReorderedKey[(i - 1) % 7]>>]
  BY <1>1, XorType
<1> HIDE DEF y
<1>3. \A i \in 1..n : y[i] = s[i]
  <2> TAKE i \in 1..n
  <2> DEFINE b == ReorderedKey[(i - 1) % 7]
             a == s[i]
  <2>1. b \in Byte /\ a \in Byte
    BY <1>1, KeyOf, ElementOfSeq
  <2>2. x[i] = XorOf[<<a, b>>] /\ y[i] = XorOf[<<x[i], b>>]
    BY <1>1, <1>2
  <2> HIDE DEF a, b
  <2>3. y[i] = a
    BY <2>1, <2>2, XorByte
  <2>4. QED
    BY <2>3 DEF a
<1>4. y = s
  BY <1>2, <1>3, SeqEqual
<1>5. QED
  BY <1>4 DEF y, x

Joint(x, a, b) ==
  /\ x \in Seq(Byte) /\ Len(x) = Len(a) + Len(b)
  /\ \A i \in 1..Len(b) : x[Len(a) + i] = b[i]

LEMMA JoinedLength ==
  ASSUME NEW a \in Seq(Byte), NEW b \in Seq(Byte), NEW x, Joins(x, a, b)
  PROVE  Joint(x, a, b)
<1>1. x = a \o b
  BY DEF Joins
<1>2. /\ a \o b \in Seq(Byte)
      /\ Len(a \o b) = Len(a) + Len(b)
      /\ \A i \in 1..(Len(a) + Len(b)) : (a \o b)[i] = IF i <= Len(a) THEN a[i] ELSE b[i - Len(a)]
  BY Joined2
<1>3. PICK m \in Nat, n \in Nat : m = Len(a) /\ n = Len(b)
  BY LenProperties
<1>4. ASSUME NEW i \in 1..n
      PROVE  x[m + i] = b[i]
  <2>1. m + i \in 1..(m + n) /\ ~(m + i <= m) /\ (m + i) - m = i
    OBVIOUS
  <2>2. QED
    BY <1>1, <1>2, <1>3, <2>1
<1>5. QED
  BY <1>1, <1>2, <1>3, <1>4 DEF Joint

(* Four fields of a head: two constants and two numbers *)
LEMMA HeadsOf ==
  ASSUME NEW b \in {1, 2, 3, 4}, NEW c \in {1, 2, 3, 4}, NEW n \in Nat, NEW m \in Nat,
         NEW h, h = Packed(<<Lit(b), Lit(c), Num(2, n), Num(2, m)>>)
  PROVE  /\ <<Lit(b), Lit(c), Num(2, n), Num(2, m)>> \in Seq(Bodies)
         /\ h \in Seq(Byte) /\ Len(h) = 6
         /\ \A i \in 1..2 : h[4 + i] = Digits(m, 2)[i]
<1> DEFINE S == Bodies
           p == Lit(b)
           q == Lit(c)
           r == Num(2, n)
           s == Num(2, m)
           two == <<p, q>>
           three == <<p, q, r>>
           four == <<p, q, r, s>>
<1>1. p \in S /\ q \in S /\ r \in S /\ s \in S
  BY BodiesAre
<1>2. /\ p \in Fields /\ q \in Fields /\ r \in Fields /\ s \in Fields
      /\ p.t = "lit" /\ q.t = "lit" /\ r.t = "num" /\ s.t = "num"
      /\ r.w = 2 /\ s.w = 2 /\ r.v = <<n>> /\ s.v = <<m>>
  BY <1>1 DEF Bodies, Lit, Num, Field
<1>3. Len(BytesOf(p)) = 1 /\ Len(BytesOf(q)) = 1 /\ BytesOf(p) \in Seq(Byte) /\ BytesOf(q) \in Seq(Byte)
  <2> HIDE DEF p, q
  <2>1. BytesOf(p) = p.v /\ BytesOf(q) = q.v /\ BytesOf(p) \in Seq(Byte) /\ BytesOf(q) \in Seq(Byte)
    BY <1>2, FieldBytes
  <2>2. Len(p.v) = 1 /\ Len(q.v) = 1
    BY <1>2, FieldParts
  <2>3. QED
    BY <2>1, <2>2
<1>4. /\ Len(BytesOf(r)) = 2 /\ Len(BytesOf(s)) = 2
      /\ BytesOf(r) \in Seq(Byte) /\ BytesOf(s) \in Seq(Byte)
      /\ BytesOf(s) = Digits(m, 2)
  <2> HIDE DEF r, s
  <2>1. /\ BytesOf(r) = Digits(r.v[1], r.w) /\ BytesOf(s) = Digits(s.v[1], s.w)
        /\ r.v[1] \in Nat /\ s.v[1] \in Nat /\ r.w \in Widths /\ s.w \in Widths
    BY <1>2, FieldBytes, FieldParts
  <2>2. /\ Digits(r.v[1], r.w) \in Seq(Byte) /\ Len(Digits(r.v[1], r.w)) = r.w
        /\ Digits(s.v[1], s.w) \in Seq(Byte) /\ Len(Digits(s.v[1], s.w)) = s.w
    BY <2>1, DigitsType
  <2>3. QED
    BY <1>2, <2>1, <2>2
<1> HIDE DEF p, q, r, s
<1>5. two = <<p>> \o <<q>> /\ two \in Seq(Fields)
  BY <1>2, PairIsConcat
<1>6. /\ three = Append(two, r) /\ four = Append(three, s)
      /\ three \in Seq(Fields) /\ four \in Seq(Fields)
  <2>1. three = Append(two, r)
    OBVIOUS
  <2>2. four = Append(three, s)
    OBVIOUS
  <2> DEFINE F == Fields
  <2>3. p \in F /\ q \in F /\ r \in F /\ s \in F
    BY <1>2
  <2> HIDE DEF F
  <2>4. three \in Seq(F) /\ four \in Seq(F)
    BY <2>3, Tuples
  <2>5. QED
    BY <2>1, <2>2, <2>4 DEF F
<1>7. four \in Seq(S)
  <2> HIDE DEF S
  <2>1. QED
    BY <1>1, Tuples
<1>8. Packed(two) = BytesOf(p) \o BytesOf(q)
  <2>1. /\ <<p>> \in Seq(Fields) /\ Packed(<<p>>) = BytesOf(p)
        /\ <<q>> \in Seq(Fields) /\ Packed(<<q>>) = BytesOf(q)
    BY <1>2, PackedOne
  <2> DEFINE x == <<p>>
             y == <<q>>
  <2>2. x \in Seq(Fields) /\ y \in Seq(Fields) /\ two = x \o y
    BY <1>5, <2>1
  <2>3. Packed(x) = BytesOf(p) /\ Packed(y) = BytesOf(q)
    BY <2>1
  <2> HIDE DEF x, y, two
  <2>4. QED
    BY <2>2, <2>3, PackedConcat
<1> HIDE DEF two, three, four
<1>9. Packed(three) = Packed(two) \o BytesOf(r)
  BY <1>2, <1>5, <1>6, PackedAppend
<1>10. Packed(four) = Packed(three) \o BytesOf(s)
  BY <1>2, <1>6, PackedAppend
<1>11. Packed(two) \in Seq(Byte) /\ Len(Packed(two)) = 1 + 1
  <2> DEFINE x == BytesOf(p)
             y == BytesOf(q)
             z == Packed(two)
  <2>1. /\ x \in Seq(Byte) /\ Len(x) = 1
        /\ y \in Seq(Byte) /\ Len(y) = 1
    BY <1>3
  <2>2. Joins(z, x, y)
    BY <1>8 DEF Joins
  <2> HIDE DEF x, y, z
  <2>3. Joint(z, x, y)
    BY <2>1, <2>2, JoinedLength
  <2>4. z \in Seq(Byte) /\ Len(z) = 1 + 1
    BY <2>1, <2>3 DEF Joint
  <2>5. QED
    BY <2>4 DEF z
<1>12. Packed(three) \in Seq(Byte) /\ Len(Packed(three)) = 2 + 2
  <2> DEFINE x == Packed(two)
             y == BytesOf(r)
             z == Packed(three)
  <2>1. /\ x \in Seq(Byte) /\ Len(x) = 2
        /\ y \in Seq(Byte) /\ Len(y) = 2
    BY <1>4, <1>11
  <2>2. Joins(z, x, y)
    BY <1>9 DEF Joins
  <2> HIDE DEF x, y, z
  <2>3. Joint(z, x, y)
    BY <2>1, <2>2, JoinedLength
  <2>4. z \in Seq(Byte) /\ Len(z) = 2 + 2
    BY <2>1, <2>3 DEF Joint
  <2>5. QED
    BY <2>4 DEF z
<1>13. /\ Packed(four) \in Seq(Byte) /\ Len(Packed(four)) = 6
       /\ \A i \in 1..2 : Packed(four)[4 + i] = Digits(m, 2)[i]
  <2> DEFINE x == Packed(three)
             y == Digits(m, 2)
             z == Packed(four)
  <2>1. /\ x \in Seq(Byte) /\ Len(x) = 4
        /\ y \in Seq(Byte) /\ Len(y) = 2
    BY <1>4, <1>12
  <2>2. Joins(z, x, y)
    BY <1>4, <1>10 DEF Joins
  <2> HIDE DEF x, y, z
  <2>3. Joint(z, x, y)
    BY <2>1, <2>2, JoinedLength
  <2>4. /\ z \in Seq(Byte) /\ Len(z) = 4 + 2
        /\ \A i \in 1..2 : z[4 + i] = y[i]
    BY <2>1, <2>3 DEF Joint
  <2>5. QED
    BY <2>4 DEF z, y
<1>14. h = Packed(four)
  BY DEF four, p, q, r, s
<1>15. QED
  BY <1>7, <1>13, <1>14 DEF four, p, q, r, s, S

LEMMA CompletedIs ==
  ASSUME NEW payload \in Seq(Byte), Len(payload) >= HeadSize
  PROVE  /\ Completed(payload) \in Seq(Byte) /\ Len(Completed(payload)) = Len(payload)
         /\ \A i \in 1..Len(payload) : i > HeadSize => Completed(payload)[i] = payload[i]
         /\ Number(SubSeq(Completed(payload), 5, 6)) = (Len(payload) - HeadSize) % Values[2]
<1> DEFINE k == Len(payload) - HeadSize
           d == Digits(k, 2)
           c == Completed(payload)
           n == Len(payload)
<1>1. n \in Nat /\ k \in Nat /\ n >= 6 /\ 2 \in Widths /\ DOMAIN payload = 1..n
  BY LenProperties DEF HeadSize, Widths
<1>2. d \in Seq(Byte) /\ Len(d) = 2 /\ Number(d) = k % Values[2]
  <2> HIDE DEF k
  <2>1. QED
    BY <1>1, DigitsType, NumberOfDigits
<1>3. c = [payload EXCEPT ![5] = d[1], ![6] = d[2]]
  BY DEF Completed
<1> HIDE DEF d, c
<1>4. d[1] \in Byte /\ d[2] \in Byte
  <2>1. 1 \in 1..Len(d) /\ 2 \in 1..Len(d)
    BY <1>2
  <2>2. QED
    BY <1>2, <2>1, ElementOfSeq
<1> DEFINE x == [payload EXCEPT ![5] = d[1]]
<1>5. payload \in [1..n -> Byte] /\ 5 \in 1..n /\ 6 \in 1..n
  BY <1>1, SeqDef
<1>6. c = [x EXCEPT ![6] = d[2]]
  BY <1>3
<1> HIDE DEF n
<1>7. /\ x \in [1..n -> Byte] /\ x[5] = d[1]
      /\ \A i \in 1..n : i # 5 => x[i] = payload[i]
  BY <1>4, <1>5
<1> HIDE DEF x
<1>8a. /\ c \in [1..n -> Byte] /\ c[6] = d[2]
       /\ \A i \in 1..n : i # 6 => c[i] = x[i]
  BY <1>4, <1>5, <1>6, <1>7
<1>8. c \in Seq(Byte) /\ Len(c) = n
  BY <1>1, <1>8a, IsASeq
<1>9. /\ \A i \in 1..n : i > 6 => c[i] = payload[i]
      /\ c[5] = d[1] /\ c[6] = d[2]
  <2>1. c[5] = x[5]
    BY <1>5, <1>8a
  <2>2. ASSUME NEW i \in 1..n, i > 6
        PROVE  c[i] = payload[i]
    <3>1. i # 5 /\ i # 6
      BY <2>2
    <3>2. QED
      BY <1>7, <1>8a, <3>1
  <2>3. QED
    BY <1>7, <1>8a, <2>1, <2>2
<1>10. SubSeq(c, 5, 6) = d
  <2> DEFINE y == SubSeq(c, 4 + 1, 4 + 2)
  <2>1. ~(4 + 2 > Len(c))
    BY <1>1, <1>8
  <2>2. /\ y \in Seq(Byte) /\ Len(y) = 2
        /\ \A i \in 1..2 : y[i] = c[4 + i]
    BY <1>8, <2>1, SubBytes
  <2>3. y = SubSeq(c, 5, 6)
    OBVIOUS
  <2> HIDE DEF y
  <2>4. \A i \in 1..2 : y[i] = d[i]
    <3>1. 1 \in 1..2 /\ 2 \in 1..2 /\ 4 + 1 = 5 /\ 4 + 2 = 6
      OBVIOUS
    <3>2. y[1] = d[1] /\ y[2] = d[2]
      BY <1>9, <2>2, <3>1
    <3>3. QED
      BY <3>2
  <2>5. y = d
    BY <1>2, <2>2, <2>4, SeqEqual
  <2>6. QED
    BY <2>3, <2>5
<1>11. QED
  BY <1>2, <1>8, <1>9, <1>10 DEF HeadSize, c, n

(* Buffers made whole: of bytes, of two parts, and with a zero behind *)
LEMMA NewExact ==
  ASSUME NEW s \in Seq(Byte)
  PROVE  NewOf(s) = Exact(s)
<1> DEFINE u == BS!Padded(s, Len(s))
<1>1. Len(s) \in Nat
  BY LenProperties
<1>2. NewOf(s) = Exact(u)
  BY BufferAssumption, NewHolds
<1>3. /\ u \in Seq(Byte) /\ Len(u) = Len(s)
      /\ \A i \in 1..Len(s) : u[i] = IF i <= Len(s) THEN s[i] ELSE 0
  BY <1>1, BufferAssumption, PaddedProperties
<1> HIDE DEF u
<1>4. \A i \in 1..Len(s) : u[i] = s[i]
  BY <1>1, <1>3
<1>5. u = s
  BY <1>3, <1>4, SeqEqual
<1>6. QED
  BY <1>2, <1>5

ExactParts == \A t \in Seq(Byte) : Exact(t).mem = t /\ Exact(t).size = Len(t)

LEMMA PartsOfExact == ExactParts
BY DEF ExactParts, Exact, Buf

LEMMA SentHolds ==
  ASSUME NEW a \in Seq(Byte), NEW b \in Seq(Byte), NEW size, Summed(size, Len(a), Len(b))
  PROVE  Buf(Copy(Resize(a, size), Len(a), b, 0, Len(b)), size) = Exact(a \o b)
<1> DEFINE r == Resize(a, size)
           c == Copy(r, Len(a), b, 0, Len(b))
           j == a \o b
<1>1. PICK m \in Nat, n \in Nat : m = Len(a) /\ n = Len(b) /\ size = m + n
  BY LenProperties DEF Summed
<1>2. /\ r \in Memory /\ Len(r) = m + n
      /\ \A i \in 1..(m + n) : r[i] = IF i <= m THEN a[i] ELSE 0
  <2>1. a \in Memory /\ size \in Nat
    BY <1>1, BytesAreMemory
  <2>2. QED
    BY <1>1, <2>1, BufferAssumption, ResizeProperties
<1> HIDE DEF r
<1>3. \A i \in 1..n : b[i] \in Cell
  BY <1>1, BytesAreMemory
<1>4. /\ c \in Memory /\ Len(c) = m + n
      /\ \A i \in 1..(m + n) : c[i] = IF m < i /\ i <= m + n THEN b[i - m] ELSE r[i]
  <2> DEFINE d == Copy(r, m, b, 0, n)
  <2>1. r \in Memory /\ m \in Nat /\ n \in Nat
    BY <1>2
  <2>2. /\ d \in Memory /\ Len(d) = Len(r)
        /\ \A i \in 1..Len(r) : d[i] = IF m < i /\ i <= m + n THEN b[i - m] ELSE r[i]
    BY <1>3, <2>1, CopyStart
  <2>3. c = d /\ Len(r) = m + n
    BY <1>1, <1>2
  <2> HIDE DEF c, d
  <2>4. QED
    BY <2>2, <2>3
<1> HIDE DEF c
<1>5. /\ j \in Seq(Byte) /\ Len(j) = m + n
      /\ \A i \in 1..(m + n) : j[i] = IF i <= m THEN a[i] ELSE b[i - m]
  BY <1>1, Joined2
<1> HIDE DEF j
<1>6. \A i \in 1..(m + n) : c[i] = j[i]
  BY <1>1, <1>2, <1>4, <1>5
<1>7. c = j
  BY <1>4, <1>5, <1>6, SameBytes
<1>8. QED
  BY <1>1, <1>5, <1>7 DEF Exact, c, j, r

LEMMA ZeroByte == << 0 >> \in Seq(Byte) /\ Len(<< 0 >>) = 1 /\ << 0 >>[1] = 0
<1>1. 0 \in Byte
  BY BufferAssumption DEF BufferAssumption
<1>2. QED
  BY <1>1, Tuples

LEMMA KeptHolds ==
  ASSUME NEW t \in Seq(Byte), NEW z, z = << 0 >>, NEW size, Summed(size, Len(t), 1)
  PROVE  /\ t \o z \in Seq(Byte) /\ Len(t \o z) = size
         /\ Buf(Resize(NewOf(t).mem, size), size) = Exact(t \o z)
<1> DEFINE r == Resize(t, size)
           j == t \o z
<1>1. PICK m \in Nat : m = Len(t) /\ size = m + 1
  BY LenProperties DEF Summed
<1>2. z \in Seq(Byte) /\ Len(z) = 1 /\ z[1] = 0
  BY ZeroByte
<1>3. NewOf(t).mem = t
  BY NewExact, PartsOfExact DEF ExactParts
<1>4. /\ r \in Memory /\ Len(r) = m + 1
      /\ \A i \in 1..(m + 1) : r[i] = IF i <= m THEN t[i] ELSE 0
  <2>1. t \in Memory /\ size \in Nat
    BY <1>1, BytesAreMemory
  <2>2. QED
    BY <1>1, <2>1, BufferAssumption, ResizeProperties
<1> HIDE DEF r
<1>5. /\ j \in Seq(Byte) /\ Len(j) = m + 1
      /\ \A i \in 1..(m + 1) : j[i] = IF i <= m THEN t[i] ELSE z[i - m]
  BY <1>1, <1>2, Joined2
<1> HIDE DEF j
<1>6. \A i \in 1..(m + 1) : r[i] = j[i]
  <2> TAKE i \in 1..(m + 1)
  <2>1. i <= m \/ i - m = 1
    BY <1>1
  <2>2. QED
    BY <1>1, <1>2, <1>4, <1>5, <2>1
<1>7. r = j
  BY <1>4, <1>5, <1>6, SameBytes
<1>8. Buf(r, size) = Exact(j)
  BY <1>1, <1>5, <1>7 DEF Exact
<1>9. QED
  BY <1>1, <1>3, <1>5, <1>8 DEF j, r

(* What stands behind a head of six bytes, and its last two *)
Headed(t, h, x) ==
  /\ t \in Seq(Byte) /\ Len(t) = HeadSize + Len(x)
  /\ SubSeq(t, HeadSize + 1, Len(t)) = x
  /\ SubSeq(t, 5, 6) = <<h[5], h[6]>>

LEMMA BehindHead ==
  ASSUME NEW h \in Seq(Byte), Len(h) = HeadSize, NEW x \in Seq(Byte), NEW t, Joins(t, h, x)
  PROVE  Headed(t, h, x)
<1>1. PICK n \in Nat : n = Len(x)
  BY LenProperties
<1>2. t = h \o x /\ Len(h) = 6
  BY DEF Joins, HeadSize
<1>3. /\ t \in Seq(Byte) /\ Len(t) = 6 + n
      /\ \A i \in 1..(6 + n) : t[i] = IF i <= 6 THEN h[i] ELSE x[i - 6]
  <2>1. /\ h \o x \in Seq(Byte)
        /\ Len(h \o x) = Len(h) + Len(x)
        /\ \A i \in 1..(Len(h) + Len(x)) : (h \o x)[i] = IF i <= Len(h) THEN h[i] ELSE x[i - Len(h)]
    BY Joined2
  <2>2. QED
    BY <1>1, <1>2, <2>1
<1>4. SubSeq(t, 6 + 1, 6 + n) = x
  <2> DEFINE y == SubSeq(t, 6 + 1, 6 + n)
  <2>1. ~(6 + n > Len(t))
    BY <1>3
  <2>2. /\ y \in Seq(Byte) /\ Len(y) = n
        /\ \A i \in 1..n : y[i] = t[6 + i]
    BY <1>3, <2>1, SubBytes
  <2> HIDE DEF y
  <2>3. \A i \in 1..n : y[i] = x[i]
    <3> TAKE i \in 1..n
    <3>1. 6 + i \in 1..(6 + n) /\ ~(6 + i <= 6) /\ (6 + i) - 6 = i
      OBVIOUS
    <3>2. QED
      BY <1>3, <2>2, <3>1
  <2>4. y = x
    BY <1>1, <2>2, <2>3, SeqEqual
  <2>5. QED
    BY <2>4 DEF y
<1>5. SubSeq(t, 5, 6) = <<h[5], h[6]>>
  <2> DEFINE y == SubSeq(t, 4 + 1, 4 + 2)
  <2>1. ~(4 + 2 > Len(t))
    BY <1>3
  <2>2. /\ y \in Seq(Byte) /\ Len(y) = 2
        /\ \A i \in 1..2 : y[i] = t[4 + i]
    BY <1>3, <2>1, SubBytes
  <2>3. y = SubSeq(t, 5, 6)
    OBVIOUS
  <2> HIDE DEF y
  <2>4. y[1] = h[5] /\ y[2] = h[6]
    <3>1. 1 \in 1..2 /\ 2 \in 1..2 /\ 4 + 1 = 5 /\ 4 + 2 = 6 /\ 5 \in 1..(6 + n) /\ 6 \in 1..(6 + n)
      OBVIOUS
    <3>2. QED
      BY <1>3, <2>2, <3>1
  <2>5. y = <<h[5], h[6]>>
    <3> DEFINE d == <<h[5], h[6]>>
    <3>1. h[5] \in Byte /\ h[6] \in Byte
      <4>1. 5 \in 1..Len(h) /\ 6 \in 1..Len(h)
        BY <1>2
      <4>2. QED
        BY <4>1, ElementOfSeq
    <3>2. d \in Seq(Byte) /\ Len(d) = 2 /\ d[1] = h[5] /\ d[2] = h[6]
      BY <3>1, Tuples
    <3>3. \A i \in 1..2 : y[i] = d[i]
      BY <2>4, <3>2
    <3> HIDE DEF d
    <3>4. y = d
      BY <2>2, <3>2, <3>3, SeqEqual
    <3>5. QED
      BY <3>4 DEF d
  <2>6. QED
    BY <2>3, <2>5
<1>6. QED
  BY <1>1, <1>3, <1>4, <1>5 DEF Headed, HeadSize

(* The head of everything the client sends *)
HeadBytes == Packed(Head6(SomeId))

LEMMA HeadBytesAre ==
  /\ Head6(SomeId) \in Seq(Bodies) /\ Head6(SomeId) \in Seq(Fields)
  /\ HeadBytes \in Seq(Byte) /\ Len(HeadBytes) = HeadSize
<1> DEFINE h == Packed(<<Lit(1), Lit(2), Num(2, 3), Num(2, 0)>>)
<1>1. Head6(SomeId) = <<Lit(1), Lit(2), Num(2, 3), Num(2, 0)>> /\ HeadBytes = h
  BY DEF Head6, SomeId, HeadBytes
<1> HIDE DEF h
<1>2. /\ <<Lit(1), Lit(2), Num(2, 3), Num(2, 0)>> \in Seq(Bodies)
      /\ h \in Seq(Byte) /\ Len(h) = 6
  <2>1. 1 \in {1, 2, 3, 4} /\ 2 \in {1, 2, 3, 4} /\ 3 \in Nat /\ 0 \in Nat
    OBVIOUS
  <2>2. QED
    BY <2>1, HeadsOf DEF h
<1>3. Head6(SomeId) \in Seq(Bodies)
  BY <1>1, <1>2
<1>4. Head6(SomeId) \in Seq(Fields)
  BY <1>3, BodiesAreFields
<1>5. QED
  BY <1>1, <1>2, <1>3, <1>4 DEF HeadSize

LEMMA HeadOnGroup ==
  ASSUME NEW g \in Seq(Fields)
  PROVE  /\ Head6(SomeId) \o g \in Seq(Fields)
         /\ Packed(Head6(SomeId) \o g) = HeadBytes \o Packed(g)
<1> DEFINE h == Head6(SomeId)
<1>1. h \in Seq(Fields)
  BY HeadBytesAre
<1>2. HeadBytes = Packed(h)
  BY DEF HeadBytes
<1> HIDE DEF h
<1>3. h \o g \in Seq(Fields)
  BY <1>1, ConcatProperties
<1>4. Packed(h \o g) = HeadBytes \o Packed(g)
  BY <1>1, <1>2, PackedConcat
<1>5. QED
  BY <1>3, <1>4 DEF h

LEMMA WrappedGroup ==
  ASSUME NEW g \in Seq(Fields), NEW s \in Seq(Byte)
  PROVE  Packed(Head6(SomeId) \o g \o <<Rest(s)>>) = HeadBytes \o (Packed(g) \o s)
<1> DEFINE h == Head6(SomeId)
           hg == h \o g
           r == <<Rest(s)>>
           a == HeadBytes
           b == Packed(g)
<1>1. r \in Seq(Fields) /\ Packed(r) = s
  BY RestIs, PackedOne
<1>2. hg \in Seq(Fields) /\ Packed(hg) = a \o b
  BY HeadOnGroup
<1> HIDE DEF hg, r
<1>3. Packed(hg \o r) = Packed(hg) \o Packed(r)
  BY <1>1, <1>2, PackedConcat
<1>4. a \in Seq(Byte) /\ b \in Seq(Byte)
  BY HeadBytesAre, PackedType
<1> HIDE DEF a, b
<1>5. (a \o b) \o s = a \o (b \o s)
  BY <1>4, ConcatAssociative, SMTT(30)
<1>6. Packed(hg \o r) = a \o (b \o s)
  BY <1>1, <1>2, <1>3, <1>5
<1>7. QED
  BY <1>6 DEF hg, r, a, b, h

(* The bytes a caller sees *)
LEMMA BufferIs ==
  ASSUME IInv
  PROVE  /\ Text(buf) \in Seq(Byte) /\ buf = Exact(Text(buf)) /\ buf.size = Len(Text(buf))
         /\ live \in BOOLEAN /\ (live \/ Text(buf) = << >>)
<1>1. PICK t \in Seq(Byte) : buf = Exact(t) /\ (live \/ t = << >>)
  BY DEF IInv
<1>2. Text(buf) = t
  BY <1>1, TextOfExact
<1>3. buf.size = Len(t)
  BY <1>1, PartsOfExact DEF ExactParts
<1>4. QED
  BY <1>1, <1>2, <1>3 DEF IInv

(* buf_insert_pack moves or zeroes what buf_insert_size moves and zeroes *)
SameMemory(m, o) == Len(m) = Len(o) /\ \A i \in 1..Len(m) : m[i] = o[i]

LEMMA MemoryIsSame ==
  ASSUME NEW m \in Memory, NEW o \in Memory, SameMemory(m, o)
  PROVE  m = o
BY SeqEqual DEF SameMemory, Memory

LEMMA ZeroOfNothing ==
  ASSUME NEW m \in Memory, NEW p \in Nat
  PROVE  Zero(m, p, 0) = m
<1> DEFINE z == Zero(m, p, 0)
<1>1. p \in Int /\ 0 \in Int /\ Len(m) \in Nat
  BY MemoryCells
<1>2. /\ z \in Memory /\ Len(z) = Len(m)
      /\ \A i \in 1..Len(m) : z[i] = IF p < i /\ i <= p + 0 THEN 0 ELSE m[i]
  BY <1>1, BufferAssumption, ZeroProperties
<1> HIDE DEF z
<1>3. \A i \in 1..Len(z) : z[i] = m[i]
  BY <1>1, <1>2
<1>4. z = m
  BY <1>2, <1>3, MemoryIsSame DEF SameMemory
<1>5. QED
  BY <1>4 DEF z

LEMMA MoveOfNothing ==
  ASSUME NEW m \in Memory, NEW p \in Nat, NEW n \in Nat, p <= Len(m)
  PROVE  Move(m, p, n, 0) = m
<1> DEFINE u == Move(m, p, n, 0)
<1>1. Len(m) \in Nat /\ p + 0 <= Len(m) /\ 0 \in Nat
  BY MemoryCells
<1>2. /\ u \in Memory /\ Len(u) = Len(m)
      /\ \A i \in 1..Len(m) : u[i] = IF p + n < i /\ i <= p + n + 0 THEN m[i - n] ELSE m[i]
  BY <1>1, MoveProperties DEF IsMoved
<1> HIDE DEF u
<1>3. \A i \in 1..Len(u) : u[i] = m[i]
  BY <1>1, <1>2
<1>4. u = m
  BY <1>2, <1>3, MemoryIsSame DEF SameMemory
<1>5. QED
  BY <1>4 DEF u

LEMMA ZeroThenCopy ==
  ASSUME NEW x \in Memory, NEW k \in Nat, NEW p \in Nat, NEW q \in Nat, Summed(p, k, q), NEW s \in Seq(Byte),
         NEW n, n = Len(s)
  PROVE  Copy(Zero(x, k, q), p, s, 0, n) = Zero(Copy(x, p, s, 0, n), k, q)
<1> DEFINE z == Zero(x, k, q)
           c == Copy(x, p, s, 0, n)
           a == Copy(z, p, s, 0, n)
           b == Zero(c, k, q)
<1>1. /\ n \in Nat /\ Len(x) \in Nat /\ k \in Int /\ q \in Int /\ k + q = p
      /\ \A i \in 1..n : s[i] \in Cell
  BY BytesAreMemory, MemoryCells DEF Summed
<1>2. /\ z \in Memory /\ Len(z) = Len(x)
      /\ \A i \in 1..Len(x) : z[i] = IF k < i /\ i <= k + q THEN 0 ELSE x[i]
  BY <1>1, BufferAssumption, ZeroProperties
<1>3. /\ c \in Memory /\ Len(c) = Len(x)
      /\ \A i \in 1..Len(x) : c[i] = IF p < i /\ i <= p + n THEN s[i - p] ELSE x[i]
  BY <1>1, CopyStart
<1> HIDE DEF z, c
<1>4. /\ a \in Memory /\ Len(a) = Len(z)
      /\ \A i \in 1..Len(z) : a[i] = IF p < i /\ i <= p + n THEN s[i - p] ELSE z[i]
  BY <1>1, <1>2, CopyStart
<1>5. /\ b \in Memory /\ Len(b) = Len(c)
      /\ \A i \in 1..Len(c) : b[i] = IF k < i /\ i <= k + q THEN 0 ELSE c[i]
  BY <1>1, <1>3, BufferAssumption, ZeroProperties
<1> HIDE DEF a, b
<1>6. \A i \in 1..Len(a) : a[i] = b[i]
  BY <1>1, <1>2, <1>3, <1>4, <1>5
<1>7. a = b
  BY <1>2, <1>3, <1>4, <1>5, <1>6, MemoryIsSame DEF SameMemory
<1>8. QED
  BY <1>7 DEF a, b, c, z

MadeRoom(t, s, p, k, n, size, x, room) ==
  /\ k = Len(t) /\ n = Len(s) /\ size = Larger(p, k) + n /\ x = Expand(t, size)
  /\ room = IF k > p THEN Move(x, p, n, k - p) ELSE Zero(x, k, p - k)

LEMMA PackInserted ==
  ASSUME NEW t \in Seq(Byte), NEW s \in Seq(Byte), NEW p \in Nat,
         NEW k, NEW n, NEW size, NEW x, NEW room, MadeRoom(t, s, p, k, n, size, x, room)
  PROVE  Buf(Copy(room, p, s, 0, n), size) = Inserted(Exact(t), s, p, n)
<1> DEFINE d == IF k > p THEN k - p ELSE 0
           moved == Move(x, p, n, d)
           put == Copy(moved, p, s, 0, n)
           gap == Zero(put, k, Larger(p, k) - k)
<1> USE DEF MadeRoom
<1>1. k \in Nat /\ n \in Nat /\ t \in Memory /\ \A i \in 1..n : s[i] \in Cell
  BY BytesAreMemory
<1>2. /\ Larger(p, k) \in Nat /\ p <= Larger(p, k) /\ k <= Larger(p, k)
      /\ k > p => Larger(p, k) - k = 0
      /\ ~(k > p) => Larger(p, k) - k = p - k
      /\ Larger(n, n) - n = 0 /\ (IF n < n THEN n ELSE n) = n
  BY <1>1 DEF Larger
<1>3. Inserted(Exact(t), s, p, n) = Buf(Zero(gap, p + n, 0), size)
  <2>1. Exact(t).mem = t /\ Exact(t).size = k
    BY PartsOfExact DEF ExactParts
  <2>2. Inserted(Exact(t), s, p, n)
          = Buf(Zero(gap, p + n, Larger(n, n) - n), size)
    BY <1>2, <2>1 DEF Inserted
  <2>3. QED
    BY <1>2, <2>2
<1>4. x \in Memory /\ Len(x) = size /\ size \in Nat
  <2>1. size \in Nat /\ Len(t) <= size
    BY <1>1, <1>2
  <2>2. QED
    BY <1>1, <2>1, ExpandProperties
<1>5. moved \in Memory /\ Len(moved) = size /\ (~(k > p) => moved = x) /\ (k > p => moved = room)
  <2>1. d \in Nat /\ p + d <= Len(x) /\ p <= Len(x)
    BY <1>1, <1>2, <1>4
  <2>2. moved \in Memory /\ Len(moved) = size
    <3> HIDE DEF d
    <3>1. QED
      BY <1>1, <1>4, <2>1, MoveProperties DEF IsMoved
  <2>3. ~(k > p) => moved = x
    <3> SUFFICES ASSUME ~(k > p) PROVE moved = x
      OBVIOUS
    <3>1. moved = Move(x, p, n, 0)
      OBVIOUS
    <3>2. QED
      BY <1>1, <1>4, <2>1, <3>1, MoveOfNothing
  <2>4. k > p => moved = room
    OBVIOUS
  <2>5. QED
    BY <2>2, <2>3, <2>4
<1> HIDE DEF moved
<1>6. put \in Memory
  BY <1>1, <1>5, CopyStart
<1>7. gap \in Memory
  <2>1. Larger(p, k) - k \in Int /\ k \in Int
    BY <1>1, <1>2
  <2> HIDE DEF put
  <2>2. QED
    BY <1>6, <2>1, BufferAssumption, ZeroProperties
<1>8. Zero(gap, p + n, 0) = gap
  <2> HIDE DEF gap
  <2>1. p + n \in Nat
    BY <1>1
  <2>2. QED
    BY <1>7, <2>1, ZeroOfNothing
<1>9. gap = Copy(room, p, s, 0, n)
  <2>1. CASE k > p
    <3>1. gap = Zero(put, k, 0) /\ put = Copy(room, p, s, 0, n)
      BY <1>2, <1>5, <2>1
    <3> HIDE DEF put, gap
    <3>2. Zero(put, k, 0) = put
      BY <1>1, <1>6, ZeroOfNothing
    <3>3. QED
      BY <3>1, <3>2
  <2>2. CASE ~(k > p)
    <3> DEFINE q == p - k
    <3>1. /\ gap = Zero(Copy(x, p, s, 0, n), k, q)
          /\ room = Zero(x, k, q) /\ q \in Nat /\ Summed(p, k, q)
      BY <1>1, <1>2, <1>5, <2>2 DEF Summed
    <3> HIDE DEF put, gap, q
    <3>2. Copy(Zero(x, k, q), p, s, 0, n) = Zero(Copy(x, p, s, 0, n), k, q)
      BY <1>1, <1>4, <3>1, ZeroThenCopy
    <3>3. QED
      BY <3>1, <3>2
  <2>3. QED
    BY <2>1, <2>2
<1> HIDE DEF gap
<1>10. QED
  BY <1>3, <1>8, <1>9

(* What the calls do to the bytes of the buffer *)
BufferStep(u) == BS!Next /\ IInv' /\ Text(buf') = u

LEMMA StepOf ==
  ASSUME IInv, NEW u \in Seq(Byte), buf' = Exact(u), u = BS!Meaning(Text(buf), call'),
         live' = (call'.op # "free"), live' \/ u = << >>
  PROVE  BufferStep(u)
<1> DEFINE t == Text(buf)
<1>1. t \in Seq(Byte) /\ buf = Exact(t) /\ u = BS!Meaning(t, call')
  BY BufferIs
<1> HIDE DEF t
<1>2. BS!Next /\ IInv'
  BY <1>1, ExactStep
<1>3. Text(buf') = u
  BY TextOfExact
<1>4. QED
  BY <1>2, <1>3 DEF BufferStep

CallIs(c, op, s, at, n) ==
  c.op = op /\ c.arg = s /\ c.at = at /\ c.len = n /\ c.skip = 0

LEMMA CalledIs ==
  ASSUME NEW op, NEW s, NEW at, NEW n, Called(op, s, at, 0, n)
  PROVE  CallIs(call', op, s, at, n)
BY DEF Called, CallIs

LEMMA PaddedToItself ==
  ASSUME NEW s \in Seq(Byte)
  PROVE  BS!Padded(s, Len(s)) = s
<1> DEFINE p == BS!Padded(s, Len(s))
<1>1. Len(s) \in Nat
  BY LenProperties
<1>2. /\ p \in Seq(Byte) /\ Len(p) = Len(s)
      /\ \A i \in 1..Len(s) : p[i] = IF i <= Len(s) THEN s[i] ELSE 0
  BY <1>1, BufferAssumption, PaddedProperties
<1> HIDE DEF p
<1>3. \A i \in 1..Len(p) : p[i] = s[i]
  BY <1>1, <1>2
<1>4. p = s
  BY <1>2, <1>3, SeqEqual
<1>5. QED
  BY <1>4 DEF p

LEMMA NewStep ==
  ASSUME IInv, NEW s \in Seq(Byte), New(s)
  PROVE  BufferStep(s)
<1>1. buf' = Exact(s) /\ live' = TRUE /\ Called("new", s, 0, 0, Len(s))
  BY NewExact DEF New
<1>2. CallIs(call', "new", s, 0, Len(s))
  BY <1>1, CalledIs
<1>3. BS!Meaning(Text(buf), call') = BS!Padded(s, Len(s))
  BY <1>2, Meanings DEF CallIs
<1>4. BS!Meaning(Text(buf), call') = s
  BY <1>3, PaddedToItself
<1>5. live' = (call'.op # "free")
  BY <1>1, <1>2 DEF CallIs
<1>6. QED
  BY <1>1, <1>4, <1>5, StepOf

LEMMA EmptyStep ==
  ASSUME IInv, NEW u, u = << >>, buf' = Buf(u, 0),
         \/ live' = FALSE /\ Called("free", << >>, 0, 0, 0)
         \/ live' = TRUE /\ Called("new", << >>, 0, 0, 0)
  PROVE  BufferStep(u)
<1>1. u \in Seq(Byte) /\ Len(u) = 0
  BY EmptySeq
<1>2. buf' = Exact(u)
  BY <1>1 DEF Exact
<1>3. \/ live' = FALSE /\ CallIs(call', "free", << >>, 0, 0)
      \/ live' = TRUE /\ CallIs(call', "new", << >>, 0, 0)
  BY CalledIs
<1>4. BS!Padded(u, 0) = u
  BY <1>1, PaddedToItself
<1>5. u = BS!Meaning(Text(buf), call')
  BY <1>3, <1>4, Meanings DEF CallIs
<1>6. live' = (call'.op # "free")
  BY <1>3 DEF CallIs
<1>7. QED
  BY <1>1, <1>2, <1>5, <1>6, StepOf

LEMMA NewZeroedStep ==
  ASSUME IInv, NewZeroed(0)
  PROVE  BufferStep(<< >>)
<1> DEFINE u == << >>
<1>1. ZeroOf(0) = Buf(u, 0)
  BY DEF ZeroOf
<1>2. buf' = Buf(u, 0) /\ live' = TRUE /\ Called("new", << >>, 0, 0, 0)
  BY <1>1 DEF NewZeroed
<1>3. u = << >>
  OBVIOUS
<1> HIDE DEF u
<1>4. BufferStep(u)
  BY <1>2, <1>3, EmptyStep
<1>5. QED
  BY <1>4 DEF u

LEMMA NewPackStep ==
  ASSUME IInv, NEW fields \in Seq(Fields), NEW s, s = Packed(fields), NewPack(fields)
  PROVE  BufferStep(s)
<1>1. s \in Seq(Byte)
  BY PackedType
<1>2. CASE s = << >>
  <2>1. buf' = Buf(s, 0) /\ live' = FALSE /\ Called("free", << >>, 0, 0, 0)
    BY <1>2 DEF NewPack
  <2>2. QED
    BY <1>2, <2>1, EmptyStep
<1>3. CASE s # << >>
  <2>1. New(s)
    BY <1>3 DEF NewPack
  <2>2. QED
    BY <1>1, <2>1, NewStep
<1>4. QED
  BY <1>2, <1>3

LEMMA AppendPackStep ==
  ASSUME IInv, NEW fields \in Seq(Fields), NEW s, s = Packed(fields), AppendPack(fields)
  PROVE  BufferStep(Text(buf) \o s)
<1> DEFINE t == Text(buf)
           u == t \o s
<1>1. s \in Seq(Byte)
  BY PackedType
<1>2. t \in Seq(Byte) /\ buf = Exact(t)
  BY BufferIs
<1>3. live /\ buf' = Appended(buf, s) /\ live' = live /\ Called("append", s, 0, 0, Len(s))
  BY DEF AppendPack
<1>4. CallIs(call', "append", s, 0, Len(s))
  BY <1>3, CalledIs
<1> HIDE DEF t
<1>5. BS!Meaning(t, call') = u
  <2>1. call'.op = "append" /\ call'.arg = s
    BY <1>4 DEF CallIs
  <2>2. BS!Meaning(t, call') = t \o call'.arg
    BY <2>1, Meanings
  <2>3. QED
    BY <2>1, <2>2
<1>6. Appended(Exact(t), s) = Exact(u)
  BY <1>1, <1>2, BufferAssumption, AppendHolds
<1>7. u \in Seq(Byte)
  BY <1>1, <1>2, ConcatProperties
<1>8. buf' = Exact(u)
  BY <1>2, <1>3, <1>6
<1> HIDE DEF u
<1>9. live' = (call'.op # "free") /\ live'
  <2>1. live' = TRUE
    BY <1>3, BufferIs
  <2>2. call'.op = "append"
    BY <1>4 DEF CallIs
  <2>3. QED
    BY <2>1, <2>2
<1>10. BufferStep(u)
  BY <1>5, <1>7, <1>8, <1>9, StepOf DEF t
<1>11. QED
  BY <1>10 DEF u, t

LEMMA InsertPackStep ==
  ASSUME IInv, NEW fields, Packed(fields) \in Seq(Byte), NEW p \in Nat, InsertPack(p, fields)
  PROVE  BS!Next /\ IInv'
<1> DEFINE t == Text(buf)
           s == Packed(fields)
           k == Len(t)
           n == Len(s)
           size == Larger(p, k) + n
           x == Expand(t, size)
           room == IF k > p THEN Move(x, p, n, k - p) ELSE Zero(x, k, p - k)
           u == Spliced(t, p, s, n, p)
<1>1. s \in Seq(Byte)
  OBVIOUS
<1>2. t \in Seq(Byte) /\ buf = Exact(t)
  BY BufferIs
<1>3. buf.mem = t /\ buf.size = k
  BY <1>2, PartsOfExact DEF ExactParts
<1>4. /\ live /\ live' = live /\ Called("insert", s, p, 0, n)
      /\ buf' = Buf(Copy(room, p, s, 0, n), size)
  <2> HIDE DEF t
  <2>1. QED
    BY <1>3 DEF InsertPack
<1>5. n \in Nat
  BY <1>1, LenProperties
<1>6. Buf(Copy(room, p, s, 0, n), size) = Inserted(Exact(t), s, p, n)
  <2>1. MadeRoom(t, s, p, k, n, size, x, room)
    BY DEF MadeRoom
  <2> HIDE DEF k, n, size, x, room, t, s
  <2>2. QED
    BY <1>1, <1>2, <2>1, PackInserted
<1> HIDE DEF size, x, room, k
<1>7. Inserted(Exact(t), s, p, n) = Exact(u)
  <2> HIDE DEF t, s, n
  <2>1. QED
    BY <1>1, <1>2, <1>5, BufferAssumption, InsertedHolds
<1>8. CallIs(call', "insert", s, p, n)
  BY <1>4, CalledIs
<1>9. BS!Meaning(t, call') = u
  <2> HIDE DEF t, s, n
  <2>1. QED
    BY <1>8, Meanings DEF CallIs
<1>10. u \in Seq(Byte)
  <2> HIDE DEF t, s, n
  <2>1. QED
    BY <1>1, <1>2, <1>5, BufferAssumption, PartsJoined DEF OfLength
<1>11. live' = (call'.op # "free") /\ live'
  <2>1. live' = TRUE
    BY <1>4, BufferIs
  <2>2. call'.op = "insert"
    BY <1>8 DEF CallIs
  <2>3. QED
    BY <2>1, <2>2
<1>12. buf' = Exact(u)
  BY <1>4, <1>6, <1>7
<1> HIDE DEF u
<1>13. BufferStep(u)
  BY <1>9, <1>10, <1>11, <1>12, StepOf
<1>14. QED
  BY <1>13 DEF BufferStep

-----------------------------------------------------------------------------
(* The inductive invariant of the packets: what is in the buffer and what  *)
(* was read of it, in terms of the groups the packet is made of.           *)

(* While it is built, the buffer holds the groups packed so far, those of  *)
(* a search without the first one, those of a request behind their head.   *)
Made(p, m, t) ==
  m > 0 =>
    /\ p.kind = "search" => Packed(p.groups[1]) \o t = SoFar(p.groups, m)
    /\ p.kind = "out" => t = HeadBytes \o SoFar(p.groups, m)
    /\ p.kind \in {"in", "message"} => t = SoFar(p.groups, m)

Wrapped(p, m, t) ==
  m = Len(p.groups) /\ p.kind = "search" /\ t = HeadBytes \o Total(p.groups)

SentOff(p, m, t) ==
  /\ m = Len(p.groups) /\ p.kind \in {"out", "search"}
  /\ Len(t) >= HeadSize
  /\ Number(SubSeq(t, 5, 6)) = (Len(t) - HeadSize) % Values[2]
  /\ XorCode(SubSeq(t, HeadSize + 1, Len(t))) = Completed(HeadBytes \o Total(p.groups))

Phase(p, m, t, x) ==
  /\ x = "build" => Made(p, m, t)
  /\ x = "wrapped" => Wrapped(p, m, t)
  /\ x = "sent" => SentOff(p, m, t)

CountableIn(p) == \A i \in 1..Len(p.groups) : \A j \in 1..Len(p.groups[i]) : Countable(p.groups[i][j])

ComparedIn(p) == \A i \in 1..Len(p.groups) : \A j \in 1..Len(p.groups[i]) : Compared(p.groups[i][j])

(* What was read is what was said, group by group. *)
Heard(p, o, g) ==
  /\ o = Len(SoFar(p.groups, Len(g)))
  /\ \A i \in 1..Len(g) : g[i] = Said(p.groups[i])

(* While it is read, the other side has the beginning of all the groups;   *)
(* and a message that was read has a text.                                 *)
Hearing(p, m, t, w, o, g, x) ==
  /\ p.kind # "edit" /\ m = Len(p.groups)
  /\ Agrees(w, 0, Total(p.groups)) /\ Len(w) <= Len(Total(p.groups))
  /\ p.kind \in {"out", "search"} => w = Total(p.groups)
  /\ p.kind \in {"in", "message"} /\ x # "kept" => t = Total(p.groups)
  /\ x = "read" => Len(g) < Len(p.groups)
  /\ x \in {"done", "kept"} => Len(g) = Len(p.groups)
  /\ CountableIn(p) => Heard(p, o, g)
  /\ ComparedIn(p) => x # "past" /\ o <= Len(w)
  /\ p.kind = "message" /\ g # << >> => g[1] # << >> /\ Last(g[1]) \in Seq(Byte)
  /\ x = "kept" => /\ p.kind = "message"
                   /\ t = Last(g[1]) \o << 0 >>
                   /\ Len(Last(g[1])) > 2

Building == {"build", "wrapped", "sent"}

Outcomes == {"build", "wrapped", "sent", "read", "done", "refused", "past", "kept"}

PacketInv ==
  /\ IInv
  /\ WellMade(packet)
  /\ made \in 0..Len(packet.groups)
  /\ wire \in Seq(Byte) /\ offs \in Nat
  /\ got \in Seq(Vals) /\ Len(got) <= Len(packet.groups)
  /\ outcome \in Outcomes
  /\ packet.kind = "edit" => outcome = "build" /\ made = 0
  /\ outcome \in Building => wire = << >> /\ offs = 0 /\ got = << >>
  /\ Phase(packet, made, Text(buf), outcome)
  /\ outcome \notin Building => Hearing(packet, made, Text(buf), wire, offs, got, outcome)

(* What the actions need to know of it *)
LEMMA GroupsOf ==
  ASSUME PacketInv, NEW gs, gs = packet.groups
  PROVE  /\ gs \in Seq(Groups) /\ Len(gs) \in Nat
         /\ packet.kind # "edit" => Len(gs) > 0
         /\ packet.kind = "message" => Len(gs) = 1 /\ gs[1] # << >> /\ Last(gs[1]).t = "data"
         /\ packet.kind \in {"edit", "in", "message", "out", "search"}
<1>1. WellMade(packet)
  BY DEF PacketInv
<1>2. gs \in Seq(Groups)
  BY <1>1 DEF WellMade
<1>3. Len(gs) \in Nat
  BY <1>2, LenProperties
<1>4. QED
  BY <1>1, <1>2, <1>3 DEF WellMade

LEMMA StillBuilding ==
  ASSUME PacketInv, packet.kind # "edit", made < Len(packet.groups)
  PROVE  outcome = "build" /\ Made(packet, made, Text(buf))
<1>1. made \in Nat /\ Len(packet.groups) \in Nat
  BY GroupsOf DEF PacketInv
<1>2. made # Len(packet.groups)
  BY <1>1
<1>3. Phase(packet, made, Text(buf), outcome)
      /\ (outcome \notin Building => made = Len(packet.groups))
      /\ outcome \in Outcomes
  BY DEF PacketInv, Hearing
<1>4. outcome # "wrapped" /\ outcome # "sent"
  BY <1>2, <1>3 DEF Phase, Wrapped, SentOff
<1>5. outcome = "build"
  BY <1>2, <1>3, <1>4 DEF Building, Outcomes
<1>6. QED
  BY <1>3, <1>5 DEF Phase

LEMMA StaysBuilding ==
  ASSUME PacketInv, NEW u, BufferStep(u), outcome \in Building, outcome' \in Building,
         packet.kind # "edit", made' \in 0..Len(packet.groups),
         UNCHANGED <<packet, wire, offs, got>>, Phase(packet, made', u, outcome')
  PROVE  PacketInv' /\ BS!Next
<1>1. IInv' /\ BS!Next /\ Text(buf') = u
  BY DEF BufferStep
<1>2. /\ WellMade(packet) /\ wire \in Seq(Byte) /\ offs \in Nat
      /\ got \in Seq(Vals) /\ Len(got) <= Len(packet.groups)
      /\ wire = << >> /\ offs = 0 /\ got = << >>
  BY DEF PacketInv
<1>3. outcome' \in Outcomes
  BY DEF Building, Outcomes
<1>4. /\ packet' = packet /\ wire' = wire /\ offs' = offs /\ got' = got
  OBVIOUS
<1>5. Phase(packet', made', Text(buf'), outcome')
  BY <1>1, <1>4
<1>6. Phase(packet, made, Text(buf), outcome)'
  BY <1>5
<1>7. (WellMade(packet))'
  BY <1>2, <1>4 DEF WellMade, Groups, Fields, Bodies, Tails, Types, Widths
<1>8. QED
  BY <1>1, <1>2, <1>3, <1>4, <1>6, <1>7 DEF PacketInv

(* The building of a packet *)
LEMMA SoFarFirst ==
  ASSUME NEW gs \in Seq(Groups), Len(gs) > 0
  PROVE  gs[1] \in Groups /\ SoFar(gs, 1) = Packed(gs[1])
<1>1. Len(gs) \in Nat /\ 0 + 1 <= Len(gs) /\ 0 \in Nat /\ 0 + 1 = 1
  BY LenProperties
<1>2. gs[1] \in Groups /\ SoFar(gs, 1) = SoFar(gs, 0) \o Packed(gs[1])
  <2>1. gs[0 + 1] \in Groups /\ SoFar(gs, 0 + 1) = SoFar(gs, 0) \o Packed(gs[0 + 1])
    BY <1>1, SoFarMore
  <2>2. QED
    BY <1>1, <2>1
<1>3. SoFar(gs, 0) = << >>
  BY SoFarNone
<1>4. Packed(gs[1]) \in Seq(Byte)
  BY <1>2, GroupsAreFields
<1>5. << >> \o Packed(gs[1]) = Packed(gs[1])
  BY <1>4, ConcatEmptySeq
<1>6. QED
  BY <1>2, <1>3, <1>5

LEMMA StartStep ==
  ASSUME PacketInv, Start
  PROVE  PacketInv' /\ BS!Next
<1> DEFINE gs == packet.groups
           b == Packed(gs[1])
           k == packet.kind
<1>1. /\ k # "edit" /\ made = 0 /\ made' = 1 /\ outcome' = outcome
      /\ UNCHANGED <<packet, wire, offs, got>>
  BY DEF Start
<1>2. /\ gs \in Seq(Groups) /\ Len(gs) \in Nat /\ Len(gs) > 0
      /\ k \in {"in", "message", "out", "search"}
  BY <1>1, GroupsOf
<1>3. outcome = "build"
  <2>1. made < Len(packet.groups)
    BY <1>1, <1>2
  <2>2. QED
    BY <1>1, <2>1, StillBuilding
<1>4. gs[1] \in Groups /\ SoFar(gs, 1) = b
  <2> HIDE DEF gs, b
  <2>1. QED
    BY <1>2, SoFarFirst DEF b
<1>5. gs[1] \in Seq(Fields) /\ b \in Seq(Byte) /\ IInv
  BY <1>4, GroupsAreFields DEF PacketInv
<1>6. made' \in 0..Len(packet.groups) /\ outcome \in Building /\ outcome' \in Building
  BY <1>1, <1>2, <1>3 DEF Building
<1>7. CASE k = "search"
  <2> DEFINE u == << >>
  <2>1. BufferStep(u)
    BY <1>5, <1>7, NewZeroedStep DEF Start
  <2>2. b \o u = SoFar(gs, 1)
    BY <1>4, <1>5, ConcatEmptySeq
  <2>3. Phase(packet, made', u, outcome')
    BY <1>1, <1>3, <1>7, <2>2 DEF Phase, Made
  <2> HIDE DEF u
  <2>4. QED
    BY <1>1, <1>6, <2>1, <2>3, StaysBuilding
<1>8. CASE k = "out"
  <2> DEFINE u == HeadBytes \o b
  <2>1. NewPack(Head6(SomeId) \o gs[1])
    BY <1>8 DEF Start
  <2>2. Head6(SomeId) \o gs[1] \in Seq(Fields) /\ u = Packed(Head6(SomeId) \o gs[1])
    BY <1>5, HeadOnGroup
  <2>3. u = HeadBytes \o SoFar(gs, 1)
    BY <1>4
  <2> HIDE DEF u, gs
  <2>4. BufferStep(u)
    BY <1>5, <2>1, <2>2, NewPackStep
  <2>5. Phase(packet, made', u, outcome')
    BY <1>1, <1>3, <1>8, <2>3 DEF Phase, Made, gs
  <2>6. QED
    BY <1>1, <1>6, <2>4, <2>5, StaysBuilding
<1>9. CASE k \in {"in", "message"}
  <2>1. NewPack(gs[1])
    BY <1>9 DEF Start
  <2> HIDE DEF b
  <2>2. BufferStep(b)
    BY <1>5, <2>1, NewPackStep DEF b
  <2>3. Phase(packet, made', b, outcome')
    BY <1>1, <1>3, <1>4, <1>9 DEF Phase, Made
  <2>4. QED
    BY <1>1, <1>6, <2>2, <2>3, StaysBuilding
<1>10. QED
  BY <1>2, <1>7, <1>8, <1>9

LEMMA MoreStep ==
  ASSUME PacketInv, More
  PROVE  PacketInv' /\ BS!Next
<1> DEFINE gs == packet.groups
           m == made
           b == Packed(gs[m + 1])
           k == packet.kind
           t == Text(buf)
           u == t \o b
           f == SoFar(gs, m)
           a == Packed(gs[1])
<1>1. /\ m \in 1..(Len(gs) - 1) /\ made' = m + 1 /\ outcome' = outcome
      /\ UNCHANGED <<packet, wire, offs, got>> /\ AppendPack(gs[m + 1])
  BY DEF More
<1>2. /\ gs \in Seq(Groups) /\ Len(gs) \in Nat
      /\ k \in {"edit", "in", "message", "out", "search"}
  BY GroupsOf
<1>3. m \in Nat /\ m > 0 /\ m < Len(gs) /\ m + 1 <= Len(gs) /\ m + 1 \in 0..Len(gs)
  BY <1>1, <1>2
<1>4. k # "edit"
  BY <1>3 DEF PacketInv
<1>5. outcome = "build" /\ Made(packet, m, t)
  BY <1>3, <1>4, StillBuilding
<1>6. gs[m + 1] \in Groups /\ SoFar(gs, m + 1) = f \o b
  <2> HIDE DEF gs, m
  <2>1. QED
    BY <1>2, <1>3, SoFarMore
<1>7. gs[m + 1] \in Seq(Fields) /\ b \in Seq(Byte)
  BY <1>6, GroupsAreFields
<1>8. gs[1] \in Groups /\ f \in Seq(Byte)
  <2> HIDE DEF gs, m
  <2>1. Len(gs) > 0 /\ m <= Len(gs)
    BY <1>2, <1>3
  <2>2. QED
    BY <1>2, <1>3, <2>1, SoFarFirst, SoFarType
<1>9. /\ a \in Seq(Byte) /\ HeadBytes \in Seq(Byte) /\ IInv /\ t \in Seq(Byte)
  <2>1. a \in Seq(Byte) /\ HeadBytes \in Seq(Byte) /\ IInv
    BY <1>8, GroupsAreFields, HeadBytesAre DEF PacketInv
  <2>2. QED
    BY <2>1, BufferIs
<1>10. BufferStep(u)
  <2> DEFINE g == gs[m + 1]
  <2>1. g \in Seq(Fields) /\ b = Packed(g) /\ AppendPack(g)
    BY <1>1, <1>7
  <2> HIDE DEF g, b
  <2>2. QED
    BY <1>9, <2>1, AppendPackStep
<1>11. Made(packet, m + 1, u)
  <2>1. SoFar(packet.groups, m + 1) = f \o b /\ m > 0
    BY <1>3, <1>6
  <2> HIDE DEF f, b, m, a, gs
  <2>2. ASSUME k = "search"
        PROVE  a \o u = f \o b
    <3>1. a \o t = f
      BY <1>3, <1>5, <2>2 DEF Made, f, a, gs
    <3>2. (a \o t) \o b = a \o (t \o b)
      BY <1>7, <1>9, ConcatAssociative, SMTT(30)
    <3>3. QED
      BY <3>1, <3>2
  <2>3. ASSUME k = "out"
        PROVE  u = HeadBytes \o (f \o b)
    <3>1. t = HeadBytes \o f
      BY <1>3, <1>5, <2>3 DEF Made, f, gs
    <3>2. (HeadBytes \o f) \o b = HeadBytes \o (f \o b)
      BY <1>7, <1>8, <1>9, ConcatAssociative, SMTT(30)
    <3>3. QED
      BY <3>1, <3>2
  <2>4. ASSUME k \in {"in", "message"}
        PROVE  u = f \o b
    <3>1. t = f
      BY <1>3, <1>5, <2>4 DEF Made, f, gs
    <3>2. QED
      BY <3>1
  <2> HIDE DEF u
  <2>5. QED
    BY <2>1, <2>2, <2>3, <2>4 DEF Made, a, gs
<1>12. Phase(packet, made', u, outcome')
  BY <1>1, <1>5, <1>11 DEF Phase
<1>13. made' \in 0..Len(packet.groups) /\ outcome \in Building /\ outcome' \in Building
  BY <1>1, <1>3, <1>5 DEF Building
<1> HIDE DEF u
<1>14. QED
  BY <1>1, <1>4, <1>10, <1>12, <1>13, StaysBuilding

LEMMA WrapStep ==
  ASSUME PacketInv, Wrap
  PROVE  PacketInv' /\ BS!Next
<1> DEFINE gs == packet.groups
           t == Text(buf)
           a == Packed(gs[1])
           fields == Head6(SomeId) \o gs[1] \o <<Rest(t)>>
           u == HeadBytes \o (a \o t)
<1>1. /\ packet.kind = "search" /\ made = Len(gs) /\ outcome = "build"
      /\ outcome' = "wrapped" /\ NewPack(fields)
      /\ UNCHANGED <<packet, made, wire, offs, got>>
  BY DEF Wrap, Built
<1>2. gs \in Seq(Groups) /\ Len(gs) \in Nat /\ Len(gs) > 0
  BY <1>1, GroupsOf
<1>3. gs[1] \in Groups
  <2> HIDE DEF gs
  <2>1. QED
    BY <1>2, SoFarFirst
<1>4. IInv /\ gs[1] \in Seq(Fields)
  BY <1>3, GroupsAreFields DEF PacketInv
<1>5. t \in Seq(Byte)
  BY <1>4, BufferIs
<1>6. a \o t = Total(gs)
  BY <1>1, <1>2 DEF PacketInv, Phase, Made, Total
<1>7. u = Packed(fields) /\ fields \in Seq(Fields)
  <2> DEFINE h == Head6(SomeId) \o gs[1]
             r == <<Rest(t)>>
  <2>1. u = Packed(fields)
    BY <1>4, <1>5, WrappedGroup
  <2>2. h \in Seq(Fields)
    BY <1>4, HeadOnGroup
  <2>3. r \in Seq(Fields)
    BY <1>5, RestIs, PackedOne
  <2>4. fields = h \o r
    OBVIOUS
  <2> HIDE DEF h, r, fields
  <2>5. fields \in Seq(Fields)
    BY <2>2, <2>3, <2>4, ConcatProperties
  <2>6. QED
    BY <2>1, <2>5
<1>8. Phase(packet, made', u, outcome')
  BY <1>1, <1>6 DEF Phase, Wrapped
<1>9. made' \in 0..Len(packet.groups) /\ outcome \in Building /\ outcome' \in Building
  BY <1>1, <1>2 DEF Building
<1> HIDE DEF u, fields
<1>10. BufferStep(u)
  BY <1>1, <1>4, <1>7, NewPackStep
<1>11. QED
  BY <1>1, <1>8, <1>9, <1>10, StaysBuilding

(* c6_send *)
LEMMA TotalType ==
  ASSUME NEW gs \in Seq(Groups)
  PROVE  Total(gs) \in Seq(Byte) /\ Len(Total(gs)) \in Nat
<1>1. Len(gs) \in Nat /\ Len(gs) <= Len(gs)
  BY LenProperties
<1>2. QED
  BY <1>1, SoFarType DEF Total

LEMMA RequestType ==
  ASSUME NEW gs \in Seq(Groups), NEW t, t = HeadBytes \o Total(gs)
  PROVE  t \in Seq(Byte) /\ Len(t) \in Nat /\ Len(t) >= HeadSize
<1> DEFINE x == Total(gs)
<1>1. x \in Seq(Byte) /\ Len(x) \in Nat
  BY TotalType
<1>2. HeadBytes \in Seq(Byte) /\ Len(HeadBytes) = 6
  BY HeadBytesAre DEF HeadSize
<1>3. Joins(t, HeadBytes, x)
  BY DEF Joins
<1> HIDE DEF x
<1>4. Joint(t, HeadBytes, x)
  BY <1>1, <1>2, <1>3, JoinedLength
<1>5. t \in Seq(Byte) /\ Len(t) = 6 + Len(x)
  BY <1>2, <1>4 DEF Joint
<1>6. QED
  BY <1>1, <1>5 DEF HeadSize

(* The outer head and the coded payload behind it *)
Envelope(u, payload) ==
  /\ u \in Seq(Byte) /\ Len(u) = HeadSize + Len(payload)
  /\ Number(SubSeq(u, 5, 6)) = Len(payload) % Values[2]
  /\ XorCode(SubSeq(u, HeadSize + 1, Len(u))) = payload

LEMMA EnvelopeIs ==
  ASSUME NEW payload \in Seq(Byte), NEW n, n = Len(payload),
         NEW h, h = Packed(<<Lit(1), Lit(3), Num(2, SomeId), Num(2, n)>>),
         NEW x, x = XorCode(payload), NEW u, Joins(u, h, x)
  PROVE  Envelope(u, payload) /\ h \in Seq(Byte) /\ Len(h) = HeadSize
<1> DEFINE d == Digits(n, 2)
<1>1. n \in Nat /\ 2 \in Widths
  BY LenProperties DEF Widths
<1>2. /\ h \in Seq(Byte) /\ Len(h) = 6
      /\ \A i \in 1..2 : h[4 + i] = Digits(n, 2)[i]
  <2>1. 1 \in {1, 2, 3, 4} /\ 3 \in {1, 2, 3, 4} /\ SomeId \in Nat
    BY DEF SomeId
  <2>2. QED
    BY <1>1, <2>1, HeadsOf
<1>3. d \in Seq(Byte) /\ Len(d) = 2 /\ Number(d) = n % Values[2]
  BY <1>1, DigitsType, NumberOfDigits
<1>4. h[5] = d[1] /\ h[6] = d[2]
  <2>1. 1 \in 1..2 /\ 2 \in 1..2 /\ 4 + 1 = 5 /\ 4 + 2 = 6
    OBVIOUS
  <2> HIDE DEF d
  <2>2. h[4 + 1] = d[1] /\ h[4 + 2] = d[2]
    BY <1>2, <2>1 DEF d
  <2>3. QED
    BY <2>1, <2>2
<1> HIDE DEF d
<1>5. <<h[5], h[6]>> = d
  <2> DEFINE e == <<d[1], d[2]>>
  <2>1. d[1] \in Byte /\ d[2] \in Byte
    <3>1. 1 \in 1..Len(d) /\ 2 \in 1..Len(d)
      BY <1>3
    <3>2. QED
      BY <1>3, <3>1, ElementOfSeq
  <2>2. e \in Seq(Byte) /\ Len(e) = 2 /\ e[1] = d[1] /\ e[2] = d[2]
    BY <2>1, Tuples
  <2>3. \A i \in 1..2 : e[i] = d[i]
    BY <2>2
  <2> HIDE DEF e
  <2>4. e = d
    BY <1>3, <2>2, <2>3, SeqEqual
  <2>5. QED
    BY <1>4, <2>4 DEF e
<1>6. x \in Seq(Byte) /\ Len(x) = n
  BY XorType
<1>7. Len(h) = HeadSize
  BY <1>2 DEF HeadSize
<1>8. /\ u \in Seq(Byte) /\ Len(u) = HeadSize + Len(x)
      /\ SubSeq(u, HeadSize + 1, Len(u)) = x
      /\ SubSeq(u, 5, 6) = <<h[5], h[6]>>
  <2> HIDE DEF HeadSize
  <2>1. x \in Seq(Byte) /\ h \in Seq(Byte) /\ Len(h) = HeadSize /\ Joins(u, h, x)
    BY <1>2, <1>6, <1>7
  <2>2. Headed(u, h, x)
    BY <2>1, BehindHead
  <2>3. QED
    BY <2>2 DEF Headed
<1>9. XorCode(x) = payload
  BY XorTwice
<1>10. QED
  BY <1>2, <1>3, <1>5, <1>6, <1>7, <1>8, <1>9 DEF Envelope

LEMMA SendStep ==
  ASSUME PacketInv, Send
  PROVE  PacketInv' /\ BS!Next
<1> DEFINE gs == packet.groups
           t == Text(buf)
           payload == Completed(t)
           n == Len(payload)
           h == Packed(<<Lit(1), Lit(3), Num(2, SomeId), Num(2, n)>>)
           x == XorCode(payload)
           size == NewOf(h).size + n
           u == h \o x
<1>1. /\ packet.kind \in {"out", "search"} /\ made = Len(gs)
      /\ outcome = IF packet.kind = "search" THEN "wrapped" ELSE "build"
      /\ outcome' = "sent" /\ live' = live
      /\ UNCHANGED <<packet, made, wire, offs, got>>
      /\ buf' = Buf(Copy(Resize(NewOf(h).mem, size), NewOf(h).size, x, 0, n), size)
      /\ Called("new", Text(buf'), 0, 0, size)
  BY DEF Send, Built, Outgoing
<1>2. gs \in Seq(Groups) /\ Len(gs) \in Nat /\ Len(gs) > 0 /\ IInv
  BY <1>1, GroupsOf DEF PacketInv
<1>3. t = HeadBytes \o Total(gs)
  <2>1. Phase(packet, made, t, outcome)
    BY DEF PacketInv
  <2>2. CASE packet.kind = "search"
    BY <1>1, <2>1, <2>2 DEF Phase, Wrapped
  <2>3. CASE packet.kind = "out"
    <3>1. made > 0 /\ outcome = "build"
      BY <1>1, <1>2, <2>3
    <3>2. QED
      BY <1>1, <2>1, <2>3, <3>1 DEF Phase, Made, Total
  <2>4. QED
    BY <1>1, <2>2, <2>3
<1>4. t \in Seq(Byte) /\ Len(t) \in Nat /\ Len(t) >= HeadSize
  <2> HIDE DEF t, gs
  <2>1. QED
    BY <1>2, <1>3, RequestType
<1> HIDE DEF t
<1>5. payload \in Seq(Byte) /\ n = Len(t)
  BY <1>4, CompletedIs
<1>6. payload = Completed(HeadBytes \o Total(gs))
  BY <1>3
<1> HIDE DEF payload
<1>7. Envelope(u, payload) /\ h \in Seq(Byte) /\ Len(h) = HeadSize
  <2>1. n = Len(payload) /\ x = XorCode(payload) /\ Joins(u, h, x)
    BY DEF Joins
  <2>2. h = Packed(<<Lit(1), Lit(3), Num(2, SomeId), Num(2, n)>>)
    OBVIOUS
  <2> HIDE DEF n, x, h, u
  <2>3. QED
    BY <1>5, <2>1, <2>2, EnvelopeIs
<1>8. x \in Seq(Byte) /\ Len(x) = n
  BY <1>5, XorType
<1> HIDE DEF x, h, n
<1>9. NewOf(h).mem = h /\ NewOf(h).size = Len(h)
  BY <1>7, NewExact, PartsOfExact DEF ExactParts
<1>10. Summed(size, Len(h), Len(x))
  BY <1>8, <1>9 DEF Summed
<1>11. buf' = Buf(Copy(Resize(h, size), Len(h), x, 0, Len(x)), size)
  BY <1>1, <1>8, <1>9
<1> HIDE DEF size
<1>12. Buf(Copy(Resize(h, size), Len(h), x, 0, Len(x)), size) = Exact(h \o x)
  BY <1>7, <1>8, <1>10, SentHolds
<1>13. buf' = Exact(u)
  BY <1>11, <1>12
<1> HIDE DEF u
<1>14. u \in Seq(Byte) /\ Len(u) = size
  BY <1>5, <1>7, <1>8, <1>10 DEF Envelope, Summed, n
<1>15. Text(buf') = u
  BY <1>13, <1>14, TextOfExact
<1>16. CallIs(call', "new", u, 0, Len(u))
  BY <1>1, <1>14, <1>15, CalledIs
<1>17. BufferStep(u)
  <2>1. BS!Meaning(Text(buf), call') = BS!Padded(u, Len(u))
    BY <1>16, Meanings DEF CallIs
  <2>2. BS!Meaning(Text(buf), call') = u
    BY <1>14, <2>1, PaddedToItself
  <2>3. live = TRUE
    <3>1. t # << >>
      <4>1. Len(t) # 0
        BY <1>4 DEF HeadSize
      <4>2. QED
        BY <1>4, <4>1, EmptySeq
    <3>2. QED
      BY <1>2, <3>1, BufferIs DEF t
  <2>4. live' = (call'.op # "free") /\ live'
    BY <1>1, <1>16, <2>3 DEF CallIs
  <2>5. QED
    BY <1>2, <1>13, <1>14, <2>2, <2>4, StepOf
<1>18. Phase(packet, made', u, outcome')
  <2>1. Len(u) >= HeadSize /\ Len(u) - HeadSize = Len(payload)
    BY <1>4, <1>5, <1>7 DEF Envelope, HeadSize, n
  <2>2. SentOff(packet, made, u)
    BY <1>1, <1>6, <1>7, <2>1 DEF SentOff, Envelope
  <2>3. QED
    BY <1>1, <2>2 DEF Phase
<1>19. made' \in 0..Len(packet.groups) /\ outcome \in Building /\ outcome' \in Building
  BY <1>1, <1>2 DEF Building
<1>20. packet.kind # "edit"
  BY <1>1
<1>21. QED
  BY <1>1, <1>17, <1>18, <1>19, <1>20, StaysBuilding

(* The other side gets it *)
LEMMA AgreesWithItself ==
  ASSUME NEW s \in Seq(Byte)
  PROVE  Agrees(s, 0, s) /\ Len(s) <= Len(s)
<1>1. Len(s) \in Nat
  BY LenProperties
<1>2. \A j \in 1..Len(s) : 0 + j = j
  BY <1>1
<1>3. QED
  BY <1>1, <1>2 DEF Agrees

LEMMA HearingStarts ==
  ASSUME PacketInv, outcome \in Building, packet.kind # "edit", made = Len(packet.groups),
         UNCHANGED <<bufVars, packet, made, offs, got>>, outcome' = "read",
         NEW w \in Seq(Byte), wire' = w,
         Agrees(w, 0, Total(packet.groups)), Len(w) <= Len(Total(packet.groups)),
         Outgoing => w = Total(packet.groups),
         ~Outgoing => Text(buf) = Total(packet.groups)
  PROVE  PacketInv' /\ UNCHANGED BS!vars
<1> DEFINE gs == packet.groups
<1>1. /\ gs \in Seq(Groups) /\ Len(gs) \in Nat /\ Len(gs) > 0
      /\ packet.kind \in {"in", "message", "out", "search"}
  BY GroupsOf
<1>2. IInv /\ offs = 0 /\ got = << >> /\ made \in 0..Len(packet.groups)
      /\ WellMade(packet) /\ got \in Seq(Vals) /\ Len(got) <= Len(packet.groups)
  BY DEF PacketInv
<1>3. UNCHANGED BS!vars /\ IInv'
  BY <1>2, StutterExact
<1>4. Len(got) = 0 /\ Len(w) \in Nat
  BY <1>2, EmptySeq, LenProperties
<1>5. Heard(packet, offs, got)
  <2>1. SoFar(gs, 0) = << >>
    <3> HIDE DEF gs
    <3>1. QED
      BY <1>1, SoFarNone
  <2>2. offs = Len(SoFar(gs, Len(got)))
    BY <1>2, <1>4, <2>1
  <2>3. 1..Len(got) = {}
    BY <1>4
  <2> HIDE DEF gs
  <2>4. QED
    BY <2>2, <2>3 DEF Heard, gs
<1>6. Hearing(packet, made, Text(buf), w, offs, got, "read")
  <2>1. packet.kind \in {"out", "search"} => w = Total(packet.groups)
    BY DEF Outgoing
  <2>2. packet.kind \in {"in", "message"} => Text(buf) = Total(packet.groups)
    BY DEF Outgoing
  <2>3. offs <= Len(w) /\ Len(got) < Len(packet.groups) /\ ~(got # << >>)
    BY <1>1, <1>2, <1>4
  <2>4. QED
    BY <1>5, <2>1, <2>2, <2>3 DEF Hearing
<1>7. /\ packet' = packet /\ made' = made /\ offs' = offs /\ got' = got /\ buf' = buf
  BY DEF bufVars
<1>8. (WellMade(packet))'
  BY <1>2, <1>7 DEF WellMade, Groups, Fields, Bodies, Tails, Types, Widths
<1>9. Text(buf)' = Text(buf)
  BY <1>7
<1>10. Hearing(packet, made, Text(buf), wire, offs, got, outcome)'
  BY <1>6, <1>7, <1>9
<1>11. Phase(packet, made, Text(buf), outcome)'
  BY DEF Phase
<1>12. /\ wire' \in Seq(Byte) /\ offs' \in Nat /\ got' \in Seq(Vals)
       /\ Len(got') <= Len(packet'.groups) /\ made' \in 0..Len(packet'.groups)
       /\ outcome' \in Outcomes /\ outcome' \notin Building /\ packet'.kind # "edit"
  BY <1>2, <1>7 DEF Outcomes, Building
<1>13. QED
  BY <1>3, <1>8, <1>10, <1>11, <1>12 DEF PacketInv

LEMMA DeliverStep ==
  ASSUME PacketInv, Deliver
  PROVE  PacketInv' /\ UNCHANGED BS!vars
<1> DEFINE gs == packet.groups
           x == Total(gs)
           payload == HeadBytes \o x
           c == Completed(payload)
           n == Len(x)
<1>1. /\ outcome = "sent" /\ outcome' = "read" /\ wire' = SubSeq(Inner, HeadSize + 1, Len(Inner))
      /\ UNCHANGED <<bufVars, packet, made, offs, got>>
  BY DEF Deliver
<1>2. SentOff(packet, made, Text(buf))
  BY <1>1 DEF PacketInv, Phase
<1>3. /\ made = Len(gs) /\ packet.kind \in {"out", "search"}
      /\ XorCode(SubSeq(Text(buf), HeadSize + 1, Len(Text(buf)))) = c
  BY <1>2 DEF SentOff
<1>4. Inner = c
  BY <1>3 DEF Inner
<1>5. gs \in Seq(Groups) /\ packet.kind # "edit" /\ outcome \in Building
  BY <1>1, <1>3, GroupsOf DEF Building
<1>6. x \in Seq(Byte) /\ n \in Nat
  <2> HIDE DEF gs
  <2>1. QED
    BY <1>5, TotalType
<1> HIDE DEF x
<1>7. HeadBytes \in Seq(Byte) /\ Len(HeadBytes) = 6
  BY HeadBytesAre DEF HeadSize
<1>8. /\ payload \in Seq(Byte) /\ Len(payload) = 6 + n
      /\ \A i \in 1..n : payload[6 + i] = x[i]
  <2> DEFINE a == HeadBytes
  <2>1. Joins(payload, a, x)
    BY DEF Joins
  <2> HIDE DEF payload, a
  <2>2. Joint(payload, a, x)
    BY <1>6, <1>7, <2>1, JoinedLength DEF a
  <2>3. Len(a) = 6
    BY <1>7 DEF a
  <2>4. QED
    BY <2>2, <2>3 DEF Joint
<1> HIDE DEF payload, n
<1>9. /\ c \in Seq(Byte) /\ Len(c) = 6 + n
      /\ \A i \in 1..(6 + n) : i > 6 => c[i] = payload[i]
  <2>1. Len(payload) >= HeadSize
    BY <1>6, <1>8 DEF HeadSize
  <2>2. /\ Completed(payload) \in Seq(Byte) /\ Len(Completed(payload)) = Len(payload)
        /\ \A i \in 1..Len(payload) : i > HeadSize => Completed(payload)[i] = payload[i]
    BY <1>8, <2>1, CompletedIs
  <2>3. QED
    BY <1>8, <2>2 DEF HeadSize
<1> HIDE DEF c
<1>10. SubSeq(c, 6 + 1, 6 + n) = x
  <2> DEFINE y == SubSeq(c, 6 + 1, 6 + n)
  <2>1. ~(6 + n > Len(c))
    BY <1>6, <1>9
  <2>2. /\ y \in Seq(Byte) /\ Len(y) = n
        /\ \A i \in 1..n : y[i] = c[6 + i]
    BY <1>6, <1>9, <2>1, SubBytes
  <2> HIDE DEF y
  <2>3. \A i \in 1..n : y[i] = x[i]
    <3> TAKE i \in 1..n
    <3>1. 6 + i \in 1..(6 + n) /\ 6 + i > 6
      BY <1>6
    <3>2. QED
      BY <1>8, <1>9, <2>2, <3>1
  <2>4. y = x
    BY <1>6, <2>2, <2>3, SeqEqual DEF n
  <2>5. QED
    BY <2>4 DEF y
<1>11. wire' = x
  BY <1>1, <1>4, <1>9, <1>10 DEF HeadSize
<1>12. Agrees(x, 0, x) /\ Len(x) <= Len(x)
  BY <1>6, AgreesWithItself
<1>13. Outgoing
  BY <1>3 DEF Outgoing
<1>14. x = Total(packet.groups) /\ made = Len(packet.groups)
  BY <1>3 DEF x
<1> HIDE DEF gs
<1>15. QED
  BY <1>1, <1>5, <1>6, <1>11, <1>12, <1>13, <1>14, HearingStarts

LEMMA ArriveStep ==
  ASSUME PacketInv, Arrive
  PROVE  PacketInv' /\ UNCHANGED BS!vars
<1> DEFINE gs == packet.groups
           x == Total(gs)
<1>1. /\ ~Outgoing /\ packet.kind # "edit" /\ made = Len(gs) /\ outcome = "build"
      /\ outcome' = "read" /\ UNCHANGED <<bufVars, packet, made, offs, got>>
  BY DEF Arrive, Built
<1>2. PICK n \in 0..buf.size : \/ wire' = SubSeq(Text(buf), 1, n)
                               \/ wire' = XorCode(XorCode(SubSeq(Text(buf), 1, n)))
  BY DEF Arrive
<1>3. /\ gs \in Seq(Groups) /\ Len(gs) \in Nat /\ Len(gs) > 0
      /\ packet.kind \in {"in", "message"} /\ outcome \in Building
  BY <1>1, GroupsOf DEF Outgoing, Building
<1>4. Text(buf) = x
  BY <1>1, <1>3 DEF PacketInv, Phase, Made, Total
<1>5. x \in Seq(Byte) /\ Len(x) \in Nat
  <2> HIDE DEF gs
  <2>1. QED
    BY <1>3, TotalType
<1>6. buf.size = Len(x)
  <2>1. IInv
    BY DEF PacketInv
  <2>2. QED
    BY <1>4, <2>1, BufferIs
<1> HIDE DEF x
<1> DEFINE w == SubSeq(x, 1, n)
<1>7. w \in Seq(Byte) /\ Len(w) = n /\ \A i \in 1..n : w[i] = x[i]
  BY <1>2, <1>5, <1>6, PrefixProperties
<1>8. wire' = SubSeq(x, 1, n) \/ wire' = XorCode(XorCode(SubSeq(x, 1, n)))
  BY <1>2, <1>4
<1> HIDE DEF w
<1>9. wire' = w
  BY <1>7, <1>8, XorTwice DEF w
<1>10. Agrees(w, 0, x) /\ Len(w) <= Len(x)
  <2>1. \A j \in 1..Len(x) : 0 + j <= Len(w) => w[0 + j] = x[j]
    BY <1>2, <1>5, <1>6, <1>7
  <2>2. QED
    BY <1>2, <1>5, <1>6, <1>7, <2>1 DEF Agrees
<1>11. x = Total(packet.groups) /\ made = Len(packet.groups)
  BY <1>1 DEF x
<1> HIDE DEF gs
<1>12. QED
  BY <1>1, <1>3, <1>4, <1>7, <1>9, <1>10, <1>11, HearingStarts

(* Reading a group, or being refused *)
LEMMA HearingGoesOn ==
  ASSUME PacketInv, outcome \notin Building, UNCHANGED <<packet, made, wire>>, IInv',
         offs' \in Nat, got' \in Seq(Vals), Len(got') <= Len(packet.groups),
         outcome' \in Outcomes \ Building,
         Hearing(packet, made, Text(buf'), wire, offs', got', outcome')
  PROVE  PacketInv'
<1>1. /\ WellMade(packet) /\ made \in 0..Len(packet.groups) /\ wire \in Seq(Byte)
      /\ packet.kind # "edit"
  BY DEF PacketInv, Hearing
<1>2. packet' = packet /\ made' = made /\ wire' = wire
  OBVIOUS
<1>3. (WellMade(packet))'
  BY <1>1, <1>2 DEF WellMade, Groups, Fields, Bodies, Tails, Types, Widths
<1>4. Hearing(packet, made, Text(buf), wire, offs, got, outcome)'
  BY <1>2
<1>5. outcome' \in Outcomes /\ outcome' \notin Building
  OBVIOUS
<1>6. outcome' # "build" /\ outcome' # "wrapped" /\ outcome' # "sent"
  BY <1>5 DEF Building
<1>7. Phase(packet, made, Text(buf), outcome)'
  BY <1>6 DEF Phase
<1>8. packet'.kind # "edit" /\ made' \in 0..Len(packet'.groups) /\ Len(got') <= Len(packet'.groups)
  BY <1>1, <1>2
<1>9. QED
  BY <1>1, <1>2, <1>3, <1>4, <1>5, <1>7, <1>8 DEF PacketInv

LEMMA StillHearing ==
  ASSUME PacketInv, outcome \notin Building
  PROVE  Hearing(packet, made, Text(buf), wire, offs, got, outcome)
BY DEF PacketInv

LEMMA ComparedIsCountable ==
  ASSUME NEW p, ComparedIn(p)
  PROVE  CountableIn(p)
BY DEF ComparedIn, CountableIn, Compared

LEMMA SteppedOverType ==
  ASSUME NEW g \in Seq(Fields)
  PROVE  SteppedOver(g) \in Nat
<1>1. CASE g # << >>
  <2>1. Len(g) \in Nat /\ Len(g) # 0
    BY <1>1, EmptySeq, LenProperties
  <2>2. Len(g) \in 1..Len(g)
    BY <2>1
  <2>3. Last(g) \in Fields
    BY <2>2, ElementOfSeq DEF Last
  <2>4. Last(g).w \in Nat
    BY <2>3, FieldParts
  <2>5. QED
    BY <2>4 DEF SteppedOver
<1>2. CASE ~(g # << >>)
  BY <1>2 DEF SteppedOver
<1>3. QED
  BY <1>1, <1>2

(* A read of the next group gives what the group says, or ends *)
NextRead(r, gs, k, w, o) ==
  r = IF o > Len(w) THEN Stopped(Reader, "past") ELSE Unpack(SubSeq(w, o + 1, Len(w)), gs[k + 1])

ReadsOn(r, g, w, o) ==
  /\ r.out = "ok" /\ o <= Len(w) /\ r.offs \in Nat /\ r.vals \in Vals
  /\ g # << >> /\ Last(g).t = "data" => r.vals # << >> /\ Last(r.vals) \in Seq(Byte)

LEMMA NextReadEnds ==
  ASSUME NEW gs \in Seq(Groups), NEW k \in Nat, k + 1 <= Len(gs), NEW w \in Seq(Byte),
         NEW o \in Nat, NEW r, NextRead(r, gs, k, w, o)
  PROVE  /\ gs[k + 1] \in Groups
         /\ Ended(r) \/ ReadsOn(r, gs[k + 1], w, o)
<1> DEFINE g == gs[k + 1]
           rest == SubSeq(w, o + 1, Len(w))
<1>1. g \in Groups
  BY SoFarMore
<1>2. g \in Seq(Fields)
  BY <1>1, GroupsAreFields
<1>3. Len(w) \in Nat
  BY LenProperties
<1>4. CASE o > Len(w)
  <2>1. r = Rd(0, << >>, << >>, "past")
    BY <1>4, ReaderIs, StoppedIs DEF NextRead
  <2>2. Ended(r)
    BY <2>1, EndedIs
  <2>3. QED
    BY <1>1, <2>2
<1>5. CASE o <= Len(w)
  <2> DEFINE n == Len(w) - o
  <2>1. n \in Nat /\ o + n = Len(w) /\ ~(o + n > Len(w))
    BY <1>3, <1>5
  <2>2. rest \in Seq(Byte)
    <3> HIDE DEF n
    <3>1. SubSeq(w, o + 1, o + n) \in Seq(Byte)
      BY <2>1, SubBytes
    <3>2. QED
      BY <2>1, <3>1
  <2>3. r = Unpack(rest, g)
    BY <1>3, <1>5 DEF NextRead
  <2> HIDE DEF g, rest
  <2>4. Gained(r, g, rest)
    BY <1>2, <2>2, <2>3, UnpackGains
  <2>5. CASE Ended(r)
    BY <1>1, <2>5 DEF g
  <2>6. CASE \E p, v : /\ Running(r, p, v, rest)
                       /\ g # << >> /\ Last(g).t = "data" => v # << >> /\ Last(v) \in Seq(Byte)
    <3>1. PICK p, v : /\ Running(r, p, v, rest)
                      /\ g # << >> /\ Last(g).t = "data" => v # << >> /\ Last(v) \in Seq(Byte)
      BY <2>6
    <3>2. r = Rd(p, << >>, v, "ok") /\ p \in Nat /\ v \in Vals
      BY <3>1 DEF Running
    <3>3. r.out = "ok" /\ r.offs = p /\ r.vals = v
      BY <3>2, ReaderParts
    <3>4. ReadsOn(r, g, w, o)
      BY <1>5, <3>1, <3>2, <3>3 DEF ReadsOn
    <3>5. QED
      BY <1>1, <3>4 DEF g
  <2>7. QED
    BY <2>4, <2>5, <2>6 DEF Gained
<1>6. QED
  BY <1>3, <1>4, <1>5

LEMMA NextReadSays ==
  ASSUME NEW p, NEW gs \in Seq(Groups), gs = p.groups, CountableIn(p),
         NEW k \in Nat, k + 1 <= Len(gs), NEW w \in Seq(Byte), Agrees(w, 0, Total(gs)),
         NEW o, o = Len(SoFar(gs, k)), o <= Len(w), NEW r, NextRead(r, gs, k, w, o)
  PROVE  /\ r.out = "ok" => /\ r.vals = Said(gs[k + 1])
                            /\ o + r.offs + SteppedOver(gs[k + 1]) = Len(SoFar(gs, k + 1))
         /\ Len(w) >= Len(SoFar(gs, k + 1)) => r.out = "ok"
         /\ ComparedIn(p) => /\ r.out # "past"
                             /\ r.out = "ok" => Len(SoFar(gs, k + 1)) <= Len(w)
<1> DEFINE g == gs[k + 1]
           rest == SubSeq(w, o + 1, Len(w))
           b == Len(Packed(g))
           s == Len(SoFar(gs, k + 1))
<1>1. /\ rest \in Seq(Byte) /\ Len(rest) = Len(w) - o
      /\ Agrees(rest, 0, Packed(g))
      /\ o \in Nat /\ b \in Nat /\ s = o + b
  <2> HIDE DEF rest
  <2>1. Between(rest, w, o, Len(w))
    BY DEF Between, rest
  <2>2. Remains(rest, gs, w, k, o)
    BY <2>1, RestAgrees
  <2>3. QED
    BY <2>2 DEF Remains
<1>2. g \in Groups /\ k + 1 \in 1..Len(gs)
  <2>1. g \in Groups
    BY SoFarMore
  <2>2. Len(gs) \in Nat
    BY LenProperties
  <2>3. QED
    BY <2>1, <2>2
<1>3. \A j \in 1..Len(g) : Countable(g[j])
  BY <1>2 DEF CountableIn
<1>4. Len(w) \in Nat
  BY LenProperties
<1>5. r = Unpack(rest, g)
  BY <1>1, <1>4 DEF NextRead
<1>6. ComparedIn(p) => \A j \in 1..Len(g) : Compared(g[j])
  BY <1>2 DEF ComparedIn
<1> HIDE DEF g, rest
<1>7. GroupRead(Unpack(rest, g), g, rest)
  BY <1>1, <1>2, <1>3, ReadGroup
<1>8. SteppedOver(g) \in Nat
  BY <1>2, GroupsAreFields, SteppedOverType
<1>9. r.out = "ok" => r.offs \in Nat
  <2>1. Ended(r) \/ ReadsOn(r, gs[k + 1], w, o)
    BY <1>1, NextReadEnds
  <2>2. QED
    BY <2>1 DEF Ended, ReadsOn
<1> HIDE DEF b, s
<1>10. /\ r.out = "ok" => r.vals = Said(g) /\ r.offs + SteppedOver(g) = b
       /\ b <= Len(rest) => r.out = "ok"
       /\ (\A j \in 1..Len(g) : Compared(g[j])) =>
            /\ r.out # "past"
            /\ r.out = "ok" => b <= Len(rest)
  BY <1>5, <1>7 DEF GroupRead, b
<1>11. r.out = "ok" => o + r.offs + SteppedOver(g) = s
  <2> SUFFICES ASSUME r.out = "ok" PROVE o + r.offs + SteppedOver(g) = s
    OBVIOUS
  <2>1. /\ r.offs \in Nat /\ r.offs + SteppedOver(g) = b
        /\ o \in Nat /\ s = o + b /\ SteppedOver(g) \in Nat
    BY <1>1, <1>8, <1>9, <1>10
  <2>2. QED
    BY <2>1
<1>12. Len(w) >= s => r.out = "ok"
  BY <1>1, <1>4, <1>10
<1>13. ComparedIn(p) => r.out # "past" /\ (r.out = "ok" => s <= Len(w))
  BY <1>1, <1>4, <1>6, <1>10
<1>14. QED
  BY <1>10, <1>11, <1>12, <1>13 DEF g, s

LEMMA ReadGoesOn ==
  ASSUME PacketInv, NEW gs, gs = packet.groups, NEW k, k = Len(got),
         outcome = "read", NEW r, NextRead(r, gs, k, wire, offs), r.out = "ok",
         offs' = offs + r.offs + SteppedOver(gs[k + 1]), got' = Append(got, r.vals),
         outcome' = IF k + 1 = Len(gs) THEN "done" ELSE "read",
         UNCHANGED <<bufVars, packet, made, wire>>
  PROVE  PacketInv'
<1> DEFINE g == gs[k + 1]
           w == wire
           t == Text(buf)
           x == outcome'
<1>1. Hearing(packet, made, t, w, offs, got, "read") /\ outcome \notin Building
  <2>1. outcome \notin Building
    BY DEF Building
  <2>2. QED
    BY <2>1, StillHearing
<1>2. /\ w \in Seq(Byte) /\ offs \in Nat /\ got \in Seq(Vals) /\ IInv
      /\ gs \in Seq(Groups) /\ Len(gs) \in Nat /\ Len(w) \in Nat
      /\ packet.kind # "edit" /\ made = Len(gs)
      /\ packet.kind \in {"in", "message", "out", "search"}
      /\ packet.kind = "message" => Len(gs) = 1 /\ gs[1] # << >> /\ Last(gs[1]).t = "data"
  <2>1. /\ w \in Seq(Byte) /\ offs \in Nat /\ got \in Seq(Vals) /\ IInv
    BY DEF PacketInv
  <2>2. packet.kind # "edit" /\ made = Len(gs)
    BY <1>1 DEF Hearing
  <2>3. QED
    BY <2>1, <2>2, GroupsOf, LenProperties
<1>3. k \in Nat /\ k + 1 <= Len(gs)
  <2>1. k < Len(gs)
    BY <1>1 DEF Hearing
  <2>2. QED
    BY <1>2, <2>1, LenProperties
<1>4. Agrees(w, 0, Total(gs))
  BY <1>1 DEF Hearing
<1>5. g \in Groups /\ ReadsOn(r, g, w, offs)
  <2>1. g \in Groups /\ (Ended(r) \/ ReadsOn(r, g, w, offs))
    BY <1>2, <1>3, NextReadEnds
  <2>2. QED
    BY <2>1 DEF Ended
<1>6. r.offs \in Nat /\ r.vals \in Vals /\ offs <= Len(w) /\ SteppedOver(g) \in Nat
  BY <1>5, GroupsAreFields, SteppedOverType DEF ReadsOn
<1>7. offs' \in Nat
  BY <1>2, <1>6
<1>8. /\ got' \in Seq(Vals) /\ Len(got') = k + 1
      /\ got'[k + 1] = r.vals /\ \A i \in 1..k : got'[i] = got[i]
  <2>1. \A i \in 1..k : i \in 1..Len(got)
    OBVIOUS
  <2>2. QED
    BY <1>2, <1>3, <1>6, <2>1, AppendProperties
<1>9. CountableIn(packet) => Heard(packet, offs', got')
  <2> SUFFICES ASSUME CountableIn(packet)
               PROVE  Heard(packet, offs', got')
    OBVIOUS
  <2>1. offs = Len(SoFar(gs, k)) /\ \A i \in 1..k : got[i] = Said(gs[i])
    BY <1>1 DEF Hearing, Heard
  <2>2. r.vals = Said(g) /\ offs + r.offs + SteppedOver(g) = Len(SoFar(gs, k + 1))
    <3>1. offs = Len(SoFar(gs, k)) /\ gs \in Seq(Groups) /\ wire \in Seq(Byte) /\ offs <= Len(wire)
      BY <1>2, <1>6, <2>1
    <3>2. QED
      BY <1>3, <1>4, <3>1, NextReadSays
  <2>3. \A i \in 1..(k + 1) : got'[i] = Said(gs[i])
    <3> TAKE i \in 1..(k + 1)
    <3>1. i \in 1..k \/ i = k + 1
      BY <1>3
    <3>2. QED
      BY <1>8, <2>1, <2>2, <3>1
  <2>4. offs' = Len(SoFar(gs, k + 1))
    BY <2>2
  <2>5. QED
    BY <1>8, <2>3, <2>4 DEF Heard
<1>10. ComparedIn(packet) => offs' <= Len(w)
  <2> SUFFICES ASSUME ComparedIn(packet)
               PROVE  offs' <= Len(w)
    OBVIOUS
  <2>1. CountableIn(packet)
    BY ComparedIsCountable
  <2>2. offs = Len(SoFar(gs, k))
    BY <1>1, <2>1 DEF Hearing, Heard
  <2>3. /\ offs + r.offs + SteppedOver(g) = Len(SoFar(gs, k + 1))
        /\ Len(SoFar(gs, k + 1)) <= Len(w)
    BY <1>2, <1>3, <1>4, <1>6, <2>1, <2>2, NextReadSays, SMTT(30)
  <2>4. QED
    BY <2>3
<1>11. packet.kind = "message" => got'[1] # << >> /\ Last(got'[1]) \in Seq(Byte)
  <2> SUFFICES ASSUME packet.kind = "message"
               PROVE  got'[1] # << >> /\ Last(got'[1]) \in Seq(Byte)
    OBVIOUS
  <2>1. k + 1 = 1
    BY <1>2, <1>3
  <2>2. g # << >> /\ Last(g).t = "data" /\ got'[1] = r.vals
    BY <1>2, <1>8, <2>1
  <2>3. QED
    BY <1>5, <2>2 DEF ReadsOn
<1>12. x \in {"read", "done"} /\ (x = "read" => k + 1 < Len(gs)) /\ (x = "done" => k + 1 = Len(gs))
  BY <1>2, <1>3
<1>13. Text(buf') = t /\ UNCHANGED <<packet, made, wire>> /\ UNCHANGED bufVars
  BY DEF bufVars
<1> HIDE DEF x
<1>14. Hearing(packet, made, Text(buf'), wire, offs', got', x)
  <2>1. x # "kept" /\ x # "past"
    BY <1>12
  <2>2. /\ packet.kind \in {"in", "message"} => t = Total(packet.groups)
        /\ packet.kind \in {"out", "search"} => w = Total(packet.groups)
        /\ Agrees(w, 0, Total(packet.groups)) /\ Len(w) <= Len(Total(packet.groups))
        /\ packet.kind # "edit" /\ made = Len(packet.groups)
    BY <1>1 DEF Hearing
  <2>3. /\ x = "read" => Len(got') < Len(packet.groups)
        /\ x \in {"done", "kept"} => Len(got') = Len(packet.groups)
    BY <1>8, <1>12, <2>1
  <2> HIDE DEF t, w
  <2>4. QED
    BY <1>9, <1>10, <1>11, <1>13, <2>1, <2>2, <2>3 DEF Hearing, w
<1>15. IInv' 
  BY <1>2, <1>13, StutterExact
<1>16. x \in Outcomes \ Building /\ Len(got') <= Len(packet.groups)
  BY <1>2, <1>3, <1>8, <1>12 DEF Outcomes, Building
<1>17. QED
  BY <1>1, <1>7, <1>8, <1>13, <1>14, <1>15, <1>16, HearingGoesOn DEF x

LEMMA ReadStops ==
  ASSUME PacketInv, NEW gs, gs = packet.groups, NEW k, k = Len(got),
         outcome = "read", NEW r, NextRead(r, gs, k, wire, offs), r.out # "ok",
         UNCHANGED <<offs, got>>, outcome' = r.out,
         UNCHANGED <<bufVars, packet, made, wire>>
  PROVE  PacketInv'
<1> DEFINE x == outcome'
           t == Text(buf)
<1>1. Hearing(packet, made, t, wire, offs, got, "read") /\ outcome \notin Building
  <2>1. outcome \notin Building
    BY DEF Building
  <2>2. QED
    BY <2>1, StillHearing
<1>2. /\ wire \in Seq(Byte) /\ offs \in Nat /\ got \in Seq(Vals) /\ IInv
      /\ Len(got) <= Len(packet.groups) /\ WellMade(packet)
  BY DEF PacketInv
<1>3. gs \in Seq(Groups) /\ Len(gs) \in Nat
  BY <1>2, LenProperties DEF WellMade
<1>4. k \in Nat /\ k + 1 <= Len(gs)
  <2>1. k < Len(gs)
    BY <1>1 DEF Hearing
  <2>2. QED
    BY <1>2, <1>3, <2>1, LenProperties
<1>5. x \in {"refused", "past"}
  <2>1. Ended(r) \/ ReadsOn(r, gs[k + 1], wire, offs)
    BY <1>2, <1>3, <1>4, NextReadEnds
  <2>2. QED
    BY <2>1 DEF Ended, ReadsOn
<1>6. ComparedIn(packet) => x # "past" /\ offs <= Len(wire)
  <2> SUFFICES ASSUME ComparedIn(packet)
               PROVE  x # "past" /\ offs <= Len(wire)
    OBVIOUS
  <2>1. CountableIn(packet)
    BY ComparedIsCountable
  <2>2. offs = Len(SoFar(gs, k)) /\ offs <= Len(wire) /\ Agrees(wire, 0, Total(gs))
    BY <1>1, <2>1 DEF Hearing, Heard
  <2>3. r.out # "past"
    BY <1>2, <1>3, <1>4, <2>1, <2>2, NextReadSays
  <2>4. QED
    BY <2>2, <2>3
<1>7. /\ Text(buf') = t /\ UNCHANGED <<packet, made, wire>> /\ UNCHANGED bufVars
      /\ offs' = offs /\ got' = got
  BY DEF bufVars
<1> HIDE DEF x
<1>8. Hearing(packet, made, Text(buf'), wire, offs', got', x)
  <2>1. x # "read" /\ x # "done" /\ x # "kept"
    BY <1>5
  <2> HIDE DEF t
  <2>2. QED
    BY <1>1, <1>6, <1>7, <2>1 DEF Hearing
<1>9. IInv'
  BY <1>2, <1>7, StutterExact
<1>10. x \in Outcomes \ Building /\ Len(got') <= Len(packet.groups)
  BY <1>2, <1>5, <1>7 DEF Outcomes, Building
<1>11. offs' \in Nat /\ got' \in Seq(Vals)
  BY <1>2, <1>7
<1>12. QED
  BY <1>1, <1>7, <1>8, <1>9, <1>10, <1>11, HearingGoesOn DEF x

LEMMA ReadStep ==
  ASSUME PacketInv, Read
  PROVE  PacketInv' /\ UNCHANGED BS!vars
<1> DEFINE gs == packet.groups
           k == Len(got)
           r == IF offs > Len(wire) THEN Stopped(Reader, "past")
                ELSE Unpack(SubSeq(wire, offs + 1, Len(wire)), gs[k + 1])
<1>1. /\ outcome = "read" /\ UNCHANGED <<bufVars, packet, made, wire>>
      /\ IF r.out = "ok"
           THEN /\ offs' = offs + r.offs + SteppedOver(gs[k + 1])
                /\ got' = Append(got, r.vals)
                /\ outcome' = IF k + 1 = Len(gs) THEN "done" ELSE "read"
           ELSE outcome' = r.out /\ UNCHANGED <<offs, got>>
  BY DEF Read
<1>2. NextRead(r, gs, k, wire, offs)
  BY DEF NextRead
<1>3. UNCHANGED BS!vars
  BY <1>1, StutterExact DEF PacketInv
<1> HIDE DEF r
<1>4. CASE r.out = "ok"
  <2>1. gs = packet.groups /\ k = Len(got)
    OBVIOUS
  <2> HIDE DEF gs, k
  <2>2. PacketInv'
    BY <1>1, <1>2, <1>4, <2>1, ReadGoesOn
  <2>3. QED
    BY <1>3, <2>2
<1>5. CASE r.out # "ok"
  <2>1. gs = packet.groups /\ k = Len(got)
    OBVIOUS
  <2> HIDE DEF gs, k
  <2>2. PacketInv'
    BY <1>1, <1>2, <1>5, <2>1, ReadStops
  <2>3. QED
    BY <1>3, <2>2
<1>6. QED
  BY <1>4, <1>5

(* The edits, the keeping of a message, and the whole *)
LEMMA PackedPair ==
  ASSUME NEW a, NEW b, Packing(a) \in Seq(Directives), Packing(b) \in Seq(Directives)
  PROVE  Packed(<<a, b>>) \in Seq(Byte)
<1> DEFINE fields == <<a, b>>
           D == Seq(Directives)
           ds == FlattenSeq(Packings(fields))
<1>1. Packing(a) \in D /\ Packing(b) \in D
  OBVIOUS
<1>2. Packings(fields) \in Seq(D)
  <2> HIDE DEF D
  <2>1. DOMAIN fields = 1..2 /\ fields[1] = a /\ fields[2] = b
    OBVIOUS
  <2> HIDE DEF fields
  <2>2. \A i \in 1..2 : Packing(fields[i]) \in D
    BY <1>1, <2>1
  <2>3. Packings(fields) = [i \in 1..2 |-> Packing(fields[i])]
    BY <2>1 DEF Packings
  <2>4. Packings(fields) \in [1..2 -> D]
    BY <2>2, <2>3
  <2>5. QED
    BY <2>4, 2 \in Nat, SeqDef
<1> HIDE DEF fields
<1>3. ds \in D
  BY <1>2, FlattenType
<1> HIDE DEF ds
<1>4. Packs(ds) \in Seq(Seq(Byte))
  BY <1>3, PacksType
<1>5. FlattenSeq(Packs(ds)) \in Seq(Byte)
  BY <1>4, FlattenType
<1>6. QED
  BY <1>5, PackedIs DEF ds, fields

LEMMA RawPacks ==
  ASSUME NEW s \in Seq(Byte)
  PROVE  Packing(Raw(s)) \in Seq(Directives)
<1> DEFINE c == "p"
           n == Len(s)
<1>1. n \in Nat /\ s \in Seq(Nat)
  BY BytesAreNumbers
<1>2. c \in {"u", "r", "p", "Z", "lit"} /\ c # "u" /\ c # "r" /\ c # "lit" /\ c = "p"
  OBVIOUS
<1>3. <<Directive(c, n, s)>> \in Seq(Directives)
  <2> HIDE DEF c, n
  <2>1. n = Len(s)
    BY DEF n
  <2>2. QED
    BY <1>1, <1>2, <2>1, SinglePacking
<1>4. Raw(s).t = "raw" /\ Raw(s).w = n /\ Raw(s).v = s
  BY DEF Raw, Field
<1>5. Packing(Raw(s)) = <<Directive(c, n, s)>>
  BY <1>4 DEF Packing
<1>6. QED
  BY <1>3, <1>5

LEMMA EditStep ==
  ASSUME PacketInv, EditAlone
  PROVE  PacketInv' /\ BS!Next
<1>1. packet.kind = "edit" /\ UNCHANGED <<packet, made, wire, offs, got, outcome>> /\ IInv
  BY DEF EditAlone, PacketInv
<1>2. IInv' /\ BS!Next
  <2>1. CASE Edit
    BY <1>1, <2>1, EditExact
  <2>2. CASE \E s \in Sources, p \in Lengths : InsertPack(p, <<Num(1, 1), Raw(s)>>)
    <3>1. PICK s \in Sources, p \in Lengths : InsertPack(p, <<Num(1, 1), Raw(s)>>)
      BY <2>2
    <3>2. s \in Seq(Byte) /\ p \in Nat
      BY BufferAssumption DEF BufferAssumption, Lengths
    <3>3. Num(1, 1) \in Fields
      <4>1. 1 \in Widths /\ 1 \in Nat
        BY DEF Widths
      <4>2. QED
        BY <4>1, NumIs DEF Bodies
    <3>4. Packing(Num(1, 1)) \in Seq(Directives) /\ Packing(Raw(s)) \in Seq(Directives)
      BY <3>2, <3>3, FieldBytes, RawPacks
    <3>5. Packed(<<Num(1, 1), Raw(s)>>) \in Seq(Byte)
      BY <3>4, PackedPair
    <3>6. QED
      BY <1>1, <3>1, <3>2, <3>5, InsertPackStep
  <2>3. QED
    BY <2>1, <2>2 DEF EditAlone
<1>3. /\ packet' = packet /\ made' = made /\ wire' = wire /\ offs' = offs /\ got' = got
      /\ outcome' = outcome
  BY <1>1
<1>4. /\ WellMade(packet) /\ made \in 0..Len(packet.groups) /\ wire \in Seq(Byte) /\ offs \in Nat
      /\ got \in Seq(Vals) /\ Len(got) <= Len(packet.groups) /\ outcome = "build" /\ made = 0
      /\ wire = << >> /\ offs = 0 /\ got = << >>
  BY <1>1 DEF PacketInv, Building
<1>5. (WellMade(packet))'
  BY <1>3, <1>4 DEF WellMade, Groups, Fields, Bodies, Tails, Types, Widths
<1>6. Phase(packet, made, Text(buf), outcome)'
  BY <1>3, <1>4 DEF Phase, Made
<1>7. outcome' \in Outcomes /\ outcome' \in Building
  BY <1>3, <1>4 DEF Outcomes, Building
<1>8. PacketInv'
  BY <1>2, <1>3, <1>4, <1>5, <1>6, <1>7 DEF PacketInv
<1>9. QED
  BY <1>2, <1>8

LEMMA PaddedByZero ==
  ASSUME NEW t \in Seq(Byte), NEW z, z = << 0 >>, NEW n, n = Len(t) + 1
  PROVE  BS!Padded(t, n) = t \o z
<1> DEFINE p == BS!Padded(t, n)
           j == t \o z
<1>1. z \in Seq(Byte) /\ Len(z) = 1 /\ z[1] = 0
  BY ZeroByte
<1>2. PICK m \in Nat : m = Len(t) /\ n = m + 1
  BY LenProperties
<1>3. /\ p \in Seq(Byte) /\ Len(p) = m + 1
      /\ \A i \in 1..(m + 1) : p[i] = IF i <= m THEN t[i] ELSE 0
  <2>1. n \in Nat
    BY <1>2
  <2>2. QED
    BY <1>2, <2>1, BufferAssumption, PaddedProperties
<1> HIDE DEF p
<1>4. /\ j \in Seq(Byte) /\ Len(j) = m + 1
      /\ \A i \in 1..(m + 1) : j[i] = IF i <= m THEN t[i] ELSE z[i - m]
  BY <1>1, <1>2, Joined2
<1> HIDE DEF j
<1>5. \A i \in 1..(m + 1) : p[i] = j[i]
  <2> TAKE i \in 1..(m + 1)
  <2>1. i <= m \/ i - m = 1
    BY <1>2
  <2>2. QED
    BY <1>1, <1>3, <1>4, <2>1
<1>6. p = j
  BY <1>3, <1>4, <1>5, SeqEqual
<1>7. QED
  BY <1>6 DEF p, j

(* A message has bytes, if only those of the count of its text *)
LEMMA DataIsSome ==
  ASSUME NEW g \in Seq(Fields), g # << >>, Last(g).t = "data"
  PROVE  Packed(g) # << >>
<1>1. PICK s \in Seq(Fields), f \in Fields : g = Append(s, f)
  BY SequenceEmptyOrAppend
<1>2. Last(g) = f
  <2>1. Len(s) \in Nat /\ Len(g) = Len(s) + 1 /\ g[Len(s) + 1] = f
    BY <1>1, AppendProperties, LenProperties
  <2>2. QED
    BY <2>1 DEF Last
<1> DEFINE a == Packed(s)
           d == Digits(Len(f.v), f.w)
           b == BytesOf(f)
           v == f.v
           n == Len(v)
<1>3. b = d \o v /\ f.w \in Widths /\ v \in Seq(Byte)
  BY <1>2, FieldBytes, FieldParts
<1>4. n \in Nat /\ f.w \in Nat /\ f.w > 0
  BY <1>3, WidthsAre, LenProperties
<1>5. d \in Seq(Byte) /\ Len(d) = f.w
  <2> HIDE DEF n
  <2>1. Digits(n, f.w) \in Seq(Byte) /\ Len(Digits(n, f.w)) = f.w
    BY <1>3, <1>4, DigitsType
  <2>2. QED
    BY <2>1 DEF n
<1> HIDE DEF d, v, b
<1>6. Joins(b, d, v)
  BY <1>3 DEF Joins
<1>7. Joint(b, d, v)
  BY <1>3, <1>5, <1>6, JoinedLength
<1>8. b \in Seq(Byte) /\ Len(b) \in Nat /\ Len(b) > 0
  BY <1>4, <1>5, <1>7 DEF Joint
<1>9. a \in Seq(Byte)
  BY PackedType
<1> DEFINE j == Packed(g)
<1>10. Joins(j, a, b)
  BY <1>1, PackedAppend DEF Joins, b
<1> HIDE DEF j, a
<1>11. Joint(j, a, b)
  BY <1>8, <1>9, <1>10, JoinedLength
<1>12. Len(a) \in Nat
  BY <1>9, LenProperties
<1>13. j \in Seq(Byte) /\ Len(j) # 0
  BY <1>8, <1>11, <1>12 DEF Joint
<1>14. j # << >>
  BY <1>13, EmptySeq
<1>15. QED
  BY <1>14 DEF j

LEMMA KeepStep ==
  ASSUME PacketInv, Keep
  PROVE  PacketInv' /\ (BS!Next \/ UNCHANGED BS!vars)
<1> DEFINE gs == packet.groups
           t == Text(buf)
           tmpmsg == got[1][Len(got[1])]
           n == Len(tmpmsg) + 1
           z == << 0 >>
           u == tmpmsg \o z
<1>1. /\ packet.kind = "message" /\ outcome = "done"
      /\ UNCHANGED <<packet, made, wire, offs, got>>
  BY DEF Keep
<1>2. outcome \notin Building /\ Hearing(packet, made, t, wire, offs, got, "done")
  <2>1. outcome \notin Building
    BY <1>1 DEF Building
  <2>2. QED
    BY <1>1, <2>1, StillHearing
<1>3. /\ wire \in Seq(Byte) /\ offs \in Nat /\ got \in Seq(Vals) /\ IInv
      /\ Len(got) <= Len(packet.groups)
  BY DEF PacketInv
<1>4. /\ gs \in Seq(Groups) /\ Len(gs) = 1 /\ gs[1] # << >> /\ Last(gs[1]).t = "data"
  BY <1>1, GroupsOf
<1>5. got[1] # << >> /\ Last(got[1]) \in Seq(Byte) /\ Last(got[1]) = tmpmsg
  <2>1. Len(got) = 1
    BY <1>2, <1>4 DEF Hearing
  <2>2. got # << >>
    BY <2>1
  <2>3. QED
    BY <1>1, <1>2, <2>2 DEF Hearing, Last
<1>6. tmpmsg \in Seq(Byte) /\ Len(tmpmsg) \in Nat
  BY <1>5, LenProperties
<1>7. t = Total(gs)
  BY <1>1, <1>2 DEF Hearing
<1>8. packet' = packet /\ made' = made /\ wire' = wire /\ offs' = offs /\ got' = got
  BY <1>1
<1>9. CASE Len(tmpmsg) <= 2
  <2>1. outcome' = "refused" /\ UNCHANGED bufVars
    BY <1>9 DEF Keep
  <2>2. UNCHANGED BS!vars /\ IInv'
    BY <1>3, <2>1, StutterExact
  <2>3. Text(buf') = t
    BY <2>1 DEF bufVars
  <2> HIDE DEF t, gs
  <2>4. Hearing(packet, made, Text(buf'), wire, offs', got', outcome')
    BY <1>2, <1>8, <2>1, <2>3 DEF Hearing
  <2>5. outcome' \in Outcomes \ Building
    BY <2>1 DEF Outcomes, Building
  <2>6. PacketInv'
    BY <1>1, <1>2, <1>3, <1>8, <2>2, <2>4, <2>5, HearingGoesOn
  <2>7. QED
    BY <2>2, <2>6
<1>10. CASE ~(Len(tmpmsg) <= 2)
  <2>1. /\ buf' = Buf(Resize(NewOf(tmpmsg).mem, n), n) /\ live' = live
        /\ Called("new", tmpmsg, 0, 0, n) /\ outcome' = "kept"
    BY <1>10 DEF Keep
  <2> HIDE DEF tmpmsg
  <2>2. z = << 0 >> /\ Summed(n, Len(tmpmsg), 1) /\ n = Len(tmpmsg) + 1
    BY DEF Summed
  <2> HIDE DEF z, n
  <2>3. /\ u \in Seq(Byte)
        /\ Buf(Resize(NewOf(tmpmsg).mem, n), n) = Exact(u)
        /\ BS!Padded(tmpmsg, n) = u
    BY <1>6, <2>2, KeptHolds, PaddedByZero
  <2> HIDE DEF u
  <2>4. CallIs(call', "new", tmpmsg, 0, n)
    BY <2>1, CalledIs
  <2>5. u = BS!Meaning(t, call')
    BY <2>3, <2>4, Meanings DEF CallIs
  <2>6. live = TRUE
    <3>1. gs[1] \in Groups /\ Total(gs) = Packed(gs[1])
      <4> HIDE DEF gs
      <4>1. QED
        BY <1>4, SoFarFirst DEF Total
    <3>2. Total(gs) # << >>
      BY <1>4, <3>1, GroupsAreFields, DataIsSome
    <3>3. QED
      BY <1>3, <1>7, <3>2, BufferIs
  <2>7. live' = (call'.op # "free") /\ live'
    BY <2>1, <2>4, <2>6 DEF CallIs
  <2>8. BufferStep(u)
    BY <1>3, <2>1, <2>3, <2>5, <2>7, StepOf
  <2>9. IInv' /\ BS!Next /\ Text(buf') = u
    BY <2>8 DEF BufferStep
  <2> HIDE DEF t, gs
  <2>10. Hearing(packet, made, Text(buf'), wire, offs', got', outcome')
    <3>1. Len(tmpmsg) > 2
      BY <1>6, <1>10
    <3>2. u = Last(got[1]) \o << 0 >> /\ Len(Last(got[1])) > 2
      BY <1>5, <3>1 DEF u, z
    <3>3. packet.kind \notin {"out", "search"}
      BY <1>1
    <3>4. QED
      BY <1>1, <1>2, <1>8, <2>1, <2>9, <3>2, <3>3 DEF Hearing
  <2>11. outcome' \in Outcomes \ Building
    BY <2>1 DEF Outcomes, Building
  <2>12. PacketInv'
    BY <1>1, <1>2, <1>3, <1>8, <2>9, <2>10, <2>11, HearingGoesOn
  <2>13. QED
    BY <2>9, <2>12
<1>11. QED
  BY <1>9, <1>10

LEMMA InitInv ==
  ASSUME PacketInit
  PROVE  PacketInv /\ BS!Init
<1>1. /\ Init /\ packet \in {Packet("edit", << >>)} \cup Arriving \cup Leaving
      /\ made = 0 /\ wire = << >> /\ offs = 0 /\ got = << >> /\ outcome = "build"
  BY DEF PacketInit
<1>2. IInv /\ BS!Init
  BY <1>1, InitExact
<1>3. WellMade(packet)
  BY <1>1, AllAreMade
<1>4. Len(packet.groups) \in Nat
  BY <1>3, LenProperties DEF WellMade
<1>5. wire \in Seq(Byte) /\ got \in Seq(Vals) /\ Len(got) = 0
  BY <1>1, EmptySeq
<1>6. Phase(packet, made, Text(buf), outcome)
  BY <1>1 DEF Phase, Made
<1>7. outcome \in Outcomes /\ outcome \in Building
  BY <1>1 DEF Outcomes, Building
<1>8. QED
  BY <1>1, <1>2, <1>3, <1>4, <1>5, <1>6, <1>7 DEF PacketInv

LEMMA StopsStep ==
  ASSUME PacketInv, UNCHANGED vars
  PROVE  PacketInv' /\ UNCHANGED BS!vars
<1>1. /\ packet' = packet /\ made' = made /\ wire' = wire /\ offs' = offs /\ got' = got
      /\ outcome' = outcome /\ buf' = buf /\ live' = live /\ call' = call
  BY DEF vars
<1>2. UNCHANGED bufVars /\ IInv
  BY <1>1 DEF bufVars, PacketInv
<1>3. UNCHANGED BS!vars /\ IInv'
  BY <1>2, StutterExact
<1>4. /\ WellMade(packet) /\ made \in 0..Len(packet.groups)
      /\ wire \in Seq(Byte) /\ offs \in Nat
      /\ got \in Seq(Vals) /\ Len(got) <= Len(packet.groups)
      /\ outcome \in Outcomes
      /\ packet.kind = "edit" => outcome = "build" /\ made = 0
      /\ outcome \in Building => wire = << >> /\ offs = 0 /\ got = << >>
      /\ Phase(packet, made, Text(buf), outcome)
      /\ outcome \notin Building => Hearing(packet, made, Text(buf), wire, offs, got, outcome)
  BY DEF PacketInv
<1>5. (WellMade(packet))'
  BY <1>1, <1>4 DEF WellMade, Groups, Fields, Bodies, Tails, Types, Widths
<1>6. Phase(packet, made, Text(buf), outcome)'
  BY <1>1, <1>4
<1>7. (outcome \notin Building => Hearing(packet, made, Text(buf), wire, offs, got, outcome))'
  BY <1>1, <1>4 DEF Building
<1>8. QED
  BY <1>1, <1>3, <1>4, <1>5, <1>6, <1>7 DEF PacketInv, Outcomes, Building

LEMMA NextStep ==
  ASSUME PacketInv, [Next]_vars
  PROVE  PacketInv' /\ (BS!Next \/ UNCHANGED BS!vars)
<1>1. CASE EditAlone
  BY <1>1, EditStep
<1>2. CASE Start
  BY <1>2, StartStep
<1>3. CASE More
  BY <1>3, MoreStep
<1>4. CASE Wrap
  BY <1>4, WrapStep
<1>5. CASE Send
  BY <1>5, SendStep
<1>6. CASE Deliver
  BY <1>6, DeliverStep
<1>7. CASE Arrive
  BY <1>7, ArriveStep
<1>8. CASE Read
  BY <1>8, ReadStep
<1>9. CASE Keep
  BY <1>9, KeepStep
<1>10. CASE Stop \/ UNCHANGED vars
  BY <1>10, StopsStep DEF Stop
<1>11. QED
  BY <1>1, <1>2, <1>3, <1>4, <1>5, <1>6, <1>7, <1>8, <1>9, <1>10 DEF Next

(* What the invariant says of the properties *)
LEMMA InvTypeOK ==
  ASSUME PacketInv
  PROVE  TypeOK
<1> DEFINE t == Text(buf)
<1>1. IInv /\ made \in 0..Len(packet.groups) /\ wire \in Seq(Byte) /\ offs \in Nat
      /\ Len(got) <= Len(packet.groups) /\ outcome \in Outcomes
  BY DEF PacketInv
<1>2. t \in Seq(Byte) /\ buf = Exact(t) /\ live \in BOOLEAN
  BY <1>1, BufferIs
<1> HIDE DEF t
<1>3. t \in Memory /\ Len(t) \in Nat /\ \A i \in 1..Len(t) : t[i] \in Byte
  BY <1>2, BytesAreMemory
<1>4. \A i \in 1..Len(t) : t[i] # Junk
  BY <1>3, BufferAssumption DEF BufferAssumption
<1>5. buf = [mem |-> t, size |-> Len(t)]
  BY <1>2 DEF Exact, Buf
<1>6. BufferOK
  BY <1>2, <1>3, <1>4, <1>5 DEF BufferOK
<1>7. QED
  BY <1>1, <1>6 DEF TypeOK, Outcomes

LEMMA InRange ==
  ASSUME WellMade(packet)
  PROVE  /\ AllCountable => CountableIn(packet)
         /\ (\A g \in Range(packet.groups) : \A f \in Range(g) : Compared(f)) => ComparedIn(packet)
<1> DEFINE gs == packet.groups
<1>1. gs \in Seq(Groups)
  BY DEF WellMade
<1>2. ASSUME NEW i \in 1..Len(gs), NEW j \in 1..Len(gs[i])
      PROVE  gs[i] \in Range(gs) /\ gs[i][j] \in Range(gs[i])
  <2>1. DOMAIN gs = 1..Len(gs)
    BY <1>1, LenProperties
  <2>2. gs[i] \in Groups
    BY <1>1, ElementOfSeq
  <2>3. gs[i] \in Seq(Fields)
    BY <2>2, GroupsAreFields
  <2>4. DOMAIN gs[i] = 1..Len(gs[i])
    BY <2>3, LenProperties
  <2> HIDE DEF gs
  <2>5. QED
    BY <2>1, <2>4 DEF Range
<1>3. AllCountable => CountableIn(packet)
  BY <1>2 DEF AllCountable, CountableIn
<1>4. (\A g \in Range(packet.groups) : \A f \in Range(g) : Compared(f)) => ComparedIn(packet)
  BY <1>2 DEF ComparedIn
<1>5. QED
  BY <1>3, <1>4

LEMMA BehindStyle ==
  ASSUME NEW t \in Seq(Byte), Len(t) > 2, NEW z, z = << 0 >>, NEW j, Joins(j, t, z)
  PROVE  SubSeq(j, 3, Len(j)) = BS!From(t, 2) \o z
<1>1. PICK n \in Nat : Len(t) = n + 2
  <2>1. Len(t) \in Nat
    BY LenProperties
  <2>2. Len(t) - 2 \in Nat /\ Len(t) = (Len(t) - 2) + 2
    BY <2>1
  <2>3. QED
    BY <2>2
<1>2. z \in Seq(Byte) /\ Len(z) = 1 /\ z[1] = 0
  BY ZeroByte
<1>3. /\ j \in Seq(Byte) /\ Len(j) = (n + 2) + 1
      /\ \A i \in 1..((n + 2) + 1) : j[i] = IF i <= n + 2 THEN t[i] ELSE z[i - (n + 2)]
  <2>1. j = t \o z
    BY DEF Joins
  <2>2. /\ t \o z \in Seq(Byte) /\ Len(t \o z) = Len(t) + Len(z)
        /\ \A i \in 1..(Len(t) + Len(z)) :
             (t \o z)[i] = IF i <= Len(t) THEN t[i] ELSE z[i - Len(t)]
    BY <1>2, Joined2
  <2>3. QED
    BY <1>1, <1>2, <2>1, <2>2
<1> DEFINE f == BS!From(t, 2)
           l == SubSeq(j, 2 + 1, 2 + (n + 1))
           r == f \o z
<1>4. /\ f \in Seq(Byte) /\ Len(f) = n
      /\ \A i \in 1..n : f[i] = t[2 + i]
  <2>1. 2 \in Nat /\ (IF 2 < Len(t) THEN Len(t) - 2 ELSE 0) = n
    BY <1>1
  <2>2. /\ BS!From(t, 2) \in Seq(Byte)
        /\ Len(BS!From(t, 2)) = IF 2 < Len(t) THEN Len(t) - 2 ELSE 0
        /\ \A i \in 1..Len(BS!From(t, 2)) : BS!From(t, 2)[i] = t[2 + i]
    BY <2>1, FromProperties
  <2>3. QED
    BY <2>1, <2>2
<1> HIDE DEF f
<1>5. /\ l \in Seq(Byte) /\ Len(l) = n + 1
      /\ \A i \in 1..(n + 1) : l[i] = j[2 + i]
  <2>1. ~(2 + (n + 1) > Len(j)) /\ n + 1 \in Nat
    BY <1>3
  <2>2. QED
    BY <1>3, <2>1, SubBytes
<1>6. /\ r \in Seq(Byte) /\ Len(r) = n + 1
      /\ \A i \in 1..(n + 1) : r[i] = IF i <= n THEN f[i] ELSE z[i - n]
  BY <1>2, <1>4, Joined2
<1> HIDE DEF l, r
<1>7. \A i \in 1..(n + 1) : l[i] = r[i]
  <2> TAKE i \in 1..(n + 1)
  <2>1. CASE i <= n
    <3>1. 2 + i \in 1..((n + 2) + 1) /\ 2 + i <= n + 2 /\ i \in 1..n
      BY <2>1
    <3>2. QED
      BY <1>3, <1>4, <1>5, <1>6, <2>1, <3>1
  <2>2. CASE ~(i <= n)
    <3>1. /\ i - n = 1 /\ 2 + i \in 1..((n + 2) + 1) /\ ~(2 + i <= n + 2)
          /\ (2 + i) - (n + 2) = 1
      BY <2>2
    <3>2. QED
      BY <1>3, <1>5, <1>6, <2>2, <3>1
  <2>3. QED
    BY <2>1, <2>2
<1>8. l = r
  BY <1>5, <1>6, <1>7, SeqEqual
<1>9. SubSeq(j, 3, Len(j)) = l
  BY <1>3 DEF l
<1>10. QED
  BY <1>8, <1>9 DEF r, f

LEMMA SentSurvives ==
  ASSUME PacketInv, outcome = "sent"
  PROVE  /\ Number(SubSeq(Text(buf), 5, 6)) = (buf.size - HeadSize) % Values[2]
         /\ Number(SubSeq(Inner, 5, 6)) = (Len(Inner) - HeadSize) % Values[2]
<1> DEFINE t == Text(buf)
           gs == packet.groups
           p == HeadBytes \o Total(gs)
<1>1. SentOff(packet, made, t) /\ IInv
  BY DEF PacketInv, Phase
<1>2. Number(SubSeq(t, 5, 6)) = (Len(t) - HeadSize) % Values[2]
      /\ Inner = Completed(p)
  BY <1>1 DEF SentOff, Inner
<1>3. buf.size = Len(t)
  BY <1>1, BufferIs
<1>4. p \in Seq(Byte) /\ Len(p) >= HeadSize
  <2>1. gs \in Seq(Groups)
    BY GroupsOf
  <2>2. p = HeadBytes \o Total(gs)
    OBVIOUS
  <2> HIDE DEF p, gs
  <2>3. QED
    BY <2>1, <2>2, RequestType
<1> HIDE DEF p, t
<1>5. /\ Len(Completed(p)) = Len(p)
      /\ Number(SubSeq(Completed(p), 5, 6)) = (Len(p) - HeadSize) % Values[2]
  BY <1>4, CompletedIs
<1>6. Number(SubSeq(Text(buf), 5, 6)) = (buf.size - HeadSize) % Values[2]
  BY <1>2, <1>3 DEF t
<1>7. QED
  BY <1>2, <1>5, <1>6

(* What was read of a countable packet *)
LEMMA ReadSurvives ==
  ASSUME PacketInv, CountableIn(packet), NEW i \in 1..Len(got)
  PROVE  got[i] = Said(packet.groups[i])
<1>1. got \in Seq(Vals)
  BY DEF PacketInv
<1>2. CASE outcome \in Building
  <2>1. got = << >>
    BY <1>2 DEF PacketInv
  <2>2. Len(got) = 0
    BY <2>1
  <2>3. QED
    BY <2>2
<1>3. CASE outcome \notin Building
  BY <1>3 DEF PacketInv, Hearing, Heard
<1>4. QED
  BY <1>2, <1>3

(* The other side has all of a packet that was not cut *)
LEMMA WholeIsTotal ==
  ASSUME PacketInv, outcome \in {"read", "done"}, Whole
  PROVE  wire = Total(packet.groups)
<1>1. Hearing(packet, made, Text(buf), wire, offs, got, outcome)
  BY DEF PacketInv, Building
<1>2. /\ packet.kind \in {"out", "search"} => wire = Total(packet.groups)
      /\ packet.kind \in {"in", "message"} => Text(buf) = Total(packet.groups)
      /\ packet.kind # "edit"
  BY <1>1 DEF Hearing
<1>3. packet.kind \in {"edit", "in", "message", "out", "search"}
  BY GroupsOf
<1>4. CASE packet.kind \in {"out", "search"}
  BY <1>2, <1>4
<1>5. CASE packet.kind \in {"in", "message"}
  BY <1>2, <1>5 DEF Whole, Outgoing
<1>6. QED
  BY <1>2, <1>3, <1>4, <1>5

LEMMA NextSurvives ==
  ASSUME PacketInv, CountableIn(packet), outcome = "read", Whole, Len(got) < Len(packet.groups)
  PROVE  Unpack(SubSeq(wire, offs + 1, Len(wire)), packet.groups[Len(got) + 1]).out = "ok"
<1> DEFINE gs == packet.groups
           k == Len(got)
           r == Unpack(SubSeq(wire, offs + 1, Len(wire)), gs[k + 1])
<1>1. /\ gs \in Seq(Groups) /\ wire \in Seq(Byte) /\ got \in Seq(Vals) /\ Len(gs) \in Nat
  BY GroupsOf DEF PacketInv
<1>2. k \in Nat /\ k + 1 \in Nat /\ k <= Len(gs) /\ k + 1 <= Len(gs)
  BY <1>1, LenProperties
<1>3. wire = Total(gs)
  BY WholeIsTotal
<1>4. offs = Len(SoFar(gs, k))
  BY DEF PacketInv, Building, Hearing, Heard
<1>5. Agrees(wire, 0, Total(gs))
  <2>1. Agrees(wire, 0, wire)
    BY <1>1, AgreesWithItself
  <2>2. QED
    BY <1>3, <2>1
<1>6. offs <= Len(wire) /\ Len(SoFar(gs, k + 1)) <= Len(wire) /\ Len(wire) \in Nat /\ offs \in Nat
  <2> HIDE DEF gs, k
  <2>1. Len(SoFar(gs, k)) <= Len(Total(gs)) /\ Len(SoFar(gs, k + 1)) <= Len(Total(gs))
    BY <1>1, <1>2, <1>5, SoFarAgrees
  <2>2. Len(SoFar(gs, k)) \in Nat
    BY <1>1, <1>2, SoFarType
  <2>3. QED
    BY <1>1, <1>3, <1>4, <2>1, <2>2, LenProperties
<1>7. NextRead(r, gs, k, wire, offs)
  BY <1>6 DEF NextRead
<1>8. gs = packet.groups
  OBVIOUS
<1>9. r.out = "ok"
  <2> HIDE DEF gs, k, r
  <2>1. gs \in Seq(Groups) /\ wire \in Seq(Byte) /\ k \in Nat /\ k + 1 <= Len(gs) /\ offs <= Len(wire)
    BY <1>1, <1>2, <1>6
  <2>2. Len(wire) >= Len(SoFar(gs, k + 1)) => r.out = "ok"
    BY <1>4, <1>5, <1>7, <1>8, <2>1, NextReadSays
  <2>3. Len(SoFar(gs, k + 1)) \in Nat
    BY <1>1, <1>2, SoFarType
  <2>4. QED
    BY <1>6, <2>2, <2>3
<1>10. QED
  BY <1>9

(* A message that was kept is the text that was said, and a zero *)
LEMMA KeptSurvives ==
  ASSUME PacketInv, CountableIn(packet), outcome = "kept"
  PROVE  SubSeq(Text(buf), 3, buf.size) =
           BS!From(Said(packet.groups[1])[Len(Said(packet.groups[1]))], 2) \o << 0 >>
<1> DEFINE gs == packet.groups
           a == got[1]
           z == << 0 >>
<1>1. Hearing(packet, made, Text(buf), wire, offs, got, outcome) /\ IInv /\ got \in Seq(Vals)
  BY DEF PacketInv, Building
<1>2. packet.kind = "message" /\ Text(buf) = Last(a) \o z /\ Len(Last(a)) > 2
      /\ Len(got) = Len(gs)
  BY <1>1 DEF Hearing
<1>3. Len(gs) = 1
  BY <1>2, GroupsOf
<1>4. 1 \in 1..Len(got)
  BY <1>2, <1>3
<1>5. got # << >>
  <2>1. Len(got) = 1
    BY <1>2, <1>3
  <2>2. QED
    BY <2>1
<1>6. Last(a) \in Seq(Byte)
  BY <1>1, <1>2, <1>5 DEF Hearing
<1>7. a = Said(gs[1])
  BY <1>4, ReadSurvives
<1>8. Last(a) = a[Len(a)]
  BY DEF Last
<1>9. buf.size = Len(Text(buf))
  BY <1>1, BufferIs
<1>10. Joins(Text(buf), Last(a), z)
  BY <1>2 DEF Joins
<1>11. z = << 0 >>
  OBVIOUS
<1> HIDE DEF a, z
<1>12. SubSeq(Text(buf), 3, Len(Text(buf))) = BS!From(Last(a), 2) \o z
  BY <1>2, <1>6, <1>10, <1>11, BehindStyle
<1>13. QED
  BY <1>7, <1>8, <1>9, <1>11, <1>12

LEMMA InvFieldsSurvive ==
  ASSUME PacketInv
  PROVE  FieldsSurvive
<1>1. outcome = "sent" =>
        /\ Number(SubSeq(Text(buf), 5, 6)) = (buf.size - HeadSize) % Values[2]
        /\ Number(SubSeq(Inner, 5, 6)) = (Len(Inner) - HeadSize) % Values[2]
  BY SentSurvives
<1>2. AllCountable => CountableIn(packet)
  BY InRange DEF PacketInv
<1>3. CountableIn(packet) => \A i \in 1..Len(got) : got[i] = Said(packet.groups[i])
  BY ReadSurvives
<1>4. CountableIn(packet) /\ outcome = "read" /\ Whole /\ Len(got) < Len(packet.groups) =>
        Unpack(SubSeq(wire, offs + 1, Len(wire)), packet.groups[Len(got) + 1]).out = "ok"
  BY NextSurvives
<1>5. CountableIn(packet) /\ outcome = "kept" =>
        SubSeq(Text(buf), 3, buf.size) =
          BS!From(Said(packet.groups[1])[Len(Said(packet.groups[1]))], 2) \o << 0 >>
  BY KeptSurvives
<1>6. QED
  BY <1>1, <1>2, <1>3, <1>4, <1>5 DEF FieldsSurvive

LEMMA InvCutIsRefused ==
  ASSUME PacketInv
  PROVE  CutIsRefused
<1> DEFINE gs == packet.groups
<1> SUFFICES ASSUME \A g \in Range(packet.groups) : \A f \in Range(g) : Compared(f)
             PROVE  /\ outcome # "past"
                    /\ outcome = "done" => offs = Len(wire)
                    /\ outcome \in {"done", "kept"} /\ ~Outgoing =>
                         Len(wire) >= Len(Flat([i \in DOMAIN packet.groups |-> Packed(packet.groups[i])]))
  BY DEF CutIsRefused
<1>1. ComparedIn(packet) /\ CountableIn(packet)
  BY InRange, ComparedIsCountable DEF PacketInv
<1>2. gs \in Seq(Groups) /\ wire \in Seq(Byte)
  BY GroupsOf DEF PacketInv
<1>3. Flat([i \in DOMAIN gs |-> Packed(gs[i])]) = Total(gs)
  <2>1. DOMAIN gs = 1..Len(gs)
    BY <1>2, LenProperties
  <2>2. QED
    BY <2>1 DEF Flat, Total, SoFar, PackedGroups
<1>4. Len(Total(gs)) \in Nat /\ Len(wire) \in Nat
  BY <1>2, TotalType, LenProperties
<1>5. CASE outcome \in Building
  BY <1>5 DEF Building
<1>6. CASE outcome \notin Building
  <2>1. Hearing(packet, made, Text(buf), wire, offs, got, outcome)
    BY <1>6 DEF PacketInv
  <2>2. outcome # "past" /\ offs <= Len(wire) /\ Len(wire) <= Len(Total(gs))
        /\ (outcome \in {"done", "kept"} => Len(got) = Len(gs))
        /\ offs = Len(SoFar(gs, Len(got)))
    BY <1>1, <2>1 DEF Hearing, Heard
  <2>3. outcome \in {"done", "kept"} => offs = Len(Total(gs))
    BY <2>2 DEF Total
  <2> HIDE DEF gs
  <2>4. outcome \in {"done", "kept"} => offs = Len(wire) /\ Len(wire) >= Len(Total(gs))
    BY <1>4, <2>2, <2>3
  <2>5. QED
    BY <1>3, <2>2, <2>4 DEF gs
<1>7. QED
  BY <1>5, <1>6

LEMMA PacketInvariant == Spec => []PacketInv
<1>1. PacketInit => PacketInv
  BY InitInv
<1>2. PacketInv /\ [Next]_vars => PacketInv'
  BY NextStep
<1>3. QED
  BY <1>1, <1>2, PTL DEF Spec

(* The types of the packet and of what was read of it, and the buffer of   *)
(* lib/buffer.c: its memory is as long as its size and holds no byte that  *)
(* was never written, however many groups were appended to it.             *)
THEOREM PacketsTyped == Spec => []TypeOK
<1>1. PacketInv => TypeOK
  BY InvTypeOK
<1>2. QED
  BY <1>1, PacketInvariant, PTL

(* For packets of c6/client.c and of the handlers of c6/server.c, whatever *)
(* their texts: every read by the format of the handler gives the values   *)
(* that were packed, in order, whole packets are read to their end, the    *)
(* lengths c6_send fills in are those of the parts, and message texts end  *)
(* where they ended at the other side.                                     *)
THEOREM PacketsSurvive == Spec => []FieldsSurvive
<1>1. PacketInv => FieldsSurvive
  BY InvFieldsSurvive
<1>2. QED
  BY <1>1, PacketInvariant, PTL

(* A packet whose formats compare every directive with the length is never *)
(* read past its end, and what was read to the end was there in full.      *)
THEOREM CutPacketsRefused == Spec => []CutIsRefused
<1>1. PacketInv => CutIsRefused
  BY InvCutIsRefused
<1>2. QED
  BY <1>1, PacketInvariant, PTL

(* Every call the packets make of lib/buffer.c, by buf_new_pack,           *)
(* buf_append_pack, buf_insert_pack, c6_send and the handlers of messages, *)
(* does to the string of the buffer what the calls mean.                   *)
THEOREM PacketBufferRefinement == Spec => ImplementsByteString
<1>1. PacketInit => PacketInv /\ BS!Init
  BY InitInv
<1>2. PacketInv /\ [Next]_vars => PacketInv' /\ [BS!Next]_(BS!vars)
  BY NextStep
<1>3. QED
  BY <1>1, <1>2, PTL DEF Spec, ImplementsByteString, BS!Spec

-----------------------------------------------------------------------------
(* What the codec does to any fields and bytes, whoever calls it           *)

(* The loops of _build_pack_queue and _unpack_data agree: for all          *)
(* fields whose counts can say their texts, and any bytes that begin as    *)
(* the packed fields do or are the beginning of them, a read that ends     *)
(* well stored the values of the fields, in order, and stands behind the   *)
(* last of them; it ends well if all of the bytes are there; and where     *)
(* every directive is compared with the length it ends well only then, and *)
(* never reads behind the end.                                             *)
THEOREM UnpackReadsPacked ==
  ASSUME NEW g \in Groups, \A i \in 1..Len(g) : Countable(g[i]),
         NEW data \in Seq(Byte), Agrees(data, 0, Packed(g))
  PROVE  /\ Unpack(data, g).out = "ok" =>
              /\ Unpack(data, g).vals = Said(g)
              /\ Unpack(data, g).offs + SteppedOver(g) = Len(Packed(g))
         /\ Len(Packed(g)) <= Len(data) => Unpack(data, g).out = "ok"
         /\ (\A i \in 1..Len(g) : Compared(g[i])) =>
              /\ Unpack(data, g).out # "past"
              /\ Unpack(data, g).out = "ok" => Len(Packed(g)) <= Len(data)
<1>1. GroupRead(Unpack(data, g), g, data)
  BY ReadGroup
<1>2. QED
  BY <1>1 DEF GroupRead

(* BUILD_NUM_PTR and PARSE_NUM_PTR, in opposite directions: the bytes of a *)
(* number say it, modulo what one, two or four bytes can say.              *)
THEOREM DigitsSayNumber ==
  \A w \in Widths, n \in Nat : Number(Digits(n, w)) = n % Values[w]
  BY NumberOfDigits

(* c6_packet_encode undoes itself, for any key and any bytes, and keeps    *)
(* their number: what c6_send encodes the server decodes, and cmd_encoded  *)
(* what the server encodes.                                                *)
THEOREM EncodeUndoesItself ==
  \A s \in Seq(Byte) : /\ XorCode(s) \in Seq(Byte) /\ Len(XorCode(s)) = Len(s)
                       /\ XorCode(XorCode(s)) = s
  BY XorType, XorTwice

=============================================================================
