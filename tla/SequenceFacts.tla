---------------------------- MODULE SequenceFacts ----------------------------
(* What the proofs need of sequences: slices, induction over their length, *)
(* and sequences of sequences put together.                                 *)
EXTENDS Integers, Sequences, SequencesExt, SequenceTheorems, WellFoundedInduction, TLAPS

(* The beginning of a sequence is a sequence. *)
LEMMA PrefixProperties ==
  ASSUME NEW S, NEW s \in Seq(S), NEW n \in 0..Len(s)
  PROVE  /\ SubSeq(s, 1, n) \in Seq(S)
         /\ Len(SubSeq(s, 1, n)) = n
         /\ \A i \in 1..n : SubSeq(s, 1, n)[i] = s[i]
<1>1. \A i \in 1..n : s[i] \in S
  BY ElementOfSeq
<1>2. QED
  BY <1>1, SubSeqProperties

(* A slice of a sequence is a sequence. *)
LEMMA SliceProperties ==
  ASSUME NEW S, NEW s \in Seq(S), NEW o \in Nat, NEW n \in Nat, o + n <= Len(s)
  PROVE  /\ SubSeq(s, o + 1, o + n) \in Seq(S)
         /\ Len(SubSeq(s, o + 1, o + n)) = n
         /\ \A i \in 1..n : SubSeq(s, o + 1, o + n)[i] = s[o + i]
<1>1. \A i \in (o + 1)..(o + n) : s[i] \in S
  BY LenProperties, ElementOfSeq
<1>2. o + 1 \in Int /\ o + n \in Int /\ (o + n) - (o + 1) + 1 = n
  OBVIOUS
<1>3. /\ SubSeq(s, o + 1, o + n) \in Seq(S)
      /\ Len(SubSeq(s, o + 1, o + n)) = IF o + 1 <= o + n THEN (o + n) - (o + 1) + 1 ELSE 0
      /\ \A i \in 1..((o + n) - (o + 1) + 1) : SubSeq(s, o + 1, o + n)[i] = s[(o + 1) + i - 1]
  BY <1>1, <1>2, SubSeqProperties
<1>4. \A i \in 1..n : (o + 1) + i - 1 = o + i
  OBVIOUS
<1>5. QED
  BY <1>2, <1>3, <1>4

(* What one read() appends is behind what was there. *)
LEMMA AppendedProperties ==
  ASSUME NEW S, NEW s \in Seq(S), NEW k, Len(s) = k,
         NEW n \in Nat, NEW new \in [1..n -> S]
  PROVE  /\ s \o new \in Seq(S)
         /\ Len(s \o new) = k + n
         /\ \A i \in 1..k : (s \o new)[i] = s[i]
         /\ \A i \in 1..n : (s \o new)[k + i] = new[i]
<1>1. new \in Seq(S) /\ Len(new) = n /\ k \in Nat
  BY LenProperties
<1>2. /\ s \o new \in Seq(S)
      /\ Len(s \o new) = k + n
      /\ \A i \in 1..(k + n) :
           (s \o new)[i] = IF i <= k THEN s[i] ELSE new[i - k]
  BY <1>1, ConcatProperties
<1>3. \A i \in 1..k : i \in 1..(k + n) /\ i <= k
  BY <1>1
<1>4. \A i \in 1..n : k + i \in 1..(k + n) /\ ~(k + i <= k) /\ (k + i) - k = i
  BY <1>1
<1>5. \A i \in 1..k : (s \o new)[i] = s[i]
  BY <1>2, <1>3
<1>6. \A i \in 1..n : (s \o new)[k + i] = new[i]
  BY <1>2, <1>4
<1>7. QED
  BY <1>2, <1>5, <1>6

(* A slice one element longer ends in that element. *)
LEMMA SliceGrows ==
  ASSUME NEW S, NEW s \in Seq(S), NEW o \in Nat, NEW n \in Nat, o + n + 1 <= Len(s)
  PROVE  SubSeq(s, o + 1, o + (n + 1)) = Append(SubSeq(s, o + 1, o + n), s[o + n + 1])
<1> DEFINE long  == SubSeq(s, o + 1, o + (n + 1))
           short == SubSeq(s, o + 1, o + n)
<1>1. Len(s) \in Nat /\ o + n + 1 \in 1..Len(s) /\ n + 1 \in Nat
  BY LenProperties
<1>2. s[o + n + 1] \in S
  BY <1>1, ElementOfSeq
<1>3. /\ long \in Seq(S) /\ Len(long) = n + 1
      /\ \A i \in 1..(n + 1) : long[i] = s[o + i]
  <2>1. o + (n + 1) <= Len(s)
    BY <1>1
  <2>2. QED
    BY <1>1, <2>1, SliceProperties
<1>4. /\ short \in Seq(S) /\ Len(short) = n
      /\ \A i \in 1..n : short[i] = s[o + i]
  <2>1. o + n <= Len(s)
    BY <1>1
  <2>2. QED
    BY <2>1, SliceProperties
<1>5. /\ Append(short, s[o + n + 1]) \in Seq(S)
      /\ Len(Append(short, s[o + n + 1])) = n + 1
      /\ \A i \in 1..n : Append(short, s[o + n + 1])[i] = short[i]
      /\ Append(short, s[o + n + 1])[n + 1] = s[o + n + 1]
  BY <1>2, <1>4, AppendProperties
<1>6. \A i \in 1..(n + 1) : long[i] = Append(short, s[o + n + 1])[i]
  <2>1. \A i \in 1..(n + 1) : i \in 1..n \/ i = n + 1
    OBVIOUS
  <2>2. o + (n + 1) = o + n + 1
    OBVIOUS
  <2>3. \A i \in 1..n : long[i] = Append(short, s[o + n + 1])[i]
    BY <1>3, <1>4, <1>5
  <2>4. long[n + 1] = Append(short, s[o + n + 1])[n + 1]
    <3>1. n + 1 \in 1..(n + 1)
      OBVIOUS
    <3>2. long[n + 1] = s[o + (n + 1)]
      BY <1>3, <3>1
    <3>3. QED
      BY <1>5, <2>2, <3>2
  <2>5. QED
    BY <2>1, <2>3, <2>4
<1>7. QED
  BY <1>3, <1>5, <1>6, SeqEqual

(* The beginning of a slice is a slice. *)
LEMMA PrefixOfSlice ==
  ASSUME NEW S, NEW s \in Seq(S), NEW o \in Nat, NEW n \in Nat, o + n <= Len(s),
         NEW k \in 0..n
  PROVE  SubSeq(SubSeq(s, o + 1, o + n), 1, k) = SubSeq(s, o + 1, o + k)
<1> DEFINE slice == SubSeq(s, o + 1, o + n)
<1>1. /\ slice \in Seq(S) /\ Len(slice) = n
      /\ \A i \in 1..n : slice[i] = s[o + i]
  BY SliceProperties
<1>2. /\ SubSeq(slice, 1, k) \in Seq(S) /\ Len(SubSeq(slice, 1, k)) = k
      /\ \A i \in 1..k : SubSeq(slice, 1, k)[i] = slice[i]
  BY <1>1, PrefixProperties
<1>3. /\ SubSeq(s, o + 1, o + k) \in Seq(S) /\ Len(SubSeq(s, o + 1, o + k)) = k
      /\ \A i \in 1..k : SubSeq(s, o + 1, o + k)[i] = s[o + i]
  <2>1. k \in Nat /\ Len(s) \in Nat /\ o + k <= Len(s)
    BY LenProperties
  <2>2. QED
    BY <2>1, SliceProperties
<1>4. \A i \in 1..k : SubSeq(slice, 1, k)[i] = SubSeq(s, o + 1, o + k)[i]
  BY <1>1, <1>2, <1>3
<1>5. QED
  BY <1>2, <1>3, <1>4, SeqEqual

(* The end of a slice is a slice. *)
LEMMA SuffixOfSlice ==
  ASSUME NEW S, NEW s \in Seq(S), NEW o \in Nat, NEW n \in Nat, o + n <= Len(s),
         NEW k \in 0..n
  PROVE  SubSeq(SubSeq(s, o + 1, o + n), k + 1, n) = SubSeq(s, (o + k) + 1, o + n)
<1> DEFINE slice == SubSeq(s, o + 1, o + n)
           left  == SubSeq(slice, k + 1, k + (n - k))
           right == SubSeq(s, (o + k) + 1, (o + k) + (n - k))
<1>1. /\ slice \in Seq(S) /\ Len(slice) = n
      /\ \A i \in 1..n : slice[i] = s[o + i]
  BY SliceProperties
<1>2. k \in Nat /\ n - k \in Nat /\ k + (n - k) = n /\ (o + k) + (n - k) = o + n /\ o + k \in Nat
  OBVIOUS
<1>3. /\ left \in Seq(S) /\ Len(left) = n - k
      /\ \A i \in 1..(n - k) : left[i] = slice[k + i]
  <2> DEFINE m == n - k
  <2>1. m \in Nat /\ k \in Nat /\ slice \in Seq(S) /\ k + m <= Len(slice)
    BY <1>1, <1>2
  <2> HIDE DEF slice, m
  <2>2. /\ SubSeq(slice, k + 1, k + m) \in Seq(S)
        /\ Len(SubSeq(slice, k + 1, k + m)) = m
        /\ \A i \in 1..m : SubSeq(slice, k + 1, k + m)[i] = slice[k + i]
    BY <2>1, SliceProperties
  <2>3. QED
    BY <2>2 DEF m
<1>4. /\ right \in Seq(S) /\ Len(right) = n - k
      /\ \A i \in 1..(n - k) : right[i] = s[(o + k) + i]
  <2> DEFINE m == n - k
             p == o + k
  <2>1. m \in Nat /\ p \in Nat /\ p + m <= Len(s)
    BY <1>2
  <2> HIDE DEF m, p
  <2>2. /\ SubSeq(s, p + 1, p + m) \in Seq(S)
        /\ Len(SubSeq(s, p + 1, p + m)) = m
        /\ \A i \in 1..m : SubSeq(s, p + 1, p + m)[i] = s[p + i]
    BY <2>1, SliceProperties
  <2>3. QED
    BY <2>2 DEF m, p
<1>5. \A i \in 1..(n - k) : left[i] = right[i]
  <2>1. \A i \in 1..(n - k) : k + i \in 1..n /\ o + (k + i) = (o + k) + i
    BY <1>2
  <2>2. QED
    BY <1>1, <1>3, <1>4, <2>1
<1>6. left = right
  <2> HIDE DEF left, right
  <2>1. QED
    BY <1>3, <1>4, <1>5, SeqEqual
<1>7. QED
  BY <1>2, <1>6

-----------------------------------------------------------------------------
(* Induction over the natural numbers, with a set in the place of the      *)
(* predicate.                                                              *)
LEMMA SetInduction ==
  ASSUME NEW T, 0 \in T, \A n \in Nat : n \in T => n + 1 \in T
  PROVE  Nat \subseteq T
<1> DEFINE Less == OpToRel(<, Nat)
           Out  == Nat \ T
<1>1. IsWellFoundedOn(Less, Nat)
  BY NatLessThanWellFounded
<1>2. SUFFICES ASSUME Out # {}
               PROVE  FALSE
  OBVIOUS
<1> HIDE DEF Less
<1>3. PICK x \in Out : \A y \in Out : <<y, x>> \notin Less
  <2>1. Out \subseteq Nat
    OBVIOUS
  <2>2. QED
    BY <1>1, <1>2, <2>1, WFMin
<1>4. x # 0 /\ x \in Nat
  OBVIOUS
<1>5. x - 1 \in Nat /\ x - 1 + 1 = x /\ x - 1 < x
  BY <1>4
<1>6. x - 1 \in Out
  BY <1>4, <1>5
<1>7. <<x - 1, x>> \in Less
  BY <1>4, <1>5 DEF Less, OpToRel
<1>8. QED
  BY <1>3, <1>6, <1>7

-----------------------------------------------------------------------------
(* FlattenSeq, whose definition is recursive: the function it is the last  *)
(* value of exists.                                                        *)
Flatten(seqs, flat) ==
  flat = [i \in 1..Len(seqs) |-> IF i = 1 THEN seqs[i] ELSE flat[i - 1] \o seqs[i]]

LEMMA FlattenIsDefined ==
  ASSUME NEW seqs, Len(seqs) \in Nat \ {0}
  PROVE  \E flat : Flatten(seqs, flat) /\ FlattenSeq(seqs) = flat[Len(seqs)]
<1> DEFINE Upto(k, g) ==
             g = [i \in 1..k |-> IF i = 1 THEN seqs[i] ELSE g[i - 1] \o seqs[i]]
           T == {k \in Nat : \E g : Upto(k, g)}
           chosen == CHOOSE flat : Flatten(seqs, flat)
<1>1. 0 \in T
  <2> DEFINE none == [i \in 1..0 |-> 0]
  <2>1. Upto(0, none)
    OBVIOUS
  <2>2. QED
    BY <2>1
<1>2. ASSUME NEW k \in Nat, k \in T
      PROVE  k + 1 \in T
  <2>1. PICK g : Upto(k, g)
    BY <1>2
  <2> DEFINE last == IF k + 1 = 1 THEN seqs[k + 1] ELSE g[k] \o seqs[k + 1]
             h == [i \in 1..(k + 1) |-> IF i = k + 1 THEN last ELSE g[i]]
  <2>2. \A i \in 1..(k + 1) :
          h[i] = IF i = 1 THEN seqs[i] ELSE h[i - 1] \o seqs[i]
    <3>1. CASE k = 0
      BY <3>1
    <3>2. ASSUME k # 0, NEW i \in 1..(k + 1)
          PROVE  h[i] = IF i = 1 THEN seqs[i] ELSE h[i - 1] \o seqs[i]
      <4>1. i # 1 => h[i - 1] = g[i - 1]
        BY <3>2
      <4>2. CASE i = k + 1
        BY <3>2, <4>1, <4>2
      <4>3. CASE i # k + 1
        <5>1. i \in 1..k /\ h[i] = g[i]
          BY <4>3
        <5>2. g[i] = IF i = 1 THEN seqs[i] ELSE g[i - 1] \o seqs[i]
          BY <2>1, <5>1
        <5>3. QED
          BY <4>1, <5>1, <5>2
      <4>4. QED
        BY <4>2, <4>3
    <3>3. QED
      BY <3>1, <3>2
  <2>3. Upto(k + 1, h)
    <3>1. h = [i \in 1..(k + 1) |-> h[i]]
      OBVIOUS
    <3> HIDE DEF h
    <3>2. QED
      BY <2>2, <3>1
  <2> HIDE DEF h, Upto
  <2>4. k + 1 \in Nat
    OBVIOUS
  <2>5. QED
    BY <2>3, <2>4
<1>3. Nat \subseteq T
  <2> HIDE DEF T
  <2>1. QED
    BY <1>1, <1>2, SetInduction
<1>4. \E flat : Flatten(seqs, flat)
  BY <1>3 DEF Flatten
<1>5. Flatten(seqs, chosen)
  BY <1>4
<1>6. FlattenSeq(seqs) = chosen[Len(seqs)]
  BY DEF FlattenSeq, Flatten
<1>7. QED
  BY <1>5, <1>6

LEMMA FlattenStep ==
  ASSUME NEW seqs, NEW flat, Flatten(seqs, flat), NEW i \in 1..Len(seqs)
  PROVE  flat[i] = IF i = 1 THEN seqs[i] ELSE flat[i - 1] \o seqs[i]
<1>1. flat = [j \in 1..Len(seqs) |-> IF j = 1 THEN seqs[j] ELSE flat[j - 1] \o seqs[j]]
  BY DEF Flatten
<1>2. QED
  BY <1>1

(* How far two lists of sequences are the same, so is what they flatten to. *)
LEMMA FlattenIsUnique ==
  ASSUME NEW seqs, NEW others, NEW flat, NEW other, NEW n \in Nat,
         Flatten(seqs, flat), Flatten(others, other),
         Len(seqs) \in Nat, Len(others) \in Nat, n <= Len(seqs), n <= Len(others),
         \A i \in 1..n : seqs[i] = others[i]
  PROVE  \A j \in 1..n : flat[j] = other[j]
<1> DEFINE T == {k \in Nat : k \in 1..n => flat[k] = other[k]}
<1>1. 0 \in T
  OBVIOUS
<1>2. ASSUME NEW k \in Nat, k \in T
      PROVE  k + 1 \in T
  <2> SUFFICES ASSUME k + 1 \in 1..n
               PROVE  flat[k + 1] = other[k + 1]
    OBVIOUS
  <2>1. flat[k + 1] = IF k + 1 = 1 THEN seqs[k + 1] ELSE flat[k + 1 - 1] \o seqs[k + 1]
    <3>1. k + 1 \in 1..Len(seqs)
      OBVIOUS
    <3>2. QED
      BY <3>1, FlattenStep
  <2>2. other[k + 1] = IF k + 1 = 1 THEN others[k + 1] ELSE other[k + 1 - 1] \o others[k + 1]
    <3>1. k + 1 \in 1..Len(others)
      OBVIOUS
    <3>2. QED
      BY <3>1, FlattenStep
  <2>3. k # 0 => flat[k] = other[k]
    BY <1>2
  <2>4. k + 1 - 1 = k
    OBVIOUS
  <2>5. QED
    BY <2>1, <2>2, <2>3, <2>4
<1>3. Nat \subseteq T
  <2> HIDE DEF T
  <2>1. QED
    BY <1>1, <1>2, SetInduction
<1>4. QED
  BY <1>3

LEMMA FlattenValues ==
  ASSUME NEW S, NEW seqs \in Seq(Seq(S)), NEW flat, Flatten(seqs, flat)
  PROVE  \A i \in 1..Len(seqs) : flat[i] \in Seq(S)
<1> DEFINE T == {k \in Nat : k \in 1..Len(seqs) => flat[k] \in Seq(S)}
<1>1. 0 \in T
  OBVIOUS
<1>2. ASSUME NEW k \in Nat, k \in T
      PROVE  k + 1 \in T
  <2> SUFFICES ASSUME k + 1 \in 1..Len(seqs)
               PROVE  flat[k + 1] \in Seq(S)
    OBVIOUS
  <2>1. flat[k + 1] = IF k + 1 = 1 THEN seqs[k + 1] ELSE flat[k + 1 - 1] \o seqs[k + 1]
    BY FlattenStep
  <2>2. seqs[k + 1] \in Seq(S)
    BY ElementOfSeq
  <2>3. k # 0 => flat[k] \in Seq(S)
    <3>1. Len(seqs) \in Nat
      BY LenProperties
    <3>2. QED
      BY <1>2, <3>1
  <2>4. k + 1 - 1 = k
    OBVIOUS
  <2>5. k # 0 => flat[k] \o seqs[k + 1] \in Seq(S)
    BY <2>2, <2>3, ConcatProperties
  <2>6. QED
    BY <2>1, <2>2, <2>4, <2>5
<1>3. Nat \subseteq T
  <2> HIDE DEF T
  <2>1. QED
    BY <1>1, <1>2, SetInduction
<1>4. Len(seqs) \in Nat
  BY LenProperties
<1>5. QED
  BY <1>3, <1>4

LEMMA FlattenEmpty == FlattenSeq(<< >>) = << >>
  BY DEF FlattenSeq

LEMMA FlattenType ==
  ASSUME NEW S, NEW seqs \in Seq(Seq(S))
  PROVE  FlattenSeq(seqs) \in Seq(S)
<1>1. Len(seqs) \in Nat
  BY LenProperties
<1>2. CASE Len(seqs) = 0
  <2>1. seqs = << >>
    BY <1>2, EmptySeq
  <2>2. QED
    BY <2>1, FlattenEmpty, EmptySeq
<1>3. CASE Len(seqs) # 0
  <2>1. PICK flat : Flatten(seqs, flat) /\ FlattenSeq(seqs) = flat[Len(seqs)]
    BY <1>1, <1>3, FlattenIsDefined
  <2>2. Len(seqs) \in 1..Len(seqs)
    BY <1>1, <1>3
  <2>3. QED
    BY <2>1, <2>2, FlattenValues
<1>4. QED
  BY <1>2, <1>3

(* One sequence more.                                                      *)
LEMMA FlattenLonger ==
  ASSUME NEW seqs, NEW longer, NEW n \in Nat, n = Len(seqs), Len(longer) = n + 1, n # 0,
         \A i \in 1..n : longer[i] = seqs[i]
  PROVE  FlattenSeq(longer) = FlattenSeq(seqs) \o longer[n + 1]
<1>1. PICK flat : Flatten(longer, flat) /\ FlattenSeq(longer) = flat[n + 1]
  <2>1. Len(longer) \in Nat \ {0}
    OBVIOUS
  <2>2. QED
    BY <2>1, FlattenIsDefined
<1>2. PICK other : Flatten(seqs, other) /\ FlattenSeq(seqs) = other[n]
  <2>1. Len(seqs) \in Nat \ {0}
    OBVIOUS
  <2>2. QED
    BY <2>1, FlattenIsDefined
<1>3. \A i \in 1..n : flat[i] = other[i]
  <2>1. /\ Len(longer) \in Nat /\ Len(seqs) \in Nat
        /\ n <= Len(longer) /\ n <= Len(seqs)
    OBVIOUS
  <2>2. QED
    BY <1>1, <1>2, <2>1, FlattenIsUnique
<1>4. flat[n + 1] = IF n + 1 = 1 THEN longer[n + 1] ELSE flat[n + 1 - 1] \o longer[n + 1]
  <2>1. n + 1 \in 1..Len(longer)
    OBVIOUS
  <2>2. QED
    BY <1>1, <2>1, FlattenStep
<1>5. n + 1 - 1 = n /\ n + 1 # 1 /\ n \in 1..n
  OBVIOUS
<1>6. flat[n] = other[n]
  BY <1>3, <1>5
<1>7. QED
  BY <1>1, <1>2, <1>4, <1>5, <1>6

LEMMA FlattenOne ==
  ASSUME NEW seqs, Len(seqs) = 1
  PROVE  FlattenSeq(seqs) = seqs[1]
<1>1. PICK flat : Flatten(seqs, flat) /\ FlattenSeq(seqs) = flat[Len(seqs)]
  <2>1. Len(seqs) \in Nat \ {0}
    OBVIOUS
  <2>2. QED
    BY <2>1, FlattenIsDefined
<1>2. flat[1] = IF 1 = 1 THEN seqs[1] ELSE flat[1 - 1] \o seqs[1]
  <2>1. 1 \in 1..Len(seqs)
    OBVIOUS
  <2>2. QED
    BY <1>1, <2>1, FlattenStep
<1>3. QED
  BY <1>1, <1>2

LEMMA FlattenAppend ==
  ASSUME NEW S, NEW seqs \in Seq(Seq(S)), NEW s \in Seq(S)
  PROVE  FlattenSeq(Append(seqs, s)) = FlattenSeq(seqs) \o s
<1> DEFINE longer == Append(seqs, s)
           n == Len(seqs)
<1>1. n \in Nat
  BY LenProperties
<1>2. /\ Len(longer) = n + 1
      /\ \A i \in 1..n : longer[i] = seqs[i]
      /\ longer[n + 1] = s
  BY <1>1, AppendProperties
<1>3. n = 0 => seqs = << >>
  BY EmptySeq
<1> HIDE DEF longer
<1>4. CASE n = 0
  <2>1. FlattenSeq(longer) = longer[1]
    <3>1. Len(longer) = 1
      BY <1>2, <1>4
    <3>2. QED
      BY <3>1, FlattenOne
  <2>2. longer[1] = s
    BY <1>2, <1>4
  <2>3. << >> \o s = s
    BY ConcatEmptySeq
  <2>4. FlattenSeq(seqs) = << >>
    BY <1>3, <1>4, FlattenEmpty
  <2>5. QED
    BY <2>1, <2>2, <2>3, <2>4 DEF longer
<1>5. CASE n # 0
  <2>1. FlattenSeq(longer) = FlattenSeq(seqs) \o longer[n + 1]
    <3> HIDE DEF n
    <3>1. n = Len(seqs)
      BY DEF n
    <3>2. QED
      BY <1>1, <1>2, <1>5, <3>1, FlattenLonger
  <2>2. QED
    BY <1>2, <2>1 DEF longer
<1>6. QED
  BY <1>4, <1>5

Associative(a, b, c) == (a \o b) \o c = a \o (b \o c)

LEMMA AssociativeFrom ==
  ASSUME NEW S, NEW s \in Seq(S)
  PROVE  \A a \in Seq(S), b \in Seq(S) : Associative(s, a, b)
  BY ConcatAssociative DEF Associative

LEMMA FlattenAfter ==
  ASSUME NEW seqs, NEW flat, Flatten(seqs, flat), NEW j \in Nat \ {0}, j + 1 \in 1..Len(seqs)
  PROVE  flat[j + 1] = flat[j] \o seqs[j + 1]
<1>1. flat[j + 1] = IF j + 1 = 1 THEN seqs[j + 1] ELSE flat[j + 1 - 1] \o seqs[j + 1]
  BY FlattenStep
<1>2. j + 1 # 1 /\ j + 1 - 1 = j
  OBVIOUS
<1>3. QED
  BY <1>1, <1>2

LEMMA FlattenFirst ==
  ASSUME NEW seqs, NEW flat, Flatten(seqs, flat), 1 \in 1..Len(seqs)
  PROVE  flat[1] = seqs[1]
<1>1. flat[1] = IF 1 = 1 THEN seqs[1] ELSE flat[1 - 1] \o seqs[1]
  BY FlattenStep
<1>2. QED
  BY <1>1

(* rest is seqs without its first; V has all that is put behind that.      *)
Behind(seqs, rest, other, first, n, V) ==
  /\ first = seqs[1] /\ Len(seqs) = n + 1 /\ Len(rest) = n
  /\ \A i \in 1..n : rest[i] = seqs[i + 1]
  /\ \A i \in 1..n : other[i] \in V /\ rest[i] \in V
  /\ \A a \in V, b \in V : Associative(first, a, b)

LEMMA FlattenFromFirst ==
  ASSUME NEW seqs, NEW rest, NEW flat, NEW other, NEW n \in Nat, NEW V, NEW first,
         Flatten(seqs, flat), Flatten(rest, other), Behind(seqs, rest, other, first, n, V)
  PROVE  \A k \in 1..n : flat[k + 1] = first \o other[k]
<1> USE DEF Behind
<1> DEFINE Right(k) == flat[k + 1] = first \o other[k]
           T == {k \in Nat : k \in 1..n => Right(k)}
<1>1. 0 \in T
  OBVIOUS
<1>2. CASE n # 0
  <2>1. Right(1)
    <3>1. flat[2] = flat[1] \o seqs[2]
      <4>1. 1 \in Nat \ {0} /\ 1 + 1 \in 1..Len(seqs)
        BY <1>2
      <4>2. flat[1 + 1] = flat[1] \o seqs[1 + 1]
        BY <4>1, FlattenAfter, ZenonT(30)
      <4>3. 1 + 1 = 2
        OBVIOUS
      <4>4. QED
        BY <4>2, <4>3
    <3>2. flat[1] = first /\ other[1] = rest[1]
      <4>1. 1 \in 1..Len(seqs) /\ 1 \in 1..Len(rest)
        BY <1>2
      <4>2. QED
        BY <4>1, FlattenFirst
    <3>3. rest[1] = seqs[2]
      BY <1>2
    <3>4. flat[1 + 1] = first \o other[1]
      <4>1. 1 + 1 = 2
        OBVIOUS
      <4>2. QED
        BY <3>1, <3>2, <3>3, <4>1, Zenon
    <3>5. QED
      BY <3>4
  <2>2. ASSUME NEW k \in Nat \ {0}, k + 1 \in 1..n, Right(k)
        PROVE  Right(k + 1)
    <3>1. flat[k + 1 + 1] = flat[k + 1] \o seqs[k + 1 + 1]
      <4>1. k + 1 \in Nat \ {0} /\ k + 1 + 1 \in 1..Len(seqs)
        BY <2>2
      <4>2. QED
        BY <4>1, FlattenAfter
    <3>2. other[k + 1] = other[k] \o rest[k + 1]
      <4>1. k + 1 \in 1..Len(rest)
        BY <2>2
      <4>2. QED
        BY <4>1, FlattenAfter
    <3>3. rest[k + 1] = seqs[k + 1 + 1]
      BY <2>2
    <3>4. Associative(first, other[k], rest[k + 1])
      <4>1. k \in 1..n
        BY <2>2
      <4>2. QED
        BY <2>2, <4>1
    <3>5. QED
      BY <2>2, <3>1, <3>2, <3>3, <3>4 DEF Associative
  <2> HIDE DEF Right
  <2>3. \A k \in Nat : k \in T => k + 1 \in T
    <3>1. SUFFICES ASSUME NEW k \in Nat, k \in T, k + 1 \in 1..n
                   PROVE  Right(k + 1)
      OBVIOUS
    <3>2. CASE k = 0
      BY <2>1, <3>2
    <3>3. CASE k # 0
      <4>1. k \in 1..n
        BY <3>1, <3>3
      <4>2. Right(k)
        BY <3>1, <4>1
      <4>3. QED
        BY <2>2, <3>1, <3>3, <4>2
    <3>4. QED
      BY <3>2, <3>3
  <2>4. Nat \subseteq T
    <3> HIDE DEF T
    <3>1. QED
      BY <1>1, <2>3, SetInduction
  <2>5. \A k \in 1..n : Right(k)
    BY <2>4
  <2>6. QED
    BY <2>5 DEF Right
<1>3. CASE n = 0
  BY <1>3
<1>4. QED
  BY <1>2, <1>3

ListOfLists(seqs, S) == seqs \in Seq(Seq(S))

LEMMA FlattenHead ==
  ASSUME NEW S, NEW seqs, ListOfLists(seqs, S), seqs # << >>
  PROVE  FlattenSeq(seqs) = Head(seqs) \o FlattenSeq(Tail(seqs))
<1> DEFINE rest  == Tail(seqs)
           n     == Len(rest)
           first == seqs[1]
<1>1. /\ n \in Nat /\ Len(seqs) = n + 1 /\ Head(seqs) = first
      /\ rest \in Seq(Seq(S))
      /\ \A i \in 1..n : rest[i] = seqs[i + 1]
      /\ \A i \in 1..(n + 1) : seqs[i] \in Seq(S)
  <2>1. Len(seqs) \in Nat /\ Len(seqs) # 0
    BY LenProperties, EmptySeq DEF ListOfLists
  <2>2. /\ Head(seqs) = first /\ rest \in Seq(Seq(S)) /\ Len(rest) = Len(seqs) - 1
        /\ \A i \in 1..(Len(seqs) - 1) : rest[i] = seqs[i + 1]
    BY HeadTailProperties DEF ListOfLists
  <2>3. \A i \in 1..Len(seqs) : seqs[i] \in Seq(S)
    BY ElementOfSeq DEF ListOfLists
  <2>4. Len(seqs) - 1 \in Nat /\ (Len(seqs) - 1) + 1 = Len(seqs)
    BY <2>1
  <2>5. QED
    BY <2>2, <2>3, <2>4
<1> HIDE DEF rest
<1>2. first \in Seq(S)
  <2>1. 1 \in 1..(n + 1)
    BY <1>1
  <2>2. QED
    BY <1>1, <2>1
<1> HIDE DEF first
<1>3. CASE n = 0
  <2>1. FlattenSeq(seqs) = first
    <3>1. Len(seqs) = 1
      BY <1>1, <1>3
    <3>2. QED
      BY <3>1, FlattenOne DEF first
  <2>2. rest = << >>
    BY <1>1, <1>3, EmptySeq
  <2>3. first \o << >> = first
    BY <1>2, ConcatEmptySeq
  <2>4. QED
    BY <1>1, <2>1, <2>2, <2>3, FlattenEmpty DEF rest
<1>4. CASE n # 0
  <2>1. PICK flat : Flatten(seqs, flat) /\ FlattenSeq(seqs) = flat[n + 1]
    <3>1. Len(seqs) = n + 1 /\ Len(seqs) \in Nat \ {0}
      BY <1>1
    <3>2. QED
      BY <3>1, FlattenIsDefined
  <2>2. PICK other : Flatten(rest, other) /\ FlattenSeq(rest) = other[n]
    <3>1. Len(rest) = n /\ Len(rest) \in Nat \ {0}
      BY <1>1, <1>4
    <3>2. QED
      BY <3>1, FlattenIsDefined
  <2>3. \A i \in 1..n : other[i] \in Seq(S) /\ rest[i] \in Seq(S)
    <3>1. \A i \in 1..n : other[i] \in Seq(S)
      BY <1>1, <2>2, FlattenValues
    <3>2. \A i \in 1..n : rest[i] \in Seq(S)
      BY <1>1, ElementOfSeq
    <3>3. QED
      BY <3>1, <3>2
  <2>4. \A a \in Seq(S), b \in Seq(S) : Associative(first, a, b)
    BY <1>2, AssociativeFrom
  <2>5. \A k \in 1..n : flat[k + 1] = first \o other[k]
    <3> DEFINE V == Seq(S)
    <3>1. Len(seqs) = n + 1 /\ Len(rest) = n /\ n \in Nat
      BY <1>1
    <3>2. \A i \in 1..n : rest[i] = seqs[i + 1]
      BY <1>1
    <3>3. /\ \A i \in 1..n : other[i] \in V /\ rest[i] \in V
          /\ \A a \in V, b \in V : Associative(first, a, b)
          /\ Flatten(seqs, flat) /\ Flatten(rest, other)
      BY <2>1, <2>2, <2>3, <2>4
    <3>4. first = seqs[1]
      BY DEF first
    <3> HIDE DEF n, V
    <3>5. QED
      <4>1. Behind(seqs, rest, other, first, n, V)
        BY <3>1, <3>2, <3>3, <3>4 DEF Behind
      <4>2. n \in Nat /\ Flatten(seqs, flat) /\ Flatten(rest, other)
        BY <3>1, <3>3
      <4>3. QED
        BY <4>1, <4>2, FlattenFromFirst
  <2>6. n \in 1..n
    BY <1>1, <1>4
  <2>7. flat[n + 1] = first \o other[n]
    BY <2>5, <2>6
  <2>8. QED
    BY <1>1, <2>1, <2>2, <2>7 DEF rest
<1>5. QED
  BY <1>3, <1>4

(* One sequence more at the front. *)
LEMMA FlattenFront ==
  ASSUME NEW S, NEW seqs \in Seq(Seq(S)), seqs # << >>
  PROVE  FlattenSeq(seqs) = Head(seqs) \o FlattenSeq(Tail(seqs))
  BY FlattenHead DEF ListOfLists

(* Where the sequences are in what they flatten to.                        *)
Begins(a, b) == Len(a) <= Len(b) /\ \A j \in 1..Len(a) : b[j] = a[j]

LEMMA BeginsConcat ==
  ASSUME NEW S, NEW a \in Seq(S), NEW b \in Seq(S)
  PROVE  /\ Begins(a, a \o b)
         /\ Len(a \o b) = Len(a) + Len(b)
         /\ \A j \in 1..Len(b) : (a \o b)[Len(a) + j] = b[j]
  BY ConcatProperties, LenProperties DEF Begins

LEMMA BeginsTransitive ==
  ASSUME NEW S, NEW a \in Seq(S), NEW b \in Seq(S), NEW c \in Seq(S),
         Begins(a, b), Begins(b, c)
  PROVE  Begins(a, c)
  BY LenProperties DEF Begins

LEMMA FlattenBegins ==
  ASSUME NEW S, NEW seqs, NEW flat, NEW n \in Nat, n = Len(seqs), Flatten(seqs, flat),
         \A i \in 1..n : flat[i] \in Seq(S) /\ seqs[i] \in Seq(S)
  PROVE  \A m \in 1..n : \A k \in 1..m : Begins(flat[k], flat[m])
<1> DEFINE Right(m) == \A k \in 1..m : Begins(flat[k], flat[m])
           T == {m \in Nat : m \in 1..n => Right(m)}
<1>1. \A m \in 1..n : Begins(flat[m], flat[m])
  BY LenProperties DEF Begins
<1>2. ASSUME NEW m \in Nat, m \in T, m + 1 \in 1..n
      PROVE  Right(m + 1)
  <2>1. CASE m = 0
    BY <1>1, <1>2, <2>1
  <2>2. CASE m # 0
    <3>1. m \in 1..n /\ m \in Nat \ {0} /\ m + 1 \in 1..Len(seqs)
      BY <1>2, <2>2
    <3>2. flat[m + 1] = flat[m] \o seqs[m + 1]
      BY <3>1, FlattenAfter
    <3>3. Begins(flat[m], flat[m] \o seqs[m + 1])
      BY <1>2, <3>1, BeginsConcat
    <3>4. \A k \in 1..m : k \in 1..n /\ Begins(flat[k], flat[m])
      BY <1>2, <3>1
    <3>5. \A k \in 1..m : Begins(flat[k], flat[m + 1])
      <4>1. SUFFICES ASSUME NEW k \in 1..m
                     PROVE  Begins(flat[k], flat[m + 1])
        BY Zenon
      <4>2. Begins(flat[k], flat[m]) /\ Begins(flat[m], flat[m + 1])
        BY <3>2, <3>3, <3>4, Zenon
      <4>3. flat[k] \in Seq(S) /\ flat[m] \in Seq(S) /\ flat[m + 1] \in Seq(S)
        BY <1>2, <3>1, <3>4
      <4>4. QED
        BY <4>2, <4>3, BeginsTransitive
    <3>6. \A k \in 1..(m + 1) : k \in 1..m \/ k = m + 1
      OBVIOUS
    <3>7. QED
      BY <1>1, <1>2, <3>5, <3>6
  <2>3. QED
    BY <2>1, <2>2
<1>3. 0 \in T /\ \A m \in Nat : m \in T => m + 1 \in T
  <2>1. 0 \in T
    OBVIOUS
  <2> HIDE DEF Right
  <2>2. \A m \in Nat : m \in T => m + 1 \in T
    BY <1>2
  <2>3. QED
    BY <2>1, <2>2
<1>4. Nat \subseteq T
  <2> HIDE DEF T
  <2>1. QED
    BY <1>3, SetInduction
<1>5. QED
  BY <1>4

At(flat, k) == IF k = 0 THEN 0 ELSE Len(flat[k])

Flattened(seqs, flat, n, S) ==
  /\ n = Len(seqs) /\ Flatten(seqs, flat)
  /\ \A i \in 1..n : flat[i] \in Seq(S) /\ seqs[i] \in Seq(S)

LEMMA FlattenPlaces ==
  ASSUME NEW S, NEW seqs, NEW flat, NEW n \in Nat, Flattened(seqs, flat, n, S), NEW k \in 1..n
  PROVE  /\ At(flat, k) = At(flat, k - 1) + Len(seqs[k])
         /\ At(flat, k) <= Len(flat[n])
         /\ \A j \in 1..Len(seqs[k]) : flat[n][At(flat, k - 1) + j] = seqs[k][j]
<1> USE DEF Flattened
<1>1. Begins(flat[k], flat[n])
  <2>1. n \in 1..n
    OBVIOUS
  <2>2. QED
    BY <2>1, FlattenBegins
<1>2. /\ At(flat, k) = At(flat, k - 1) + Len(seqs[k])
      /\ \A j \in 1..Len(seqs[k]) : flat[k][At(flat, k - 1) + j] = seqs[k][j]
  <2>1. CASE k = 1
    <3>1. flat[1] = seqs[1]
      <4>1. 1 \in 1..Len(seqs)
        BY <2>1
      <4>2. QED
        BY <4>1, FlattenFirst
    <3>2. At(flat, 0) = 0 /\ At(flat, 1) = Len(seqs[1])
      BY <3>1 DEF At
    <3>3. Len(seqs[1]) \in Nat
      BY <2>1, LenProperties
    <3>4. QED
      BY <2>1, <3>1, <3>2, <3>3
  <2>2. CASE k # 1
    <3>1. PICK m \in Nat \ {0} : k = m + 1
      <4>1. k - 1 \in Nat \ {0} /\ k = (k - 1) + 1
        BY <2>2
      <4>2. QED
        BY <4>1
    <3>2. flat[k] = flat[m] \o seqs[k]
      <4>1. m + 1 \in 1..Len(seqs)
        BY <3>1
      <4>2. QED
        BY <3>1, <4>1, FlattenAfter
    <3>3. At(flat, k - 1) = Len(flat[m]) /\ At(flat, k) = Len(flat[k])
      <4>1. k - 1 = m /\ m # 0 /\ k # 0
        BY <3>1
      <4>2. QED
        BY <4>1 DEF At
    <3>4. /\ Len(flat[m] \o seqs[k]) = Len(flat[m]) + Len(seqs[k])
          /\ \A j \in 1..Len(seqs[k]) : (flat[m] \o seqs[k])[Len(flat[m]) + j] = seqs[k][j]
      <4>1. flat[m] \in Seq(S) /\ seqs[k] \in Seq(S)
        BY <3>1
      <4>2. QED
        BY <4>1, BeginsConcat, ZenonT(30)
    <3>5. QED
      BY <3>2, <3>3, <3>4
  <2>3. QED
    BY <2>1, <2>2
<1>3. At(flat, k) = Len(flat[k]) /\ Len(seqs[k]) \in Nat /\ Len(flat[k]) \in Nat
      /\ At(flat, k - 1) \in Nat
  <2>1. k - 1 = 0 \/ k - 1 \in 1..n
    OBVIOUS
  <2>2. QED
    BY <2>1, LenProperties DEF At
<1>4. \A j \in 1..Len(seqs[k]) : At(flat, k - 1) + j \in 1..Len(flat[k])
  BY <1>2, <1>3
<1>5. QED
  BY <1>1, <1>2, <1>3, <1>4 DEF Begins

(* The same, with the longer list and the shorter given by their elements. *)
LEMMA IsAppend ==
  ASSUME NEW V, NEW a \in Seq(V), NEW b \in Seq(V), NEW e \in V, NEW n \in Nat,
         Len(a) = n, Len(b) = n + 1, \A i \in 1..n : b[i] = a[i], b[n + 1] = e
  PROVE  b = Append(a, e)
<1>1. /\ Append(a, e) \in Seq(V) /\ Len(Append(a, e)) = n + 1
      /\ \A i \in 1..n : Append(a, e)[i] = a[i]
      /\ Append(a, e)[n + 1] = e
  BY AppendProperties
<1>2. \A i \in 1..(n + 1) : i \in 1..n \/ i = n + 1
  OBVIOUS
<1>3. \A i \in 1..(n + 1) : b[i] = Append(a, e)[i]
  BY <1>1, <1>2
<1>4. QED
  BY <1>1, <1>3, SeqEqual

LEMMA IsTail ==
  ASSUME NEW V, NEW a \in Seq(V), NEW b \in Seq(V), NEW n \in Nat,
         Len(a) = n + 1, Len(b) = n, \A i \in 1..n : b[i] = a[i + 1]
  PROVE  b = Tail(a) /\ a # << >> /\ Head(a) = a[1]
<1>1. a # << >>
  BY EmptySeq
<1>2. /\ Tail(a) \in Seq(V) /\ Len(Tail(a)) = n
      /\ \A i \in 1..n : Tail(a)[i] = a[i + 1]
  BY <1>1, HeadTailProperties
<1>3. Head(a) = a[1]
  BY <1>1
<1>4. QED
  BY <1>1, <1>2, <1>3, SeqEqual

LEMMA FlattenOn ==
  ASSUME NEW S, NEW a, NEW b, ListOfLists(a, S), ListOfLists(b, S), NEW e \in Seq(S),
         NEW n \in Nat, Len(a) = n, Len(b) = n + 1, \A i \in 1..n : b[i] = a[i], b[n + 1] = e
  PROVE  FlattenSeq(b) = FlattenSeq(a) \o e
<1> DEFINE V == Seq(S)
<1>1. a \in Seq(V) /\ b \in Seq(V) /\ e \in V
  BY DEF ListOfLists
<1>2. b = Append(a, e)
  <2> HIDE DEF V
  <2>1. QED
    BY <1>1, IsAppend
<1>3. FlattenSeq(Append(a, e)) = FlattenSeq(a) \o e
  BY FlattenAppend DEF ListOfLists
<1>4. QED
  BY <1>2, <1>3

(* The list b is a list a of n elements with e behind it. *)
Lengthened(b, a, n, e) ==
  /\ n \in Nat /\ Len(a) = n /\ Len(b) = n + 1
  /\ \A i \in 1..n : b[i] = a[i]
  /\ b[n + 1] = e

LEMMA FlattenLengthened ==
  ASSUME NEW S, NEW a, NEW b, ListOfLists(a, S), ListOfLists(b, S), NEW e \in Seq(S),
         NEW n, Lengthened(b, a, n, e)
  PROVE  FlattenSeq(b) = FlattenSeq(a) \o e
<1>1. /\ n \in Nat /\ Len(a) = n /\ Len(b) = n + 1
      /\ \A i \in 1..n : b[i] = a[i]
      /\ b[n + 1] = e
  BY DEF Lengthened
<1>2. QED
  BY <1>1, FlattenOn

LEMMA FlattenFrom ==
  ASSUME NEW S, NEW a, NEW b, ListOfLists(a, S), ListOfLists(b, S), NEW n \in Nat,
         Len(a) = n + 1, Len(b) = n, \A i \in 1..n : b[i] = a[i + 1]
  PROVE  FlattenSeq(a) = a[1] \o FlattenSeq(b)
<1> DEFINE V == Seq(S)
<1>1. a \in Seq(V) /\ b \in Seq(V)
  BY DEF ListOfLists
<1>2. b = Tail(a) /\ a # << >> /\ Head(a) = a[1]
  <2> HIDE DEF V
  <2>1. QED
    BY <1>1, IsTail
<1>3. FlattenSeq(a) = Head(a) \o FlattenSeq(Tail(a))
  <2>1. a # << >>
    BY <1>2
  <2>2. QED
    BY <2>1, FlattenHead
<1>4. QED
  BY <1>2, <1>3

-----------------------------------------------------------------------------
(* Joined sequences, InsertAt and RemoveAt, element by element.            *)
LEMMA JoinedProperties ==
  ASSUME NEW S, NEW a \in Seq(S), NEW b \in Seq(S)
  PROVE  /\ a \o b \in Seq(S) /\ Len(a \o b) = Len(a) + Len(b)
         /\ \A j \in 1..Len(a) : (a \o b)[j] = a[j]
         /\ \A j \in 1..Len(b) : (a \o b)[Len(a) + j] = b[j]
<1>1. a \o b \in Seq(S) /\ Begins(a, a \o b)
  BY BeginsConcat, ConcatProperties
<1>2. QED
  BY <1>1, BeginsConcat DEF Begins

LEMMA InsertedProperties ==
  ASSUME NEW S, NEW s \in Seq(S), NEW i \in 1..(Len(s) + 1), NEW e \in S
  PROVE  /\ InsertAt(s, i, e) \in Seq(S)
         /\ Len(InsertAt(s, i, e)) = Len(s) + 1
         /\ \A j \in 1..(i - 1) : InsertAt(s, i, e)[j] = s[j]
         /\ InsertAt(s, i, e)[i] = e
         /\ \A j \in i..Len(s) : InsertAt(s, i, e)[j + 1] = s[j]
<1>0. PICK n \in Nat : n = Len(s)
  BY LenProperties
<1> USE <1>0
<1> DEFINE front == SubSeq(s, 1, i - 1)
           back  == SubSeq(s, i, n)
           left  == front \o <<e>>
<1>1. front \in Seq(S) /\ Len(front) = i - 1 /\ \A j \in 1..(i - 1) : front[j] = s[j]
  <2>1. i - 1 \in 0..Len(s)
    OBVIOUS
  <2>2. QED
    BY <2>1, PrefixProperties
<1>2. PICK o \in Nat : o + 1 = i /\ o = i - 1
  <2>1. i - 1 \in Nat /\ i - 1 + 1 = i
    OBVIOUS
  <2>2. QED
    BY <2>1
<1>3. PICK k \in Nat : o + k = n
  <2>1. n - o \in Nat /\ o + (n - o) = n
    BY <1>2
  <2>2. QED
    BY <2>1
<1>4. back \in Seq(S) /\ Len(back) = k /\ \A j \in 1..k : back[j] = s[o + j]
  <2>1. o + k <= Len(s)
    BY <1>3
  <2>2. back = SubSeq(s, o + 1, o + k)
    BY <1>2, <1>3
  <2>3. QED
    BY <2>1, <2>2, SliceProperties
<1>5. InsertAt(s, i, e) = left \o back
  BY DEF InsertAt
<1> HIDE DEF front, back
<1>6. /\ left \in Seq(S) /\ Len(left) = i /\ left[i] = e
      /\ \A j \in 1..(i - 1) : left[j] = s[j]
  BY <1>1, <1>2
<1> HIDE DEF left
<1>7. /\ left \o back \in Seq(S) /\ Len(left \o back) = i + k
      /\ \A j \in 1..i : (left \o back)[j] = left[j]
      /\ \A j \in 1..k : (left \o back)[i + j] = back[j]
  <2>1. PICK l \in Nat : l = i
    OBVIOUS
  <2>2. left \in Seq(S) /\ back \in Seq(S) /\ Len(left) = l /\ Len(back) = k
    BY <1>4, <1>6, <2>1
  <2>3. left \in Seq(S) /\ back \in Seq(S)
    BY <2>2
  <2>4. /\ left \o back \in Seq(S) /\ Len(left \o back) = Len(left) + Len(back)
        /\ \A j \in 1..Len(left) : (left \o back)[j] = left[j]
        /\ \A j \in 1..Len(back) : (left \o back)[Len(left) + j] = back[j]
    BY <2>3, JoinedProperties
  <2>5. /\ left \o back \in Seq(S) /\ Len(left \o back) = l + k
        /\ \A j \in 1..l : (left \o back)[j] = left[j]
        /\ \A j \in 1..k : (left \o back)[l + j] = back[j]
    BY <2>2, <2>4
  <2>6. QED
    BY <2>1, <2>5
<1>8. ASSUME NEW j \in i..n PROVE (left \o back)[j + 1] = s[j]
  <2>1. PICK l \in 1..k : o + l = j /\ i + l = j + 1
    <3>1. j - o \in 1..k /\ o + (j - o) = j /\ i + (j - o) = j + 1
      BY <1>2, <1>3
    <3>2. QED
      BY <3>1
  <2>2. QED
    BY <1>4, <1>7, <2>1
<1>9. i + k = n + 1 /\ i \in 1..i /\ \A j \in 1..(i - 1) : j \in 1..i
  BY <1>2, <1>3
<1>10. QED
  BY <1>5, <1>6, <1>7, <1>8, <1>9

LEMMA RemovedProperties ==
  ASSUME NEW S, NEW s \in Seq(S), NEW i \in 1..Len(s)
  PROVE  /\ RemoveAt(s, i) \in Seq(S)
         /\ Len(RemoveAt(s, i)) = Len(s) - 1
         /\ \A j \in 1..(i - 1) : RemoveAt(s, i)[j] = s[j]
         /\ \A j \in i..(Len(s) - 1) : RemoveAt(s, i)[j] = s[j + 1]
<1>0. PICK n \in Nat : n = Len(s)
  BY LenProperties
<1> USE <1>0
<1> DEFINE front == SubSeq(s, 1, i - 1)
           back  == SubSeq(s, i + 1, n)
<1>1. front \in Seq(S) /\ Len(front) = i - 1 /\ \A j \in 1..(i - 1) : front[j] = s[j]
  <2>1. i - 1 \in 0..Len(s)
    OBVIOUS
  <2>2. QED
    BY <2>1, PrefixProperties
<1>2. PICK k \in Nat : i + k = n
  <2>1. n - i \in Nat /\ i + (n - i) = n
    OBVIOUS
  <2>2. QED
    BY <2>1
<1>3. back \in Seq(S) /\ Len(back) = k /\ \A j \in 1..k : back[j] = s[i + j]
  <2>1. i \in Nat /\ i + k <= Len(s) /\ back = SubSeq(s, i + 1, i + k)
    BY <1>2
  <2> HIDE DEF back
  <2>2. /\ SubSeq(s, i + 1, i + k) \in Seq(S) /\ Len(SubSeq(s, i + 1, i + k)) = k
        /\ \A j \in 1..k : SubSeq(s, i + 1, i + k)[j] = s[i + j]
    BY <2>1, SliceProperties
  <2>3. QED
    BY <2>1, <2>2
<1>4. RemoveAt(s, i) = front \o back
  BY DEF RemoveAt
<1> HIDE DEF front, back
<1>5. /\ front \o back \in Seq(S) /\ Len(front \o back) = (i - 1) + k
      /\ \A j \in 1..(i - 1) : (front \o back)[j] = front[j]
      /\ \A j \in 1..k : (front \o back)[(i - 1) + j] = back[j]
  <2>1. PICK l \in Nat : l = i - 1
    OBVIOUS
  <2>2. front \in Seq(S) /\ back \in Seq(S) /\ Len(front) = l /\ Len(back) = k
    BY <1>1, <1>3, <2>1
  <2>3. front \in Seq(S) /\ back \in Seq(S)
    BY <2>2
  <2>4. /\ front \o back \in Seq(S) /\ Len(front \o back) = Len(front) + Len(back)
        /\ \A j \in 1..Len(front) : (front \o back)[j] = front[j]
        /\ \A j \in 1..Len(back) : (front \o back)[Len(front) + j] = back[j]
    BY <2>3, JoinedProperties
  <2>5. /\ front \o back \in Seq(S) /\ Len(front \o back) = l + k
        /\ \A j \in 1..l : (front \o back)[j] = front[j]
        /\ \A j \in 1..k : (front \o back)[l + j] = back[j]
    BY <2>2, <2>4
  <2>6. QED
    BY <2>1, <2>5
<1>6. ASSUME NEW j \in i..(n - 1) PROVE (front \o back)[j] = s[j + 1]
  <2>1. PICK l \in 1..k : (i - 1) + l = j /\ i + l = j + 1
    <3>1. j - (i - 1) \in 1..k /\ (i - 1) + (j - (i - 1)) = j /\ i + (j - (i - 1)) = j + 1
      BY <1>2
    <3>2. QED
      BY <3>1
  <2>2. QED
    BY <1>3, <1>5, <2>1
<1>7. (i - 1) + k = n - 1
  BY <1>2
<1>8. QED
  BY <1>1, <1>4, <1>5, <1>6, <1>7

-----------------------------------------------------------------------------
(* Sequences without repetition, and what one made of several holds.       *)
Distinct(s) == \A i, j \in 1..Len(s) : s[i] = s[j] => i = j

Apart(a, b) == \A i \in 1..Len(a) : \A j \in 1..Len(b) : a[i] # b[j]

Holds(s, x) == \E i \in 1..Len(s) : s[i] = x

LEMMA JoinedDistinct ==
  ASSUME NEW S, NEW a \in Seq(S), NEW b \in Seq(S)
  PROVE  /\ Distinct(a) /\ Distinct(b) /\ Apart(a, b) => Distinct(a \o b)
         /\ \A x : Holds(a \o b, x) <=> Holds(a, x) \/ Holds(b, x)
<1> DEFINE n == Len(a)
           m == Len(b)
           c == a \o b
<1>1. /\ n \in Nat /\ m \in Nat /\ Len(c) = n + m
      /\ \A j \in 1..n : c[j] = a[j]
      /\ \A j \in 1..m : c[n + j] = b[j]
  BY JoinedProperties, LenProperties
<1>2. \A j \in 1..(n + m) : j \in 1..n \/ (j - n \in 1..m /\ n + (j - n) = j)
  BY <1>1
<1>3. \A j \in 1..n : j \in 1..(n + m)
  BY <1>1
<1>4. \A j \in 1..m : n + j \in 1..(n + m)
  BY <1>1
<1> HIDE DEF c, n, m
<1>5. ASSUME NEW j \in 1..(n + m)
      PROVE  \/ j \in 1..n /\ c[j] = a[j]
             \/ j - n \in 1..m /\ c[j] = b[j - n]
  <2>1. CASE j \in 1..n
    BY <1>1, <2>1
  <2>2. CASE j - n \in 1..m /\ n + (j - n) = j
    <3> DEFINE l == j - n
    <3>1. l \in 1..m /\ n + l = j
      BY <2>2
    <3> HIDE DEF l
    <3>2. c[n + l] = b[l]
      BY <1>1, <3>1
    <3>3. QED
      BY <3>1, <3>2 DEF l
  <2>3. QED
    BY <1>2, <2>1, <2>2
<1>6. ASSUME Distinct(a), Distinct(b), Apart(a, b),
             NEW i \in 1..(n + m), NEW j \in 1..(n + m), c[i] = c[j]
      PROVE  i = j
  <2>1. CASE i \in 1..n /\ c[i] = a[i] /\ j \in 1..n /\ c[j] = a[j]
    BY <1>6, <2>1 DEF Distinct, n
  <2>2. CASE i \in 1..n /\ c[i] = a[i] /\ j - n \in 1..m /\ c[j] = b[j - n]
    BY <1>6, <2>2 DEF Apart, n, m
  <2>3. CASE i - n \in 1..m /\ c[i] = b[i - n] /\ j \in 1..n /\ c[j] = a[j]
    BY <1>6, <2>3 DEF Apart, n, m
  <2>4. CASE i - n \in 1..m /\ c[i] = b[i - n] /\ j - n \in 1..m /\ c[j] = b[j - n]
    <3>1. i - n = j - n
      BY <1>6, <2>4 DEF Distinct, m
    <3>2. QED
      BY <1>1, <3>1
  <2>5. QED
    BY <1>5, <2>1, <2>2, <2>3, <2>4
<1>7. ASSUME NEW x PROVE Holds(c, x) <=> Holds(a, x) \/ Holds(b, x)
  <2>1. Holds(c, x) => Holds(a, x) \/ Holds(b, x)
    BY <1>1, <1>5 DEF Holds, n, m
  <2>2. Holds(a, x) => Holds(c, x)
    BY <1>1, <1>3 DEF Holds, n
  <2>3. Holds(b, x) => Holds(c, x)
    <3> SUFFICES ASSUME Holds(b, x)
                 PROVE  Holds(c, x)
      OBVIOUS
    <3>1. PICK j \in 1..m : b[j] = x
      BY DEF Holds, m
    <3>2. n + j \in 1..(n + m) /\ c[n + j] = x
      BY <1>1, <1>4, <3>1
    <3>3. QED
      BY <1>1, <3>2 DEF Holds
  <2>4. QED
    BY <2>1, <2>2, <2>3
<1>8. Distinct(a) /\ Distinct(b) /\ Apart(a, b) => Distinct(c)
  BY <1>1, <1>6 DEF Distinct
<1>9. QED
  BY <1>7, <1>8 DEF c

(* Lists of sequences without repetition, of which no two share a value.   *)
AllApart(seqs, n) ==
  /\ \A i \in 1..n : Distinct(seqs[i])
  /\ \A i, j \in 1..n : i # j => Apart(seqs[i], seqs[j])

HoldsAll(flat, seqs, k) == \A x : Holds(flat, x) <=> \E i \in 1..k : Holds(seqs[i], x)

LEMMA FlattenedSoFar ==
  ASSUME NEW S, NEW seqs, NEW flat, NEW n \in Nat, Flattened(seqs, flat, n, S),
         AllApart(seqs, n)
  PROVE  \A k \in 1..n : Distinct(flat[k]) /\ HoldsAll(flat[k], seqs, k)
<1> DEFINE T == {k \in Nat : k \in 1..n => Distinct(flat[k]) /\ HoldsAll(flat[k], seqs, k)}
<1>1. 0 \in T
  OBVIOUS
<1>2. ASSUME NEW k \in Nat, k \in T
      PROVE  k + 1 \in T
  <2> SUFFICES ASSUME k + 1 \in 1..n
               PROVE  Distinct(flat[k + 1]) /\ HoldsAll(flat[k + 1], seqs, k + 1)
    OBVIOUS
  <2>1. CASE k = 0
    <3>1. flat[1] = seqs[1]
      BY <2>1, FlattenFirst DEF Flattened
    <3>2. Distinct(seqs[1])
      BY <2>1 DEF AllApart
    <3>3. \A i \in 1..1 : i = 1
      OBVIOUS
    <3>4. HoldsAll(seqs[1], seqs, 1)
      BY <3>3 DEF HoldsAll
    <3>5. QED
      BY <2>1, <3>1, <3>2, <3>4
  <2>2. CASE k # 0
    <3>1. k \in Nat \ {0} /\ k \in 1..n
      BY <2>2
    <3>2. flat[k + 1] = flat[k] \o seqs[k + 1]
      BY <3>1, FlattenAfter DEF Flattened
    <3>3. flat[k] \in Seq(S) /\ seqs[k + 1] \in Seq(S)
      BY <3>1 DEF Flattened
    <3>4. Distinct(flat[k]) /\ HoldsAll(flat[k], seqs, k)
      BY <1>2, <3>1
    <3>5. Distinct(seqs[k + 1])
      BY DEF AllApart
    <3>6. Apart(flat[k], seqs[k + 1])
      <4> SUFFICES ASSUME NEW x, Holds(flat[k], x), Holds(seqs[k + 1], x)
                   PROVE  FALSE
        BY DEF Apart, Holds
      <4>1. PICK i \in 1..k : Holds(seqs[i], x)
        BY <3>4 DEF HoldsAll
      <4>2. i \in 1..n /\ i # k + 1
        BY <3>1
      <4>3. Apart(seqs[i], seqs[k + 1])
        BY <4>2 DEF AllApart
      <4>4. QED
        BY <4>1, <4>3 DEF Apart, Holds
    <3>7. /\ Distinct(flat[k] \o seqs[k + 1])
          /\ \A x : Holds(flat[k] \o seqs[k + 1], x) <=> Holds(flat[k], x) \/ Holds(seqs[k + 1], x)
      BY <3>3, <3>4, <3>5, <3>6, JoinedDistinct
    <3>8. \A i \in 1..(k + 1) : i \in 1..k \/ i = k + 1
      OBVIOUS
    <3>9. \A i \in 1..k : i \in 1..(k + 1)
      OBVIOUS
    <3>10. ASSUME NEW x
           PROVE  Holds(flat[k + 1], x) <=> \E i \in 1..(k + 1) : Holds(seqs[i], x)
      BY <3>2, <3>4, <3>7, <3>8, <3>9 DEF HoldsAll
    <3>11. QED
      BY <3>2, <3>7, <3>10 DEF HoldsAll
  <2>3. QED
    BY <2>1, <2>2
<1>3. Nat \subseteq T
  <2> HIDE DEF T
  <2>1. QED
    BY <1>1, <1>2, SetInduction
<1>4. QED
  BY <1>3

LEMMA FlattenDistinct ==
  ASSUME NEW S, NEW seqs, ListOfLists(seqs, S), NEW n \in Nat, Len(seqs) = n,
         AllApart(seqs, n)
  PROVE  Distinct(FlattenSeq(seqs)) /\ HoldsAll(FlattenSeq(seqs), seqs, n)
<1>1. CASE n = 0
  <2>1. seqs = << >>
    BY <1>1, EmptySeq DEF ListOfLists
  <2>2. FlattenSeq(seqs) = << >>
    BY <2>1, FlattenEmpty
  <2>3. QED
    BY <1>1, <2>2 DEF Distinct, HoldsAll, Holds
<1>2. CASE n # 0
  <2>1. PICK flat : Flatten(seqs, flat) /\ FlattenSeq(seqs) = flat[n]
    BY <1>2, FlattenIsDefined
  <2>2. \A i \in 1..n : flat[i] \in Seq(S)
    BY <2>1, FlattenValues DEF ListOfLists
  <2>3. \A i \in 1..n : seqs[i] \in Seq(S)
    BY ElementOfSeq DEF ListOfLists
  <2>4. Flattened(seqs, flat, n, S)
    BY <2>1, <2>2, <2>3 DEF Flattened
  <2>5. n \in 1..n
    BY <1>2
  <2>6. QED
    BY <2>1, <2>4, <2>5, FlattenedSoFar
<1>3. QED
  BY <1>1, <1>2
==============================================================================
