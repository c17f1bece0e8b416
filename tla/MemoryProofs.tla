---------------------------- MODULE MemoryProofs ----------------------------
(***************************************************************************)
(* What lib/area.c and lib/area_chunk.c promise of memory, for any number  *)
(* of addresses, atoms in an area and requests that wait.                  *)
(***************************************************************************)
EXTENDS Memory, SequenceFacts, FiniteSetTheorems

-----------------------------------------------------------------------------
(* Folding over finite sets: induction over their parts, with a set in the *)
(* place of the predicate.                                                 *)

LEMMA SubsetInduction ==
  ASSUME NEW S, IsFiniteSet(S), NEW F,
         \A T \in SUBSET S : (\A x \in T : T \ {x} \in F) => T \in F
  PROVE  \A T \in SUBSET S : T \in F
<1> DEFINE U == {n \in Nat : \A T \in SUBSET S : Cardinality(T) = n => T \in F}
<1>1. 0 \in U
  <2>1. ASSUME NEW T \in SUBSET S, Cardinality(T) = 0
        PROVE  T \in F
    <3>1. T = {}
      BY <2>1, FS_Subset, FS_EmptySet
    <3>2. QED
      BY <3>1
  <2>2. QED
    BY <2>1
<1>2. ASSUME NEW n \in Nat, n \in U
      PROVE  n + 1 \in U
  <2>1. ASSUME NEW T \in SUBSET S, Cardinality(T) = n + 1
        PROVE  T \in F
    <3>1. ASSUME NEW x \in T
          PROVE  T \ {x} \in F
      <4>1. IsFiniteSet(T)
        BY FS_Subset
      <4>2. Cardinality(T \ {x}) = (n + 1) - 1
        BY <2>1, <4>1, FS_RemoveElement
      <4>3. (n + 1) - 1 = n /\ T \ {x} \in SUBSET S
        OBVIOUS
      <4>4. QED
        BY <1>2, <4>2, <4>3
    <3>2. QED
      BY <3>1
  <2>2. QED
    BY <2>1
<1>3. Nat \subseteq U
  <2> HIDE DEF U
  <2>1. QED
    BY <1>1, <1>2, SetInduction
<1>4. ASSUME NEW T \in SUBSET S
      PROVE  T \in F
  <2>1. Cardinality(T) \in Nat
    BY FS_Subset, FS_CardinalityType
  <2>2. QED
    BY <1>3, <2>1
<1>5. QED
  BY <1>4

(* The three foldings over a set: a sum, chunks that are freed and chunks  *)
(* that are allocated.                                                     *)
Step(fold, x, old) ==
  IF fold.op = "sum" THEN fold.of[x] + old
  ELSE IF fold.op = "free" THEN FreeIn(old, "nicks", x)
  ELSE AllocIn(old, "nicks", x, AreaBytes)

AnyOf(T) == CHOOSE x \in T : TRUE

SetFolding(fold, S, base, it) ==
  it = [T \in SUBSET S |->
          IF T = {} THEN base ELSE Step(fold, AnyOf(T), it[T \ {AnyOf(T)}])]

LEMMA AnyOfIs ==
  ASSUME NEW T, T # {}
  PROVE  AnyOf(T) \in T
  BY DEF AnyOf

LEMMA SetFoldingExists ==
  ASSUME NEW S, IsFiniteSet(S), NEW fold, NEW base
  PROVE  \E it : SetFolding(fold, S, base, it)
<1> DEFINE Body(it, T) == IF T = {} THEN base ELSE Step(fold, AnyOf(T), it[T \ {AnyOf(T)}])
           Small(k) == {T \in SUBSET S : Cardinality(T) <= k}
           Upto(k, it) == it = [T \in Small(k) |-> Body(it, T)]
           U == {k \in Nat : \E it : Upto(k, it)}
<1>1. 0 \in U
  <2> DEFINE it == [T \in Small(0) |-> base]
  <2>1. ASSUME NEW T \in Small(0)
        PROVE  T = {}
    <3>1. IsFiniteSet(T) /\ Cardinality(T) \in Nat
      BY FS_Subset, FS_CardinalityType
    <3>2. Cardinality(T) = 0
      BY <3>1
    <3>3. QED
      BY <3>1, <3>2, FS_EmptySet
  <2>2. Upto(0, it)
    BY <2>1, Zenon
  <2> HIDE DEF Upto, it
  <2>3. QED
    BY <2>2
<1>2. ASSUME NEW k \in Nat, k \in U
      PROVE  k + 1 \in U
  <2>1. PICK it : Upto(k, it)
    BY <1>2
  <2> DEFINE more == [T \in Small(k + 1) |->
                        IF Cardinality(T) = k + 1 THEN Body(it, T) ELSE it[T]]
  <2>2. ASSUME NEW T \in Small(k)
        PROVE  more[T] = it[T] /\ it[T] = Body(it, T)
    <3>1. Cardinality(T) \in Nat
      BY FS_Subset, FS_CardinalityType
    <3>2. T \in Small(k + 1) /\ Cardinality(T) # k + 1
      BY <3>1
    <3>3. QED
      BY <2>1, <3>2, Zenon
  <2>3. ASSUME NEW T \in Small(k + 1)
        PROVE  more[T] = Body(more, T)
    <3>1. IsFiniteSet(T) /\ Cardinality(T) \in Nat
      BY FS_Subset, FS_CardinalityType
    <3>2. T # {} => T \ {AnyOf(T)} \in Small(k)
      <4>1. SUFFICES ASSUME T # {}
                     PROVE  T \ {AnyOf(T)} \in Small(k)
        OBVIOUS
      <4>2. Cardinality(T \ {AnyOf(T)}) = Cardinality(T) - 1
        BY <3>1, <4>1, AnyOfIs, FS_RemoveElement
      <4>3. Cardinality(T) - 1 <= k
        BY <3>1
      <4>4. QED
        BY <4>2, <4>3
    <3>3. Body(more, T) = Body(it, T)
      <4>1. CASE T = {}
        BY <4>1
      <4>2. CASE T # {}
        <5>1. more[T \ {AnyOf(T)}] = it[T \ {AnyOf(T)}]
          BY <2>2, <3>2, <4>2
        <5> HIDE DEF more
        <5>2. QED
          BY <4>2, <5>1
      <4>3. QED
        BY <4>1, <4>2
    <3>4. more[T] = Body(it, T)
      <4>1. CASE Cardinality(T) = k + 1
        BY <4>1
      <4>2. CASE Cardinality(T) # k + 1
        <5>1. T \in Small(k)
          BY <3>1, <4>2
        <5>2. QED
          BY <2>2, <5>1, Zenon
      <4>3. QED
        BY <4>1, <4>2
    <3>5. QED
      BY <3>3, <3>4
  <2>4. more = [T \in Small(k + 1) |-> more[T]]
    OBVIOUS
  <2> HIDE DEF more, Body
  <2>5. Upto(k + 1, more)
    BY <2>3, <2>4
  <2> HIDE DEF Upto
  <2>6. QED
    BY <2>5
<1>3. Nat \subseteq U
  <2> HIDE DEF U
  <2>1. QED
    BY <1>1, <1>2, SetInduction
<1>4. PICK it : Upto(Cardinality(S), it)
  BY <1>3, FS_CardinalityType
<1>5. Small(Cardinality(S)) = SUBSET S
  BY FS_Subset
<1>6. it = [T \in SUBSET S |-> Body(it, T)]
  BY <1>4, <1>5
<1>7. QED
  BY <1>6 DEF SetFolding

LEMMA SetFoldingStep ==
  ASSUME NEW S, NEW fold, NEW base, NEW it, SetFolding(fold, S, base, it), NEW T \in SUBSET S
  PROVE  /\ T = {} => it[T] = base
         /\ T # {} => /\ AnyOf(T) \in T
                      /\ it[T] = Step(fold, AnyOf(T), it[T \ {AnyOf(T)}])
<1>1. it[T] = IF T = {} THEN base ELSE Step(fold, AnyOf(T), it[T \ {AnyOf(T)}])
  BY DEF SetFolding
<1>2. QED
  BY <1>1, AnyOfIs

LEMMA SetFoldingBase ==
  ASSUME NEW S, NEW fold, NEW base, NEW it, SetFolding(fold, S, base, it)
  PROVE  it[{}] = base
<1>1. {} \in SUBSET S
  OBVIOUS
<1>2. QED
  BY <1>1 DEF SetFolding

(* How far two foldings fold the same things, they agree.                  *)
LEMMA SetFoldingUnique ==
  ASSUME NEW S, IsFiniteSet(S), NEW S2, S \subseteq S2, NEW fold, NEW base, NEW it, NEW it2,
         SetFolding(fold, S, base, it), SetFolding(fold, S2, base, it2)
  PROVE  \A T \in SUBSET S : it[T] = it2[T]
<1> DEFINE F == {T \in SUBSET S : it[T] = it2[T]}
<1>1. ASSUME NEW T \in SUBSET S, \A x \in T : T \ {x} \in F
      PROVE  T \in F
  <2>1. T \in SUBSET S2
    OBVIOUS
  <2>2. CASE T = {}
    <3>1. it[{}] = base /\ it2[{}] = base
      BY SetFoldingBase
    <3>2. QED
      BY <2>2, <3>1
  <2>3. CASE T # {}
    <3>1. /\ AnyOf(T) \in T
          /\ it[T] = Step(fold, AnyOf(T), it[T \ {AnyOf(T)}])
          /\ it2[T] = Step(fold, AnyOf(T), it2[T \ {AnyOf(T)}])
      BY <2>1, <2>3, SetFoldingStep
    <3>2. it[T \ {AnyOf(T)}] = it2[T \ {AnyOf(T)}]
      BY <1>1, <3>1
    <3>3. QED
      BY <3>1, <3>2
  <2>4. QED
    BY <2>2, <2>3
<1>2. \A T \in SUBSET S : T \in F
  <2> HIDE DEF F
  <2>1. QED
    BY <1>1, SubsetInduction
<1>3. QED
  BY <1>2

-----------------------------------------------------------------------------
(* Sums *)

SumOf(f, S) == SumFunctionOnSet(f, S)

Summing(f) == [op |-> "sum", of |-> f]

LEMMA SumIsFolding ==
  ASSUME NEW f, NEW S, IsFiniteSet(S), NEW it, SetFolding(Summing(f), S, 0, it)
  PROVE  SumOf(f, S) = it[S]
<1> DEFINE Adding(g) == g = [T \in SUBSET S |->
             IF T = {} THEN 0 ELSE f[CHOOSE x \in T : TRUE] + g[T \ {CHOOSE x \in T : TRUE}]]
           chosen == CHOOSE g : Adding(g)
<1>1. \A g : Adding(g) <=> SetFolding(Summing(f), S, 0, g)
  BY DEF SetFolding, Step, Summing, AnyOf
<1>2. Adding(chosen)
  <2>1. Adding(it)
    BY <1>1
  <2> HIDE DEF Adding
  <2>2. QED
    BY <2>1
<1>3. SumOf(f, S) = chosen[S]
  BY DEF SumOf, SumFunctionOnSet, FoldFunctionOnSet, MapThenFoldSet
<1>4. \A T \in SUBSET S : chosen[T] = it[T]
  <2> HIDE DEF chosen, Adding
  <2>1. SetFolding(Summing(f), S, 0, chosen)
    BY <1>1, <1>2
  <2>2. S \subseteq S
    OBVIOUS
  <2>3. QED
    BY <2>1, <2>2, SetFoldingUnique
<1>5. QED
  BY <1>3, <1>4

(* A sum over a part of a set, by the folding over all of it.              *)
LEMMA SumOfPart ==
  ASSUME NEW f, NEW S, IsFiniteSet(S), NEW it, SetFolding(Summing(f), S, 0, it),
         NEW T \in SUBSET S
  PROVE  SumOf(f, T) = it[T]
<1>1. IsFiniteSet(T)
  BY FS_Subset
<1>2. PICK it2 : SetFolding(Summing(f), T, 0, it2)
  BY <1>1, SetFoldingExists
<1>3. SumOf(f, T) = it2[T]
  BY <1>1, <1>2, SumIsFolding
<1>4. \A U \in SUBSET T : it2[U] = it[U]
  <2>1. T \subseteq S
    OBVIOUS
  <2>2. QED
    BY <1>1, <1>2, <2>1, SetFoldingUnique
<1>5. QED
  BY <1>3, <1>4

LEMMA SumFirst ==
  ASSUME NEW f, NEW S, IsFiniteSet(S), S # {}
  PROVE  /\ AnyOf(S) \in S
         /\ SumOf(f, S) = f[AnyOf(S)] + SumOf(f, S \ {AnyOf(S)})
<1>1. PICK it : SetFolding(Summing(f), S, 0, it)
  BY SetFoldingExists
<1>2. AnyOf(S) \in S /\ it[S] = Step(Summing(f), AnyOf(S), it[S \ {AnyOf(S)}])
  <2>1. S \in SUBSET S
    OBVIOUS
  <2>2. QED
    BY <1>1, <2>1, SetFoldingStep
<1>3. Step(Summing(f), AnyOf(S), it[S \ {AnyOf(S)}]) = f[AnyOf(S)] + it[S \ {AnyOf(S)}]
  BY DEF Step, Summing
<1>4. SumOf(f, S) = it[S] /\ SumOf(f, S \ {AnyOf(S)}) = it[S \ {AnyOf(S)}]
  <2>1. S \in SUBSET S /\ S \ {AnyOf(S)} \in SUBSET S
    OBVIOUS
  <2>2. QED
    BY <1>1, <2>1, SumOfPart
<1>5. QED
  BY <1>2, <1>3, <1>4

LEMMA SumOfNothing ==
  ASSUME NEW f
  PROVE  SumOf(f, {}) = 0
<1>1. IsFiniteSet({})
  BY FS_EmptySet
<1>2. PICK it : SetFolding(Summing(f), {}, 0, it)
  BY <1>1, SetFoldingExists
<1>3. it[{}] = 0
  BY <1>2, SetFoldingBase
<1>4. QED
  BY <1>1, <1>2, <1>3, SumIsFolding

(* A sum is one term and the others, whichever the one is.                 *)
LEMMA SumRemoved ==
  ASSUME NEW f, NEW S, IsFiniteSet(S), \A x \in S : f[x] \in Int
  PROVE  /\ SumOf(f, S) \in Int
         /\ \A x \in S : SumOf(f, S) = f[x] + SumOf(f, S \ {x})
<1> DEFINE Fine(T) == /\ SumOf(f, T) \in Int
                      /\ \A x \in T : /\ SumOf(f, T \ {x}) \in Int
                                     /\ SumOf(f, T) = f[x] + SumOf(f, T \ {x})
           F == {T \in SUBSET S : Fine(T)}
<1>1. ASSUME NEW T \in SUBSET S, \A x \in T : T \ {x} \in F
      PROVE  T \in F
  <2>1. CASE T = {}
    <3>1. SumOf(f, T) = 0
      BY <2>1, SumOfNothing
    <3>2. Fine(T)
      BY <2>1, <3>1
    <3>3. QED
      BY <3>2
  <2>2. CASE T # {}
    <3> DEFINE a == AnyOf(T)
    <3>1. IsFiniteSet(T)
      BY FS_Subset
    <3>2. a \in T /\ SumOf(f, T) = f[a] + SumOf(f, T \ {a})
      BY <2>2, <3>1, SumFirst
    <3>3. \A x \in T : f[x] \in Int /\ Fine(T \ {x})
      BY <1>1
    <3>4. SumOf(f, T) \in Int
      BY <3>2, <3>3
    <3> HIDE DEF a
    <3>5. ASSUME NEW x \in T, x # a
          PROVE  SumOf(f, T) = f[x] + SumOf(f, T \ {x})
      <4>1. SumOf(f, T \ {a}) = f[x] + SumOf(f, (T \ {a}) \ {x})
        BY <3>2, <3>3, <3>5
      <4>2. SumOf(f, T \ {x}) = f[a] + SumOf(f, (T \ {x}) \ {a})
        BY <3>2, <3>3, <3>5
      <4>3. (T \ {a}) \ {x} = (T \ {x}) \ {a}
        OBVIOUS
      <4>4. SumOf(f, (T \ {a}) \ {x}) \in Int
        BY <3>2, <3>3, <3>5
      <4>5. f[a] \in Int /\ f[x] \in Int
        BY <3>2, <3>3
      <4>6. PICK r \in Int : r = SumOf(f, (T \ {a}) \ {x})
        BY <4>4
      <4>7. SumOf(f, T \ {a}) = f[x] + r /\ SumOf(f, T \ {x}) = f[a] + r
        BY <4>1, <4>2, <4>3, <4>6
      <4>8. QED
        BY <3>2, <4>5, <4>7
    <3>6. Fine(T)
      BY <3>2, <3>3, <3>4, <3>5
    <3>7. QED
      BY <3>6
  <2>3. QED
    BY <2>1, <2>2
<1>2. \A T \in SUBSET S : T \in F
  <2> HIDE DEF F
  <2>1. QED
    BY <1>1, SubsetInduction
<1>3. QED
  BY <1>2

LEMMA SumAdded ==
  ASSUME NEW f, NEW S, IsFiniteSet(S), \A x \in S : f[x] \in Int,
         NEW a, a \notin S, f[a] \in Int
  PROVE  /\ SumOf(f, S \cup {a}) = f[a] + SumOf(f, S)
         /\ SumOf(f, S \cup {a}) \in Int
<1> DEFINE T == S \cup {a}
<1>1. IsFiniteSet(T)
  BY FS_AddElement
<1>2. a \in T /\ (\A x \in T : f[x] \in Int) /\ T \ {a} = S
  OBVIOUS
<1> HIDE DEF T
<1>3. SumOf(f, T) \in Int /\ SumOf(f, T) = f[a] + SumOf(f, T \ {a})
  BY <1>1, <1>2, SumRemoved
<1>4. QED
  BY <1>2, <1>3 DEF T

(* A sum depends on its terms only.                                        *)
LEMMA SumSame ==
  ASSUME NEW f, NEW g, NEW S, IsFiniteSet(S), \A x \in S : f[x] = g[x]
  PROVE  SumOf(f, S) = SumOf(g, S)
<1> DEFINE F == {T \in SUBSET S : SumOf(f, T) = SumOf(g, T)}
<1>1. ASSUME NEW T \in SUBSET S, \A x \in T : T \ {x} \in F
      PROVE  T \in F
  <2>1. CASE T = {}
    <3>1. SumOf(f, T) = 0 /\ SumOf(g, T) = 0
      BY <2>1, SumOfNothing
    <3>2. QED
      BY <3>1
  <2>2. CASE T # {}
    <3> DEFINE a == AnyOf(T)
    <3>1. IsFiniteSet(T)
      BY FS_Subset
    <3>2. /\ a \in T /\ SumOf(f, T) = f[a] + SumOf(f, T \ {a})
          /\ SumOf(g, T) = g[a] + SumOf(g, T \ {a})
      BY <2>2, <3>1, SumFirst
    <3> HIDE DEF a
    <3>3. SumOf(f, T \ {a}) = SumOf(g, T \ {a}) /\ f[a] = g[a]
      BY <1>1, <3>2
    <3>4. QED
      BY <3>2, <3>3
  <2>3. QED
    BY <2>1, <2>2
<1>2. \A T \in SUBSET S : T \in F
  <2> HIDE DEF F
  <2>1. QED
    BY <1>1, SubsetInduction
<1>3. QED
  BY <1>2

-----------------------------------------------------------------------------
(* The calls of lib/area.c, each on a pair of areas and sizes.             *)

AreaType == [parent : Nodes \cup {None}, list : SUBSET Block, allocated : Int]

(* Every chunk is in one list, which counts it.                            *)
WellLaid(s) ==
  /\ s = [areas |-> s.areas, size |-> s.size]
  /\ s.areas \in [DOMAIN s.areas -> AreaType]
  /\ s.size \in [DOMAIN s.size -> Nat \ {0}]
  /\ \A b : b \in DOMAIN s.size <=> \E a \in DOMAIN s.areas : b \in s.areas[a].list
  /\ \A a1, a2 \in DOMAIN s.areas : a1 # a2 => s.areas[a1].list \cap s.areas[a2].list = {}
  /\ \A a \in DOMAIN s.areas : s.areas[a].allocated = SumOf(s.size, s.areas[a].list)

Lists(s) == [x \in DOMAIN s.areas |-> s.areas[x].list]

Parents(s) == [x \in DOMAIN s.areas |-> s.areas[x].parent]

Listed(lists, a, b) == [lists EXCEPT ![a] = @ \cup {b}]

Unlisted(lists, a, b) == [lists EXCEPT ![a] = @ \ {b}]

With(f, a, value) == [x \in DOMAIN f \cup {a} |-> IF x = a THEN value ELSE f[x]]

Cropped(f, gone) == [x \in DOMAIN f \ gone |-> f[x]]

LEMMA LaidList ==
  ASSUME NEW s, WellLaid(s), NEW a \in DOMAIN s.areas
  PROVE  /\ s.areas[a] = [parent |-> s.areas[a].parent, list |-> s.areas[a].list,
                          allocated |-> s.areas[a].allocated]
         /\ s.areas[a].parent \in Nodes \cup {None}
         /\ s.areas[a].list \subseteq Block
         /\ IsFiniteSet(s.areas[a].list)
         /\ s.areas[a].list \subseteq DOMAIN s.size
         /\ \A b \in s.areas[a].list : s.size[b] \in Nat \ {0}
         /\ s.areas[a].allocated = SumOf(s.size, s.areas[a].list)
<1>1. s.areas[a] \in AreaType
  BY DEF WellLaid
<1>2. /\ s.areas[a] = [parent |-> s.areas[a].parent, list |-> s.areas[a].list,
                       allocated |-> s.areas[a].allocated]
      /\ s.areas[a].parent \in Nodes \cup {None}
      /\ s.areas[a].list \subseteq Block
  BY <1>1 DEF AreaType
<1>3. IsFiniteSet(s.areas[a].list)
  BY <1>2, FS_Subset, MemoryAssumption
<1>4. s.areas[a].list \subseteq DOMAIN s.size
  BY DEF WellLaid
<1>5. \A b \in s.areas[a].list : s.size[b] \in Nat \ {0}
  BY <1>4 DEF WellLaid
<1>6. s.areas[a].allocated = SumOf(s.size, s.areas[a].list)
  BY DEF WellLaid
<1>7. QED
  BY <1>2, <1>3, <1>4, <1>5, <1>6

LEMMA LaidArea ==
  ASSUME NEW s, WellLaid(s), NEW a \in DOMAIN s.areas
  PROVE  s.areas[a] \in AreaType
  BY DEF WellLaid

Entry(p, l, c) == [parent |-> p, list |-> l, allocated |-> c]

LEMMA EntryIs ==
  ASSUME NEW r \in AreaType
  PROVE  r = Entry(r.parent, r.list, r.allocated)
  BY DEF AreaType, Entry

LEMMA EntryFields ==
  ASSUME NEW p, NEW l, NEW c
  PROVE  Entry(p, l, c).parent = p /\ Entry(p, l, c).list = l /\ Entry(p, l, c).allocated = c
  BY DEF Entry

LEMMA AddedIs ==
  ASSUME NEW p, NEW l, NEW c, NEW b, NEW n
  PROVE  Added(Entry(p, l, c), b, n) = Entry(p, l \cup {b}, c + n)
<1> DEFINE r == Entry(p, l, c)
           l2 == l \cup {b}
           c2 == c + n
<1>1. r.list \cup {b} = l2 /\ r.allocated + n = c2
  BY EntryFields
<1>2. Added(r, b, n) = [r EXCEPT !.list = l2, !.allocated = c2]
  <2> HIDE DEF r, l2, c2
  <2>1. QED
    BY <1>1 DEF Added
<1> HIDE DEF l2, c2
<1>3. [r EXCEPT !.list = l2] = Entry(p, l2, c)
  BY DEF Entry
<1>4. [Entry(p, l2, c) EXCEPT !.allocated = c2] = Entry(p, l2, c2)
  BY DEF Entry
<1>5. [r EXCEPT !.list = l2, !.allocated = c2] = [[r EXCEPT !.list = l2] EXCEPT !.allocated = c2]
  OBVIOUS
<1> HIDE DEF r
<1>6. Added(r, b, n) = Entry(p, l2, c2)
  BY <1>2, <1>3, <1>4, <1>5, Zenon
<1>7. QED
  BY <1>6 DEF r, l2, c2

LEMMA RemovedIs ==
  ASSUME NEW p, NEW l, NEW c, NEW b, NEW n
  PROVE  Removed(Entry(p, l, c), b, n) = Entry(p, l \ {b}, c - n)
<1> DEFINE r == Entry(p, l, c)
           l2 == l \ {b}
           c2 == c - n
<1>1. r.list \ {b} = l2 /\ r.allocated - n = c2
  BY EntryFields
<1>2. Removed(r, b, n) = [r EXCEPT !.list = l2, !.allocated = c2]
  <2> HIDE DEF r, l2, c2
  <2>1. QED
    BY <1>1 DEF Removed
<1> HIDE DEF l2, c2
<1>3. [r EXCEPT !.list = l2] = Entry(p, l2, c)
  BY DEF Entry
<1>4. [Entry(p, l2, c) EXCEPT !.allocated = c2] = Entry(p, l2, c2)
  BY DEF Entry
<1>5. [r EXCEPT !.list = l2, !.allocated = c2] = [[r EXCEPT !.list = l2] EXCEPT !.allocated = c2]
  OBVIOUS
<1> HIDE DEF r
<1>6. Removed(r, b, n) = Entry(p, l2, c2)
  BY <1>2, <1>3, <1>4, <1>5, Zenon
<1>7. QED
  BY <1>6 DEF r, l2, c2

(* a_malloc *)
LEMMA AllocLaid ==
  ASSUME NEW s, WellLaid(s), NEW a \in DOMAIN s.areas, NEW b \in Block, b \notin DOMAIN s.size,
         NEW n \in Nat \ {0}
  PROVE  /\ WellLaid(AllocIn(s, a, b, n))
         /\ Parents(AllocIn(s, a, b, n)) = Parents(s)
         /\ Lists(AllocIn(s, a, b, n)) = Listed(Lists(s), a, b)
         /\ AllocIn(s, a, b, n).size =
              [x \in DOMAIN s.size \cup {b} |-> IF x = b THEN n ELSE s.size[x]]
<1> DEFINE t == AllocIn(s, a, b, n)
           new == Added(s.areas[a], b, n)
<1>1. /\ t = [areas |-> t.areas, size |-> t.size]
      /\ t.areas = [s.areas EXCEPT ![a] = new]
      /\ t.size = [x \in DOMAIN s.size \cup {b} |-> IF x = b THEN n ELSE s.size[x]]
  BY DEF AllocIn
<1>2. /\ new.parent = s.areas[a].parent
      /\ new.list = s.areas[a].list \cup {b}
      /\ new.allocated = s.areas[a].allocated + n
      /\ new = Entry(new.parent, new.list, new.allocated)
  <2> DEFINE p == s.areas[a].parent
             l == s.areas[a].list
             c == s.areas[a].allocated
  <2>1. s.areas[a] = Entry(p, l, c)
    BY LaidArea, EntryIs
  <2>2. new = Added(Entry(p, l, c), b, n)
    BY <2>1, Zenon
  <2> HIDE DEF p, l, c, new
  <2>3. new = Entry(p, l \cup {b}, c + n)
    BY <2>2, AddedIs
  <2>4. new.parent = p /\ new.list = l \cup {b} /\ new.allocated = c + n
    BY <2>3, EntryFields
  <2>5. new = Entry(new.parent, new.list, new.allocated)
    BY <2>3, <2>4
  <2>6. QED
    BY <2>4, <2>5 DEF p, l, c
<1>3. /\ DOMAIN t.areas = DOMAIN s.areas
      /\ t.areas[a] = new
      /\ \A x \in DOMAIN s.areas : x # a => t.areas[x] = s.areas[x]
  BY <1>1 DEF WellLaid
<1>4. t.size \in [DOMAIN t.size -> Nat \ {0}]
  BY <1>1 DEF WellLaid
<1>5. \A x \in DOMAIN s.areas : b \notin s.areas[x].list
  BY LaidList
<1> HIDE DEF t, new
<1>6. \A x \in DOMAIN s.areas : SumOf(t.size, s.areas[x].list) = SumOf(s.size, s.areas[x].list)
  <2>1. SUFFICES ASSUME NEW x \in DOMAIN s.areas
                 PROVE  SumOf(t.size, s.areas[x].list) = SumOf(s.size, s.areas[x].list)
    OBVIOUS
  <2>2. \A y \in s.areas[x].list : t.size[y] = s.size[y]
    BY <1>1, <1>5, LaidList
  <2>3. IsFiniteSet(s.areas[x].list)
    BY LaidList
  <2>4. QED
    BY <2>2, <2>3, SumSame
<1>7. new.allocated = SumOf(t.size, new.list) /\ new.allocated \in Int
  <2> DEFINE L == s.areas[a].list
  <2>1. IsFiniteSet(L) /\ b \notin L /\ L \subseteq DOMAIN s.size
    BY <1>5, LaidList
  <2>2. \A y \in L : t.size[y] \in Int
    BY <1>1, <1>4, <2>1
  <2>3. t.size[b] = n
    BY <1>1
  <2>4. SumOf(t.size, L) = s.areas[a].allocated
    BY <1>6, LaidList
  <2> HIDE DEF L
  <2>5. SumOf(t.size, L \cup {b}) = n + SumOf(t.size, L) /\ SumOf(t.size, L) \in Int
    BY <2>1, <2>2, <2>3, SumAdded, SumRemoved
  <2>6. QED
    BY <1>2, <2>4, <2>5 DEF L
<1>8. new \in AreaType
  BY <1>2, <1>7, LaidList DEF AreaType, Entry
<1>9. t.areas \in [DOMAIN t.areas -> AreaType]
  BY <1>1, <1>3, <1>8 DEF WellLaid
<1>10. \A y : y \in DOMAIN t.size <=> \E x \in DOMAIN t.areas : y \in t.areas[x].list
  <2>1. \A y : y \in DOMAIN s.size <=> \E x \in DOMAIN s.areas : y \in s.areas[x].list
    BY DEF WellLaid
  <2>2. DOMAIN t.size = DOMAIN s.size \cup {b}
    BY <1>1
  <2>3. \A x \in DOMAIN s.areas : t.areas[x].list = IF x = a THEN s.areas[a].list \cup {b}
                                                    ELSE s.areas[x].list
    BY <1>2, <1>3
  <2>4. QED
    BY <1>3, <2>1, <2>2, <2>3
<1>11. \A a1, a2 \in DOMAIN t.areas : a1 # a2 => t.areas[a1].list \cap t.areas[a2].list = {}
  <2>1. \A a1, a2 \in DOMAIN s.areas : a1 # a2 => s.areas[a1].list \cap s.areas[a2].list = {}
    BY DEF WellLaid
  <2>2. \A x \in DOMAIN s.areas : t.areas[x].list = IF x = a THEN s.areas[a].list \cup {b}
                                                    ELSE s.areas[x].list
    BY <1>2, <1>3
  <2>3. QED
    BY <1>3, <1>5, <2>1, <2>2
<1>12. \A x \in DOMAIN t.areas : t.areas[x].allocated = SumOf(t.size, t.areas[x].list)
  <2>1. ASSUME NEW x \in DOMAIN s.areas, x # a
        PROVE  t.areas[x].allocated = SumOf(t.size, t.areas[x].list)
    <3>1. t.areas[x] = s.areas[x] /\ SumOf(t.size, s.areas[x].list) = SumOf(s.size, s.areas[x].list)
      BY <1>3, <1>6, <2>1
    <3>2. s.areas[x].allocated = SumOf(s.size, s.areas[x].list)
      BY LaidList
    <3>3. QED
      BY <3>1, <3>2
  <2>2. t.areas[a].allocated = SumOf(t.size, t.areas[a].list)
    BY <1>3, <1>7
  <2>3. QED
    BY <1>3, <2>1, <2>2
<1>13. WellLaid(t)
  BY <1>1, <1>4, <1>9, <1>10, <1>11, <1>12 DEF WellLaid
<1>14. Parents(t) = Parents(s)
  BY <1>2, <1>3 DEF Parents
<1>15. Lists(t) = Listed(Lists(s), a, b)
  BY <1>2, <1>3 DEF Lists, Listed, Unlisted
<1>16. QED
  BY <1>1, <1>13, <1>14, <1>15 DEF t

(* _a_free *)
LEMMA FreeLaid ==
  ASSUME NEW s, WellLaid(s), NEW a \in DOMAIN s.areas, NEW b \in s.areas[a].list
  PROVE  /\ WellLaid(FreeIn(s, a, b))
         /\ Parents(FreeIn(s, a, b)) = Parents(s)
         /\ Lists(FreeIn(s, a, b)) = Unlisted(Lists(s), a, b)
         /\ FreeIn(s, a, b).size = [x \in DOMAIN s.size \ {b} |-> s.size[x]]
<1> DEFINE t == FreeIn(s, a, b)
           new == Removed(s.areas[a], b, s.size[b])
<1>1. /\ t = [areas |-> t.areas, size |-> t.size]
      /\ t.areas = [s.areas EXCEPT ![a] = new]
      /\ t.size = [x \in DOMAIN s.size \ {b} |-> s.size[x]]
  BY DEF FreeIn, Restrict
<1>2. /\ new.parent = s.areas[a].parent
      /\ new.list = s.areas[a].list \ {b}
      /\ new.allocated = s.areas[a].allocated - s.size[b]
      /\ new = Entry(new.parent, new.list, new.allocated)
  <2> DEFINE p == s.areas[a].parent
             l == s.areas[a].list
             c == s.areas[a].allocated
  <2>1. s.areas[a] = Entry(p, l, c)
    BY LaidArea, EntryIs
  <2>2. new = Removed(Entry(p, l, c), b, s.size[b])
    BY <2>1, Zenon
  <2> HIDE DEF p, l, c, new
  <2>3. new = Entry(p, l \ {b}, c - s.size[b])
    BY <2>2, RemovedIs
  <2>4. new.parent = p /\ new.list = l \ {b} /\ new.allocated = c - s.size[b]
    BY <2>3, EntryFields
  <2>5. new = Entry(new.parent, new.list, new.allocated)
    BY <2>3, <2>4
  <2>6. QED
    BY <2>4, <2>5 DEF p, l, c
<1>3. /\ DOMAIN t.areas = DOMAIN s.areas
      /\ t.areas[a] = new
      /\ \A x \in DOMAIN s.areas : x # a => t.areas[x] = s.areas[x]
  BY <1>1 DEF WellLaid
<1>4. t.size \in [DOMAIN t.size -> Nat \ {0}]
  BY <1>1 DEF WellLaid
<1>5. \A x \in DOMAIN s.areas : x # a => b \notin s.areas[x].list
  BY DEF WellLaid
<1> HIDE DEF t, new
<1>6. \A x \in DOMAIN s.areas : x # a =>
        SumOf(t.size, s.areas[x].list) = SumOf(s.size, s.areas[x].list)
  <2>1. SUFFICES ASSUME NEW x \in DOMAIN s.areas, x # a
                 PROVE  SumOf(t.size, s.areas[x].list) = SumOf(s.size, s.areas[x].list)
    OBVIOUS
  <2>2. \A y \in s.areas[x].list : t.size[y] = s.size[y]
    BY <1>1, <1>5, <2>1, LaidList
  <2>3. IsFiniteSet(s.areas[x].list)
    BY LaidList
  <2>4. QED
    BY <2>2, <2>3, SumSame
<1>7. new.allocated = SumOf(t.size, new.list) /\ new.allocated \in Int
  <2> DEFINE L == s.areas[a].list
  <2>0. \A y \in L : s.size[y] \in Int
    <3>1. \A y \in s.areas[a].list : s.size[y] \in Nat \ {0}
      BY LaidList, Zenon
    <3>2. QED
      BY <3>1
  <2>1. IsFiniteSet(L) /\ b \in L /\ L \subseteq DOMAIN s.size
        /\ (\A y \in L : s.size[y] \in Int) /\ s.areas[a].allocated = SumOf(s.size, L)
    <3>1. IsFiniteSet(L) /\ L \subseteq DOMAIN s.size /\ s.areas[a].allocated = SumOf(s.size, L)
      BY LaidList
    <3>2. QED
      BY <2>0, <3>1
  <2>2. IsFiniteSet(L \ {b}) /\ \A y \in L \ {b} : t.size[y] = s.size[y]
    BY <1>1, <2>1, FS_RemoveElement
  <2> HIDE DEF L
  <2>3. SumOf(s.size, L) = s.size[b] + SumOf(s.size, L \ {b})
    BY <2>1, SumRemoved
  <2>4. SumOf(s.size, L \ {b}) \in Int
    BY <2>1, <2>2, SumRemoved
  <2>5. SumOf(t.size, L \ {b}) = SumOf(s.size, L \ {b})
    BY <2>2, SumSame
  <2>6. s.size[b] \in Int
    BY <2>1
  <2>7. QED
    BY <1>2, <2>1, <2>3, <2>4, <2>5, <2>6 DEF L
<1>8. new \in AreaType
  BY <1>2, <1>7, LaidList DEF AreaType, Entry
<1>9. t.areas \in [DOMAIN t.areas -> AreaType]
  BY <1>1, <1>3, <1>8 DEF WellLaid
<1>10. \A y : y \in DOMAIN t.size <=> \E x \in DOMAIN t.areas : y \in t.areas[x].list
  <2>1. \A y : y \in DOMAIN s.size <=> \E x \in DOMAIN s.areas : y \in s.areas[x].list
    BY DEF WellLaid
  <2>2. DOMAIN t.size = DOMAIN s.size \ {b}
    BY <1>1
  <2>3. \A x \in DOMAIN s.areas : t.areas[x].list = IF x = a THEN s.areas[a].list \ {b}
                                                    ELSE s.areas[x].list
    BY <1>2, <1>3
  <2>4. QED
    BY <1>3, <1>5, <2>1, <2>2, <2>3
<1>11. \A a1, a2 \in DOMAIN t.areas : a1 # a2 => t.areas[a1].list \cap t.areas[a2].list = {}
  <2>1. \A a1, a2 \in DOMAIN s.areas : a1 # a2 => s.areas[a1].list \cap s.areas[a2].list = {}
    BY DEF WellLaid
  <2>2. QED
    BY <1>2, <1>3, <2>1, ZenonT(30)
<1>12. \A x \in DOMAIN t.areas : t.areas[x].allocated = SumOf(t.size, t.areas[x].list)
  <2>1. ASSUME NEW x \in DOMAIN s.areas, x # a
        PROVE  t.areas[x].allocated = SumOf(t.size, t.areas[x].list)
    <3>1. t.areas[x] = s.areas[x] /\ SumOf(t.size, s.areas[x].list) = SumOf(s.size, s.areas[x].list)
      BY <1>3, <1>6, <2>1
    <3>2. s.areas[x].allocated = SumOf(s.size, s.areas[x].list)
      BY LaidList
    <3>3. QED
      BY <3>1, <3>2
  <2>2. t.areas[a].allocated = SumOf(t.size, t.areas[a].list)
    BY <1>3, <1>7
  <2>3. QED
    BY <1>3, <2>1, <2>2
<1>13. WellLaid(t)
  BY <1>1, <1>4, <1>9, <1>10, <1>11, <1>12 DEF WellLaid
<1>14. Parents(t) = Parents(s)
  BY <1>2, <1>3 DEF Parents
<1>15. Lists(t) = Unlisted(Lists(s), a, b)
  BY <1>2, <1>3 DEF Lists, Listed, Unlisted
<1>16. QED
  BY <1>1, <1>13, <1>14, <1>15 DEF t

(* area_relink and real_realloc take a chunk out of one list and put it,   *)
(* or the chunk it became, into one.                                       *)
LEMMA RelinkIs ==
  ASSUME NEW s, WellLaid(s), NEW op \in DOMAIN s.areas, NEW np \in DOMAIN s.areas,
         NEW b \in s.areas[op].list
  PROVE  Relink(s, op, np, b) = AllocIn(FreeIn(s, op, b), np, b, s.size[b])
<1> DEFINE t == FreeIn(s, op, b)
           out == [s.areas EXCEPT ![op] = Removed(@, b, s.size[b])]
           both == [out EXCEPT ![np] = Added(@, b, s.size[b])]
<1>1. t.areas = out /\ t.size = [x \in DOMAIN s.size \ {b} |-> s.size[x]]
  BY DEF FreeIn, Restrict
<1>2. b \in DOMAIN s.size /\ s.size = [x \in DOMAIN s.size |-> s.size[x]]
  BY LaidList DEF WellLaid
<1>3. s.size = [x \in DOMAIN t.size \cup {b} |-> IF x = b THEN s.size[b] ELSE t.size[x]]
  BY <1>1, <1>2
<1>4. AllocIn(t, np, b, s.size[b]) = [areas |-> both, size |-> s.size]
  <2> HIDE DEF t, out
  <2>1. QED
    BY <1>1, <1>3 DEF AllocIn
<1>5. Relink(s, op, np, b) = [s EXCEPT !.areas = both]
  BY DEF Relink
<1>6. [s EXCEPT !.areas = both] = [areas |-> both, size |-> s.size]
  <2> HIDE DEF both
  <2>1. s = [areas |-> s.areas, size |-> s.size]
    BY DEF WellLaid
  <2>2. \A x, y : [[areas |-> x, size |-> y] EXCEPT !.areas = both] = [areas |-> both, size |-> y]
    OBVIOUS
  <2>3. QED
    BY <2>1, <2>2, Zenon
<1>7. QED
  <2> HIDE DEF t, both
  <2>1. QED
    BY <1>4, <1>5, <1>6 DEF t

LEMMA ReallocIs ==
  ASSUME NEW s, WellLaid(s), NEW a \in DOMAIN s.areas, NEW b, NEW c, NEW n
  PROVE  ReallocIn(s, a, b, c, n) = AllocIn(FreeIn(s, a, b), a, c, n)
<1> DEFINE t == FreeIn(s, a, b)
           freed == Restrict(s.size, DOMAIN s.size \ {b})
           r == Removed(s.areas[a], b, s.size[b])
<1>1. t.areas = [s.areas EXCEPT ![a] = r] /\ t.size = freed
  BY DEF FreeIn
<1>2. ReallocIn(s, a, b, c, n) =
        [areas |-> [s.areas EXCEPT ![a] = Added(r, c, n)],
         size |-> [x \in DOMAIN freed \cup {c} |-> IF x = c THEN n ELSE freed[x]]]
  BY DEF ReallocIn
<1>3. AllocIn(t, a, c, n) =
        [areas |-> [t.areas EXCEPT ![a] = Added(t.areas[a], c, n)],
         size |-> [x \in DOMAIN t.size \cup {c} |-> IF x = c THEN n ELSE t.size[x]]]
  BY DEF AllocIn
<1> HIDE DEF t, freed, r
<1>4. t.areas[a] = r
  BY <1>1 DEF WellLaid
<1> DEFINE new == Added(r, c, n)
<1> HIDE DEF new
<1>5. [t.areas EXCEPT ![a] = new] = [s.areas EXCEPT ![a] = new]
  BY <1>1 DEF WellLaid
<1>6. QED
  BY <1>1, <1>2, <1>3, <1>4, <1>5 DEF new, t

(* area_node *)
LEMMA NodeLaid ==
  ASSUME NEW s, WellLaid(s), NEW parent \in Nodes \cup {None}, NEW a, a \notin DOMAIN s.areas
  PROVE  /\ WellLaid(WithNode(s, parent, a))
         /\ WithNode(s, parent, a).size = s.size
         /\ Parents(WithNode(s, parent, a)) = With(Parents(s), a, parent)
         /\ Lists(WithNode(s, parent, a)) = With(Lists(s), a, {})
<1> DEFINE t == WithNode(s, parent, a)
           more == [x \in DOMAIN s.areas \cup {a} |->
                      IF x = a THEN NewNode(parent) ELSE s.areas[x]]
<1>1. t = [areas |-> more, size |-> s.size]
  <2>1. t = [s EXCEPT !.areas = more]
    BY DEF WithNode
  <2> HIDE DEF t, more
  <2>2. s = [areas |-> s.areas, size |-> s.size]
    BY DEF WellLaid
  <2>3. \A x, y : [[areas |-> x, size |-> y] EXCEPT !.areas = more] = [areas |-> more, size |-> y]
    OBVIOUS
  <2>4. QED
    BY <2>1, <2>2, <2>3, Zenon
<1> HIDE DEF t
<1>2. t.areas = more /\ t.size = s.size
  BY <1>1
<1>3. /\ DOMAIN t.areas = DOMAIN s.areas \cup {a}
      /\ t.areas[a] = NewNode(parent)
      /\ \A x \in DOMAIN s.areas : t.areas[x] = s.areas[x]
  BY <1>2
<1>4. /\ NewNode(parent) \in AreaType
      /\ NewNode(parent).parent = parent
      /\ NewNode(parent).list = {}
      /\ NewNode(parent).allocated = 0
  BY DEF NewNode, AreaType
<1>5. t.areas \in [DOMAIN t.areas -> AreaType]
  <2>1. \A x \in DOMAIN s.areas \cup {a} : more[x] \in AreaType
    BY <1>4, LaidArea
  <2>2. QED
    BY <1>2, <2>1
<1>6. \A y : y \in DOMAIN t.size <=> \E x \in DOMAIN t.areas : y \in t.areas[x].list
  <2>1. \A y : y \in DOMAIN s.size <=> \E x \in DOMAIN s.areas : y \in s.areas[x].list
    BY DEF WellLaid
  <2>2. QED
    BY <1>2, <1>3, <1>4, <2>1
<1>7. \A a1, a2 \in DOMAIN t.areas : a1 # a2 => t.areas[a1].list \cap t.areas[a2].list = {}
  <2>1. \A a1, a2 \in DOMAIN s.areas : a1 # a2 => s.areas[a1].list \cap s.areas[a2].list = {}
    BY DEF WellLaid
  <2>2. QED
    BY <1>3, <1>4, <2>1
<1>8. \A x \in DOMAIN t.areas : t.areas[x].allocated = SumOf(t.size, t.areas[x].list)
  <2>1. t.areas[a].allocated = SumOf(t.size, t.areas[a].list)
    BY <1>3, <1>4, SumOfNothing
  <2>2. ASSUME NEW x \in DOMAIN s.areas
        PROVE  t.areas[x].allocated = SumOf(t.size, t.areas[x].list)
    <3>1. s.areas[x].allocated = SumOf(s.size, s.areas[x].list)
      BY LaidList
    <3>2. QED
      BY <1>2, <1>3, <3>1
  <2>3. QED
    BY <1>3, <2>1, <2>2
<1>9. WellLaid(t)
  <2>1. t.size \in [DOMAIN t.size -> Nat \ {0}]
    BY <1>2 DEF WellLaid
  <2>2. t = [areas |-> t.areas, size |-> t.size]
    BY <1>1, <1>2
  <2>3. QED
    BY <1>5, <1>6, <1>7, <1>8, <2>1, <2>2 DEF WellLaid
<1>10. Parents(t) = With(Parents(s), a, parent)
  BY <1>3, <1>4 DEF Parents, With
<1>11. Lists(t) = With(Lists(s), a, {})
  BY <1>3, <1>4 DEF Lists, With
<1>12. QED
  BY <1>2, <1>9, <1>10, <1>11 DEF t

(* area_destroy, where the areas below are known. *)
LEMMA DestroyLaid ==
  ASSUME NEW s, WellLaid(s), NEW a, NEW gone, Below(s, a) = gone, gone \subseteq DOMAIN s.areas
  PROVE  /\ WellLaid(Destroyed(s, a))
         /\ Parents(Destroyed(s, a)) = Cropped(Parents(s), gone)
         /\ Lists(Destroyed(s, a)) = Cropped(Lists(s), gone)
         /\ \A b \in DOMAIN Destroyed(s, a).size :
              b \in DOMAIN s.size /\ Destroyed(s, a).size[b] = s.size[b]
<1> DEFINE t == Destroyed(s, a)
           freed == UNION {s.areas[x].list : x \in gone}
<1>1. t = [areas |-> [x \in DOMAIN s.areas \ gone |-> s.areas[x]],
           size |-> [x \in DOMAIN s.size \ freed |-> s.size[x]]]
  BY DEF Destroyed, Restrict
<1> HIDE DEF t
<1>2. /\ t = [areas |-> t.areas, size |-> t.size]
      /\ t.areas = [x \in DOMAIN s.areas \ gone |-> s.areas[x]]
      /\ t.size = [x \in DOMAIN s.size \ freed |-> s.size[x]]
  BY <1>1
<1>3. \A y : y \in freed <=> \E x \in gone : y \in s.areas[x].list
  OBVIOUS
<1> HIDE DEF freed
<1>4. t.size \in [DOMAIN t.size -> Nat \ {0}]
  BY <1>2 DEF WellLaid
<1>5. t.areas \in [DOMAIN t.areas -> AreaType]
  <2>1. \A x \in DOMAIN s.areas \ gone : s.areas[x] \in AreaType
    BY LaidArea
  <2>2. QED
    BY <1>2, <2>1
<1>6. \A a1, a2 \in DOMAIN s.areas : a1 # a2 => s.areas[a1].list \cap s.areas[a2].list = {}
  BY DEF WellLaid
<1>7. \A y : y \in DOMAIN t.size <=> \E x \in DOMAIN t.areas : y \in t.areas[x].list
  <2>1. \A y : y \in DOMAIN s.size <=> \E x \in DOMAIN s.areas : y \in s.areas[x].list
    BY DEF WellLaid
  <2>2. ASSUME NEW y, y \in DOMAIN t.size
        PROVE  \E x \in DOMAIN t.areas : y \in t.areas[x].list
    BY <1>2, <1>3, <2>1, <2>2
  <2>3. ASSUME NEW y, NEW x \in DOMAIN t.areas, y \in t.areas[x].list
        PROVE  y \in DOMAIN t.size
    <3>1. x \in DOMAIN s.areas /\ x \notin gone /\ y \in s.areas[x].list
      BY <1>2, <2>3
    <3>2. y \notin freed
      BY <1>3, <1>6, <3>1
    <3>3. QED
      BY <1>2, <2>1, <3>1, <3>2
  <2>4. QED
    BY <2>2, <2>3
<1>8. \A a1, a2 \in DOMAIN t.areas : a1 # a2 => t.areas[a1].list \cap t.areas[a2].list = {}
  BY <1>2, <1>6
<1>9. ASSUME NEW x \in DOMAIN t.areas
      PROVE  t.areas[x].allocated = SumOf(t.size, t.areas[x].list)
  <2>1. x \in DOMAIN s.areas /\ t.areas[x] = s.areas[x]
    BY <1>2
  <2>2. s.areas[x].allocated = SumOf(s.size, s.areas[x].list) /\ IsFiniteSet(s.areas[x].list)
    BY <2>1, LaidList
  <2>3. \A y \in s.areas[x].list : t.size[y] = s.size[y]
    <3>1. \A y \in s.areas[x].list : y \in DOMAIN t.size
      BY <1>7, <2>1
    <3>2. QED
      BY <1>2, <3>1
  <2>4. SumOf(t.size, s.areas[x].list) = SumOf(s.size, s.areas[x].list)
    BY <2>2, <2>3, SumSame
  <2>5. QED
    BY <2>1, <2>2, <2>4
<1>10. WellLaid(t)
  BY <1>2, <1>4, <1>5, <1>7, <1>8, <1>9 DEF WellLaid
<1>11. Parents(t) = Cropped(Parents(s), gone)
  BY <1>2 DEF Parents, Cropped
<1>12. Lists(t) = Cropped(Lists(s), gone)
  BY <1>2 DEF Lists, Cropped
<1>13. \A b \in DOMAIN t.size : b \in DOMAIN s.size /\ t.size[b] = s.size[b]
  BY <1>2
<1>14. QED
  BY <1>10, <1>11, <1>12, <1>13 DEF t

(* What area_destroy takes: an area, the areas below it and those below    *)
(* them, where no tree is deeper.                                          *)
LEMMA BelowIs ==
  ASSUME NEW s, NEW a, NEW near, NEW far,
         near = {x \in DOMAIN s.areas : s.areas[x].parent = a},
         far = {x \in DOMAIN s.areas : s.areas[x].parent \in near},
         \A x \in DOMAIN s.areas : s.areas[x].parent \notin far
  PROVE  Below(s, a) = {a} \cup near \cup far
<1> DEFINE K == Cardinality(Node)
           Up(below) == below \cup {x \in DOMAIN s.areas : s.areas[x].parent \in below}
           Climb(g) == g = [n \in 0..K |-> IF n = 0 THEN {a} ELSE Up(g[n - 1])]
           chosen == CHOOSE g : Climb(g)
           gone == {a} \cup near \cup far
           steps == [n \in 0..K |-> IF n = 0 THEN {a} ELSE IF n = 1 THEN {a} \cup near ELSE gone]
<1>1. K \in Nat /\ 2 <= K
  <2>1. K \in Nat
    BY FS_CardinalityType, MemoryAssumption
  <2>2. {"root", "conn"} \subseteq Node
    BY MemoryAssumption DEF Nodes
  <2>3. IsFiniteSet({"root", "conn"}) /\ Cardinality({"root", "conn"}) <= K
    BY <2>2, FS_Subset, MemoryAssumption
  <2>4. Cardinality({"root", "conn"}) = 2
    <3>1. IsFiniteSet({"root"}) /\ Cardinality({"root"}) = 1
      BY FS_Singleton
    <3>2. Cardinality({"root"} \cup {"conn"}) = Cardinality({"root"}) + 1
      BY <3>1, FS_AddElement
    <3>3. {"root"} \cup {"conn"} = {"root", "conn"}
      OBVIOUS
    <3>4. QED
      BY <3>1, <3>2, <3>3
  <2>5. QED
    BY <2>1, <2>3, <2>4
<1>2. /\ Up({a}) = {a} \cup near
      /\ Up({a} \cup near) = gone
      /\ Up(gone) = gone
  OBVIOUS
<1>3. Below(s, a) = chosen[K]
  BY DEF Below
<1> HIDE DEF K, Up, gone
<1>4. Climb(steps)
  <2>1. ASSUME NEW n \in 0..K
        PROVE  steps[n] = IF n = 0 THEN {a} ELSE Up(steps[n - 1])
    <3>1. CASE n = 0
      BY <3>1
    <3>2. CASE n = 1
      <4>1. steps[n] = {a} \cup near /\ n - 1 \in 0..K /\ steps[n - 1] = {a}
        BY <1>1, <3>2
      <4>2. QED
        BY <1>2, <3>2, <4>1
    <3>3. CASE n = 2
      <4>1. steps[n] = gone /\ n - 1 \in 0..K /\ steps[n - 1] = {a} \cup near
        BY <1>1, <3>3
      <4>2. QED
        BY <1>2, <3>3, <4>1
    <3>4. CASE 2 < n
      <4>1. steps[n] = gone /\ n - 1 \in 0..K /\ steps[n - 1] = gone /\ n # 0
        BY <1>1, <3>4
      <4>2. QED
        BY <1>2, <4>1
    <3>5. n = 0 \/ n = 1 \/ n = 2 \/ 2 < n
      BY <1>1
    <3>6. QED
      BY <3>1, <3>2, <3>3, <3>4, <3>5
  <2>2. steps = [n \in 0..K |-> steps[n]]
    OBVIOUS
  <2> HIDE DEF steps
  <2>3. QED
    BY <2>1, <2>2
<1>5. Climb(chosen)
  <2> HIDE DEF Climb, steps
  <2>1. QED
    BY <1>4
<1> HIDE DEF chosen
<1>6. \A n \in Nat : n \in 0..K => chosen[n] = steps[n]
  <2> DEFINE U == {n \in Nat : n \in 0..K => chosen[n] = steps[n]}
  <2>0. \A n \in 0..K : /\ chosen[n] = IF n = 0 THEN {a} ELSE Up(chosen[n - 1])
                        /\ steps[n] = IF n = 0 THEN {a} ELSE Up(steps[n - 1])
    <3>1. ASSUME NEW g, Climb(g), NEW n \in 0..K
          PROVE  g[n] = IF n = 0 THEN {a} ELSE Up(g[n - 1])
      BY <3>1
    <3> HIDE DEF Climb, steps
    <3>2. QED
      BY <1>4, <1>5, <3>1
  <2> HIDE DEF steps
  <2>1. 0 \in U
    BY <1>1, <2>0
  <2>2. ASSUME NEW n \in Nat, n \in U
        PROVE  n + 1 \in U
    <3>1. SUFFICES ASSUME n + 1 \in 0..K
                   PROVE  chosen[n + 1] = steps[n + 1]
      OBVIOUS
    <3>2. n \in 0..K /\ n + 1 # 0 /\ (n + 1) - 1 = n
      BY <1>1, <3>1
    <3>3. chosen[n] = steps[n]
      BY <2>2, <3>2
    <3>4. chosen[n + 1] = Up(chosen[n]) /\ steps[n + 1] = Up(steps[n])
      BY <2>0, <3>1, <3>2
    <3>5. QED
      BY <3>3, <3>4
  <2>3. Nat \subseteq U
    <3> HIDE DEF U
    <3>1. QED
      BY <2>1, <2>2, SetInduction
  <2>4. QED
    BY <2>3
<1>7. chosen[K] = steps[K] /\ steps[K] = gone
  BY <1>1, <1>6
<1>8. QED
  BY <1>3, <1>7 DEF gone

-----------------------------------------------------------------------------
(* The same calls, by what they make of the tree of areas and of the lists *)
(* of their chunks.                                                        *)

Drawn(s, parents, lists) ==
  WellLaid(s) /\ Parents(s) = parents /\ Lists(s) = lists

Nowhere(lists, b) == \A x \in DOMAIN lists : b \notin lists[x]

LEMMA DrawnIs ==
  ASSUME NEW s, NEW P, NEW L, Drawn(s, P, L)
  PROVE  /\ WellLaid(s)
         /\ DOMAIN P = DOMAIN s.areas /\ DOMAIN L = DOMAIN s.areas
         /\ \A x \in DOMAIN s.areas : s.areas[x].parent = P[x] /\ s.areas[x].list = L[x]
         /\ P = [x \in DOMAIN P |-> P[x]] /\ L = [x \in DOMAIN L |-> L[x]]
         /\ \A b : b \in DOMAIN s.size <=> ~Nowhere(L, b)
<1>1. /\ DOMAIN Parents(s) = DOMAIN s.areas /\ DOMAIN Lists(s) = DOMAIN s.areas
      /\ \A x \in DOMAIN s.areas : s.areas[x].parent = Parents(s)[x] /\ s.areas[x].list = Lists(s)[x]
      /\ Parents(s) = [x \in DOMAIN Parents(s) |-> Parents(s)[x]]
      /\ Lists(s) = [x \in DOMAIN Lists(s) |-> Lists(s)[x]]
  BY DEF Parents, Lists
<1>2. \A b : b \in DOMAIN s.size <=> \E a \in DOMAIN s.areas : b \in s.areas[a].list
  BY DEF Drawn, WellLaid
<1>3. \A b : b \in DOMAIN s.size <=> ~Nowhere(Lists(s), b)
  BY <1>1, <1>2 DEF Nowhere
<1>4. QED
  BY <1>1, <1>3 DEF Drawn

LEMMA DrawnAlloc ==
  ASSUME NEW s, NEW P, NEW L, Drawn(s, P, L), NEW a \in DOMAIN L,
         NEW b \in Block, Nowhere(L, b), NEW n \in Nat \ {0}
  PROVE  Drawn(AllocIn(s, a, b, n), P, Listed(L, a, b))
<1>1. WellLaid(s) /\ a \in DOMAIN s.areas /\ b \notin DOMAIN s.size
  BY DrawnIs
<1>2. /\ WellLaid(AllocIn(s, a, b, n))
      /\ Parents(AllocIn(s, a, b, n)) = Parents(s)
      /\ Lists(AllocIn(s, a, b, n)) = Listed(Lists(s), a, b)
  BY <1>1, AllocLaid, ZenonT(30)
<1>3. QED
  BY <1>2 DEF Drawn

LEMMA DrawnFree ==
  ASSUME NEW s, NEW P, NEW L, Drawn(s, P, L), NEW a \in DOMAIN L, NEW b \in L[a]
  PROVE  Drawn(FreeIn(s, a, b), P, Unlisted(L, a, b))
<1>1. WellLaid(s) /\ a \in DOMAIN s.areas /\ b \in s.areas[a].list
  BY DrawnIs
<1>2. QED
  BY <1>1, FreeLaid DEF Drawn

LEMMA DrawnSize ==
  ASSUME NEW s, NEW P, NEW L, Drawn(s, P, L), NEW a \in DOMAIN L, NEW b \in L[a]
  PROVE  s.size[b] \in Nat \ {0} /\ b \in Block
<1>1. WellLaid(s) /\ a \in DOMAIN s.areas /\ b \in s.areas[a].list
  BY DrawnIs
<1>2. (\A y \in s.areas[a].list : s.size[y] \in Nat \ {0}) /\ s.areas[a].list \subseteq Block
  BY <1>1, LaidList
<1>3. QED
  BY <1>1, <1>2

LEMMA DrawnNode ==
  ASSUME NEW s, NEW P, NEW L, Drawn(s, P, L), NEW parent \in Nodes \cup {None},
         NEW a, a \notin DOMAIN L
  PROVE  Drawn(WithNode(s, parent, a), With(P, a, parent), With(L, a, {}))
<1>1. WellLaid(s) /\ a \notin DOMAIN s.areas
  BY DrawnIs
<1>2. QED
  BY <1>1, NodeLaid DEF Drawn

LEMMA DrawnDestroyed ==
  ASSUME NEW s, NEW P, NEW L, Drawn(s, P, L), NEW a \in DOMAIN L, NEW near, NEW far,
         near = {x \in DOMAIN L : P[x] = a},
         far = {x \in DOMAIN L : P[x] \in near},
         \A x \in DOMAIN L : P[x] \notin far
  PROVE  Drawn(Destroyed(s, a), Cropped(P, {a} \cup near \cup far),
                                Cropped(L, {a} \cup near \cup far))
<1> DEFINE gone == {a} \cup near \cup far
<1>1. WellLaid(s) /\ DOMAIN s.areas = DOMAIN L
  BY DrawnIs
<1>2. \A x \in DOMAIN L : s.areas[x].parent = P[x] /\ s.areas[x].list = L[x]
  BY DrawnIs
<1>3. Below(s, a) = gone
  <2>1. /\ near = {x \in DOMAIN s.areas : s.areas[x].parent = a}
        /\ far = {x \in DOMAIN s.areas : s.areas[x].parent \in near}
        /\ \A x \in DOMAIN s.areas : s.areas[x].parent \notin far
    BY <1>1, <1>2
  <2>2. QED
    BY <2>1, BelowIs
<1>4. gone \subseteq DOMAIN s.areas
  BY <1>1
<1> HIDE DEF gone
<1>5. /\ WellLaid(Destroyed(s, a))
      /\ Parents(Destroyed(s, a)) = Cropped(Parents(s), gone)
      /\ Lists(Destroyed(s, a)) = Cropped(Lists(s), gone)
  BY <1>1, <1>3, <1>4, DestroyLaid
<1>6. QED
  BY <1>5 DEF Drawn, gone

(* The chunks of a set are freed, or allocated, one after the other.       *)
AllFreed(s, T) == FoldSet(LAMBDA a, t : FreeIn(t, "nicks", a), s, T)

AllAllocated(s, T) == FoldSet(LAMBDA a, t : AllocIn(t, "nicks", a, AreaBytes), s, T)

Freeing == [op |-> "free", of |-> << >>]

Allocating == [op |-> "alloc", of |-> << >>]

LEMMA FreedIsFolding ==
  ASSUME NEW s, NEW S, IsFiniteSet(S), NEW it, SetFolding(Freeing, S, s, it)
  PROVE  AllFreed(s, S) = it[S]
<1> DEFINE Adding(g) == g = [T \in SUBSET S |->
             IF T = {} THEN s
             ELSE FreeIn(g[T \ {CHOOSE x \in T : TRUE}], "nicks", CHOOSE x \in T : TRUE)]
           chosen == CHOOSE g : Adding(g)
<1>1. \A g : Adding(g) <=> SetFolding(Freeing, S, s, g)
  BY DEF SetFolding, Step, Freeing, AnyOf
<1>2. Adding(chosen)
  <2>1. Adding(it)
    BY <1>1
  <2> HIDE DEF Adding
  <2>2. QED
    BY <2>1
<1>3. AllFreed(s, S) = chosen[S]
  BY DEF AllFreed, FoldSet, MapThenFoldSet
<1>4. \A T \in SUBSET S : chosen[T] = it[T]
  <2> HIDE DEF chosen, Adding
  <2>1. SetFolding(Freeing, S, s, chosen)
    BY <1>1, <1>2
  <2>2. S \subseteq S
    OBVIOUS
  <2>3. QED
    BY <2>1, <2>2, SetFoldingUnique
<1>5. QED
  BY <1>3, <1>4

LEMMA AllocatedIsFolding ==
  ASSUME NEW s, NEW S, IsFiniteSet(S), NEW it, SetFolding(Allocating, S, s, it)
  PROVE  AllAllocated(s, S) = it[S]
<1> DEFINE Adding(g) == g = [T \in SUBSET S |->
             IF T = {} THEN s
             ELSE AllocIn(g[T \ {CHOOSE x \in T : TRUE}], "nicks", CHOOSE x \in T : TRUE, AreaBytes)]
           chosen == CHOOSE g : Adding(g)
<1>1. \A g : Adding(g) <=> SetFolding(Allocating, S, s, g)
  BY DEF SetFolding, Step, Allocating, AnyOf
<1>2. Adding(chosen)
  <2>1. Adding(it)
    BY <1>1
  <2> HIDE DEF Adding
  <2>2. QED
    BY <2>1
<1>3. AllAllocated(s, S) = chosen[S]
  BY DEF AllAllocated, FoldSet, MapThenFoldSet
<1>4. \A T \in SUBSET S : chosen[T] = it[T]
  <2> HIDE DEF chosen, Adding
  <2>1. SetFolding(Allocating, S, s, chosen)
    BY <1>1, <1>2
  <2>2. S \subseteq S
    OBVIOUS
  <2>3. QED
    BY <2>1, <2>2, SetFoldingUnique
<1>5. QED
  BY <1>3, <1>4

LEMMA DrawnFreed ==
  ASSUME NEW s, NEW P, NEW L, Drawn(s, P, L), "nicks" \in DOMAIN L,
         NEW S, S \subseteq L["nicks"]
  PROVE  Drawn(AllFreed(s, S), P, [L EXCEPT !["nicks"] = @ \ S])
<1>1. IsFiniteSet(S)
  <2>1. WellLaid(s) /\ "nicks" \in DOMAIN s.areas /\ s.areas["nicks"].list = L["nicks"]
    BY DrawnIs
  <2>2. IsFiniteSet(L["nicks"])
    BY <2>1, LaidList
  <2>3. QED
    BY <2>2, FS_Subset
<1>2. PICK it : SetFolding(Freeing, S, s, it)
  BY <1>1, SetFoldingExists
<1> DEFINE F == {T \in SUBSET S : Drawn(it[T], P, [L EXCEPT !["nicks"] = @ \ T])}
<1>3. ASSUME NEW T \in SUBSET S, \A x \in T : T \ {x} \in F
      PROVE  T \in F
  <2>1. CASE T = {}
    <3>1. it[{}] = s
      BY <1>2, SetFoldingBase
    <3>2. [L EXCEPT !["nicks"] = @ \ {}] = L
      BY DrawnIs
    <3>3. Drawn(it[{}], P, [L EXCEPT !["nicks"] = @ \ {}])
      BY <3>1, <3>2
    <3>4. QED
      BY <2>1, <3>3
  <2>2. CASE T # {}
    <3> DEFINE b == AnyOf(T)
               M == [L EXCEPT !["nicks"] = @ \ (T \ {b})]
    <3>1. b \in T /\ it[T] = Step(Freeing, b, it[T \ {b}])
      BY <1>2, <2>2, SetFoldingStep
    <3>2. it[T] = FreeIn(it[T \ {b}], "nicks", b)
      BY <3>1 DEF Step, Freeing
    <3>3. Drawn(it[T \ {b}], P, M)
      BY <1>3, <3>1
    <3> HIDE DEF b
    <3>4. "nicks" \in DOMAIN M /\ b \in M["nicks"]
      BY <3>1
    <3>5. Unlisted(M, "nicks", b) = [L EXCEPT !["nicks"] = @ \ T]
      BY <3>1 DEF Unlisted
    <3> HIDE DEF M
    <3>6. Drawn(it[T], P, Unlisted(M, "nicks", b))
      BY <3>2, <3>3, <3>4, DrawnFree
    <3>7. QED
      BY <3>5, <3>6
  <2>3. QED
    BY <2>1, <2>2
<1>4. \A T \in SUBSET S : T \in F
  <2> HIDE DEF F
  <2>1. QED
    BY <1>1, <1>3, SubsetInduction
<1>5. Drawn(it[S], P, [L EXCEPT !["nicks"] = @ \ S])
  BY <1>4
<1>6. QED
  BY <1>1, <1>2, <1>5, FreedIsFolding

LEMMA AreaBytesIs == AreaBytes \in Nat \ {0}
BY AreaChunkAssumption DEF AreaBytes, AtomBytes

LEMMA DrawnAllocated ==
  ASSUME NEW s, NEW P, NEW L, Drawn(s, P, L), "nicks" \in DOMAIN L,
         NEW S, S \subseteq Block, \A b \in S : Nowhere(L, b)
  PROVE  Drawn(AllAllocated(s, S), P, [L EXCEPT !["nicks"] = @ \cup S])
<1>1. IsFiniteSet(S)
  BY FS_Subset, MemoryAssumption
<1>2. PICK it : SetFolding(Allocating, S, s, it)
  BY <1>1, SetFoldingExists
<1> DEFINE F == {T \in SUBSET S : Drawn(it[T], P, [L EXCEPT !["nicks"] = @ \cup T])}
<1>3. ASSUME NEW T \in SUBSET S, \A x \in T : T \ {x} \in F
      PROVE  T \in F
  <2>1. CASE T = {}
    <3>1. it[{}] = s
      BY <1>2, SetFoldingBase
    <3>2. [L EXCEPT !["nicks"] = @ \cup {}] = L
      BY DrawnIs
    <3>3. Drawn(it[{}], P, [L EXCEPT !["nicks"] = @ \cup {}])
      BY <3>1, <3>2
    <3>4. QED
      BY <2>1, <3>3
  <2>2. CASE T # {}
    <3> DEFINE b == AnyOf(T)
               M == [L EXCEPT !["nicks"] = @ \cup (T \ {b})]
    <3>1. b \in T /\ it[T] = Step(Allocating, b, it[T \ {b}])
      BY <1>2, <2>2, SetFoldingStep
    <3>2. it[T] = AllocIn(it[T \ {b}], "nicks", b, AreaBytes)
      BY <3>1 DEF Step, Allocating
    <3>3. Drawn(it[T \ {b}], P, M)
      BY <1>3, <3>1
    <3> HIDE DEF b
    <3>4. "nicks" \in DOMAIN M /\ b \in Block /\ Nowhere(M, b)
      BY <3>1 DEF Nowhere
    <3>5. Listed(M, "nicks", b) = [L EXCEPT !["nicks"] = @ \cup T]
      BY <3>1 DEF Listed
    <3> HIDE DEF M
    <3>6. Drawn(it[T], P, Listed(M, "nicks", b))
      BY <3>2, <3>3, <3>4, AreaBytesIs, DrawnAlloc
    <3>7. QED
      BY <3>5, <3>6
  <2>3. QED
    BY <2>1, <2>2
<1>4. \A T \in SUBSET S : T \in F
  <2> HIDE DEF F
  <2>1. QED
    BY <1>1, <1>3, SubsetInduction
<1>5. Drawn(it[S], P, [L EXCEPT !["nicks"] = @ \cup S])
  BY <1>4
<1>6. QED
  BY <1>1, <1>2, <1>5, AllocatedIsFolding

-----------------------------------------------------------------------------
(* The areas of a program without a connection, of one with a connection   *)
(* and of one in the middle of an event, and what each of them lists: the  *)
(* chunks kept for requests, the areas of atoms, what belongs to the event.*)
ParentOf(x) == IF x = "root" THEN None ELSE IF x = "conn" THEN "root" ELSE "conn"

AreasIn(ph) ==
  IF ph = "exited" THEN {}
  ELSE IF ph = "closed" THEN {"root"}
  ELSE IF ph = "idle" THEN {"root", "conn", "nicks"}
  ELSE {"root", "conn", "nicks", "event"}

ListIn(x, kept, atoms, given) ==
  IF x = "root" THEN {}
  ELSE IF x = "conn" THEN {"c"} \cup kept
  ELSE IF x = "nicks" THEN {"table"} \cup atoms
  ELSE given

ParentsIn(ph) == [x \in AreasIn(ph) |-> ParentOf(x)]

ListsIn(ph, kept, atoms, given) == [x \in AreasIn(ph) |-> ListIn(x, kept, atoms, given)]

Layout(s, ph, kept, atoms, given) ==
  /\ kept \subseteq Piece /\ atoms \subseteq Area /\ given \subseteq Piece
  /\ Drawn(s, ParentsIn(ph), ListsIn(ph, kept, atoms, given))

LEMMA LayoutIs ==
  ASSUME NEW ph, NEW kept, NEW atoms, NEW given
  PROVE  /\ DOMAIN ListsIn(ph, kept, atoms, given) = AreasIn(ph)
         /\ DOMAIN ParentsIn(ph) = AreasIn(ph)
         /\ \A x \in AreasIn(ph) : /\ ListsIn(ph, kept, atoms, given)[x] = ListIn(x, kept, atoms, given)
                                   /\ ParentsIn(ph)[x] = ParentOf(x)
  BY DEF ListsIn, ParentsIn

(* Areas are the same areas when they list the same. *)
LEMMA SameLists ==
  ASSUME NEW M, NEW ph, NEW kept, NEW atoms, NEW given,
         M = [x \in DOMAIN M |-> M[x]], DOMAIN M = AreasIn(ph),
         \A x \in AreasIn(ph) : M[x] = ListIn(x, kept, atoms, given)
  PROVE  M = ListsIn(ph, kept, atoms, given)
<1>1. \A x \in AreasIn(ph) : M[x] = ListsIn(ph, kept, atoms, given)[x]
  BY LayoutIs
<1>2. ListsIn(ph, kept, atoms, given) =
        [x \in DOMAIN ListsIn(ph, kept, atoms, given) |-> ListsIn(ph, kept, atoms, given)[x]]
  BY DEF ListsIn
<1>3. DOMAIN M = DOMAIN ListsIn(ph, kept, atoms, given)
  BY LayoutIs
<1>4. QED
  BY <1>1, <1>2, <1>3

LEMMA SameParents ==
  ASSUME NEW M, NEW ph,
         M = [x \in DOMAIN M |-> M[x]], DOMAIN M = AreasIn(ph),
         \A x \in AreasIn(ph) : M[x] = ParentOf(x)
  PROVE  M = ParentsIn(ph)
<1>1. \A x \in AreasIn(ph) : M[x] = ParentsIn(ph)[x]
  BY DEF ParentsIn
<1>2. ParentsIn(ph) = [x \in DOMAIN ParentsIn(ph) |-> ParentsIn(ph)[x]]
  BY DEF ParentsIn
<1>3. DOMAIN M = DOMAIN ParentsIn(ph)
  BY DEF ParentsIn
<1>4. QED
  BY <1>1, <1>2, <1>3

LEMMA NoneIsNoNode ==
  /\ None # "root" /\ None # "conn" /\ None # "nicks" /\ None # "event" /\ None # "pack"
BY MemoryAssumption, AreasAssumption DEF Nodes

(* Where an address is free. *)
LEMMA FreshIs ==
  ASSUME NEW s, NEW kept, NEW atoms, NEW given, Layout(s, "event", kept, atoms, given),
         NEW b \in Piece
  PROVE  /\ b \in Block
         /\ b \in DOMAIN s.size <=> b \in kept \/ b \in given
         /\ Nowhere(ListsIn("event", kept, atoms, given), b) <=> b \notin kept /\ b \notin given
<1>1. b \in Block /\ b \notin Area /\ b # "c" /\ b # "table"
  BY MemoryAssumption
<1>2. atoms \subseteq Area /\ Drawn(s, ParentsIn("event"), ListsIn("event", kept, atoms, given))
  BY DEF Layout
<1>3. Nowhere(ListsIn("event", kept, atoms, given), b) <=>
        \A x \in AreasIn("event") : b \notin ListIn(x, kept, atoms, given)
  BY LayoutIs DEF Nowhere
<1>4. (\A x \in AreasIn("event") : b \notin ListIn(x, kept, atoms, given)) <=>
        b \notin kept /\ b \notin given
  BY <1>1, <1>2 DEF AreasIn, ListIn
<1>5. b \in DOMAIN s.size <=> ~Nowhere(ListsIn("event", kept, atoms, given), b)
  BY <1>2, DrawnIs
<1>6. QED
  BY <1>1, <1>3, <1>4, <1>5

LEMMA KeepLaid ==
  ASSUME NEW s, NEW kept, NEW atoms, NEW given, Layout(s, "event", kept, atoms, given),
         NEW b \in Piece, b \notin kept, b \notin given, NEW n \in Nat \ {0}
  PROVE  Layout(AllocIn(s, "conn", b, n), "event", kept \cup {b}, atoms, given)
<1> DEFINE L == ListsIn("event", kept, atoms, given)
<1>1. DOMAIN L = AreasIn("event") /\ \A x \in AreasIn("event") : L[x] = ListIn(x, kept, atoms, given)
  BY LayoutIs
<1>2. b \in Block /\ Nowhere(L, b)
  BY FreshIs
<1> HIDE DEF L
<1>3. "conn" \in DOMAIN L
  BY <1>1 DEF AreasIn
<1>4. Drawn(AllocIn(s, "conn", b, n), ParentsIn("event"), Listed(L, "conn", b))
  BY <1>2, <1>3, DrawnAlloc DEF Layout, L
<1>5. Listed(L, "conn", b) = ListsIn("event", kept \cup {b}, atoms, given)
  <2> DEFINE M == Listed(L, "conn", b)
  <2>1. M = [x \in DOMAIN M |-> M[x]] /\ DOMAIN M = AreasIn("event")
    BY <1>1 DEF Listed
  <2>2. \A x \in AreasIn("event") : M[x] = ListIn(x, kept \cup {b}, atoms, given)
    BY <1>1 DEF Listed, ListIn, AreasIn
  <2> HIDE DEF M
  <2>3. M = ListsIn("event", kept \cup {b}, atoms, given)
    BY <2>1, <2>2, SameLists
  <2>4. QED
    BY <2>3 DEF M
<1>6. QED
  BY <1>4, <1>5 DEF Layout

LEMMA UnkeepLaid ==
  ASSUME NEW s, NEW kept, NEW atoms, NEW given, Layout(s, "event", kept, atoms, given),
         NEW b \in kept
  PROVE  Layout(FreeIn(s, "conn", b), "event", kept \ {b}, atoms, given)
<1> DEFINE L == ListsIn("event", kept, atoms, given)
<1>1. DOMAIN L = AreasIn("event") /\ \A x \in AreasIn("event") : L[x] = ListIn(x, kept, atoms, given)
  BY LayoutIs
<1>2. b \in Piece /\ b # "c"
  BY MemoryAssumption DEF Layout
<1> HIDE DEF L
<1>3. "conn" \in DOMAIN L /\ b \in L["conn"]
  BY <1>1 DEF AreasIn, ListIn
<1>4. Drawn(FreeIn(s, "conn", b), ParentsIn("event"), Unlisted(L, "conn", b))
  BY <1>3, DrawnFree DEF Layout, L
<1>5. Unlisted(L, "conn", b) = ListsIn("event", kept \ {b}, atoms, given)
  <2> DEFINE M == Unlisted(L, "conn", b)
  <2>1. M = [x \in DOMAIN M |-> M[x]] /\ DOMAIN M = AreasIn("event")
    BY <1>1 DEF Unlisted
  <2>2. \A x \in AreasIn("event") : M[x] = ListIn(x, kept \ {b}, atoms, given)
    BY <1>1, <1>2 DEF Unlisted, ListIn, AreasIn
  <2> HIDE DEF M
  <2>3. M = ListsIn("event", kept \ {b}, atoms, given)
    BY <2>1, <2>2, SameLists
  <2>4. QED
    BY <2>3 DEF M
<1>6. QED
  BY <1>4, <1>5 DEF Layout

LEMMA GiveLaid ==
  ASSUME NEW s, NEW kept, NEW atoms, NEW given, Layout(s, "event", kept, atoms, given),
         NEW b \in Piece, b \notin kept, b \notin given, NEW n \in Nat \ {0}
  PROVE  Layout(AllocIn(s, "event", b, n), "event", kept, atoms, given \cup {b})
<1> DEFINE L == ListsIn("event", kept, atoms, given)
<1>1. DOMAIN L = AreasIn("event") /\ \A x \in AreasIn("event") : L[x] = ListIn(x, kept, atoms, given)
  BY LayoutIs
<1>2. b \in Block /\ Nowhere(L, b)
  BY FreshIs
<1> HIDE DEF L
<1>3. "event" \in DOMAIN L
  BY <1>1 DEF AreasIn
<1>4. Drawn(AllocIn(s, "event", b, n), ParentsIn("event"), Listed(L, "event", b))
  BY <1>2, <1>3, DrawnAlloc DEF Layout, L
<1>5. Listed(L, "event", b) = ListsIn("event", kept, atoms, given \cup {b})
  <2> DEFINE M == Listed(L, "event", b)
  <2>1. M = [x \in DOMAIN M |-> M[x]] /\ DOMAIN M = AreasIn("event")
    BY <1>1 DEF Listed
  <2>2. \A x \in AreasIn("event") : M[x] = ListIn(x, kept, atoms, given \cup {b})
    BY <1>1 DEF Listed, ListIn, AreasIn
  <2> HIDE DEF M
  <2>3. M = ListsIn("event", kept, atoms, given \cup {b})
    BY <2>1, <2>2, SameLists
  <2>4. QED
    BY <2>3 DEF M
<1>6. QED
  BY <1>4, <1>5 DEF Layout

LEMMA UngiveLaid ==
  ASSUME NEW s, NEW kept, NEW atoms, NEW given, Layout(s, "event", kept, atoms, given),
         NEW b \in given
  PROVE  Layout(FreeIn(s, "event", b), "event", kept, atoms, given \ {b})
<1> DEFINE L == ListsIn("event", kept, atoms, given)
<1>1. DOMAIN L = AreasIn("event") /\ \A x \in AreasIn("event") : L[x] = ListIn(x, kept, atoms, given)
  BY LayoutIs
<1> HIDE DEF L
<1>3. "event" \in DOMAIN L /\ b \in L["event"]
  BY <1>1 DEF AreasIn, ListIn
<1>4. Drawn(FreeIn(s, "event", b), ParentsIn("event"), Unlisted(L, "event", b))
  BY <1>3, DrawnFree DEF Layout, L
<1>5. Unlisted(L, "event", b) = ListsIn("event", kept, atoms, given \ {b})
  <2> DEFINE M == Unlisted(L, "event", b)
  <2>1. M = [x \in DOMAIN M |-> M[x]] /\ DOMAIN M = AreasIn("event")
    BY <1>1 DEF Unlisted
  <2>2. \A x \in AreasIn("event") : M[x] = ListIn(x, kept, atoms, given \ {b})
    BY <1>1 DEF Unlisted, ListIn, AreasIn
  <2> HIDE DEF M
  <2>3. M = ListsIn("event", kept, atoms, given \ {b})
    BY <2>1, <2>2, SameLists
  <2>4. QED
    BY <2>3 DEF M
<1>6. QED
  BY <1>4, <1>5 DEF Layout

(* irC6_callback_start and irC6_callback_end *)
LEMMA StartLaid ==
  ASSUME NEW s, NEW kept, NEW atoms, NEW given, Layout(s, "idle", kept, atoms, given)
  PROVE  Layout(WithNode(s, "conn", "event"), "event", kept, atoms, {})
<1> DEFINE L == ListsIn("idle", kept, atoms, given)
           P == ParentsIn("idle")
           M == With(L, "event", {})
           Q == With(P, "event", "conn")
<1>1. /\ DOMAIN L = AreasIn("idle") /\ DOMAIN P = AreasIn("idle")
      /\ \A x \in AreasIn("idle") : L[x] = ListIn(x, kept, atoms, given) /\ P[x] = ParentOf(x)
  BY LayoutIs
<1> HIDE DEF L, P
<1>2. "event" \notin DOMAIN L /\ "conn" \in Nodes \cup {None}
  BY <1>1 DEF AreasIn, Nodes
<1>3. Drawn(WithNode(s, "conn", "event"), Q, M)
  <2>1. Drawn(s, P, L)
    BY DEF Layout, L, P
  <2>2. QED
    BY <1>2, <2>1, DrawnNode
<1>4. AreasIn("event") = AreasIn("idle") \cup {"event"}
  BY DEF AreasIn
<1>5. M = [x \in DOMAIN M |-> M[x]] /\ DOMAIN M = AreasIn("event")
      /\ Q = [x \in DOMAIN Q |-> Q[x]] /\ DOMAIN Q = AreasIn("event")
  BY <1>1, <1>4 DEF With
<1>6. \A x \in AreasIn("event") : M[x] = ListIn(x, kept, atoms, {}) /\ Q[x] = ParentOf(x)
  BY <1>1, <1>4 DEF With, ListIn, ParentOf, AreasIn
<1> HIDE DEF M, Q
<1>7. M = ListsIn("event", kept, atoms, {}) /\ Q = ParentsIn("event")
  BY <1>5, <1>6, SameLists, SameParents
<1>8. QED
  BY <1>3, <1>7 DEF Layout

LEMMA EndLaid ==
  ASSUME NEW s, NEW kept, NEW atoms, NEW given, Layout(s, "event", kept, atoms, given)
  PROVE  Layout(Destroyed(s, "event"), "idle", kept, atoms, {})
<1> DEFINE L == ListsIn("event", kept, atoms, given)
           P == ParentsIn("event")
           gone == {"event"} \cup {} \cup {}
           M == Cropped(L, gone)
           Q == Cropped(P, gone)
<1>1. /\ DOMAIN L = AreasIn("event") /\ DOMAIN P = AreasIn("event")
      /\ \A x \in AreasIn("event") : L[x] = ListIn(x, kept, atoms, given) /\ P[x] = ParentOf(x)
  BY LayoutIs
<1> HIDE DEF L, P
<1>2. /\ "event" \in DOMAIN L
      /\ {} = {x \in DOMAIN L : P[x] = "event"}
      /\ {} = {x \in DOMAIN L : P[x] \in {}}
      /\ \A x \in DOMAIN L : P[x] \notin {}
  BY <1>1, NoneIsNoNode DEF AreasIn, ParentOf
<1>3. Drawn(Destroyed(s, "event"), Q, M)
  <2>1. Drawn(s, P, L)
    BY DEF Layout, L, P
  <2>2. QED
    BY <1>2, <2>1, DrawnDestroyed
<1>4. AreasIn("idle") = AreasIn("event") \ gone
  BY DEF AreasIn
<1>5. M = [x \in DOMAIN M |-> M[x]] /\ DOMAIN M = AreasIn("idle")
      /\ Q = [x \in DOMAIN Q |-> Q[x]] /\ DOMAIN Q = AreasIn("idle")
  BY <1>1, <1>4 DEF Cropped
<1>6. \A x \in AreasIn("idle") : M[x] = ListIn(x, kept, atoms, {}) /\ Q[x] = ParentOf(x)
  BY <1>1, <1>4 DEF Cropped, ListIn, ParentOf, AreasIn
<1> HIDE DEF M, Q
<1>7. M = ListsIn("idle", kept, atoms, {}) /\ Q = ParentsIn("idle")
  BY <1>5, <1>6, SameLists, SameParents
<1>8. QED
  BY <1>3, <1>7 DEF Layout

(* irC6_close_connection *)
LEMMA CloseLaid ==
  ASSUME NEW s, NEW kept, NEW atoms, NEW given, Layout(s, "event", kept, atoms, given)
  PROVE  Layout(Destroyed(s, "conn"), "closed", {}, {}, {})
<1> DEFINE L == ListsIn("event", kept, atoms, given)
           P == ParentsIn("event")
           near == {"nicks", "event"}
           gone == {"conn"} \cup near \cup {}
           M == Cropped(L, gone)
           Q == Cropped(P, gone)
<1>1. /\ DOMAIN L = AreasIn("event") /\ DOMAIN P = AreasIn("event")
      /\ \A x \in AreasIn("event") : L[x] = ListIn(x, kept, atoms, given) /\ P[x] = ParentOf(x)
  BY LayoutIs
<1> HIDE DEF L, P
<1>2. /\ "conn" \in DOMAIN L
      /\ near = {x \in DOMAIN L : P[x] = "conn"}
      /\ {} = {x \in DOMAIN L : P[x] \in near}
      /\ \A x \in DOMAIN L : P[x] \notin {}
  BY <1>1, NoneIsNoNode DEF AreasIn, ParentOf
<1> HIDE DEF near
<1>3. Drawn(Destroyed(s, "conn"), Q, M)
  <2>1. Drawn(s, P, L)
    BY DEF Layout, L, P
  <2>2. QED
    BY <1>2, <2>1, DrawnDestroyed
<1>4. AreasIn("closed") = AreasIn("event") \ gone
  BY DEF AreasIn, near
<1>5. M = [x \in DOMAIN M |-> M[x]] /\ DOMAIN M = AreasIn("closed")
      /\ Q = [x \in DOMAIN Q |-> Q[x]] /\ DOMAIN Q = AreasIn("closed")
  BY <1>1, <1>4 DEF Cropped
<1>6. \A x \in AreasIn("closed") : M[x] = ListIn(x, {}, {}, {}) /\ Q[x] = ParentOf(x)
  BY <1>1, <1>4 DEF Cropped, ListIn, ParentOf, AreasIn
<1> HIDE DEF M, Q
<1>7. M = ListsIn("closed", {}, {}, {}) /\ Q = ParentsIn("closed")
  BY <1>5, <1>6, SameLists, SameParents
<1>8. QED
  BY <1>3, <1>7 DEF Layout

(* exit_program *)
LEMMA ExitLaid ==
  ASSUME NEW s, NEW ph \in {"idle", "event", "closed"}, NEW kept, NEW atoms, NEW given,
         Layout(s, ph, kept, atoms, given)
  PROVE  Layout(Destroyed(s, "root"), "exited", {}, {}, {})
<1> DEFINE L == ListsIn(ph, kept, atoms, given)
           P == ParentsIn(ph)
           near == {x \in AreasIn(ph) : x = "conn"}
           far == {x \in AreasIn(ph) : x \in {"nicks", "event"}}
           gone == {"root"} \cup near \cup far
           M == Cropped(L, gone)
           Q == Cropped(P, gone)
<1>1. /\ DOMAIN L = AreasIn(ph) /\ DOMAIN P = AreasIn(ph)
      /\ \A x \in AreasIn(ph) : L[x] = ListIn(x, kept, atoms, given) /\ P[x] = ParentOf(x)
  BY LayoutIs
<1> HIDE DEF L, P
<1>2. /\ "root" \in DOMAIN L
      /\ near = {x \in DOMAIN L : P[x] = "root"}
      /\ far = {x \in DOMAIN L : P[x] \in near}
      /\ \A x \in DOMAIN L : P[x] \notin far
  BY <1>1, NoneIsNoNode DEF AreasIn, ParentOf
<1> HIDE DEF near, far
<1>3. Drawn(Destroyed(s, "root"), Q, M)
  <2>1. Drawn(s, P, L)
    BY DEF Layout, L, P
  <2>2. QED
    BY <1>2, <2>1, DrawnDestroyed
<1>4. AreasIn("exited") = AreasIn(ph) \ gone
  BY DEF AreasIn, near, far
<1>5. M = [x \in DOMAIN M |-> M[x]] /\ DOMAIN M = AreasIn("exited")
      /\ Q = [x \in DOMAIN Q |-> Q[x]] /\ DOMAIN Q = AreasIn("exited")
  BY <1>1, <1>4 DEF Cropped
<1>6. AreasIn("exited") = {}
  BY DEF AreasIn
<1> HIDE DEF M, Q
<1>7. M = ListsIn("exited", {}, {}, {}) /\ Q = ParentsIn("exited")
  BY <1>5, <1>6, SameLists, SameParents
<1>8. QED
  BY <1>3, <1>7 DEF Layout

(* The areas of atoms come and go. *)
LEMMA TableLaid ==
  ASSUME NEW s, NEW kept, NEW atoms, NEW given, Layout(s, "event", kept, atoms, given),
         NEW now \in SUBSET Area
  PROVE  Layout(AllAllocated(AllFreed(s, atoms \ now), now \ atoms), "event", kept, now, given)
<1> DEFINE L == ListsIn("event", kept, atoms, given)
           P == ParentsIn("event")
           left == [L EXCEPT !["nicks"] = @ \ (atoms \ now)]
           M == [left EXCEPT !["nicks"] = @ \cup (now \ atoms)]
           t == AllFreed(s, atoms \ now)
<1>1. DOMAIN L = AreasIn("event") /\ \A x \in AreasIn("event") : L[x] = ListIn(x, kept, atoms, given)
  BY LayoutIs
<1> HIDE DEF L
<1>2. atoms \subseteq Area /\ kept \subseteq Piece /\ given \subseteq Piece
      /\ Area \subseteq Block /\ Area \cap Piece = {} /\ "table" \notin Area /\ "c" \notin Area
  BY MemoryAssumption DEF Layout
<1>3. "nicks" \in DOMAIN L /\ atoms \ now \subseteq L["nicks"]
  BY <1>1 DEF AreasIn, ListIn
<1>4. Drawn(t, P, left)
  <2>1. Drawn(s, P, L)
    BY DEF Layout, L
  <2>2. QED
    BY <1>3, <2>1, DrawnFreed
<1>5. DOMAIN left = AreasIn("event") /\ "nicks" \in DOMAIN left
  BY <1>1, <1>3
<1>6. \A x \in AreasIn("event") : left[x] = ListIn(x, kept, atoms \ (atoms \ now), given)
  <2>1. {"table"} \cup (atoms \ (atoms \ now)) = ({"table"} \cup atoms) \ (atoms \ now)
    BY <1>2
  <2>2. QED
    BY <1>1, <2>1 DEF ListIn, AreasIn
<1>7. M = [x \in DOMAIN M |-> M[x]] /\ DOMAIN M = AreasIn("event")
  BY <1>5
<1>8. \A x \in AreasIn("event") : M[x] = ListIn(x, kept, now, given)
  <2>1. {"table"} \cup (atoms \ (atoms \ now)) \cup (now \ atoms) = {"table"} \cup now
    OBVIOUS
  <2> HIDE DEF left
  <2>2. QED
    BY <1>5, <1>6, <2>1 DEF ListIn, AreasIn
<1>9. \A b \in now \ atoms : Nowhere(left, b)
  <2>1. SUFFICES ASSUME NEW b \in now \ atoms, NEW x \in AreasIn("event")
                 PROVE  b \notin left[x]
    BY <1>5 DEF Nowhere
  <2>2. b \in Area /\ b \notin kept /\ b \notin given /\ b # "c" /\ b # "table" /\ b \notin atoms
    BY <1>2
  <2>3. QED
    BY <1>6, <2>2 DEF ListIn, AreasIn
<1> HIDE DEF left, t
<1>10. Drawn(AllAllocated(t, now \ atoms), P, M)
  <2>1. now \ atoms \subseteq Block
    BY <1>2
  <2>2. QED
    BY <1>4, <1>5, <1>9, <2>1, DrawnAllocated
<1> HIDE DEF M
<1>11. M = ListsIn("event", kept, now, given)
  BY <1>7, <1>8, SameLists
<1>12. QED
  BY <1>2, <1>10, <1>11 DEF Layout, t

(* irC6_new_connection, from the area of the program. *)
LEMMA RootLaid ==
  Layout([areas |-> [x \in {"root"} |-> NewNode(None)], size |-> << >>], "closed", {}, {}, {})
<1> DEFINE s == [areas |-> [x \in {"root"} |-> NewNode(None)], size |-> << >>]
<1>1. /\ s.areas = [x \in {"root"} |-> NewNode(None)] /\ DOMAIN s.areas = {"root"}
      /\ s.areas["root"] = NewNode(None)
      /\ s.size = << >> /\ DOMAIN s.size = {}
      /\ s = [areas |-> s.areas, size |-> s.size]
  OBVIOUS
<1>2. /\ NewNode(None) \in AreaType
      /\ NewNode(None).parent = None /\ NewNode(None).list = {} /\ NewNode(None).allocated = 0
  BY DEF NewNode, AreaType
<1> HIDE DEF s
<1>3. WellLaid(s)
  <2>1. s.areas \in [DOMAIN s.areas -> AreaType]
    BY <1>1, <1>2
  <2>2. s.size \in [DOMAIN s.size -> Nat \ {0}]
    BY <1>1
  <2>3. \A b : b \in DOMAIN s.size <=> \E a \in DOMAIN s.areas : b \in s.areas[a].list
    BY <1>1, <1>2
  <2>4. \A a1, a2 \in DOMAIN s.areas : a1 # a2 => s.areas[a1].list \cap s.areas[a2].list = {}
    BY <1>1
  <2>5. \A a \in DOMAIN s.areas : s.areas[a].allocated = SumOf(s.size, s.areas[a].list)
    BY <1>1, <1>2, SumOfNothing
  <2>6. QED
    BY <1>1, <2>1, <2>2, <2>3, <2>4, <2>5 DEF WellLaid
<1>4. Lists(s) = ListsIn("closed", {}, {}, {})
  <2> DEFINE M == Lists(s)
  <2>1. M = [x \in DOMAIN M |-> M[x]] /\ DOMAIN M = AreasIn("closed")
    BY <1>1 DEF Lists, AreasIn
  <2>2. \A x \in AreasIn("closed") : M[x] = ListIn(x, {}, {}, {})
    BY <1>1, <1>2 DEF Lists, AreasIn, ListIn
  <2> HIDE DEF M
  <2>3. QED
    BY <2>1, <2>2, SameLists DEF M
<1>5. Parents(s) = ParentsIn("closed")
  <2> DEFINE M == Parents(s)
  <2>1. M = [x \in DOMAIN M |-> M[x]] /\ DOMAIN M = AreasIn("closed")
    BY <1>1 DEF Parents, AreasIn
  <2>2. \A x \in AreasIn("closed") : M[x] = ParentOf(x)
    BY <1>1, <1>2 DEF Parents, AreasIn, ParentOf
  <2> HIDE DEF M
  <2>3. QED
    BY <2>1, <2>2, SameParents DEF M
<1>6. QED
  BY <1>3, <1>4, <1>5 DEF Layout, Drawn, s

LEMMA ConnectionLaid ==
  ASSUME NEW s, Layout(s, "closed", {}, {}, {}), NEW a \in Area
  PROVE  Layout(WithConnection(s, a), "idle", {}, {a}, {})
<1> DEFINE L == ListsIn("closed", {}, {}, {})
           P == ParentsIn("closed")
           L1 == With(L, "conn", {})
           P1 == With(P, "conn", "root")
           L2 == Listed(L1, "conn", "c")
           L3 == With(L2, "nicks", {})
           P3 == With(P1, "nicks", "conn")
           L4 == Listed(L3, "nicks", "table")
           L5 == Listed(L4, "nicks", a)
           s1 == WithNode(s, "root", "conn")
           s2 == AllocIn(s1, "conn", "c", 3)
           s3 == WithNode(s2, "conn", "nicks")
           s4 == AllocIn(s3, "nicks", "table", 1)
           s5 == AllocIn(s4, "nicks", a, AreaBytes)
<1>1. /\ "c" \in Block /\ "table" \in Block /\ a \in Block
      /\ a # "c" /\ a # "table"
      /\ {"root", "conn"} \subseteq Nodes \cup {None}
  BY MemoryAssumption DEF Nodes
<1>2. /\ DOMAIN L = {"root"} /\ L["root"] = {}
      /\ DOMAIN P = {"root"} /\ P["root"] = None
  <2>1. AreasIn("closed") = {"root"}
    BY DEF AreasIn
  <2>2. L["root"] = ListIn("root", {}, {}, {}) /\ P["root"] = ParentOf("root")
        /\ DOMAIN L = AreasIn("closed") /\ DOMAIN P = AreasIn("closed")
    BY <2>1, LayoutIs
  <2>3. QED
    BY <2>1, <2>2 DEF ListIn, ParentOf
<1>3. Drawn(s, P, L)
  BY DEF Layout
<1> HIDE DEF L, P
<1>4. /\ DOMAIN L1 = {"root", "conn"} /\ L1["root"] = {} /\ L1["conn"] = {}
      /\ DOMAIN P1 = {"root", "conn"} /\ P1["root"] = None /\ P1["conn"] = "root"
  BY <1>2 DEF With
<1>5. Drawn(s1, P1, L1)
  <2>1. "conn" \notin DOMAIN L /\ "root" \in Nodes \cup {None}
    BY <1>1, <1>2
  <2>2. QED
    BY <1>3, <2>1, DrawnNode
<1> HIDE DEF L1, P1, s1
<1>6. DOMAIN L2 = {"root", "conn"} /\ L2["root"] = {} /\ L2["conn"] = {"c"}
  BY <1>4 DEF Listed
<1>7. Drawn(s2, P1, L2)
  <2>1. "conn" \in DOMAIN L1 /\ Nowhere(L1, "c") /\ 3 \in Nat \ {0}
    BY <1>4 DEF Nowhere
  <2>2. QED
    BY <1>1, <1>5, <2>1, DrawnAlloc
<1> HIDE DEF L2, s2
<1>8. /\ DOMAIN L3 = {"root", "conn", "nicks"} /\ L3["root"] = {} /\ L3["conn"] = {"c"}
      /\ L3["nicks"] = {}
      /\ P3 = [x \in DOMAIN P3 |-> P3[x]]
      /\ DOMAIN P3 = {"root", "conn", "nicks"}
      /\ P3["root"] = None /\ P3["conn"] = "root" /\ P3["nicks"] = "conn"
  BY <1>4, <1>6 DEF With
<1>9. Drawn(s3, P3, L3)
  <2>1. "nicks" \notin DOMAIN L2 /\ "conn" \in Nodes \cup {None}
    BY <1>1, <1>6
  <2>2. QED
    BY <1>7, <2>1, DrawnNode
<1> HIDE DEF L3, P3, s3
<1>10. /\ DOMAIN L4 = {"root", "conn", "nicks"} /\ L4["root"] = {} /\ L4["conn"] = {"c"}
       /\ L4["nicks"] = {"table"}
  BY <1>8 DEF Listed
<1>11. Drawn(s4, P3, L4)
  <2>1. "nicks" \in DOMAIN L3 /\ Nowhere(L3, "table") /\ 1 \in Nat \ {0}
    BY <1>8 DEF Nowhere
  <2>2. QED
    BY <1>1, <1>9, <2>1, DrawnAlloc
<1> HIDE DEF L4, s4
<1>12. /\ L5 = [x \in DOMAIN L5 |-> L5[x]] /\ DOMAIN L5 = {"root", "conn", "nicks"}
       /\ L5["root"] = {} /\ L5["conn"] = {"c"} /\ L5["nicks"] = {"table"} \cup {a}
  BY <1>10 DEF Listed
<1>13. Drawn(s5, P3, L5)
  <2>1. "nicks" \in DOMAIN L4 /\ Nowhere(L4, a)
    BY <1>1, <1>10 DEF Nowhere
  <2>2. QED
    BY <1>1, <1>11, <2>1, AreaBytesIs, DrawnAlloc
<1>14. s5 = WithConnection(s, a)
  BY DEF s4, s3, s2, s1, WithConnection, NewTable
<1> HIDE DEF L5, s5
<1>15. L5 = ListsIn("idle", {}, {a}, {})
  <2>1. DOMAIN L5 = AreasIn("idle") /\ \A x \in AreasIn("idle") : L5[x] = ListIn(x, {}, {a}, {})
    BY <1>12 DEF AreasIn, ListIn
  <2>2. QED
    BY <1>12, <2>1, SameLists
<1>16. P3 = ParentsIn("idle")
  <2>1. DOMAIN P3 = AreasIn("idle") /\ \A x \in AreasIn("idle") : P3[x] = ParentOf(x)
    BY <1>8 DEF AreasIn, ParentOf
  <2>2. QED
    BY <1>8, <2>1, SameParents
<1>17. QED
  BY <1>13, <1>14, <1>15, <1>16 DEF Layout

(* buf_new_pack: the area of the queue is gone when the buffer is there.   *)
LEMMA PackLaid ==
  ASSUME NEW s, NEW kept, NEW atoms, NEW given, Layout(s, "event", kept, atoms, given),
         NEW q \in Piece, NEW b \in Piece, q # b,
         q \notin kept \cup given, b \notin kept \cup given
  PROVE  Layout(Destroyed(AllocIn(AllocIn(WithNode(s, "event", "pack"), "pack", q, 1),
                                  "event", b, 1),
                          "pack"),
                "event", kept, atoms, given \cup {b})
<1> DEFINE L == ListsIn("event", kept, atoms, given)
           P == ParentsIn("event")
           L1 == With(L, "pack", {})
           P1 == With(P, "pack", "event")
           L2 == Listed(L1, "pack", q)
           L3 == Listed(L2, "event", b)
           gone == {"pack"} \cup {} \cup {}
           L4 == Cropped(L3, gone)
           P4 == Cropped(P1, gone)
           s1 == WithNode(s, "event", "pack")
           s2 == AllocIn(s1, "pack", q, 1)
           s3 == AllocIn(s2, "event", b, 1)
<1>0. /\ DOMAIN L = AreasIn("event") /\ DOMAIN P = AreasIn("event")
      /\ \A x \in AreasIn("event") : L[x] = ListIn(x, kept, atoms, given) /\ P[x] = ParentOf(x)
      /\ AreasIn("event") = {"root", "conn", "nicks", "event"}
  BY LayoutIs DEF AreasIn
<1>1. q \in Block /\ b \in Block /\ Nowhere(L, q) /\ Nowhere(L, b)
  BY FreshIs
<1>2. Drawn(s, P, L)
  BY DEF Layout
<1>3. L["event"] = given
  BY <1>0 DEF ListIn
<1> HIDE DEF L, P
<1>4. /\ DOMAIN L1 = {"root", "conn", "nicks", "event", "pack"} /\ L1["pack"] = {}
      /\ DOMAIN P1 = {"root", "conn", "nicks", "event", "pack"} /\ P1["pack"] = "event"
      /\ \A x \in AreasIn("event") : L1[x] = L[x] /\ P1[x] = P[x]
  BY <1>0 DEF With
<1>5. Nowhere(L1, q) /\ Nowhere(L1, b)
  BY <1>0, <1>1, <1>4 DEF Nowhere
<1>6. Drawn(s1, P1, L1)
  <2>1. "pack" \notin DOMAIN L /\ "event" \in Nodes \cup {None}
    BY <1>0 DEF Nodes
  <2>2. QED
    BY <1>2, <2>1, DrawnNode
<1> HIDE DEF L1, P1, s1
<1>7. /\ DOMAIN L2 = DOMAIN L1
      /\ \A x \in AreasIn("event") : L2[x] = L[x]
      /\ L2["pack"] = {q}
  BY <1>0, <1>4 DEF Listed
<1>8. Nowhere(L2, b)
  BY <1>0, <1>1, <1>4, <1>7 DEF Nowhere
<1>9. Drawn(s2, P1, L2)
  <2>1. "pack" \in DOMAIN L1 /\ 1 \in Nat \ {0}
    BY <1>4
  <2>2. QED
    BY <1>1, <1>5, <1>6, <2>1, DrawnAlloc
<1> HIDE DEF L2, s2
<1>10. /\ DOMAIN L3 = DOMAIN L1
       /\ \A x \in AreasIn("event") : L3[x] = IF x = "event" THEN given \cup {b} ELSE L[x]
  BY <1>0, <1>3, <1>4, <1>7 DEF Listed
<1>11. Drawn(s3, P1, L3)
  <2>1. "event" \in DOMAIN L2 /\ 1 \in Nat \ {0}
    BY <1>4, <1>7
  <2>2. QED
    BY <1>1, <1>8, <1>9, <2>1, DrawnAlloc
<1> HIDE DEF L3, s3
<1>12. Drawn(Destroyed(s3, "pack"), P4, L4)
  <2>1. \A x \in DOMAIN L3 : P1[x] # "pack"
    <3>1. \A x \in AreasIn("event") : P1[x] # "pack"
      BY <1>0, <1>4, NoneIsNoNode DEF ParentOf
    <3>2. QED
      BY <1>0, <1>4, <1>10, <3>1
  <2>2. /\ "pack" \in DOMAIN L3
        /\ {} = {x \in DOMAIN L3 : P1[x] = "pack"}
        /\ {} = {x \in DOMAIN L3 : P1[x] \in {}}
        /\ \A x \in DOMAIN L3 : P1[x] \notin {}
    BY <1>4, <1>10, <2>1
  <2>3. QED
    BY <1>11, <2>2, DrawnDestroyed
<1>13. /\ L4 = [x \in DOMAIN L4 |-> L4[x]] /\ DOMAIN L4 = AreasIn("event")
       /\ P4 = [x \in DOMAIN P4 |-> P4[x]] /\ DOMAIN P4 = AreasIn("event")
       /\ \A x \in AreasIn("event") : L4[x] = L3[x] /\ P4[x] = P1[x]
  BY <1>0, <1>4, <1>10 DEF Cropped
<1>14. \A x \in AreasIn("event") : L4[x] = ListIn(x, kept, atoms, given \cup {b}) /\ P4[x] = ParentOf(x)
  BY <1>0, <1>4, <1>10, <1>13 DEF ListIn
<1> HIDE DEF L4, P4
<1>15. L4 = ListsIn("event", kept, atoms, given \cup {b}) /\ P4 = ParentsIn("event")
  BY <1>13, <1>14, SameLists, SameParents
<1>16. QED
  BY <1>12, <1>15 DEF Layout, s1, s2, s3

-----------------------------------------------------------------------------
(* The requests that wait for their room, and the chunks they keep.        *)
Requests(rooms) ==
  /\ rooms \in Seq([pre : Piece, room : Piece])
  /\ Len(rooms) <= MaxRooms
  /\ \A i, j \in DOMAIN rooms :
       /\ rooms[i].pre # rooms[j].room
       /\ i # j => rooms[i].pre # rooms[j].pre /\ rooms[i].room # rooms[j].room

Kept(rooms) == UNION {{rooms[i].pre, rooms[i].room} : i \in DOMAIN rooms}

LEMMA KeptIs ==
  ASSUME NEW rooms, NEW b
  PROVE  b \in Kept(rooms) <=> \E i \in DOMAIN rooms : b = rooms[i].pre \/ b = rooms[i].room
  BY DEF Kept

LEMMA NoRequests ==
  Requests(<< >>) /\ Kept(<< >>) = {}
<1>1. << >> \in Seq([pre : Piece, room : Piece]) /\ Len(<< >>) = 0 /\ DOMAIN << >> = {}
  OBVIOUS
<1>2. QED
  BY <1>1, MemoryAssumption DEF Requests, Kept

LEMMA RequestsType ==
  ASSUME NEW rooms, Requests(rooms)
  PROVE  /\ DOMAIN rooms = 1..Len(rooms) /\ Len(rooms) \in Nat
         /\ \A i \in DOMAIN rooms : rooms[i].pre \in Piece /\ rooms[i].room \in Piece
<1>1. rooms \in Seq([pre : Piece, room : Piece])
  BY DEF Requests
<1>2. DOMAIN rooms = 1..Len(rooms) /\ Len(rooms) \in Nat
  BY <1>1
<1>3. \A i \in DOMAIN rooms : rooms[i] \in [pre : Piece, room : Piece]
  <2> DEFINE S == [pre : Piece, room : Piece]
  <2> HIDE DEF S
  <2>1. rooms \in Seq(S)
    BY <1>1 DEF S
  <2>2. \A i \in DOMAIN rooms : rooms[i] \in S
    BY <1>2, <2>1
  <2>3. QED
    BY <2>2 DEF S
<1>4. QED
  BY <1>2, <1>3

LEMMA RequestAdded ==
  ASSUME NEW rooms, Requests(rooms), Len(rooms) < MaxRooms,
         NEW pre \in Piece, NEW room \in Piece, pre # room,
         pre \notin Kept(rooms), room \notin Kept(rooms)
  PROVE  LET more == Append(rooms, [pre |-> pre, room |-> room])
         IN  Requests(more) /\ Kept(more) = Kept(rooms) \cup {pre} \cup {room}
<1> DEFINE r == [pre |-> pre, room |-> room]
           more == Append(rooms, r)
           n == Len(rooms)
<1>1. r \in [pre : Piece, room : Piece] /\ r.pre = pre /\ r.room = room
  OBVIOUS
<1>2. rooms \in Seq([pre : Piece, room : Piece]) /\ n \in Nat /\ DOMAIN rooms = 1..n
  BY RequestsType DEF Requests
<1> HIDE DEF r
<1>3. /\ more \in Seq([pre : Piece, room : Piece])
      /\ Len(more) = n + 1 /\ DOMAIN more = 1..(n + 1)
      /\ more[n + 1] = r
      /\ \A i \in 1..n : more[i] = rooms[i]
  BY <1>1, <1>2
<1>4. \A i \in DOMAIN rooms : /\ rooms[i].pre # pre /\ rooms[i].pre # room
                              /\ rooms[i].room # pre /\ rooms[i].room # room
  BY KeptIs
<1> HIDE DEF more, n
<1>5. Requests(more)
  <2>1. n + 1 <= MaxRooms
    BY <1>2, MemoryAssumption DEF n
  <2>2. \A i \in 1..(n + 1) : i = n + 1 \/ i \in 1..n
    BY <1>2
  <2>3. ASSUME NEW i \in 1..(n + 1), NEW j \in 1..(n + 1)
        PROVE  /\ more[i].pre # more[j].room
               /\ i # j => more[i].pre # more[j].pre /\ more[i].room # more[j].room
    <3>1. CASE i = n + 1 /\ j = n + 1
      BY <1>1, <1>3, <3>1
    <3>2. CASE i = n + 1 /\ j \in 1..n
      BY <1>1, <1>2, <1>3, <1>4, <3>2
    <3>3. CASE i \in 1..n /\ j = n + 1
      BY <1>1, <1>2, <1>3, <1>4, <3>3
    <3>4. CASE i \in 1..n /\ j \in 1..n
      BY <1>2, <1>3, <3>4 DEF Requests
    <3>5. QED
      BY <2>2, <3>1, <3>2, <3>3, <3>4
  <2>4. QED
    BY <1>3, <2>1, <2>3 DEF Requests
<1>6. Kept(more) = Kept(rooms) \cup {pre} \cup {room}
  <2>1. ASSUME NEW b
        PROVE  b \in Kept(more) <=> b \in Kept(rooms) \/ b = pre \/ b = room
    <3>1. b \in Kept(more) <=> \E i \in 1..(n + 1) : b = more[i].pre \/ b = more[i].room
      BY <1>3, KeptIs
    <3>2. b \in Kept(rooms) <=> \E i \in 1..n : b = rooms[i].pre \/ b = rooms[i].room
      BY <1>2, KeptIs
    <3>3. 1..(n + 1) = 1..n \cup {n + 1}
      BY <1>2
    <3>4. QED
      BY <1>1, <1>3, <3>1, <3>2, <3>3
  <2>2. QED
    BY <2>1
<1>7. QED
  BY <1>5, <1>6 DEF more, r

LEMMA RequestTaken ==
  ASSUME NEW rooms, Requests(rooms), rooms # << >>
  PROVE  /\ Head(rooms).pre \in Kept(rooms) /\ Head(rooms).room \in Kept(rooms)
         /\ Head(rooms).pre # Head(rooms).room
         /\ Head(rooms).pre \in Piece /\ Head(rooms).room \in Piece
         /\ Requests(Tail(rooms))
         /\ Kept(Tail(rooms)) = (Kept(rooms) \ {Head(rooms).pre}) \ {Head(rooms).room}
<1> DEFINE n == Len(rooms)
           rest == Tail(rooms)
<1>1. rooms \in Seq([pre : Piece, room : Piece]) /\ n \in Nat /\ DOMAIN rooms = 1..n
  BY RequestsType DEF Requests
<1>2. n # 0 /\ 1 \in 1..n /\ Head(rooms) = rooms[1]
  BY <1>1
<1>3. /\ rest \in Seq([pre : Piece, room : Piece])
      /\ Len(rest) = n - 1 /\ DOMAIN rest = 1..(n - 1)
      /\ \A i \in 1..(n - 1) : rest[i] = rooms[i + 1]
  BY <1>1, <1>2
<1>4. /\ Head(rooms).pre \in Kept(rooms) /\ Head(rooms).room \in Kept(rooms)
      /\ Head(rooms).pre \in Piece /\ Head(rooms).room \in Piece
  BY <1>1, <1>2, KeptIs, RequestsType
<1>5. Head(rooms).pre # Head(rooms).room
  BY <1>1, <1>2 DEF Requests
<1> HIDE DEF n, rest
<1>6. Requests(rest)
  <2>1. n - 1 <= MaxRooms
    BY <1>1, MemoryAssumption DEF Requests, n
  <2>2. ASSUME NEW i \in 1..(n - 1), NEW j \in 1..(n - 1)
        PROVE  /\ rest[i].pre # rest[j].room
               /\ i # j => rest[i].pre # rest[j].pre /\ rest[i].room # rest[j].room
    <3>1. i + 1 \in 1..n /\ j + 1 \in 1..n /\ (i # j => i + 1 # j + 1)
      BY <1>1
    <3>2. rest[i] = rooms[i + 1] /\ rest[j] = rooms[j + 1]
      BY <1>3
    <3>3. QED
      BY <1>1, <3>1, <3>2 DEF Requests
  <2>3. QED
    BY <1>3, <2>1, <2>2 DEF Requests
<1>7. Kept(rest) = (Kept(rooms) \ {Head(rooms).pre}) \ {Head(rooms).room}
  <2>1. ASSUME NEW b
        PROVE  b \in Kept(rest) <=> /\ b \in Kept(rooms)
                                    /\ b # Head(rooms).pre /\ b # Head(rooms).room
    <3>1. b \in Kept(rest) <=> \E i \in 1..(n - 1) : b = rest[i].pre \/ b = rest[i].room
      BY <1>3, KeptIs
    <3>2. b \in Kept(rooms) <=> \E i \in 1..n : b = rooms[i].pre \/ b = rooms[i].room
      BY <1>1, KeptIs
    <3>3. ASSUME NEW i \in 1..(n - 1), b = rest[i].pre \/ b = rest[i].room
          PROVE  b \in Kept(rooms) /\ b # Head(rooms).pre /\ b # Head(rooms).room
      <4>1. i + 1 \in 1..n /\ i + 1 # 1 /\ rest[i] = rooms[i + 1]
        BY <1>1, <1>3
      <4>2. rooms[i + 1].pre # rooms[1].room /\ rooms[1].pre # rooms[i + 1].room
            /\ rooms[i + 1].pre # rooms[1].pre /\ rooms[i + 1].room # rooms[1].room
        BY <1>1, <1>2, <4>1 DEF Requests
      <4>3. QED
        BY <1>2, <3>2, <3>3, <4>1, <4>2
    <3>4. ASSUME NEW i \in 1..n, b = rooms[i].pre \/ b = rooms[i].room,
                 b # Head(rooms).pre, b # Head(rooms).room
          PROVE  b \in Kept(rest)
      <4>1. i # 1
        BY <1>2, <3>4
      <4>2. i - 1 \in 1..(n - 1) /\ (i - 1) + 1 = i
        BY <1>1, <4>1
      <4>3. rest[i - 1] = rooms[i]
        BY <1>3, <4>2
      <4>4. QED
        BY <3>1, <3>4, <4>2, <4>3
    <3>5. QED
      BY <3>1, <3>2, <3>3, <3>4
  <2>2. QED
    BY <2>1
<1>8. QED
  BY <1>4, <1>5, <1>6, <1>7 DEF rest

(* What the areas of the program are, whatever the table of nicks does.    *)
AreasInv ==
  /\ phase \in {"idle", "event", "closed", "exited"}
  /\ Requests(proom)
  /\ atmp \cap Kept(proom) = {}
  /\ phase # "event" => atmp = {}
  /\ phase \in {"closed", "exited"} => proom = << >> /\ DOMAIN tree = {}
  /\ Layout(Now, phase, Kept(proom), DOMAIN tree, atmp)

LEMMA BecomesIs ==
  ASSUME NEW s, NEW ph, NEW kept, NEW atoms, NEW given, Layout(s, ph, kept, atoms, given),
         Becomes(s)
  PROVE  Layout(Now', ph, kept, atoms, given)
<1>1. s = [areas |-> s.areas, size |-> s.size]
  BY DEF Layout, Drawn, WellLaid
<1>2. Now' = s
  BY <1>1 DEF Becomes, Now
<1>3. QED
  BY <1>2

LEMMA AreasInit == MemoryInit => AreasInv
<1> SUFFICES ASSUME MemoryInit
             PROVE  AreasInv
  OBVIOUS
<1> DEFINE root == [areas |-> [x \in {"root"} |-> NewNode(None)], size |-> << >>]
<1>1. Layout(root, "closed", {}, {}, {})
  BY RootLaid
<1>2. cur \in Area /\ DOMAIN tree = {cur}
  BY DEF MemoryInit, ChunkInit
<1>3. areas = WithConnection(root, cur).areas /\ size = WithConnection(root, cur).size
  BY DEF MemoryInit
<1> HIDE DEF root
<1>4. Layout(WithConnection(root, cur), "idle", {}, {cur}, {})
  BY <1>1, <1>2, ConnectionLaid
<1>5. Now = WithConnection(root, cur)
  <2> DEFINE s == WithConnection(root, cur)
  <2>1. s = [areas |-> s.areas, size |-> s.size]
    BY <1>4 DEF Layout, Drawn, WellLaid
  <2> HIDE DEF s
  <2>2. areas = s.areas /\ size = s.size
    BY <1>3 DEF s
  <2>3. QED
    BY <2>1, <2>2 DEF Now, s
<1>6. phase = "idle" /\ proom = << >> /\ atmp = {}
  BY DEF MemoryInit
<1>7. QED
  BY <1>2, <1>4, <1>5, <1>6, NoRequests DEF AreasInv

LEMMA AreasNewConnection ==
  ASSUME AreasInv, NewConnection
  PROVE  AreasInv'
<1>1. PICK a \in Area : /\ Becomes(WithConnection(Now, a))
                        /\ tree' = [x \in {a} |-> NewArea]
  BY DEF NewConnection
<1>2. phase = "closed" /\ phase' = "idle" /\ proom' = proom /\ atmp' = atmp
  BY DEF NewConnection
<1>3. proom = << >> /\ DOMAIN tree = {} /\ atmp = {} /\ Kept(proom) = {}
  BY <1>2, NoRequests DEF AreasInv
<1>4. Layout(Now, "closed", {}, {}, {})
  BY <1>2, <1>3 DEF AreasInv
<1>5. Layout(WithConnection(Now, a), "idle", {}, {a}, {})
  BY <1>4, ConnectionLaid
<1>6. Layout(Now', "idle", {}, {a}, {})
  BY <1>1, <1>5, BecomesIs
<1>7. DOMAIN tree' = {a} /\ Kept(proom') = {}
  BY <1>1, <1>2, <1>3
<1>8. QED
  BY <1>2, <1>3, <1>6, <1>7, NoRequests DEF AreasInv

LEMMA AreasStartEvent ==
  ASSUME AreasInv, StartEvent
  PROVE  AreasInv'
<1>1. /\ Becomes(WithNode(Now, "conn", "event"))
      /\ phase = "idle" /\ phase' = "event" /\ proom' = proom /\ atmp' = atmp /\ tree' = tree
  BY DEF StartEvent, chunkVars
<1>2. atmp = {} /\ Layout(Now, "idle", Kept(proom), DOMAIN tree, atmp)
  BY <1>1 DEF AreasInv
<1>3. Layout(Now', "event", Kept(proom), DOMAIN tree, {})
  BY <1>1, <1>2, StartLaid, BecomesIs
<1>4. QED
  BY <1>1, <1>2, <1>3 DEF AreasInv

LEMMA AreasEndEvent ==
  ASSUME AreasInv, EndEvent
  PROVE  AreasInv'
<1>1. /\ Becomes(Destroyed(Now, "event"))
      /\ phase = "event" /\ phase' = "idle" /\ proom' = proom /\ atmp' = {} /\ tree' = tree
  BY DEF EndEvent, chunkVars
<1>2. Layout(Now, "event", Kept(proom), DOMAIN tree, atmp)
  BY <1>1 DEF AreasInv
<1>3. Layout(Now', "idle", Kept(proom), DOMAIN tree, {})
  BY <1>1, <1>2, EndLaid, BecomesIs
<1>4. QED
  BY <1>1, <1>2, <1>3 DEF AreasInv

(* The areas of atoms are where the allocator says.                        *)
LEMMA AreasTableStep ==
  ASSUME AreasInv, TableStep, DOMAIN tree' \subseteq Area
  PROVE  AreasInv'
<1>1. /\ phase = "event" /\ phase' = "event" /\ proom' = proom /\ atmp' = atmp
      /\ Becomes(AllAllocated(AllFreed(Now, DOMAIN tree \ DOMAIN tree'), DOMAIN tree' \ DOMAIN tree))
  BY DEF TableStep, AllAllocated, AllFreed
<1>2. Layout(Now, "event", Kept(proom), DOMAIN tree, atmp)
  BY <1>1 DEF AreasInv
<1>3. Layout(Now', "event", Kept(proom), DOMAIN tree', atmp)
  BY <1>1, <1>2, TableLaid, BecomesIs
<1>4. QED
  BY <1>1, <1>2, <1>3 DEF AreasInv

LEMMA AreasAskForRoom ==
  ASSUME AreasInv, AskForRoom
  PROVE  AreasInv'
<1>1. PICK pre \in Piece \ DOMAIN size, room \in Piece \ DOMAIN size :
        /\ pre # room
        /\ Becomes(AllocIn(AllocIn(Now, "conn", pre, 2), "conn", room, 1))
        /\ proom' = Append(proom, [pre |-> pre, room |-> room])
  BY DEF AskForRoom
<1>2. /\ phase = "event" /\ phase' = "event" /\ atmp' = atmp /\ tree' = tree
      /\ Len(proom) < MaxRooms
  BY DEF AskForRoom, chunkVars
<1> DEFINE K == Kept(proom)
<1>3. Layout(Now, "event", K, DOMAIN tree, atmp) /\ Requests(proom) /\ atmp \cap K = {}
  BY <1>2 DEF AreasInv
<1>4. pre \notin K /\ pre \notin atmp /\ room \notin K /\ room \notin atmp
  <2>1. Now.size = size
    BY DEF Now
  <2>2. QED
    BY <1>1, <1>3, <2>1, FreshIs
<1>5. Requests(proom') /\ Kept(proom') = K \cup {pre} \cup {room}
  BY <1>1, <1>2, <1>3, <1>4, RequestAdded
<1> HIDE DEF K
<1>6. Layout(AllocIn(Now, "conn", pre, 2), "event", K \cup {pre}, DOMAIN tree, atmp)
  BY <1>3, <1>4, KeepLaid
<1>7. Layout(AllocIn(AllocIn(Now, "conn", pre, 2), "conn", room, 1),
             "event", K \cup {pre} \cup {room}, DOMAIN tree, atmp)
  BY <1>1, <1>4, <1>6, KeepLaid
<1>8. Layout(Now', "event", K \cup {pre} \cup {room}, DOMAIN tree, atmp)
  BY <1>1, <1>7, BecomesIs
<1>9. atmp \cap (K \cup {pre} \cup {room}) = {}
  BY <1>3, <1>4
<1>10. QED
  BY <1>2, <1>5, <1>8, <1>9 DEF AreasInv

LEMMA AreasGetLastRoom ==
  ASSUME AreasInv, GetLastRoom
  PROVE  AreasInv'
<1> DEFINE p == Head(proom)
           K == Kept(proom)
           t == FreeIn(Now, "conn", p.pre)
<1>1. /\ phase = "event" /\ phase' = "event" /\ tree' = tree
      /\ proom # << >> /\ proom' = Tail(proom)
      /\ Becomes(Relink(t, "conn", "event", p.room))
      /\ atmp' = atmp \cup {p.room}
  BY DEF GetLastRoom, chunkVars
<1>2. Layout(Now, "event", K, DOMAIN tree, atmp) /\ Requests(proom) /\ atmp \cap K = {}
  BY <1>1 DEF AreasInv
<1>3. /\ p.pre \in K /\ p.room \in K /\ p.pre # p.room /\ p.room \in Piece
      /\ Requests(proom') /\ Kept(proom') = (K \ {p.pre}) \ {p.room}
  BY <1>1, <1>2, RequestTaken
<1> HIDE DEF p, K, t
<1>4. Layout(t, "event", K \ {p.pre}, DOMAIN tree, atmp)
  BY <1>2, <1>3, UnkeepLaid DEF t
<1> DEFINE u == FreeIn(t, "conn", p.room)
           n == t.size[p.room]
<1>5. /\ Relink(t, "conn", "event", p.room) = AllocIn(u, "event", p.room, n)
      /\ n \in Nat \ {0}
  <2> DEFINE L == ListsIn("event", K \ {p.pre}, DOMAIN tree, atmp)
  <2>1. /\ DOMAIN L = AreasIn("event")
        /\ \A x \in AreasIn("event") : L[x] = ListIn(x, K \ {p.pre}, DOMAIN tree, atmp)
    BY LayoutIs
  <2>2. Drawn(t, ParentsIn("event"), L)
    BY <1>4 DEF Layout
  <2> HIDE DEF L
  <2>3. "conn" \in DOMAIN L /\ "event" \in DOMAIN L /\ p.room \in L["conn"]
    BY <1>3, <2>1 DEF AreasIn, ListIn
  <2>4. WellLaid(t) /\ "conn" \in DOMAIN t.areas /\ "event" \in DOMAIN t.areas
        /\ p.room \in t.areas["conn"].list
    BY <2>2, <2>3, DrawnIs
  <2>5. n \in Nat \ {0}
    BY <2>2, <2>3, DrawnSize
  <2>6. QED
    BY <2>4, <2>5, RelinkIs
<1> HIDE DEF n
<1>6. Layout(u, "event", (K \ {p.pre}) \ {p.room}, DOMAIN tree, atmp)
  BY <1>3, <1>4, UnkeepLaid
<1> HIDE DEF u
<1>7. Layout(AllocIn(u, "event", p.room, n), "event", (K \ {p.pre}) \ {p.room}, DOMAIN tree,
             atmp \cup {p.room})
  BY <1>2, <1>3, <1>5, <1>6, GiveLaid
<1>8. Layout(Now', "event", (K \ {p.pre}) \ {p.room}, DOMAIN tree, atmp \cup {p.room})
  BY <1>1, <1>5, <1>7, BecomesIs
<1>9. (atmp \cup {p.room}) \cap ((K \ {p.pre}) \ {p.room}) = {}
  BY <1>2
<1>10. QED
  BY <1>1, <1>3, <1>8, <1>9 DEF AreasInv

LEMMA AreasPackBuffer ==
  ASSUME AreasInv, PackBuffer
  PROVE  AreasInv'
<1>1. PICK q \in Piece \ DOMAIN size, b \in Piece \ DOMAIN size :
        /\ q # b
        /\ Becomes(Destroyed(AllocIn(AllocIn(WithNode(Now, "event", "pack"), "pack", q, 1),
                                     "event", b, 1), "pack"))
        /\ atmp' = atmp \cup {b}
  BY DEF PackBuffer
<1>2. phase = "event" /\ phase' = "event" /\ proom' = proom /\ tree' = tree
  BY DEF PackBuffer, chunkVars
<1> DEFINE K == Kept(proom)
<1>3. Layout(Now, "event", K, DOMAIN tree, atmp) /\ atmp \cap K = {}
  BY <1>2 DEF AreasInv
<1>4. q \notin K \cup atmp /\ b \notin K \cup atmp
  <2>1. Now.size = size
    BY DEF Now
  <2>2. QED
    BY <1>1, <1>3, <2>1, FreshIs
<1> HIDE DEF K
<1>5. Layout(Now', "event", K, DOMAIN tree, atmp \cup {b})
  BY <1>1, <1>3, <1>4, PackLaid, BecomesIs
<1>6. (atmp \cup {b}) \cap K = {}
  BY <1>3, <1>4
<1>7. QED
  BY <1>1, <1>2, <1>5, <1>6 DEF AreasInv, K

LEMMA AreasGrowBuffer ==
  ASSUME AreasInv, GrowBuffer
  PROVE  AreasInv'
<1>1. PICK b \in atmp, c \in Piece :
        /\ c = b \/ c \notin DOMAIN size
        /\ Becomes(ReallocIn(Now, "event", b, c, 2))
        /\ atmp' = (atmp \ {b}) \cup {c}
  BY DEF GrowBuffer
<1>2. phase = "event" /\ phase' = "event" /\ proom' = proom /\ tree' = tree
  BY DEF GrowBuffer, chunkVars
<1> DEFINE K == Kept(proom)
<1>3. Layout(Now, "event", K, DOMAIN tree, atmp) /\ atmp \cap K = {}
  BY <1>2 DEF AreasInv
<1>4. c \notin K /\ c \notin atmp \ {b}
  <2>1. Now.size = size
    BY DEF Now
  <2>2. c \notin DOMAIN size => c \notin K /\ c \notin atmp
    BY <1>3, <2>1, FreshIs
  <2>3. QED
    BY <1>1, <1>3, <2>2
<1> HIDE DEF K
<1>5. ReallocIn(Now, "event", b, c, 2) = AllocIn(FreeIn(Now, "event", b), "event", c, 2)
  <2>1. Drawn(Now, ParentsIn("event"), ListsIn("event", K, DOMAIN tree, atmp))
    BY <1>3 DEF Layout
  <2>2. "event" \in DOMAIN ListsIn("event", K, DOMAIN tree, atmp)
    BY LayoutIs DEF AreasIn
  <2>3. WellLaid(Now) /\ "event" \in DOMAIN Now.areas
    BY <2>1, <2>2, DrawnIs
  <2>4. QED
    BY <2>3, ReallocIs
<1>6. Layout(FreeIn(Now, "event", b), "event", K, DOMAIN tree, atmp \ {b})
  BY <1>3, UngiveLaid
<1>7. Layout(AllocIn(FreeIn(Now, "event", b), "event", c, 2), "event", K, DOMAIN tree,
             (atmp \ {b}) \cup {c})
  BY <1>4, <1>6, GiveLaid
<1>8. Layout(Now', "event", K, DOMAIN tree, (atmp \ {b}) \cup {c})
  BY <1>1, <1>5, <1>7, BecomesIs
<1>9. ((atmp \ {b}) \cup {c}) \cap K = {}
  BY <1>3, <1>4
<1>10. QED
  BY <1>1, <1>2, <1>8, <1>9 DEF AreasInv, K

LEMMA AreasCloseConnection ==
  ASSUME AreasInv, CloseConnection
  PROVE  AreasInv'
<1>1. /\ Becomes(Destroyed(Now, "conn"))
      /\ phase = "event" /\ phase' = "closed" /\ proom' = << >> /\ atmp' = {} /\ DOMAIN tree' = {}
  <2>1. DOMAIN << >> = {}
    OBVIOUS
  <2>2. QED
    BY <2>1 DEF CloseConnection, NoTable
<1>2. Layout(Now, "event", Kept(proom), DOMAIN tree, atmp)
  BY <1>1 DEF AreasInv
<1>3. Layout(Now', "closed", {}, {}, {})
  BY <1>1, <1>2, CloseLaid, BecomesIs
<1>4. QED
  BY <1>1, <1>3, NoRequests DEF AreasInv

LEMMA AreasExitProgram ==
  ASSUME AreasInv, ExitProgram
  PROVE  AreasInv'
<1>1. /\ Becomes(Destroyed(Now, "root"))
      /\ phase # "exited" /\ phase' = "exited" /\ proom' = << >> /\ atmp' = {} /\ DOMAIN tree' = {}
  <2>1. DOMAIN << >> = {}
    OBVIOUS
  <2>2. QED
    BY <2>1 DEF ExitProgram, NoTable
<1>2. Layout(Now, phase, Kept(proom), DOMAIN tree, atmp) /\ phase \in {"idle", "event", "closed"}
  BY <1>1 DEF AreasInv
<1>3. Layout(Now', "exited", {}, {}, {})
  BY <1>1, <1>2, ExitLaid, BecomesIs
<1>4. QED
  BY <1>1, <1>3, NoRequests DEF AreasInv

LEMMA AreasSame ==
  ASSUME AreasInv, UNCHANGED memoryVars
  PROVE  AreasInv'
BY DEF AreasInv, memoryVars, chunkVars, areaVars, Now

(* What the properties say of the areas.                                   *)
LEMMA AreasType ==
  ASSUME AreasInv
  PROVE  /\ DOMAIN areas \subseteq Nodes
         /\ \A a \in DOMAIN areas : areas[a].parent \in DOMAIN areas \cup {None}
         /\ DOMAIN size \subseteq Block /\ \A b \in DOMAIN size : size[b] > 0
         /\ phase \in {"idle", "event", "closed", "exited"}
         /\ Len(proom) <= MaxRooms
<1> DEFINE K == Kept(proom)
           P == ParentsIn(phase)
           L == ListsIn(phase, K, DOMAIN tree, atmp)
<1>1. Drawn(Now, P, L) /\ Now.areas = areas /\ Now.size = size
  BY DEF AreasInv, Layout, Now
<1>2. /\ WellLaid(Now) /\ DOMAIN areas = DOMAIN P
      /\ \A x \in DOMAIN areas : areas[x].parent = P[x]
  <2> HIDE DEF P, L
  <2>1. QED
    BY <1>1, DrawnIs
<1>3. DOMAIN P = AreasIn(phase) /\ \A x \in AreasIn(phase) : P[x] = ParentOf(x)
  BY LayoutIs
<1>4. AreasIn(phase) \subseteq Nodes
  BY DEF AreasIn, Nodes
<1>5. \A x \in AreasIn(phase) : ParentOf(x) \in AreasIn(phase) \cup {None}
  BY DEF AreasIn, ParentOf
<1> HIDE DEF P, L
<1>6. DOMAIN size \subseteq Block
  <2>1. \A b : b \in DOMAIN size <=> \E a \in DOMAIN areas : b \in areas[a].list
    BY <1>1, <1>2 DEF WellLaid
  <2>2. \A a \in DOMAIN areas : areas[a].list \subseteq Block
    BY <1>1, <1>2, LaidList
  <2>3. QED
    BY <2>1, <2>2
<1>7. \A b \in DOMAIN size : size[b] > 0
  <2>1. size \in [DOMAIN size -> Nat \ {0}]
    BY <1>1, <1>2 DEF WellLaid
  <2>2. QED
    BY <2>1
<1>8. phase \in {"idle", "event", "closed", "exited"} /\ Len(proom) <= MaxRooms
  BY DEF AreasInv, Requests
<1>9. QED
  BY <1>2, <1>3, <1>4, <1>5, <1>6, <1>7, <1>8

LEMMA AreasListed ==
  ASSUME AreasInv
  PROVE  /\ DOMAIN areas = AreasIn(phase)
         /\ \A x \in AreasIn(phase) : areas[x].list = ListIn(x, Kept(proom), DOMAIN tree, atmp)
<1> DEFINE K == Kept(proom)
           P == ParentsIn(phase)
           L == ListsIn(phase, K, DOMAIN tree, atmp)
<1>1. Drawn(Now, P, L) /\ Now.areas = areas
  BY DEF AreasInv, Layout, Now
<1>2. DOMAIN L = AreasIn(phase) /\ \A x \in AreasIn(phase) : L[x] = ListIn(x, K, DOMAIN tree, atmp)
  BY LayoutIs
<1> HIDE DEF P, L
<1>3. DOMAIN areas = DOMAIN L /\ \A x \in DOMAIN areas : areas[x].list = L[x]
  BY <1>1, DrawnIs
<1>4. QED
  BY <1>2, <1>3

LEMMA AreasAccounted ==
  ASSUME AreasInv
  PROVE  Accounted
<1>1. WellLaid(Now) /\ Now.areas = areas /\ Now.size = size
  BY DEF AreasInv, Layout, Drawn, Now
<1>2. DOMAIN size = UNION {areas[a].list : a \in DOMAIN areas}
  <2>1. \A b : b \in DOMAIN size <=> \E a \in DOMAIN areas : b \in areas[a].list
    BY <1>1 DEF WellLaid
  <2>2. QED
    BY <2>1
<1>3. \A a, b \in DOMAIN areas : a # b => areas[a].list \cap areas[b].list = {}
  BY <1>1 DEF WellLaid
<1>4. \A a \in DOMAIN areas : areas[a].allocated = SumFunctionOnSet(size, areas[a].list)
  BY <1>1 DEF WellLaid, SumOf
<1>5. QED
  BY <1>2, <1>3, <1>4 DEF Accounted

LEMMA NothingLeft ==
  ASSUME AreasInv, phase = "closed"
  PROVE  DOMAIN areas = {"root"} /\ AreaSize("root") = 0
<1>1. DOMAIN areas = {"root"} /\ areas["root"].list = {}
  BY AreasListed DEF AreasIn, ListIn
<1>2. Now.areas = areas /\ WellLaid(Now) /\ Now.size = size
  BY DEF AreasInv, Layout, Drawn, Now
<1>3. areas["root"].allocated = 0
  BY <1>1, <1>2, SumOfNothing DEF WellLaid
<1>4. areas["root"].parent = None
  <2>1. Drawn(Now, ParentsIn(phase), ListsIn(phase, Kept(proom), DOMAIN tree, atmp))
    BY DEF AreasInv, Layout
  <2>2. areas["root"].parent = ParentsIn(phase)["root"]
    BY <1>1, <1>2, <2>1, DrawnIs
  <2>3. "root" \in AreasIn(phase)
    BY DEF AreasIn
  <2>4. QED
    BY <2>2, <2>3, LayoutIs DEF ParentOf
<1>5. Below(Now, "root") = {"root"} \cup {} \cup {}
  <2>1. /\ {} = {x \in DOMAIN Now.areas : Now.areas[x].parent = "root"}
        /\ {} = {x \in DOMAIN Now.areas : Now.areas[x].parent \in {}}
        /\ \A x \in DOMAIN Now.areas : Now.areas[x].parent \notin {}
    BY <1>1, <1>2, <1>4, NoneIsNoNode
  <2> DEFINE none == {}
  <2> HIDE DEF none
  <2>2. /\ none = {x \in DOMAIN Now.areas : Now.areas[x].parent = "root"}
        /\ none = {x \in DOMAIN Now.areas : Now.areas[x].parent \in none}
        /\ \A x \in DOMAIN Now.areas : Now.areas[x].parent \notin none
    BY <2>1 DEF none
  <2>3. Below(Now, "root") = {"root"} \cup none \cup none
    BY <2>2, BelowIs
  <2>4. QED
    BY <2>3 DEF none
<1> DEFINE f == [x \in DOMAIN areas |-> areas[x].allocated]
<1>6. f["root"] = 0
  BY <1>1, <1>3
<1>7. AreaSize("root") = SumOf(f, {"root"})
  <2>1. {"root"} \cup {} \cup {} = {"root"}
    OBVIOUS
  <2>2. AreaSize("root") = SumOf(f, Below(Now, "root"))
    BY DEF AreaSize, SumOf
  <2> HIDE DEF f
  <2>3. QED
    BY <1>5, <2>1, <2>2
<1> HIDE DEF f
<1>8. SumOf(f, {"root"}) = 0
  <2>1. IsFiniteSet({}) /\ {} \cup {"root"} = {"root"} /\ "root" \notin {}
    BY FS_EmptySet
  <2>2. SumOf(f, {} \cup {"root"}) = f["root"] + SumOf(f, {})
    BY <1>6, <2>1, SumAdded
  <2>3. QED
    BY <1>6, <2>1, <2>2, SumOfNothing
<1>9. QED
  BY <1>1, <1>7, <1>8

LEMMA AreasLoseNothing == AreasInv => NothingLost
<1> SUFFICES ASSUME AreasInv
             PROVE  NothingLost
  OBVIOUS
<1>1. /\ DOMAIN areas = AreasIn(phase)
      /\ \A x \in AreasIn(phase) : areas[x].list = ListIn(x, Kept(proom), DOMAIN tree, atmp)
  BY AreasListed
<1>2. phase = "exited" => areas = << >>
  <2>1. SUFFICES ASSUME phase = "exited"
                 PROVE  areas = << >>
    OBVIOUS
  <2>2. DOMAIN areas = {}
    BY <1>1, <2>1 DEF AreasIn
  <2>3. areas = [x \in DOMAIN areas |-> areas[x]]
    BY DEF AreasInv, Layout, Drawn, WellLaid, Now
  <2>4. QED
    BY <2>2, <2>3
<1>3. phase = "closed" => DOMAIN areas = {"root"} /\ AreaSize("root") = 0
  BY NothingLeft
<1>4. phase \in {"idle", "event"} =>
        /\ areas["conn"].list = {"c"} \cup Kept(proom)
        /\ "event" \in DOMAIN areas <=> phase = "event"
  BY <1>1 DEF AreasIn, ListIn
<1>5. phase = "event" => areas["event"].list = atmp
  BY <1>1 DEF AreasIn, ListIn
<1>6. QED
  BY <1>2, <1>3, <1>4, <1>5, AreasAccounted DEF NothingLost, Kept

(* The areas of atoms are the chunks of the table but for its structures.  *)
LEMMA AreasOfAtoms ==
  ASSUME AreasInv
  PROVE  DOMAIN tree = IF phase \in {"idle", "event"}
                       THEN areas["nicks"].list \ {"table"} ELSE {}
<1>1. phase \in {"idle", "event"} => areas["nicks"].list = {"table"} \cup DOMAIN tree
  BY AreasListed DEF AreasIn, ListIn
<1>2. DOMAIN tree \subseteq Area /\ "table" \notin Area
  BY MemoryAssumption DEF AreasInv, Layout
<1>3. phase \notin {"idle", "event"} => DOMAIN tree = {}
  BY DEF AreasInv
<1>4. QED
  BY <1>1, <1>2, <1>3

-----------------------------------------------------------------------------
(* The loop of ac_clean, atom after atom.                                  *)

Cleaning(s, f, it) ==
  it = [S \in SUBSET (DOMAIN s) |->
          IF S = {} THEN f ELSE CleanAtom(it[S \ {Max(S)}], s[Max(S)])]

LEMMA MaxOfInterval ==
  ASSUME NEW n \in Nat, NEW S, S \subseteq 1..(n + 1), n + 1 \in S
  PROVE  Max(S) = n + 1
<1>1. \A y \in S : n + 1 >= y
  OBVIOUS
<1>2. \A x \in S : (\A y \in S : x >= y) => x = n + 1
  OBVIOUS
<1>3. QED
  BY <1>1, <1>2 DEF Max

LEMMA CleaningExists ==
  ASSUME NEW s, NEW n \in Nat, DOMAIN s = 1..n, NEW f
  PROVE  \E it : Cleaning(s, f, it)
<1> DEFINE Body(it, S) == IF S = {} THEN f ELSE CleanAtom(it[S \ {Max(S)}], s[Max(S)])
           Upto(k, it) == it = [S \in SUBSET (1..k) |-> Body(it, S)]
           T == {k \in Nat : \E it : Upto(k, it)}
<1>1. 0 \in T
  <2> DEFINE it == [S \in SUBSET (1..0) |-> f]
  <2>1. \A S \in SUBSET (1..0) : S = {}
    OBVIOUS
  <2>2. Upto(0, it)
    BY <2>1
  <2> HIDE DEF Upto, it
  <2>3. QED
    BY <2>2
<1>2. ASSUME NEW k \in Nat, k \in T
      PROVE  k + 1 \in T
  <2>1. PICK it : Upto(k, it)
    BY <1>2
  <2> DEFINE more == [S \in SUBSET (1..(k + 1)) |->
                        IF k + 1 \in S THEN Body(it, S) ELSE it[S]]
  <2>2. \A S \in SUBSET (1..k) : more[S] = it[S] /\ it[S] = Body(it, S)
    <3>1. \A S \in SUBSET (1..k) : S \in SUBSET (1..(k + 1)) /\ k + 1 \notin S
      OBVIOUS
    <3>2. QED
      BY <2>1, <3>1
  <2>3. \A S \in SUBSET (1..(k + 1)) : more[S] = Body(more, S)
    <3>1. SUFFICES ASSUME NEW S \in SUBSET (1..(k + 1))
                   PROVE  more[S] = Body(more, S)
      BY Zenon
    <3>2. S \ {Max(S)} \in SUBSET (1..k) => more[S \ {Max(S)}] = it[S \ {Max(S)}]
      BY <2>2
    <3>3. CASE k + 1 \in S
      <4>1. Max(S) = k + 1
        BY <3>3, MaxOfInterval
      <4>2. S \ {Max(S)} \in SUBSET (1..k)
        <5>1. \A x \in S : x # k + 1 => x \in 1..k
          OBVIOUS
        <5>2. QED
          BY <4>1, <5>1
      <4>3. more[S] = Body(it, S)
        BY <3>3
      <4> HIDE DEF more
      <4>4. QED
        BY <3>2, <4>2, <4>3
    <3>4. CASE k + 1 \notin S
      <4>1. S \in SUBSET (1..k)
        <5>1. \A x \in S : x # k + 1 => x \in 1..k
          OBVIOUS
        <5>2. QED
          BY <3>4, <5>1
      <4>2. S \ {Max(S)} \in SUBSET (1..k)
        BY <4>1
      <4> HIDE DEF more
      <4>3. QED
        BY <2>2, <3>2, <4>1, <4>2
    <3>5. QED
      BY <3>3, <3>4
  <2>4. more = [S \in SUBSET (1..(k + 1)) |-> more[S]]
    OBVIOUS
  <2> HIDE DEF more, Body
  <2>5. Upto(k + 1, more)
    BY <2>3, <2>4
  <2> HIDE DEF Upto
  <2>6. QED
    BY <2>5
<1>3. Nat \subseteq T
  <2> HIDE DEF T
  <2>1. QED
    BY <1>1, <1>2, SetInduction
<1>4. \E it : Upto(n, it)
  BY <1>3
<1>5. QED
  BY <1>4 DEF Cleaning

(* What the loop has made after every atom. *)
CleanedBy(s, f, g) ==
  g[0] = f /\ \A k \in 1..Len(s) : g[k] = CleanAtom(g[k - 1], s[k])

LEMMA CleaningSteps ==
  ASSUME NEW S, NEW s \in Seq(S), NEW f, NEW it, Cleaning(s, f, it)
  PROVE  \E g : CleanedBy(s, f, g) /\ it[DOMAIN s] = g[Len(s)]
<1>1. PICK n \in Nat : n = Len(s) /\ DOMAIN s = 1..n
  BY LenProperties
<1> DEFINE g == [k \in 0..n |-> it[1..k]]
<1>2. \A k \in 0..n : g[k] = it[1..k]
  OBVIOUS
<1>3. it[{}] = f
  <2>1. {} \in SUBSET (DOMAIN s)
    OBVIOUS
  <2>2. QED
    BY <2>1 DEF Cleaning
<1>4. g[0] = f
  <2>1. 0 \in 0..n /\ 1..0 = {}
    OBVIOUS
  <2>2. QED
    BY <1>2, <1>3, <2>1
<1>5. ASSUME NEW k \in 1..n
      PROVE  g[k] = CleanAtom(g[k - 1], s[k])
  <2> DEFINE S2 == 1..k
  <2>1. k - 1 \in Nat /\ k - 1 \in 0..n /\ k \in 0..n /\ (k - 1) + 1 = k
    OBVIOUS
  <2>2. S2 \in SUBSET (DOMAIN s) /\ S2 # {}
    <3>1. S2 \in SUBSET (1..n) /\ k \in S2
      OBVIOUS
    <3>2. QED
      BY <1>1, <3>1, Zenon
  <2>3. Max(1..((k - 1) + 1)) = (k - 1) + 1
    <3>1. (k - 1) + 1 \in 1..((k - 1) + 1)
      BY <2>1
    <3>2. QED
      BY <2>1, <3>1, MaxOfInterval
  <2>4. Max(S2) = k
    BY <2>1, <2>3
  <2>5. S2 \ {k} = 1..(k - 1)
    OBVIOUS
  <2>6. g[k] = it[S2] /\ g[k - 1] = it[1..(k - 1)]
    BY <1>2, <2>1
  <2> HIDE DEF S2, g
  <2>7. it[S2] = CleanAtom(it[S2 \ {Max(S2)}], s[Max(S2)])
    BY <2>2 DEF Cleaning
  <2>8. QED
    BY <2>4, <2>5, <2>6, <2>7
<1>6. g[n] = it[DOMAIN s]
  BY <1>1, <1>2
<1> HIDE DEF g
<1>7. CleanedBy(s, f, g)
  BY <1>1, <1>4, <1>5 DEF CleanedBy
<1>8. QED
  BY <1>1, <1>6, <1>7

Scan(tr, kept, atom, area, lost) ==
  [tree |-> tr, kept |-> kept, free_atom |-> atom, free_area |-> area, wild |-> lost]

Result(s) == IF s.free_atom # {} THEN [s EXCEPT !.tree = Without(@, s.free_area)] ELSE s

LEMMA CleanedIs ==
  ASSUME NEW S, free_atoms \in Seq(S)
  PROVE  \E g : /\ CleanedBy(free_atoms, Scan(tree, << >>, {}, {}, FALSE), g)
                /\ Cleaned = Result(g[Len(free_atoms)])
<1> DEFINE base == [tree |-> tree, kept |-> << >>, free_atom |-> {}, free_area |-> {}, wild |-> FALSE]
           Iter(it) == it = [D \in SUBSET (DOMAIN free_atoms) |->
                              IF D = {} THEN base
                              ELSE CleanAtom(it[D \ {Max(D)}], free_atoms[Max(D)])]
           it0 == CHOOSE it : Iter(it)
           all == it0[DOMAIN free_atoms]
<1>1. Cleaned = Result(all)
  BY DEF Cleaned, FoldLeft, MapThenFoldSet, Result
<1>2. PICK n \in Nat : DOMAIN free_atoms = 1..n
  BY LenProperties
<1>3. \A it : Cleaning(free_atoms, base, it) <=> Iter(it)
  BY DEF Cleaning
<1>4. PICK it : Cleaning(free_atoms, base, it)
  BY <1>2, CleaningExists
<1>5. Iter(it0)
  <2>1. Iter(it)
    BY <1>3, <1>4
  <2> HIDE DEF Iter
  <2>2. QED
    BY <2>1
<1>6. Cleaning(free_atoms, base, it0)
  <2> HIDE DEF Iter, it0
  <2>1. QED
    BY <1>3, <1>5
<1>7. base = Scan(tree, << >>, {}, {}, FALSE)
  BY DEF Scan
<1> HIDE DEF it0, Iter, base
<1>8. PICK g : CleanedBy(free_atoms, base, g) /\ it0[DOMAIN free_atoms] = g[Len(free_atoms)]
  BY <1>6, CleaningSteps
<1>9. QED
  BY <1>1, <1>7, <1>8

(* What the loop makes of an atom, by the area the atom lies in.           *)
LEMMA ScanFields ==
  ASSUME NEW tr, NEW kept, NEW atom, NEW area, NEW lost
  PROVE  LET s == Scan(tr, kept, atom, area, lost)
         IN  /\ s.tree = tr /\ s.kept = kept /\ s.free_atom = atom
             /\ s.free_area = area /\ s.wild = lost
  BY DEF Scan

AreaRecord == [index : 0..nmemb, free_chunk : Deleted..nmemb]

LEMMA UsedAgainIs ==
  ASSUME NEW r \in AreaRecord
  PROVE  UsedAgain(r) = NewArea
<1>1. r = [index |-> r.index, free_chunk |-> r.free_chunk]
  BY DEF AreaRecord
<1>2. UsedAgain(r) = [[r EXCEPT !.index = 0] EXCEPT !.free_chunk = 0]
  BY DEF UsedAgain
<1>3. \A i, c : /\ [[index |-> i, free_chunk |-> c] EXCEPT !.index = 0] = [index |-> 0, free_chunk |-> c]
                /\ [[index |-> i, free_chunk |-> c] EXCEPT !.free_chunk = 0] = [index |-> i, free_chunk |-> 0]
  OBVIOUS
<1>4. [r EXCEPT !.index = 0] = [index |-> 0, free_chunk |-> r.free_chunk]
  BY <1>1, <1>3, SMTT(30)
<1>5. UsedAgain(r) = [index |-> 0, free_chunk |-> 0]
  BY <1>2, <1>3, <1>4, Zenon
<1>6. QED
  BY <1>5 DEF NewArea

(* Of the marked area the atom lies in: gone, or from its start again.     *)
Renewed(tr, a) == [tr EXCEPT ![a] = UsedAgain(@)]

Turn(s, x) ==
  LET a == x.area IN
  IF s.wild \/ a \notin DOMAIN s.tree THEN Scan(s.tree, s.kept, s.free_atom, s.free_area, TRUE)
  ELSE IF ~Found(s.tree, x) THEN s
  ELSE IF s.tree[a].free_chunk = Deleted
  THEN IF s.free_area # {}
       THEN Scan(Without(s.tree, {a}), s.kept, s.free_atom, s.free_area, s.wild)
       ELSE Scan(Renewed(s.tree, a), s.kept, s.free_atom, {a}, s.wild)
  ELSE IF s.free_atom = {}
  THEN Scan(s.tree, s.kept, {x}, s.free_area, s.wild)
  ELSE Scan(s.tree, Append(s.kept, x), s.free_atom, s.free_area, s.wild)

LEMMA CleanAtomIs ==
  ASSUME NEW tr, NEW kept, NEW atom, NEW area, NEW lost, NEW x
  PROVE  CleanAtom(Scan(tr, kept, atom, area, lost), x) = Turn(Scan(tr, kept, atom, area, lost), x)
<1> DEFINE s == Scan(tr, kept, atom, area, lost)
           a == x.area
<1>1. s.tree = tr /\ s.kept = kept /\ s.free_atom = atom /\ s.free_area = area /\ s.wild = lost
  BY ScanFields
<1>2. [s EXCEPT !.wild = TRUE] = Scan(s.tree, s.kept, s.free_atom, s.free_area, TRUE)
  <2> DEFINE v == TRUE
  <2> HIDE DEF v
  <2>1. [s EXCEPT !.wild = v] = Scan(tr, kept, atom, area, v)
    BY DEF Scan
  <2>2. QED
    BY <1>1, <2>1 DEF v
<1>3. [s EXCEPT !.tree = Without(@, {a})]
        = Scan(Without(s.tree, {a}), s.kept, s.free_atom, s.free_area, s.wild)
  <2> DEFINE v == Without(s.tree, {a})
  <2>1. [s EXCEPT !.tree = Without(@, {a})] = [s EXCEPT !.tree = v]
    OBVIOUS
  <2> HIDE DEF v
  <2>2. [s EXCEPT !.tree = v] = Scan(v, kept, atom, area, lost)
    BY DEF Scan
  <2>3. QED
    BY <1>1, <2>1, <2>2 DEF v
<1>4. [s EXCEPT !.tree[a] = UsedAgain(@), !.free_area = {a}]
        = Scan(Renewed(s.tree, a), s.kept, s.free_atom, {a}, s.wild)
  <2> DEFINE v == Renewed(s.tree, a)
  <2>1. [s EXCEPT !.tree[a] = UsedAgain(@), !.free_area = {a}]
          = [[s EXCEPT !.tree = v] EXCEPT !.free_area = {a}]
    BY DEF Renewed
  <2> HIDE DEF v
  <2>2. [s EXCEPT !.tree = v] = Scan(v, kept, atom, area, lost)
    BY DEF Scan
  <2>3. [Scan(v, kept, atom, area, lost) EXCEPT !.free_area = {a}] = Scan(v, kept, atom, {a}, lost)
    BY DEF Scan
  <2> HIDE DEF s
  <2>4. QED
    BY <1>1, <2>1, <2>2, <2>3 DEF v
<1>5. [s EXCEPT !.free_atom = {x}] = Scan(s.tree, s.kept, {x}, s.free_area, s.wild)
  <2>1. [s EXCEPT !.free_atom = {x}] = Scan(tr, kept, {x}, area, lost)
    BY DEF Scan
  <2>2. QED
    BY <1>1, <2>1
<1>6. [s EXCEPT !.kept = Append(@, x)]
        = Scan(s.tree, Append(s.kept, x), s.free_atom, s.free_area, s.wild)
  <2> DEFINE v == Append(s.kept, x)
  <2>1. [s EXCEPT !.kept = Append(@, x)] = [s EXCEPT !.kept = v]
    OBVIOUS
  <2> HIDE DEF v
  <2>2. [s EXCEPT !.kept = v] = Scan(tr, v, atom, area, lost)
    BY DEF Scan
  <2>3. QED
    BY <1>1, <2>1, <2>2 DEF v
<1> HIDE DEF s
<1>7. CleanAtom(s, x) = Turn(s, x)
  BY <1>2, <1>3, <1>4, <1>5, <1>6, Zenon DEF CleanAtom, Turn
<1>8. QED
  BY <1>7 DEF s

LEMMA DistinctIs ==
  ASSUME NEW S, NEW s \in Seq(S)
  PROVE  /\ IsInjective(s) <=> Distinct(s)
         /\ \A x : x \in ToSet(s) <=> Holds(s, x)
<1>1. DOMAIN s = 1..Len(s)
  OBVIOUS
<1>2. QED
  BY <1>1 DEF IsInjective, Distinct, ToSet, Holds

LEMMA DistinctMore ==
  ASSUME NEW S, NEW s \in Seq(S), NEW x \in S
  PROVE  /\ Append(s, x) \in Seq(S)
         /\ \A y : Holds(Append(s, x), y) <=> Holds(s, y) \/ y = x
         /\ Distinct(s) /\ ~Holds(s, x) => Distinct(Append(s, x))
<1> DEFINE n == Len(s)
           more == Append(s, x)
<1>1. n \in Nat /\ more \in Seq(S) /\ Len(more) = n + 1
      /\ more[n + 1] = x /\ \A i \in 1..n : more[i] = s[i]
  OBVIOUS
<1> HIDE DEF more, n
<1>2. \A i \in 1..(n + 1) : i = n + 1 \/ i \in 1..n
  BY <1>1
<1>3. \A i \in 1..n : i \in 1..(n + 1)
  BY <1>1
<1>4. n + 1 \in 1..(n + 1)
  BY <1>1
<1>5. \A y : Holds(more, y) <=> Holds(s, y) \/ y = x
  <2>1. \A y : Holds(more, y) <=> \E i \in 1..(n + 1) : more[i] = y
    BY <1>1 DEF Holds
  <2>2. \A y : Holds(s, y) <=> \E i \in 1..n : s[i] = y
    BY DEF Holds, n
  <2>3. QED
    BY <1>1, <1>2, <1>3, <1>4, <2>1, <2>2
<1>6. Distinct(s) /\ ~Holds(s, x) => Distinct(more)
  <2>1. SUFFICES ASSUME Distinct(s), ~Holds(s, x)
                 PROVE  Distinct(more)
    OBVIOUS
  <2>2. \A i \in 1..n : s[i] # x
    BY <2>1 DEF Holds, n
  <2>3. \A i, j \in 1..n : s[i] = s[j] => i = j
    BY <2>1 DEF Distinct, n
  <2>4. ASSUME NEW i \in 1..(n + 1), NEW j \in 1..(n + 1), more[i] = more[j]
        PROVE  i = j
    BY <1>1, <1>2, <2>2, <2>3, <2>4
  <2>5. QED
    BY <1>1, <2>4 DEF Distinct
<1>7. QED
  BY <1>1, <1>5, <1>6 DEF more

(* The areas and free atoms that the loop starts from. *)
Marked(t, a) == t[a].free_chunk = Deleted

Sound(t, F) ==
  /\ DOMAIN t \subseteq Area
  /\ \A a \in DOMAIN t : t[a] \in AreaRecord
  /\ F \in Seq(Atoms)
  /\ Distinct(F)
  /\ \A i \in 1..Len(F) : Found(t, F[i])

(* What the loop has made of them after k atoms: an area that is not       *)
(* marked is as it was; of the marked ones at most one is used again, and  *)
(* what remains is as it was.  Unless it followed a freed atom, it kept    *)
(* the free atoms of the areas that are not marked, but one to hand out,   *)
(* and the marked areas it has seen an atom of are gone or used again.     *)
Remains(t, s) ==
  /\ s = Scan(s.tree, s.kept, s.free_atom, s.free_area, s.wild)
  /\ s.wild \in BOOLEAN
  /\ s.tree = [a \in DOMAIN s.tree |-> s.tree[a]]
  /\ DOMAIN s.tree \subseteq DOMAIN t
  /\ s.kept \in Seq(Atoms)
  /\ \A a \in DOMAIN t : ~Marked(t, a) => a \in DOMAIN s.tree /\ s.tree[a] = t[a]
  /\ \A a \in DOMAIN s.tree : a \notin s.free_area => s.tree[a] = t[a]
  /\ \A a \in s.free_area : a \in DOMAIN s.tree /\ Marked(t, a) /\ s.tree[a] = NewArea
  /\ \A a, b \in s.free_area : a = b

Live(t, F, k, x) == \E i \in 1..k : F[i] = x /\ ~Marked(t, x.area)

Sorted(t, F, k, s) ==
  /\ \A i \in 1..k : Marked(t, F[i].area) => F[i].area \in s.free_area \/ F[i].area \notin DOMAIN s.tree
  /\ \A x : Holds(s.kept, x) \/ x \in s.free_atom <=> Live(t, F, k, x)
  /\ \A x \in s.free_atom : ~Holds(s.kept, x)
  /\ \A x, y \in s.free_atom : x = y
  /\ Distinct(s.kept)
  /\ s.free_atom = {} => s.kept = << >>

Scanned(t, F, k, s) == Remains(t, s) /\ (~s.wild => Sorted(t, F, k, s))

LEMMA SoundAtom ==
  ASSUME NEW t, NEW F, Sound(t, F), NEW k \in 1..Len(F)
  PROVE  /\ F[k] \in Atoms /\ F[k].area \in DOMAIN t /\ t[F[k].area] \in AreaRecord
         /\ F[k].offset < t[F[k].area].index /\ F[k].offset \in 0..(nmemb - 1)
<1>1. F[k] \in Atoms
  BY DEF Sound
<1>2. F[k].area \in DOMAIN t /\ F[k].offset < t[F[k].area].index
  BY DEF Sound, Found
<1>3. \E a \in Area : F[k] \in {Atom(a, i) : i \in 0..(nmemb - 1)}
  BY <1>1 DEF Atoms, AtomsOf
<1>4. F[k].offset \in 0..(nmemb - 1)
  BY <1>3 DEF Atom
<1>5. QED
  BY <1>1, <1>2, <1>4 DEF Sound

LEMMA ScanStart ==
  ASSUME NEW t, NEW F, Sound(t, F), t = [a \in DOMAIN t |-> t[a]]
  PROVE  Scanned(t, F, 0, Scan(t, << >>, {}, {}, FALSE))
<1> DEFINE s == Scan(t, << >>, {}, {}, FALSE)
<1>1. s.tree = t /\ s.kept = << >> /\ s.free_atom = {} /\ s.free_area = {} /\ s.wild = FALSE
  BY DEF Scan
<1>2. s = Scan(s.tree, s.kept, s.free_atom, s.free_area, s.wild)
  BY <1>1
<1> HIDE DEF s
<1>3. Remains(t, s)
  <2>1. << >> \in Seq(Atoms)
    OBVIOUS
  <2>2. QED
    BY <1>1, <1>2, <2>1 DEF Remains
<1>4. Sorted(t, F, 0, s)
  <2>1. Len(<< >>) = 0 /\ 1..0 = {}
    OBVIOUS
  <2>2. QED
    BY <1>1, <2>1 DEF Sorted, Live, Holds, Distinct
<1>5. QED
  BY <1>3, <1>4 DEF Scanned, s

LEMMA LiveNext ==
  ASSUME NEW t, NEW F, NEW k \in Nat, NEW x
  PROVE  Live(t, F, k + 1, x) <=> Live(t, F, k, x) \/ (x = F[k + 1] /\ ~Marked(t, x.area))
<1>1. \A i \in 1..(k + 1) : i = k + 1 \/ i \in 1..k
  OBVIOUS
<1>2. k + 1 \in 1..(k + 1) /\ \A i \in 1..k : i \in 1..(k + 1)
  OBVIOUS
<1>3. QED
  BY <1>1, <1>2 DEF Live

(* An atom found in an area that is not marked. *)
LEMMA ScanLive ==
  ASSUME NEW t, NEW F, Sound(t, F), NEW k \in Nat, k + 1 \in 1..Len(F),
         NEW s, Scanned(t, F, k, s), ~s.wild, NEW x, x = F[k + 1],
         NEW r,
         r = IF s.free_atom = {}
             THEN Scan(s.tree, s.kept, {x}, s.free_area, s.wild)
             ELSE Scan(s.tree, Append(s.kept, x), s.free_atom, s.free_area, s.wild),
         ~Marked(t, x.area)
  PROVE  Scanned(t, F, k + 1, r)
<1>1. Remains(t, s) /\ Sorted(t, F, k, s)
  BY DEF Scanned
<1>2. x \in Atoms
  BY SoundAtom
<1>3. /\ r.tree = s.tree /\ r.free_area = s.free_area /\ r.wild = s.wild
      /\ r.kept = IF s.free_atom = {} THEN s.kept ELSE Append(s.kept, x)
      /\ r.free_atom = IF s.free_atom = {} THEN {x} ELSE s.free_atom
      /\ r = Scan(r.tree, r.kept, r.free_atom, r.free_area, r.wild)
  <2>1. CASE s.free_atom = {}
    <3>1. r = Scan(s.tree, s.kept, {x}, s.free_area, s.wild)
      BY <2>1
    <3>2. /\ r.tree = s.tree /\ r.free_area = s.free_area /\ r.wild = s.wild
          /\ r.kept = s.kept /\ r.free_atom = {x}
      BY <3>1, ScanFields
    <3>3. QED
      BY <2>1, <3>1, <3>2
  <2>2. CASE s.free_atom # {}
    <3>1. r = Scan(s.tree, Append(s.kept, x), s.free_atom, s.free_area, s.wild)
      BY <2>2
    <3>2. /\ r.tree = s.tree /\ r.free_area = s.free_area /\ r.wild = s.wild
          /\ r.kept = Append(s.kept, x) /\ r.free_atom = s.free_atom
      BY <3>1 DEF Scan
    <3>3. QED
      BY <2>2, <3>1, <3>2
  <2>3. QED
    BY <2>1, <2>2
<1>4. ~Holds(s.kept, x) /\ x \notin s.free_atom
  <2>1. ~Live(t, F, k, x)
    <3>0. Len(F) \in Nat
      BY LenProperties DEF Sound
    <3>1. \A i \in 1..k : i \in 1..Len(F) /\ i # k + 1
      BY <3>0
    <3>2. \A i \in 1..k : F[i] # F[k + 1]
      BY <3>1 DEF Sound, Distinct
    <3>3. QED
      BY <3>2 DEF Live
  <2>2. QED
    BY <1>1, <2>1 DEF Sorted
<1>5. s.kept \in Seq(Atoms)
  BY <1>1 DEF Remains
<1>6. /\ Append(s.kept, x) \in Seq(Atoms)
      /\ \A y : Holds(Append(s.kept, x), y) <=> Holds(s.kept, y) \/ y = x
      /\ Distinct(s.kept) => Distinct(Append(s.kept, x))
  BY <1>2, <1>4, <1>5, DistinctMore
<1>7. Remains(t, r)
  <2>1. r.kept \in Seq(Atoms)
    BY <1>3, <1>5, <1>6
  <2>2. QED
    BY <1>1, <1>3, <2>1, ZenonT(30) DEF Remains
<1>8. Sorted(t, F, k + 1, r)
  <2>1. \A i \in 1..(k + 1) : Marked(t, F[i].area) =>
          F[i].area \in r.free_area \/ F[i].area \notin DOMAIN r.tree
    <3>1. \A i \in 1..(k + 1) : i = k + 1 \/ i \in 1..k
      OBVIOUS
    <3>2. QED
      BY <1>1, <1>3, <3>1 DEF Sorted
  <2>2. \A y : Holds(r.kept, y) \/ y \in r.free_atom <=> Live(t, F, k + 1, y)
    <3>1. SUFFICES ASSUME NEW y
                   PROVE  Holds(r.kept, y) \/ y \in r.free_atom <=> Live(t, F, k + 1, y)
      OBVIOUS
    <3>2. Live(t, F, k + 1, y) <=> Live(t, F, k, y) \/ y = x
      BY LiveNext
    <3>3. Holds(s.kept, y) \/ y \in s.free_atom <=> Live(t, F, k, y)
      BY <1>1 DEF Sorted
    <3>4. Holds(r.kept, y) \/ y \in r.free_atom <=> Holds(s.kept, y) \/ y \in s.free_atom \/ y = x
      <4>1. CASE s.free_atom = {}
        BY <1>3, <4>1
      <4>2. CASE s.free_atom # {}
        BY <1>3, <1>6, <4>2
      <4>3. QED
        BY <4>1, <4>2
    <3>5. QED
      BY <3>2, <3>3, <3>4
  <2>3. \A y \in r.free_atom : ~Holds(r.kept, y)
    <3>1. CASE s.free_atom = {}
      BY <1>3, <1>4, <3>1
    <3>2. CASE s.free_atom # {}
      BY <1>1, <1>3, <1>4, <1>6, <3>2 DEF Sorted
    <3>3. QED
      BY <3>1, <3>2
  <2>4. \A y, z \in r.free_atom : y = z
    BY <1>1, <1>3 DEF Sorted
  <2>5. Distinct(r.kept)
    BY <1>1, <1>3, <1>6 DEF Sorted
  <2>6. r.free_atom # {}
    BY <1>3
  <2>7. QED
    BY <2>1, <2>2, <2>3, <2>4, <2>5, <2>6 DEF Sorted
<1>9. QED
  BY <1>7, <1>8 DEF Scanned

(* The free atoms stay what they are: an atom of a marked area.            *)
LEMMA ScanMarked ==
  ASSUME NEW t, NEW F, Sound(t, F), NEW k \in Nat, k + 1 \in 1..Len(F),
         NEW s, Scanned(t, F, k, s), ~s.wild, NEW x, x = F[k + 1],
         NEW r, Remains(t, r), ~r.wild,
         r.kept = s.kept, r.free_atom = s.free_atom,
         Marked(t, x.area), x.area \in r.free_area \/ x.area \notin DOMAIN r.tree,
         s.free_area \subseteq r.free_area, DOMAIN r.tree \subseteq DOMAIN s.tree
  PROVE  Scanned(t, F, k + 1, r)
<1>1. Sorted(t, F, k, s)
  BY DEF Scanned
<1>2. \A i \in 1..(k + 1) : i = k + 1 \/ i \in 1..k
  OBVIOUS
<1>3. \A i \in 1..(k + 1) : Marked(t, F[i].area) =>
        F[i].area \in r.free_area \/ F[i].area \notin DOMAIN r.tree
  BY <1>1, <1>2 DEF Sorted
<1>4. \A y : Live(t, F, k + 1, y) <=> Live(t, F, k, y)
  BY LiveNext
<1>5. Sorted(t, F, k + 1, r)
  BY <1>1, <1>3, <1>4 DEF Sorted
<1>6. QED
  BY <1>5 DEF Scanned

LEMMA ScanStep ==
  ASSUME NEW t, NEW F, Sound(t, F), NEW k \in Nat, k + 1 \in 1..Len(F),
         NEW s, Scanned(t, F, k, s)
  PROVE  Scanned(t, F, k + 1, CleanAtom(s, F[k + 1]))
<1> DEFINE x == F[k + 1]
           a == x.area
           r == Turn(s, x)
<1>1. Remains(t, s)
  BY DEF Scanned
<1>2. CleanAtom(s, x) = r
  <2>1. s = Scan(s.tree, s.kept, s.free_atom, s.free_area, s.wild)
    BY <1>1 DEF Remains
  <2> HIDE DEF x, r
  <2>2. QED
    BY <2>1, CleanAtomIs DEF r
<1>3. /\ x \in Atoms /\ a \in DOMAIN t /\ t[a] \in AreaRecord
      /\ x.offset < t[a].index /\ x.offset \in 0..(nmemb - 1)
  BY SoundAtom
<1> HIDE DEF x, a
<1>4. CASE s.wild \/ a \notin DOMAIN s.tree
  <2>1. r = Scan(s.tree, s.kept, s.free_atom, s.free_area, TRUE)
    BY <1>4 DEF Turn, a
  <2>2. /\ r.tree = s.tree /\ r.kept = s.kept /\ r.free_atom = s.free_atom
        /\ r.free_area = s.free_area /\ r.wild = TRUE
    BY <2>1 DEF Scan
  <2>3. r = Scan(r.tree, r.kept, r.free_atom, r.free_area, r.wild)
    BY <2>1, <2>2
  <2> HIDE DEF r
  <2>4. Remains(t, r)
    BY <1>1, <2>2, <2>3 DEF Remains
  <2>5. QED
    BY <1>2, <2>2, <2>4 DEF Scanned, x
<1>5. CASE ~s.wild /\ a \in DOMAIN s.tree /\ ~Found(s.tree, x)
  <2>1. r = s
    BY <1>5 DEF Turn, a
  <2>2. Marked(t, a) /\ a \in s.free_area
    <3>1. s.tree[a] # t[a]
      BY <1>3, <1>5 DEF Found, a
    <3>2. QED
      BY <1>1, <1>5, <3>1 DEF Remains
  <2> HIDE DEF r
  <2>3. Scanned(t, F, k + 1, s)
    BY <1>1, <1>5, <2>2, ScanMarked DEF x, a
  <2>4. QED
    BY <1>2, <2>1, <2>3 DEF x
<1>6. CASE ~s.wild /\ Found(s.tree, x) /\ s.tree[a].free_chunk = Deleted
  <2>1. a \in DOMAIN s.tree
    BY <1>6 DEF Found, a
  <2>2. a \notin s.free_area
    <3>1. NewArea.free_chunk # Deleted
      BY DEF NewArea, Deleted
    <3>2. QED
      BY <1>1, <1>6, <3>1 DEF Remains
  <2>3. s.tree[a] = t[a] /\ Marked(t, a)
    BY <1>1, <1>6, <2>1, <2>2 DEF Remains, Marked
  <2>4. CASE s.free_area # {}
    <3>1. r = Scan(Without(s.tree, {a}), s.kept, s.free_atom, s.free_area, s.wild)
      BY <1>6, <2>1, <2>4 DEF Turn, a
    <3>2. /\ r.tree = Without(s.tree, {a}) /\ r.kept = s.kept /\ r.free_atom = s.free_atom
          /\ r.free_area = s.free_area /\ r.wild = s.wild
      BY <3>1, ScanFields
    <3>3. r = Scan(r.tree, r.kept, r.free_atom, r.free_area, r.wild)
      BY <3>1, <3>2
    <3>4. /\ DOMAIN r.tree = DOMAIN s.tree \ {a}
          /\ r.tree = [b \in DOMAIN r.tree |-> r.tree[b]]
          /\ \A b \in DOMAIN r.tree : r.tree[b] = s.tree[b]
      BY <3>2 DEF Without
    <3> HIDE DEF r
    <3>5. Remains(t, r)
      <4>1. /\ r.wild \in BOOLEAN /\ r.kept \in Seq(Atoms) /\ DOMAIN r.tree \subseteq DOMAIN t
        BY <1>1, <3>2, <3>4 DEF Remains
      <4>2. \A b \in DOMAIN t : ~Marked(t, b) => b \in DOMAIN r.tree /\ r.tree[b] = t[b]
        BY <1>1, <2>3, <3>4 DEF Remains
      <4>3. \A b \in DOMAIN r.tree : b \notin r.free_area => r.tree[b] = t[b]
        BY <1>1, <3>2, <3>4 DEF Remains
      <4>4. \A b \in r.free_area : b \in DOMAIN r.tree /\ Marked(t, b) /\ r.tree[b] = NewArea
        BY <1>1, <2>2, <3>2, <3>4 DEF Remains
      <4>5. \A b, c \in r.free_area : b = c
        BY <1>1, <3>2 DEF Remains
      <4>6. QED
        BY <3>3, <3>4, <4>1, <4>2, <4>3, <4>4, <4>5 DEF Remains
    <3>6. Scanned(t, F, k + 1, r)
      BY <1>6, <2>3, <3>2, <3>4, <3>5, ScanMarked DEF x, a
    <3>7. QED
      BY <1>2, <3>6 DEF x
  <2>5. CASE s.free_area = {}
    <3>1. r = Scan(Renewed(s.tree, a), s.kept, s.free_atom, {a}, s.wild)
      BY <1>6, <2>1, <2>5 DEF Turn, a
    <3>2. /\ r.tree = Renewed(s.tree, a) /\ r.kept = s.kept /\ r.free_atom = s.free_atom
          /\ r.free_area = {a} /\ r.wild = s.wild
      BY <3>1, ScanFields
    <3>3. r = Scan(r.tree, r.kept, r.free_atom, r.free_area, r.wild)
      BY <3>1, <3>2
    <3>4. /\ DOMAIN r.tree = DOMAIN s.tree
          /\ r.tree = [b \in DOMAIN r.tree |-> r.tree[b]]
          /\ \A b \in DOMAIN r.tree : b # a => r.tree[b] = s.tree[b]
          /\ r.tree[a] = NewArea
      <4>1. UsedAgain(s.tree[a]) = NewArea
        BY <1>3, <2>3, UsedAgainIs
      <4>2. QED
        BY <1>1, <2>1, <3>2, <4>1 DEF Renewed, Remains
    <3> HIDE DEF r
    <3>5. Remains(t, r)
      <4>1. /\ r.wild \in BOOLEAN /\ r.kept \in Seq(Atoms) /\ DOMAIN r.tree \subseteq DOMAIN t
        BY <1>1, <3>2, <3>4 DEF Remains
      <4>2. \A b \in DOMAIN t : ~Marked(t, b) => b \in DOMAIN r.tree /\ r.tree[b] = t[b]
        BY <1>1, <2>3, <3>4 DEF Remains
      <4>3. \A b \in DOMAIN r.tree : b \notin r.free_area => r.tree[b] = t[b]
        BY <1>1, <2>5, <3>2, <3>4 DEF Remains
      <4>4. \A b \in r.free_area : b \in DOMAIN r.tree /\ Marked(t, b) /\ r.tree[b] = NewArea
        BY <2>1, <2>3, <3>2, <3>4
      <4>5. \A b, c \in r.free_area : b = c
        BY <3>2
      <4>6. QED
        BY <3>3, <3>4, <4>1, <4>2, <4>3, <4>4, <4>5 DEF Remains
    <3>6. Scanned(t, F, k + 1, r)
      BY <1>6, <2>3, <2>5, <3>2, <3>4, <3>5, ScanMarked DEF x, a
    <3>7. QED
      BY <1>2, <3>6 DEF x
  <2>6. QED
    BY <2>4, <2>5
<1>7. CASE ~s.wild /\ Found(s.tree, x) /\ s.tree[a].free_chunk # Deleted
  <2>1. a \in DOMAIN s.tree /\ x.offset < s.tree[a].index
    BY <1>7 DEF Found, a
  <2>2. a \notin s.free_area
    <3>1. NewArea.index = 0 /\ ~(x.offset < 0)
      BY <1>3, AreaChunkAssumption DEF NewArea
    <3>2. QED
      BY <1>1, <2>1, <3>1 DEF Remains
  <2>3. s.tree[a] = t[a] /\ ~Marked(t, a)
    BY <1>1, <1>7, <2>1, <2>2 DEF Remains, Marked
  <2>4. r = IF s.free_atom = {}
            THEN Scan(s.tree, s.kept, {x}, s.free_area, s.wild)
            ELSE Scan(s.tree, Append(s.kept, x), s.free_atom, s.free_area, s.wild)
    BY <1>7, <2>1 DEF Turn, a
  <2> HIDE DEF r
  <2>5. Scanned(t, F, k + 1, r)
    BY <1>7, <2>3, <2>4, ScanLive DEF x, a
  <2>6. QED
    BY <1>2, <2>5 DEF x
<1>8. QED
  BY <1>4, <1>5, <1>6, <1>7

-----------------------------------------------------------------------------
(* The count of an area, by the atoms in use and the free ones.            *)
Of(t, X, a) == {i \in 0..(t[a].index - 1) : Atom(a, i) \in X}

Counted(t, H, X, a) ==
  /\ Of(t, H, a) \cup Of(t, X, a) = 0..(t[a].index - 1)
  /\ t[a].free_chunk = IF Of(t, X, a) # {} /\ Of(t, H, a) = {}
                       THEN Deleted ELSE Cardinality(Of(t, X, a))

Right(t, H, X) ==
  /\ t = [a \in DOMAIN t |-> t[a]] /\ DOMAIN t \subseteq Area
  /\ \A a \in DOMAIN t : t[a] \in AreaRecord
  /\ H \subseteq Atoms /\ X \subseteq Atoms /\ H \cap X = {}
  /\ \A x \in H \cup X : Found(t, x)
  /\ \A a \in DOMAIN t : Counted(t, H, X, a)

LEMMA AtomIs ==
  ASSUME NEW x \in Atoms
  PROVE  x = Atom(x.area, x.offset) /\ x.area \in Area /\ x.offset \in 0..(nmemb - 1)
<1>1. \E a \in Area : x \in {Atom(a, i) : i \in 0..(nmemb - 1)}
  BY DEF Atoms, AtomsOf
<1>2. QED
  BY <1>1 DEF Atom

LEMMA AtomOf ==
  ASSUME NEW a \in Area, NEW i \in 0..(nmemb - 1)
  PROVE  Atom(a, i) \in Atoms /\ Atom(a, i).area = a /\ Atom(a, i).offset = i
  BY DEF Atom, Atoms, AtomsOf

LEMMA OfIsFinite ==
  ASSUME NEW t, NEW X, NEW a, t[a] \in AreaRecord
  PROVE  /\ IsFiniteSet(Of(t, X, a)) /\ Cardinality(Of(t, X, a)) \in Nat
         /\ t[a].index \in 0..nmemb
         /\ Of(t, X, a) \subseteq 0..(t[a].index - 1)
         /\ Cardinality(Of(t, X, a)) <= t[a].index
         /\ IsFiniteSet(0..(t[a].index - 1)) /\ Cardinality(0..(t[a].index - 1)) = t[a].index
<1> DEFINE m == t[a].index
<1>1. m \in 0..nmemb /\ 0 \in Int /\ m - 1 \in Int
  BY AreaChunkAssumption DEF AreaRecord
<1>2. IsFiniteSet(0..(m - 1)) /\ Cardinality(0..(m - 1)) = IF 0 > m - 1 THEN 0 ELSE (m - 1) - 0 + 1
  BY <1>1, FS_Interval
<1>3. Cardinality(0..(m - 1)) = m
  BY <1>1, <1>2
<1>4. Of(t, X, a) \subseteq 0..(m - 1)
  BY DEF Of
<1>5. IsFiniteSet(Of(t, X, a)) /\ Cardinality(Of(t, X, a)) <= Cardinality(0..(m - 1))
  BY <1>2, <1>4, FS_Subset
<1>6. Cardinality(Of(t, X, a)) \in Nat
  BY <1>5, FS_CardinalityType
<1>7. QED
  BY <1>1, <1>2, <1>3, <1>4, <1>5, <1>6

(* An atom in use lies in an area that is not marked, a marked area has a  *)
(* free atom.                                                              *)
LEMMA RightAtoms ==
  ASSUME NEW t, NEW H, NEW X, Right(t, H, X)
  PROVE  /\ \A x \in H \cup X : /\ x.area \in DOMAIN t /\ x = Atom(x.area, x.offset)
                                /\ x.offset \in 0..(t[x.area].index - 1)
         /\ \A x \in H : x.offset \in Of(t, H, x.area) /\ ~Marked(t, x.area)
         /\ \A x \in X : x.offset \in Of(t, X, x.area)
         /\ \A a \in DOMAIN t : Marked(t, a) => \E x \in X : x.area = a
<1>1. \A x \in H \cup X : /\ x.area \in DOMAIN t /\ x = Atom(x.area, x.offset)
                          /\ x.offset \in 0..(t[x.area].index - 1)
  <2>1. SUFFICES ASSUME NEW x \in H \cup X
                 PROVE  /\ x.area \in DOMAIN t /\ x = Atom(x.area, x.offset)
                        /\ x.offset \in 0..(t[x.area].index - 1)
    OBVIOUS
  <2>2. x \in Atoms /\ Found(t, x)
    BY DEF Right
  <2>3. x = Atom(x.area, x.offset) /\ x.offset \in Int /\ 0 <= x.offset
    BY <2>2, AtomIs, AreaChunkAssumption
  <2>4. x.area \in DOMAIN t /\ x.offset < t[x.area].index
    BY <2>2 DEF Found
  <2>5. t[x.area].index \in Int
    BY <2>4, AreaChunkAssumption DEF Right, AreaRecord
  <2>6. QED
    BY <2>3, <2>4, <2>5
<1>2. /\ \A x \in H : x.offset \in Of(t, H, x.area)
      /\ \A x \in X : x.offset \in Of(t, X, x.area)
  BY <1>1 DEF Of
<1>3. \A a \in DOMAIN t : Marked(t, a) <=> Of(t, X, a) # {} /\ Of(t, H, a) = {}
  <2>1. SUFFICES ASSUME NEW a \in DOMAIN t
                 PROVE  Marked(t, a) <=> Of(t, X, a) # {} /\ Of(t, H, a) = {}
    OBVIOUS
  <2>2. Cardinality(Of(t, X, a)) \in Nat
    BY OfIsFinite DEF Right
  <2>3. t[a].free_chunk = IF Of(t, X, a) # {} /\ Of(t, H, a) = {}
                          THEN Deleted ELSE Cardinality(Of(t, X, a))
    BY DEF Right, Counted
  <2>4. QED
    BY <2>2, <2>3 DEF Marked, Deleted
<1>4. \A x \in H : ~Marked(t, x.area)
  BY <1>1, <1>2, <1>3
<1>5. ASSUME NEW a \in DOMAIN t, Marked(t, a)
      PROVE  \E x \in X : x.area = a
  <2>1. PICK i \in Of(t, X, a) : TRUE
    BY <1>3, <1>5
  <2>2. Atom(a, i) \in X
    BY <2>1 DEF Of
  <2>3. Atom(a, i).area = a
    BY DEF Atom
  <2>4. QED
    BY <2>2, <2>3
<1>6. QED
  BY <1>1, <1>2, <1>4, <1>5

(* What is left after the loop.                                            *)
LEMMA LeftIs ==
  ASSUME NEW t, NEW F, NEW H, Sound(t, F), Right(t, H, ToSet(F)),
         NEW s, Scanned(t, F, Len(F), s), ~s.wild
  PROVE  /\ \A a \in DOMAIN s.tree : \/ ~Marked(t, a) /\ s.tree[a] = t[a] /\ a \notin s.free_area
                                     \/ Marked(t, a) /\ s.tree[a] = NewArea /\ a \in s.free_area
         /\ \A x : x \in ToSet(s.kept) \cup s.free_atom <=> x \in ToSet(F) /\ ~Marked(t, x.area)
<1>1. Remains(t, s) /\ Sorted(t, F, Len(F), s)
  BY DEF Scanned
<1>2. \A x : x \in ToSet(F) <=> Holds(F, x)
  BY DistinctIs DEF Sound
<1>3. \A x : x \in ToSet(s.kept) <=> Holds(s.kept, x)
  BY <1>1, DistinctIs DEF Remains
<1>4. ASSUME NEW a \in DOMAIN s.tree
      PROVE  \/ ~Marked(t, a) /\ s.tree[a] = t[a] /\ a \notin s.free_area
             \/ Marked(t, a) /\ s.tree[a] = NewArea /\ a \in s.free_area
  <2>1. CASE a \in s.free_area
    BY <1>1, <2>1 DEF Remains
  <2>2. CASE a \notin s.free_area
    <3>1. s.tree[a] = t[a] /\ a \in DOMAIN t
      BY <1>1, <2>2 DEF Remains
    <3>2. ~Marked(t, a)
      <4>1. SUFFICES ASSUME Marked(t, a)
                     PROVE  FALSE
        OBVIOUS
      <4>2. PICK x \in ToSet(F) : x.area = a
        BY <3>1, <4>1, RightAtoms
      <4>3. PICK i \in 1..Len(F) : F[i] = x
        BY <1>2 DEF Holds
      <4>4. a \in s.free_area \/ a \notin DOMAIN s.tree
        BY <1>1, <4>1, <4>2, <4>3 DEF Sorted
      <4>5. QED
        BY <1>4, <2>2, <4>4
    <3>3. QED
      BY <2>2, <3>1, <3>2
  <2>3. QED
    BY <2>1, <2>2
<1>5. ASSUME NEW x
      PROVE  x \in ToSet(s.kept) \cup s.free_atom <=> x \in ToSet(F) /\ ~Marked(t, x.area)
  <2>1. Holds(s.kept, x) \/ x \in s.free_atom <=> Live(t, F, Len(F), x)
    BY <1>1 DEF Sorted
  <2>2. Live(t, F, Len(F), x) <=> Holds(F, x) /\ ~Marked(t, x.area)
    BY DEF Live, Holds
  <2>3. QED
    BY <1>2, <1>3, <2>1, <2>2
<1>6. QED
  BY <1>4, <1>5

Agree(u, v) == \A a \in DOMAIN u : u[a] = v[a]

LEMMA ResultIs ==
  ASSUME NEW t, NEW s, Remains(t, s)
  PROVE  /\ Result(s).kept = s.kept /\ Result(s).free_atom = s.free_atom
         /\ Result(s).free_area = s.free_area /\ Result(s).wild = s.wild
         /\ DOMAIN Result(s).tree = IF s.free_atom # {} THEN DOMAIN s.tree \ s.free_area ELSE DOMAIN s.tree
         /\ Agree(Result(s).tree, s.tree)
         /\ Result(s).tree = [a \in DOMAIN Result(s).tree |-> Result(s).tree[a]]
<1> DEFINE v == Without(s.tree, s.free_area)
<1>1. s = Scan(s.tree, s.kept, s.free_atom, s.free_area, s.wild)
      /\ s.tree = [a \in DOMAIN s.tree |-> s.tree[a]]
  BY DEF Remains
<1>2. \A z : z = Scan(s.tree, s.kept, s.free_atom, s.free_area, s.wild) =>
              [z EXCEPT !.tree = v] = Scan(v, s.kept, s.free_atom, s.free_area, s.wild)
  <2> DEFINE p == s.tree
             q == s.kept
             u == s.free_atom
             w == s.free_area
             y == s.wild
  <2> HIDE DEF v, p, q, u, w, y
  <2>1. \A z : z = Scan(p, q, u, w, y) => [z EXCEPT !.tree = v] = Scan(v, q, u, w, y)
    BY DEF Scan
  <2>2. QED
    BY <2>1, Zenon DEF p, q, u, w, y
<1>3. [s EXCEPT !.tree = v] = Scan(v, s.kept, s.free_atom, s.free_area, s.wild)
  <2> HIDE DEF v
  <2>1. QED
    BY <1>1, <1>2, Zenon
<1>4. CASE s.free_atom = {}
  <2>1. Result(s) = s
    BY <1>4 DEF Result
  <2>2. QED
    BY <1>1, <1>4, <2>1 DEF Agree
<1>5. CASE s.free_atom # {}
  <2>1. Result(s) = Scan(v, s.kept, s.free_atom, s.free_area, s.wild)
    BY <1>3, <1>5 DEF Result
  <2>2. /\ DOMAIN v = DOMAIN s.tree \ s.free_area
        /\ v = [a \in DOMAIN v |-> v[a]]
        /\ \A a \in DOMAIN v : v[a] = s.tree[a]
    BY DEF Without
  <2> HIDE DEF v
  <2>3. /\ Result(s).tree = v /\ Result(s).kept = s.kept /\ Result(s).free_atom = s.free_atom
        /\ Result(s).free_area = s.free_area /\ Result(s).wild = s.wild
    BY <2>1, ScanFields
  <2>4. QED
    BY <1>5, <2>2, <2>3 DEF Agree
<1>6. QED
  BY <1>4, <1>5


(* The whole loop. *)
LEMMA CleanedScan ==
  ASSUME Sound(tree, free_atoms), tree = [a \in DOMAIN tree |-> tree[a]]
  PROVE  \E s : Scanned(tree, free_atoms, Len(free_atoms), s) /\ Cleaned = Result(s)
<1> DEFINE n == Len(free_atoms)
<1>1. free_atoms \in Seq(Atoms) /\ n \in Nat
  BY LenProperties DEF Sound
<1>2. PICK g : /\ CleanedBy(free_atoms, Scan(tree, << >>, {}, {}, FALSE), g)
               /\ Cleaned = Result(g[n])
  BY <1>1, CleanedIs
<1> HIDE DEF n
<1> DEFINE T == {k \in Nat : k <= n => Scanned(tree, free_atoms, k, g[k])}
<1>3. 0 \in T
  BY <1>2, ScanStart DEF CleanedBy
<1>4. ASSUME NEW k \in Nat, k \in T
      PROVE  k + 1 \in T
  <2>1. SUFFICES ASSUME k + 1 <= n
                 PROVE  Scanned(tree, free_atoms, k + 1, g[k + 1])
    BY <1>4
  <2>2. k <= n /\ k + 1 \in 1..Len(free_atoms) /\ (k + 1) - 1 = k
    BY <1>1, <2>1 DEF n
  <2>3. g[k + 1] = CleanAtom(g[(k + 1) - 1], free_atoms[k + 1])
    BY <1>2, <2>2 DEF CleanedBy
  <2>4. g[k + 1] = CleanAtom(g[k], free_atoms[k + 1])
    BY <2>2, <2>3
  <2>5. Scanned(tree, free_atoms, k, g[k])
    BY <1>4, <2>2
  <2>6. QED
    BY <2>2, <2>4, <2>5, ScanStep
<1>5. Nat \subseteq T
  <2> HIDE DEF T
  <2>1. QED
    BY <1>3, <1>4, SetInduction
<1>6. Scanned(tree, free_atoms, n, g[n])
  BY <1>1, <1>5
<1>7. QED
  BY <1>2, <1>6 DEF n

(* What ac_clean leaves: of an area that is not marked, all; of one that   *)
(* is, nothing, or an area to be used from its start.                      *)
Tidy(t, s) ==
  /\ s.wild \in BOOLEAN
  /\ s.kept \in Seq(Atoms)
  /\ DOMAIN s.tree \subseteq DOMAIN t
  /\ \A a \in DOMAIN s.tree : s.tree[a] \in AreaRecord
  /\ s.tree = [a \in DOMAIN s.tree |-> s.tree[a]]

Swept(t, F, s) ==
  /\ \A a \in DOMAIN s.tree : \/ ~Marked(t, a) /\ s.tree[a] = t[a]
                              \/ Marked(t, a) /\ s.tree[a] = NewArea
  /\ \A a \in DOMAIN t : ~Marked(t, a) => a \in DOMAIN s.tree
  /\ \A x : x \in ToSet(s.kept) \cup s.free_atom <=> x \in ToSet(F) /\ ~Marked(t, x.area)
  /\ s.free_atom \cap ToSet(s.kept) = {}
  /\ \A x, y \in s.free_atom : x = y
  /\ Distinct(s.kept)
  /\ s.free_atom = {} => s.kept = << >>
  /\ s.free_atom = {} => \A a \in s.free_area : a \in DOMAIN s.tree /\ s.tree[a] = NewArea

LEMMA NewAreaIs == NewArea \in AreaRecord /\ NewArea.index = 0 /\ NewArea.free_chunk = 0
  BY AreaChunkAssumption DEF NewArea, AreaRecord, Deleted

LEMMA CleanedIsTidy ==
  ASSUME Sound(tree, free_atoms), tree = [a \in DOMAIN tree |-> tree[a]]
  PROVE  Tidy(tree, Cleaned)
<1>1. PICK s : Scanned(tree, free_atoms, Len(free_atoms), s) /\ Cleaned = Result(s)
  BY CleanedScan
<1>2. Remains(tree, s)
  BY <1>1 DEF Scanned
<1> DEFINE r == Result(s)
<1>3. /\ r.kept = s.kept /\ r.wild = s.wild
      /\ DOMAIN r.tree \subseteq DOMAIN s.tree
      /\ Agree(r.tree, s.tree)
      /\ r.tree = [a \in DOMAIN r.tree |-> r.tree[a]]
  BY <1>2, ResultIs
<1> HIDE DEF r
<1>4. \A a \in DOMAIN s.tree : s.tree[a] \in AreaRecord
  BY <1>2, NewAreaIs DEF Remains, Sound
<1>5. Tidy(tree, r)
  BY <1>2, <1>3, <1>4 DEF Tidy, Remains, Agree
<1>6. QED
  BY <1>1, <1>5 DEF r

LEMMA CleanedIsSwept ==
  ASSUME NEW H, Sound(tree, free_atoms), Right(tree, H, ToSet(free_atoms)), ~Cleaned.wild
  PROVE  Swept(tree, free_atoms, Cleaned)
<1>1. tree = [a \in DOMAIN tree |-> tree[a]]
  BY DEF Right
<1>2. PICK s : Scanned(tree, free_atoms, Len(free_atoms), s) /\ Cleaned = Result(s)
  BY <1>1, CleanedScan
<1> DEFINE r == Result(s)
<1>3. Remains(tree, s)
  BY <1>2 DEF Scanned
<1>4. /\ r.kept = s.kept /\ r.free_atom = s.free_atom /\ r.free_area = s.free_area /\ r.wild = s.wild
      /\ DOMAIN r.tree = IF s.free_atom # {} THEN DOMAIN s.tree \ s.free_area ELSE DOMAIN s.tree
      /\ \A a \in DOMAIN r.tree : r.tree[a] = s.tree[a]
  <2>1. r.kept = s.kept /\ r.free_atom = s.free_atom
    BY <1>3, ResultIs
  <2>2. r.free_area = s.free_area /\ r.wild = s.wild
    BY <1>3, ResultIs
  <2>3. DOMAIN r.tree = IF s.free_atom # {} THEN DOMAIN s.tree \ s.free_area ELSE DOMAIN s.tree
    BY <1>3, ResultIs
  <2>4. Agree(r.tree, s.tree)
    BY <1>3, ResultIs
  <2> HIDE DEF r
  <2>5. QED
    BY <2>1, <2>2, <2>3, <2>4 DEF Agree
<1>5. ~s.wild
  BY <1>2, <1>4
<1>6. Sorted(tree, free_atoms, Len(free_atoms), s)
  BY <1>2, <1>5 DEF Scanned
<1>7. /\ \A a \in DOMAIN s.tree :
           \/ ~Marked(tree, a) /\ s.tree[a] = tree[a] /\ a \notin s.free_area
           \/ Marked(tree, a) /\ s.tree[a] = NewArea /\ a \in s.free_area
      /\ \A x : x \in ToSet(s.kept) \cup s.free_atom
                  <=> x \in ToSet(free_atoms) /\ ~Marked(tree, x.area)
  BY <1>2, <1>5, LeftIs
<1>8. \A x : x \in ToSet(s.kept) <=> Holds(s.kept, x)
  BY <1>3, DistinctIs DEF Remains
<1> HIDE DEF r
<1>9. \A a \in DOMAIN r.tree : \/ ~Marked(tree, a) /\ r.tree[a] = tree[a]
                               \/ Marked(tree, a) /\ r.tree[a] = NewArea
  BY <1>4, <1>7
<1>10. \A a \in DOMAIN tree : ~Marked(tree, a) => a \in DOMAIN r.tree
  <2>1. \A a \in DOMAIN tree : ~Marked(tree, a) => a \in DOMAIN s.tree
    BY <1>3 DEF Remains
  <2>2. QED
    BY <1>4, <1>7, <2>1
<1>11. \A x : x \in ToSet(r.kept) \cup r.free_atom <=> x \in ToSet(free_atoms) /\ ~Marked(tree, x.area)
  BY <1>4, <1>7
<1>12. r.free_atom \cap ToSet(r.kept) = {} /\ \A x, y \in r.free_atom : x = y
  BY <1>4, <1>6, <1>8 DEF Sorted
<1>13. Distinct(r.kept) /\ (r.free_atom = {} => r.kept = << >>)
  BY <1>4, <1>6 DEF Sorted
<1>14. r.free_atom = {} => \A a \in r.free_area : a \in DOMAIN r.tree /\ r.tree[a] = NewArea
  BY <1>3, <1>4 DEF Remains
<1>15. Swept(tree, free_atoms, r)
  BY <1>9, <1>10, <1>11, <1>12, <1>13, <1>14 DEF Swept
<1>16. QED
  BY <1>2, <1>15 DEF r

LEMMA SweptIsRight ==
  ASSUME NEW t, NEW F, NEW H, Right(t, H, ToSet(F)), NEW s, Tidy(t, s), Swept(t, F, s)
  PROVE  Right(s.tree, H, ToSet(s.kept) \cup s.free_atom)
<1> DEFINE X == ToSet(F)
           Y == ToSet(s.kept) \cup s.free_atom
           u == s.tree
<1>1. \A x : x \in Y <=> x \in X /\ ~Marked(t, x.area)
  BY DEF Swept
<1>2. \A x \in H : ~Marked(t, x.area)
  BY RightAtoms
<1>3. /\ u = [a \in DOMAIN u |-> u[a]] /\ DOMAIN u \subseteq Area
      /\ \A a \in DOMAIN u : u[a] \in AreaRecord
  BY DEF Tidy, Right
<1>4. \A a \in DOMAIN t : ~Marked(t, a) => a \in DOMAIN u /\ u[a] = t[a]
  BY DEF Swept
<1>5. \A a \in DOMAIN u : a \in DOMAIN t
  BY DEF Tidy
<1>6. \A a \in DOMAIN u : Marked(t, a) => u[a] = NewArea
  BY DEF Swept
<1> HIDE DEF X, Y, u
<1>7. H \subseteq Atoms /\ Y \subseteq Atoms /\ H \cap Y = {}
  BY <1>1 DEF Right, X
<1>8. \A x \in H \cup Y : Found(u, x)
  <2>1. SUFFICES ASSUME NEW x \in H \cup Y
                 PROVE  Found(u, x)
    OBVIOUS
  <2>2. Found(t, x)
    BY <1>1 DEF Right, X
  <2>3. ~Marked(t, x.area) /\ x.area \in DOMAIN t
    BY <1>1, <1>2, <2>2 DEF Found
  <2>4. QED
    BY <1>4, <2>2, <2>3 DEF Found
<1>9. \A a \in DOMAIN u : Counted(u, H, Y, a)
  <2>1. SUFFICES ASSUME NEW a \in DOMAIN u
                 PROVE  Counted(u, H, Y, a)
    OBVIOUS
  <2>2. a \in DOMAIN t
    BY <1>5
  <2>3. \A i : Atom(a, i).area = a
    BY DEF Atom
  <2>4. CASE ~Marked(t, a)
    <3>1. u[a] = t[a]
      BY <1>4, <2>2, <2>4
    <3>2. \A i : Atom(a, i) \in Y <=> Atom(a, i) \in X
      BY <1>1, <2>3, <2>4
    <3>3. Of(u, H, a) = Of(t, H, a) /\ Of(u, Y, a) = Of(t, X, a)
      BY <3>1, <3>2 DEF Of
    <3>4. Counted(t, H, X, a)
      BY <2>2 DEF Right, X
    <3>5. QED
      BY <3>1, <3>3, <3>4 DEF Counted
  <2>5. CASE Marked(t, a)
    <3>1. u[a].index = 0 /\ u[a].free_chunk = 0
      BY <1>6, <2>5, NewAreaIs
    <3>2. 0..(u[a].index - 1) = {}
      BY <3>1
    <3>3. Of(u, H, a) = {} /\ Of(u, Y, a) = {}
      BY <3>2 DEF Of
    <3>4. Cardinality({}) = 0
      BY FS_EmptySet
    <3>5. QED
      BY <3>1, <3>2, <3>3, <3>4 DEF Counted
  <2>6. QED
    BY <2>4, <2>5
<1>10. Right(u, H, Y)
  BY <1>3, <1>7, <1>8, <1>9 DEF Right
<1>11. QED
  BY <1>10 DEF u, Y


-----------------------------------------------------------------------------
(* One area changes, with its atoms.                                       *)
Changed(t, u, a, r) ==
  /\ a \in DOMAIN t /\ DOMAIN u = DOMAIN t
  /\ u = [b \in DOMAIN u |-> u[b]]
  /\ u[a] = r
  /\ \A b \in DOMAIN t : b # a => u[b] = t[b]

LEMMA ChangedIs ==
  ASSUME NEW t, NEW a, a \in DOMAIN t, NEW r
  PROVE  Changed(t, [t EXCEPT ![a] = r], a, r)
  BY DEF Changed

(* H and X are G and Y but for the atoms of a. *)
Elsewhere(G, H, a) == \A x : x.area # a => (x \in G <=> x \in H)

LEMMA RightAgain ==
  ASSUME NEW t, NEW H, NEW X, Right(t, H, X), NEW u, NEW a, NEW r \in AreaRecord, Changed(t, u, a, r),
         NEW G, NEW Y, G \subseteq Atoms, Y \subseteq Atoms, G \cap Y = {},
         Elsewhere(G, H, a), Elsewhere(Y, X, a),
         \A x \in G \cup Y : x.area = a => x.offset < r.index,
         Counted(u, G, Y, a)
  PROVE  Right(u, G, Y)
<1>1. \A x \in G \cup Y : Found(u, x)
  <2>1. SUFFICES ASSUME NEW x \in G \cup Y
                 PROVE  Found(u, x)
    OBVIOUS
  <2>2. CASE x.area = a
    BY <2>2 DEF Found, Changed
  <2>3. CASE x.area # a
    <3>1. x \in H \cup X
      BY <2>3 DEF Elsewhere
    <3>2. Found(t, x)
      BY <3>1 DEF Right
    <3>3. QED
      BY <2>3, <3>2 DEF Found, Changed
  <2>4. QED
    BY <2>2, <2>3
<1>2. ASSUME NEW b \in DOMAIN u
      PROVE  Counted(u, G, Y, b)
  <2>1. CASE b = a
    BY <2>1
  <2>2. CASE b # a
    <3>1. \A i : Atom(b, i).area = b
      BY DEF Atom
    <3>2. \A i : (Atom(b, i) \in G <=> Atom(b, i) \in H) /\ (Atom(b, i) \in Y <=> Atom(b, i) \in X)
      BY <2>2, <3>1 DEF Elsewhere
    <3>3. u[b] = t[b] /\ b \in DOMAIN t
      BY <2>2 DEF Changed
    <3>4. Of(u, G, b) = Of(t, H, b) /\ Of(u, Y, b) = Of(t, X, b)
      BY <3>2, <3>3 DEF Of
    <3>5. Counted(t, H, X, b)
      BY <3>3 DEF Right
    <3>6. QED
      BY <3>3, <3>4, <3>5 DEF Counted
  <2>3. QED
    BY <2>1, <2>2
<1>3. /\ u = [b \in DOMAIN u |-> u[b]] /\ DOMAIN u \subseteq Area
      /\ \A b \in DOMAIN u : u[b] \in AreaRecord
  BY DEF Right, Changed
<1>4. QED
  BY <1>1, <1>2, <1>3 DEF Right

(* An atom is handed out again. *)
LEMMA OneFreeLessIs ==
  ASSUME NEW r \in AreaRecord
  PROVE  OneFreeLess(r) = [index |-> r.index, free_chunk |-> r.free_chunk - 1]
<1>1. \A i, c : [[index |-> i, free_chunk |-> c] EXCEPT !.free_chunk = c - 1]
                  = [index |-> i, free_chunk |-> c - 1]
  OBVIOUS
<1>2. r = [index |-> r.index, free_chunk |-> r.free_chunk]
  BY DEF AreaRecord
<1>3. OneFreeLess(r) = [r EXCEPT !.free_chunk = r.free_chunk - 1]
  BY DEF OneFreeLess
<1>4. QED
  BY <1>1, <1>2, <1>3, Zenon

LEMMA FreeIsRight ==
  ASSUME NEW t, NEW H, NEW X, Right(t, H, X), NEW x \in X, ~Marked(t, x.area)
  PROVE  Right([t EXCEPT ![x.area] = OneFreeLess(@)], H \cup {x}, X \ {x})
<1> DEFINE a == x.area
           i == x.offset
           r == [index |-> t[a].index, free_chunk |-> t[a].free_chunk - 1]
           G == H \cup {x}
           Y == X \ {x}
<1>1. a \in DOMAIN t /\ x = Atom(a, i) /\ i \in 0..(t[a].index - 1) /\ i \in Of(t, X, a)
  BY RightAtoms
<1>2. t[a] \in AreaRecord /\ Counted(t, H, X, a)
  BY <1>1 DEF Right
<1>3. t[a].free_chunk = Cardinality(Of(t, X, a)) /\ IsFiniteSet(Of(t, X, a))
      /\ Cardinality(Of(t, X, a)) \in Nat /\ Cardinality(Of(t, X, a)) <= t[a].index
      /\ t[a].index \in 0..nmemb
  BY <1>2, OfIsFinite DEF Counted, Marked
<1>4. PICK u : u = [t EXCEPT ![a] = OneFreeLess(@)]
  OBVIOUS
<1>5. u = [t EXCEPT ![a] = OneFreeLess(t[a])]
  BY <1>4
<1>6. OneFreeLess(t[a]) = r
  BY <1>2, OneFreeLessIs
<1>7. Changed(t, u, a, r)
  <2>1. u = [t EXCEPT ![a] = r]
    BY <1>5, <1>6, Zenon
  <2> HIDE DEF r, a
  <2>2. QED
    BY <1>1, <2>1, ChangedIs
<1>8. r.index = t[a].index /\ r.free_chunk = t[a].free_chunk - 1
  OBVIOUS
<1>9. Cardinality(Of(t, X, a) \ {i}) = Cardinality(Of(t, X, a)) - 1
      /\ Cardinality(Of(t, X, a) \ {i}) \in Nat
  <2>1. IsFiniteSet(Of(t, X, a) \ {i}) /\ Cardinality(Of(t, X, a) \ {i}) = Cardinality(Of(t, X, a)) - 1
    BY <1>1, <1>3, FS_RemoveElement
  <2>2. QED
    BY <2>1, FS_CardinalityType
<1>10. r \in AreaRecord
  BY <1>3, <1>9, AreaChunkAssumption DEF AreaRecord, Deleted
<1> HIDE DEF r
<1>11. G \subseteq Atoms /\ Y \subseteq Atoms /\ G \cap Y = {}
  BY DEF Right
<1>12. Elsewhere(G, H, a) /\ Elsewhere(Y, X, a)
  BY DEF Elsewhere
<1>13. \A z \in G \cup Y : z.area = a => z.offset < r.index
  <2>1. \A z \in G \cup Y : z \in H \cup X
    OBVIOUS
  <2>2. \A z \in H \cup X : Found(t, z)
    BY DEF Right
  <2>3. QED
    BY <1>8, <2>1, <2>2 DEF Found
<1>14. \A j : Atom(a, j) = x <=> j = i
  BY <1>1 DEF Atom
<1>15. u[a] = r
  BY <1>7 DEF Changed
<1>16. Of(u, G, a) = Of(t, H, a) \cup {i}
  <2>1. \A j : j \in Of(u, G, a) <=> j \in 0..(t[a].index - 1) /\ (Atom(a, j) \in H \/ Atom(a, j) = x)
    BY <1>8, <1>15 DEF Of
  <2>2. QED
    BY <1>1, <1>14, <2>1 DEF Of
<1>17. Of(u, Y, a) = Of(t, X, a) \ {i}
  <2>1. \A j : j \in Of(u, Y, a) <=> j \in 0..(t[a].index - 1) /\ Atom(a, j) \in X /\ Atom(a, j) # x
    BY <1>8, <1>15 DEF Of
  <2>2. QED
    BY <1>14, <2>1 DEF Of
<1>18. Counted(u, G, Y, a)
  <2>1. Of(u, G, a) \cup Of(u, Y, a) = 0..(u[a].index - 1)
    BY <1>1, <1>2, <1>8, <1>15, <1>16, <1>17 DEF Counted
  <2>2. u[a].free_chunk = Cardinality(Of(u, Y, a)) /\ Of(u, G, a) # {}
    BY <1>3, <1>8, <1>9, <1>15, <1>16, <1>17
  <2>3. QED
    BY <2>1, <2>2 DEF Counted
<1> HIDE DEF G, Y, a
<1>19. Right(u, G, Y)
  BY <1>7, <1>10, <1>11, <1>12, <1>13, <1>18, RightAgain
<1>20. QED
  BY <1>4, <1>19 DEF G, Y, a

(* An atom is cut from an area that is not marked. *)
LEMMA CutIsRight ==
  ASSUME NEW t, NEW H, NEW X, Right(t, H, X), NEW a \in DOMAIN t, ~Marked(t, a), HasRoom(t[a])
  PROVE  /\ Right([t EXCEPT ![a].index = @ + 1], H \cup {Atom(a, t[a].index)}, X)
         /\ Atom(a, t[a].index) \notin H \cup X
<1> DEFINE i == t[a].index
           c == t[a].free_chunk
           r == [index |-> i + 1, free_chunk |-> c]
           x == Atom(a, i)
           G == H \cup {x}
<1>1. t[a] \in AreaRecord /\ Counted(t, H, X, a) /\ a \in Area
  BY DEF Right
<1>2. c = Cardinality(Of(t, X, a)) /\ Cardinality(Of(t, X, a)) \in Nat
      /\ i \in 0..nmemb /\ c <= i
  BY <1>1, OfIsFinite DEF Counted, Marked
<1>3. i < nmemb
  BY DEF HasRoom
<1>4. PICK u : u = [t EXCEPT ![a].index = @ + 1]
  OBVIOUS
<1>5. [t[a] EXCEPT !.index = t[a].index + 1] = r
  <2>1. \A p, q : [[index |-> p, free_chunk |-> q] EXCEPT !.index = p + 1] = [index |-> p + 1, free_chunk |-> q]
    OBVIOUS
  <2>2. t[a] = [index |-> i, free_chunk |-> c]
    BY <1>1 DEF AreaRecord
  <2>3. QED
    BY <2>1, <2>2, Zenon
<1>6. Changed(t, u, a, r)
  <2>1. u = [t EXCEPT ![a] = [t[a] EXCEPT !.index = t[a].index + 1]]
    BY <1>4
  <2>2. u = [t EXCEPT ![a] = r]
    BY <1>5, <2>1, Zenon
  <2> HIDE DEF r
  <2>3. QED
    BY <2>2, ChangedIs
<1>7. r.index = i + 1 /\ r.free_chunk = c
  OBVIOUS
<1>8. r \in AreaRecord
  BY <1>2, <1>3, AreaChunkAssumption DEF AreaRecord, Deleted
<1> HIDE DEF r
<1>9. x \in Atoms /\ x.area = a /\ x.offset = i
  BY <1>1, <1>2, <1>3, AreaChunkAssumption, AtomOf
<1>10. x \notin H \cup X
  <2>1. ~Found(t, x)
    BY <1>2, <1>9 DEF Found
  <2>2. QED
    BY <2>1 DEF Right
<1>11. G \subseteq Atoms /\ X \subseteq Atoms /\ G \cap X = {}
  BY <1>9, <1>10 DEF Right
<1>12. Elsewhere(G, H, a) /\ Elsewhere(X, X, a)
  BY <1>9 DEF Elsewhere
<1>13. \A z \in G \cup X : z.area = a => z.offset < r.index
  <2>1. SUFFICES ASSUME NEW z \in G \cup X, z.area = a
                 PROVE  z.offset < r.index
    OBVIOUS
  <2>2. CASE z = x
    BY <1>2, <1>7, <1>9, <2>2
  <2>3. CASE z # x
    <3>1. z.offset \in 0..(i - 1)
      BY <2>1, <2>3, RightAtoms
    <3>2. QED
      BY <1>2, <1>7, <3>1
  <2>4. QED
    BY <2>2, <2>3
<1>14. \A j : Atom(a, j) = x <=> j = i
  BY DEF Atom
<1>15. u[a] = r
  BY <1>6 DEF Changed
<1>16. \A j : j \in 0..((i + 1) - 1) <=> j \in 0..(i - 1) \/ j = i
  BY <1>2
<1>17. Of(u, G, a) = Of(t, H, a) \cup {i}
  <2>1. \A j : j \in Of(u, G, a) <=> j \in 0..((i + 1) - 1) /\ (Atom(a, j) \in H \/ Atom(a, j) = x)
    BY <1>7, <1>15 DEF Of
  <2>2. \A j : j \in Of(t, H, a) <=> j \in 0..(i - 1) /\ Atom(a, j) \in H
    BY DEF Of
  <2>3. Atom(a, i) \notin H
    BY <1>10
  <2> HIDE DEF i, x
  <2>4. QED
    BY <1>14, <1>16, <2>1, <2>2, <2>3
<1>18. Of(u, X, a) = Of(t, X, a)
  <2>1. \A j : j \in Of(u, X, a) <=> j \in 0..((i + 1) - 1) /\ Atom(a, j) \in X
    BY <1>7, <1>15 DEF Of
  <2>2. \A j : j \in Of(t, X, a) <=> j \in 0..(i - 1) /\ Atom(a, j) \in X
    BY DEF Of
  <2>3. Atom(a, i) \notin X
    BY <1>10
  <2> HIDE DEF i, x
  <2>4. QED
    BY <1>16, <2>1, <2>2, <2>3
<1>19. Counted(u, G, X, a)
  <2>1. Of(t, H, a) \cup Of(t, X, a) = 0..(i - 1)
    BY <1>1 DEF Counted
  <2>2. 0..((i + 1) - 1) = 0..(i - 1) \cup {i}
    BY <1>16
  <2>3. Of(u, G, a) \cup Of(u, X, a) = 0..(u[a].index - 1)
    BY <1>7, <1>15, <1>17, <1>18, <2>1, <2>2
  <2>4. u[a].free_chunk = Cardinality(Of(u, X, a)) /\ Of(u, G, a) # {}
    BY <1>2, <1>7, <1>15, <1>17, <1>18
  <2>5. QED
    BY <2>3, <2>4 DEF Counted
<1> HIDE DEF G, x, i
<1>20. Right(u, G, X)
  BY <1>6, <1>8, <1>11, <1>12, <1>13, <1>19, RightAgain
<1>21. QED
  BY <1>4, <1>10, <1>20 DEF G, x, i

(* An area is allocated. *)
WithArea(t, a) == [b \in DOMAIN t \cup {a} |-> IF b = a THEN NewArea ELSE t[b]]

LEMMA WithAreaIsRight ==
  ASSUME NEW t, NEW H, NEW X, Right(t, H, X), NEW a \in Area, a \notin DOMAIN t
  PROVE  /\ Right(WithArea(t, a), H, X)
         /\ WithArea(t, a)[a] = NewArea
         /\ DOMAIN WithArea(t, a) = DOMAIN t \cup {a}
<1> DEFINE u == WithArea(t, a)
<1>1. /\ DOMAIN u = DOMAIN t \cup {a}
      /\ u = [b \in DOMAIN u |-> u[b]]
      /\ u[a] = NewArea
      /\ \A b \in DOMAIN t : u[b] = t[b]
  BY DEF WithArea
<1> HIDE DEF u
<1>2. DOMAIN u \subseteq Area /\ \A b \in DOMAIN u : u[b] \in AreaRecord
  BY <1>1, NewAreaIs DEF Right
<1>3. \A x \in H \cup X : Found(t, x)
  BY DEF Right
<1>4. \A x \in H \cup X : Found(u, x)
  BY <1>1, <1>3 DEF Found
<1>5. ASSUME NEW b \in DOMAIN t
      PROVE  Counted(u, H, X, b)
  <2>1. u[b] = t[b]
    BY <1>1
  <2>2. Of(u, H, b) = Of(t, H, b) /\ Of(u, X, b) = Of(t, X, b)
    BY <2>1 DEF Of
  <2>3. Counted(t, H, X, b)
    BY DEF Right
  <2>4. QED
    BY <2>1, <2>2, <2>3 DEF Counted
<1>6. Counted(u, H, X, a)
  <2>1. u[a].index = 0 /\ u[a].free_chunk = 0
    BY <1>1, NewAreaIs
  <2>2. 0..(u[a].index - 1) = {}
    BY <2>1
  <2>3. Of(u, H, a) = {} /\ Of(u, X, a) = {}
    BY <2>2 DEF Of
  <2>4. Cardinality({}) = 0
    BY FS_EmptySet
  <2>5. QED
    BY <2>1, <2>2, <2>3, <2>4 DEF Counted
<1>7. Right(u, H, X)
  BY <1>1, <1>2, <1>4, <1>5, <1>6 DEF Right
<1>8. QED
  BY <1>1, <1>7 DEF u

(* An atom is given back. *)
GivenBack(t, a) ==
  LET free == t[a].free_chunk + 1
      all  == free \in {nmemb, t[a].index}
  IN  [t EXCEPT ![a].free_chunk = IF all THEN Deleted ELSE free]

LEMMA BackIsRight ==
  ASSUME NEW t, NEW H, NEW X, Right(t, H, X), NEW x \in H
  PROVE  Right(GivenBack(t, x.area), H \ {x}, X \cup {x})
<1> DEFINE a == x.area
           i == x.offset
           n == t[a].index
           free == t[a].free_chunk + 1
           c == IF free \in {nmemb, n} THEN Deleted ELSE free
           r == [index |-> n, free_chunk |-> c]
           G == H \ {x}
           Y == X \cup {x}
           out == Of(t, H, a)
           back == Of(t, X, a)
<1>1. a \in DOMAIN t /\ x = Atom(a, i) /\ i \in 0..(n - 1) /\ i \in out /\ ~Marked(t, a)
  BY RightAtoms
<1>2. t[a] \in AreaRecord /\ Counted(t, H, X, a) /\ x \in Atoms /\ x \notin X
  BY <1>1 DEF Right
<1>3. t[a].free_chunk = Cardinality(back) /\ IsFiniteSet(back)
      /\ Cardinality(back) \in Nat /\ n \in 0..nmemb
      /\ IsFiniteSet(0..(n - 1)) /\ Cardinality(0..(n - 1)) = n
  <2>1. /\ IsFiniteSet(Of(t, X, a)) /\ Cardinality(Of(t, X, a)) \in Nat
        /\ t[a].index \in 0..nmemb
        /\ IsFiniteSet(0..(t[a].index - 1)) /\ Cardinality(0..(t[a].index - 1)) = t[a].index
    BY <1>2, OfIsFinite
  <2>2. t[a].free_chunk = Cardinality(Of(t, X, a))
    BY <1>1, <1>2 DEF Counted, Marked
  <2>3. QED
    BY <2>1, <2>2
<1>4. out \cup back = 0..(n - 1)
  BY <1>2 DEF Counted
<1>5. out \cap back = {}
  <2>1. \A j : ~(Atom(a, j) \in H /\ Atom(a, j) \in X)
    BY DEF Right
  <2>2. QED
    BY <2>1 DEF Of
<1>6. PICK u : u = GivenBack(t, a)
  OBVIOUS
<1>7. u = [t EXCEPT ![a] = [t[a] EXCEPT !.free_chunk = c]]
  BY <1>6 DEF GivenBack
<1>8. [t[a] EXCEPT !.free_chunk = c] = r
  <2> DEFINE q == t[a].free_chunk
  <2>1. t[a] = [index |-> n, free_chunk |-> q]
    BY <1>2 DEF AreaRecord
  <2> HIDE DEF c, n, q
  <2>2. \A z : z = [index |-> n, free_chunk |-> q] =>
              [z EXCEPT !.free_chunk = c] = [index |-> n, free_chunk |-> c]
    OBVIOUS
  <2>3. QED
    BY <2>1, <2>2
<1>9. Changed(t, u, a, r)
  <2>1. u = [t EXCEPT ![a] = r]
    BY <1>7, <1>8, Zenon
  <2> HIDE DEF r, a
  <2>2. QED
    BY <1>1, <2>1, ChangedIs
<1>10. r.index = n /\ r.free_chunk = c /\ u[a] = r
  BY <1>9 DEF Changed
<1> DEFINE more == back \cup {i}
<1>11. IsFiniteSet(more) /\ Cardinality(more) = free
  <2>1. i \notin back
    BY <1>1, <1>5
  <2>2. QED
    BY <1>3, <2>1, FS_AddElement
<1>12. more \subseteq 0..(n - 1)
  BY <1>1, <1>4
<1>13. free <= n /\ (free = n => more = 0..(n - 1)) /\ free \in Nat
  <2>1. Cardinality(more) <= Cardinality(0..(n - 1))
        /\ (Cardinality(0..(n - 1)) = Cardinality(more) => 0..(n - 1) = more)
    BY <1>3, <1>12, FS_Subset
  <2>2. n \in Int /\ Cardinality(back) + 1 = free
    BY <1>3
  <2> HIDE DEF more, n, back
  <2>3. QED
    BY <1>3, <1>11, <2>1, <2>2
<1>14. r \in AreaRecord
  <2>1. c \in Deleted..nmemb
    BY <1>3, <1>13, AreaChunkAssumption DEF Deleted
  <2> HIDE DEF c
  <2>2. QED
    BY <1>3, <2>1 DEF AreaRecord
<1> HIDE DEF r
<1>15. Of(u, G, a) = out \ {i}
  <2>1. \A j : Atom(a, j) = x <=> j = i
    BY <1>1 DEF Atom
  <2>2. \A j : j \in Of(u, G, a) <=> j \in 0..(n - 1) /\ Atom(a, j) \in H /\ Atom(a, j) # x
    <3>1. \A j : j \in Of(u, G, a) <=> j \in 0..(r.index - 1) /\ Atom(a, j) \in G
      BY <1>10 DEF Of
    <3>2. QED
      BY <1>10, <3>1
  <2>3. \A j : j \in out <=> j \in 0..(n - 1) /\ Atom(a, j) \in H
    BY DEF Of
  <2> HIDE DEF out, n, G
  <2>4. QED
    BY <2>1, <2>2, <2>3
<1>16. Of(u, Y, a) = more
  <2>1. \A j : Atom(a, j) = x <=> j = i
    BY <1>1 DEF Atom
  <2>2. \A j : j \in Of(u, Y, a) <=> j \in 0..(n - 1) /\ (Atom(a, j) \in X \/ Atom(a, j) = x)
    BY <1>10 DEF Of
  <2>3. \A j : j \in back <=> j \in 0..(n - 1) /\ Atom(a, j) \in X
    BY DEF Of
  <2> HIDE DEF back, n, Y
  <2>4. QED
    BY <1>1, <2>1, <2>2, <2>3
<1>17. free \in {nmemb, n} <=> out \ {i} = {}
  <2>1. free = nmemb => free = n
    BY <1>3, <1>13
  <2>2. free = n => out \ {i} = {}
    BY <1>4, <1>5, <1>13
  <2>3. out \ {i} = {} => more = 0..(n - 1)
    BY <1>1, <1>4
  <2>4. more = 0..(n - 1) => free = n
    BY <1>3, <1>11
  <2> HIDE DEF free, n, out, more
  <2>5. QED
    BY <2>1, <2>2, <2>3, <2>4
<1>18. Counted(u, G, Y, a)
  <2>1. Of(u, G, a) \cup Of(u, Y, a) = 0..(u[a].index - 1)
    BY <1>1, <1>4, <1>10, <1>15, <1>16
  <2>2. Of(u, Y, a) # {}
    BY <1>16
  <2>3. u[a].free_chunk = IF Of(u, G, a) = {} THEN Deleted ELSE Cardinality(Of(u, Y, a))
    BY <1>10, <1>11, <1>15, <1>16, <1>17
  <2>4. QED
    BY <2>1, <2>2, <2>3 DEF Counted
<1>19. G \subseteq Atoms /\ Y \subseteq Atoms /\ G \cap Y = {}
  BY <1>2 DEF Right
<1>20. Elsewhere(G, H, a) /\ Elsewhere(Y, X, a)
  BY DEF Elsewhere
<1>21. \A z \in G \cup Y : z.area = a => z.offset < r.index
  <2>1. \A z \in H \cup X : Found(t, z)
    BY DEF Right
  <2>2. QED
    BY <1>10, <2>1 DEF Found
<1> HIDE DEF G, Y, a
<1>22. Right(u, G, Y)
  BY <1>9, <1>14, <1>18, <1>19, <1>20, <1>21, RightAgain
<1>23. QED
  BY <1>6, <1>22 DEF G, Y, a

-----------------------------------------------------------------------------
(* The free list, when an atom is put in front of it.                      *)
LEMMA InFrontIs ==
  ASSUME NEW S, NEW s \in Seq(S), NEW x \in S
  PROVE  /\ <<x>> \o s \in Seq(S)
         /\ ToSet(<<x>> \o s) = ToSet(s) \cup {x}
         /\ Distinct(s) /\ x \notin ToSet(s) => Distinct(<<x>> \o s)
<1> DEFINE n == Len(s)
           one == <<x>>
           more == one \o s
<1>1. one \in Seq(S) /\ Len(one) = 1 /\ one[1] = x
  OBVIOUS
<1> HIDE DEF one
<1>2. n \in Nat /\ more \in Seq(S) /\ Len(more) = n + 1
      /\ more[1] = x /\ \A i \in 2..(n + 1) : more[i] = s[i - 1]
  <2>1. n \in Nat /\ more \in Seq(S)
    BY <1>1, LenProperties, ConcatProperties
  <2>2. Begins(one, more) /\ Len(more) = Len(one) + n
        /\ \A j \in 1..n : more[Len(one) + j] = s[j]
    BY <1>1, BeginsConcat
  <2> HIDE DEF more, n
  <2>3. Len(more) = n + 1 /\ more[1] = x
    BY <1>1, <2>1, <2>2 DEF Begins
  <2>4. \A i \in 2..(n + 1) : i - 1 \in 1..n /\ 1 + (i - 1) = i
    BY <2>1
  <2>5. \A i \in 2..(n + 1) : more[i] = s[i - 1]
    BY <1>1, <2>2, <2>4
  <2>6. QED
    BY <2>1, <2>3, <2>5
<1> HIDE DEF more, n
<1>3. \A i \in 1..(n + 1) : i = 1 \/ (i \in 2..(n + 1) /\ i - 1 \in 1..n)
  BY <1>2
<1>4. 1 \in 1..(n + 1) /\ \A i \in 1..n : i + 1 \in 2..(n + 1) /\ i + 1 \in 1..(n + 1) /\ (i + 1) - 1 = i
  BY <1>2
<1>5. \A y : Holds(more, y) <=> Holds(s, y) \/ y = x
  <2>1. \A y : Holds(more, y) <=> \E i \in 1..(n + 1) : more[i] = y
    BY <1>2 DEF Holds
  <2>2. \A y : Holds(s, y) <=> \E i \in 1..n : s[i] = y
    BY DEF Holds, n
  <2>3. \A i \in 1..n : more[i + 1] = s[i]
    BY <1>2, <1>4
  <2>4. QED
    BY <1>2, <1>3, <1>4, <2>1, <2>2, <2>3
<1>6. \A y : (y \in ToSet(more) <=> Holds(more, y)) /\ (y \in ToSet(s) <=> Holds(s, y))
  BY <1>2, DistinctIs
<1>7. ToSet(more) = ToSet(s) \cup {x}
  BY <1>5, <1>6
<1>8. Distinct(s) /\ x \notin ToSet(s) => Distinct(more)
  <2>1. SUFFICES ASSUME Distinct(s), ~Holds(s, x)
                 PROVE  Distinct(more)
    BY <1>6
  <2>2. \A i \in 1..n : s[i] # x
    BY <2>1 DEF Holds, n
  <2>3. \A i, j \in 1..n : s[i] = s[j] => i = j
    BY <2>1 DEF Distinct, n
  <2>4. ASSUME NEW i \in 1..(n + 1), NEW j \in 1..(n + 1), more[i] = more[j]
        PROVE  i = j
    <3>1. CASE i = 1 /\ j = 1
      BY <3>1
    <3>2. CASE i = 1 /\ j # 1
      BY <1>2, <1>3, <2>2, <2>4, <3>2
    <3>3. CASE i # 1 /\ j = 1
      BY <1>2, <1>3, <2>2, <2>4, <3>3
    <3>4. CASE i # 1 /\ j # 1
      <4>1. i - 1 \in 1..n /\ j - 1 \in 1..n /\ s[i - 1] = s[j - 1]
        BY <1>2, <1>3, <2>4, <3>4
      <4>2. i - 1 = j - 1
        BY <2>3, <4>1
      <4>3. QED
        BY <4>2
    <3>5. QED
      BY <3>1, <3>2, <3>3, <3>4
  <2>5. QED
    BY <1>2, <2>4 DEF Distinct
<1>9. QED
  BY <1>2, <1>7, <1>8 DEF more, one

(* What is true of atoms and areas while nothing wild happened.            *)
Coherent ==
  /\ ChunkTypeOK
  /\ IsFiniteSet(held)
  /\ ~wild => Right(tree, held, ToSet(free_atoms)) /\ Distinct(free_atoms)

LEMMA CoherentIsSound ==
  ASSUME Coherent, ~wild
  PROVE  Sound(tree, free_atoms) /\ tree = [a \in DOMAIN tree |-> tree[a]]
<1>1. /\ Right(tree, held, ToSet(free_atoms)) /\ Distinct(free_atoms)
      /\ free_atoms \in Seq(Atoms) /\ DOMAIN tree \subseteq Area
  BY DEF Coherent, ChunkTypeOK
<1>2. \A i \in 1..Len(free_atoms) : Found(tree, free_atoms[i])
  <2>1. SUFFICES ASSUME NEW i \in 1..Len(free_atoms)
                 PROVE  Found(tree, free_atoms[i])
    OBVIOUS
  <2>2. Holds(free_atoms, free_atoms[i])
    BY DEF Holds
  <2>3. free_atoms[i] \in ToSet(free_atoms)
    BY <1>1, <2>2, DistinctIs
  <2>4. QED
    BY <1>1, <2>3 DEF Right
<1>3. QED
  BY <1>1, <1>2 DEF Sound, Right

LEMMA CoherentStart ==
  ASSUME NEW a \in Area, NEW t, t = [x \in {a} |-> NewArea]
  PROVE  Right(t, {}, ToSet(<< >>)) /\ Distinct(<< >>) /\ IsFiniteSet({})
<1>1. ToSet(<< >>) = {} /\ Distinct(<< >>)
  BY DEF ToSet, Distinct
<1>2. /\ DOMAIN t = {a} /\ t = [x \in DOMAIN t |-> t[x]] /\ t[a] = NewArea
  OBVIOUS
<1>3. Counted(t, {}, {}, a)
  <2>1. t[a].index = 0 /\ t[a].free_chunk = 0
    BY <1>2, NewAreaIs
  <2>2. 0..(t[a].index - 1) = {}
    BY <2>1
  <2>3. Of(t, {}, a) = {}
    BY DEF Of
  <2>4. Cardinality({}) = 0
    BY FS_EmptySet
  <2>5. QED
    BY <2>1, <2>2, <2>3, <2>4 DEF Counted
<1>4. Right(t, {}, {})
  BY <1>2, <1>3, NewAreaIs DEF Right
<1>5. QED
  BY <1>1, <1>4, FS_EmptySet

(* Nothing is right about nothing. *)
LEMMA NoTableIsRight ==
  /\ Right(<< >>, {}, ToSet(<< >>)) /\ Distinct(<< >>)
  /\ IsFiniteSet({}) /\ DOMAIN << >> = {} /\ << >> \in Seq(Atoms)
<1>1. ToSet(<< >>) = {} /\ Distinct(<< >>) /\ << >> \in Seq(Atoms)
  BY DEF ToSet, Distinct
<1>2. PICK t : t = << >>
  OBVIOUS
<1>3. DOMAIN t = {} /\ t = [a \in DOMAIN t |-> t[a]]
  BY <1>2
<1>4. Right(t, {}, {})
  BY <1>3 DEF Right
<1>5. QED
  BY <1>1, <1>2, <1>3, <1>4, FS_EmptySet

LEMMA SweptIsUnmarked ==
  ASSUME NEW t, NEW F, NEW s, Tidy(t, s), Swept(t, F, s)
  PROVE  \A a \in DOMAIN s.tree : ~Marked(s.tree, a)
<1>1. NewArea.free_chunk # Deleted
  BY NewAreaIs DEF Deleted
<1>2. QED
  BY <1>1 DEF Swept, Marked

LEMMA CoherentNext ==
  ASSUME Right(tree', held', ToSet(free_atoms')), Distinct(free_atoms'), free_atoms' \in Seq(Atoms),
         cur' \in Area, ~wild', wild' \in BOOLEAN, crowded' \in BOOLEAN, IsFiniteSet(held')
  PROVE  Coherent'
<1>1. ChunkTypeOK'
  BY DEF ChunkTypeOK, Right, AreaRecord
<1>2. QED
  BY <1>1 DEF Coherent

(* What ac_clean left, when a call goes on with it. *)
LEMMA CleanedIsCoherent ==
  ASSUME Coherent, ~wild, NEW s, s = Cleaned
  PROVE  /\ Tidy(tree, s)
         /\ ~s.wild => /\ Swept(tree, free_atoms, s)
                       /\ Right(s.tree, held, ToSet(s.kept) \cup s.free_atom)
                       /\ \A a \in DOMAIN s.tree : ~Marked(s.tree, a)
<1>1. Sound(tree, free_atoms) /\ tree = [a \in DOMAIN tree |-> tree[a]]
      /\ Right(tree, held, ToSet(free_atoms))
  BY CoherentIsSound DEF Coherent
<1>2. Tidy(tree, s)
  BY <1>1, CleanedIsTidy
<1>3. ASSUME ~s.wild
      PROVE  /\ Swept(tree, free_atoms, s)
             /\ Right(s.tree, held, ToSet(s.kept) \cup s.free_atom)
             /\ \A a \in DOMAIN s.tree : ~Marked(s.tree, a)
  <2>1. Swept(tree, free_atoms, s)
    BY <1>1, <1>3, CleanedIsSwept
  <2>2. QED
    BY <1>1, <1>2, <2>1, SweptIsRight, SweptIsUnmarked
<1>4. QED
  BY <1>2, <1>3

LEMMA CutIsCoherent ==
  ASSUME NEW t, NEW X, Coherent, ~wild, Right(t, held, X), NEW a \in DOMAIN t, ~Marked(t, a),
         HasRoom(t[a]), Cut(t, a), X = ToSet(free_atoms'), Distinct(free_atoms'),
         free_atoms' \in Seq(Atoms), cur' \in Area, wild' = wild
  PROVE  Coherent'
<1>1. /\ tree' = [t EXCEPT ![a].index = @ + 1]
      /\ held' = held \cup {Atom(a, t[a].index)}
      /\ crowded' = (crowded \/ Cardinality(held) >= nmemb)
  BY DEF Cut, HandOut
<1>2. Right(tree', held', ToSet(free_atoms'))
  <2>1. Right([t EXCEPT ![a].index = @ + 1], held \cup {Atom(a, t[a].index)}, X)
    BY CutIsRight
  <2>2. QED
    BY <1>1, <2>1
<1>3. crowded \in BOOLEAN /\ wild \in BOOLEAN /\ IsFiniteSet(held)
  BY DEF Coherent, ChunkTypeOK
<1>4. crowded' \in BOOLEAN
  BY <1>1, <1>3
<1>5. IsFiniteSet(held')
  BY <1>1, <1>3, FS_AddElement
<1>6. QED
  BY <1>2, <1>3, <1>4, <1>5, CoherentNext

LEMMA NewAtomCoherent ==
  ASSUME Coherent, NewAtom
  PROVE  Coherent'
<1> DEFINE s == Cleaned
           X == ToSet(s.kept) \cup s.free_atom
<1>1. ~wild /\ free_atoms' = s.kept
  BY DEF NewAtom
<1>2. /\ Tidy(tree, s)
      /\ ~s.wild => /\ Swept(tree, free_atoms, s) /\ Right(s.tree, held, X)
                    /\ \A a \in DOMAIN s.tree : ~Marked(s.tree, a)
  BY <1>1, CleanedIsCoherent
<1>3. cur \in Area /\ crowded \in BOOLEAN /\ wild \in BOOLEAN /\ IsFiniteSet(held)
      /\ held \subseteq Atoms /\ DOMAIN tree \subseteq Area
  BY DEF Coherent, ChunkTypeOK
<1>4. \/ /\ ~s.wild
         /\ \E atom \in s.free_atom :
              /\ tree' = [s.tree EXCEPT ![atom.area] = OneFreeLess(@)]
              /\ HandOut(atom)
         /\ cur' = cur /\ wild' = wild
      \/ /\ ~s.wild /\ s.free_atom = {} /\ cur \in DOMAIN s.tree
         /\ \/ HasRoom(s.tree[cur]) /\ Cut(s.tree, cur) /\ cur' = cur
            \/ (\E a \in s.free_area : Cut(s.tree, a)) /\ cur' = cur
            \/ \E a \in Area \ DOMAIN s.tree : cur' = a /\ Cut(WithArea(s.tree, a), a)
         /\ wild' = wild
      \/ /\ wild' = TRUE /\ tree' = s.tree
         /\ cur' = cur /\ held' = held /\ crowded' = crowded
  BY DEF NewAtom, WithArea
<1> HIDE DEF s
<1>5. free_atoms' \in Seq(Atoms)
  BY <1>1, <1>2 DEF Tidy
<1>6. ASSUME ~s.wild, NEW atom \in s.free_atom,
             tree' = [s.tree EXCEPT ![atom.area] = OneFreeLess(@)], HandOut(atom),
             cur' = cur, wild' = wild
      PROVE  Coherent'
  <2>1. Swept(tree, free_atoms, s) /\ Right(s.tree, held, X) /\ atom \in X
    BY <1>2, <1>6
  <2>2. ~Marked(s.tree, atom.area)
    <3>1. Found(s.tree, atom)
      BY <2>1 DEF Right
    <3>2. QED
      BY <1>2, <1>6, <3>1 DEF Found
  <2>3. X \ {atom} = ToSet(s.kept)
    BY <2>1 DEF Swept
  <2>4. held' = held \cup {atom} /\ crowded' = (crowded \/ Cardinality(held) >= nmemb)
    BY <1>6 DEF HandOut
  <2> HIDE DEF X
  <2>5. Right([s.tree EXCEPT ![atom.area] = OneFreeLess(@)], held \cup {atom}, X \ {atom})
    BY <2>1, <2>2, FreeIsRight
  <2>6. Right(tree', held', ToSet(free_atoms'))
    BY <1>1, <1>6, <2>3, <2>4, <2>5
  <2>7. Distinct(free_atoms')
    BY <1>1, <2>1 DEF Swept
  <2>8. crowded' \in BOOLEAN /\ IsFiniteSet(held')
    BY <1>3, <2>4, FS_AddElement
  <2>9. QED
    BY <1>1, <1>3, <1>5, <1>6, <2>6, <2>7, <2>8, CoherentNext
<1>7. ASSUME ~s.wild, s.free_atom = {}
      PROVE  /\ X = ToSet(free_atoms') /\ Distinct(free_atoms')
             /\ Right(s.tree, held, X)
             /\ \A a \in DOMAIN s.tree : ~Marked(s.tree, a)
             /\ DOMAIN s.tree \subseteq Area
  BY <1>1, <1>2, <1>3, <1>7 DEF Swept, Tidy
<1>8. ASSUME ~s.wild, s.free_atom = {}, cur \in DOMAIN s.tree,
             HasRoom(s.tree[cur]), Cut(s.tree, cur), cur' = cur, wild' = wild
      PROVE  Coherent'
  <2> HIDE DEF X
  <2>1. QED
    BY <1>1, <1>3, <1>5, <1>7, <1>8, CutIsCoherent
<1>9. ASSUME ~s.wild, s.free_atom = {}, NEW a \in s.free_area, Cut(s.tree, a), cur' = cur, wild' = wild
      PROVE  Coherent'
  <2>1. a \in DOMAIN s.tree /\ s.tree[a] = NewArea
    BY <1>2, <1>9 DEF Swept
  <2>2. HasRoom(s.tree[a])
    BY <2>1, NewAreaIs, AreaChunkAssumption DEF HasRoom
  <2> HIDE DEF X
  <2>3. QED
    BY <1>1, <1>3, <1>5, <1>7, <1>9, <2>1, <2>2, CutIsCoherent
<1>10. ASSUME ~s.wild, s.free_atom = {}, NEW a \in Area \ DOMAIN s.tree, cur' = a,
              Cut(WithArea(s.tree, a), a), wild' = wild
       PROVE  Coherent'
  <2> HIDE DEF X
  <2>1. Right(WithArea(s.tree, a), held, X) /\ WithArea(s.tree, a)[a] = NewArea
        /\ a \in DOMAIN WithArea(s.tree, a)
    <3>1. Right(s.tree, held, X) /\ a \in Area /\ a \notin DOMAIN s.tree
      BY <1>7, <1>10
    <3>2. Right(WithArea(s.tree, a), held, X)
      BY <3>1, WithAreaIsRight
    <3>3. WithArea(s.tree, a)[a] = NewArea
      BY <3>1, WithAreaIsRight
    <3>4. DOMAIN WithArea(s.tree, a) = DOMAIN s.tree \cup {a}
      BY <3>1, WithAreaIsRight
    <3>5. QED
      BY <3>2, <3>3, <3>4
  <2>2. HasRoom(WithArea(s.tree, a)[a]) /\ ~Marked(WithArea(s.tree, a), a)
    BY <2>1, NewAreaIs, AreaChunkAssumption DEF HasRoom, Marked, Deleted
  <2>3. QED
    BY <1>1, <1>5, <1>7, <1>10, <2>1, <2>2, CutIsCoherent
<1>11. ASSUME wild' = TRUE, tree' = s.tree, cur' = cur, held' = held, crowded' = crowded
       PROVE  Coherent'
  <2>1. /\ DOMAIN s.tree \subseteq Area /\ \A a \in DOMAIN s.tree : s.tree[a] \in AreaRecord
    BY <1>2, <1>3 DEF Tidy
  <2>2. ChunkTypeOK'
    BY <1>3, <1>5, <1>11, <2>1 DEF ChunkTypeOK, AreaRecord
  <2>3. QED
    BY <1>3, <1>11, <2>2 DEF Coherent
<1>12. QED
  BY <1>4, <1>6, <1>8, <1>9, <1>10, <1>11

LEMMA DelAtomCoherent ==
  ASSUME Coherent, DelAtom
  PROVE  Coherent'
<1>1. PICK x \in held :
        /\ ~wild
        /\ tree' = GivenBack(tree, x.area)
        /\ free_atoms' = <<x>> \o free_atoms
        /\ held' = held \ {x}
        /\ cur' = cur /\ crowded' = crowded /\ wild' = wild
  BY DEF DelAtom, GivenBack
<1>2. /\ Right(tree, held, ToSet(free_atoms)) /\ Distinct(free_atoms)
      /\ free_atoms \in Seq(Atoms) /\ held \subseteq Atoms /\ IsFiniteSet(held)
      /\ cur \in Area /\ crowded \in BOOLEAN /\ wild \in BOOLEAN
  BY <1>1 DEF Coherent, ChunkTypeOK
<1>3. x \in Atoms /\ x \notin ToSet(free_atoms)
  BY <1>2 DEF Right
<1>4. free_atoms' \in Seq(Atoms) /\ ToSet(free_atoms') = ToSet(free_atoms) \cup {x} /\ Distinct(free_atoms')
  BY <1>1, <1>2, <1>3, InFrontIs
<1>5. Right(tree', held', ToSet(free_atoms'))
  <2>1. Right(GivenBack(tree, x.area), held \ {x}, ToSet(free_atoms) \cup {x})
    BY <1>1, <1>2, BackIsRight
  <2>2. QED
    BY <1>1, <1>4, <2>1
<1>6. IsFiniteSet(held')
  BY <1>1, <1>2, FS_RemoveElement
<1>7. QED
  BY <1>1, <1>2, <1>4, <1>5, <1>6, CoherentNext

-----------------------------------------------------------------------------
(* One area: the loop never frees it, and nothing else has a free atom.    *)
LEMMA OneStep ==
  ASSUME NEW t, NEW F, Sound(t, F), NEW c, DOMAIN t = {c}, NEW k \in 1..Len(F),
         NEW s, Remains(t, s), ~s.wild, c \in DOMAIN s.tree, NEW r, r = CleanAtom(s, F[k])
  PROVE  ~r.wild /\ c \in DOMAIN r.tree
<1> DEFINE x == F[k]
<1>1. x.area = c
  BY SoundAtom
<1>2. r = Turn(s, x)
  <2>1. s = Scan(s.tree, s.kept, s.free_atom, s.free_area, s.wild)
    BY DEF Remains
  <2> HIDE DEF x
  <2>2. CleanAtom(s, x) = Turn(s, x)
    BY <2>1, CleanAtomIs
  <2>3. QED
    BY <2>2 DEF x
<1> HIDE DEF x
<1>3. CASE ~Found(s.tree, x)
  <2>1. r = s
    BY <1>1, <1>2, <1>3 DEF Turn
  <2>2. QED
    BY <2>1
<1>4. CASE Found(s.tree, x) /\ s.tree[c].free_chunk = Deleted
  <2>1. c \notin s.free_area
    <3>1. NewArea.free_chunk # Deleted
      BY NewAreaIs DEF Deleted
    <3>2. QED
      BY <1>4, <3>1 DEF Remains
  <2>2. s.free_area = {}
    BY <2>1 DEF Remains
  <2>3. r = Scan(Renewed(s.tree, c), s.kept, s.free_atom, {c}, s.wild)
    BY <1>1, <1>2, <1>4, <2>2 DEF Turn
  <2>4. r.tree = Renewed(s.tree, c) /\ r.wild = s.wild
    BY <2>3, ScanFields
  <2>5. DOMAIN Renewed(s.tree, c) = DOMAIN s.tree
    BY DEF Renewed
  <2>6. QED
    BY <2>4, <2>5
<1>5. CASE Found(s.tree, x) /\ s.tree[c].free_chunk # Deleted /\ s.free_atom = {}
  <2>1. r = Scan(s.tree, s.kept, {x}, s.free_area, s.wild)
    BY <1>1, <1>2, <1>5 DEF Turn
  <2>2. r.tree = s.tree /\ r.wild = s.wild
    BY <2>1, ScanFields
  <2>3. QED
    BY <2>2
<1>6. CASE Found(s.tree, x) /\ s.tree[c].free_chunk # Deleted /\ s.free_atom # {}
  <2>1. r = Scan(s.tree, Append(s.kept, x), s.free_atom, s.free_area, s.wild)
    BY <1>1, <1>2, <1>6 DEF Turn
  <2>2. r.tree = s.tree /\ r.wild = s.wild
    BY <2>1 DEF Scan
  <2>3. QED
    BY <2>2
<1>7. QED
  BY <1>3, <1>4, <1>5, <1>6

LEMMA OneStays ==
  ASSUME Sound(tree, free_atoms), tree = [a \in DOMAIN tree |-> tree[a]], NEW c, DOMAIN tree = {c}
  PROVE  ~Cleaned.wild /\ DOMAIN Cleaned.tree = {c}
<1> DEFINE n == Len(free_atoms)
           F == free_atoms
<1>1. free_atoms \in Seq(Atoms) /\ n \in Nat
  BY LenProperties DEF Sound
<1>2. PICK g : CleanedBy(F, Scan(tree, << >>, {}, {}, FALSE), g) /\ Cleaned = Result(g[n])
  BY <1>1, CleanedIs
<1> HIDE DEF n, F
<1> DEFINE Good(s, k) == Scanned(tree, F, k, s) /\ ~s.wild /\ c \in DOMAIN s.tree
           T == {k \in Nat : k <= n => Good(g[k], k)}
<1>3. 0 \in T
  <2> DEFINE s == Scan(tree, << >>, {}, {}, FALSE)
  <2>1. s.tree = tree /\ s.wild = FALSE
    BY DEF Scan
  <2>2. Scanned(tree, F, 0, s)
    BY ScanStart DEF F
  <2> HIDE DEF s
  <2>3. Good(s, 0)
    BY <2>1, <2>2
  <2>4. QED
    BY <1>2, <2>3 DEF CleanedBy, s
<1>4. ASSUME NEW k \in Nat, k \in T
      PROVE  k + 1 \in T
  <2>1. SUFFICES ASSUME k + 1 <= n
                 PROVE  Good(g[k + 1], k + 1)
    BY <1>4
  <2>2. k <= n /\ k + 1 \in 1..Len(F) /\ (k + 1) - 1 = k
    BY <1>1, <2>1 DEF n, F
  <2>3. g[k + 1] = CleanAtom(g[(k + 1) - 1], F[k + 1])
    BY <1>2, <2>2 DEF CleanedBy
  <2>4. g[k + 1] = CleanAtom(g[k], F[k + 1])
    BY <2>2, <2>3
  <2>5. Good(g[k], k)
    BY <1>4, <2>2
  <2>6. Scanned(tree, F, k + 1, g[k + 1])
    BY <2>2, <2>4, <2>5, ScanStep DEF F
  <2>7. Remains(tree, g[k])
    BY <2>5 DEF Scanned
  <2>8. ~g[k + 1].wild /\ c \in DOMAIN g[k + 1].tree
    <3>1. PICK u, v : u = g[k] /\ v = g[k + 1]
      OBVIOUS
    <3>2. Remains(tree, u) /\ ~u.wild /\ c \in DOMAIN u.tree /\ v = CleanAtom(u, F[k + 1])
      BY <2>4, <2>5, <2>7, <3>1
    <3>3. Sound(tree, F)
      BY DEF F
    <3>4. ~v.wild /\ c \in DOMAIN v.tree
      BY <2>2, <3>2, <3>3, OneStep
    <3>5. QED
      BY <3>1, <3>4
  <2>9. QED
    BY <2>6, <2>8
<1>5. Nat \subseteq T
  <2> HIDE DEF T
  <2>1. QED
    BY <1>3, <1>4, SetInduction
<1>6. Good(g[n], n)
  BY <1>1, <1>5
<1> DEFINE s == g[n]
<1>7. Remains(tree, s) /\ Sorted(tree, F, n, s) /\ ~s.wild /\ c \in DOMAIN s.tree
  BY <1>6 DEF Scanned
<1> HIDE DEF s
<1>8. s.free_atom # {} => c \notin s.free_area
  <2>1. SUFFICES ASSUME NEW x \in s.free_atom
                 PROVE  ~Marked(tree, c)
    BY <1>7 DEF Remains
  <2>2. Live(tree, F, n, x)
    BY <1>7 DEF Sorted
  <2>3. PICK i \in 1..n : F[i] = x /\ ~Marked(tree, x.area)
    BY <2>2 DEF Live
  <2>4. x.area = c
    BY <2>3, SoundAtom DEF F, n
  <2>5. QED
    BY <2>3, <2>4
<1>9. Result(s).wild = s.wild
      /\ DOMAIN Result(s).tree = IF s.free_atom # {} THEN DOMAIN s.tree \ s.free_area ELSE DOMAIN s.tree
  BY <1>7, ResultIs
<1>10. DOMAIN s.tree \subseteq {c}
  BY <1>7 DEF Remains
<1>11. ~Result(s).wild /\ DOMAIN Result(s).tree = {c}
  BY <1>7, <1>8, <1>9, <1>10
<1>12. QED
  BY <1>2, <1>11 DEF s

(* Who asks for another area has nmemb atoms in use.                       *)
LEMMA FullIsCrowded ==
  ASSUME NEW t, NEW H, Right(t, H, {}), IsFiniteSet(H), NEW a \in DOMAIN t, ~HasRoom(t[a])
  PROVE  Cardinality(H) >= nmemb
<1>1. t[a] \in AreaRecord /\ Counted(t, H, {}, a) /\ a \in Area
  BY DEF Right
<1>2. t[a].index = nmemb
  BY <1>1, AreaChunkAssumption DEF HasRoom, AreaRecord
<1>3. Of(t, {}, a) = {}
  BY DEF Of
<1>4. Of(t, H, a) = 0..(nmemb - 1)
  BY <1>1, <1>2, <1>3 DEF Counted
<1>5. \A i \in 0..(nmemb - 1) : Atom(a, i) \in H
  BY <1>4 DEF Of
<1> DEFINE S == 0..(nmemb - 1)
           f == [i \in S |-> Atom(a, i)]
<1>6. \A i, j \in S : Atom(a, i) = Atom(a, j) => i = j
  <2> SUFFICES ASSUME NEW i \in S, NEW j \in S, Atom(a, i) = Atom(a, j)
               PROVE  i = j
    OBVIOUS
  <2>1. Atom(a, i).offset = i /\ Atom(a, j).offset = j
    BY DEF Atom
  <2>2. QED
    BY <2>1
<1>7. f \in Injection(S, H)
  <2>1. f \in [S -> H] /\ \A i \in S : f[i] = Atom(a, i)
    BY <1>5
  <2> HIDE DEF f, S
  <2>2. QED
    BY <1>6, <2>1 DEF Injection, IsInjective
<1>8. Cardinality(S) <= Cardinality(H)
  <2> HIDE DEF f, S
  <2>1. QED
    BY <1>7, FS_Injection
<1>9. Cardinality(S) = nmemb
  BY <1>1, <1>2, OfIsFinite
<1>10. Cardinality(H) \in Nat
  BY FS_CardinalityType
<1>11. QED
  BY <1>8, <1>9, <1>10, AreaChunkAssumption

LEMMA OneAreaNew ==
  ASSUME Coherent, ~wild, DOMAIN tree = {cur}, NewAtom, ~crowded'
  PROVE  ~wild' /\ DOMAIN tree' = {cur'}
<1> DEFINE s == Cleaned
           X == ToSet(s.kept) \cup s.free_atom
<1>1. ~s.wild /\ DOMAIN s.tree = {cur}
  BY CoherentIsSound, OneStays
<1>2. Swept(tree, free_atoms, s) /\ Right(s.tree, held, X)
  BY <1>1, CleanedIsCoherent
<1>3. IsFiniteSet(held)
  BY DEF Coherent
<1>4. \/ /\ \E atom \in s.free_atom :
              tree' = [s.tree EXCEPT ![atom.area] = OneFreeLess(@)]
         /\ cur' = cur /\ wild' = wild
      \/ (\E a \in {cur} \cup s.free_area : Cut(s.tree, a)) /\ cur' = cur /\ wild' = wild
      \/ /\ s.free_atom = {} /\ ~HasRoom(s.tree[cur])
         /\ crowded' = (crowded \/ Cardinality(held) >= nmemb)
  BY <1>1 DEF NewAtom, Cut, HandOut
<1> HIDE DEF s
<1>5. CASE /\ \E atom \in s.free_atom :
                tree' = [s.tree EXCEPT ![atom.area] = OneFreeLess(@)]
           /\ cur' = cur /\ wild' = wild
  <2>1. DOMAIN tree' = DOMAIN s.tree
    BY <1>5
  <2>2. QED
    BY <1>1, <1>5, <2>1
<1>6. CASE (\E a \in {cur} \cup s.free_area : Cut(s.tree, a)) /\ cur' = cur /\ wild' = wild
  <2>1. DOMAIN tree' = DOMAIN s.tree
    BY <1>6 DEF Cut
  <2>2. QED
    BY <1>1, <1>6, <2>1
<1>7. CASE /\ s.free_atom = {} /\ ~HasRoom(s.tree[cur])
           /\ crowded' = (crowded \/ Cardinality(held) >= nmemb)
  <2>1. X = {}
    <3>1. s.kept = << >>
      BY <1>2, <1>7 DEF Swept
    <3>2. ToSet(<< >>) = {}
      BY DEF ToSet
    <3>3. QED
      BY <1>7, <3>1, <3>2
  <2>2. Right(s.tree, held, {})
    BY <1>2, <2>1
  <2>3. Cardinality(held) >= nmemb
    BY <1>1, <1>3, <1>7, <2>2, FullIsCrowded
  <2>4. QED
    BY <1>7, <2>3
<1>8. QED
  BY <1>4, <1>5, <1>6, <1>7

-----------------------------------------------------------------------------
(* The atoms, with the phase of the connection they are for.               *)
OneArea ==
  ~crowded => /\ ~wild
              /\ DOMAIN tree \subseteq {cur}
              /\ phase \in {"idle", "event"} => cur \in DOMAIN tree

NoneKept == phase \notin {"idle", "event"} => held = {} /\ free_atoms = << >>

ChunkInv == Coherent /\ OneArea /\ NoneKept

LEMMA ChunkSame ==
  ASSUME ChunkInv, UNCHANGED chunkVars, phase' \in {"idle", "event"} <=> phase \in {"idle", "event"}
  PROVE  ChunkInv'
<1>1. tree' = tree /\ cur' = cur /\ free_atoms' = free_atoms /\ held' = held
      /\ crowded' = crowded /\ wild' = wild
  BY DEF chunkVars
<1>2. Coherent'
  BY <1>1 DEF ChunkInv, Coherent, ChunkTypeOK
<1>3. OneArea'
  BY <1>1 DEF ChunkInv, OneArea
<1>4. NoneKept'
  BY <1>1 DEF ChunkInv, NoneKept
<1>5. QED
  BY <1>2, <1>3, <1>4 DEF ChunkInv

LEMMA ChunkStart ==
  ASSUME MemoryInit
  PROVE  ChunkInv
<1>1. /\ cur \in Area /\ tree = [a \in {cur} |-> NewArea] /\ free_atoms = << >>
      /\ held = {} /\ crowded = FALSE /\ wild = FALSE /\ phase = "idle"
  BY DEF MemoryInit, ChunkInit
<1>2. Right(tree, held, ToSet(free_atoms)) /\ Distinct(free_atoms) /\ IsFiniteSet(held)
  BY <1>1, CoherentStart
<1>3. DOMAIN tree = {cur} /\ free_atoms \in Seq(Atoms)
  BY <1>1
<1>4. ChunkTypeOK
  BY <1>1, <1>2, <1>3 DEF ChunkTypeOK, Right, AreaRecord
<1>5. QED
  BY <1>1, <1>2, <1>3, <1>4 DEF ChunkInv, Coherent, OneArea, NoneKept

LEMMA ChunkNewConnection ==
  ASSUME ChunkInv, NewConnection
  PROVE  ChunkInv'
<1>1. PICK a \in Area : cur' = a /\ tree' = [x \in {a} |-> NewArea]
  BY DEF NewConnection
<1>2. /\ phase = "closed" /\ phase' = "idle"
      /\ free_atoms' = free_atoms /\ held' = held /\ crowded' = crowded /\ wild' = wild
  BY DEF NewConnection
<1>3. held' = {} /\ free_atoms' = << >>
  BY <1>2 DEF ChunkInv, NoneKept
<1>4. Right(tree', {}, ToSet(<< >>)) /\ Distinct(<< >>) /\ IsFiniteSet({})
  BY <1>1, CoherentStart
<1>5. DOMAIN tree' = {cur'} /\ free_atoms' \in Seq(Atoms)
  BY <1>1, <1>3
<1>6. crowded' \in BOOLEAN /\ wild' \in BOOLEAN
  BY <1>2 DEF ChunkInv, Coherent, ChunkTypeOK
<1>7. ChunkTypeOK'
  BY <1>1, <1>3, <1>4, <1>5, <1>6 DEF ChunkTypeOK, Right, AreaRecord
<1>8. Coherent'
  BY <1>3, <1>4, <1>7 DEF Coherent
<1>9. OneArea'
  BY <1>2, <1>5 DEF ChunkInv, OneArea
<1>10. QED
  BY <1>2, <1>8, <1>9 DEF ChunkInv, NoneKept

LEMMA ChunkTableStep ==
  ASSUME ChunkInv, TableStep
  PROVE  ChunkInv' /\ DOMAIN tree' \subseteq Area
<1>1. phase = "event" /\ phase' = "event" /\ (NewAtom \/ DelAtom) /\ Coherent /\ OneArea
  BY DEF TableStep, ChunkInv
<1>2. Coherent'
  BY <1>1, NewAtomCoherent, DelAtomCoherent
<1>3. OneArea'
  <2>1. SUFFICES ASSUME ~crowded'
                 PROVE  ~wild' /\ DOMAIN tree' \subseteq {cur'} /\ cur' \in DOMAIN tree'
    BY DEF OneArea
  <2>2. ~crowded
    <3>1. \/ crowded' = (crowded \/ Cardinality(held) >= nmemb)
          \/ crowded' = crowded
      BY <1>1 DEF NewAtom, DelAtom, Cut, HandOut
    <3>2. QED
      BY <2>1, <3>1
  <2>3. ~wild /\ DOMAIN tree = {cur}
    BY <1>1, <2>2 DEF OneArea
  <2>4. CASE NewAtom
    BY <1>1, <2>1, <2>3, <2>4, OneAreaNew
  <2>5. CASE DelAtom
    <3>1. DOMAIN tree' = DOMAIN tree /\ cur' = cur /\ wild' = wild
      BY <2>5 DEF DelAtom
    <3>2. QED
      BY <2>3, <3>1
  <2>6. QED
    BY <1>1, <2>4, <2>5
<1>4. QED
  BY <1>1, <1>2, <1>3 DEF ChunkInv, NoneKept, Coherent, ChunkTypeOK

LEMMA ChunkNoTable ==
  ASSUME ChunkInv, NoTable, ~wild, phase' \notin {"idle", "event"}
  PROVE  ChunkInv'
<1>1. /\ tree' = << >> /\ free_atoms' = << >> /\ held' = {}
      /\ crowded' = FALSE /\ cur' = cur /\ wild' = wild
  BY DEF NoTable
<1>2. cur \in Area /\ wild \in BOOLEAN
  BY DEF ChunkInv, Coherent, ChunkTypeOK
<1>3. DOMAIN tree' = {}
  BY <1>1
<1>4. Right(tree', held', ToSet(free_atoms')) /\ Distinct(free_atoms')
      /\ IsFiniteSet(held') /\ free_atoms' \in Seq(Atoms)
  BY <1>1, NoTableIsRight
<1>5. Coherent'
  BY <1>1, <1>2, <1>4, CoherentNext
<1>6. QED
  BY <1>1, <1>3, <1>5 DEF ChunkInv, OneArea, NoneKept

LEMMA ChunkIsSafe ==
  ASSUME ChunkInv
  PROVE  ChunkTypeOK /\ HeldIsSafe /\ CountsAreRight /\ OneAreaIsEnough
<1>1. ChunkTypeOK
  BY DEF ChunkInv, Coherent
<1>2. ASSUME ~wild
      PROVE  Right(tree, held, ToSet(free_atoms)) /\ Distinct(free_atoms) /\ free_atoms \in Seq(Atoms)
  BY <1>1, <1>2 DEF ChunkInv, Coherent, ChunkTypeOK
<1>3. HeldIsSafe
  <2>1. SUFFICES ASSUME ~wild
                 PROVE  /\ \A atom \in held : Found(tree, atom) /\ tree[atom.area].free_chunk # Deleted
                        /\ held \cap ToSet(free_atoms) = {}
                        /\ IsInjective(free_atoms)
    BY DEF HeldIsSafe
  <2>2. held \cap ToSet(free_atoms) = {} /\ \A atom \in held : Found(tree, atom)
    BY <1>2, <2>1 DEF Right
  <2>3. \A atom \in held : ~Marked(tree, atom.area)
    BY <1>2, <2>1, RightAtoms
  <2>4. IsInjective(free_atoms)
    BY <1>2, <2>1, DistinctIs
  <2>5. QED
    BY <2>2, <2>3, <2>4 DEF Marked
<1>4. CountsAreRight
  BY <1>2 DEF CountsAreRight, Right, Counted, Of
<1>5. OneAreaIsEnough
  BY DEF ChunkInv, OneArea, OneAreaIsEnough
<1>6. QED
  BY <1>1, <1>3, <1>4, <1>5

-----------------------------------------------------------------------------
(* The inductive invariant: areas and chunks are what the phase calls for, *)
(* and the atoms are counted right unless freed memory was accessed.       *)
MemoryInv == AreasInv /\ ChunkInv

LEMMA MemoryInvStep ==
  ASSUME MemoryInv, [MemoryNext]_memoryVars
  PROVE  MemoryInv'
<1> USE DEF MemoryInv
<1>1. CASE NewConnection
  BY <1>1, AreasNewConnection, ChunkNewConnection
<1>2. CASE CloseConnection
  <2>1. NoTable /\ ~wild /\ phase' = "closed"
    BY <1>2 DEF CloseConnection
  <2>2. QED
    BY <1>2, <2>1, AreasCloseConnection, ChunkNoTable
<1>3. CASE ExitProgram
  <2>1. NoTable /\ ~wild /\ phase' = "exited"
    BY <1>3 DEF ExitProgram
  <2>2. QED
    BY <1>3, <2>1, AreasExitProgram, ChunkNoTable
<1>4. CASE StartEvent
  <2>1. UNCHANGED chunkVars /\ phase = "idle" /\ phase' = "event"
    BY <1>4 DEF StartEvent
  <2>2. QED
    BY <1>4, <2>1, AreasStartEvent, ChunkSame
<1>5. CASE EndEvent
  <2>1. UNCHANGED chunkVars /\ phase = "event" /\ phase' = "idle"
    BY <1>5 DEF EndEvent
  <2>2. QED
    BY <1>5, <2>1, AreasEndEvent, ChunkSame
<1>6. CASE TableStep
  BY <1>6, AreasTableStep, ChunkTableStep
<1>7. CASE AskForRoom
  <2>1. UNCHANGED chunkVars /\ phase' = phase
    BY <1>7 DEF AskForRoom
  <2>2. QED
    BY <1>7, <2>1, AreasAskForRoom, ChunkSame
<1>8. CASE GetLastRoom
  <2>1. UNCHANGED chunkVars /\ phase' = phase
    BY <1>8 DEF GetLastRoom
  <2>2. QED
    BY <1>8, <2>1, AreasGetLastRoom, ChunkSame
<1>9. CASE PackBuffer
  <2>1. UNCHANGED chunkVars /\ phase' = phase
    BY <1>9 DEF PackBuffer
  <2>2. QED
    BY <1>9, <2>1, AreasPackBuffer, ChunkSame
<1>10. CASE GrowBuffer
  <2>1. UNCHANGED chunkVars /\ phase' = phase
    BY <1>10 DEF GrowBuffer
  <2>2. QED
    BY <1>10, <2>1, AreasGrowBuffer, ChunkSame
<1>11. CASE Halt \/ UNCHANGED memoryVars
  <2>1. UNCHANGED memoryVars
    BY <1>11 DEF Halt
  <2>2. UNCHANGED chunkVars /\ phase' = phase
    BY <2>1 DEF memoryVars
  <2>3. QED
    BY <2>1, <2>2, AreasSame, ChunkSame
<1>12. QED
  BY <1>1, <1>2, <1>3, <1>4, <1>5, <1>6, <1>7, <1>8, <1>9, <1>10, <1>11 DEF MemoryNext

(* Whatever the areas, the size of an area and the steps: the invariant.   *)
THEOREM MemoryInvariant == MemorySpec => []MemoryInv
<1>1. MemoryInit => MemoryInv
  BY AreasInit, ChunkStart DEF MemoryInv
<1>2. MemoryInv /\ [MemoryNext]_memoryVars => MemoryInv'
  BY MemoryInvStep
<1>3. QED
  BY <1>1, <1>2, PTL DEF MemorySpec

(* Every variable has its type; in particular no atom lies outside of the  *)
(* nmemb of an area, and no chunk in use is empty.                         *)
THEOREM MemoryTypes == MemorySpec => []MemoryTypeOK
<1>1. MemoryInv => MemoryTypeOK
  BY AreasType, ChunkIsSafe DEF MemoryInv, MemoryTypeOK
<1>2. QED
  BY <1>1, MemoryInvariant, PTL

(* An atom in use is never freed, handed out twice or lost count of,       *)
(* whatever ac_clean marks, reuses and frees meanwhile (lib/area_chunk.c), *)
(* and the area that holds it stays a chunk of the table's area.           *)
THEOREM HeldStaysMemory == MemorySpec => []HeldIsMemory
<1>1. MemoryInv => HeldIsMemory
  BY AreasOfAtoms, ChunkIsSafe DEF MemoryInv, HeldIsMemory
<1>2. QED
  BY <1>1, MemoryInvariant, PTL

(* However events, requests for rooms, buffers and closings follow each    *)
(* other, each chunk is listed and counted in one area, and an area holds  *)
(* what is still used, no less and no more (lib/area.c and its callers).   *)
THEOREM NothingGetsLost == MemorySpec => []NothingLost
<1>1. MemoryInv => NothingLost
  BY AreasLoseNothing DEF MemoryInv
<1>2. QED
  BY <1>1, MemoryInvariant, PTL

(* While no more than nmemb nicks were known at a time, the only area of   *)
(* atoms is the one cur points to, and it is never freed: nothing          *)
(* undefined happens (area_chunk_new, ac_clean).                           *)
THEOREM OneAreaSuffices == MemorySpec => []OneAreaIsEnough
<1>1. MemoryInv => OneAreaIsEnough
  BY ChunkIsSafe DEF MemoryInv
<1>2. QED
  BY <1>1, MemoryInvariant, PTL

=============================================================================
