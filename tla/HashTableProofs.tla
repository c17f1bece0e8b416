--------------------------- MODULE HashTableProofs ---------------------------
(***************************************************************************)
(* The lists and the ring of lib/hash.c make a dictionary, for any names,  *)
(* hashes and numbers of entries and of slots.                             *)
(***************************************************************************)
EXTENDS HashTable, SequenceFacts, FiniteSetTheorems

-----------------------------------------------------------------------------
(* The table as the steps leave it, with the tree, the bytes of the        *)
(* entries and the free ones as parameters.                                *)

Hashed(m, n) == m[n].hash = OatHash[m[n].key]

Cells(m) ==
  /\ m \in [Node -> [key : Key, arg : Arg, hash : Nat]]
  /\ \A n \in Node : m[n].hash = 0 \/ Hashed(m, n)

(* One list, of the first hash h. *)
Sorted(t, m, gone, h) ==
  /\ t \in [list : Seq(Node), elms : Nat \ {0}]
  /\ Len(t.list) = t.elms
  /\ \A i \in 1..t.elms :
       /\ t.list[i] \notin gone
       /\ FnvHash[m[t.list[i]].key] = h
       /\ t.elms > 1 => Hashed(m, t.list[i])
       /\ \A j \in 1..(i - 1) : m[t.list[j]].hash < m[t.list[i]].hash

Lists(tr, m, gone) ==
  /\ Cells(m) /\ gone \subseteq Node
  /\ DOMAIN tr \subseteq {FnvHash[k] : k \in Key}
  /\ \A h \in DOMAIN tr : Sorted(tr[h], m, gone, h)

In(tr, n) == \E h \in DOMAIN tr : \E i \in 1..tr[h].elms : tr[h].list[i] = n

Ring ==
  /\ cache \in [Slots -> [used : BOOLEAN, lnode : {NoLnode} \cup Node,
                          tnode : {NoTnode} \cup {FnvHash[k] : k \in Key}]]
  /\ \A s \in Slots : cache[s].used => cache[s].lnode \in Node
  /\ cache_offs \in {0} \cup Slots

Inv == Lists(tree, mem, free) /\ Ring

-----------------------------------------------------------------------------
(* One list *)

LEMMA ListTypes ==
  ASSUME NEW t, NEW m, NEW gone, NEW h, Sorted(t, m, gone, h)
  PROVE  /\ t.list \in Seq(Node) /\ t.elms \in Nat \ {0} /\ Len(t.list) = t.elms
         /\ \A i \in 1..t.elms : t.list[i] \in Node
         /\ t.list # <<>> /\ Head(t.list) = t.list[1]
<1>1. /\ t.list \in Seq(Node) /\ t.elms \in Nat \ {0} /\ Len(t.list) = t.elms
  BY DEF Sorted
<1>2. \A i \in 1..t.elms : t.list[i] \in Node
  BY <1>1, ElementOfSeq
<1>3. t.list # <<>> /\ Head(t.list) = t.list[1]
  BY <1>1
<1>4. QED
  BY <1>1, <1>2, <1>3

(* No entry is twice in a list. *)
LEMMA OnceInList ==
  ASSUME NEW t, NEW m, NEW gone, NEW h, Cells(m), Sorted(t, m, gone, h),
         NEW i \in 1..t.elms, NEW j \in 1..t.elms,
         m[t.list[i]].hash = m[t.list[j]].hash
  PROVE  i = j
<1>1. t.elms \in Nat /\ i \in Nat /\ j \in Nat
  BY ListTypes
<1>2. m[t.list[i]].hash \in Nat
  BY ListTypes DEF Cells
<1>3. ASSUME i < j PROVE FALSE
  BY <1>1, <1>2, <1>3 DEF Sorted
<1>4. ASSUME j < i PROVE FALSE
  BY <1>1, <1>2, <1>4 DEF Sorted
<1>5. QED
  BY <1>1, <1>3, <1>4

(* A list is no longer than there are entries. *)
LEMMA ListFits ==
  ASSUME NEW t, NEW m, NEW gone, NEW h, Cells(m), Sorted(t, m, gone, h)
  PROVE  t.elms \in 1..Cardinality(Node)
<1>1. /\ t.list \in Seq(Node) /\ t.elms \in Nat \ {0} /\ Len(t.list) = t.elms
      /\ \A i \in 1..t.elms : t.list[i] \in Node
  BY ListTypes
<1>2. t.list \in Injection(1..t.elms, Node)
  <2>1. t.list \in [1..t.elms -> Node]
    BY <1>1
  <2>2. \A i, j \in 1..t.elms : t.list[i] = t.list[j] => i = j
    BY OnceInList
  <2>3. QED
    BY <2>1, <2>2 DEF Injection, IsInjective
<1>3. Cardinality(1..t.elms) <= Cardinality(Node)
  BY <1>2, HashAssumption, FS_Injection
<1>4. Cardinality(1..t.elms) = t.elms
  BY <1>1, FS_Interval
<1>5. Cardinality(Node) \in Nat
  BY HashAssumption, FS_CardinalityType
<1>6. QED
  BY <1>1, <1>3, <1>4, <1>5

(* Another step's memory is the same to a list it does not touch. *)
Untouched(t, m, m2, gone2) ==
  \A i \in 1..t.elms : m2[t.list[i]] = m[t.list[i]] /\ t.list[i] \notin gone2

LEMMA ListUntouched ==
  ASSUME NEW t, NEW m, NEW gone, NEW h, Sorted(t, m, gone, h), NEW m2, NEW gone2,
         Untouched(t, m, m2, gone2)
  PROVE  Sorted(t, m2, gone2, h)
<1>1. t.elms \in Nat \ {0}
  BY ListTypes
<1>2. \A i \in 1..t.elms : \A j \in 1..(i - 1) : j \in 1..t.elms
  BY <1>1
<1>3. QED
  BY <1>1, <1>2 DEF Sorted, Hashed, Untouched

LEMMA ListOfOne ==
  ASSUME NEW m, Cells(m), NEW gone, NEW n \in Node, n \notin gone
  PROVE  Sorted([list |-> <<n>>, elms |-> 1], m, gone, FnvHash[m[n].key])
<1>1. <<n>> \in Seq(Node) /\ Len(<<n>>) = 1 /\ <<n>>[1] = n
  OBVIOUS
<1>2. QED
  BY <1>1 DEF Sorted

-----------------------------------------------------------------------------
(* What is in a table *)

EntriesOf(tr) == UNION {ToSet(tr[h].list) : h \in DOMAIN tr}

LEMMA EntriesAreIn ==
  ASSUME NEW tr, NEW m, NEW gone, Lists(tr, m, gone)
  PROVE  EntriesOf(tr) = {n \in Node : In(tr, n)}
<1>1. \A h \in DOMAIN tr : /\ \A i \in 1..tr[h].elms : tr[h].list[i] \in Node
                           /\ tr[h].list \in Seq(Node) /\ Len(tr[h].list) = tr[h].elms
  BY ListTypes DEF Lists
<1>2. \A h \in DOMAIN tr : ToSet(tr[h].list) = {tr[h].list[i] : i \in 1..tr[h].elms}
  BY <1>1 DEF ToSet
<1>3. ASSUME NEW n \in EntriesOf(tr) PROVE n \in Node /\ In(tr, n)
  <2>1. PICK h \in DOMAIN tr : n \in ToSet(tr[h].list)
    BY <1>3 DEF EntriesOf
  <2>2. PICK i \in 1..tr[h].elms : n = tr[h].list[i]
    BY <1>2, <2>1
  <2>3. QED
    BY <1>1, <2>2 DEF In
<1>4. ASSUME NEW n \in Node, In(tr, n) PROVE n \in EntriesOf(tr)
  <2>1. PICK h \in DOMAIN tr : \E i \in 1..tr[h].elms : tr[h].list[i] = n
    BY <1>4 DEF In
  <2>2. n \in ToSet(tr[h].list)
    BY <1>2, <2>1
  <2>3. QED
    BY <2>1, <2>2 DEF EntriesOf
<1>5. QED
  BY <1>3, <1>4

(* No two entries have both hashes in common. *)
LEMMA HashesTell ==
  ASSUME NEW tr, NEW m, NEW gone, Lists(tr, m, gone),
         NEW x, NEW y, In(tr, x), In(tr, y), SameHashes(m[x].key, m[y].key)
  PROVE  x = y
<1>1. PICK h \in DOMAIN tr : \E i \in 1..tr[h].elms : tr[h].list[i] = x
  BY DEF In
<1>2. PICK i \in 1..tr[h].elms : tr[h].list[i] = x
  BY <1>1
<1>3. PICK g \in DOMAIN tr : \E j \in 1..tr[g].elms : tr[g].list[j] = y
  BY DEF In
<1>4. PICK j \in 1..tr[g].elms : tr[g].list[j] = y
  BY <1>3
<1>5. Sorted(tr[h], m, gone, h) /\ Sorted(tr[g], m, gone, g)
  BY DEF Lists
<1>6. h = FnvHash[m[x].key] /\ g = FnvHash[m[y].key] /\ h = g
  BY <1>2, <1>4, <1>5 DEF Sorted, SameHashes
<1>7. CASE tr[h].elms = 1
  <2>1. i = 1 /\ j = 1
    BY <1>2, <1>4, <1>6, <1>7
  <2>2. QED
    BY <2>1, <1>2, <1>4, <1>6
<1>8. CASE tr[h].elms # 1
  <2>1. tr[h].elms > 1
    BY <1>5, <1>8, ListTypes
  <2>2. Hashed(m, x) /\ Hashed(m, y)
    BY <1>2, <1>4, <1>5, <1>6, <2>1 DEF Sorted
  <2>3. i = j
    BY <1>2, <1>4, <1>5, <1>6, <2>2, OnceInList DEF Lists, Hashed, SameHashes
  <2>4. QED
    BY <2>3, <1>2, <1>4, <1>6
<1>9. QED
  BY <1>7, <1>8

(* A name has one entry. *)
LEMMA OneEntry ==
  ASSUME NEW tr, NEW m, NEW gone, Lists(tr, m, gone),
         NEW x, NEW y, In(tr, x), In(tr, y), m[x].key = m[y].key
  PROVE  x = y
  BY HashesTell DEF SameHashes

-----------------------------------------------------------------------------
(* What a table stands for *)

Names(tr, m) == {m[n].key : n \in {x \in Node : In(tr, x)}}

MeaningOf(tr, m) ==
  [k \in Names(tr, m) |-> m[CHOOSE n \in {x \in Node : In(tr, x)} : m[n].key = k].arg]

MeaningOver(e, m) == [k \in {m[n].key : n \in e} |-> m[CHOOSE n \in e : m[n].key = k].arg]

LEMMA MeaningIsMeaningOf ==
  ASSUME NEW tr, NEW m, NEW gone, Lists(tr, m, gone)
  PROVE  MeaningOver(EntriesOf(tr), m) = MeaningOf(tr, m)
<1>1. EntriesOf(tr) = {n \in Node : In(tr, n)}
  BY EntriesAreIn
<1>2. MeaningOf(tr, m) = MeaningOver({n \in Node : In(tr, n)}, m)
  BY DEF MeaningOf, MeaningOver, Names
<1>3. QED
  BY <1>1, <1>2

LEMMA InIsNode ==
  ASSUME NEW tr, NEW m, NEW gone, Lists(tr, m, gone), NEW n, In(tr, n)
  PROVE  n \in Node /\ m[n].key \in Key /\ n \notin gone
<1>1. PICK h \in DOMAIN tr : \E i \in 1..tr[h].elms : tr[h].list[i] = n
  BY DEF In
<1>2. Sorted(tr[h], m, gone, h)
  BY DEF Lists
<1>3. n \in Node
  BY <1>1, <1>2, ListTypes
<1>4. n \notin gone
  BY <1>1, <1>2 DEF Sorted
<1>5. QED
  BY <1>3, <1>4 DEF Lists, Cells

LEMMA MeaningOfEntry ==
  ASSUME NEW tr, NEW m, NEW gone, Lists(tr, m, gone), NEW n, In(tr, n)
  PROVE  m[n].key \in Names(tr, m) /\ MeaningOf(tr, m)[m[n].key] = m[n].arg
<1>1. n \in {x \in Node : In(tr, x)}
  BY InIsNode
<1>2. \A x \in {y \in Node : In(tr, y)} : m[x].key = m[n].key => x = n
  BY OneEntry
<1>3. (CHOOSE x \in {y \in Node : In(tr, y)} : m[x].key = m[n].key) = n
  BY <1>1, <1>2
<1>4. m[n].key \in Names(tr, m)
  BY <1>1 DEF Names
<1>5. QED
  BY <1>3, <1>4 DEF MeaningOf

(* The same entries with the same names mean the same. *)
LEMMA SameMeaning ==
  ASSUME NEW tr, NEW m, NEW gone, Lists(tr, m, gone), NEW tr2, NEW m2,
         \A n \in Node : In(tr2, n) <=> In(tr, n),
         \A n \in Node : In(tr, n) => m2[n].key = m[n].key /\ m2[n].arg = m[n].arg
  PROVE  Names(tr2, m2) = Names(tr, m) /\ MeaningOf(tr2, m2) = MeaningOf(tr, m)
<1>1. Names(tr2, m2) = Names(tr, m)
  BY DEF Names
<1>2. ASSUME NEW k \in Names(tr, m) PROVE MeaningOf(tr2, m2)[k] = MeaningOf(tr, m)[k]
  <2> DEFINE Mine(x)  == x \in Node /\ In(tr, x) /\ m[x].key = k
             Mine2(x) == x \in Node /\ In(tr2, x) /\ m2[x].key = k
             one      == CHOOSE n \in {x \in Node : In(tr, x)} : m[n].key = k
             one2     == CHOOSE n \in {x \in Node : In(tr2, x)} : m2[n].key = k
  <2>1. PICK n \in Node : In(tr, n) /\ m[n].key = k
    BY DEF Names
  <2>2. \A x \in Node : In(tr, x) /\ m[x].key = k => x = n
    BY <2>1, OneEntry
  <2>3. one = n
    BY <2>1, <2>2
  <2>4. one2 = n
    BY <2>1, <2>2
  <2>5. MeaningOf(tr2, m2)[k] = m2[n].arg /\ MeaningOf(tr, m)[k] = m[n].arg
    BY <1>1, <2>3, <2>4 DEF MeaningOf
  <2>6. QED
    BY <2>1, <2>5
<1>3. QED
  BY <1>1, <1>2 DEF MeaningOf

(* One entry more. *)
LEMMA MeaningGrows ==
  ASSUME NEW tr, NEW m, NEW gone, Lists(tr, m, gone),
         NEW tr2, NEW m2, NEW gone2, Lists(tr2, m2, gone2), NEW n \in Node,
         \A x \in Node : In(tr2, x) <=> In(tr, x) \/ x = n,
         \A x \in Node : In(tr, x) => m2[x].key = m[x].key /\ m2[x].arg = m[x].arg,
         m2[n].key \notin Names(tr, m)
  PROVE  /\ Names(tr2, m2) = Names(tr, m) \cup {m2[n].key}
         /\ MeaningOf(tr2, m2) =
              [x \in Names(tr, m) \cup {m2[n].key} |->
                IF x = m2[n].key THEN m2[n].arg ELSE MeaningOf(tr, m)[x]]
<1>1. Names(tr2, m2) = Names(tr, m) \cup {m2[n].key}
  BY DEF Names
<1>2. MeaningOf(tr2, m2)[m2[n].key] = m2[n].arg
  BY MeaningOfEntry
<1>3. ASSUME NEW k \in Names(tr, m) PROVE MeaningOf(tr2, m2)[k] = MeaningOf(tr, m)[k]
  <2>1. PICK x \in Node : In(tr, x) /\ m[x].key = k
    BY DEF Names
  <2>2. MeaningOf(tr, m)[k] = m[x].arg
    BY <2>1, MeaningOfEntry
  <2>3. MeaningOf(tr2, m2)[k] = m2[x].arg
    BY <2>1, MeaningOfEntry
  <2>4. QED
    BY <2>1, <2>2, <2>3
<1>4. MeaningOf(tr2, m2) = [k \in Names(tr2, m2) |-> MeaningOf(tr2, m2)[k]]
  BY DEF MeaningOf
<1>5. QED
  BY <1>1, <1>2, <1>3, <1>4

(* One entry less. *)
LEMMA MeaningShrinks ==
  ASSUME NEW tr, NEW m, NEW gone, Lists(tr, m, gone),
         NEW tr2, NEW gone2, Lists(tr2, m, gone2), NEW n \in Node, In(tr, n),
         \A x \in Node : In(tr2, x) <=> In(tr, x) /\ x # n
  PROVE  /\ Names(tr2, m) = Names(tr, m) \ {m[n].key}
         /\ MeaningOf(tr2, m) = [x \in Names(tr, m) \ {m[n].key} |-> MeaningOf(tr, m)[x]]
<1>1. Names(tr2, m) = Names(tr, m) \ {m[n].key}
  BY OneEntry DEF Names
<1>2. ASSUME NEW k \in Names(tr, m) \ {m[n].key}
      PROVE  MeaningOf(tr2, m)[k] = MeaningOf(tr, m)[k]
  <2>1. PICK x \in Node : In(tr, x) /\ m[x].key = k /\ x # n
    BY DEF Names
  <2>2. QED
    BY <2>1, MeaningOfEntry
<1>3. MeaningOf(tr2, m) = [k \in Names(tr2, m) |-> MeaningOf(tr2, m)[k]]
  BY DEF MeaningOf
<1>4. QED
  BY <1>1, <1>2, <1>3

-----------------------------------------------------------------------------
(* The ring *)

LEMMA NextSlotIsSlot ==
  ASSUME Ring, CacheSize > 0
  PROVE  NextSlot \in Slots
<1>1. CacheSize \in Nat \ {0} /\ cache_offs \in Nat
  BY HashAssumption DEF Ring, Slots
<1>2. QED
  BY <1>1 DEF NextSlot, Slots

(* The slots searched answer nothing: a second hash is none of the first.  *)
LEMMA RingIsSilent ==
  ASSUME Inv, NEW k \in Key, NEW s \in Slots
  PROVE  ~InSlot(s, k)
<1>1. ASSUME InSlot(s, k) PROVE FALSE
  <2> DEFINE n == cache[s].lnode
  <2>1. n \in Node /\ mem[n].hash = FnvHash[k] /\ mem[n].key = k
    BY <1>1 DEF Inv, Ring, InSlot
  <2>2. mem[n].hash = 0 \/ mem[n].hash = OatHash[k]
    BY <2>1 DEF Inv, Lists, Cells, Hashed
  <2>3. FnvHash[k] # 0 /\ FnvHash[k] # OatHash[k]
    BY HashAssumption
  <2>4. QED
    BY <2>1, <2>2, <2>3
<1>2. QED
  BY <1>1

LEMMA RingAdded ==
  ASSUME Ring, NEW k \in Key, NEW n \in Node, AddCache(FnvHash[k], n)
  PROVE  Ring'
<1>1. CASE CacheSize > 0
  <2> DEFINE entry == [used |-> TRUE, lnode |-> n, tnode |-> FnvHash[k]]
             Entry == [used : BOOLEAN, lnode : {NoLnode} \cup Node,
                       tnode : {NoTnode} \cup {FnvHash[x] : x \in Key}]
  <2>1. cache' = [cache EXCEPT ![cache_offs] = entry] /\ cache_offs' \in Slots
    BY <1>1, NextSlotIsSlot DEF AddCache
  <2>2. entry \in Entry
    OBVIOUS
  <2>3. cache \in [Slots -> Entry] /\ \A s \in Slots : cache[s].used => cache[s].lnode \in Node
    BY DEF Ring
  <2>4. cache' \in [Slots -> Entry]
    BY <2>1, <2>2, <2>3
  <2>5. \A s \in Slots : cache'[s].used => cache'[s].lnode \in Node
    BY <2>1, <2>3
  <2>6. QED
    BY <2>1, <2>4, <2>5 DEF Ring
<1>2. CASE ~(CacheSize > 0)
  BY <1>2 DEF AddCache, Ring
<1>3. QED
  BY <1>1, <1>2

LEMMA RingDeleted ==
  ASSUME Ring, NEW n \in Node, DelCache(n), UNCHANGED cache_offs
  PROVE  Ring'
<1> DEFINE Entry == [used : BOOLEAN, lnode : {NoLnode} \cup Node,
                     tnode : {NoTnode} \cup {FnvHash[x] : x \in Key}]
<1>1. cache \in [Slots -> Entry] /\ \A s \in Slots : cache[s].used => cache[s].lnode \in Node
  BY DEF Ring
<1>2. \A s \in Slots : \/ cache'[s] = cache[s]
                       \/ cache'[s] = [cache[s] EXCEPT !.used = FALSE]
  BY DEF DelCache
<1>3. \A s \in Slots : /\ cache'[s] \in Entry
                       /\ cache'[s].used => cache'[s].lnode \in Node
  BY <1>1, <1>2
<1>4. cache' \in [Slots -> Entry]
  BY <1>3 DEF DelCache
<1>5. QED
  BY <1>3, <1>4 DEF Ring

-----------------------------------------------------------------------------
(* Searching *)

(* The one-entry shortcut and the second hash lead to the entry of a name, *)
(* and to no other.                                                        *)
LEMMA FoundIsEntry ==
  ASSUME Inv, NEW k \in Key
  PROVE  FoundIn(k) = {n \in Node : In(tree, n) /\ mem[n].key = k}
<1> DEFINE h == FnvHash[k]
<1>1. {s \in SlotsSearched : InSlot(s, k)} = {}
  BY RingIsSilent DEF SlotsSearched
<1>2. FoundIn(k) = IF h \in DOMAIN tree THEN {n \in Candidates(h, k) : mem[n].key = k} ELSE {}
  BY <1>1 DEF FoundIn
<1>3. \A g \in DOMAIN tree : Sorted(tree[g], mem, free, g)
  BY DEF Inv, Lists
<1>4. ASSUME NEW n \in Node, In(tree, n), mem[n].key = k
      PROVE  h \in DOMAIN tree /\ \E i \in 1..tree[h].elms : tree[h].list[i] = n
  <2>1. PICK g \in DOMAIN tree : \E i \in 1..tree[g].elms : tree[g].list[i] = n
    BY <1>4 DEF In
  <2>2. g = FnvHash[mem[n].key]
    BY <1>3, <2>1 DEF Sorted
  <2>3. QED
    BY <1>4, <2>1, <2>2
<1>5. CASE h \notin DOMAIN tree
  BY <1>2, <1>4, <1>5
<1>6. CASE h \in DOMAIN tree
  <2> DEFINE list == tree[h].list
  <2>1. /\ list \in Seq(Node) /\ Len(list) = tree[h].elms /\ tree[h].elms \in Nat \ {0}
        /\ \A i \in 1..tree[h].elms : list[i] \in Node /\ In(tree, list[i])
        /\ Head(list) = list[1]
    BY <1>3, <1>6, ListTypes DEF In
  <2>2. ToSet(list) = {list[i] : i \in 1..tree[h].elms}
    BY <2>1 DEF ToSet
  <2>3. ASSUME NEW n \in Candidates(h, k) PROVE n \in Node /\ In(tree, n)
    BY <2>1, <2>2 DEF Candidates
  <2>4. ASSUME NEW i \in 1..tree[h].elms, mem[list[i]].key = k
        PROVE  list[i] \in Candidates(h, k)
    <3>1. CASE tree[h].elms = 1
      BY <2>1, <3>1 DEF Candidates
    <3>2. CASE tree[h].elms # 1
      <4>1. mem[list[i]].hash = OatHash[k]
        BY <1>3, <1>6, <2>1, <2>4, <3>2 DEF Sorted, Hashed
      <4>2. QED
        BY <2>2, <3>2, <4>1 DEF Candidates
    <3>3. QED
      BY <3>1, <3>2
  <2>5. QED
    BY <1>2, <1>4, <1>6, <2>3, <2>4
<1>7. QED
  BY <1>5, <1>6

-----------------------------------------------------------------------------
(* Adding *)

(* hashtable_add to a value that has no list. *)
LEMMA AddFirstStep ==
  ASSUME Inv, NEW k \in Key, NEW a \in Arg, NEW n \in free, AddFirst(k, a, n)
  PROVE  /\ Lists(tree', mem', free')
         /\ \A x \in Node : In(tree', x) <=> In(tree, x) \/ x = n
         /\ \A x \in Node : x # n => mem'[x] = mem[x]
         /\ mem'[n].key = k /\ mem'[n].arg = a
<1> DEFINE h == FnvHash[k]
<1>1. /\ h \notin DOMAIN tree
      /\ tree' = [x \in DOMAIN tree \cup {h} |->
                   IF x = h THEN [list |-> <<n>>, elms |-> 1] ELSE tree[x]]
      /\ mem' = [mem EXCEPT ![n] = [key |-> k, arg |-> a, hash |-> 0]]
      /\ free' = free \ {n}
  BY DEF AddFirst
<1>2. Cells(mem) /\ free \subseteq Node /\ n \in Node
  BY DEF Inv, Lists
<1>3. /\ \A x \in Node : x # n => mem'[x] = mem[x]
      /\ mem'[n] = [key |-> k, arg |-> a, hash |-> 0]
  BY <1>1, <1>2 DEF Cells
<1>4. Cells(mem')
  BY <1>1, <1>2, <1>3 DEF Cells, Hashed
<1>5. Sorted(tree'[h], mem', free', h)
  <2>1. tree'[h] = [list |-> <<n>>, elms |-> 1]
    BY <1>1
  <2>2. n \notin free' /\ FnvHash[mem'[n].key] = h
    BY <1>1, <1>3
  <2>3. QED
    BY <1>2, <1>4, <2>1, <2>2, ListOfOne
<1>6. ASSUME NEW g \in DOMAIN tree PROVE tree'[g] = tree[g] /\ Sorted(tree'[g], mem', free', g)
  <2>1. tree'[g] = tree[g]
    BY <1>1
  <2>2. Sorted(tree[g], mem, free, g)
    BY DEF Inv, Lists
  <2>3. \A i \in 1..tree[g].elms : /\ tree[g].list[i] \in Node
                                   /\ tree[g].list[i] \notin free
    BY <2>2, ListTypes DEF Sorted
  <2>4. \A i \in 1..tree[g].elms : /\ mem'[tree[g].list[i]] = mem[tree[g].list[i]]
                                   /\ tree[g].list[i] \notin free'
    BY <1>1, <1>3, <2>3
  <2>5. Untouched(tree[g], mem, mem', free')
    BY <2>4 DEF Untouched
  <2>6. QED
    BY <2>1, <2>2, <2>5, ListUntouched
<1>7. Lists(tree', mem', free')
  <2>1. DOMAIN tree' = DOMAIN tree \cup {h}
    BY <1>1
  <2>2. DOMAIN tree' \subseteq {FnvHash[x] : x \in Key}
    BY <2>1 DEF Inv, Lists
  <2>3. QED
    BY <1>1, <1>2, <1>4, <1>5, <1>6, <2>1, <2>2 DEF Lists
<1>8. ASSUME NEW x \in Node PROVE In(tree', x) <=> In(tree, x) \/ x = n
  <2>1. DOMAIN tree' = DOMAIN tree \cup {h}
    BY <1>1
  <2>2. tree'[h].elms = 1 /\ tree'[h].list[1] = n
    BY <1>1
  <2>3. (\E i \in 1..tree'[h].elms : tree'[h].list[i] = x) <=> x = n
    BY <2>2
  <2>4. QED
    BY <1>6, <2>1, <2>3 DEF In
<1>9. QED
  BY <1>3, <1>7, <1>8

LEMMA LeastNumber ==
  ASSUME NEW S \in SUBSET Nat, S # {}
  PROVE  \E m \in S : \A x \in S : m <= x
<1> DEFINE Less == OpToRel(<, Nat)
<1>1. IsWellFoundedOn(Less, Nat)
  BY NatLessThanWellFounded
<1> HIDE DEF Less
<1>2. PICK m \in S : \A x \in S : <<x, m>> \notin Less
  BY <1>1, WFMin
<1>3. ASSUME NEW x \in S PROVE m <= x
  <2>1. x \in Nat /\ m \in Nat
    OBVIOUS
  <2>2. ASSUME x < m PROVE FALSE
    <3>1. <<x, m>> \in Less
      BY <2>1, <2>2 DEF Less, OpToRel
    <3>2. QED
      BY <1>2, <3>1
  <2>3. QED
    BY <2>1, <2>2
<1>4. QED
  BY <1>3

(* The place of an entry in a list is behind all that are smaller.         *)
LEMMA PlaceInList ==
  ASSUME NEW list, NEW size \in Nat, Len(list) = size, NEW bytes, NEW hash \in Nat,
         \A i \in 1..size : bytes[list[i]].hash \in Nat
  PROVE  /\ Place(list, bytes, hash) \in 1..(size + 1)
         /\ Place(list, bytes, hash) <= size =>
              bytes[list[Place(list, bytes, hash)]].hash >= hash
         /\ \A j \in 1..(Place(list, bytes, hash) - 1) : bytes[list[j]].hash < hash
<1> DEFINE Fits(i) == i <= size => bytes[list[i]].hash >= hash
           S == {i \in 1..(size + 1) : Fits(i)}
           Right(i) == Fits(i) /\ \A j \in 1..(i - 1) : bytes[list[j]].hash < hash
<1>1. size + 1 \in S /\ S \in SUBSET Nat
  OBVIOUS
<1>2. PICK m \in S : \A x \in S : m <= x
  BY <1>1, LeastNumber
<1>3. m \in 1..(size + 1) /\ Fits(m)
  BY <1>2
<1>4. ASSUME NEW j \in 1..(m - 1) PROVE bytes[list[j]].hash < hash
  <2>1. j \in 1..size /\ ~(m <= j)
    BY <1>3
  <2>2. j \notin S
    BY <1>2, <2>1
  <2>3. bytes[list[j]].hash \in Nat /\ ~(bytes[list[j]].hash >= hash)
    BY <2>1, <2>2
  <2>4. QED
    BY <2>3
<1>5. \E i \in 1..(size + 1) : Right(i)
  BY <1>3, <1>4
<1>6. Place(list, bytes, hash) = CHOOSE i \in 1..(size + 1) : Right(i)
  BY DEF Place
<1> HIDE DEF Right
<1>7. Place(list, bytes, hash) \in 1..(size + 1) /\ Right(Place(list, bytes, hash))
  BY <1>5, <1>6
<1>8. QED
  BY <1>7 DEF Right

(* The sorted list, without the record that holds it. *)
Ascending(list, size, m) ==
  \A j \in 1..size : \A l \in 1..(j - 1) : m[list[l]].hash < m[list[j]].hash

IsInserted(new, list, size, i, n) ==
  /\ new \in Seq(Node) /\ Len(new) = size + 1
  /\ \A j \in 1..(i - 1) : new[j] = list[j]
  /\ new[i] = n
  /\ \A j \in i..size : new[j + 1] = list[j]

LEMMA NodeInserted ==
  ASSUME NEW list, list \in Seq(Node), NEW size, size = Len(list),
         NEW n, n \in Node, NEW i, i \in 1..(size + 1)
  PROVE  IsInserted(InsertAt(list, i, n), list, size, i, n)
<1>1. i \in 1..(Len(list) + 1)
  OBVIOUS
<1>2. InsertAt(list, i, n) \in Seq(Node)
  BY <1>1, InsertedProperties
<1>3. Len(InsertAt(list, i, n)) = size + 1
  BY <1>1, InsertedProperties
<1>4. \A j \in 1..(i - 1) : InsertAt(list, i, n)[j] = list[j]
  BY <1>1, InsertedProperties
<1>5. InsertAt(list, i, n)[i] = n
  BY <1>1, InsertedProperties
<1>6. \A j \in i..size : InsertAt(list, i, n)[j + 1] = list[j]
  BY <1>1, InsertedProperties
<1>7. QED
  BY <1>2, <1>3, <1>4, <1>5, <1>6 DEF IsInserted

LEMMA InsertedAscending ==
  ASSUME NEW m, Cells(m), NEW list \in Seq(Node), NEW size \in Nat, Len(list) = size,
         Ascending(list, size, m), NEW n \in Node, NEW i \in 1..(size + 1),
         \A j \in 1..(i - 1) : m[list[j]].hash < m[n].hash,
         i <= size => m[n].hash < m[list[i]].hash
  PROVE  Ascending(InsertAt(list, i, n), size + 1, m)
<1> DEFINE new == InsertAt(list, i, n)
           Second(x) == m[x].hash
<1>1. /\ \A j \in 1..(i - 1) : new[j] = list[j]
      /\ new[i] = n
      /\ \A j \in i..size : new[j + 1] = list[j]
  <2>1. IsInserted(new, list, size, i, n)
    BY NodeInserted
  <2>2. QED
    BY <2>1 DEF IsInserted
<1> HIDE DEF new
<1>2. \A j \in 1..size : Second(list[j]) \in Nat
  BY ElementOfSeq DEF Cells
<1>3. Second(n) \in Nat
  BY DEF Cells
<1>4. \A j \in 1..size : \A l \in 1..(j - 1) : Second(list[l]) < Second(list[j])
  BY DEF Ascending
<1>5. (\A j \in 1..(i - 1) : Second(list[j]) < Second(n))
        /\ (i <= size => Second(n) < Second(list[i]))
  OBVIOUS
<1> HIDE DEF Second
<1>6. ASSUME NEW j \in i..size PROVE Second(n) < Second(list[j])
  <2>1. i \in 1..size /\ j \in 1..size /\ Second(n) < Second(list[i])
    BY <1>5
  <2>2. Second(list[i]) \in Nat /\ Second(list[j]) \in Nat
    BY <1>2, <2>1
  <2>3. i = j \/ Second(list[i]) < Second(list[j])
    BY <1>4, <2>1
  <2>4. QED
    BY <1>3, <2>1, <2>2, <2>3
<1>7. ASSUME NEW j \in 1..(size + 1), NEW l \in 1..(j - 1)
      PROVE  Second(new[l]) < Second(new[j])
  <2>1. CASE j < i
    <3>1. new[j] = list[j] /\ new[l] = list[l]
      BY <1>1, <2>1
    <3>2. j \in 1..size
      BY <2>1
    <3>3. QED
      BY <1>4, <3>1, <3>2
  <2>2. CASE j = i
    BY <1>1, <1>5, <2>2
  <2>3. CASE j > i
    <3>1. PICK p \in i..size : j = p + 1
      <4>1. j - 1 \in i..size /\ j = (j - 1) + 1
        BY <2>3
      <4>2. QED
        BY <4>1
    <3>2. new[j] = list[p] /\ p \in 1..size
      BY <1>1, <3>1
    <3>3. CASE l < i
      <4>1. new[l] = list[l] /\ l \in 1..(p - 1)
        BY <1>1, <3>1, <3>3
      <4>2. QED
        BY <1>4, <3>2, <4>1
    <3>4. CASE l = i
      BY <1>1, <1>6, <3>1, <3>2, <3>4
    <3>5. CASE l > i
      <4>1. PICK q \in i..size : l = q + 1
        <5>1. l - 1 \in i..size /\ l = (l - 1) + 1
          BY <3>5
        <5>2. QED
          BY <5>1
      <4>2. new[l] = list[q] /\ q \in 1..(p - 1)
        BY <1>1, <3>1, <4>1
      <4>3. QED
        BY <1>4, <3>2, <4>2
    <3>6. QED
      BY <3>3, <3>4, <3>5
  <2>4. QED
    BY <2>1, <2>2, <2>3
<1>8. QED
  BY <1>7 DEF Ascending, Second, new

Among(list, size, x) == \E j \in 1..size : list[j] = x

LEMMA InsertedElements ==
  ASSUME NEW list \in Seq(Node), NEW size, size = Len(list),
         NEW n \in Node, NEW i \in 1..(size + 1), NEW x
  PROVE  Among(InsertAt(list, i, n), size + 1, x) <=> Among(list, size, x) \/ x = n
<1> DEFINE new == InsertAt(list, i, n)
<1>1. /\ \A j \in 1..(i - 1) : new[j] = list[j]
      /\ new[i] = n
      /\ \A j \in i..size : new[j + 1] = list[j]
  <2>1. IsInserted(new, list, size, i, n)
    BY NodeInserted
  <2>2. QED
    BY <2>1 DEF IsInserted
<1> HIDE DEF new
<1>2. ASSUME NEW j \in 1..(size + 1), new[j] = x
      PROVE  (\E l \in 1..size : list[l] = x) \/ x = n
  <2>1. CASE j < i
    <3>1. j \in 1..size /\ list[j] = x
      BY <1>1, <1>2, <2>1
    <3>2. QED
      BY <3>1
  <2>2. CASE j = i
    BY <1>1, <1>2, <2>2
  <2>3. CASE j > i
    <3>1. PICK p \in i..size : j = p + 1
      <4>1. j - 1 \in i..size /\ j = (j - 1) + 1
        BY <2>3
      <4>2. QED
        BY <4>1
    <3>2. p \in 1..size /\ list[p] = x
      BY <1>1, <1>2, <3>1
    <3>3. QED
      BY <3>2
  <2>4. QED
    BY <2>1, <2>2, <2>3
<1>3. ASSUME NEW l \in 1..size, list[l] = x PROVE \E j \in 1..(size + 1) : new[j] = x
  <2>1. CASE l < i
    BY <1>1, <1>3, <2>1
  <2>2. CASE l >= i
    <3>1. l + 1 \in 1..(size + 1) /\ new[l + 1] = x
      BY <1>1, <1>3, <2>2
    <3>2. QED
      BY <3>1
  <2>3. QED
    BY <2>1, <2>2
<1>4. x = n => \E j \in 1..(size + 1) : new[j] = x
  BY <1>1
<1>5. QED
  BY <1>2, <1>3, <1>4 DEF new, Among

(* An entry put in its place leaves the list sorted, and the others in it. *)
Fits(t, m, i, n) ==
  /\ i \in 1..(t.elms + 1)
  /\ \A j \in 1..(i - 1) : m[t.list[j]].hash < m[n].hash
  /\ i <= t.elms => m[n].hash < m[t.list[i]].hash

AllHashed(t, m) == \A j \in 1..t.elms : Hashed(m, t.list[j])

Grown(t, t2, n) ==
  \A x : Among(t2.list, t2.elms, x) <=> Among(t.list, t.elms, x) \/ x = n

LEMMA Inserted ==
  ASSUME NEW t, NEW m, NEW gone, NEW h, Cells(m), Sorted(t, m, gone, h), AllHashed(t, m),
         NEW n \in Node, n \notin gone, FnvHash[m[n].key] = h, Hashed(m, n),
         NEW i, Fits(t, m, i, n),
         NEW t2, t2 = [list |-> InsertAt(t.list, i, n), elms |-> t.elms + 1]
  PROVE  Sorted(t2, m, gone, h) /\ Grown(t, t2, n)
<1> USE DEF Fits, AllHashed
<1> DEFINE new == InsertAt(t.list, i, n)
<1>1. /\ t.list \in Seq(Node) /\ t.elms \in Nat \ {0} /\ Len(t.list) = t.elms
      /\ \A j \in 1..t.elms : t.list[j] \notin gone /\ FnvHash[m[t.list[j]].key] = h
      /\ Ascending(t.list, t.elms, m)
  BY ListTypes DEF Sorted, Ascending
<1>2. new \in Seq(Node) /\ Len(new) = t.elms + 1
  <2>1. IsInserted(new, t.list, t.elms, i, n)
    BY <1>1, NodeInserted
  <2>2. QED
    BY <2>1 DEF IsInserted
<1>3. Ascending(new, t.elms + 1, m)
  BY <1>1, InsertedAscending
<1>4. \A x : (\E j \in 1..(t.elms + 1) : new[j] = x)
               <=> (\E j \in 1..t.elms : t.list[j] = x) \/ x = n
  <2> DEFINE list == t.list
             size == t.elms
  <2>1. list \in Seq(Node) /\ size \in Nat /\ Len(list) = size /\ i \in 1..(size + 1)
    BY <1>1
  <2> HIDE DEF list, size
  <2>2. \A x : Among(InsertAt(list, i, n), size + 1, x) <=> Among(list, size, x) \/ x = n
    BY <2>1, InsertedElements
  <2>3. QED
    BY <2>2 DEF list, size, Among
<1>5. t2.list = new /\ t2.elms = t.elms + 1 /\ t2 \in [list : Seq(Node), elms : Nat \ {0}]
  BY <1>1, <1>2
<1> HIDE DEF new
<1>6. ASSUME NEW j \in 1..(t.elms + 1)
      PROVE  new[j] \notin gone /\ FnvHash[m[new[j]].key] = h /\ Hashed(m, new[j])
  <2>1. (\E l \in 1..t.elms : t.list[l] = new[j]) \/ new[j] = n
    BY <1>4
  <2>2. QED
    BY <1>1, <2>1
<1>7. Sorted(t2, m, gone, h)
  BY <1>2, <1>3, <1>5, <1>6 DEF Sorted, Ascending
<1>8. QED
  BY <1>4, <1>5, <1>7 DEF Grown, Among

(* The second hash of a first entry is computed when another comes.        *)
Completes(t, m, gone, h, m2) ==
  /\ Cells(m2) /\ Sorted(t, m2, gone, h)
  /\ \A i \in 1..t.elms : Hashed(m2, t.list[i])
  /\ \A x \in Node : m2[x].key = m[x].key /\ m2[x].arg = m[x].arg
  /\ \A x \in Node : x # t.list[1] => m2[x] = m[x]

LEMMA HeadHashed ==
  ASSUME NEW t, NEW m, NEW gone, NEW h, Cells(m), Sorted(t, m, gone, h),
         NEW first, first = m[Head(t.list)],
         NEW m2, m2 = IF first.hash = 0
                      THEN [m EXCEPT ![Head(t.list)].hash = OatHash[first.key]] ELSE m
  PROVE  Completes(t, m, gone, h, m2)
<1> USE DEF Completes
<1> DEFINE n == t.list[1]
<1>1. /\ t.list \in Seq(Node) /\ t.elms \in Nat \ {0} /\ Len(t.list) = t.elms
      /\ \A i \in 1..t.elms : t.list[i] \in Node
      /\ n \in Node /\ Head(t.list) = n
  BY ListTypes
<1>2. first = m[n] /\ m[n] \in [key : Key, arg : Arg, hash : Nat]
  BY <1>1 DEF Cells
<1>3. OatHash[m[n].key] \in Nat
  BY <1>2, HashAssumption
<1>4. m2 \in [Node -> [key : Key, arg : Arg, hash : Nat]]
  BY <1>1, <1>2, <1>3 DEF Cells
<1>5. \A x \in Node : m2[x].key = m[x].key /\ m2[x].arg = m[x].arg
  BY <1>1, <1>2 DEF Cells
<1>6. \A x \in Node : x # n => m2[x] = m[x]
  BY <1>1, <1>2 DEF Cells
<1>7. Hashed(m2, n)
  BY <1>1, <1>2 DEF Cells, Hashed
<1>8. Cells(m2)
  BY <1>1, <1>4, <1>6, <1>7 DEF Cells, Hashed
<1>9. CASE t.elms = 1
  <2>1. \A i \in 1..t.elms : Hashed(m2, t.list[i])
    BY <1>7, <1>9
  <2>2. Sorted(t, m2, gone, h)
    BY <1>1, <1>5, <1>9 DEF Sorted
  <2>3. QED
    BY <1>5, <1>6, <1>8, <2>1, <2>2
<1>10. CASE t.elms # 1
  <2>1. \A i \in 1..t.elms : Hashed(m, t.list[i])
    BY <1>1, <1>10 DEF Sorted
  <2>2. m2[n].hash = m[n].hash
    BY <1>1, <1>2, <1>5, <1>7, <2>1 DEF Hashed
  <2>3. m2[n] = m[n]
    BY <1>1, <1>4, <1>5, <2>2 DEF Cells
  <2>4. \A i \in 1..t.elms : m2[t.list[i]] = m[t.list[i]]
    BY <1>1, <1>6, <2>3
  <2>5. \A i \in 1..t.elms : t.list[i] \notin gone
    BY DEF Sorted
  <2>6. Sorted(t, m2, gone, h)
    <3>1. Untouched(t, m, m2, gone)
      BY <2>4, <2>5 DEF Untouched
    <3>2. QED
      BY <3>1, ListUntouched
  <2>7. \A i \in 1..t.elms : Hashed(m2, t.list[i])
    BY <2>1, <2>4 DEF Hashed
  <2>8. QED
    BY <1>5, <1>6, <1>8, <2>6, <2>7
<1>11. QED
  BY <1>9, <1>10

(* The bytes and lists that _insert_entry works on: the new entry is       *)
(* written before it is known whether it is needed.                        *)
Prepared(h, k, n, m2) ==
  /\ Cells(m2) /\ Sorted(tree[h], m2, free \ {n}, h)
  /\ \A i \in 1..tree[h].elms : Hashed(m2, tree[h].list[i]) /\ tree[h].list[i] # n
  /\ m2[n].key = k /\ Hashed(m2, n)
  /\ \A x \in Node : x # n => m2[x].key = mem[x].key /\ m2[x].arg = mem[x].arg
  /\ \A x \in Node : x # n /\ x # tree[h].list[1] => m2[x] = mem[x]

Writes(h, k, a, n, m2) ==
  /\ h = FnvHash[k] /\ h \in DOMAIN tree
  /\ m2 = [FirstHashed(tree[h].list) EXCEPT
             ![n] = [key |-> k, arg |-> a, hash |-> OatHash[k]]]

LEMMA NextPrepared ==
  ASSUME Lists(tree, mem, free), NEW k \in Key, NEW a \in Arg, NEW n \in free,
         NEW h, NEW m2, Writes(h, k, a, n, m2)
  PROVE  Prepared(h, k, n, m2) /\ m2[n].arg = a
<1> USE DEF Writes
<1> DEFINE m1 == FirstHashed(tree[h].list)
<1>1. Cells(mem) /\ Sorted(tree[h], mem, free, h) /\ n \in Node
  BY DEF Lists
<1>2. /\ Cells(m1) /\ Sorted(tree[h], m1, free, h)
      /\ \A i \in 1..tree[h].elms : Hashed(m1, tree[h].list[i])
      /\ \A x \in Node : m1[x].key = mem[x].key /\ m1[x].arg = mem[x].arg
      /\ \A x \in Node : x # tree[h].list[1] => m1[x] = mem[x]
  <2> DEFINE list  == tree[h].list
             first == mem[Head(list)]
  <2>1. m1 = IF first.hash = 0
             THEN [mem EXCEPT ![Head(list)].hash = OatHash[first.key]] ELSE mem
    BY DEF FirstHashed
  <2> HIDE DEF m1
  <2>2. Completes(tree[h], mem, free, h, m1)
    BY <1>1, <2>1, HeadHashed
  <2>3. QED
    BY <2>2 DEF Completes
<1> HIDE DEF m1
<1>3. m2 = [m1 EXCEPT ![n] = [key |-> k, arg |-> a, hash |-> OatHash[k]]]
  BY DEF m1
<1>4. OatHash[k] \in Nat
  BY HashAssumption
<1>5. /\ m2[n] = [key |-> k, arg |-> a, hash |-> OatHash[k]]
      /\ \A x \in Node : x # n => m2[x] = m1[x]
      /\ m2 \in [Node -> [key : Key, arg : Arg, hash : Nat]]
  <2> DEFINE Entry == [key : Key, arg : Arg, hash : Nat]
             new   == [key |-> k, arg |-> a, hash |-> OatHash[k]]
  <2>1. m1 \in [Node -> Entry]
    BY <1>2 DEF Cells
  <2>2. new \in Entry
    BY <1>4
  <2>3. m2 = [m1 EXCEPT ![n] = new]
    BY <1>3
  <2> HIDE DEF Entry, new
  <2>4. m2 \in [Node -> Entry] /\ m2[n] = new /\ \A x \in Node : x # n => m2[x] = m1[x]
    BY <1>1, <2>1, <2>2, <2>3
  <2>5. QED
    BY <2>4 DEF Entry, new
<1>6. Cells(m2)
  BY <1>2, <1>5 DEF Cells, Hashed
<1>7. \A i \in 1..tree[h].elms : tree[h].list[i] \in Node /\ tree[h].list[i] \notin free
  BY <1>1, ListTypes DEF Sorted
<1>8. \A i \in 1..tree[h].elms : /\ m2[tree[h].list[i]] = m1[tree[h].list[i]]
                                 /\ tree[h].list[i] \notin free \ {n}
                                 /\ tree[h].list[i] # n
  BY <1>5, <1>7
<1>9. Sorted(tree[h], m2, free \ {n}, h)
  <2>1. Untouched(tree[h], m1, m2, free \ {n})
    BY <1>8 DEF Untouched
  <2>2. Sorted(tree[h], m1, free, h)
    BY <1>2
  <2>3. QED
    BY <2>1, <2>2, ListUntouched
<1>10. \A i \in 1..tree[h].elms : Hashed(m2, tree[h].list[i])
  BY <1>2, <1>8 DEF Hashed
<1>11. m2[n].key = k /\ m2[n].arg = a /\ Hashed(m2, n)
  BY <1>5 DEF Hashed
<1>12. \A x \in Node : x # n => m2[x].key = mem[x].key /\ m2[x].arg = mem[x].arg
  BY <1>2, <1>5
<1>13. \A x \in Node : x # n /\ x # tree[h].list[1] => m2[x] = mem[x]
  BY <1>2, <1>5
<1>14. QED
  BY <1>6, <1>8, <1>9, <1>10, <1>11, <1>12, <1>13 DEF Prepared

(* An entry is in the list of its first hash. *)
LEMMA InItsList ==
  ASSUME NEW tr, NEW m, NEW gone, Lists(tr, m, gone), NEW x, In(tr, x)
  PROVE  /\ FnvHash[m[x].key] \in DOMAIN tr
         /\ Among(tr[FnvHash[m[x].key]].list, tr[FnvHash[m[x].key]].elms, x)
<1>1. PICK g \in DOMAIN tr : \E i \in 1..tr[g].elms : tr[g].list[i] = x
  BY DEF In
<1>2. Sorted(tr[g], m, gone, g)
  BY DEF Lists
<1>3. g = FnvHash[m[x].key]
  BY <1>1, <1>2 DEF Sorted
<1>4. QED
  BY <1>1, <1>3 DEF Among

LEMMA OtherLists ==
  ASSUME Lists(tree, mem, free), NEW h, NEW k, NEW n \in free, NEW m2, Prepared(h, k, n, m2),
         NEW g \in DOMAIN tree, g # h, h \in DOMAIN tree, NEW gone2 \in SUBSET free
  PROVE  Sorted(tree[g], m2, gone2, g)
<1>1. Sorted(tree[g], mem, free, g) /\ Sorted(tree[h], mem, free, h)
  BY DEF Lists
<1>2. ASSUME NEW i \in 1..tree[g].elms
      PROVE  m2[tree[g].list[i]] = mem[tree[g].list[i]] /\ tree[g].list[i] \notin gone2
  <2> DEFINE x == tree[g].list[i]
  <2>1. x \in Node /\ x \notin free /\ FnvHash[mem[x].key] = g
    BY <1>1, ListTypes DEF Sorted
  <2>2. 1 \in 1..tree[h].elms
    BY <1>1, ListTypes
  <2>3. FnvHash[mem[tree[h].list[1]].key] = h
    BY <1>1, <2>2 DEF Sorted
  <2>4. x # n /\ x # tree[h].list[1]
    BY <2>1, <2>3
  <2>5. QED
    BY <2>1, <2>4 DEF Prepared
<1>3. Untouched(tree[g], mem, m2, gone2)
  BY <1>2 DEF Untouched
<1>4. QED
  BY <1>1, <1>3, ListUntouched

(* The list as it is after _insert_entry makes a table again.              *)
LEMMA ListReplaced ==
  ASSUME Lists(tree, mem, free), NEW h \in DOMAIN tree, NEW k, NEW n \in free,
         NEW m2, Prepared(h, k, n, m2), NEW gone2 \in SUBSET free,
         NEW t2, Sorted(t2, m2, gone2, h), NEW tr2, tr2 = [tree EXCEPT ![h] = t2]
  PROVE  /\ Lists(tr2, m2, gone2)
         /\ \A x : In(tr2, x) <=> \/ Among(t2.list, t2.elms, x)
                                  \/ In(tree, x) /\ ~Among(tree[h].list, tree[h].elms, x)
<1>1. DOMAIN tr2 = DOMAIN tree /\ tr2[h] = t2 /\ \A g \in DOMAIN tree : g # h => tr2[g] = tree[g]
  OBVIOUS
<1>2. \A g \in DOMAIN tree : g # h => Sorted(tree[g], m2, gone2, g)
  BY OtherLists
<1>3. \A g \in DOMAIN tr2 : Sorted(tr2[g], m2, gone2, g)
  BY <1>1, <1>2
<1>4. Lists(tr2, m2, gone2)
  BY <1>1, <1>3 DEF Lists, Prepared
<1>5. ASSUME NEW x, Among(t2.list, t2.elms, x) PROVE In(tr2, x)
  BY <1>1, <1>5 DEF In, Among
<1>6. ASSUME NEW x, In(tree, x), ~Among(tree[h].list, tree[h].elms, x) PROVE In(tr2, x)
  BY <1>1, <1>6 DEF In, Among
<1>7. ASSUME NEW x, In(tr2, x), ~Among(t2.list, t2.elms, x)
      PROVE  In(tree, x) /\ ~Among(tree[h].list, tree[h].elms, x)
  <2>1. PICK g \in DOMAIN tree : g # h /\ \E i \in 1..tree[g].elms : tree[g].list[i] = x
    BY <1>1, <1>7 DEF In, Among
  <2>2. In(tree, x)
    BY <2>1 DEF In
  <2>3. Sorted(tree[g], mem, free, g) /\ Sorted(tree[h], mem, free, h)
    BY DEF Lists
  <2>4. FnvHash[mem[x].key] = g
    BY <2>1, <2>3 DEF Sorted
  <2>5. ~Among(tree[h].list, tree[h].elms, x)
    BY <2>1, <2>3, <2>4 DEF Sorted, Among
  <2>6. QED
    BY <2>2, <2>5
<1>8. QED
  BY <1>4, <1>5, <1>6, <1>7

(* Where the new entry would go; nobody there has its second hash if the   *)
(* entry at that place has not.                                            *)
LEMMA PlaceOfNew ==
  ASSUME Lists(tree, mem, free), NEW h \in DOMAIN tree, NEW k \in Key, NEW n \in free,
         NEW m2, Prepared(h, k, n, m2),
         NEW i, i = Place(tree[h].list, m2, OatHash[k])
  PROVE  /\ i \in 1..(tree[h].elms + 1)
         /\ \A j \in 1..(i - 1) : m2[tree[h].list[j]].hash < m2[n].hash
         /\ i <= tree[h].elms => m2[tree[h].list[i]].hash >= m2[n].hash
         /\ m2[n].hash = OatHash[k] /\ m2[n].hash \in Nat
<1> DEFINE list == tree[h].list
           size == tree[h].elms
<1>1. /\ list \in Seq(Node) /\ size \in Nat /\ Len(list) = size
      /\ \A j \in 1..size : list[j] \in Node
  <2>1. Sorted(tree[h], mem, free, h)
    BY DEF Lists
  <2>2. QED
    BY <2>1, ListTypes
<1>2. n \in Node
  BY DEF Lists
<1>3. Cells(m2) /\ m2[n].hash = OatHash[k]
  BY DEF Prepared, Hashed
<1>4. \A j \in 1..size : m2[list[j]].hash \in Nat
  BY <1>1, <1>3 DEF Cells
<1>5. OatHash[k] \in Nat
  BY HashAssumption
<1> HIDE DEF list, size
<1>6. /\ Place(list, m2, OatHash[k]) \in 1..(size + 1)
      /\ Place(list, m2, OatHash[k]) <= size =>
           m2[list[Place(list, m2, OatHash[k])]].hash >= OatHash[k]
      /\ \A j \in 1..(Place(list, m2, OatHash[k]) - 1) : m2[list[j]].hash < OatHash[k]
  BY <1>1, <1>4, <1>5, PlaceInList
<1>7. QED
  BY <1>3, <1>5, <1>6 DEF list, size

(* hashtable_add to a value that has a list.                               *)
Entered(k, a, n) ==
  /\ \A x \in Node : In(tree', x) <=> In(tree, x) \/ x = n
  /\ mem'[n].key = k /\ mem'[n].arg = a
  /\ \A x \in Node : In(tree, x) => ~SameHashes(k, mem[x].key)
  /\ out' = [of |-> k, ret |-> "HASH_OK"]

Refused(k) ==
  /\ \A x \in Node : In(tree', x) <=> In(tree, x)
  /\ \E x \in Node : /\ In(tree, x) /\ SameHashes(k, mem[x].key)
                     /\ out' = [of |-> k, ret |-> Clash(k, mem[x].key)]

KeepsEntries == \A x \in Node : In(tree, x) => mem'[x].key = mem[x].key /\ mem'[x].arg = mem[x].arg

EntersAt(k, a, n, h, i) ==
  /\ h \in DOMAIN tree /\ h = FnvHash[k] /\ Prepared(h, k, n, mem') /\ mem'[n].arg = a
  /\ i = Place(tree[h].list, mem', OatHash[k])
  /\ i <= tree[h].elms => mem'[tree[h].list[i]].hash # OatHash[k]
  /\ tree' = [tree EXCEPT ![h] = [list |-> InsertAt(tree[h].list, i, n),
                                  elms |-> tree[h].elms + 1]]
  /\ free' = free \ {n} /\ out' = [of |-> k, ret |-> "HASH_OK"]

LEMMA EntersStep ==
  ASSUME Inv, NEW k \in Key, NEW a \in Arg, NEW n \in free,
         NEW h, NEW i, EntersAt(k, a, n, h, i)
  PROVE  Lists(tree', mem', free') /\ KeepsEntries /\ Entered(k, a, n)
<1> USE DEF EntersAt
<1> DEFINE t  == tree[h]
           t2 == [list |-> InsertAt(t.list, i, n), elms |-> t.elms + 1]
<1>1. Lists(tree, mem, free)
  BY DEF Inv
<1>2. /\ i \in 1..(t.elms + 1)
      /\ \A j \in 1..(i - 1) : mem'[t.list[j]].hash < mem'[n].hash
      /\ i <= t.elms => mem'[t.list[i]].hash >= mem'[n].hash
      /\ mem'[n].hash = OatHash[k] /\ mem'[n].hash \in Nat
  BY <1>1, PlaceOfNew
<1>3. /\ Sorted(t, mem', free', h) /\ Cells(mem')
      /\ \A j \in 1..t.elms : Hashed(mem', t.list[j])
      /\ n \in Node /\ n \notin free' /\ mem'[n].key = k /\ Hashed(mem', n)
  BY <1>1 DEF Prepared, Lists
<1>4. /\ t.elms \in Nat \ {0}
      /\ \A j \in 1..t.elms : t.list[j] \in Node
  BY <1>3, ListTypes
<1>5. i <= t.elms => mem'[n].hash < mem'[t.list[i]].hash
  <2>1. ASSUME i <= t.elms PROVE mem'[t.list[i]].hash \in Nat
    BY <1>2, <1>3, <1>4, <2>1 DEF Cells
  <2>2. QED
    BY <1>2, <2>1
<1>6. FnvHash[mem'[n].key] = h
  BY <1>3
<1> HIDE DEF t
<1>7. Sorted(t2, mem', free', h) /\ Grown(t, t2, n)
  <2>1. Fits(t, mem', i, n) /\ AllHashed(t, mem')
    BY <1>2, <1>3, <1>5 DEF Fits, AllHashed
  <2>2. /\ Cells(mem') /\ Sorted(t, mem', free', h)
        /\ n \in Node /\ n \notin free' /\ Hashed(mem', n)
    BY <1>3
  <2>3. QED
    BY <1>6, <2>1, <2>2, Inserted
<1>8. \A x : Among(t2.list, t2.elms, x) <=> Among(t.list, t.elms, x) \/ x = n
  BY <1>7 DEF Grown
<1>9. tree' = [tree EXCEPT ![h] = t2]
  BY DEF t
<1> HIDE DEF t2
<1>10. free' \in SUBSET free
  OBVIOUS
<1>11. /\ Lists(tree', mem', free')
       /\ \A x : In(tree', x) <=> \/ Among(t2.list, t2.elms, x)
                                  \/ In(tree, x) /\ ~Among(tree[h].list, tree[h].elms, x)
  BY <1>1, <1>7, <1>9, <1>10, ListReplaced
<1>12. \A x \in Node : Among(t.list, t.elms, x) => In(tree, x)
  BY DEF Among, In, t
<1>13. \A x \in Node : In(tree', x) <=> In(tree, x) \/ x = n
  BY <1>8, <1>11, <1>12 DEF t
<1>14. KeepsEntries
  <2>1. ~In(tree, n)
    BY <1>1, InIsNode
  <2>2. QED
    BY <2>1 DEF KeepsEntries, Prepared
<1>15. ASSUME NEW x \in Node, In(tree, x), SameHashes(k, mem[x].key) PROVE FALSE
  <2>1. Among(t.list, t.elms, x)
    BY <1>1, <1>15, InItsList DEF SameHashes, t
  <2>2. PICK j \in 1..t.elms : t.list[j] = x
    BY <2>1 DEF Among
  <2>3. mem'[x].hash = OatHash[k]
    <3>1. Hashed(mem', x)
      BY <1>3, <2>2
    <3>2. QED
      BY <1>14, <1>15, <3>1 DEF Hashed, KeepsEntries, SameHashes
  <2>4. j >= i
    BY <1>2, <1>4, <2>2, <2>3
  <2>5. i \in 1..t.elms /\ j # i
    BY <1>2, <1>4, <2>2, <2>3, <2>4 DEF t
  <2>6. mem'[t.list[i]].hash < mem'[x].hash
    BY <1>3, <1>4, <2>2, <2>4, <2>5 DEF Sorted
  <2>7. mem'[t.list[i]].hash \in Nat
    BY <1>3, <1>4, <2>5 DEF Cells
  <2>8. QED
    BY <1>2, <1>5, <2>3, <2>5, <2>6, <2>7
<1>16. QED
  BY <1>3, <1>11, <1>13, <1>14, <1>15 DEF Entered

LEMMA RefusedStep ==
  ASSUME Inv, NEW k \in Key, NEW n \in free,
         NEW h \in DOMAIN tree, h = FnvHash[k], Prepared(h, k, n, mem'),
         NEW i, i = Place(tree[h].list, mem', OatHash[k]), i <= tree[h].elms,
         mem'[tree[h].list[i]].hash = OatHash[k],
         tree' = [tree EXCEPT ![h] = [list |-> tree[h].list, elms |-> tree[h].elms]],
         free' \in SUBSET free,
         out' = [of |-> k, ret |-> Clash(k, mem'[tree[h].list[i]].key)]
  PROVE  Lists(tree', mem', free') /\ KeepsEntries /\ Refused(k)
<1> DEFINE t  == tree[h]
           t2 == [list |-> t.list, elms |-> t.elms]
           x  == t.list[i]
<1>1. Lists(tree, mem, free) /\ Sorted(t, mem, free, h)
  BY DEF Inv, Lists
<1>2. i \in 1..t.elms
  <2>1. i \in 1..(tree[h].elms + 1)
    BY <1>1, PlaceOfNew
  <2>2. tree[h].elms \in Nat
    BY <1>1, ListTypes
  <2>3. QED
    BY <2>1, <2>2
<1>3. t = t2
  BY <1>1 DEF Sorted
<1>4. Sorted(t2, mem', free', h)
  <2>1. \A j \in 1..t.elms : t.list[j] \notin free'
    BY <1>1 DEF Sorted
  <2>2. Untouched(t, mem', mem', free')
    BY <2>1 DEF Untouched
  <2>3. Sorted(t, mem', free \ {n}, h)
    BY DEF Prepared
  <2>4. QED
    BY <1>3, <2>2, <2>3, ListUntouched
<1>5. tree' = [tree EXCEPT ![h] = t2]
  OBVIOUS
<1> HIDE DEF t2
<1>6. /\ Lists(tree', mem', free')
      /\ \A y : In(tree', y) <=> \/ Among(t2.list, t2.elms, y)
                                 \/ In(tree, y) /\ ~Among(tree[h].list, tree[h].elms, y)
  BY <1>1, <1>4, <1>5, ListReplaced
<1>7. \A y \in Node : In(tree', y) <=> In(tree, y)
  <2>1. \A y : Among(tree[h].list, tree[h].elms, y) => In(tree, y)
    BY DEF In, Among
  <2>2. \A y : Among(t2.list, t2.elms, y) <=> Among(tree[h].list, tree[h].elms, y)
    BY <1>3 DEF t
  <2>3. QED
    BY <1>6, <2>1, <2>2
<1>8. KeepsEntries
  <2>1. ~In(tree, n)
    BY <1>1, InIsNode
  <2>2. QED
    BY <2>1 DEF KeepsEntries, Prepared
<1>9. x \in Node /\ In(tree, x)
  BY <1>1, <1>2, ListTypes DEF In
<1>10. mem'[x].key = mem[x].key
  BY <1>8, <1>9 DEF KeepsEntries
<1>11. OatHash[mem[x].key] = OatHash[k] /\ FnvHash[mem[x].key] = h
  <2>1. Hashed(mem', x)
    BY <1>2 DEF Prepared
  <2>2. OatHash[mem'[x].key] = OatHash[k]
    BY <2>1 DEF Hashed
  <2>3. FnvHash[mem[x].key] = h
    BY <1>1, <1>2 DEF Sorted
  <2>4. QED
    BY <1>10, <2>2, <2>3
<1>12. SameHashes(k, mem[x].key)
  BY <1>11 DEF SameHashes
<1>13. QED
  BY <1>6, <1>7, <1>8, <1>9, <1>10, <1>12 DEF Refused

LEMMA AddNextStep ==
  ASSUME Inv, NEW k \in Key, NEW a \in Arg, NEW n \in free, AddNext(k, a, n)
  PROVE  /\ Lists(tree', mem', free') /\ Ring' /\ KeepsEntries
         /\ Entered(k, a, n) \/ Refused(k)
<1> DEFINE h     == FnvHash[k]
           list  == tree[h].list
           i     == Place(list, mem', OatHash[k])
<1>1. h \in DOMAIN tree
  BY DEF AddNext
<1>2. mem' = [FirstHashed(list) EXCEPT ![n] = [key |-> k, arg |-> a, hash |-> OatHash[k]]]
  BY DEF AddNext
<1>3. Prepared(h, k, n, mem') /\ mem'[n].arg = a
  <2>1. Writes(h, k, a, n, mem') /\ Lists(tree, mem, free)
    BY <1>1, <1>2 DEF Writes, Inv
  <2>2. QED
    BY <2>1, NextPrepared
<1>4. Sorted(tree[h], mem, free, h) /\ n \in Node
  BY <1>1 DEF Inv, Lists
<1>5. Len(list) = tree[h].elms /\ tree[h].elms \in Nat
  BY <1>4, ListTypes
<1> DEFINE Enters(ret, entries) ==
             /\ tree' = [tree EXCEPT ![h] = [list |-> entries, elms |-> @.elms + Counted(ret)]]
             /\ out' = [of |-> k, ret |-> ret]
<1> DEFINE bytes == [FirstHashed(list) EXCEPT
                      ![n] = [key |-> k, arg |-> a, hash |-> OatHash[k]]]
           Outcome(m, j) ==
             \/ /\ j <= Len(list) => m[list[j]].hash # OatHash[k]
                /\ Enters("HASH_OK", InsertAt(list, j, n))
                /\ free' = free \ {n}
                /\ AddCache(h, n)
             \/ /\ j <= Len(list)
                /\ m[list[j]].hash = OatHash[k]
                /\ LET ret == Clash(k, m[list[j]].key) IN
                     /\ Enters(ret, list)
                     /\ free' = IF ret = "HASH_DUP" THEN free ELSE free \ {n}
                /\ AddCache(h, list[j])
<1>6. Outcome(mem', i)
  <2>1. Outcome(bytes, Place(list, bytes, OatHash[k]))
    BY DEF AddNext
  <2>2. mem' = bytes
    BY <1>2
  <2> HIDE DEF Outcome, bytes
  <2>3. QED
    BY <2>1, <2>2
<1>7. CASE /\ i <= Len(list) => mem'[list[i]].hash # OatHash[k]
           /\ Enters("HASH_OK", InsertAt(list, i, n))
           /\ free' = free \ {n}
           /\ AddCache(h, n)
  <2>1. tree' = [tree EXCEPT ![h] = [list |-> InsertAt(list, i, n), elms |-> tree[h].elms + 1]]
    BY <1>1, <1>7 DEF Counted
  <2>2. Lists(tree', mem', free') /\ KeepsEntries /\ Entered(k, a, n)
    <3>1. EntersAt(k, a, n, h, i)
      BY <1>1, <1>3, <1>5, <1>7, <2>1 DEF EntersAt
    <3> HIDE DEF h, i
    <3>2. QED
      BY <3>1, EntersStep
  <2>3. Ring'
    BY <1>4, <1>7, RingAdded DEF Inv
  <2>4. QED
    BY <2>2, <2>3
<1>8. CASE /\ i <= Len(list)
           /\ mem'[list[i]].hash = OatHash[k]
           /\ LET ret == Clash(k, mem'[list[i]].key) IN
                /\ Enters(ret, list)
                /\ free' = IF ret = "HASH_DUP" THEN free ELSE free \ {n}
           /\ AddCache(h, list[i])
  <2> DEFINE ret == Clash(k, mem'[list[i]].key)
  <2>1. Counted(ret) = 0
    BY DEF Counted, Clash
  <2>2. tree' = [tree EXCEPT ![h] = [list |-> list, elms |-> tree[h].elms]]
    <3>1. tree' = [tree EXCEPT ![h] = [list |-> list, elms |-> tree[h].elms + Counted(ret)]]
      BY <1>1, <1>8
    <3>2. tree[h].elms + Counted(ret) = tree[h].elms
      BY <1>5, <2>1
    <3>3. QED
      BY <3>1, <3>2
  <2>3. free' \in SUBSET free /\ out' = [of |-> k, ret |-> ret]
    BY <1>8
  <2>4. Lists(tree', mem', free') /\ KeepsEntries /\ Refused(k)
    BY <1>1, <1>3, <1>5, <1>8, <2>2, <2>3, RefusedStep
  <2>5. i \in 1..tree[h].elms
    <3>1. i \in 1..(tree[h].elms + 1)
      BY <1>1, <1>3, PlaceOfNew DEF Inv
    <3>2. QED
      BY <1>5, <1>8, <3>1
  <2>6. list[i] \in Node
    BY <1>4, <2>5, ListTypes
  <2>7. Ring'
    BY <1>8, <2>6, RingAdded DEF Inv
  <2>8. QED
    BY <2>4, <2>7
<1>9. QED
  BY <1>6, <1>7, <1>8

-----------------------------------------------------------------------------
(* Deleting *)

IsRemoved(new, list, size, i) ==
  /\ new \in Seq(Node) /\ Len(new) = size - 1
  /\ \A j \in 1..(i - 1) : new[j] = list[j]
  /\ \A j \in i..(size - 1) : new[j] = list[j + 1]

LEMMA NodeRemoved ==
  ASSUME NEW list, list \in Seq(Node), NEW size, size = Len(list), NEW i, i \in 1..size
  PROVE  IsRemoved(RemoveAt(list, i), list, size, i)
<1>1. i \in 1..Len(list)
  OBVIOUS
<1>2. RemoveAt(list, i) \in Seq(Node)
  BY <1>1, RemovedProperties
<1>3. Len(RemoveAt(list, i)) = size - 1
  BY <1>1, RemovedProperties
<1>4. \A j \in 1..(i - 1) : RemoveAt(list, i)[j] = list[j]
  BY <1>1, RemovedProperties
<1>5. \A j \in i..(size - 1) : RemoveAt(list, i)[j] = list[j + 1]
  BY <1>1, RemovedProperties
<1>6. QED
  BY <1>2, <1>3, <1>4, <1>5 DEF IsRemoved

(* An entry taken out leaves the list sorted, and the others in it.        *)
Shrunk(t, t2, n) == \A x : Among(t2.list, t2.elms, x) <=> Among(t.list, t.elms, x) /\ x # n

LEMMA Removed ==
  ASSUME NEW t, NEW m, NEW gone, NEW h, Cells(m), Sorted(t, m, gone, h), t.elms > 1,
         NEW i \in 1..t.elms, NEW n, n = t.list[i],
         NEW t2, t2 = [list |-> RemoveAt(t.list, i), elms |-> t.elms - 1]
  PROVE  Sorted(t2, m, gone \cup {n}, h) /\ Shrunk(t, t2, n)
<1> DEFINE new  == RemoveAt(t.list, i)
           list == t.list
           size == t.elms
           old(j) == IF j < i THEN j ELSE j + 1
<1>1. /\ list \in Seq(Node) /\ size \in Nat \ {0} /\ Len(list) = size
      /\ \A j \in 1..size : list[j] \in Node
  BY ListTypes
<1>2. IsRemoved(new, list, size, i)
  BY <1>1, NodeRemoved
<1>3. t2.list = new /\ t2.elms = size - 1
  OBVIOUS
<1> HIDE DEF new
<1>4. \A j \in 1..(size - 1) : new[j] = list[old(j)] /\ old(j) \in 1..size /\ old(j) # i
  BY <1>1, <1>2 DEF IsRemoved
<1>5. \A j \in 1..(size - 1) : \A l \in 1..(j - 1) : old(l) \in 1..(old(j) - 1) /\ l \in 1..(size - 1)
  BY <1>1
<1>6. \A j \in 1..size : j # i => \E l \in 1..(size - 1) : old(l) = j
  <2>1. ASSUME NEW j \in 1..size, j # i PROVE \E l \in 1..(size - 1) : old(l) = j
    <3>1. CASE j < i
      <4>1. j \in 1..(size - 1) /\ old(j) = j
        BY <1>1, <3>1
      <4>2. QED
        BY <4>1
    <3>2. CASE j > i
      <4>1. j - 1 \in 1..(size - 1) /\ old(j - 1) = j
        BY <1>1, <3>2
      <4>2. QED
        BY <4>1
    <3>3. QED
      BY <1>1, <2>1, <3>1, <3>2
  <2>2. QED
    BY <2>1
<1> HIDE DEF old
<1>7. \A j \in 1..size : j # i => list[j] # n
  <2>1. ASSUME NEW j \in 1..size, list[j] = n PROVE j = i
    BY <2>1, OnceInList
  <2>2. QED
    BY <2>1
<1>8. \A j \in 1..size : /\ list[j] \notin gone /\ FnvHash[m[list[j]].key] = h
                         /\ Hashed(m, list[j])
                         /\ \A l \in 1..(j - 1) : m[list[l]].hash < m[list[j]].hash
  BY <1>1 DEF Sorted
<1>9. ASSUME NEW j \in 1..(size - 1)
      PROVE  /\ new[j] \notin gone \cup {n} /\ FnvHash[m[new[j]].key] = h /\ Hashed(m, new[j])
             /\ \A l \in 1..(j - 1) : m[new[l]].hash < m[new[j]].hash
  <2>1. new[j] = list[old(j)] /\ old(j) \in 1..size /\ old(j) # i
    BY <1>4
  <2>2. ASSUME NEW l \in 1..(j - 1) PROVE m[new[l]].hash < m[new[j]].hash
    <3>1. new[l] = list[old(l)] /\ old(l) \in 1..(old(j) - 1)
      BY <1>4, <1>5
    <3>2. QED
      BY <1>8, <2>1, <3>1
  <2>3. QED
    BY <1>7, <1>8, <2>1, <2>2
<1>10. Sorted(t2, m, gone \cup {n}, h)
  <2>1. new \in Seq(Node) /\ Len(new) = size - 1 /\ size - 1 \in Nat \ {0}
    BY <1>1, <1>2 DEF IsRemoved
  <2>2. t2 \in [list : Seq(Node), elms : Nat \ {0}]
    BY <2>1 DEF new
  <2>3. QED
    BY <1>3, <1>9, <2>1, <2>2 DEF Sorted
<1>11. ASSUME NEW x PROVE Among(new, size - 1, x) <=> Among(list, size, x) /\ x # n
  <2>1. ASSUME NEW j \in 1..(size - 1), new[j] = x PROVE Among(list, size, x) /\ x # n
    BY <1>4, <1>7, <2>1 DEF Among
  <2>2. ASSUME NEW j \in 1..size, list[j] = x, x # n PROVE Among(new, size - 1, x)
    <3>1. j # i
      BY <2>2
    <3>2. PICK l \in 1..(size - 1) : old(l) = j
      BY <1>6, <3>1
    <3>3. QED
      BY <1>4, <2>2, <3>2 DEF Among
  <2>3. QED
    BY <2>1, <2>2 DEF Among
<1>12. QED
  BY <1>3, <1>10, <1>11 DEF Shrunk

(* hashtable_del of a name that is there.                                  *)
Deleted(n) ==
  /\ Lists(tree', mem', free')
  /\ mem' = mem
  /\ \A x \in Node : In(tree', x) <=> In(tree, x) /\ x # n

LEMMA DelStep ==
  ASSUME Lists(tree, mem, free), NEW k \in Key, NEW n \in Node, In(tree, n), mem[n].key = k,
         NEW h, h = FnvHash[k],
         tree' = [x \in {y \in DOMAIN tree : y = h => tree[y].elms > 1} |->
                   IF x = h
                   THEN [list |-> Unlinked(tree[x].list, n), elms |-> tree[x].elms - 1]
                   ELSE tree[x]],
         free' = free \cup {n}, mem' = mem
  PROVE  Deleted(n)
<1> DEFINE t  == tree[h]
           t2 == [list |-> Unlinked(t.list, n), elms |-> t.elms - 1]
<1>1. h \in DOMAIN tree /\ Among(t.list, t.elms, n)
  BY InItsList
<1>2. Cells(mem) /\ Sorted(t, mem, free, h)
  BY <1>1 DEF Lists
<1>3. /\ t.list \in Seq(Node) /\ t.elms \in Nat \ {0} /\ Len(t.list) = t.elms
  BY <1>2, ListTypes
<1>4. /\ \A g \in DOMAIN tree : g # h => g \in DOMAIN tree' /\ tree'[g] = tree[g]
      /\ h \in DOMAIN tree' <=> t.elms > 1
      /\ h \in DOMAIN tree' => tree'[h] = t2
      /\ DOMAIN tree' \subseteq DOMAIN tree
  BY <1>1
<1>5. ASSUME NEW g \in DOMAIN tree, g # h
      PROVE  /\ Sorted(tree[g], mem, free', g)
             /\ ~Among(tree[g].list, tree[g].elms, n)
  <2>1. Sorted(tree[g], mem, free, g)
    BY DEF Lists
  <2>2. \A i \in 1..tree[g].elms : tree[g].list[i] # n /\ tree[g].list[i] \notin free
    BY <1>5, <2>1 DEF Sorted
  <2>3. Untouched(tree[g], mem, mem, free')
    BY <2>2 DEF Untouched
  <2>4. QED
    BY <2>1, <2>2, <2>3, ListUntouched DEF Among
<1>6. CASE t.elms > 1
  <2> DEFINE i == CHOOSE j \in 1..Len(t.list) : t.list[j] = n
  <2>1. i \in 1..t.elms /\ n = t.list[i]
    BY <1>1, <1>3 DEF Among
  <2>2. t2 = [list |-> RemoveAt(t.list, i), elms |-> t.elms - 1]
    BY DEF Unlinked
  <2> HIDE DEF i, t, t2
  <2>3. Sorted(t2, mem, free \cup {n}, h) /\ Shrunk(t, t2, n)
    BY <1>2, <1>6, <2>1, <2>2, Removed
  <2>4. tree'[h] = t2 /\ h \in DOMAIN tree'
    BY <1>4, <1>6
  <2>5. \A g \in DOMAIN tree' : Sorted(tree'[g], mem', free', g)
    BY <1>4, <1>5, <2>3, <2>4
  <2>6. Lists(tree', mem', free')
    BY <1>4, <2>5 DEF Lists
  <2>7. \A x : Among(t2.list, t2.elms, x) <=> Among(t.list, t.elms, x) /\ x # n
    BY <2>3 DEF Shrunk
  <2>8. ASSUME NEW x \in Node PROVE In(tree', x) <=> In(tree, x) /\ x # n
    <3>1. ASSUME In(tree', x) PROVE In(tree, x) /\ x # n
      <4>1. PICK g \in DOMAIN tree' : Among(tree'[g].list, tree'[g].elms, x)
        BY <3>1 DEF In, Among
      <4>2. CASE g = h
        <5>1. Among(t.list, t.elms, x) /\ x # n
          BY <2>4, <2>7, <4>1, <4>2
        <5>2. QED
          BY <1>1, <5>1 DEF In, Among, t
      <4>3. CASE g # h
        <5>1. Among(tree[g].list, tree[g].elms, x) /\ x # n
          BY <1>4, <1>5, <4>1, <4>3
        <5>2. QED
          BY <1>4, <5>1 DEF In, Among
      <4>4. QED
        BY <4>2, <4>3
    <3>2. ASSUME In(tree, x), x # n PROVE In(tree', x)
      <4>1. PICK g \in DOMAIN tree : Among(tree[g].list, tree[g].elms, x)
        BY <3>2 DEF In, Among
      <4>2. CASE g = h
        <5>1. Among(tree'[h].list, tree'[h].elms, x)
          BY <2>4, <2>7, <3>2, <4>1, <4>2 DEF t
        <5>2. QED
          BY <2>4, <5>1 DEF In, Among
      <4>3. CASE g # h
        <5>1. Among(tree'[g].list, tree'[g].elms, x) /\ g \in DOMAIN tree'
          BY <1>4, <4>1, <4>3
        <5>2. QED
          BY <5>1 DEF In, Among
      <4>4. QED
        BY <4>2, <4>3
    <3>3. QED
      BY <3>1, <3>2
  <2>9. QED
    BY <2>6, <2>8 DEF Deleted
<1>7. CASE ~(t.elms > 1)
  <2>1. t.elms = 1 /\ \A x : Among(t.list, t.elms, x) => x = n
    BY <1>1, <1>3, <1>7 DEF Among
  <2> HIDE DEF t, t2
  <2>2. \A g \in DOMAIN tree' : g \in DOMAIN tree /\ g # h /\ tree'[g] = tree[g]
    BY <1>4, <1>7
  <2>3. \A g \in DOMAIN tree' : Sorted(tree'[g], mem', free', g)
    BY <1>5, <2>2
  <2>4. Lists(tree', mem', free')
    BY <1>4, <2>3 DEF Lists
  <2>5. ASSUME NEW x \in Node PROVE In(tree', x) <=> In(tree, x) /\ x # n
    <3>1. ASSUME In(tree', x) PROVE In(tree, x) /\ x # n
      BY <1>5, <2>2, <3>1 DEF In, Among
    <3>2. ASSUME In(tree, x), x # n PROVE In(tree', x)
      BY <1>4, <2>1, <3>2 DEF In, Among, t
    <3>3. QED
      BY <3>1, <3>2
  <2>6. QED
    BY <2>4, <2>5 DEF Deleted
<1>8. QED
  BY <1>6, <1>7

-----------------------------------------------------------------------------
(* The invariant, and what the calls are to the dictionary.                *)

LEMMA InitInv == Init => Inv
<1> SUFFICES ASSUME Init
             PROVE  Inv
  OBVIOUS
<1> DEFINE k == CHOOSE x \in Key : TRUE
           a == CHOOSE x \in Arg : TRUE
<1>1. k \in Key /\ a \in Arg
  BY HashAssumption
<1> HIDE DEF k, a
<1>2. mem = [n \in Node |-> [key |-> k, arg |-> a, hash |-> 0]]
  BY DEF Init, k, a
<1>3. Cells(mem)
  BY <1>1, <1>2 DEF Cells
<1>4. DOMAIN tree = {} /\ free = Node
  BY DEF Init
<1>5. Lists(tree, mem, free)
  BY <1>3, <1>4 DEF Lists
<1>6. Ring
  BY DEF Init, Ring
<1>7. QED
  BY <1>5, <1>6 DEF Inv

Now  == MeaningOf(tree, mem)
Then == MeaningOf(tree', mem')

LEMMA MeaningHolds ==
  ASSUME Lists(tree, mem, free)
  PROVE  Meaning = Now /\ DOMAIN Meaning = Names(tree, mem)
<1>1. Meaning = MeaningOver(EntriesOf(tree), mem)
  BY DEF Meaning, MeaningOver, Named, Entries, EntriesOf
<1>2. QED
  BY <1>1, MeaningIsMeaningOf DEF Now, MeaningOf

LEMMA MeaningThen ==
  ASSUME Lists(tree', mem', free')
  PROVE  Meaning' = Then
<1>1. Meaning' = MeaningOver(EntriesOf(tree'), mem')
  BY DEF Meaning, MeaningOver, Named, Entries, EntriesOf
<1>2. QED
  BY <1>1, MeaningIsMeaningOf DEF Then

LEMMA FoundIsNamed ==
  ASSUME Inv, NEW k \in Key
  PROVE  /\ FoundIn(k) = {} <=> k \notin DOMAIN Meaning
         /\ \A n \in FoundIn(k) : /\ n \in Node /\ In(tree, n) /\ mem[n].key = k
                                  /\ Answer(k, n) = [of |-> k, ret |-> "HASH_OK", arg |-> Meaning[k]]
<1>1. FoundIn(k) = {n \in Node : In(tree, n) /\ mem[n].key = k}
  BY FoundIsEntry
<1>2. Lists(tree, mem, free) /\ Meaning = Now /\ DOMAIN Meaning = Names(tree, mem)
  BY MeaningHolds DEF Inv
<1>3. FoundIn(k) = {} <=> k \notin Names(tree, mem)
  BY <1>1 DEF Names
<1>4. ASSUME NEW n \in FoundIn(k)
      PROVE  /\ n \in Node /\ In(tree, n) /\ mem[n].key = k
             /\ Answer(k, n) = [of |-> k, ret |-> "HASH_OK", arg |-> Meaning[k]]
  <2>1. n \in Node /\ In(tree, n) /\ mem[n].key = k
    BY <1>1, <1>4
  <2>2. Now[k] = mem[n].arg
    BY <1>2, <2>1, MeaningOfEntry DEF Now
  <2>3. QED
    BY <1>2, <2>1, <2>2 DEF Answer
<1>5. QED
  BY <1>2, <1>3, <1>4

LEMMA FindInv ==
  ASSUME Inv, NEW k \in Key, Find(k)
  PROVE  Inv' /\ Dict!Find(k)
<1>1. Lists(tree, mem, free) /\ UNCHANGED <<tree, mem, free>>
  BY DEF Find, Inv
<1>2. Lists(tree', mem', free')
  BY <1>1
<1>3. Meaning' = Meaning
  BY <1>1, <1>2, MeaningHolds, MeaningThen DEF Now, Then
<1>4. CASE FoundIn(k) = {} /\ out' = [of |-> k, ret |-> "HASH_ENOTFOUND"] /\ UNCHANGED <<cache, cache_offs>>
  <2>1. Ring'
    BY <1>4 DEF Inv, Ring
  <2>2. QED
    BY <1>2, <1>3, <1>4, <2>1, FoundIsNamed DEF Inv, Dict!Find
<1>5. CASE \E n \in FoundIn(k) : out' = Answer(k, n) /\ AddCache(FnvHash[k], n)
  <2>1. PICK n \in FoundIn(k) : out' = Answer(k, n) /\ AddCache(FnvHash[k], n)
    BY <1>5
  <2>2. Ring'
    BY <2>1, FoundIsNamed, RingAdded DEF Inv
  <2>3. QED
    BY <1>2, <1>3, <2>1, <2>2, FoundIsNamed DEF Inv, Dict!Find
<1>6. QED
  BY <1>4, <1>5 DEF Find

LEMMA DelInv ==
  ASSUME Inv, NEW k \in Key, Del(k)
  PROVE  Inv' /\ Dict!Del(k)
<1> DEFINE h == FnvHash[k]
<1>1. CASE /\ FoundIn(k) = {} /\ out' = [of |-> k, ret |-> "HASH_ENOTFOUND"]
           /\ UNCHANGED <<tree, mem, free, cache, cache_offs>>
  <2>1. Lists(tree', mem', free') /\ Ring'
    BY <1>1 DEF Inv, Ring
  <2>2. Meaning' = Meaning
    BY <1>1, <2>1, MeaningHolds, MeaningThen DEF Now, Then, Inv
  <2>3. QED
    BY <1>1, <2>1, <2>2, FoundIsNamed DEF Inv, Dict!Del
<1>2. ASSUME NEW n \in FoundIn(k), out' = Answer(k, n),
             tree' = [x \in {y \in DOMAIN tree : y = h => tree[y].elms > 1} |->
                       IF x = h
                       THEN [list |-> Unlinked(tree[x].list, n), elms |-> tree[x].elms - 1]
                       ELSE tree[x]],
             free' = free \cup {n}, DelCache(n), UNCHANGED <<mem, cache_offs>>
      PROVE  Inv' /\ Dict!Del(k)
  <2>1. n \in Node /\ In(tree, n) /\ mem[n].key = k /\ Lists(tree, mem, free)
    BY <1>2, FoundIsNamed DEF Inv
  <2>2. Deleted(n)
    BY <1>2, <2>1, DelStep
  <2>3. Inv'
    BY <1>2, <2>1, <2>2, RingDeleted DEF Inv, Deleted
  <2>4. Then = [x \in Names(tree, mem) \ {k} |-> Now[x]]
    BY <2>1, <2>2, MeaningShrinks DEF Deleted, Now, Then
  <2>5. Meaning' = [x \in DOMAIN Meaning \ {k} |-> Meaning[x]]
    BY <2>1, <2>2, <2>4, MeaningHolds, MeaningThen DEF Deleted
  <2>6. out' = [of |-> k, ret |-> "HASH_OK", arg |-> Meaning[k]] /\ k \in DOMAIN Meaning
    BY <1>2, FoundIsNamed
  <2>7. QED
    BY <2>3, <2>5, <2>6 DEF Dict!Del
<1>3. QED
  BY <1>1, <1>2 DEF Del

(* An entry whose hashes no entry has is added to the dictionary.          *)
LEMMA EnteredAdds ==
  ASSUME Lists(tree, mem, free), Lists(tree', mem', free'), KeepsEntries,
         NEW k \in Key, NEW a \in Arg, NEW n \in free, Entered(k, a, n)
  PROVE  Dict!Add(k, a)
<1>1. /\ n \in Node
      /\ \A x \in Node : In(tree', x) <=> In(tree, x) \/ x = n
      /\ \A x \in Node : In(tree, x) => mem'[x].key = mem[x].key /\ mem'[x].arg = mem[x].arg
      /\ mem'[n].key = k /\ mem'[n].arg = a
  BY DEF Lists, Entered, KeepsEntries
<1>2. \A x \in Names(tree, mem) : ~SameHashes(k, x)
  BY DEF Names, Entered
<1>3. k \notin Names(tree, mem)
  BY <1>2 DEF SameHashes
<1>4. MeaningOf(tree', mem') = [x \in Names(tree, mem) \cup {k} |->
                                 IF x = k THEN a ELSE MeaningOf(tree, mem)[x]]
  <2> DEFINE m2 == mem'
             t2 == tree'
  <2>1. /\ Lists(t2, m2, free') /\ m2[n].key \notin Names(tree, mem)
        /\ \A x \in Node : In(t2, x) <=> In(tree, x) \/ x = n
        /\ \A x \in Node : In(tree, x) => m2[x].key = mem[x].key /\ m2[x].arg = mem[x].arg
    BY <1>1, <1>3
  <2> HIDE DEF m2, t2
  <2>2. MeaningOf(t2, m2) = [x \in Names(tree, mem) \cup {m2[n].key} |->
                              IF x = m2[n].key THEN m2[n].arg ELSE MeaningOf(tree, mem)[x]]
    BY <1>1, <2>1, MeaningGrows
  <2>3. QED
    BY <1>1, <2>2 DEF m2, t2
<1>5. Meaning = Now /\ DOMAIN Meaning = Names(tree, mem) /\ Meaning' = Then
  BY MeaningHolds, MeaningThen
<1>6. Meaning' = [x \in DOMAIN Meaning \cup {k} |-> IF x = k THEN a ELSE Meaning[x]]
  BY <1>4, <1>5 DEF Now, Then
<1>7. out' = [of |-> k, ret |-> "HASH_OK"]
  BY DEF Entered
<1>8. QED
  BY <1>2, <1>3, <1>5, <1>6, <1>7 DEF Dict!Add

(* One whose hashes are there is refused: as the name that is there, or as *)
(* one that collides with it.                                              *)
LEMMA RefusedRefuses ==
  ASSUME Lists(tree, mem, free), Lists(tree', mem', free'), KeepsEntries,
         NEW k \in Key, NEW a \in Arg, Refused(k)
  PROVE  Dict!Add(k, a)
<1>1. MeaningOf(tree', mem') = MeaningOf(tree, mem)
  BY SameMeaning DEF KeepsEntries, Refused
<1>2. Meaning = Now /\ DOMAIN Meaning = Names(tree, mem) /\ Meaning' = Then
  BY MeaningHolds, MeaningThen
<1>3. Meaning' = Meaning
  BY <1>1, <1>2 DEF Now, Then
<1>4. PICK n \in Node : /\ In(tree, n) /\ SameHashes(k, mem[n].key)
                        /\ out' = [of |-> k, ret |-> Clash(k, mem[n].key)]
  BY DEF Refused
<1>5. mem[n].key \in Names(tree, mem)
  BY <1>4 DEF Names
<1>6. CASE mem[n].key = k
  <2>1. out' = [of |-> k, ret |-> "HASH_DUP"]
    BY <1>4, <1>6 DEF Clash
  <2>2. QED
    BY <1>2, <1>3, <1>5, <1>6, <2>1 DEF Dict!Add
<1>7. CASE mem[n].key # k
  <2>1. out' = [of |-> k, ret |-> "HASH_ECOLL"]
    BY <1>4, <1>7 DEF Clash
  <2>2. ASSUME k \in Names(tree, mem) PROVE FALSE
    <3>1. PICK x \in Node : In(tree, x) /\ mem[x].key = k
      BY <2>2 DEF Names
    <3>2. x = n
      BY <1>4, <3>1, HashesTell
    <3>3. QED
      BY <1>7, <3>1, <3>2
  <2>3. QED
    BY <1>2, <1>3, <1>4, <1>5, <2>1, <2>2 DEF Dict!Add
<1>8. QED
  BY <1>6, <1>7

LEMMA AddInv ==
  ASSUME Inv, NEW k \in Key, NEW a \in Arg, Add(k, a)
  PROVE  Inv' /\ Dict!Add(k, a)
<1>1. Lists(tree, mem, free) /\ Ring
  BY DEF Inv
<1>2. PICK n \in free : AddFirst(k, a, n) \/ AddNext(k, a, n)
  BY DEF Add
<1>3. n \in Node
  BY <1>1 DEF Lists
<1>4. CASE AddFirst(k, a, n)
  <2>1. /\ Lists(tree', mem', free')
        /\ \A x \in Node : In(tree', x) <=> In(tree, x) \/ x = n
        /\ \A x \in Node : x # n => mem'[x] = mem[x]
        /\ mem'[n].key = k /\ mem'[n].arg = a
    BY <1>4, AddFirstStep
  <2>2. /\ FnvHash[k] \notin DOMAIN tree /\ out' = [of |-> k, ret |-> "HASH_OK"]
        /\ AddCache(FnvHash[k], n)
    BY <1>4 DEF AddFirst
  <2>3. KeepsEntries
    <3>1. ~In(tree, n)
      BY <1>1, InIsNode
    <3>2. QED
      BY <2>1, <3>1 DEF KeepsEntries
  <2>4. ASSUME NEW x \in Node, In(tree, x)
        PROVE  ~SameHashes(k, mem[x].key)
    BY <1>1, <2>2, <2>4, InItsList DEF SameHashes
  <2>5. Entered(k, a, n)
    BY <2>1, <2>2, <2>4 DEF Entered
  <2>6. Ring'
    BY <1>1, <1>3, <2>2, RingAdded
  <2>7. Dict!Add(k, a)
    BY <1>1, <2>1, <2>3, <2>5, EnteredAdds
  <2>8. QED
    BY <2>1, <2>6, <2>7 DEF Inv
<1>5. CASE AddNext(k, a, n)
  <2>1. /\ Lists(tree', mem', free') /\ Ring' /\ KeepsEntries
        /\ Entered(k, a, n) \/ Refused(k)
    BY <1>5, AddNextStep
  <2>2. Dict!Add(k, a)
    BY <1>1, <2>1, EnteredAdds, RefusedRefuses
  <2>3. QED
    BY <2>1, <2>2 DEF Inv
<1>6. QED
  BY <1>2, <1>4, <1>5

LEMMA StepInv ==
  ASSUME Inv, [Next]_vars
  PROVE  Inv' /\ [Dict!Next]_(Dict!vars)
<1>1. ASSUME NEW k \in Key, Find(k) PROVE Inv' /\ Dict!Next
  BY <1>1, FindInv DEF Dict!Next
<1>2. ASSUME NEW k \in Key, Del(k) PROVE Inv' /\ Dict!Next
  BY <1>2, DelInv DEF Dict!Next
<1>3. ASSUME NEW k \in Key, NEW a \in Arg, Add(k, a) PROVE Inv' /\ Dict!Next
  BY <1>3, AddInv DEF Dict!Next
<1>4. CASE UNCHANGED vars
  <2>1. UNCHANGED <<tree, mem, free, cache, cache_offs, out>>
    BY <1>4 DEF vars
  <2>2. Inv'
    BY <2>1 DEF Inv, Ring
  <2>3. Meaning' = Meaning
    BY <2>1, <2>2, MeaningHolds, MeaningThen DEF Now, Then, Inv
  <2>4. QED
    BY <2>1, <2>2, <2>3 DEF Dict!vars
<1>5. QED
  BY <1>1, <1>2, <1>3, <1>4 DEF Next

LEMMA InitDict == Init => Dict!Init
<1> SUFFICES ASSUME Init
             PROVE  Dict!Init
  OBVIOUS
<1>1. Lists(tree, mem, free) /\ DOMAIN tree = {} /\ out = [ret |-> "HASH_OK"]
  BY InitInv DEF Inv, Init
<1>2. Names(tree, mem) = {}
  BY <1>1 DEF Names, In
<1>3. Meaning = MeaningOf(tree, mem)
  BY <1>1, MeaningHolds DEF Now
<1>4. Meaning = [k \in {} |-> mem[CHOOSE n \in {x \in Node : In(tree, x)} : mem[n].key = k].arg]
  BY <1>2, <1>3 DEF MeaningOf
<1>5. Meaning = << >>
  <2>1. Meaning \in Seq({}) /\ Len(Meaning) = 0
    BY <1>4
  <2>2. QED
    BY <2>1, <1>4, SMT
<1>6. QED
  BY <1>1, <1>5 DEF Dict!Init

LEMMA InvTyped == Inv => TypeOK
<1> SUFFICES ASSUME Inv
             PROVE  TypeOK
  OBVIOUS
<1>1. Cells(mem) /\ free \subseteq Node /\ DOMAIN tree \subseteq {FnvHash[k] : k \in Key}
  BY DEF Inv, Lists
<1>2. ASSUME NEW h \in DOMAIN tree
      PROVE  tree[h] \in [list : Seq(Node), elms : 1..Cardinality(Node)]
  <2>1. Sorted(tree[h], mem, free, h)
    BY DEF Inv, Lists
  <2>2. tree[h].elms \in 1..Cardinality(Node)
    BY <1>1, <2>1, ListFits
  <2>3. QED
    BY <2>1, <2>2 DEF Sorted
<1>3. mem \in [Node -> [key : Key, arg : Arg, hash : {0} \cup {OatHash[k] : k \in Key}]]
  <2>1. ASSUME NEW n \in Node
        PROVE  mem[n] \in [key : Key, arg : Arg, hash : {0} \cup {OatHash[k] : k \in Key}]
    BY <1>1 DEF Cells, Hashed
  <2>2. QED
    BY <1>1, <2>1 DEF Cells
<1>4. QED
  BY <1>1, <1>2, <1>3 DEF Inv, Ring, TypeOK

LEMMA InvSorted == Inv => ListsSorted
<1> SUFFICES ASSUME Inv, NEW h \in DOMAIN tree
             PROVE  /\ Len(tree[h].list) = tree[h].elms
                    /\ \A i \in 1..Len(tree[h].list) :
                         /\ tree[h].list[i] \notin free
                         /\ FnvHash[mem[tree[h].list[i]].key] = h
                         /\ Len(tree[h].list) > 1 => Hashed(mem, tree[h].list[i])
                         /\ \A j \in 1..(i - 1) :
                              mem[tree[h].list[j]].hash < mem[tree[h].list[i]].hash
  BY DEF ListsSorted, Hashed
<1>1. Sorted(tree[h], mem, free, h)
  BY DEF Inv, Lists
<1>2. QED
  BY <1>1 DEF Sorted

-----------------------------------------------------------------------------
(* hashtable_begin and hashtable_next *)

Rising(s) == \A i \in DOMAIN s : \A j \in 1..(i - 1) : s[j] < s[i]

(* The values of a tree can be put in ascending order. *)
LEMMA RisingFirst ==
  ASSUME NEW S \in SUBSET Nat, NEW m \in S, \A x \in S : m <= x, NEW n \in Nat,
         NEW s \in [1..n -> S \ {m}], Rising(s)
  PROVE  \E r \in [1..(n + 1) -> S] : Rising(r)
<1> DEFINE r == [i \in 1..(n + 1) |-> IF i = 1 THEN m ELSE s[i - 1]]
<1>1. \A i \in 1..(n + 1) : i = 1 \/ i - 1 \in 1..n
  OBVIOUS
<1>2. r \in [1..(n + 1) -> S]
  BY <1>1
<1>3. ASSUME NEW i \in 1..(n + 1), NEW j \in 1..(i - 1)
      PROVE  r[j] < r[i]
  <2>1. i # 1 /\ i - 1 \in 1..n /\ r[i] = s[i - 1]
    BY <1>1, <1>3
  <2>2. CASE j = 1
    <3>1. r[j] = m
      BY <2>2
    <3>2. s[i - 1] \in S \ {m}
      BY <2>1
    <3>3. m <= s[i - 1] /\ m # s[i - 1] /\ m \in Nat /\ s[i - 1] \in Nat
      BY <3>2
    <3>4. QED
      BY <2>1, <3>1, <3>3
  <2>3. CASE j # 1
    <3>1. j - 1 \in 1..(i - 1 - 1) /\ j \in 1..(n + 1) /\ r[j] = s[j - 1]
      BY <2>1, <2>3
    <3>2. s[j - 1] < s[i - 1]
      BY <2>1, <3>1 DEF Rising
    <3>3. QED
      BY <2>1, <3>1, <3>2
  <2>4. QED
    BY <2>2, <2>3
<1>4. DOMAIN r = 1..(n + 1)
  OBVIOUS
<1> HIDE DEF r
<1>5. Rising(r)
  BY <1>3, <1>4 DEF Rising
<1>6. QED
  BY <1>2, <1>5

CanAscend(n) ==
  \A S \in SUBSET Nat : IsFiniteSet(S) /\ Cardinality(S) = n
                        => \E s \in [1..n -> S] : Rising(s)

LEMMA RisingExists ==
  ASSUME NEW S \in SUBSET Nat, IsFiniteSet(S)
  PROVE  \E s \in [1..Cardinality(S) -> S] : Rising(s)
<1> DEFINE T == {n \in Nat : CanAscend(n)}
<1>1. 0 \in T
  <2>1. ASSUME NEW U \in SUBSET Nat PROVE \E s \in [1..0 -> U] : Rising(s)
    <3> DEFINE s == [i \in 1..0 |-> 0]
    <3>1. s \in [1..0 -> U] /\ Rising(s)
      BY DEF Rising
    <3>2. QED
      BY <3>1
  <2>2. CanAscend(0)
    BY <2>1 DEF CanAscend
  <2>3. QED
    BY <2>2
<1>2. ASSUME NEW n \in Nat, n \in T PROVE n + 1 \in T
  <2> SUFFICES ASSUME NEW U \in SUBSET Nat, IsFiniteSet(U), Cardinality(U) = n + 1
               PROVE  \E s \in [1..(n + 1) -> U] : Rising(s)
    BY DEF CanAscend
  <2>1. U # {}
    BY FS_EmptySet
  <2>2. PICK m \in U : \A x \in U : m <= x
    BY <2>1, LeastNumber
  <2>3. IsFiniteSet(U \ {m}) /\ Cardinality(U \ {m}) = n
    <3>1. /\ IsFiniteSet(U \ {m})
          /\ Cardinality(U \ {m}) = IF m \in U THEN Cardinality(U) - 1 ELSE Cardinality(U)
      BY FS_RemoveElement, Zenon
    <3>2. QED
      BY <3>1
  <2>4. PICK s \in [1..n -> U \ {m}] : Rising(s)
    BY <1>2, <2>3 DEF CanAscend
  <2>5. QED
    BY <2>2, <2>4, RisingFirst
<1>3. Nat \subseteq T
  <2> HIDE DEF T
  <2>1. QED
    BY <1>1, <1>2, SetInduction
<1>4. Cardinality(S) \in Nat
  BY FS_CardinalityType
<1>5. QED
  BY <1>3, <1>4 DEF CanAscend

(* There are no more lists than entries. *)
LEMMA TreeIsFinite ==
  ASSUME Inv
  PROVE  IsFiniteSet(DOMAIN tree) /\ DOMAIN tree \in SUBSET Nat
<1> DEFINE first == [h \in DOMAIN tree |-> tree[h].list[1]]
<1>1. ASSUME NEW h \in DOMAIN tree
      PROVE  tree[h].list[1] \in Node /\ FnvHash[mem[tree[h].list[1]].key] = h
  <2>1. Sorted(tree[h], mem, free, h)
    BY DEF Inv, Lists
  <2>2. 1 \in 1..tree[h].elms /\ tree[h].list[1] \in Node
    BY <2>1, ListTypes
  <2>3. QED
    BY <2>1, <2>2 DEF Sorted
<1>2. first \in Injection(DOMAIN tree, Node)
  BY <1>1 DEF Injection, IsInjective
<1>3. IsFiniteSet(DOMAIN tree)
  BY <1>2, HashAssumption, FS_Injection
<1>4. DOMAIN tree \subseteq {FnvHash[k] : k \in Key}
  BY DEF Inv, Lists
<1>5. QED
  BY <1>3, <1>4, HashAssumption

Count == Cardinality(DOMAIN tree)

(* Every value has one place in the order. *)
LEMMA ValuesOnce ==
  ASSUME Inv
  PROVE  /\ Count \in Nat /\ Values \in [1..Count -> DOMAIN tree]
         /\ \A i, j \in 1..Count : Values[i] = Values[j] => i = j
         /\ \A h \in DOMAIN tree : \E i \in 1..Count : Values[i] = h
<1>1. IsFiniteSet(DOMAIN tree) /\ DOMAIN tree \in SUBSET Nat
  BY TreeIsFinite
<1>2. Count \in Nat
  BY <1>1, FS_CardinalityType DEF Count
<1>3. \E s \in [1..Count -> DOMAIN tree] : Rising(s)
  BY <1>1, RisingExists DEF Count
<1>4. Values = CHOOSE s \in [1..Count -> DOMAIN tree] : Rising(s)
  BY DEF Values, Rising, Count
<1>5. Values \in [1..Count -> DOMAIN tree] /\ Rising(Values)
  BY <1>3, <1>4
<1>6. ASSUME NEW i \in 1..Count, NEW j \in 1..Count, i < j PROVE Values[i] # Values[j]
  <2>1. i \in 1..(j - 1) /\ j \in DOMAIN Values
    BY <1>2, <1>5, <1>6
  <2>2. Values[i] < Values[j] /\ Values[i] \in Nat /\ Values[j] \in Nat
    BY <1>1, <1>5, <2>1 DEF Rising
  <2>3. QED
    BY <2>2
<1>7. ASSUME NEW i \in 1..Count, NEW j \in 1..Count, Values[i] = Values[j] PROVE i = j
  <2>1. i \in Nat /\ j \in Nat
    OBVIOUS
  <2>2. QED
    BY <1>6, <1>7, <2>1
<1>8. Values \in Injection(1..Count, DOMAIN tree)
  BY <1>5, <1>7 DEF Injection, IsInjective
<1>9. Cardinality(1..Count) = Count
  BY <1>2, FS_Interval
<1>10. Values \in Surjection(1..Count, DOMAIN tree)
  BY <1>1, <1>8, <1>9, FS_Injection DEF Count
<1>11. QED
  BY <1>2, <1>5, <1>7, <1>10 DEF Surjection

(* No entry is in two lists, and none twice in one. *)
LEMMA ListsApart ==
  ASSUME Inv, NEW h \in DOMAIN tree
  PROVE  /\ tree[h].list \in Seq(Node) /\ Distinct(tree[h].list)
         /\ \A x : Holds(tree[h].list, x) => In(tree, x) /\ FnvHash[mem[x].key] = h
         /\ \A g \in DOMAIN tree : g # h => Apart(tree[g].list, tree[h].list)
<1>1. \A g \in DOMAIN tree : Sorted(tree[g], mem, free, g)
  BY DEF Inv, Lists
<1>2. \A g \in DOMAIN tree : tree[g].list \in Seq(Node) /\ Len(tree[g].list) = tree[g].elms
  BY <1>1, ListTypes
<1>3. ASSUME NEW g \in DOMAIN tree, NEW i \in 1..Len(tree[g].list)
      PROVE  FnvHash[mem[tree[g].list[i]].key] = g /\ In(tree, tree[g].list[i])
  BY <1>1, <1>2 DEF Sorted, In
<1>4. Distinct(tree[h].list)
  BY <1>1, <1>2, OnceInList DEF Distinct, Inv, Lists
<1>5. QED
  BY <1>2, <1>3, <1>4 DEF Apart, Holds

LEMMA TraversalHolds ==
  ASSUME Inv
  PROVE  /\ Traversal \in Seq(Node) /\ Distinct(Traversal)
         /\ \A x : Holds(Traversal, x) <=> In(tree, x)
<1> DEFINE lists == [i \in DOMAIN Values |-> tree[Values[i]].list]
<1>1. /\ Count \in Nat /\ Values \in [1..Count -> DOMAIN tree]
      /\ \A i, j \in 1..Count : Values[i] = Values[j] => i = j
      /\ \A h \in DOMAIN tree : \E i \in 1..Count : Values[i] = h
  BY ValuesOnce
<1>2. lists \in [1..Count -> Seq(Node)]
  BY <1>1, ListsApart
<1>3. \A i \in 1..Count : lists[i] = tree[Values[i]].list
  BY <1>1
<1>4. Traversal = FlattenSeq(lists)
  BY DEF Traversal
<1> HIDE DEF lists
<1>5. lists \in Seq(Seq(Node)) /\ Len(lists) = Count
  BY <1>1, <1>2
<1>6. AllApart(lists, Count)
  <2>1. \A i \in 1..Count : Distinct(lists[i])
    BY <1>1, <1>3, ListsApart
  <2>2. ASSUME NEW i \in 1..Count, NEW j \in 1..Count, i # j
        PROVE  Apart(lists[i], lists[j])
    <3>1. Values[i] \in DOMAIN tree /\ Values[j] \in DOMAIN tree /\ Values[i] # Values[j]
      BY <1>1, <2>2
    <3>2. QED
      BY <1>3, <3>1, ListsApart
  <2>3. QED
    BY <2>1, <2>2 DEF AllApart
<1>7. Traversal \in Seq(Node)
  BY <1>4, <1>5, FlattenType
<1>8. Distinct(Traversal) /\ HoldsAll(Traversal, lists, Count)
  <2>1. ListOfLists(lists, Node)
    BY <1>5 DEF ListOfLists
  <2>2. QED
    BY <1>1, <1>4, <1>5, <1>6, <2>1, FlattenDistinct
<1>9. ASSUME NEW x, Holds(Traversal, x) PROVE In(tree, x)
  <2>1. PICK i \in 1..Count : Holds(lists[i], x)
    BY <1>8, <1>9 DEF HoldsAll
  <2>2. QED
    BY <1>1, <1>3, <2>1, ListsApart
<1>10. ASSUME NEW x, In(tree, x) PROVE Holds(Traversal, x)
  <2>1. PICK h \in DOMAIN tree : \E i \in 1..tree[h].elms : tree[h].list[i] = x
    BY <1>10 DEF In
  <2>2. Holds(tree[h].list, x)
    <3>1. Sorted(tree[h], mem, free, h)
      BY DEF Inv, Lists
    <3>2. QED
      BY <2>1, <3>1 DEF Sorted, Holds
  <2>3. PICK i \in 1..Count : Values[i] = h
    BY <1>1
  <2>4. Holds(lists[i], x)
    BY <1>3, <2>2, <2>3
  <2>5. QED
    BY <1>8, <2>4 DEF HoldsAll
<1>11. QED
  BY <1>7, <1>8, <1>9, <1>10

LEMMA InvTraversal == Inv => TraversalOnce
<1> SUFFICES ASSUME Inv
             PROVE  Len(Traversal) = Cardinality(Named) /\ ToSet(Traversal) = Entries
  BY InvSorted DEF TraversalOnce
<1> DEFINE n    == Len(Traversal)
           name == [i \in 1..n |-> mem[Traversal[i]].key]
<1>1. /\ Traversal \in Seq(Node) /\ Distinct(Traversal)
      /\ \A x : Holds(Traversal, x) <=> In(tree, x)
  BY TraversalHolds
<1>2. n \in Nat /\ DOMAIN Traversal = 1..n /\ \A i \in 1..n : Traversal[i] \in Node
  BY <1>1
<1>3. Lists(tree, mem, free)
  BY DEF Inv
<1>4. Entries = {x \in Node : In(tree, x)}
  BY <1>3, EntriesAreIn DEF Entries, EntriesOf
<1>5. ToSet(Traversal) = {x \in Node : Holds(Traversal, x)}
  BY <1>2 DEF ToSet, Holds
<1>6. ToSet(Traversal) = Entries
  BY <1>1, <1>4, <1>5
<1>7. Named = Names(tree, mem)
  BY <1>4 DEF Named, Names
<1>8. \A i \in 1..n : Traversal[i] \in Node /\ In(tree, Traversal[i])
  BY <1>1, <1>2 DEF Holds
<1>9. \A x : In(tree, x) => \E i \in 1..n : Traversal[i] = x
  BY <1>1 DEF Holds
<1>10. name \in [1..n -> Named]
  BY <1>7, <1>8 DEF Names
<1>11. ASSUME NEW i \in 1..n, NEW j \in 1..n, name[i] = name[j] PROVE i = j
  <2>1. mem[Traversal[i]].key = mem[Traversal[j]].key
    BY <1>11
  <2>2. Traversal[i] = Traversal[j]
    BY <1>3, <1>8, <2>1, OneEntry
  <2>3. QED
    BY <1>1, <2>2 DEF Distinct
<1>12. ASSUME NEW k \in Named PROVE \E i \in 1..n : name[i] = k
  <2>1. PICK x \in Node : In(tree, x) /\ mem[x].key = k
    BY <1>7 DEF Names
  <2>2. PICK i \in 1..n : Traversal[i] = x
    BY <1>9, <2>1
  <2>3. QED
    BY <2>1, <2>2
<1> HIDE DEF name
<1>13. name \in Bijection(1..n, Named)
  BY <1>10, <1>11, <1>12 DEF Bijection, Injection, Surjection, IsInjective
<1>14. IsFiniteSet(1..n) /\ Cardinality(1..n) = n
  BY <1>2, FS_Interval
<1>15. Cardinality(Named) = n
  BY <1>13, <1>14, FS_Bijection DEF ExistsBijection
<1>16. QED
  BY <1>6, <1>15

-----------------------------------------------------------------------------
(* Every variable of lib/hash.c has its type: the first hashes are hashes  *)
(* of names, a count is that of a list that is not empty, and the second   *)
(* hash of an entry is 0 or one of a name.                                 *)
THEOREM TableTyped == Spec => []TypeOK
<1>1. Inv /\ [Next]_vars => Inv'
  BY StepInv
<1>2. QED
  BY <1>1, InitInv, InvTyped, PTL DEF Spec

(* hashtable_begin and hashtable_next pass over every entry once: the list *)
(* of a first hash is as long as its count, strictly sorted by a second    *)
(* hash that is computed, and no name has two entries.                     *)
THEOREM TableTraversedOnce == Spec => []TraversalOnce
<1>1. Inv /\ [Next]_vars => Inv'
  BY StepInv
<1>2. QED
  BY <1>1, InitInv, InvTraversal, PTL DEF Spec

(* What hashtable_add, hashtable_find and hashtable_del answer is what a   *)
(* dictionary answers, whatever the hashes of the names, the order of the  *)
(* calls and the size of the ring; a name is refused as a collision only   *)
(* when another has both its hashes.                                       *)
THEOREM TableIsDictionary == Spec => ImplementsDictionary
<1>1. Inv /\ [Next]_vars => Inv' /\ [Dict!Next]_(Dict!vars)
  BY StepInv
<1>2. QED
  BY <1>1, InitInv, InitDict, PTL DEF Spec, ImplementsDictionary, Dict!Spec
==============================================================================
