------------------------------ MODULE HashTable ------------------------------
(***************************************************************************)
(* lib/hash.c: a tree of the values of a first hash; at each value a list  *)
(* of entries sorted by a second hash, which a list of one entry does not  *)
(* compute; and a ring of entries found or added last.  Options are those  *)
(* of the tables that hold users and rooms: the data are compared          *)
(* (HASHTABLE_CHMATCH) and collisions are refused (no HASHTABLE_ALLOWCOLL).*)
(*                                                                         *)
(* A freed entry keeps its bytes until achunk_new0 hands it out again,     *)
(* and the ring may still point to it.  The red-black tree of sys/tree.h   *)
(* is a function of the values present.                                    *)
(***************************************************************************)
EXTENDS Integers, Sequences, FiniteSets, SequencesExt

CONSTANTS
  Key, Arg,
  FnvHash, OatHash,  \* the two hashes of every key
  CacheSize,         \* entries of the ring
  Node               \* bound: list entries of the chunk

(* The ring compares the second hash of an entry, or 0, with the first of  *)
(* the key: that these are equal for some name is left out.                *)
ASSUME HashAssumption ==
  /\ CacheSize \in Nat
  /\ Key # {} /\ Arg # {} /\ IsFiniteSet(Node)
  /\ FnvHash \in [Key -> Nat \ {0}]
  /\ OatHash \in [Key -> Nat]
  /\ \A k \in Key : FnvHash[k] # OatHash[k]

VARIABLES
  tree,        \* [first hashes present -> [list, elms]]
  mem,         \* the bytes of every list entry
  free,        \* those that are not allocated
  cache, cache_offs,
  out          \* the name of the last call and what it returned

vars == <<tree, mem, free, cache, cache_offs, out>>

Slots == 0..(CacheSize - 1)

(* Null pointers. *)
NoTnode == 0
NoLnode == 0

Init ==
  /\ tree = <<>>
  /\ mem = [n \in Node |-> [key |-> CHOOSE k \in Key : TRUE,
                           arg |-> CHOOSE a \in Arg : TRUE, hash |-> 0]]
  /\ free = Node
  /\ cache = [s \in Slots |-> [used |-> FALSE, lnode |-> NoLnode, tnode |-> NoTnode]]
  /\ cache_offs = 0
  /\ out = [ret |-> "HASH_OK"]

-----------------------------------------------------------------------------
(* The ring *)

(* Both loops stop one short: the slot written last is never looked at. *)
SlotsSearched == Slots \ {(cache_offs + CacheSize - 1) % CacheSize}

InSlot(s, k) == cache[s].used /\ mem[cache[s].lnode].hash = FnvHash[k]
                  /\ mem[cache[s].lnode].key = k

(* Defect: the ring does not close. *)
SlotBehind == cache_offs + 1

NextSlot == (cache_offs + 1) % CacheSize

(* _add_cache *)
AddCache(h, n) ==
  IF CacheSize > 0
  THEN /\ cache' = [cache EXCEPT ![cache_offs] = [used |-> TRUE, lnode |-> n, tnode |-> h]]
       /\ cache_offs' = NextSlot
  ELSE UNCHANGED <<cache, cache_offs>>

DelCache(n) ==
  cache' = [s \in Slots |-> IF s \in SlotsSearched /\ cache[s].lnode = n
                            THEN [cache[s] EXCEPT !.used = FALSE] ELSE cache[s]]

-----------------------------------------------------------------------------
(* Adding *)

FirstHashed(list) ==
  LET first == mem[Head(list)] IN
  IF first.hash = 0 THEN [mem EXCEPT ![Head(list)].hash = OatHash[first.key]] ELSE mem

(* Defect: entries are put at the end. *)
AtEnd(list, bytes, hash) == Len(list) + 1

(* Where an entry goes: at the first whose hash is not smaller. *)
Place(list, bytes, hash) ==
  CHOOSE i \in 1..(Len(list) + 1) :
    /\ i <= Len(list) => bytes[list[i]].hash >= hash
    /\ \A j \in 1..(i - 1) : bytes[list[j]].hash < hash

Counted(ret) == IF ret = "HASH_OK" THEN 1 ELSE 0

(* Defect: the data are not compared. *)
HashesCompared(k, key) == "HASH_DUP"

Clash(k, key) == IF key = k THEN "HASH_DUP" ELSE "HASH_ECOLL"

(* The first entry of a new tree node; its second hash is left out. *)
AddFirst(k, a, n) ==
  LET h == FnvHash[k] IN
  /\ h \notin DOMAIN tree
  /\ tree' = [x \in DOMAIN tree \cup {h} |->
               IF x = h THEN [list |-> <<n>>, elms |-> 1] ELSE tree[x]]
  /\ mem' = [mem EXCEPT ![n] = [key |-> k, arg |-> a, hash |-> 0]]
  /\ free' = free \ {n}
  /\ AddCache(h, n)
  /\ out' = [of |-> k, ret |-> "HASH_OK"]

(* _insert_entry: sorted into the list, or given back because the data are *)
(* there, or lost with its hash_t because only the hashes are.             *)
AddNext(k, a, n) ==
  LET h == FnvHash[k] IN
  /\ h \in DOMAIN tree
  /\ LET list  == tree[h].list
         bytes == [FirstHashed(list) EXCEPT ![n] = [key |-> k, arg |-> a, hash |-> OatHash[k]]]
         i     == Place(list, bytes, OatHash[k])
         Enters(ret, entries) ==
           /\ tree' = [tree EXCEPT ![h] = [list |-> entries, elms |-> @.elms + Counted(ret)]]
           /\ out' = [of |-> k, ret |-> ret]
     IN /\ mem' = bytes
        /\ \/ /\ i <= Len(list) => bytes[list[i]].hash # OatHash[k]
              /\ Enters("HASH_OK", InsertAt(list, i, n))
              /\ free' = free \ {n}
              /\ AddCache(h, n)
           \/ /\ i <= Len(list)
              /\ bytes[list[i]].hash = OatHash[k]
              /\ LET ret == Clash(k, bytes[list[i]].key) IN
                   /\ Enters(ret, list)
                   /\ free' = IF ret = "HASH_DUP" THEN free ELSE free \ {n}
              /\ AddCache(h, list[i])

Add(k, a) == \E n \in free : AddFirst(k, a, n) \/ AddNext(k, a, n)

-----------------------------------------------------------------------------
(* Searching *)

(* The entries of the list that _search_in_table looks at. *)
Candidates(h, k) ==
  LET list == tree[h].list IN
  IF tree[h].elms = 1 THEN {Head(list)}
  ELSE {n \in ToSet(list) : mem[n].hash = OatHash[k]}

FoundIn(k) ==
  LET h    == FnvHash[k]
      hits == {s \in SlotsSearched : InSlot(s, k)}
  IN  IF hits # {} THEN {cache[s].lnode : s \in hits}
      ELSE IF h \in DOMAIN tree THEN {n \in Candidates(h, k) : mem[n].key = k}
      ELSE {}

Answer(k, n) == [of |-> k, ret |-> "HASH_OK", arg |-> mem[n].arg]

Find(k) ==
  /\ \/ /\ FoundIn(k) = {}
        /\ out' = [of |-> k, ret |-> "HASH_ENOTFOUND"]
        /\ UNCHANGED <<cache, cache_offs>>
     \/ \E n \in FoundIn(k) :
          /\ out' = Answer(k, n)
          /\ AddCache(FnvHash[k], n)
  /\ UNCHANGED <<tree, mem, free>>

(* SLIST_REMOVE *)
Unlinked(list, n) == RemoveAt(list, CHOOSE i \in 1..Len(list) : list[i] = n)

Del(k) ==
  LET h == FnvHash[k] IN
  \/ /\ FoundIn(k) = {}
     /\ out' = [of |-> k, ret |-> "HASH_ENOTFOUND"]
     /\ UNCHANGED <<tree, mem, free, cache, cache_offs>>
  \/ \E n \in FoundIn(k) :
       /\ out' = Answer(k, n)
       /\ tree' = [x \in {y \in DOMAIN tree : y = h => tree[y].elms > 1} |->
                    IF x = h
                    THEN [list |-> Unlinked(tree[x].list, n), elms |-> tree[x].elms - 1]
                    ELSE tree[x]]
       /\ free' = free \cup {n}
       /\ DelCache(n)
       /\ UNCHANGED <<mem, cache_offs>>

Next == \E k \in Key : Find(k) \/ Del(k) \/ \E a \in Arg : Add(k, a)

Spec == Init /\ [][Next]_vars

-----------------------------------------------------------------------------
(* hashtable_begin and hashtable_next *)

(* RB_FOREACH: the values in ascending order. *)
Values ==
  CHOOSE s \in [1..Cardinality(DOMAIN tree) -> DOMAIN tree] :
    \A i \in DOMAIN s : \A j \in 1..(i - 1) : s[j] < s[i]

Traversal == FlattenSeq([i \in DOMAIN Values |-> tree[Values[i]].list])

-----------------------------------------------------------------------------
(* Properties *)

(* Every variable has its type. *)
TypeOK ==
  /\ DOMAIN tree \subseteq {FnvHash[k] : k \in Key}
  /\ \A h \in DOMAIN tree :
       tree[h] \in [list : Seq(Node), elms : 1..Cardinality(Node)]
  /\ mem \in [Node -> [key : Key, arg : Arg, hash : {0} \cup {OatHash[k] : k \in Key}]]
  /\ free \subseteq Node
  /\ cache \in [Slots -> [used : BOOLEAN, lnode : {NoLnode} \cup Node,
                          tnode : {NoTnode} \cup {FnvHash[k] : k \in Key}]]
  /\ cache_offs \in {0} \cup Slots

(* A list is allocated entries of its first hash, its length is the count  *)
(* the one-entry shortcut goes by, and with two entries or more it is      *)
(* strictly sorted by a second hash that every entry has.                  *)
ListsSorted ==
  \A h \in DOMAIN tree :
    LET list == tree[h].list IN
    /\ Len(list) = tree[h].elms
    /\ \A i \in 1..Len(list) :
         /\ list[i] \notin free
         /\ FnvHash[mem[list[i]].key] = h
         /\ Len(list) > 1 => mem[list[i]].hash = OatHash[mem[list[i]].key]
         /\ \A j \in 1..(i - 1) : mem[list[j]].hash < mem[list[i]].hash

Entries == UNION {ToSet(tree[h].list) : h \in DOMAIN tree}

Named == {mem[n].key : n \in Entries}

(* The lists are in order, and a traversal passes over every name of the   *)
(* table and over none twice.                                              *)
TraversalOnce ==
  /\ ListsSorted
  /\ Len(Traversal) = Cardinality(Named)
  /\ ToSet(Traversal) = Entries

(* What the table stands for. *)
SameHashes(k, x) == FnvHash[k] = FnvHash[x] /\ OatHash[k] = OatHash[x]

Meaning == [k \in Named |-> mem[CHOOSE n \in Entries : mem[n].key = k].arg]

Dict == INSTANCE Dictionary WITH Collides <- SameHashes, dict <- Meaning

(* With lists of colliding names, entries that were freed and handed out   *)
(* again and a ring that still points to them, the table answers as a      *)
(* dictionary does.                                                        *)
ImplementsDictionary == Dict!Spec
==============================================================================
