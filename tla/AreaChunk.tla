------------------------------ MODULE AreaChunk ------------------------------
(***************************************************************************)
(* lib/area_chunk.c: memory for many structures of one size, which the     *)
(* hash tables use for their entries.  Areas of nmemb atoms are allocated  *)
(* when they are needed; the atoms given back are kept in a list, and an   *)
(* area all of whose atoms came back is marked, to be used from the start  *)
(* again or freed when the list is next looked through.                    *)
(*                                                                         *)
(* Access to an area that was freed is undefined: the model stops there.   *)
(* Allocation does not fail (memory_error ends the program).               *)
(***************************************************************************)
EXTENDS Integers, SequencesExt

CONSTANTS
  Area,    \* addresses at which an area may be allocated
  nmemb    \* atoms in an area

ASSUME AreaChunkAssumption == nmemb \in Nat \ {0}

VARIABLES
  tree,        \* [areas allocated -> their index and free_chunk]
  cur,         \* the area that atoms are cut from
  free_atoms,  \* atoms given back, the last one first
  held,        \* history: atoms in use
  crowded,     \* history: more than nmemb of them were in use at a time
  wild         \* history: an area that was freed was accessed

chunkVars == <<tree, cur, free_atoms, held, crowded, wild>>

(* _ACHUNK_DELETE: free_chunk of a marked area. *)
Deleted == -1

NewArea == [index |-> 0, free_chunk |-> 0]

Atom(a, i) == [area |-> a, offset |-> i]

(* _area_chunk_new *)
ChunkInit ==
  /\ cur \in Area
  /\ tree = [a \in {cur} |-> NewArea]
  /\ free_atoms = <<>>
  /\ held = {}
  /\ crowded = FALSE
  /\ wild = FALSE

-----------------------------------------------------------------------------
(* RB_FIND: of an area only what lies below its index is found. *)
Found(areas, atom) ==
  atom.area \in DOMAIN areas /\ atom.offset < areas[atom.area].index

Without(areas, gone) == [a \in DOMAIN areas \ gone |-> areas[a]]

(* Defect: the index of an area that is used again stays. *)
MarkCleared(area) == [area EXCEPT !.free_chunk = 0]

UsedAgain(area) == [area EXCEPT !.index = 0, !.free_chunk = 0]

(* One turn of the loop of ac_clean.  Of a marked area the first atom marks *)
(* it as used again, or frees it, and the others are then found no more.    *)
CleanAtom(s, fa) ==
  LET a == fa.area IN
  IF s.wild \/ a \notin DOMAIN s.tree
  THEN [s EXCEPT !.wild = TRUE]                    \* SLIST_NEXT(fa)
  ELSE IF ~Found(s.tree, fa)
  THEN s
  ELSE IF s.tree[a].free_chunk = Deleted
  THEN IF s.free_area # {}
       THEN [s EXCEPT !.tree = Without(@, {a})]
       ELSE [s EXCEPT !.tree[a] = UsedAgain(@), !.free_area = {a}]
  ELSE IF s.free_atom = {}
  THEN [s EXCEPT !.free_atom = {fa}]
  ELSE [s EXCEPT !.kept = Append(@, fa)]

(* ac_clean: with an atom to hand out, the area to use again is freed. *)
Cleaned ==
  LET s == FoldLeft(CleanAtom,
                    [tree |-> tree, kept |-> <<>>, free_atom |-> {},
                     free_area |-> {}, wild |-> FALSE],
                    free_atoms)
  IN  IF s.free_atom # {}
      THEN [s EXCEPT !.tree = Without(@, s.free_area)]
      ELSE s

-----------------------------------------------------------------------------
(* Defect: off by one, either way. *)
HasRoomForMore(area) == area.index <= nmemb
HasRoomBut(area) == area.index + 1 < nmemb

HasRoom(area) == area.index < nmemb

(* Defect: an atom handed out again still counts as free. *)
StillFree(area) == area

OneFreeLess(area) == [area EXCEPT !.free_chunk = @ - 1]

HandOut(atom) ==
  /\ held' = held \cup {atom}
  /\ crowded' = (crowded \/ Cardinality(held) >= nmemb)

Cut(areas, a) ==
  /\ tree' = [areas EXCEPT ![a].index = @ + 1]
  /\ HandOut(Atom(a, areas[a].index))

(* achunk_new *)
NewAtom ==
  /\ ~wild
  /\ free_atoms' = Cleaned.kept
  /\ LET s == Cleaned IN
       \/ /\ ~s.wild
          /\ \E atom \in s.free_atom :
               /\ tree' = [s.tree EXCEPT ![atom.area] = OneFreeLess(@)]
               /\ HandOut(atom)
          /\ UNCHANGED <<cur, wild>>
       \/ /\ ~s.wild
          /\ s.free_atom = {}
          /\ cur \in DOMAIN s.tree
          /\ \/ /\ HasRoom(s.tree[cur])
                /\ Cut(s.tree, cur)
                /\ UNCHANGED cur
             \/ /\ ~HasRoom(s.tree[cur])
                /\ \E a \in s.free_area : Cut(s.tree, a)
                /\ UNCHANGED cur
             \/ /\ ~HasRoom(s.tree[cur])
                /\ s.free_area = {}
                /\ \E a \in Area \ DOMAIN s.tree :
                     /\ cur' = a
                     /\ Cut([b \in DOMAIN s.tree \cup {a} |->
                              IF b = a THEN NewArea ELSE s.tree[b]], a)
          /\ UNCHANGED wild
       \/ /\ s.wild \/ (s.free_atom = {} /\ cur \notin DOMAIN s.tree)
          /\ wild' = TRUE
          /\ tree' = s.tree
          /\ UNCHANGED <<cur, held, crowded>>

(* achunk_del *)
DelAtom ==
  \E atom \in held :
    /\ ~wild
    /\ Found(tree, atom)
    /\ tree[atom.area].free_chunk # Deleted
    /\ LET free == tree[atom.area].free_chunk + 1
           all  == free \in {nmemb, tree[atom.area].index}
       IN tree' = [tree EXCEPT ![atom.area].free_chunk = IF all THEN Deleted ELSE free]
    /\ free_atoms' = <<atom>> \o free_atoms
    /\ held' = held \ {atom}
    /\ UNCHANGED <<cur, crowded, wild>>

-----------------------------------------------------------------------------
(* Properties *)

AtomsOf(a) == {Atom(a, i) : i \in 0..(nmemb - 1)}
Atoms == UNION {AtomsOf(a) : a \in Area}

(* Every variable has its type; in particular no atom reaches past its area. *)
ChunkTypeOK ==
  /\ DOMAIN tree \subseteq Area
  /\ \A a \in DOMAIN tree :
       tree[a] \in [index : 0..nmemb, free_chunk : Deleted..nmemb]
  /\ cur \in Area
  /\ free_atoms \in Seq(Atoms)
  /\ held \subseteq Atoms
  /\ {crowded, wild} \subseteq BOOLEAN

(* What is in use is memory: an atom that was handed out stays in an area  *)
(* that is allocated, below its index and out of the list of free atoms,   *)
(* whatever areas are marked, used again and freed meanwhile, and the list *)
(* holds no atom twice (ac_clean, achunk_new, achunk_del).                 *)
HeldIsSafe ==
  ~wild =>
    /\ \A atom \in held : Found(tree, atom) /\ tree[atom.area].free_chunk # Deleted
    /\ held \cap ToSet(free_atoms) = {}
    /\ IsInjective(free_atoms)

(* free_chunk counts the free atoms of its area, and an area is marked     *)
(* exactly when all it ever handed out has come back: none is marked with  *)
(* an atom in use, none stays for ever because its count is off.           *)
CountsAreRight ==
  ~wild =>
    \A a \in DOMAIN tree :
      LET out  == {i \in 0..(tree[a].index - 1) : Atom(a, i) \in held}
          back == {i \in 0..(tree[a].index - 1) : Atom(a, i) \in ToSet(free_atoms)}
      IN /\ out \cup back = 0..(tree[a].index - 1)
         /\ tree[a].free_chunk =
              IF back # {} /\ out = {} THEN Deleted ELSE Cardinality(back)

(* A table that never had more than nmemb entries of a kind at a time has  *)
(* one area, which is never freed: nothing undefined happens.  (Beyond,    *)
(* the area that cur points to can be freed by ac_clean.)                  *)
OneAreaIsEnough == ~crowded => ~wild /\ DOMAIN tree \subseteq {cur}
==============================================================================
