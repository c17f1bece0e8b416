-------------------------------- MODULE Areas --------------------------------
(***************************************************************************)
(* lib/area.c: a tree of areas, each with the list of the chunks that were *)
(* allocated in it and their size in all.  Destroying an area destroys the *)
(* areas below it and frees their chunks; a chunk can move from one area   *)
(* to another.                                                             *)
(*                                                                         *)
(* A chunk is known by its address.  malloc does not fail: the error       *)
(* function of the root, which every node inherits, ends the program.  A   *)
(* list is a set: nothing depends on its order.                            *)
(***************************************************************************)
EXTENDS Integers, FiniteSets, FiniteSetsExt, Functions

CONSTANTS
  Node,     \* addresses of areas
  Block,    \* addresses of chunks
  None      \* NULL

ASSUME AreasAssumption == None \notin Node

VARIABLES
  areas,    \* [areas that exist -> parent, list of chunks, allocated]
  size      \* [chunks that malloc gave and free did not take -> size]

areaVars == <<areas, size>>

NewNode(parent) == [parent |-> parent, list |-> {}, allocated |-> 0]

(* _A_ADD_CHUNK and _A_DEL_CHUNK, for a chunk of n bytes.                  *)
Added(area, b, n) ==
  [area EXCEPT !.list = @ \cup {b}, !.allocated = @ + n]

Removed(area, b, n) ==
  [area EXCEPT !.list = @ \ {b}, !.allocated = @ - n]

(* The areas of s below a, itself included: those a chain of parents leads *)
(* from to a.                                                              *)
Below(s, a) ==
  LET up[n \in 0..Cardinality(Node)] ==
        IF n = 0 THEN {a}
        ELSE LET near == up[n - 1]
             IN  near \cup {x \in DOMAIN s.areas : s.areas[x].parent \in near}
  IN  up[Cardinality(Node)]

-----------------------------------------------------------------------------
(* The calls, each on a pair of areas and sizes s = [areas, size], so that *)
(* a handler can make several in one step.                                 *)
Now == [areas |-> areas, size |-> size]

(* area_size *)
AreaSize(a) ==
  SumFunctionOnSet([x \in DOMAIN areas |-> areas[x].allocated], Below(Now, a))

Becomes(s) == areas' = s.areas /\ size' = s.size

(* area_root, area_node *)
WithNode(s, parent, a) ==
  [s EXCEPT !.areas = [x \in DOMAIN @ \cup {a} |->
                         IF x = a THEN NewNode(parent) ELSE s.areas[x]]]

(* area_destroy *)
Destroyed(s, a) ==
  LET gone  == Below(s, a)
      freed == UNION {s.areas[x].list : x \in gone}
  IN  [areas |-> Restrict(s.areas, DOMAIN s.areas \ gone),
       size  |-> Restrict(s.size, DOMAIN s.size \ freed)]

(* a_malloc, a_calloc, a_memdup *)
AllocIn(s, a, b, n) ==
  [areas |-> [s.areas EXCEPT ![a] = Added(@, b, n)],
   size  |-> [x \in DOMAIN s.size \cup {b} |-> IF x = b THEN n ELSE s.size[x]]]

(* real_realloc: out of the list, to a place c of n bytes, which may be b, *)
(* and into the list again; a_realloc and a_expand call it for a size that *)
(* is other, or larger.                                                    *)
ReallocIn(s, a, b, c, n) ==
  LET freed == Restrict(s.size, DOMAIN s.size \ {b})
  IN  [areas |-> [s.areas EXCEPT ![a] = Added(Removed(@, b, s.size[b]), c, n)],
       size  |-> [x \in DOMAIN freed \cup {c} |-> IF x = c THEN n ELSE freed[x]]]

(* _a_free *)
FreeIn(s, a, b) ==
  [areas |-> [s.areas EXCEPT ![a] = Removed(@, b, s.size[b])],
   size  |-> Restrict(s.size, DOMAIN s.size \ {b})]

(* Defect: the chunk is counted in its new area and stays in the old one. *)
RelinkCounted(s, op, np, b) ==
  [s EXCEPT !.areas[op].allocated = @ - s.size[b],
            !.areas[np].allocated = @ + s.size[b]]

(* area_relink, to another area.                                           *)
Relink(s, op, np, b) ==
  LET out == [s.areas EXCEPT ![op] = Removed(@, b, s.size[b])]
  IN  [s EXCEPT !.areas = [out EXCEPT ![np] = Added(@, b, s.size[b])]]

-----------------------------------------------------------------------------
(* Every chunk malloc gave is in the list of exactly one area, what areas  *)
(* list was not freed, and they count what they list.                      *)
Accounted ==
  /\ DOMAIN size = UNION {areas[a].list : a \in DOMAIN areas}
  /\ \A a, b \in DOMAIN areas : a # b => areas[a].list \cap areas[b].list = {}
  /\ \A a \in DOMAIN areas :
       areas[a].allocated = SumFunctionOnSet(size, areas[a].list)
=============================================================================
