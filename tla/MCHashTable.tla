----------------------------- MODULE MCHashTable -----------------------------
(* HashTable with five names: four have the same first hash, and two of    *)
(* these the same second one.                                              *)
EXTENDS HashTable

MCFnvHash == [k \in Key |-> IF k = "e" THEN 11 ELSE 10]
MCOatHash == [k \in Key |-> CASE k = "a" -> 2 [] k = "d" -> 3 [] OTHER -> 1]

NodeSymmetry == Permutations(Node)
==============================================================================
