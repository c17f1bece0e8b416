------------------------------ MODULE MCMemory ------------------------------
(* Memory with three places for areas of atoms and a few for other chunks; *)
(* nothing tells places of a kind apart.                                   *)
EXTENDS Memory

MCNode == Nodes
MCBlock == Area \cup Piece \cup {"c", "table"}
PlaceSymmetry == Permutations(Area) \cup Permutations(Piece)
=============================================================================
