----------------------------- MODULE MCPresence -----------------------------
(* The user with two nicks, which nothing tells apart. *)
EXTENDS Contacts, TLC

M(plus, letter) == [plus |-> plus, letter |-> letter]

(* Every letter with either sign, and two statuses in one command.         *)
MCModeArgs ==
  {<<M(plus, letter)>> : plus \in BOOLEAN, letter \in {"a", "n", "i"}}
  \cup {<<M(TRUE, "a"), M(TRUE, "n")>>}

NickSymmetry == Permutations(Nick)
==============================================================================
