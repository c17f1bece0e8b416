----------------------------- MODULE Dictionary -----------------------------
(***************************************************************************)
(* What a table of nicks, rooms, users of a room or signals promises to    *)
(* those who add, find and delete by name.  A name that has both its       *)
(* hashes in common with another may be refused.                           *)
(***************************************************************************)
CONSTANTS Key, Arg, Collides(_, _)

VARIABLES
  dict,  \* what each name in the table stands for
  out    \* the name of the last call and the answer to it

vars == <<dict, out>>

Init == dict = <<>> /\ out = [ret |-> "HASH_OK"]

Add(k, a) ==
  \/ /\ k \in DOMAIN dict
     /\ out' = [of |-> k, ret |-> "HASH_DUP"]
     /\ UNCHANGED dict
  \/ /\ k \notin DOMAIN dict
     /\ \A x \in DOMAIN dict : ~Collides(k, x)
     /\ out' = [of |-> k, ret |-> "HASH_OK"]
     /\ dict' = [x \in DOMAIN dict \cup {k} |-> IF x = k THEN a ELSE dict[x]]
  \/ /\ k \notin DOMAIN dict
     /\ \E x \in DOMAIN dict : Collides(k, x)
     /\ out' = [of |-> k, ret |-> "HASH_ECOLL"]
     /\ UNCHANGED dict

Find(k) ==
  /\ out' = IF k \in DOMAIN dict
            THEN [of |-> k, ret |-> "HASH_OK", arg |-> dict[k]]
            ELSE [of |-> k, ret |-> "HASH_ENOTFOUND"]
  /\ UNCHANGED dict

Del(k) ==
  \/ /\ k \in DOMAIN dict
     /\ out' = [of |-> k, ret |-> "HASH_OK", arg |-> dict[k]]
     /\ dict' = [x \in DOMAIN dict \ {k} |-> dict[x]]
  \/ /\ k \notin DOMAIN dict
     /\ out' = [of |-> k, ret |-> "HASH_ENOTFOUND"]
     /\ UNCHANGED dict

Next == \E k \in Key : Find(k) \/ Del(k) \/ \E a \in Arg : Add(k, a)

Spec == Init /\ [][Next]_vars
==============================================================================
