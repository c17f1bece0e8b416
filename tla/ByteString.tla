----------------------------- MODULE ByteString -----------------------------
(***************************************************************************)
(* What lib/buffer.c promises its callers: a string of bytes, or none at   *)
(* all, and calls each of which has one meaning that no memory, no         *)
(* capacity and no order of copying enters into.  What an edit leaves      *)
(* unsaid is zero.                                                         *)
(***************************************************************************)
EXTENDS Integers, Sequences

VARIABLES
    text,     \* the bytes
    live,     \* whether there is a string at all
    call      \* the last call and its arguments

vars == <<text, live, call>>

-----------------------------------------------------------------------------
Padded(s, n) == [i \in 1..n |-> IF i <= Len(s) THEN s[i] ELSE 0]

From(s, n) == SubSeq(s, n + 1, Len(s))

(* c.arg is the string given, c.at a place in the text, c.skip one in the  *)
(* string, and c.len how much of it is meant.  A string that ends before   *)
(* the place it is read from costs the text as much in front of c.at.      *)
Missing(c) == IF c.skip > Len(c.arg) THEN c.skip - Len(c.arg) ELSE 0

Meaning(s, c) ==
    CASE c.op = "new"    -> Padded(c.arg, c.len)
      [] c.op = "same"   -> s
      [] c.op = "resize" -> Padded(s, c.len)
      [] c.op = "append" -> s \o c.arg
      [] c.op = "insert" ->
            Padded(s, c.at) \o Padded(c.arg, c.len) \o From(s, c.at)
      [] c.op = "put"    ->
            Padded(s, c.at - Missing(c))
              \o Padded(From(c.arg, c.skip), c.len + Missing(c)) \o From(s, c.at + c.len)
      [] OTHER           -> << >>

Init ==
    /\ text = << >>
    /\ live = FALSE
    /\ call = [op |-> "free", arg |-> << >>, at |-> 0, skip |-> 0, len |-> 0]

Next ==
    /\ text' = Meaning(text, call')
    /\ live' = (call'.op # "free")

Spec == Init /\ [][Next]_vars
=============================================================================
