------------------------------ MODULE ArgsSep -------------------------------
(***************************************************************************)
(* lib/args_sep.c: a line as its words.  The words are counted in one pass *)
(* and cut out with strsep in another, which goes on until it has as many  *)
(* as were counted; strsep yields an empty piece between two blanks.       *)
(***************************************************************************)
EXTENDS Naturals, Sequences, FiniteSets, SequencesExt

Blank == {" ", "\t", "\r", "\n"}

(* Defect: the first word does not end. *)
CountedOnce(n, in, c) ==
  [argc |-> IF in THEN n ELSE n + 1, in |-> in \/ c \notin Blank]

(* A word is counted at its first character. *)
Counted(n, in, c) ==
  IF c \in Blank THEN [argc |-> n, in |-> FALSE]
  ELSE [argc |-> IF in THEN n ELSE n + 1, in |-> TRUE]

Count(s, c) == Counted(s.argc, s.in, c)

Argc(str) == FoldLeft(Count, [argc |-> 0, in |-> FALSE], str).argc

(* What a character does to the pieces that calls of strsep give, one      *)
(* after the other, until it gives NULL.                                   *)
Cut(s, c) ==
  IF c \in Blank THEN [done |-> Append(s.done, s.last), last |-> << >>]
  ELSE [s EXCEPT !.last = Append(@, c)]

Pieces(str) ==
  LET cut == FoldLeft(Cut, [done |-> << >>, last |-> << >>], str)
  IN  Append(cut.done, cut.last)

(* The loop goes on at once where a piece is empty. *)
Kept(piece) == IF piece = << >> THEN << >> ELSE <<piece>>

NonEmpty(pieces) == FlattenSeq([i \in DOMAIN pieces |-> Kept(pieces[i])])

(* args_sep; without the words it counted it has an error and none.        *)
Args(str) ==
  LET words == NonEmpty(Pieces(str))
      argc  == Argc(str)
  IN  IF Len(words) < argc THEN << >> ELSE SubSeq(words, 1, argc)

-----------------------------------------------------------------------------
(* The words of a line, as a reader finds them: from every character of a  *)
(* word that follows none to the last before a blank or the end.           *)
InWord(str, i) == i \in DOMAIN str /\ str[i] \notin Blank

Starts(str) == {i \in DOMAIN str : InWord(str, i) /\ ~InWord(str, i - 1)}

Start(str, k) ==
  CHOOSE x \in Starts(str) : Cardinality({y \in Starts(str) : y < x}) = k - 1

End(str, i) ==
  CHOOSE j \in i..Len(str) : (\A k \in i..j : InWord(str, k)) /\ ~InWord(str, j + 1)

Words(str) ==
  [k \in 1..Cardinality(Starts(str)) |->
     SubSeq(str, Start(str, k), End(str, Start(str, k)))]
=============================================================================
