------------------------------ MODULE MCAnswers ------------------------------
(* Answers with two users, one room, and every line of at most four        *)
(* characters behind the command.                                          *)
EXTENDS Answers

MCNick == {<<"a">>, <<"a", "a">>}
MCRoom == {<<"#", "a">>}

Said(known) ==
  {l \in UNION {[1..n -> {" ", "a", "#"}] : n \in 1..4} :
     Words(l) # << >> /\ Range(Words(l)) \subseteq known}

MCLines ==
  {<<"WHOIS", " ">> \o l : l \in Said(MCNick)}
  \cup {<<"profilo", " ">> \o l : l \in Said(MCNick \cup MCRoom)}
==============================================================================
