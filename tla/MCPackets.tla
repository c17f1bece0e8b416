----------------------------- MODULE MCPackets -----------------------------
(* Texts of no, one, two, eight and nine bytes where a byte has eight      *)
(* values, so that counts of eight and nine come out as none and one.      *)
EXTENDS Packets, Bitwise

MCByte == 0..7
MCSources == {<< >>, <<1>>, <<2, 1>>, <<1, 2, 3>>}
Ones(n) == [i \in 1..n |-> 1 + (i % 3)]
MCWords == {<< >>, <<5>>, <<1, 2>>, Ones(8), Ones(9)}
MCNames == {<< >>, <<<<5>>>>, <<<<1, 2>>, <<5>>>>, <<<<5>>, << >>>>, <<<< >>, <<5>>>>}
MCKey == <<3, 1, 4, 1, 5, 3, 2, 6>>
MCStyle == <<0, 3>>
MCXor == [a \in MCByte, b \in MCByte |-> a ^^ b]
=============================================================================
