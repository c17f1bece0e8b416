------------------------------- MODULE MCRooms -------------------------------
(* Rooms with another user and two rooms: "%11", whose name looks like an  *)
(* escape, and "0 ", one of whose channels is written without escapes.     *)
EXTENDS Rooms

MCRoom == {<<Percent, 5, 5>>, <<4, Space>>}

(* "#%0211", "#0%10" and "#0 " *)
MCChannel == {<<Hash, Percent, 4, 6, 5, 5>>, <<Hash, 4, Percent, 5, 4>>,
              <<Hash, 4, Space>>}
MCNewName == {<<Percent, 4, 6, 5, 5>>, <<4, Percent, 5, 4>>}
==============================================================================
