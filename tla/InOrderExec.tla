----------------------------- MODULE InOrderExec -----------------------------
(***************************************************************************)
(* What a session of irC6 promises about the commands of its IRC client:   *)
(* a command is executed at once or kept for later, the kept ones are      *)
(* executed first in, first out, none twice, and none is given up while    *)
(* the session lives.                                                      *)
(***************************************************************************)
EXTENDS Integers, Sequences

CONSTANT Command

VARIABLES
  pending,   \* commands accepted and not executed yet, oldest first
  done,      \* commands executed, oldest first
  alive      \* the session has not ended

vars == <<pending, done, alive>>

Init ==
  /\ pending = <<>>
  /\ done = <<>>
  /\ alive = TRUE

(* A command that cannot run yet is kept. *)
Accept(c) ==
  /\ alive
  /\ pending' = Append(pending, c)
  /\ UNCHANGED <<done, alive>>

(* A command overtakes nothing: it runs at once only if none is kept. *)
Run(c) ==
  /\ alive
  /\ pending = <<>>
  /\ done' = Append(done, c)
  /\ UNCHANGED <<pending, alive>>

(* All that was kept runs, oldest first. *)
Replay ==
  /\ alive
  /\ done' = done \o pending
  /\ pending' = <<>>
  /\ UNCHANGED alive

(* The session ends, possibly in the middle of a replay or of a command:   *)
(* what was kept and not executed is dropped.                              *)
End ==
  /\ alive
  /\ alive' = FALSE
  /\ pending' = <<>>
  /\ \/ \E n \in 0..Len(pending) : done' = done \o SubSeq(pending, 1, n)
     \/ \E c \in Command : pending = <<>> /\ done' = Append(done, c)

Next ==
  \/ \E c \in Command : Accept(c) \/ Run(c)
  \/ Replay
  \/ End

Spec == Init /\ [][Next]_vars
==============================================================================
