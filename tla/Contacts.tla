------------------------------ MODULE Contacts -------------------------------
(***************************************************************************)
(* The user among the nicks: the nick list (Presence), the user's own      *)
(* status (OwnStatus), and messages, which are dropped or answered by what *)
(* both hold at the moment they arrive.  Commands and answers go to the    *)
(* server in the order in which they were made.                            *)
(*                                                                         *)
(* External: the C6 server, which passes messages on and notes the status. *)
(***************************************************************************)
EXTENDS Presence, OwnStatus

VARIABLES
  told,     \* the server's: the status it was last told
  tactful   \* history: the server never got an automatic answer from a user
            \*   who was not busy, as far as it had been told

allVars == <<vars, ownVars, told, tactful>>

ContactsInit ==
  /\ Init
  /\ OwnInit
  /\ told = status
  /\ tactful = TRUE

(* A command changes the status, of which every packet it sends tells.     *)
ChangeStatus ==
  \E own \in Results :
    /\ Command(own.sent, TRUE)
    /\ Takes(own)
    /\ UNCHANGED <<clientVars, patient, told, tactful>>

(* Somebody, on the list or not, sends a message.                          *)
ServerMessage ==
  \E n \in Nick :
    /\ changes < MaxChanges
    /\ Len(s2c) < MaxSent
    /\ changes' = changes + 1
    /\ s2c' = Append(s2c, Packet("message", {n}, NoMask))
    /\ UNCHANGED <<clientVars, c2s, watched, present, patient, plain, requests,
                   ownVars, told, tactful>>

Dropped(n) == n \in Listed /\ nicks[n].black_list

(* irc_out_message: shown and, while there is a text of away, answered.    *)
RecvMessage ==
  /\ running
  /\ s2c # << >>
  /\ Head(s2c).type = "message"
  /\ s2c' = Tail(s2c)
  /\ LET n == CHOOSE x \in Head(s2c).nicks : TRUE IN
       IF Dropped(n) \/ away = NoText
         THEN UNCHANGED c2s
         ELSE c2s' = Append(c2s, [op |-> "message", nick |-> n])
  /\ UNCHANGED <<clientVars, watched, present, patient, plain, requests, changes,
                 ownVars, told, tactful>>

(* The server takes a packet that is not about the list.                   *)
ServerTakes ==
  /\ c2s # << >>
  /\ c2s' = Tail(c2s)
  /\ \/ /\ Head(c2s).op = "status"
        /\ told' = Head(c2s).bits
        /\ UNCHANGED tactful
     \/ /\ Head(c2s).op = "message"
        /\ tactful' = (tactful /\ "busy" \in told)
        /\ UNCHANGED told
  /\ UNCHANGED <<clientVars, s2c, watched, present, patient, plain, requests, changes, ownVars>>

ContactsNext ==
  \/ Next /\ UNCHANGED <<ownVars, told, tactful>>
  \/ ChangeStatus
  \/ ServerMessage
  \/ RecvMessage
  \/ ServerTakes

ContactsSpec == ContactsInit /\ [][ContactsNext]_allVars

-----------------------------------------------------------------------------
(* What the server will have been told when all on its way has arrived.    *)
ToldSoon ==
  FoldLeft(LAMBDA bits, p : IF p.op = "status" THEN p.bits ELSE bits, told, c2s)

(* The status is one, whatever letters and commands set it: a single bit   *)
(* of the mask, in the session as in every packet the server is sent, of   *)
(* which the last is always the session's; a text of away only while busy; *)
(* a user mode shown for whatever is set (more may be shown: +n does not   *)
(* take +a back); and nobody gets the automatic answer of a user who is,   *)
(* as far as the server was told before it, not busy.                      *)
OwnStatusAgrees ==
  /\ "online" \in status
  /\ \E bit \in StatusMask : status \cap StatusMask = {bit}
  /\ ToldSoon = status
  /\ away # NoText => "busy" \in status
  /\ "busy" \in status => "a" \in umodes
  /\ "netfriends" \in status => "n" \in umodes
  /\ "visible ip" \in status => "i" \notin umodes
  /\ tactful
=============================================================================
