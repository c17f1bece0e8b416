------------------------------ MODULE Presence ------------------------------
(***************************************************************************)
(* The nick list and what the IRC client sees of it in the channel &irC6:  *)
(* who is on the list is in the channel, and modes say who is there.       *)
(* c->nicks holds for every nick the status that the C6 server told last   *)
(* and whether the nick is ignored; modes are sent as changes, so they are *)
(* right only if every handler knows what the client was told before.      *)
(*                                                                         *)
(* External: the C6 server.  It answers a request by the nicks of it that  *)
(* are there, and reports the changes of a nick from the request until the *)
(* nick is taken off.                                                      *)
(***************************************************************************)
EXTENDS Naturals, Sequences, FiniteSets

CONSTANTS
  Nick,
  MaxRequests,  \* bound: commands of the client
  MaxChanges,   \* bound: changes of the nicks
  MaxSent       \* bound: packets of the server in flight

ASSUME PresenceAssumption == {MaxRequests, MaxChanges, MaxSent} \subseteq Nat

VARIABLES
  running,   \* the program has not followed a wild pointer
  nicks,     \* c->nicks: [nicks listed -> struct nicklist]
  view,      \* the IRC client's &irC6: [nicks in it -> their modes]
  c2s, s2c,  \* packets in flight
  watched,   \* the server's: nicks whose changes it reports,
  present,   \*   and what every nick is
  patient,   \* history: no nick was added while its last listing was on its way,
  plain,     \*   nor ignored or not, nor &irC6 joined again
  requests, changes  \* bounds' counts

clientVars == <<running, nicks, view>>
vars == <<clientVars, c2s, s2c, watched, present, patient, plain, requests, changes>>

(* STATUS_MASK: at most one of its bits is set. *)
Masks == {"available", "busy", "netfriends"}
NoMask == "none"

Listed == DOMAIN nicks

Init ==
  /\ running = TRUE
  /\ nicks = <<>>
  /\ view = <<>>
  /\ c2s = <<>>
  /\ s2c = <<>>
  /\ watched = {}
  /\ present \in [Nick -> {"offline", "available"}]
  /\ patient = TRUE
  /\ plain = TRUE
  /\ requests = 0
  /\ changes = 0

-----------------------------------------------------------------------------
(* Helpers *)

With(f, n, x) == [m \in DOMAIN f \cup {n} |-> IF m = n THEN x ELSE f[m]]
Less(f, n) == [m \in DOMAIN f \ {n} |-> f[m]]

(* Defect: the new entry is not cleared. *)
UnclearedNick == [online |-> FALSE, mask |-> "garbage", black_list |-> FALSE]

NewNick == [online |-> FALSE, mask |-> NoMask, black_list |-> FALSE]

ShownOp(nl) == nl.online /\ nl.mask \in {"available", NoMask}
ShownHalfop(nl) == nl.online /\ nl.mask \in {"busy", "netfriends"}

Modes(n, minus, plus) == view' = [view EXCEPT ![n] = (@ \ minus) \cup plus]

Command(packet, isPlain) ==
  /\ running
  /\ plain' = (plain /\ isPlain)
  /\ requests < MaxRequests
  /\ requests' = requests + 1
  /\ c2s' = c2s \o packet
  /\ UNCHANGED <<s2c, watched, present, changes>>

UsersReq(n) == <<[op |-> "users req", nick |-> n]>>
UsersDel(n) == <<[op |-> "users del", nick |-> n]>>

-----------------------------------------------------------------------------
(* Commands of the IRC client *)

(* Something of an earlier listing of the nick is on its way. *)
InFlight(n) ==
  \/ \E i \in 1..Len(c2s) : c2s[i] = Head(UsersDel(n))
  \/ \E i \in 1..Len(s2c) : s2c[i].type # "message" /\ n \in s2c[i].nicks

(* aggiungi, and ISON from the client's notify list *)
Add(n) ==
  /\ Command(UsersReq(n), TRUE)
  /\ patient' = (patient /\ ~InFlight(n))
  /\ \/ /\ n \notin Listed
        /\ nicks' = With(nicks, n, NewNick)
        /\ view' = With(view, n, {"v"})
     \/ /\ n \in Listed
        /\ UNCHANGED <<nicks, view>>
  /\ UNCHANGED running

(* Defect: the nick leaves the list and not the channel. *)
StayInChannel(n) == UNCHANGED view

LeaveChannel(n) == view' = Less(view, n)

Del(n) ==
  /\ Command(UsersDel(n), TRUE)
  /\ \/ /\ n \in Listed
        /\ nicks' = Less(nicks, n)
        /\ LeaveChannel(n)
     \/ /\ n \notin Listed
        /\ UNCHANGED <<nicks, view>>
  /\ UNCHANGED <<running, patient>>

(* c_ignore adds the nick if it has to, with no mode. *)
Ignore(n) ==
  /\ Command(UsersReq(n), FALSE)
  /\ patient' = (patient /\ ~InFlight(n))
  /\ LET new == n \notin Listed
         nl  == IF new THEN NewNick ELSE nicks[n]
         had == IF new THEN {} ELSE view[n]
         off == {"v"} \cup (IF ShownOp(nl) THEN {"o"} ELSE {})
                  \cup (IF ShownHalfop(nl) THEN {"h"} ELSE {})
     IN /\ nicks' = With(nicks, n, [nl EXCEPT !.black_list = TRUE])
        /\ view' = With(view, n, IF nl.black_list THEN had ELSE had \ off)
  /\ UNCHANGED running

(* c_unignore goes on with an uninitialized pointer for a nick that is not *)
(* listed: the program ends, or finds no black_list set where it points,   *)
(* or still has the entry of an earlier call on its stack.                 *)
Unignore(n) ==
  /\ Command(<<>>, FALSE)
  /\ \/ /\ n \notin Listed
        /\ running' \in BOOLEAN
        /\ \E stray \in SUBSET Listed :
             /\ Cardinality(stray) <= 1
             /\ nicks' = [m \in Listed |-> [nicks[m] EXCEPT
                            !.black_list = @ /\ m \notin stray]]
        /\ UNCHANGED view
     \/ /\ n \in Listed
        /\ LET nl == nicks[n] IN
             \/ /\ nl.black_list
                /\ Modes(n, {}, {"v"} \cup (IF ShownOp(nl) THEN {"o"} ELSE {})
                                  \cup (IF ShownHalfop(nl) THEN {"h"} ELSE {}))
             \/ /\ ~nl.black_list
                /\ UNCHANGED view
        /\ nicks' = [nicks EXCEPT ![n].black_list = FALSE]
        /\ UNCHANGED running
  /\ UNCHANGED patient

(* PART &irC6: irc_join_console names everybody on the list anew. *)
JoinConsole ==
  /\ Command(<<>>, FALSE)
  /\ view' = [n \in Listed |-> IF nicks[n].online THEN {"h"} ELSE {"v"}]
  /\ UNCHANGED <<running, nicks, patient>>

-----------------------------------------------------------------------------
(* The C6 server *)

Packet(type, ns, mask) == [type |-> type, nicks |-> ns, mask |-> mask]

ServerAnswer ==
  /\ c2s # <<>>
  /\ c2s' = Tail(c2s)
  /\ LET n == Head(c2s).nick IN
       \/ /\ Head(c2s).op = "users req"
          /\ Len(s2c) < MaxSent
          /\ watched' = watched \cup {n}
          /\ s2c' = Append(s2c, Packet("SEND_USERS",
                                       IF present[n] = "offline" THEN {} ELSE {n}, NoMask))
       \/ /\ Head(c2s).op = "users del"
          /\ watched' = watched \ {n}
          /\ UNCHANGED s2c
  /\ UNCHANGED <<clientVars, present, patient, plain, requests, changes>>

(* A nick comes, goes or changes its status. *)
NickChanges ==
  \E n \in Nick, state \in {"offline"} \cup Masks :
    /\ changes < MaxChanges
    /\ changes' = changes + 1
    /\ state # present[n]
    /\ present[n] = "offline" => state = "available"
    /\ present' = [present EXCEPT ![n] = state]
    /\ \/ n \notin watched /\ UNCHANGED s2c
       \/ /\ n \in watched
          /\ Len(s2c) < MaxSent
          /\ s2c' = Append(s2c,
               CASE state = "offline"      -> Packet("offline", {n}, NoMask)
                 [] present[n] = "offline" -> Packet("online", {n}, NoMask)
                 [] OTHER                  -> Packet("STATUS_USER_CHG", {n}, state))
    /\ UNCHANGED <<clientVars, c2s, watched, patient, plain, requests>>

-----------------------------------------------------------------------------
(* Packets for the session *)

Receive(type) ==
  /\ running
  /\ s2c # <<>>
  /\ Head(s2c).type = type
  /\ s2c' = Tail(s2c)
  /\ UNCHANGED <<running, c2s, watched, present, patient, plain, requests, changes>>

Known == IF s2c = <<>> THEN {} ELSE Head(s2c).nicks \cap Listed

(* A packet about a nick that is not listed is reported, and no more. *)
Unknown(type) == Receive(type) /\ Known = {} /\ UNCHANGED <<nicks, view>>

(* Defect: a nick that is known to be there is shown again. *)
AllShown(ns) == {n \in ns : ~nicks[n].black_list}

NewlyShown(ns) == {n \in ns : ~nicks[n].online /\ ~nicks[n].black_list}

(* irc_out_users *)
RecvUsers ==
  \/ Unknown("SEND_USERS")
  \/ /\ Receive("SEND_USERS")
     /\ Known # {}
     /\ view' = [n \in DOMAIN view |->
                  IF n \in NewlyShown(Known) THEN view[n] \cup {"o"} ELSE view[n]]
     /\ nicks' = [n \in Listed |->
                   IF n \in Known THEN [nicks[n] EXCEPT !.online = TRUE] ELSE nicks[n]]

RecvOnline ==
  \/ Unknown("online")
  \/ \E n \in Known :
       /\ Receive("online")
       /\ nicks' = [nicks EXCEPT ![n].online = TRUE]
       /\ \/ ~nicks[n].black_list /\ Modes(n, {}, {"o"})
          \/ nicks[n].black_list /\ UNCHANGED view

(* Defect: the bits of the status are left behind. *)
OfflineBits(nl) == [nl EXCEPT !.online = FALSE]

Offline(nl) == [nl EXCEPT !.online = FALSE, !.mask = NoMask]

RecvOffline ==
  \/ Unknown("offline")
  \/ \E n \in Known :
       /\ Receive("offline")
       /\ nicks' = [nicks EXCEPT ![n] = Offline(@)]
       /\ \/ /\ ~nicks[n].black_list
             /\ Modes(n, IF nicks[n].mask \in {"available", NoMask} THEN {"o"} ELSE {"h"}, {"v"})
          \/ /\ nicks[n].black_list
             /\ UNCHANGED view

(* Defect: only the bits of the mask are compared. *)
FromAvailable(old, new) == old = "available" /\ new # "available"

(* Its three conditions; who has no bit set counts as available here only. *)
Downgraded(old, new) == old \in {"available", NoMask} /\ new # "available"
Upgraded(old, new) == old \in {"busy", "netfriends"} /\ new = "available"

(* irc_out_user_chg_status, which does not look at black_list. *)
RecvChange ==
  \/ Unknown("STATUS_USER_CHG")
  \/ \E n \in Known :
       LET old == nicks[n].mask
           new == Head(s2c).mask
       IN /\ Receive("STATUS_USER_CHG")  \* with ONLINE set, as the server has it
          /\ nicks' = [nicks EXCEPT ![n].online = TRUE, ![n].mask = new]
          /\ \/ Downgraded(old, new) /\ Modes(n, {"o"}, {"h"})
             \/ Upgraded(old, new) /\ Modes(n, {"h"}, {"o"})
             \/ ~Downgraded(old, new) /\ ~Upgraded(old, new) /\ UNCHANGED view

Idle == (~running \/ (c2s = <<>> /\ s2c = <<>>)) /\ UNCHANGED vars

Next ==
  \/ \E n \in Nick : Add(n) \/ Del(n) \/ Ignore(n) \/ Unignore(n)
  \/ JoinConsole
  \/ ServerAnswer
  \/ NickChanges
  \/ RecvUsers
  \/ RecvOnline
  \/ RecvOffline
  \/ RecvChange
  \/ Idle

Spec == Init /\ [][Next]_vars

-----------------------------------------------------------------------------
(* Properties *)

(* Every variable has its type. *)
TypeOK ==
  /\ running \in BOOLEAN
  /\ nicks \in UNION {[N -> [online : BOOLEAN, mask : Masks \cup {NoMask},
                             black_list : BOOLEAN]] : N \in SUBSET Nick}
  /\ view \in UNION {[N -> SUBSET {"o", "h", "v"}] : N \in SUBSET Nick}
  /\ \A i \in 1..Len(c2s) : c2s[i].op \in {"users req", "users del"} => c2s[i].nick \in Nick
  /\ s2c \in Seq([type : {"SEND_USERS", "online", "offline", "STATUS_USER_CHG", "message"},
                  nicks : SUBSET Nick, mask : Masks \cup {NoMask}])
  /\ watched \subseteq Nick
  /\ present \in [Nick -> {"offline"} \cup Masks]
  /\ {patient, plain} \subseteq BOOLEAN
  /\ requests \in 0..MaxRequests
  /\ changes \in 0..MaxChanges

(* The nicks in &irC6 are those of the list, whatever is ignored, joined   *)
(* again, unknown or on its way.                                           *)
ListedIsShown == DOMAIN view = Listed

(* The changes of mode add up: in the channel, a nick that the session     *)
(* holds to be offline has a voice and nothing more; one held to be online *)
(* is an op or a half-op and never both; and one held to be busy or among  *)
(* friends only is a half-op.  (LEGGIMI:75-76: those online are half-ops,  *)
(* those offline have a voice; which of the two modes an available nick    *)
(* has is not said here.  A packet of a former listing, joining again and  *)
(* ignoring spoil this, each in its way.)                                  *)
ModesAddUp ==
  patient /\ plain => \A n \in Listed :
    /\ ~nicks[n].online => view[n] = {"v"}
    /\ nicks[n].online => ("h" \in view[n] <=> "o" \notin view[n])
    /\ ShownHalfop(nicks[n]) => "h" \in view[n]

(* With nothing on its way, every nick of the list has the status that the *)
(* server has for it, as far as the server has told it.                    *)
StatusIsServers ==
  patient /\ running /\ c2s = <<>> /\ s2c = <<>> =>
    \A n \in Listed :
      /\ nicks[n].online <=> present[n] # "offline"
      /\ nicks[n].mask \in {NoMask, present[n]}
==============================================================================
