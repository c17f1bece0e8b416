--------------------------- MODULE PresenceProofs ---------------------------
(***************************************************************************)
(* The user among the nicks (Contacts): the nick list and the channel that *)
(* shows it, messages, and the user's own status, for any nicks, any modes *)
(* and any number of commands, changes and packets in flight.              *)
(***************************************************************************)
EXTENDS Contacts, SequenceFacts

-----------------------------------------------------------------------------
(* The inductive invariant *)

ReqOf(n) == [op |-> "users req", nick |-> n]
DelOf(n) == [op |-> "users del", nick |-> n]

Listing == [op : {"users req", "users del"}, nick : Nick]
Answer  == [op : {"message"}, nick : Nick]
Telling == [op : {"status"}, bits : SUBSET Bits]
Request == Listing \cup Answer \cup Telling
Report  == [type : {"SEND_USERS", "online", "offline", "STATUS_USER_CHG", "message"},
            nicks : SUBSET Nick, mask : Masks \cup {NoMask}]
NickList == [online : BOOLEAN, mask : Masks \cup {NoMask}, black_list : BOOLEAN]

(* What the server sends: all but lists is about one nick, and changes are *)
(* of a status.                                                            *)
Proper(p) ==
  /\ p.type # "SEND_USERS" => \E m \in Nick : p.nicks = {m}
  /\ p.type = "STATUS_USER_CHG" => p.mask \in Masks

Streams ==
  /\ c2s \in Seq(Request)
  /\ \A i \in 1..Len(s2c) : Proper(s2c[i])

(* Offline clears the status. *)
MasksOnline == \A n \in Listed : ~nicks[n].online => nicks[n].mask = NoMask

(* Who is off the list is taken off at the server in the end.              *)
Leaving(n) ==
  /\ \A i \in 1..Len(c2s) : c2s[i] = ReqOf(n) =>
       \E j \in 1..Len(c2s) : j > i /\ c2s[j] = DelOf(n)
  /\ n \in watched => \E j \in 1..Len(c2s) : c2s[j] = DelOf(n)

(* Who is on the list stays there, or is asked for.                        *)
Staying(n) ==
  /\ \A i \in 1..Len(c2s) : c2s[i] # DelOf(n)
  /\ n \in watched \/ \E i \in 1..Len(c2s) : c2s[i] = ReqOf(n)

(* The status of a nick as the session holds it; a status that nobody told *)
(* is NoMask.                                                              *)
States == {"offline", NoMask} \cup Masks

Held(n) == IF nicks[n].online THEN nicks[n].mask ELSE "offline"

(* The packet tells what the nick is. *)
About(n, p) == p.type # "message" /\ n \in p.nicks

(* What was held as b before the packet is held as a behind it; a nick     *)
(* comes that was gone, and one that is there changes.                     *)
Follows(b, n, p, a) ==
  /\ ~About(n, p) => a = b
  /\ About(n, p) =>
       /\ p.type = "offline" => a = "offline"
       /\ p.type = "online" => b = "offline" /\ a = NoMask
       /\ p.type = "STATUS_USER_CHG" => b # "offline" /\ a = p.mask
       /\ p.type = "SEND_USERS" => a = IF b = "offline" THEN NoMask ELSE b

Agrees(b, state) == b = state \/ (b = NoMask /\ state # "offline")

(* Packet after packet, what is held of the nick becomes e.                *)
Leads(b, n, e) ==
  /\ b[1] = Held(n)
  /\ \A i \in 1..Len(s2c) : Follows(b[i], n, s2c[i], b[i + 1])
  /\ b[Len(s2c) + 1] = e

Reaches(n, e) == \E b \in [1..(Len(s2c) + 1) -> States] : Leads(b, n, e)

(* What is on its way makes what is held what the server has.              *)
Course(n) ==
  /\ n \in watched => \E e \in States : Reaches(n, e) /\ Agrees(e, present[n])
  /\ n \notin watched =>
       /\ Held(n) = "offline"
       /\ \A i \in 1..Len(s2c) : ~About(n, s2c[i])

Flow ==
  /\ \A n \in Nick \ Listed : Leaving(n)
  /\ patient => \A n \in Listed : Staying(n) /\ Course(n)

NoneIgnored == plain => \A n \in Listed : ~nicks[n].black_list

Types == TypeOK /\ Streams /\ ListedIsShown /\ MasksOnline

-----------------------------------------------------------------------------
(* Lemmas about the types *)

(* What the session holds and what the client sees, as functions.          *)
Lists ==
  /\ Listed \subseteq Nick
  /\ nicks \in [Listed -> NickList]
  /\ view \in [Listed -> SUBSET {"o", "h", "v"}]
  /\ MasksOnline

Rest ==
  /\ running \in BOOLEAN
  /\ c2s \in Seq(Request)
  /\ s2c \in Seq(Report)
  /\ \A i \in 1..Len(s2c) : Proper(s2c[i])
  /\ watched \subseteq Nick
  /\ present \in [Nick -> {"offline"} \cup Masks]
  /\ patient \in BOOLEAN
  /\ plain \in BOOLEAN
  /\ requests \in 0..MaxRequests
  /\ changes \in 0..MaxChanges

LEMMA TypesSplit == Types <=> Lists /\ Rest
<1>1. ASSUME Types PROVE Lists
  <2>1. PICK N \in SUBSET Nick : nicks \in [N -> NickList]
    BY <1>1 DEF Types, TypeOK, NickList
  <2>2. PICK M \in SUBSET Nick : view \in [M -> SUBSET {"o", "h", "v"}]
    BY <1>1 DEF Types, TypeOK
  <2>3. Listed = N /\ DOMAIN view = M
    BY <2>1, <2>2 DEF Listed
  <2>4. QED
    BY <1>1, <2>1, <2>2, <2>3 DEF Types, ListedIsShown, Lists
<1>2. ASSUME Types PROVE Rest
  BY <1>2 DEF Types, TypeOK, Streams, Rest, Report
<1>3. ASSUME Lists, Rest PROVE Types
  <2>1. DOMAIN view = Listed
    BY <1>3 DEF Lists
  <2>2. /\ nicks \in UNION {[N -> NickList] : N \in SUBSET Nick}
        /\ view \in UNION {[N -> SUBSET {"o", "h", "v"}] : N \in SUBSET Nick}
    BY <1>3 DEF Lists
  <2>3. \A i \in 1..Len(c2s) :
          c2s[i].op \in {"users req", "users del"} => c2s[i].nick \in Nick
    <3>1. \A i \in 1..Len(c2s) : c2s[i] \in Request
      BY <1>3, ElementOfSeq DEF Rest
    <3>2. QED
      BY <3>1 DEF Request, Listing, Answer, Telling
  <2>4. TypeOK
    BY <1>3, <2>2, <2>3 DEF Rest, TypeOK, NickList, Report
  <2>5. QED
    BY <1>3, <2>1, <2>4 DEF Lists, Rest, Types, Streams, ListedIsShown
<1>4. QED
  BY <1>1, <1>2, <1>3

(* A request goes to the end of the stream.                                *)
LEMMA OneMore ==
  ASSUME NEW S, NEW s \in Seq(S), NEW e \in S
  PROVE  /\ s \o <<e>> \in Seq(S)
         /\ Len(s \o <<e>>) = Len(s) + 1
         /\ \A i \in 1..Len(s) : (s \o <<e>>)[i] = s[i]
         /\ (s \o <<e>>)[Len(s) + 1] = e
         /\ Len(s) \in Nat
<1>1. <<e>> \in Seq(S) /\ Len(<<e>>) = 1 /\ <<e>>[1] = e
  OBVIOUS
<1>2. Len(s) \in Nat
  BY LenProperties
<1>3. /\ s \o <<e>> \in Seq(S)
      /\ Len(s \o <<e>>) = Len(s) + Len(<<e>>)
      /\ \A i \in 1..(Len(s) + Len(<<e>>)) : (s \o <<e>>)[i] =
            IF i <= Len(s) THEN s[i] ELSE <<e>>[i - Len(s)]
  BY <1>1, ConcatProperties
<1>4. QED
  BY <1>1, <1>2, <1>3

LEMMA Requests ==
  ASSUME NEW n \in Nick
  PROVE  /\ UsersReq(n) = <<ReqOf(n)>> /\ UsersDel(n) = <<DelOf(n)>>
         /\ ReqOf(n) \in Request /\ DelOf(n) \in Request
         /\ ReqOf(n) # DelOf(n)
         /\ Head(UsersDel(n)) = DelOf(n)
<1>1. ReqOf(n).op # DelOf(n).op
  BY DEF ReqOf, DelOf
<1>2. Head(<<DelOf(n)>>) = DelOf(n)
  OBVIOUS
<1>3. QED
  BY <1>1, <1>2 DEF UsersReq, UsersDel, ReqOf, DelOf, Request, Listing
-----------------------------------------------------------------------------
(* Every step keeps the types *)

LEMMA InitTypes == ASSUME PresenceAssumption, Init PROVE Types
<1>1. Listed = {}
  BY DEF Init, Listed
<1>2. Lists
  BY <1>1 DEF Init, Lists, MasksOnline
<1>3. <<>> \in Seq(Request) /\ <<>> \in Seq(Report) /\ Len(<<>>) = 0
  BY EmptySeq
<1>4. Rest
  BY <1>3 DEF Init, Rest, PresenceAssumption, Masks
<1>5. QED
  BY <1>2, <1>4, TypesSplit

LEMMA TypesAgain == Lists' /\ Rest' <=> Types'
  BY TypesSplit, PTL

(* What every command does to the streams.                                 *)
LEMMA CommandTypes ==
  ASSUME PresenceAssumption, Types, NEW packet, NEW isPlain \in BOOLEAN,
         Command(packet, isPlain), c2s \o packet \in Seq(Request),
         running' \in BOOLEAN, patient' \in BOOLEAN
  PROVE  Rest'
<1>1. Rest
  BY TypesSplit
<1>2. requests' \in 0..MaxRequests
  BY <1>1 DEF Rest, Command, PresenceAssumption
<1>3. QED
  BY <1>1, <1>2 DEF Rest, Command

LEMMA RequestTypes ==
  ASSUME Types, NEW n \in Nick
  PROVE  c2s \o UsersReq(n) \in Seq(Request) /\ c2s \o UsersDel(n) \in Seq(Request)
<1>1. c2s \in Seq(Request)
  BY DEF Types, Streams
<1>2. QED
  BY <1>1, Requests, OneMore

LEMMA AddTypes ==
  ASSUME PresenceAssumption, Types, NEW n \in Nick, Add(n)
  PROVE  Types'
<1>1. Lists /\ Rest
  BY TypesSplit
<1>2. Rest'
  <2>1. patient' \in BOOLEAN /\ running' \in BOOLEAN
    BY <1>1 DEF Add, Rest
  <2>2. QED
    BY <2>1, CommandTypes, RequestTypes DEF Add
<1>3. CASE n \notin Listed
  <2>1. nicks' = With(nicks, n, NewNick) /\ view' = With(view, n, {"v"})
    BY <1>3 DEF Add
  <2>2. NewNick \in NickList
    BY DEF NewNick, NickList
  <2>3. nicks' \in [Listed \cup {n} -> NickList] /\ Listed' = Listed \cup {n}
    BY <1>1, <2>1, <2>2 DEF Lists, With, Listed
  <2>4. view' \in [Listed' -> SUBSET {"o", "h", "v"}]
    BY <1>1, <2>1, <2>3 DEF Lists, With
  <2>5. MasksOnline'
    BY <1>1, <2>1, <2>3 DEF Lists, MasksOnline, With, NewNick, Listed
  <2>6. Lists'
    BY <1>1, <2>3, <2>4, <2>5 DEF Lists
  <2>7. QED
    BY <1>2, <2>6, TypesAgain
<1>4. CASE n \in Listed
  <2>1. UNCHANGED <<nicks, view>>
    BY <1>4 DEF Add
  <2>2. Lists'
    BY <1>1, <2>1 DEF Lists, MasksOnline, Listed
  <2>3. QED
    BY <1>2, <2>2, TypesAgain
<1>5. QED
  BY <1>3, <1>4

LEMMA DelTypes ==
  ASSUME PresenceAssumption, Types, NEW n \in Nick, Del(n)
  PROVE  Types'
<1>1. Lists /\ Rest
  BY TypesSplit
<1>2. Rest'
  <2>1. patient' \in BOOLEAN /\ running' \in BOOLEAN
    BY <1>1 DEF Del, Rest
  <2>2. QED
    BY <2>1, CommandTypes, RequestTypes DEF Del
<1>3. CASE n \in Listed
  <2>1. nicks' = Less(nicks, n) /\ view' = Less(view, n)
    BY <1>3 DEF Del, LeaveChannel
  <2>2. /\ Listed' = Listed \ {n}
        /\ nicks' \in [Listed' -> NickList]
        /\ \A m \in Listed' : nicks'[m] = nicks[m]
    BY <1>1, <2>1 DEF Lists, Less, Listed
  <2>3. view' \in [Listed' -> SUBSET {"o", "h", "v"}]
    BY <1>1, <2>1, <2>2 DEF Lists, Less
  <2>4. Lists'
    BY <1>1, <2>2, <2>3 DEF Lists, MasksOnline
  <2>5. QED
    BY <1>2, <2>4, TypesAgain
<1>4. CASE n \notin Listed
  <2>1. UNCHANGED <<nicks, view>>
    BY <1>4 DEF Del
  <2>2. Lists'
    BY <1>1, <2>1 DEF Lists, MasksOnline, Listed
  <2>3. QED
    BY <1>2, <2>2, TypesAgain
<1>5. QED
  BY <1>3, <1>4

LEMMA IgnoreTypes ==
  ASSUME PresenceAssumption, Types, NEW n \in Nick, Ignore(n)
  PROVE  Types'
<1>1. Lists /\ Rest
  BY TypesSplit
<1>2. Rest'
  <2>1. patient' \in BOOLEAN /\ running' \in BOOLEAN
    BY <1>1 DEF Ignore, Rest
  <2>2. QED
    BY <2>1, CommandTypes, RequestTypes DEF Ignore
<1> DEFINE nl  == IF n \notin Listed THEN NewNick ELSE nicks[n]
           had == IF n \notin Listed THEN {} ELSE view[n]
<1>3. PICK off : /\ nicks' = With(nicks, n, [nl EXCEPT !.black_list = TRUE])
                 /\ view' = With(view, n, IF nl.black_list THEN had ELSE had \ off)
  BY DEF Ignore
<1>4. /\ nl \in NickList /\ (~nl.online => nl.mask = NoMask)
      /\ had \subseteq {"o", "h", "v"}
  BY <1>1 DEF Lists, MasksOnline, NewNick, NickList
<1> HIDE DEF nl, had
<1>5. /\ [nl EXCEPT !.black_list = TRUE] \in NickList
      /\ [nl EXCEPT !.black_list = TRUE].online = nl.online
      /\ [nl EXCEPT !.black_list = TRUE].mask = nl.mask
  BY <1>4 DEF NickList
<1>6. /\ Listed' = Listed \cup {n}
      /\ nicks' \in [Listed' -> NickList]
  BY <1>1, <1>3, <1>5 DEF Lists, With, Listed
<1>7. view' \in [Listed' -> SUBSET {"o", "h", "v"}]
  BY <1>1, <1>3, <1>4, <1>6 DEF Lists, With
<1>8. MasksOnline'
  BY <1>1, <1>3, <1>4, <1>5, <1>6 DEF Lists, MasksOnline, With, Listed
<1>9. Lists'
  BY <1>1, <1>6, <1>7, <1>8 DEF Lists
<1>10. QED
  BY <1>2, <1>9, TypesAgain

(* A step that changes what is held of one nick. *)
LEMMA OneChanges ==
  ASSUME Lists, NEW n \in Listed, NEW r \in NickList, ~r.online => r.mask = NoMask,
         nicks' = [nicks EXCEPT ![n] = r],
         view' \in [Listed -> SUBSET {"o", "h", "v"}]
  PROVE  Lists' /\ Listed' = Listed
<1>1. Listed' = Listed /\ nicks' \in [Listed -> NickList]
  BY DEF Lists, Listed
<1>2. MasksOnline'
  BY <1>1 DEF Lists, MasksOnline, Listed
<1>3. QED
  BY <1>1, <1>2 DEF Lists

LEMMA ModesType ==
  ASSUME Lists, NEW n, NEW minus, NEW plus \in SUBSET {"o", "h", "v"},
         Modes(n, minus, plus)
  PROVE  view' \in [Listed -> SUBSET {"o", "h", "v"}]
  BY DEF Lists, Modes

LEMMA UnignoreTypes ==
  ASSUME PresenceAssumption, Types, NEW n \in Nick, Unignore(n)
  PROVE  Types'
<1>1. Lists /\ Rest
  BY TypesSplit
<1>2. Rest'
  <2>1. patient' \in BOOLEAN /\ running' \in BOOLEAN
    BY <1>1 DEF Unignore, Rest
  <2>2. c2s \o <<>> \in Seq(Request)
    BY <1>1, EmptySeq, ConcatProperties DEF Rest
  <2>3. QED
    BY <2>1, <2>2, CommandTypes DEF Unignore
<1>3. CASE n \notin Listed
  <2>1. PICK stray \in SUBSET Listed :
          nicks' = [m \in Listed |-> [nicks[m] EXCEPT
                      !.black_list = @ /\ m \notin stray]]
    BY <1>3 DEF Unignore
  <2>2. view' = view
    BY <1>3 DEF Unignore
  <2>3. ASSUME NEW m \in Listed
        PROVE  /\ nicks'[m] \in NickList
               /\ nicks'[m].online = nicks[m].online
               /\ nicks'[m].mask = nicks[m].mask
    <3>1. nicks[m] \in NickList /\ (nicks[m].black_list /\ m \notin stray) \in BOOLEAN
      BY <1>1 DEF Lists
    <3>2. nicks'[m] = [nicks[m] EXCEPT !.black_list = @ /\ m \notin stray]
      BY <2>1
    <3>3. QED
      BY <3>1, <3>2 DEF NickList
  <2>4. Listed' = Listed
    BY <2>1 DEF Listed
  <2>5. nicks' \in [Listed -> NickList]
    BY <2>1, <2>3
  <2>6. MasksOnline'
    BY <1>1, <2>3, <2>4 DEF Lists, MasksOnline
  <2>7. Lists'
    BY <1>1, <2>2, <2>4, <2>5, <2>6 DEF Lists
  <2>8. QED
    BY <1>2, <2>7, TypesAgain
<1>4. CASE n \in Listed
  <2>1. nicks' = [nicks EXCEPT ![n] = [nicks[n] EXCEPT !.black_list = FALSE]]
    BY <1>4 DEF Unignore
  <2>2. nicks[n] \in NickList
    BY <1>1, <1>4 DEF Lists
  <2>3. /\ [nicks[n] EXCEPT !.black_list = FALSE] \in NickList
        /\ [nicks[n] EXCEPT !.black_list = FALSE].online = nicks[n].online
        /\ [nicks[n] EXCEPT !.black_list = FALSE].mask = nicks[n].mask
    BY <2>2 DEF NickList
  <2>4. view' \in [Listed -> SUBSET {"o", "h", "v"}]
    <3>1. CASE nicks[n].black_list
      BY <1>1, <1>4, <3>1, ModesType DEF Unignore
    <3>2. CASE ~nicks[n].black_list
      BY <1>1, <1>4, <3>2 DEF Unignore, Lists
    <3>3. QED
      BY <3>1, <3>2
  <2>5. Lists'
    BY <1>1, <1>4, <2>1, <2>3, <2>4, OneChanges DEF Lists, MasksOnline
  <2>6. QED
    BY <1>2, <2>5, TypesAgain
<1>5. QED
  BY <1>3, <1>4

LEMMA JoinConsoleTypes ==
  ASSUME PresenceAssumption, Types, JoinConsole
  PROVE  Types'
<1>1. Lists /\ Rest
  BY TypesSplit
<1>2. Rest'
  <2>1. patient' \in BOOLEAN /\ running' \in BOOLEAN
    BY <1>1 DEF JoinConsole, Rest
  <2>2. c2s \o <<>> \in Seq(Request)
    BY <1>1, EmptySeq, ConcatProperties DEF Rest
  <2>3. QED
    BY <2>1, <2>2, CommandTypes DEF JoinConsole
<1>3. Lists'
  BY <1>1 DEF JoinConsole, Lists, MasksOnline, Listed
<1>4. QED
  BY <1>2, <1>3, TypesAgain

LEMMA SameLists ==
  ASSUME Lists, UNCHANGED <<nicks, view>>
  PROVE  Lists'
  BY DEF Lists, MasksOnline, Listed

(* A packet at the end of the stream. *)
LEMMA ReportTypes ==
  ASSUME Types, NEW p \in Report, Proper(p), s2c' = Append(s2c, p)
  PROVE  s2c' \in Seq(Report) /\ \A i \in 1..Len(s2c') : Proper(s2c'[i])
<1>1. s2c \in Seq(Report) /\ \A i \in 1..Len(s2c) : Proper(s2c[i])
  BY TypesSplit DEF Rest
<1>2. /\ s2c' \in Seq(Report) /\ Len(s2c') = Len(s2c) + 1
      /\ \A i \in 1..Len(s2c) : s2c'[i] = s2c[i]
      /\ s2c'[Len(s2c) + 1] = p
  BY <1>1, AppendProperties
<1>3. Len(s2c) \in Nat
  BY <1>1, LenProperties
<1>4. QED
  BY <1>1, <1>2, <1>3

LEMMA AnswerTypes ==
  ASSUME PresenceAssumption, Types, ServerAnswer
  PROVE  Types'
<1>1. Lists /\ Rest
  BY TypesSplit
<1>2. Lists'
  BY <1>1, SameLists DEF ServerAnswer, clientVars
<1>3. Head(c2s) \in Request /\ c2s' \in Seq(Request)
  BY <1>1, HeadTailProperties DEF Rest, ServerAnswer
<1>4. Head(c2s).nick \in Nick
  BY <1>3 DEF Request, Listing, Answer, Telling, ServerAnswer
<1> DEFINE n == Head(c2s).nick
<1>5. s2c' \in Seq(Report) /\ \A i \in 1..Len(s2c') : Proper(s2c'[i])
  <2>1. CASE Head(c2s).op = "users req"
    <3> DEFINE p == Packet("SEND_USERS", IF present[n] = "offline" THEN {} ELSE {n}, NoMask)
    <3>1. s2c' = Append(s2c, p)
      BY <2>1 DEF ServerAnswer
    <3>2. p \in Report /\ Proper(p)
      BY <1>4 DEF Packet, Report, Proper
    <3>3. QED
      BY <3>1, <3>2, ReportTypes
  <2>2. CASE Head(c2s).op # "users req"
    BY <1>1, <2>2 DEF ServerAnswer, Rest
  <2>3. QED
    BY <2>1, <2>2
<1>6. watched' \subseteq Nick
  BY <1>1, <1>4 DEF ServerAnswer, Rest
<1>7. Rest'
  BY <1>1, <1>3, <1>5, <1>6 DEF Rest, ServerAnswer, clientVars
<1>8. QED
  BY <1>2, <1>7, TypesAgain

LEMMA NickChangesTypes ==
  ASSUME PresenceAssumption, Types, NickChanges
  PROVE  Types'
<1>1. Lists /\ Rest
  BY TypesSplit
<1>2. Lists'
  BY <1>1, SameLists DEF NickChanges, clientVars
<1>3. PICK n \in Nick, state \in {"offline"} \cup Masks :
        /\ changes < MaxChanges
        /\ changes' = changes + 1
        /\ present' = [present EXCEPT ![n] = state]
        /\ \/ n \notin watched /\ UNCHANGED s2c
           \/ s2c' = Append(s2c,
                CASE state = "offline"      -> Packet("offline", {n}, NoMask)
                  [] present[n] = "offline" -> Packet("online", {n}, NoMask)
                  [] OTHER                  -> Packet("STATUS_USER_CHG", {n}, state))
        /\ UNCHANGED <<clientVars, c2s, watched, patient, plain, requests>>
  BY DEF NickChanges
<1>4. s2c' \in Seq(Report) /\ \A i \in 1..Len(s2c') : Proper(s2c'[i])
  <2>1. CASE UNCHANGED s2c
    BY <1>1, <2>1 DEF Rest
  <2>2. ASSUME NEW p \in Report, Proper(p), s2c' = Append(s2c, p)
        PROVE  s2c' \in Seq(Report) /\ \A i \in 1..Len(s2c') : Proper(s2c'[i])
    BY <2>2, ReportTypes
  <2>3. /\ Packet("offline", {n}, NoMask) \in Report
        /\ Proper(Packet("offline", {n}, NoMask))
        /\ Packet("online", {n}, NoMask) \in Report
        /\ Proper(Packet("online", {n}, NoMask))
    BY DEF Packet, Report, Proper
  <2>4. state # "offline" => /\ Packet("STATUS_USER_CHG", {n}, state) \in Report
                             /\ Proper(Packet("STATUS_USER_CHG", {n}, state))
    BY DEF Packet, Report, Proper
  <2>5. QED
    BY <1>3, <2>1, <2>2, <2>3, <2>4
<1>5. changes' \in 0..MaxChanges
  BY <1>1, <1>3 DEF Rest, PresenceAssumption
<1>6. present' \in [Nick -> {"offline"} \cup Masks]
  BY <1>1, <1>3 DEF Rest
<1>7. Rest'
  BY <1>1, <1>3, <1>4, <1>5, <1>6 DEF Rest, clientVars
<1>8. QED
  BY <1>2, <1>7, TypesAgain

(* The first packet is taken. *)
Taken == s2c # << >> /\ s2c' = Tail(s2c)

LEMMA TakenTypes ==
  ASSUME Types, Taken
  PROVE  /\ s2c \in Seq(Report) /\ s2c' \in Seq(Report)
         /\ Head(s2c) \in Report /\ Proper(Head(s2c)) /\ Head(s2c) = s2c[1]
         /\ Len(s2c) \in Nat \ {0} /\ Len(s2c') = Len(s2c) - 1
         /\ \A i \in 1..Len(s2c') : s2c'[i] = s2c[i + 1] /\ Proper(s2c'[i])
<1>1. /\ s2c \in Seq(Report) /\ s2c # <<>> /\ s2c' = Tail(s2c)
      /\ \A i \in 1..Len(s2c) : Proper(s2c[i])
  BY TypesSplit DEF Rest, Taken
<1>2. /\ Head(s2c) \in Report /\ s2c' \in Seq(Report)
      /\ Len(s2c') = Len(s2c) - 1
      /\ \A i \in 1..Len(s2c') : s2c'[i] = s2c[i + 1]
  BY <1>1, HeadTailProperties
<1>3. Len(s2c) \in Nat \ {0}
  BY <1>1, EmptySeq
<1>4. Head(s2c) = s2c[1] /\ Proper(Head(s2c))
  BY <1>1, <1>3
<1>5. \A i \in 1..Len(s2c') : Proper(s2c'[i])
  BY <1>1, <1>2, <1>3
<1>6. QED
  BY <1>1, <1>2, <1>3, <1>4, <1>5

(* What every reception does to the streams. *)
LEMMA ReceiveTypes ==
  ASSUME Types, NEW type, Receive(type)
  PROVE  Rest' /\ Taken
<1>1. Rest
  BY TypesSplit
<1>2. Taken
  BY DEF Receive, Taken
<1>3. s2c' \in Seq(Report) /\ \A i \in 1..Len(s2c') : Proper(s2c'[i])
  BY <1>2, TakenTypes
<1>4. QED
  BY <1>1, <1>2, <1>3 DEF Rest, Receive

LEMMA UnknownTypes ==
  ASSUME Types, NEW type, Unknown(type)
  PROVE  Types'
<1>1. Rest'
  BY ReceiveTypes DEF Unknown
<1>2. Lists'
  BY TypesSplit, SameLists DEF Unknown
<1>3. QED
  BY <1>1, <1>2, TypesAgain

LEMMA UsersTypes ==
  ASSUME Types, RecvUsers
  PROVE  Types'
<1>1. CASE Unknown("SEND_USERS")
  BY <1>1, UnknownTypes
<1>2. CASE ~Unknown("SEND_USERS")
  <2>1. /\ Receive("SEND_USERS")
        /\ view' = [n \in DOMAIN view |->
             IF n \in NewlyShown(Known) THEN view[n] \cup {"o"} ELSE view[n]]
        /\ nicks' = [n \in Listed |->
             IF n \in Known THEN [nicks[n] EXCEPT !.online = TRUE] ELSE nicks[n]]
    BY <1>2 DEF RecvUsers
  <2>2. Rest' /\ Lists
    BY <2>1, ReceiveTypes, TypesSplit
  <2>3. Listed' = Listed
    BY <2>1 DEF Listed
  <2>4. view' \in [Listed -> SUBSET {"o", "h", "v"}]
    BY <2>1, <2>2 DEF Lists
  <2>5. ASSUME NEW n \in Listed
        PROVE  /\ nicks'[n] \in NickList
               /\ ~nicks'[n].online => nicks'[n].mask = NoMask
    <3>1. nicks[n] \in NickList /\ (~nicks[n].online => nicks[n].mask = NoMask)
      BY <2>2 DEF Lists, MasksOnline
    <3>2. nicks'[n] = [nicks[n] EXCEPT !.online = TRUE] \/ nicks'[n] = nicks[n]
      BY <2>1
    <3>3. /\ [nicks[n] EXCEPT !.online = TRUE] \in NickList
          /\ [nicks[n] EXCEPT !.online = TRUE].online = TRUE
      BY <3>1 DEF NickList
    <3>4. QED
      BY <3>1, <3>2, <3>3
  <2>6. nicks' \in [Listed -> NickList]
    BY <2>1, <2>5
  <2>7. Lists'
    BY <2>2, <2>3, <2>4, <2>5, <2>6 DEF Lists, MasksOnline
  <2>8. QED
    BY <2>2, <2>7, TypesAgain
<1>3. QED
  BY <1>1, <1>2

LEMMA OnlineTypes ==
  ASSUME Types, RecvOnline
  PROVE  Types'
<1>1. CASE Unknown("online")
  BY <1>1, UnknownTypes
<1>2. CASE ~Unknown("online")
  <2>1. PICK n \in Known :
          /\ Receive("online")
          /\ nicks' = [nicks EXCEPT ![n].online = TRUE]
          /\ \/ Modes(n, {}, {"o"})
             \/ UNCHANGED view
    BY <1>2 DEF RecvOnline
  <2>2. Rest' /\ Lists /\ n \in Listed
    BY <2>1, ReceiveTypes, TypesSplit DEF Known
  <2>3. view' \in [Listed -> SUBSET {"o", "h", "v"}]
    BY <2>1, <2>2, ModesType DEF Lists
  <2>4. /\ [nicks[n] EXCEPT !.online = TRUE] \in NickList
        /\ [nicks[n] EXCEPT !.online = TRUE].online = TRUE
    BY <2>2 DEF Lists, NickList
  <2>5. nicks' = [nicks EXCEPT ![n] = [nicks[n] EXCEPT !.online = TRUE]]
    BY <2>1
  <2>6. Lists'
    BY <2>2, <2>3, <2>4, <2>5, OneChanges
  <2>7. QED
    BY <2>2, <2>6, TypesAgain
<1>3. QED
  BY <1>1, <1>2

LEMMA OfflineTypes ==
  ASSUME Types, RecvOffline
  PROVE  Types'
<1>1. CASE Unknown("offline")
  BY <1>1, UnknownTypes
<1>2. CASE ~Unknown("offline")
  <2>1. PICK n \in Known :
          /\ Receive("offline")
          /\ nicks' = [nicks EXCEPT ![n] = Offline(@)]
          /\ \/ Modes(n, IF nicks[n].mask \in {"available", NoMask} THEN {"o"} ELSE {"h"}, {"v"})
             \/ UNCHANGED view
    BY <1>2 DEF RecvOffline
  <2>2. Rest' /\ Lists /\ n \in Listed
    BY <2>1, ReceiveTypes, TypesSplit DEF Known
  <2>3. view' \in [Listed -> SUBSET {"o", "h", "v"}]
    BY <2>1, <2>2, ModesType DEF Lists
  <2>4. /\ Offline(nicks[n]) \in NickList
        /\ Offline(nicks[n]).mask = NoMask
    BY <2>2 DEF Lists, NickList, Offline
  <2>5. nicks' = [nicks EXCEPT ![n] = Offline(nicks[n])]
    BY <2>1
  <2>6. Lists'
    BY <2>2, <2>3, <2>4, <2>5, OneChanges
  <2>7. QED
    BY <2>2, <2>6, TypesAgain
<1>3. QED
  BY <1>1, <1>2

LEMMA ChangeTypes ==
  ASSUME Types, RecvChange
  PROVE  Types'
<1>1. CASE Unknown("STATUS_USER_CHG")
  BY <1>1, UnknownTypes
<1>2. CASE ~Unknown("STATUS_USER_CHG")
  <2>1. PICK n \in Known :
          /\ Receive("STATUS_USER_CHG")
          /\ nicks' = [nicks EXCEPT ![n].online = TRUE, ![n].mask = Head(s2c).mask]
          /\ \/ Modes(n, {"o"}, {"h"})
             \/ Modes(n, {"h"}, {"o"})
             \/ UNCHANGED view
    BY <1>2 DEF RecvChange
  <2>2. Rest' /\ Lists /\ n \in Listed /\ Head(s2c).mask \in Masks \cup {NoMask}
    BY <2>1, ReceiveTypes, TakenTypes, TypesSplit DEF Known, Report
  <2>3. view' \in [Listed -> SUBSET {"o", "h", "v"}]
    BY <2>1, <2>2, ModesType DEF Lists
  <2> DEFINE r == [nicks[n] EXCEPT !.online = TRUE, !.mask = Head(s2c).mask]
  <2>4. r \in NickList /\ r.online = TRUE
    BY <2>2 DEF Lists, NickList
  <2>5. nicks' = [nicks EXCEPT ![n] = r]
    BY <2>1, <2>2 DEF Lists
  <2> HIDE DEF r
  <2>6. Lists'
    BY <2>2, <2>3, <2>4, <2>5, OneChanges
  <2>7. QED
    BY <2>2, <2>6, TypesAgain
<1>3. QED
  BY <1>1, <1>2

LEMMA StutterTypes ==
  ASSUME Types, UNCHANGED vars
  PROVE  Types'
<1>1. Lists /\ Rest
  BY TypesSplit
<1>2. Lists' /\ Rest'
  BY <1>1, SameLists DEF vars, clientVars, Rest
<1>3. QED
  BY <1>2, TypesAgain

LEMMA NextTypes ==
  ASSUME PresenceAssumption, Types, [Next]_vars
  PROVE  Types'
<1>1. ASSUME NEW n \in Nick, Add(n) \/ Del(n) \/ Ignore(n) \/ Unignore(n)
      PROVE  Types'
  BY <1>1, AddTypes, DelTypes, IgnoreTypes, UnignoreTypes
<1>2. QED
  BY <1>1, JoinConsoleTypes, AnswerTypes, NickChangesTypes, UsersTypes, OnlineTypes,
     OfflineTypes, ChangeTypes, StutterTypes DEF Next, Idle

-----------------------------------------------------------------------------
(* Lemmas about what is under way *)

LEMMA HeldType ==
  ASSUME Types, NEW n \in Listed
  PROVE  /\ Held(n) \in States
         /\ n \in Nick
         /\ nicks[n].online \in BOOLEAN
         /\ nicks[n].mask \in Masks \cup {NoMask}
<1>1. nicks[n] \in NickList /\ n \in Nick
  BY TypesSplit DEF Lists
<1>2. QED
  BY <1>1 DEF NickList, Held, States

LEMMA StreamTypes ==
  ASSUME Types
  PROVE  /\ c2s \in Seq(Request) /\ Len(c2s) \in Nat
         /\ s2c \in Seq(Report) /\ Len(s2c) \in Nat
         /\ \A i \in 1..Len(s2c) : Proper(s2c[i])
         /\ present \in [Nick -> {"offline"} \cup Masks]
         /\ watched \subseteq Nick
<1>1. Rest
  BY TypesSplit
<1>2. QED
  BY <1>1, LenProperties DEF Rest

LEMMA LeavingOn ==
  ASSUME Types, NEW n \in Nick, NEW r \in Request, c2s' = c2s \o <<r>>, watched' = watched,
         Leaving(n), r # ReqOf(n)
  PROVE  Leaving(n)'
<1>1. /\ Len(c2s') = Len(c2s) + 1 /\ Len(c2s) \in Nat
      /\ \A i \in 1..Len(c2s) : c2s'[i] = c2s[i]
      /\ c2s'[Len(c2s) + 1] = r
  BY StreamTypes, OneMore
<1>2. ASSUME NEW i \in 1..Len(c2s'), c2s'[i] = ReqOf(n)
      PROVE  \E j \in 1..Len(c2s') : j > i /\ c2s'[j] = DelOf(n)
  <2>1. i \in 1..Len(c2s) /\ c2s[i] = ReqOf(n)
    BY <1>1, <1>2
  <2>2. PICK j \in 1..Len(c2s) : j > i /\ c2s[j] = DelOf(n)
    BY <2>1 DEF Leaving
  <2>3. j \in 1..Len(c2s') /\ c2s'[j] = DelOf(n)
    BY <1>1, <2>2
  <2>4. QED
    BY <2>2, <2>3
<1>3. n \in watched' => \E j \in 1..Len(c2s') : c2s'[j] = DelOf(n)
  BY <1>1 DEF Leaving
<1>4. QED
  BY <1>2, <1>3 DEF Leaving, ReqOf, DelOf

LEMMA Dismissed ==
  ASSUME Types, NEW n \in Nick, c2s' = c2s \o <<DelOf(n)>>
  PROVE  Leaving(n)'
<1>1. /\ Len(c2s') = Len(c2s) + 1 /\ Len(c2s) \in Nat
      /\ c2s'[Len(c2s) + 1] = DelOf(n)
  BY StreamTypes, Requests, OneMore
<1>2. ASSUME NEW i \in 1..Len(c2s'), c2s'[i] = ReqOf(n)
      PROVE  \E j \in 1..Len(c2s') : j > i /\ c2s'[j] = DelOf(n)
  <2>1. i # Len(c2s) + 1
    BY <1>1, <1>2, Requests
  <2>2. Len(c2s) + 1 \in 1..Len(c2s') /\ Len(c2s) + 1 > i
    BY <1>1, <2>1
  <2>3. QED
    BY <1>1, <2>2
<1>3. \E j \in 1..Len(c2s') : c2s'[j] = DelOf(n)
  <2>1. Len(c2s) + 1 \in 1..Len(c2s')
    BY <1>1
  <2>2. QED
    BY <1>1, <2>1
<1>4. QED
  BY <1>2, <1>3 DEF Leaving, ReqOf, DelOf

LEMMA StayingOn ==
  ASSUME Types, NEW n \in Nick, NEW r \in Request, c2s' = c2s \o <<r>>, watched' = watched,
         Staying(n), r # DelOf(n)
  PROVE  Staying(n)'
<1>1. /\ Len(c2s') = Len(c2s) + 1 /\ Len(c2s) \in Nat
      /\ \A i \in 1..Len(c2s) : c2s'[i] = c2s[i]
      /\ c2s'[Len(c2s) + 1] = r
  BY StreamTypes, OneMore
<1>2. \A i \in 1..Len(c2s') : c2s'[i] # DelOf(n)
  BY <1>1 DEF Staying
<1>3. n \in watched' \/ \E i \in 1..Len(c2s') : c2s'[i] = ReqOf(n)
  BY <1>1 DEF Staying
<1>4. QED
  BY <1>2, <1>3 DEF Staying, ReqOf, DelOf

(* A nick of which nothing is under way is listed for the first time.      *)
LEMMA StayingNew ==
  ASSUME Types, NEW n \in Nick, c2s' = c2s \o <<ReqOf(n)>>, watched' = watched,
         Leaving(n), ~InFlight(n)
  PROVE  /\ Staying(n)'
         /\ n \notin watched
         /\ \A i \in 1..Len(s2c) : ~About(n, s2c[i])
<1>1. /\ Len(c2s') = Len(c2s) + 1 /\ Len(c2s) \in Nat
      /\ \A i \in 1..Len(c2s) : c2s'[i] = c2s[i]
      /\ c2s'[Len(c2s) + 1] = ReqOf(n)
  BY StreamTypes, Requests, OneMore
<1>2. \A i \in 1..Len(c2s) : c2s[i] # DelOf(n)
  BY Requests DEF InFlight
<1>3. n \notin watched
  BY <1>2 DEF Leaving
<1>4. \A i \in 1..Len(s2c) : ~About(n, s2c[i])
  BY DEF InFlight, About
<1>5. \A i \in 1..Len(c2s') : c2s'[i] # DelOf(n)
  BY <1>1, <1>2, Requests
<1>6. \E i \in 1..Len(c2s') : c2s'[i] = ReqOf(n)
  <2>1. Len(c2s) + 1 \in 1..Len(c2s')
    BY <1>1
  <2>2. QED
    BY <1>1, <2>1
<1>7. QED
  BY <1>3, <1>4, <1>5, <1>6 DEF Staying, ReqOf, DelOf

LEMMA SameCourse ==
  ASSUME NEW n, Course(n), Held(n)' = Held(n), UNCHANGED s2c,
         n \in watched' <=> n \in watched,
         n \in watched => present'[n] = present[n]
  PROVE  Course(n)'
<1>1. \A e : Reaches(n, e)' <=> Reaches(n, e)
  BY DEF Reaches, Leads
<1>2. QED
  BY <1>1 DEF Course, Agrees

(* A packet at the end of the stream. *)
LEMMA ReachesMore ==
  ASSUME Types, NEW n, NEW e, Reaches(n, e), NEW p \in Report, s2c' = Append(s2c, p),
         Held(n)' = Held(n), NEW a \in States, Follows(e, n, p, a)
  PROVE  Reaches(n, a)'
<1>1. PICK b \in [1..(Len(s2c) + 1) -> States] : Leads(b, n, e)
  BY DEF Reaches
<1>2. /\ Len(s2c') = Len(s2c) + 1 /\ Len(s2c) \in Nat
      /\ \A i \in 1..Len(s2c) : s2c'[i] = s2c[i]
      /\ s2c'[Len(s2c) + 1] = p
  BY StreamTypes, AppendProperties
<1> DEFINE k == Len(s2c) + 1
<1>3. PICK d \in [1..(Len(s2c') + 1) -> States] :
        \A i \in 1..(Len(s2c') + 1) : d[i] = IF i <= k THEN b[i] ELSE a
  <2> DEFINE c == [i \in 1..(Len(s2c') + 1) |-> IF i <= k THEN b[i] ELSE a]
  <2>1. c \in [1..(Len(s2c') + 1) -> States]
    BY <1>1, <1>2
  <2>2. \A i \in 1..(Len(s2c') + 1) : c[i] = IF i <= k THEN b[i] ELSE a
    OBVIOUS
  <2>3. QED
    BY <2>1, <2>2
<1>4. /\ k \in Nat \ {0} /\ Len(s2c') = k
      /\ \A i \in 1..k : d[i] = b[i]
      /\ d[k + 1] = a
  BY <1>2, <1>3
<1>5. ASSUME NEW i \in 1..Len(s2c')
      PROVE  Follows(d[i], n, s2c'[i], d[i + 1])
  <2>1. CASE i \in 1..Len(s2c)
    <3>1. i \in 1..k /\ i + 1 \in 1..k
      BY <1>2, <2>1
    <3>2. Follows(b[i], n, s2c[i], b[i + 1])
      BY <1>1, <2>1 DEF Leads
    <3>3. d[i] = b[i] /\ d[i + 1] = b[i + 1] /\ s2c'[i] = s2c[i]
      BY <1>2, <1>4, <2>1, <3>1
    <3>4. QED
      BY <3>2, <3>3
  <2>2. CASE i = k
    <3>1. d[i] = e /\ s2c'[i] = p /\ d[i + 1] = a
      BY <1>1, <1>2, <1>4, <2>2 DEF Leads
    <3>2. QED
      BY <3>1
  <2>3. QED
    BY <1>2, <1>4, <2>1, <2>2
<1>6. d[1] = Held(n)'
  BY <1>1, <1>4 DEF Leads
<1>7. d[Len(s2c') + 1] = a
  BY <1>4
<1>8. Leads(d, n, a)'
  BY <1>5, <1>6, <1>7 DEF Leads, Follows, About
<1>9. QED
  BY <1>8 DEF Reaches, States

(* Nothing about the nick is on its way. *)
LEMMA ReachesSame ==
  ASSUME Types, NEW n \in Listed, \A i \in 1..Len(s2c) : ~About(n, s2c[i])
  PROVE  Reaches(n, Held(n))
<1> DEFINE b == [i \in 1..(Len(s2c) + 1) |-> Held(n)]
<1>1. Len(s2c) \in Nat /\ Held(n) \in States
  BY StreamTypes, HeldType
<1>2. b \in [1..(Len(s2c) + 1) -> States]
  BY <1>1
<1>3. \A i \in 1..(Len(s2c) + 1) : b[i] = Held(n)
  OBVIOUS
<1>4. \A i \in 1..Len(s2c) : i \in 1..(Len(s2c) + 1) /\ i + 1 \in 1..(Len(s2c) + 1)
  BY <1>1
<1>5. 1 \in 1..(Len(s2c) + 1) /\ Len(s2c) + 1 \in 1..(Len(s2c) + 1)
  BY <1>1
<1> HIDE DEF b
<1>6. Leads(b, n, Held(n))
  BY <1>3, <1>4, <1>5 DEF Leads, Follows, About
<1>7. QED
  BY <1>2, <1>6 DEF Reaches

(* The first packet has been taken. *)
Updates(n) ==
  \A a \in States : Follows(Held(n), n, Head(s2c), a) => Held(n)' = a

LEMMA ReachesLess ==
  ASSUME Types, Taken, NEW n, NEW e, Reaches(n, e), Updates(n)
  PROVE  Reaches(n, e)'
<1>1. PICK b \in [1..(Len(s2c) + 1) -> States] : Leads(b, n, e)
  BY DEF Reaches
<1>2. /\ Len(s2c) \in Nat \ {0} /\ Len(s2c') = Len(s2c) - 1
      /\ Head(s2c) = s2c[1]
      /\ \A i \in 1..Len(s2c') : s2c'[i] = s2c[i + 1]
  BY TakenTypes
<1>3. /\ \A i \in 1..(Len(s2c') + 1) : i + 1 \in 1..(Len(s2c) + 1)
      /\ \A i \in 1..Len(s2c') : i + 1 \in 1..Len(s2c)
      /\ \A i \in 1..Len(s2c') : i \in 1..(Len(s2c') + 1) /\ i + 1 \in 1..(Len(s2c') + 1)
      /\ 1 \in 1..(Len(s2c') + 1) /\ Len(s2c') + 1 \in 1..(Len(s2c') + 1)
      /\ 1 \in 1..Len(s2c) /\ 2 \in 1..(Len(s2c) + 1)
  BY <1>2
<1>4. PICK d \in [1..(Len(s2c') + 1) -> States] :
        \A i \in 1..(Len(s2c') + 1) : d[i] = b[i + 1]
  <2> DEFINE c == [i \in 1..(Len(s2c') + 1) |-> b[i + 1]]
  <2>1. c \in [1..(Len(s2c') + 1) -> States]
    BY <1>1, <1>3
  <2>2. \A i \in 1..(Len(s2c') + 1) : c[i] = b[i + 1]
    OBVIOUS
  <2>3. QED
    BY <2>1, <2>2
<1>5. d[1] = Held(n)'
  <2>1. Follows(b[1], n, s2c[1], b[2]) /\ b[1] = Held(n)
    <3>1. Follows(b[1], n, s2c[1], b[1 + 1])
      BY <1>1, <1>3 DEF Leads
    <3>2. QED
      BY <1>1, <3>1 DEF Leads
  <2>2. b[2] \in States
    BY <1>1, <1>3
  <2>3. Held(n)' = b[2]
    BY <1>2, <2>1, <2>2 DEF Updates
  <2>4. d[1] = b[1 + 1]
    BY <1>3, <1>4
  <2>5. QED
    BY <2>3, <2>4
<1>6. ASSUME NEW i \in 1..Len(s2c')
      PROVE  Follows(d[i], n, s2c'[i], d[i + 1])
  <2>1. Follows(b[i + 1], n, s2c[i + 1], b[(i + 1) + 1])
    BY <1>1, <1>3 DEF Leads
  <2>2. d[i] = b[i + 1] /\ d[i + 1] = b[(i + 1) + 1] /\ s2c'[i] = s2c[i + 1]
    BY <1>2, <1>3, <1>4
  <2>3. QED
    BY <2>1, <2>2
<1>7. d[Len(s2c') + 1] = e
  <2>1. d[Len(s2c') + 1] = b[(Len(s2c') + 1) + 1] /\ (Len(s2c') + 1) + 1 = Len(s2c) + 1
    BY <1>2, <1>3, <1>4
  <2>2. QED
    BY <1>1, <2>1 DEF Leads
<1>8. Leads(d, n, e)'
  BY <1>5, <1>6, <1>7 DEF Leads, Follows, About
<1>9. QED
  BY <1>8 DEF Reaches, States

LEMMA CourseOn ==
  ASSUME Types, Taken, UNCHANGED <<watched, present>>, NEW n \in Listed, Course(n), Updates(n)
  PROVE  Course(n)'
<1>1. CASE n \in watched
  <2>1. PICK e \in States : Reaches(n, e) /\ Agrees(e, present[n])
    BY <1>1 DEF Course
  <2>2. Reaches(n, e)'
    BY <2>1, ReachesLess
  <2>3. n \in watched' /\ Agrees(e, present[n])'
    BY <1>1, <2>1 DEF Agrees
  <2>4. QED
    BY <2>1, <2>2, <2>3 DEF Course, States, Masks, NoMask
<1>2. CASE n \notin watched
  <2>1. Held(n) = "offline" /\ \A i \in 1..Len(s2c) : ~About(n, s2c[i])
    BY <1>2 DEF Course
  <2>2. /\ Len(s2c) \in Nat \ {0} /\ Len(s2c') = Len(s2c) - 1
        /\ Head(s2c) = s2c[1]
        /\ \A i \in 1..Len(s2c') : s2c'[i] = s2c[i + 1]
    BY TakenTypes
  <2>3. \A i \in 1..Len(s2c') : ~About(n, s2c'[i])
    BY <2>1, <2>2
  <2>4. Follows(Held(n), n, Head(s2c), Held(n))
    BY <2>1, <2>2 DEF Follows, About
  <2>5. Held(n)' = "offline"
    BY <2>1, <2>4, HeldType DEF Updates
  <2>6. n \notin watched'
    BY <1>2
  <2>7. QED
    BY <2>3, <2>5, <2>6 DEF Course
<1>3. QED
  BY <1>1, <1>2

-----------------------------------------------------------------------------
(* Every step keeps the flow *)

LEMMA InitFlow == ASSUME Init PROVE Flow
<1>1. Listed = {} /\ c2s = <<>> /\ watched = {}
  BY DEF Init, Listed
<1>2. 1..Len(c2s) = {}
  BY <1>1
<1>3. QED
  BY <1>1, <1>2 DEF Flow, Leaving

(* aggiungi and ignora: the nick is asked for, and listed if it was not.   *)
LEMMA ListingFlow ==
  ASSUME Types, Types', Flow, NEW n \in Nick, NEW isPlain, Command(UsersReq(n), isPlain),
         patient' = (patient /\ ~InFlight(n)), Listed' = Listed \cup {n},
         \A m \in Listed : Held(m)' = Held(m),
         n \notin Listed => Held(n)' = "offline"
  PROVE  Flow'
<1>1. /\ c2s' = c2s \o <<ReqOf(n)>> /\ ReqOf(n) \in Request
      /\ watched' = watched /\ s2c' = s2c /\ present' = present
  BY Requests DEF Command
<1>2. ASSUME NEW m \in Nick, m \notin Listed'
      PROVE  Leaving(m)'
  <2>1. m \notin Listed /\ Leaving(m)
    BY <1>2 DEF Flow
  <2>2. ReqOf(n) # ReqOf(m)
    <3>1. ReqOf(n).nick = n /\ ReqOf(m).nick = m /\ n # m
      BY <1>2 DEF ReqOf
    <3>2. QED
      BY <3>1
  <2>3. QED
    BY <1>1, <2>1, <2>2, LeavingOn
<1>3. ASSUME patient', NEW m \in Listed'
      PROVE  Staying(m)' /\ Course(m)'
  <2>1. patient /\ ~InFlight(n) /\ m \in Nick
    BY <1>3, TypesAgain DEF Lists
  <2>2. CASE m \in Listed
    <3>1. Staying(m) /\ Course(m)
      BY <2>1, <2>2 DEF Flow
    <3>2. ReqOf(n) # DelOf(m)
      <4>1. ReqOf(n).op # DelOf(m).op
        BY DEF ReqOf, DelOf
      <4>2. QED
        BY <4>1
    <3>3. Staying(m)'
      BY <1>1, <2>1, <3>1, <3>2, StayingOn
    <3>4. Course(m)'
      BY <1>1, <2>2, <3>1, SameCourse
    <3>5. QED
      BY <3>3, <3>4
  <2>3. CASE m = n /\ n \notin Listed
    <3>1. Leaving(n)
      BY <2>3 DEF Flow
    <3>2. /\ Staying(n)' /\ n \notin watched
          /\ \A i \in 1..Len(s2c) : ~About(n, s2c[i])
      BY <1>1, <2>1, <3>1, StayingNew
    <3>3. Course(n)'
      BY <1>1, <2>3, <3>2 DEF Course
    <3>4. QED
      BY <2>3, <3>2, <3>3
  <2>4. QED
    BY <1>3, <2>2, <2>3
<1>4. QED
  BY <1>2, <1>3 DEF Flow

LEMMA AddFlow ==
  ASSUME Types, Types', Flow, NEW n \in Nick, Add(n)
  PROVE  Flow'
<1>1. nicks \in [Listed -> NickList]
  BY TypesSplit DEF Lists
<1>2. /\ Listed' = Listed \cup {n}
      /\ \A m \in Listed : nicks'[m] = nicks[m]
      /\ n \notin Listed => nicks'[n] = NewNick
  BY <1>1 DEF Add, With, Listed
<1>3. \A m \in Listed : Held(m)' = Held(m)
  BY <1>2 DEF Held
<1>4. n \notin Listed => Held(n)' = "offline"
  BY <1>2 DEF Held, NewNick
<1>5. Command(UsersReq(n), TRUE) /\ patient' = (patient /\ ~InFlight(n))
  BY DEF Add
<1>6. QED
  BY <1>2, <1>3, <1>4, <1>5, ListingFlow

LEMMA IgnoreFlow ==
  ASSUME Types, Types', Flow, NEW n \in Nick, Ignore(n)
  PROVE  Flow'
<1>1. nicks \in [Listed -> NickList]
  BY TypesSplit DEF Lists
<1> DEFINE nl == IF n \notin Listed THEN NewNick ELSE nicks[n]
<1>2. nicks' = With(nicks, n, [nl EXCEPT !.black_list = TRUE])
  BY DEF Ignore
<1>3. nl \in NickList
  BY <1>1 DEF NewNick, NickList
<1>4. /\ [nl EXCEPT !.black_list = TRUE].online = nl.online
      /\ [nl EXCEPT !.black_list = TRUE].mask = nl.mask
  <2> HIDE DEF nl
  <2>1. QED
    BY <1>3 DEF NickList
<1>5. /\ Listed' = Listed \cup {n}
      /\ \A m \in Listed : nicks'[m].online = nicks[m].online /\ nicks'[m].mask = nicks[m].mask
      /\ nicks'[n].online = nl.online
  <2>1. /\ Listed' = Listed \cup {n}
        /\ \A m \in Listed \ {n} : nicks'[m] = nicks[m]
        /\ nicks'[n] = [nl EXCEPT !.black_list = TRUE]
    BY <1>2 DEF With, Listed
  <2>2. n \in Listed => nl = nicks[n]
    OBVIOUS
  <2> HIDE DEF nl
  <2>3. QED
    BY <1>4, <2>1, <2>2
<1>6. \A m \in Listed : Held(m)' = Held(m)
  BY <1>5 DEF Held
<1>7. n \notin Listed => Held(n)' = "offline"
  BY <1>5 DEF Held, NewNick
<1>8. Command(UsersReq(n), FALSE) /\ patient' = (patient /\ ~InFlight(n))
  BY DEF Ignore
<1>9. QED
  BY <1>5, <1>6, <1>7, <1>8, ListingFlow

LEMMA DelFlow ==
  ASSUME Types, Types', Flow, NEW n \in Nick, Del(n)
  PROVE  Flow'
<1>1. /\ c2s' = c2s \o <<DelOf(n)>> /\ DelOf(n) \in Request
      /\ watched' = watched /\ s2c' = s2c /\ present' = present /\ patient' = patient
  BY Requests DEF Del, Command
<1>2. /\ Listed' = Listed \ {n}
      /\ \A m \in Listed' : nicks'[m] = nicks[m]
  BY DEF Del, Less, Listed
<1>3. ASSUME NEW m \in Nick, m \notin Listed'
      PROVE  Leaving(m)'
  <2>1. CASE m = n
    BY <1>1, <2>1, Dismissed
  <2>2. CASE m # n
    <3>1. Leaving(m)
      BY <1>2, <1>3, <2>2 DEF Flow
    <3>2. DelOf(n).op # ReqOf(m).op
      BY DEF DelOf, ReqOf
    <3>3. DelOf(n) # ReqOf(m)
      BY <3>2
    <3>4. QED
      BY <1>1, <3>1, <3>3, LeavingOn
  <2>3. QED
    BY <2>1, <2>2
<1>4. ASSUME patient', NEW m \in Listed'
      PROVE  Staying(m)' /\ Course(m)'
  <2>1. m \in Listed /\ m # n /\ m \in Nick
    BY <1>2, HeldType
  <2>2. Staying(m) /\ Course(m)
    BY <1>1, <1>4, <2>1 DEF Flow
  <2>3. DelOf(n) # DelOf(m)
    <3>1. DelOf(n).nick # DelOf(m).nick
      BY <2>1 DEF DelOf
    <3>2. QED
      BY <3>1
  <2>4. Held(m)' = Held(m)
    BY <1>2, <1>4 DEF Held
  <2>5. QED
    BY <1>1, <2>1, <2>2, <2>3, <2>4, StayingOn, SameCourse
<1>5. QED
  BY <1>3, <1>4 DEF Flow

(* A step that only the client sees. *)
LEMMA QuietFlow ==
  ASSUME Flow, UNCHANGED <<c2s, s2c, watched, present, patient>>, Listed' = Listed,
         \A m \in Listed : Held(m)' = Held(m)
  PROVE  Flow'
<1>1. \A m \in Nick : (Leaving(m)' <=> Leaving(m)) /\ (Staying(m)' <=> Staying(m))
  BY DEF Leaving, Staying, ReqOf, DelOf
<1>2. \A m : (Staying(m)' <=> Staying(m))
  BY DEF Staying, ReqOf, DelOf
<1>3. ASSUME patient', NEW m \in Listed'
      PROVE  Course(m)'
  <2>1. Course(m) /\ Held(m)' = Held(m)
    BY <1>3 DEF Flow
  <2>2. QED
    BY <2>1, SameCourse
<1>4. QED
  BY <1>1, <1>2, <1>3 DEF Flow

LEMMA NoRequest ==
  ASSUME Types, NEW isPlain, Command(<<>>, isPlain)
  PROVE  UNCHANGED <<c2s, s2c, watched, present>>
<1>1. c2s \o <<>> = c2s
  BY StreamTypes, ConcatEmptySeq
<1>2. QED
  BY <1>1 DEF Command

LEMMA UnignoreFlow ==
  ASSUME Types, Flow, NEW n \in Nick, Unignore(n)
  PROVE  Flow'
<1>1. nicks \in [Listed -> NickList]
  BY TypesSplit DEF Lists
<1>2. UNCHANGED <<c2s, s2c, watched, present, patient>>
  BY NoRequest DEF Unignore
<1>3. /\ Listed' = Listed
      /\ \A m \in Listed : nicks'[m].online = nicks[m].online /\ nicks'[m].mask = nicks[m].mask
  <2>1. CASE n \notin Listed
    <3>1. PICK stray \in SUBSET Listed :
            nicks' = [m \in Listed |-> [nicks[m] EXCEPT
                        !.black_list = @ /\ m \notin stray]]
      BY <2>1 DEF Unignore
    <3>2. ASSUME NEW m \in Listed
          PROVE  nicks'[m].online = nicks[m].online /\ nicks'[m].mask = nicks[m].mask
      <4>1. nicks'[m] = [nicks[m] EXCEPT !.black_list = @ /\ m \notin stray]
        BY <3>1
      <4>2. nicks[m] \in NickList
        BY <1>1
      <4>3. QED
        BY <4>1, <4>2 DEF NickList
    <3>3. Listed' = Listed
      BY <3>1 DEF Listed
    <3>4. QED
      BY <3>2, <3>3
  <2>2. CASE n \in Listed
    <3>1. nicks' = [nicks EXCEPT ![n].black_list = FALSE]
      BY <2>2 DEF Unignore
    <3>2. QED
      BY <1>1, <3>1 DEF Listed, NickList
  <2>3. QED
    BY <2>1, <2>2
<1>4. \A m \in Listed : Held(m)' = Held(m)
  BY <1>3 DEF Held
<1>5. QED
  BY <1>2, <1>3, <1>4, QuietFlow

LEMMA JoinConsoleFlow ==
  ASSUME Types, Flow, JoinConsole
  PROVE  Flow'
<1>1. UNCHANGED <<c2s, s2c, watched, present, patient>>
  BY NoRequest DEF JoinConsole
<1>2. Listed' = Listed /\ \A m \in Listed : Held(m)' = Held(m)
  BY DEF JoinConsole, Listed, Held
<1>3. QED
  BY <1>1, <1>2, QuietFlow

LEMMA StutterFlow ==
  ASSUME Flow, UNCHANGED vars
  PROVE  Flow'
<1>1. UNCHANGED <<c2s, s2c, watched, present, patient, nicks>>
  BY DEF vars, clientVars
<1>2. Listed' = Listed /\ \A m \in Listed : Held(m)' = Held(m)
  BY <1>1 DEF Listed, Held
<1>3. QED
  BY <1>1, <1>2, QuietFlow

(* A packet that the server sends makes of what will be held what the      *)
(* server has then.                                                        *)
LEMMA CourseMore ==
  ASSUME Types, NEW n \in Listed, Course(n), NEW p \in Report, s2c' = Append(s2c, p),
         Held(n)' = Held(n), n \in watched,  n \in watched',
         \A e \in States : Agrees(e, present[n]) =>
           \E a \in States : Follows(e, n, p, a) /\ Agrees(a, present'[n])
  PROVE  Course(n)'
<1>1. PICK e \in States : Reaches(n, e) /\ Agrees(e, present[n])
  BY DEF Course
<1>2. PICK a \in States : Follows(e, n, p, a) /\ Agrees(a, present'[n])
  BY <1>1
<1>3. Reaches(n, a)'
  BY <1>1, <1>2, ReachesMore
<1>4. QED
  BY <1>2, <1>3 DEF Course, Agrees, States, Masks, NoMask

(* A packet about others. *)
LEMMA CourseAside ==
  ASSUME Types, NEW n \in Listed, Course(n), NEW p \in Report, s2c' = Append(s2c, p),
         ~About(n, p), Held(n)' = Held(n), n \in watched' <=> n \in watched,
         present'[n] = present[n]
  PROVE  Course(n)'
<1>1. CASE n \in watched
  <2>1. \A e \in States : Follows(e, n, p, e)
    BY DEF Follows, About
  <2>2. QED
    BY <1>1, <2>1, CourseMore
<1>2. CASE n \notin watched
  <2>1. /\ Len(s2c') = Len(s2c) + 1 /\ Len(s2c) \in Nat
        /\ \A i \in 1..Len(s2c) : s2c'[i] = s2c[i]
        /\ s2c'[Len(s2c) + 1] = p
    BY StreamTypes, AppendProperties
  <2>2. Held(n) = "offline" /\ \A i \in 1..Len(s2c) : ~About(n, s2c[i])
    BY <1>2 DEF Course
  <2>3. \A i \in 1..Len(s2c') : ~About(n, s2c'[i])
    BY <2>1, <2>2
  <2>4. QED
    BY <1>2, <2>2, <2>3 DEF Course
<1>3. QED
  BY <1>1, <1>2

(* The first request has been taken. *)
LEMMA HeadRequest ==
  ASSUME Types, ServerAnswer
  PROVE  /\ Len(c2s) \in Nat \ {0} /\ Len(c2s') = Len(c2s) - 1
         /\ \A i \in 1..Len(c2s') : c2s'[i] = c2s[i + 1]
         /\ \E k \in Nick :
              \/ /\ c2s[1] = ReqOf(k)
                 /\ watched' = watched \cup {k}
                 /\ s2c' = Append(s2c, Packet("SEND_USERS",
                             IF present[k] = "offline" THEN {} ELSE {k}, NoMask))
              \/ /\ c2s[1] = DelOf(k)
                 /\ watched' = watched \ {k}
                 /\ s2c' = s2c
<1>1. c2s \in Seq(Request) /\ c2s # <<>> /\ c2s' = Tail(c2s)
  BY StreamTypes DEF ServerAnswer
<1>2. /\ Head(c2s) \in Request /\ Len(c2s') = Len(c2s) - 1
      /\ \A i \in 1..Len(c2s') : c2s'[i] = c2s[i + 1]
      /\ Len(c2s) \in Nat \ {0}
  BY <1>1, HeadTailProperties, EmptySeq
<1>3. Head(c2s) = c2s[1]
  BY <1>1
<1> DEFINE k == Head(c2s).nick
<1>4. k \in Nick /\ Head(c2s) = [op |-> Head(c2s).op, nick |-> k]
  <2>1. Head(c2s).op \in {"users req", "users del"}
    BY DEF ServerAnswer
  <2>2. Head(c2s) \in Listing
    BY <1>2, <2>1 DEF Request, Listing, Answer, Telling
  <2>3. QED
    BY <2>2 DEF Listing
<1>5. Head(c2s).op = "users req" => Head(c2s) = ReqOf(k)
  BY <1>4 DEF ReqOf
<1>6. Head(c2s).op = "users del" => Head(c2s) = DelOf(k)
  BY <1>4 DEF DelOf
<1>7. \/ /\ Head(c2s).op = "users req"
         /\ watched' = watched \cup {k}
         /\ s2c' = Append(s2c, Packet("SEND_USERS",
                     IF present[k] = "offline" THEN {} ELSE {k}, NoMask))
      \/ /\ Head(c2s).op = "users del"
         /\ watched' = watched \ {k}
         /\ s2c' = s2c
  BY DEF ServerAnswer
<1>8. QED
  BY <1>2, <1>3, <1>4, <1>5, <1>6, <1>7

LEMMA AnswerFlow ==
  ASSUME Types, Flow, ServerAnswer
  PROVE  Flow'
<1>1. /\ Len(c2s) \in Nat \ {0} /\ Len(c2s') = Len(c2s) - 1
      /\ \A i \in 1..Len(c2s') : c2s'[i] = c2s[i + 1]
  BY HeadRequest
<1>2. PICK k \in Nick :
        \/ /\ c2s[1] = ReqOf(k)
           /\ watched' = watched \cup {k}
           /\ s2c' = Append(s2c, Packet("SEND_USERS",
                       IF present[k] = "offline" THEN {} ELSE {k}, NoMask))
        \/ /\ c2s[1] = DelOf(k)
           /\ watched' = watched \ {k}
           /\ s2c' = s2c
  BY HeadRequest
<1>3. Listed' = Listed /\ present' = present /\ patient' = patient
      /\ \A m \in Listed : Held(m)' = Held(m)
  BY DEF ServerAnswer, clientVars, Listed, Held
<1>4. \A m \in Nick : (ReqOf(k) = ReqOf(m) => k = m) /\ (DelOf(k) = DelOf(m) => k = m)
                      /\ ReqOf(k) # DelOf(m) /\ DelOf(k) # ReqOf(m)
  <2>1. \A m \in Nick : ReqOf(m).nick = m /\ DelOf(m).nick = m
    BY DEF ReqOf, DelOf
  <2>2. \A m \in Nick : ReqOf(m).op = "users req" /\ DelOf(m).op = "users del"
    BY DEF ReqOf, DelOf
  <2>3. \A m \in Nick : (ReqOf(k) = ReqOf(m) => k = m) /\ (DelOf(k) = DelOf(m) => k = m)
    BY <2>1
  <2>4. \A m \in Nick : ReqOf(k) # DelOf(m) /\ DelOf(k) # ReqOf(m)
    BY <2>2
  <2>5. QED
    BY <2>3, <2>4
<1>5. \A j \in 2..Len(c2s) : j - 1 \in 1..Len(c2s') /\ c2s'[j - 1] = c2s[j]
  BY <1>1
<1>6. \A i \in 1..Len(c2s') : i + 1 \in 2..Len(c2s)
  BY <1>1
<1>7. ASSUME NEW n \in Nick, n \notin Listed'
      PROVE  Leaving(n)'
  <2>1. Leaving(n)
    BY <1>3, <1>7 DEF Flow
  <2>2. ASSUME NEW i \in 1..Len(c2s), NEW j \in 1..Len(c2s), j > i
        PROVE  j - 1 \in 1..Len(c2s') /\ c2s'[j - 1] = c2s[j]
    <3>1. j \in 2..Len(c2s)
      BY <1>1, <2>2
    <3>2. QED
      BY <1>5, <3>1
  <2>3. ASSUME NEW i \in 1..Len(c2s'), c2s'[i] = ReqOf(n)
        PROVE  \E j \in 1..Len(c2s') : j > i /\ c2s'[j] = DelOf(n)
    <3>1. i + 1 \in 1..Len(c2s) /\ c2s[i + 1] = ReqOf(n)
      BY <1>1, <2>3
    <3>2. PICK j \in 1..Len(c2s) : j > i + 1 /\ c2s[j] = DelOf(n)
      BY <2>1, <3>1 DEF Leaving
    <3>3. j - 1 \in 1..Len(c2s') /\ c2s'[j - 1] = DelOf(n) /\ j - 1 > i
      BY <1>1, <2>2, <3>1, <3>2
    <3>4. QED
      BY <3>3
  <2>4. ASSUME n \in watched'
        PROVE  \E j \in 1..Len(c2s') : c2s'[j] = DelOf(n)
    <3>1. CASE c2s[1] = ReqOf(n)
      <4>1. PICK j \in 1..Len(c2s) : j > 1 /\ c2s[j] = DelOf(n)
        BY <1>1, <2>1, <3>1 DEF Leaving
      <4>2. QED
        BY <1>1, <2>2, <4>1
    <3>2. CASE c2s[1] # ReqOf(n)
      <4>1. n \in watched /\ c2s[1] # DelOf(n)
        BY <1>2, <1>4, <2>4, <3>2
      <4>2. PICK j \in 1..Len(c2s) : c2s[j] = DelOf(n)
        BY <2>1, <4>1 DEF Leaving
      <4>3. j \in 2..Len(c2s)
        BY <1>1, <4>1, <4>2
      <4>4. QED
        BY <1>5, <4>2, <4>3
    <3>3. QED
      BY <3>1, <3>2
  <2>5. QED
    BY <2>3, <2>4 DEF Leaving, ReqOf, DelOf
<1>8. ASSUME patient', NEW n \in Listed'
      PROVE  Staying(n)' /\ Course(n)'
  <2>1. Staying(n) /\ Course(n) /\ n \in Nick /\ n \in Listed /\ Held(n)' = Held(n)
    BY <1>3, <1>8, HeldType DEF Flow
  <2>2. c2s[1] # DelOf(n)
    BY <1>1, <2>1 DEF Staying
  <2>3. c2s[1] = ReqOf(n) => n \in watched'
    BY <1>2, <1>4, <2>1
  <2>4. n \in watched => n \in watched'
    BY <1>2, <2>2
  <2>5. \A i \in 1..Len(c2s') : c2s'[i] # DelOf(n)
    BY <1>1, <2>1 DEF Staying
  <2>6. n \in watched' \/ \E i \in 1..Len(c2s') : c2s'[i] = ReqOf(n)
    <3>1. CASE n \in watched
      BY <2>4, <3>1
    <3>2. CASE n \notin watched
      <4>1. PICK i \in 1..Len(c2s) : c2s[i] = ReqOf(n)
        BY <2>1, <3>2 DEF Staying
      <4>2. CASE i = 1
        BY <2>3, <4>1, <4>2
      <4>3. CASE i # 1
        <5>1. i \in 2..Len(c2s)
          BY <1>1, <4>3
        <5>2. QED
          BY <1>5, <4>1, <5>1
      <4>4. QED
        BY <4>2, <4>3
    <3>3. QED
      BY <3>1, <3>2
  <2>7. Staying(n)'
    BY <2>5, <2>6 DEF Staying, ReqOf, DelOf
  <2>8. Course(n)'
    <3>1. CASE c2s[1] = DelOf(k)
      <4>1. n # k /\ s2c' = s2c /\ watched' = watched \ {k}
        BY <1>2, <1>4, <2>2, <3>1
      <4>2. n \in watched' <=> n \in watched
        BY <4>1
      <4>3. QED
        BY <1>3, <2>1, <4>1, <4>2, SameCourse
    <3>2. CASE c2s[1] = ReqOf(k)
      <4> DEFINE ns == IF present[k] = "offline" THEN {} ELSE {k}
                 p  == Packet("SEND_USERS", ns, NoMask)
      <4>1. s2c' = Append(s2c, p) /\ watched' = watched \cup {k}
        BY <1>2, <1>4, <3>2
      <4>2. p \in Report /\ p.nicks = ns /\ p.type = "SEND_USERS"
        BY DEF Packet, Report
      <4>3. present[n] \in {"offline"} \cup Masks
        BY <2>1, StreamTypes
      <4>4. CASE n # k
        <5>1. ~About(n, p) /\ (n \in watched' <=> n \in watched)
          BY <4>1, <4>2, <4>4 DEF About
        <5> HIDE DEF p
        <5>2. QED
          BY <1>3, <2>1, <4>1, <4>2, <5>1, CourseAside
      <4>5. CASE n = k
        <5>1. n \in watched' /\ present'[n] = present[n]
          BY <1>3, <4>1, <4>5
        <5>2. CASE n \in watched
          <6>1. \A e \in States : Agrees(e, present[n]) => Follows(e, n, p, e)
            BY <4>2, <4>3, <4>5 DEF Agrees, Follows, About, States, Masks, NoMask
          <6> HIDE DEF p
          <6>2. \A e \in States : Agrees(e, present[n]) =>
                  \E a \in States : Follows(e, n, p, a) /\ Agrees(a, present'[n])
            BY <5>1, <6>1
          <6>3. QED
            BY <2>1, <4>1, <4>2, <5>1, <5>2, <6>2, CourseMore
        <5>3. CASE n \notin watched
          <6>1. Held(n) = "offline" /\ \A i \in 1..Len(s2c) : ~About(n, s2c[i])
            BY <2>1, <5>3 DEF Course
          <6>2. Reaches(n, "offline")
            BY <2>1, <6>1, ReachesSame
          <6>3. PICK a \in States : Follows("offline", n, p, a) /\ Agrees(a, present'[n])
            <7>1. CASE present[n] = "offline"
              <8>1. Follows("offline", n, p, "offline") /\ Agrees("offline", present'[n])
                BY <4>2, <4>5, <5>1, <7>1 DEF Follows, About, Agrees
              <8>2. QED
                BY <8>1 DEF States
            <7>2. CASE present[n] # "offline"
              <8>1. Follows("offline", n, p, NoMask) /\ Agrees(NoMask, present'[n])
                BY <4>2, <4>5, <5>1, <7>2 DEF Follows, About, Agrees
              <8>2. QED
                BY <8>1 DEF States
            <7>3. QED
              BY <7>1, <7>2
          <6> HIDE DEF p
          <6>4. Reaches(n, a)'
            BY <2>1, <4>1, <4>2, <6>2, <6>3, ReachesMore
          <6>5. QED
            BY <5>1, <6>3, <6>4 DEF Course, Agrees, States, Masks, NoMask
        <5>4. QED
          BY <5>2, <5>3
      <4>6. QED
        BY <4>4, <4>5
    <3>3. QED
      BY <1>2, <3>1, <3>2
  <2>9. QED
    BY <2>7, <2>8
<1>9. QED
  BY <1>7, <1>8 DEF Flow

LEMMA NickChangesFlow ==
  ASSUME Types, Flow, NickChanges
  PROVE  Flow'
<1>1. PICK k \in Nick, state \in {"offline"} \cup Masks :
        /\ state # present[k]
        /\ present[k] = "offline" => state = "available"
        /\ present' = [present EXCEPT ![k] = state]
        /\ \/ k \notin watched /\ UNCHANGED s2c
           \/ /\ k \in watched
              /\ s2c' = Append(s2c,
                   CASE state = "offline"      -> Packet("offline", {k}, NoMask)
                     [] present[k] = "offline" -> Packet("online", {k}, NoMask)
                     [] OTHER                  -> Packet("STATUS_USER_CHG", {k}, state))
        /\ UNCHANGED <<clientVars, c2s, watched, patient>>
  BY DEF NickChanges
<1>2. /\ Listed' = Listed /\ \A m \in Listed : Held(m)' = Held(m)
      /\ UNCHANGED <<c2s, watched, patient>>
  BY <1>1 DEF clientVars, Listed, Held
<1>3. \A m \in Nick : (Leaving(m)' <=> Leaving(m)) /\ (Staying(m)' <=> Staying(m))
  BY <1>2 DEF Leaving, Staying, ReqOf, DelOf
<1>4. ASSUME patient', NEW n \in Listed'
      PROVE  Staying(n)' /\ Course(n)'
  <2>1. /\ n \in Nick /\ n \in Listed /\ Staying(n) /\ Course(n) /\ Held(n)' = Held(n)
        /\ (n \in watched' <=> n \in watched)
    BY <1>2, <1>4, HeldType DEF Flow
  <2>2. /\ present \in [Nick -> {"offline"} \cup Masks]
        /\ present[n] \in {"offline"} \cup Masks
    BY <2>1, StreamTypes
  <2>3. n # k => present'[n] = present[n]
    BY <1>1, <2>1, <2>2
  <2>4. CASE k \notin watched
    <3>1. UNCHANGED s2c /\ (n \in watched => present'[n] = present[n])
      BY <1>1, <2>3, <2>4
    <3>2. QED
      BY <1>3, <2>1, <3>1, SameCourse
  <2>5. CASE k \in watched
    <3>1. PICK p :
            /\ s2c' = Append(s2c, p)
            /\ p = CASE state = "offline"      -> Packet("offline", {k}, NoMask)
                     [] present[k] = "offline" -> Packet("online", {k}, NoMask)
                     [] OTHER                  -> Packet("STATUS_USER_CHG", {k}, state)
      BY <1>1, <2>5
    <3>2. /\ p.nicks = {k}
          /\ state = "offline" => p.type = "offline"
          /\ state # "offline" /\ present[k] = "offline" => p.type = "online"
          /\ state # "offline" /\ present[k] # "offline" =>
               p.type = "STATUS_USER_CHG" /\ p.mask = state
          /\ p \in Report
      <4>1. CASE state = "offline"
        <5>1. p = Packet("offline", {k}, NoMask)
          BY <1>1, <3>1, <4>1
        <5>2. QED
          BY <4>1, <5>1 DEF Packet, Report
      <4>2. CASE state # "offline" /\ present[k] = "offline"
        <5>1. p = Packet("online", {k}, NoMask)
          BY <3>1, <4>2
        <5>2. QED
          BY <4>2, <5>1 DEF Packet, Report
      <4>3. CASE state # "offline" /\ present[k] # "offline"
        <5>1. p = Packet("STATUS_USER_CHG", {k}, state)
          BY <3>1, <4>3
        <5>2. QED
          BY <4>3, <5>1 DEF Packet, Report
      <4>4. QED
        BY <4>1, <4>2, <4>3
    <3>3. CASE n # k
      <4>1. ~About(n, p)
        BY <3>2, <3>3 DEF About
      <4>2. QED
        BY <1>3, <2>1, <2>3, <3>1, <3>2, <3>3, <4>1, CourseAside
    <3>4. CASE n = k
      <4>1. present'[n] = state
        BY <1>1, <2>2, <3>4
      <4>2. ASSUME NEW e \in States, Agrees(e, present[n])
            PROVE  \E a \in States : Follows(e, n, p, a) /\ Agrees(a, present'[n])
        <5>1. CASE state = "offline"
          <6>1. Follows(e, n, p, "offline") /\ Agrees("offline", present'[n])
            BY <3>2, <3>4, <4>1, <5>1 DEF Follows, About, Agrees
          <6>2. QED
            BY <6>1 DEF States
        <5>2. CASE state # "offline" /\ present[k] = "offline"
          <6>1. Follows(e, n, p, NoMask) /\ Agrees(NoMask, present'[n])
            BY <3>2, <3>4, <4>1, <4>2, <5>2 DEF Follows, About, Agrees
          <6>2. QED
            BY <6>1 DEF States
        <5>3. CASE state # "offline" /\ present[k] # "offline"
          <6>1. Follows(e, n, p, state) /\ Agrees(state, present'[n])
            BY <3>2, <3>4, <4>1, <4>2, <5>3 DEF Follows, About, Agrees, NoMask
          <6>2. QED
            BY <6>1 DEF States
        <5>4. QED
          BY <5>1, <5>2, <5>3
      <4>3. QED
        BY <1>2, <1>3, <2>1, <2>5, <3>1, <3>2, <3>4, <4>2, CourseMore
    <3>5. QED
      BY <3>3, <3>4
  <2>6. QED
    BY <2>4, <2>5
<1>5. QED
  BY <1>2, <1>3, <1>4 DEF Flow

(* What every reception comes to. *)
LEMMA ReceiveFlow ==
  ASSUME Types, Flow, NEW type, Receive(type), Listed' = Listed,
         \A n \in Listed : Updates(n)
  PROVE  Flow'
<1>1. UNCHANGED <<c2s, watched, present, patient>> /\ Taken
  BY DEF Receive, Taken
<1>2. \A m \in Nick : (Leaving(m)' <=> Leaving(m)) /\ (Staying(m)' <=> Staying(m))
  BY <1>1 DEF Leaving, Staying, ReqOf, DelOf
<1>3. ASSUME patient', NEW n \in Listed'
      PROVE  Staying(n)' /\ Course(n)'
  <2>1. Staying(n) /\ Course(n) /\ n \in Nick
    BY <1>1, <1>3, HeldType DEF Flow
  <2>2. Course(n)'
    BY <1>1, <1>3, <2>1, CourseOn
  <2>3. QED
    BY <1>2, <2>1, <2>2
<1>4. QED
  BY <1>1, <1>2, <1>3 DEF Flow

LEMMA UnknownUpdates ==
  ASSUME Types, NEW type, Unknown(type)
  PROVE  Receive(type) /\ Listed' = Listed /\ \A n \in Listed : Updates(n)
<1>1. Receive(type) /\ Known = {} /\ UNCHANGED <<nicks, view>> /\ s2c # <<>>
  BY DEF Unknown, Receive
<1>2. \A n \in Listed : n \notin Head(s2c).nicks
  BY <1>1 DEF Known
<1>3. Listed' = Listed /\ \A n \in Listed : Held(n)' = Held(n)
  BY <1>1 DEF Listed, Held
<1>4. QED
  BY <1>1, <1>2, <1>3 DEF Updates, Follows, About

(* A packet about one nick of the list leaves the others alone.            *)
LEMMA OneUpdates ==
  ASSUME Types, NEW type, Receive(type), type # "SEND_USERS", NEW n \in Known,
         NEW r, nicks' = [nicks EXCEPT ![n] = r], Updates(n)
  PROVE  Listed' = Listed /\ \A m \in Listed : Updates(m)
<1>1. /\ Head(s2c).type = type /\ Proper(Head(s2c)) /\ n \in Head(s2c).nicks
      /\ n \in Listed
  BY ReceiveTypes, TakenTypes DEF Receive, Known
<1>2. Head(s2c).nicks = {n}
  BY <1>1 DEF Proper
<1>3. Listed' = Listed /\ \A m \in Listed : m # n => nicks'[m] = nicks[m]
  BY DEF Listed
<1>4. ASSUME NEW m \in Listed, m # n
      PROVE  Updates(m)
  <2>1. m \notin Head(s2c).nicks /\ Held(m)' = Held(m)
    BY <1>2, <1>3, <1>4 DEF Held
  <2>2. QED
    BY <2>1 DEF Updates, Follows, About
<1>5. QED
  BY <1>3, <1>4

LEMMA UsersFlow ==
  ASSUME Types, Flow, RecvUsers
  PROVE  Flow'
<1>1. CASE Unknown("SEND_USERS")
  BY <1>1, UnknownUpdates, ReceiveFlow
<1>2. CASE ~Unknown("SEND_USERS")
  <2>1. /\ Receive("SEND_USERS") /\ Known # {}
        /\ nicks' = [n \in Listed |->
             IF n \in Known THEN [nicks[n] EXCEPT !.online = TRUE] ELSE nicks[n]]
    BY <1>2 DEF RecvUsers
  <2>2. Listed' = Listed
    BY <2>1 DEF Listed
  <2>3. Head(s2c).type = "SEND_USERS" /\ s2c # <<>> /\ Known = Head(s2c).nicks \cap Listed
    BY <2>1 DEF Receive, Known
  <2>4. ASSUME NEW n \in Listed
        PROVE  Updates(n)
    <3>1. CASE n \in Head(s2c).nicks
      <4>1. nicks[n] \in NickList /\ (~nicks[n].online => nicks[n].mask = NoMask)
        BY TypesSplit DEF Lists, MasksOnline
      <4>2. nicks'[n] = [nicks[n] EXCEPT !.online = TRUE]
        BY <2>1, <2>3, <3>1
      <4>3. Held(n)' = nicks[n].mask
        BY <4>1, <4>2 DEF Held, NickList
      <4>4. Held(n) = IF nicks[n].online THEN nicks[n].mask ELSE "offline"
        BY DEF Held
      <4>5. nicks[n].mask # "offline"
        BY <4>1 DEF NickList, Masks, NoMask
      <4>6. Held(n)' = IF Held(n) = "offline" THEN NoMask ELSE Held(n)
        BY <4>1, <4>3, <4>4, <4>5
      <4>7. QED
        BY <2>3, <3>1, <4>6 DEF Updates, Follows, About
    <3>2. CASE n \notin Head(s2c).nicks
      <4>1. Held(n)' = Held(n)
        BY <2>1, <2>3, <3>2 DEF Held
      <4>2. QED
        BY <3>2, <4>1 DEF Updates, Follows, About
    <3>3. QED
      BY <3>1, <3>2
  <2>5. QED
    BY <2>1, <2>2, <2>4, ReceiveFlow
<1>3. QED
  BY <1>1, <1>2

LEMMA OnlineFlow ==
  ASSUME Types, Flow, RecvOnline
  PROVE  Flow'
<1>1. CASE Unknown("online")
  BY <1>1, UnknownUpdates, ReceiveFlow
<1>2. CASE ~Unknown("online")
  <2>1. PICK n \in Known :
          /\ Receive("online")
          /\ nicks' = [nicks EXCEPT ![n].online = TRUE]
    BY <1>2 DEF RecvOnline
  <2>2. n \in Listed /\ n \in Head(s2c).nicks /\ Head(s2c).type = "online"
    BY <2>1 DEF Known, Receive
  <2>3. nicks[n] \in NickList /\ (~nicks[n].online => nicks[n].mask = NoMask)
        /\ nicks \in [Listed -> NickList]
    BY <2>2, TypesSplit DEF Lists, MasksOnline
  <2>4. nicks'[n] = [nicks[n] EXCEPT !.online = TRUE]
        /\ nicks' = [nicks EXCEPT ![n] = [nicks[n] EXCEPT !.online = TRUE]]
    BY <2>1, <2>2, <2>3
  <2>5. Held(n)' = nicks[n].mask
    BY <2>3, <2>4 DEF Held, NickList
  <2>6. Held(n) = "offline" => nicks[n].mask = NoMask
    BY <2>3 DEF Held, NickList, Masks, NoMask
  <2>7. Updates(n)
    BY <2>2, <2>5, <2>6 DEF Updates, Follows, About
  <2>8. QED
    BY <2>1, <2>4, <2>7, OneUpdates, ReceiveFlow
<1>3. QED
  BY <1>1, <1>2

LEMMA OfflineFlow ==
  ASSUME Types, Flow, RecvOffline
  PROVE  Flow'
<1>1. CASE Unknown("offline")
  BY <1>1, UnknownUpdates, ReceiveFlow
<1>2. CASE ~Unknown("offline")
  <2>1. PICK n \in Known :
          /\ Receive("offline")
          /\ nicks' = [nicks EXCEPT ![n] = Offline(nicks[n])]
    BY <1>2 DEF RecvOffline
  <2>2. n \in Listed /\ n \in Head(s2c).nicks /\ Head(s2c).type = "offline"
    BY <2>1 DEF Known, Receive
  <2>3. nicks[n] \in NickList
    BY <2>2, TypesSplit DEF Lists
  <2>4. nicks'[n] = Offline(nicks[n])
    BY <2>1, <2>2 DEF Listed
  <2>5. Held(n)' = "offline"
    BY <2>3, <2>4 DEF Held, Offline, NickList
  <2>6. Updates(n)
    BY <2>2, <2>5 DEF Updates, Follows, About
  <2>7. QED
    BY <2>1, <2>6, OneUpdates, ReceiveFlow
<1>3. QED
  BY <1>1, <1>2

LEMMA ChangeFlow ==
  ASSUME Types, Flow, RecvChange
  PROVE  Flow'
<1>1. CASE Unknown("STATUS_USER_CHG")
  BY <1>1, UnknownUpdates, ReceiveFlow
<1>2. CASE ~Unknown("STATUS_USER_CHG")
  <2>1. PICK n \in Known :
          /\ Receive("STATUS_USER_CHG")
          /\ nicks' = [nicks EXCEPT ![n].online = TRUE, ![n].mask = Head(s2c).mask]
    BY <1>2 DEF RecvChange
  <2>2. n \in Listed /\ n \in Head(s2c).nicks /\ Head(s2c).type = "STATUS_USER_CHG"
    BY <2>1 DEF Known, Receive
  <2>3. nicks[n] \in NickList /\ nicks \in [Listed -> NickList]
    BY <2>2, TypesSplit DEF Lists
  <2> DEFINE r == [nicks[n] EXCEPT !.online = TRUE, !.mask = Head(s2c).mask]
  <2>4. nicks' = [nicks EXCEPT ![n] = r] /\ nicks'[n] = r
    BY <2>1, <2>2, <2>3
  <2>5. r.online = TRUE /\ r.mask = Head(s2c).mask
    BY <2>3 DEF NickList
  <2> HIDE DEF r
  <2>6. Held(n)' = Head(s2c).mask
    BY <2>4, <2>5 DEF Held
  <2>7. Updates(n)
    BY <2>2, <2>6 DEF Updates, Follows, About
  <2>8. QED
    BY <2>1, <2>4, <2>7, OneUpdates, ReceiveFlow
<1>3. QED
  BY <1>1, <1>2

LEMMA NextFlow ==
  ASSUME Types, Types', Flow, [Next]_vars
  PROVE  Flow'
<1>1. ASSUME NEW n \in Nick, Add(n) \/ Del(n) \/ Ignore(n) \/ Unignore(n)
      PROVE  Flow'
  BY <1>1, AddFlow, DelFlow, IgnoreFlow, UnignoreFlow
<1>2. QED
  BY <1>1, JoinConsoleFlow, AnswerFlow, NickChangesFlow, UsersFlow, OnlineFlow,
     OfflineFlow, ChangeFlow, StutterFlow DEF Next, Idle

-----------------------------------------------------------------------------
(* Every step keeps the modes *)

ModesOf(nl) == {"v"} \cup (IF ShownOp(nl) THEN {"o"} ELSE {})
                     \cup (IF ShownHalfop(nl) THEN {"h"} ELSE {})

(* The inductive form of ModesAddUp: the modes are exactly those that the  *)
(* session would give the nick now.                                        *)
ModesExact == patient /\ plain => \A n \in Listed : view[n] = ModesOf(nicks[n])

Shown == NoneIgnored /\ ModesExact

LEMMA InitShown == ASSUME Init PROVE Shown
<1>1. Listed = {}
  BY DEF Init, Listed
<1>2. QED
  BY <1>1 DEF Shown, NoneIgnored, ModesExact

LEMMA ShownIs ==
  ASSUME Shown, NEW n \in Listed, plain
  PROVE  ~nicks[n].black_list /\ (patient => view[n] = ModesOf(nicks[n]))
  BY DEF Shown, NoneIgnored, ModesExact

LEMMA ShownAgain ==
  ASSUME plain' => \A n \in Listed' :
           /\ ~nicks'[n].black_list
           /\ patient' => view'[n] = ModesOf(nicks'[n])
  PROVE  Shown'
  BY DEF Shown, NoneIgnored, ModesExact

(* Every entry is as before, or new. *)
LEMMA AddShown ==
  ASSUME Types, Shown, NEW n \in Nick, Add(n)
  PROVE  Shown'
<1>1. Lists
  BY TypesSplit
<1>2. plain' = plain /\ (patient' => patient)
  <2>1. Rest
    BY TypesSplit
  <2>2. QED
    BY <2>1 DEF Add, Command, Rest
<1>3. CASE n \in Listed
  <2>1. UNCHANGED <<nicks, view>> /\ Listed' = Listed
    BY <1>3 DEF Add, Listed
  <2>2. QED
    BY <1>2, <2>1, ShownIs, ShownAgain
<1>4. CASE n \notin Listed
  <2>1. /\ Listed' = Listed \cup {n}
        /\ \A m \in Listed : nicks'[m] = nicks[m] /\ view'[m] = view[m]
        /\ nicks'[n] = NewNick /\ view'[n] = {"v"}
    BY <1>1, <1>4 DEF Add, With, Listed, Lists
  <2>2. ModesOf(NewNick) = {"v"} /\ ~NewNick.black_list
    BY DEF ModesOf, NewNick, ShownOp, ShownHalfop
  <2>3. QED
    BY <1>2, <2>1, <2>2, ShownIs, ShownAgain
<1>5. QED
  BY <1>3, <1>4

LEMMA DelShown ==
  ASSUME Types, Shown, NEW n \in Nick, Del(n)
  PROVE  Shown'
<1>1. plain' = plain /\ patient' = patient
  <2>1. Rest
    BY TypesSplit
  <2>2. QED
    BY <2>1 DEF Del, Command, Rest
<1>2. /\ Listed' \subseteq Listed
      /\ \A m \in Listed' : nicks'[m] = nicks[m] /\ view'[m] = view[m]
  <2>1. Lists
    BY TypesSplit
  <2>2. QED
    BY <2>1 DEF Del, Less, LeaveChannel, Listed, Lists
<1>3. QED
  BY <1>1, <1>2, ShownIs, ShownAgain

(* Steps that do not touch the list. *)
LEMMA QuietShown ==
  ASSUME Shown, UNCHANGED <<nicks, view, plain, patient>>
  PROVE  Shown'
<1>1. Listed' = Listed
  BY DEF Listed
<1>2. QED
  BY <1>1, ShownIs, ShownAgain

(* Ignoring and joining again are not plain. *)
LEMMA NotPlainShown ==
  ASSUME NEW packet, Command(packet, FALSE)
  PROVE  Shown'
<1>1. ~plain'
  BY DEF Command
<1>2. QED
  BY <1>1, ShownAgain

(* The first packet follows from what is held.                             *)
LEMMA FirstFollows ==
  ASSUME Types, Flow, patient, NEW type, type # "message", Receive(type), NEW n \in Known
  PROVE  \E a \in States : Follows(Held(n), n, Head(s2c), a)
<1>1. /\ n \in Listed /\ About(n, s2c[1])
      /\ Len(s2c) \in Nat \ {0} /\ Head(s2c) = s2c[1] /\ 1 \in 1..Len(s2c)
  BY ReceiveTypes, TakenTypes DEF Known, Receive, About
<1>2. Course(n)
  BY <1>1 DEF Flow
<1>3. n \in watched
  BY <1>1, <1>2 DEF Course
<1>4. PICK e \in States : Reaches(n, e)
  BY <1>2, <1>3 DEF Course
<1>5. PICK b \in [1..(Len(s2c) + 1) -> States] : Leads(b, n, e)
  BY <1>4 DEF Reaches
<1>6. b[1] = Held(n) /\ Follows(b[1], n, s2c[1], b[1 + 1])
  BY <1>1, <1>5 DEF Leads
<1>7. b[1 + 1] \in States
  BY <1>1, <1>5
<1>8. QED
  BY <1>1, <1>6, <1>7

LEMMA UnknownShown ==
  ASSUME Shown, NEW type, Unknown(type)
  PROVE  Shown'
  BY QuietShown DEF Unknown, Receive

(* A step that changes the entry and the modes of one nick.                *)
LEMMA OneShown ==
  ASSUME Types, Shown, NEW type, Receive(type), NEW n \in Listed,
         NEW r \in NickList, nicks' = [nicks EXCEPT ![n] = r],
         plain => r.black_list = nicks[n].black_list,
         NEW modes, view' = [view EXCEPT ![n] = modes],
         plain /\ patient => modes = ModesOf(r)
  PROVE  Shown'
<1>1. Lists
  BY TypesSplit
<1>2. UNCHANGED <<plain, patient>>
  BY DEF Receive
<1>3. /\ Listed' = Listed /\ nicks'[n] = r /\ view'[n] = modes
      /\ \A m \in Listed : m # n => nicks'[m] = nicks[m] /\ view'[m] = view[m]
  BY <1>1 DEF Lists, Listed
<1>4. QED
  BY <1>2, <1>3, ShownIs, ShownAgain

LEMMA UsersShown ==
  ASSUME Types, Flow, Shown, RecvUsers
  PROVE  Shown'
<1>1. CASE Unknown("SEND_USERS")
  BY <1>1, UnknownShown
<1>2. CASE ~Unknown("SEND_USERS")
  <2>1. /\ Receive("SEND_USERS")
        /\ view' = [n \in DOMAIN view |->
             IF n \in NewlyShown(Known) THEN view[n] \cup {"o"} ELSE view[n]]
        /\ nicks' = [n \in Listed |->
             IF n \in Known THEN [nicks[n] EXCEPT !.online = TRUE] ELSE nicks[n]]
    BY <1>2 DEF RecvUsers
  <2>2. Lists
    BY TypesSplit
  <2>3. Listed' = Listed /\ UNCHANGED <<plain, patient>> /\ DOMAIN view = Listed
    BY <2>1, <2>2 DEF Listed, Receive, Lists
  <2>4. ASSUME plain, NEW n \in Listed
        PROVE  /\ ~nicks'[n].black_list
               /\ patient => view'[n] = ModesOf(nicks'[n])
    <3>1. /\ nicks[n] \in NickList /\ (~nicks[n].online => nicks[n].mask = NoMask)
          /\ ~nicks[n].black_list /\ (patient => view[n] = ModesOf(nicks[n]))
      BY <2>2, <2>4, ShownIs DEF Lists, MasksOnline
    <3>2. CASE n \notin Known
      <4>1. n \notin NewlyShown(Known)
        BY <3>2 DEF NewlyShown
      <4>2. nicks'[n] = nicks[n] /\ view'[n] = view[n]
        BY <2>1, <2>3, <3>2, <4>1
      <4>3. QED
        BY <3>1, <4>2
    <3>3. CASE n \in Known
      <4>1. nicks'[n] = [nicks[n] EXCEPT !.online = TRUE]
        BY <2>1, <3>3
      <4>2. /\ nicks'[n].online = TRUE /\ nicks'[n].mask = nicks[n].mask
            /\ nicks'[n].black_list = nicks[n].black_list
        BY <3>1, <4>1 DEF NickList
      <4>3. CASE nicks[n].online
        <5>1. n \notin NewlyShown(Known)
          BY <4>3 DEF NewlyShown
        <5>2. view'[n] = view[n]
          BY <2>1, <2>3, <5>1
        <5>3. ModesOf(nicks'[n]) = ModesOf(nicks[n])
          BY <4>2, <4>3 DEF ModesOf, ShownOp, ShownHalfop
        <5>4. QED
          BY <3>1, <4>2, <5>2, <5>3
      <4>4. CASE ~nicks[n].online
        <5>1. n \in NewlyShown(Known)
          BY <3>1, <3>3, <4>4 DEF NewlyShown
        <5>2. view'[n] = view[n] \cup {"o"}
          BY <2>1, <2>3, <5>1
        <5>3. ModesOf(nicks[n]) = {"v"}
          BY <4>4 DEF ModesOf, ShownOp, ShownHalfop
        <5>4. ModesOf(nicks'[n]) = {"v"} \cup {"o"}
          BY <3>1, <4>2, <4>4 DEF ModesOf, ShownOp, ShownHalfop, NoMask
        <5>5. QED
          BY <3>1, <4>2, <5>2, <5>3, <5>4
      <4>5. QED
        BY <4>3, <4>4
    <3>4. QED
      BY <3>2, <3>3
  <2>5. QED
    BY <2>3, <2>4, ShownAgain
<1>3. QED
  BY <1>1, <1>2

LEMMA OnlineShown ==
  ASSUME Types, Flow, Shown, RecvOnline
  PROVE  Shown'
<1>1. CASE Unknown("online")
  BY <1>1, UnknownShown
<1>2. CASE ~Unknown("online")
  <2>1. PICK n \in Known :
          /\ Receive("online")
          /\ nicks' = [nicks EXCEPT ![n].online = TRUE]
          /\ \/ ~nicks[n].black_list /\ Modes(n, {}, {"o"})
             \/ nicks[n].black_list /\ UNCHANGED view
    BY <1>2 DEF RecvOnline
  <2>2. n \in Listed /\ n \in Head(s2c).nicks /\ Head(s2c).type = "online" /\ Lists
    BY <2>1, TypesSplit DEF Known, Receive
  <2>3. nicks[n] \in NickList /\ (~nicks[n].online => nicks[n].mask = NoMask)
    BY <2>2 DEF Lists, MasksOnline
  <2> DEFINE r == [nicks[n] EXCEPT !.online = TRUE]
             modes == IF nicks[n].black_list THEN view[n] ELSE view[n] \cup {"o"}
  <2>4. r \in NickList /\ r.online = TRUE /\ r.mask = nicks[n].mask
        /\ r.black_list = nicks[n].black_list
    BY <2>3 DEF NickList
  <2>5. nicks' = [nicks EXCEPT ![n] = r]
    BY <2>1, <2>2 DEF Lists
  <2>6. view' = [view EXCEPT ![n] = modes]
    <3>1. CASE nicks[n].black_list
      BY <2>1, <2>2, <3>1 DEF Lists
    <3>2. CASE ~nicks[n].black_list
      <4>1. view' = [view EXCEPT ![n] = (view[n] \ {}) \cup {"o"}]
        BY <2>1, <3>2 DEF Modes
      <4>2. (view[n] \ {}) = view[n]
        OBVIOUS
      <4>3. QED
        BY <3>2, <4>1, <4>2
    <3>3. QED
      BY <3>1, <3>2
  <2>7. ASSUME plain, patient
        PROVE  modes = ModesOf(r)
    <3>1. \E a \in States : Follows(Held(n), n, Head(s2c), a)
      BY <2>1, <2>7, FirstFollows
    <3>2. Held(n) = "offline"
      BY <2>2, <3>1 DEF Follows, About
    <3>3. ~nicks[n].online
      BY <2>3, <3>2 DEF Held, NickList, Masks, NoMask
    <3>4. ~nicks[n].black_list /\ view[n] = ModesOf(nicks[n])
      BY <2>2, <2>7, ShownIs
    <3>5. ModesOf(nicks[n]) = {"v"}
      BY <3>3 DEF ModesOf, ShownOp, ShownHalfop
    <3>6. ModesOf(r) = {"v"} \cup {"o"}
      BY <2>3, <2>4, <3>3 DEF ModesOf, ShownOp, ShownHalfop, NoMask
    <3>7. QED
      BY <3>4, <3>5, <3>6
  <2> HIDE DEF r, modes
  <2>8. QED
    BY <2>1, <2>2, <2>4, <2>5, <2>6, <2>7, OneShown
<1>3. QED
  BY <1>1, <1>2

LEMMA OfflineShown ==
  ASSUME Types, Flow, Shown, RecvOffline
  PROVE  Shown'
<1>1. CASE Unknown("offline")
  BY <1>1, UnknownShown
<1>2. CASE ~Unknown("offline")
  <2>1. PICK n \in Known :
          /\ Receive("offline")
          /\ nicks' = [nicks EXCEPT ![n] = Offline(nicks[n])]
          /\ \/ /\ ~nicks[n].black_list
                /\ Modes(n, IF nicks[n].mask \in {"available", NoMask} THEN {"o"} ELSE {"h"}, {"v"})
             \/ nicks[n].black_list /\ UNCHANGED view
    BY <1>2 DEF RecvOffline
  <2>2. n \in Listed /\ Lists
    BY <2>1, TypesSplit DEF Known
  <2>3. nicks[n] \in NickList
    BY <2>2 DEF Lists
  <2> DEFINE r     == Offline(nicks[n])
             minus == IF nicks[n].mask \in {"available", NoMask} THEN {"o"} ELSE {"h"}
             modes == IF nicks[n].black_list THEN view[n] ELSE (view[n] \ minus) \cup {"v"}
  <2>4. r \in NickList /\ r.online = FALSE /\ r.black_list = nicks[n].black_list
    BY <2>3 DEF NickList, Offline
  <2>5. nicks' = [nicks EXCEPT ![n] = r]
    BY <2>1
  <2>6. view' = [view EXCEPT ![n] = modes]
    <3>1. CASE nicks[n].black_list
      BY <2>1, <2>2, <3>1 DEF Lists
    <3>2. CASE ~nicks[n].black_list
      BY <2>1, <3>2 DEF Modes
    <3>3. QED
      BY <3>1, <3>2
  <2>7. ASSUME plain, patient
        PROVE  modes = ModesOf(r)
    <3>1. ~nicks[n].black_list /\ view[n] = ModesOf(nicks[n])
      BY <2>2, <2>7, ShownIs
    <3>2. ModesOf(r) = {"v"}
      BY <2>4 DEF ModesOf, ShownOp, ShownHalfop
    <3>3. ModesOf(nicks[n]) \ minus = {"v"}
      BY <2>3 DEF ModesOf, ShownOp, ShownHalfop, NickList, Masks, NoMask
    <3>4. QED
      BY <3>1, <3>2, <3>3
  <2> HIDE DEF r, modes
  <2>8. QED
    BY <2>1, <2>2, <2>4, <2>5, <2>6, <2>7, OneShown
<1>3. QED
  BY <1>1, <1>2

LEMMA ChangeShown ==
  ASSUME Types, Flow, Shown, RecvChange
  PROVE  Shown'
<1>1. CASE Unknown("STATUS_USER_CHG")
  BY <1>1, UnknownShown
<1>2. CASE ~Unknown("STATUS_USER_CHG")
  <2> DEFINE new == Head(s2c).mask
  <2>1. PICK n \in Known :
          /\ Receive("STATUS_USER_CHG")
          /\ nicks' = [nicks EXCEPT ![n].online = TRUE, ![n].mask = new]
          /\ \/ Downgraded(nicks[n].mask, new) /\ Modes(n, {"o"}, {"h"})
             \/ Upgraded(nicks[n].mask, new) /\ Modes(n, {"h"}, {"o"})
             \/ ~Downgraded(nicks[n].mask, new) /\ ~Upgraded(nicks[n].mask, new) /\ UNCHANGED view
    BY <1>2 DEF RecvChange
  <2>2. /\ n \in Listed /\ n \in Head(s2c).nicks /\ Lists
        /\ Head(s2c).type = "STATUS_USER_CHG" /\ new \in Masks
    BY <2>1, TypesSplit, ReceiveTypes, TakenTypes DEF Known, Receive, Proper
  <2> HIDE DEF new
  <2>3. nicks[n] \in NickList /\ nicks[n].mask \in Masks \cup {NoMask}
        /\ (~nicks[n].online => nicks[n].mask = NoMask)
    BY <2>2 DEF Lists, MasksOnline, NickList
  <2> DEFINE r == [nicks[n] EXCEPT !.online = TRUE, !.mask = new]
  <2>4. /\ r \in NickList /\ r.online = TRUE /\ r.mask = new
        /\ r.black_list = nicks[n].black_list
    BY <2>2, <2>3 DEF NickList
  <2>5. nicks' = [nicks EXCEPT ![n] = r]
    BY <2>1, <2>2 DEF Lists
  <2> HIDE DEF r
  <2>6. ASSUME plain, patient
        PROVE  /\ nicks[n].online
               /\ view[n] = ModesOf(nicks[n])
    <3>1. \E a \in States : Follows(Held(n), n, Head(s2c), a)
      BY <2>1, <2>6, FirstFollows
    <3>2. Held(n) # "offline"
      BY <2>2, <3>1 DEF Follows, About
    <3>3. QED
      BY <2>2, <2>6, <3>2, ShownIs DEF Held
  <2>7. ModesOf(r) = {"v"} \cup (IF new = "available" THEN {"o"} ELSE {"h"})
    BY <2>2, <2>4 DEF ModesOf, ShownOp, ShownHalfop, Masks, NoMask
  <2>8. nicks[n].online =>
          ModesOf(nicks[n]) = {"v"} \cup (IF nicks[n].mask \in {"available", NoMask}
                                          THEN {"o"} ELSE {"h"})
    BY <2>3 DEF ModesOf, ShownOp, ShownHalfop, Masks, NoMask
  <2>9. CASE Downgraded(nicks[n].mask, new)
    <3>1. nicks[n].mask \in {"available", NoMask} /\ new # "available"
      BY <2>9 DEF Downgraded
    <3>2. ~Upgraded(nicks[n].mask, new)
      BY <3>1 DEF Upgraded, NoMask
    <3>3. view' = [view EXCEPT ![n] = (view[n] \ {"o"}) \cup {"h"}]
      BY <2>1, <2>9, <3>2 DEF Modes
    <3>4. plain /\ patient => (view[n] \ {"o"}) \cup {"h"} = ModesOf(r)
      BY <2>6, <2>7, <2>8, <3>1
    <3>5. QED
      BY <2>1, <2>2, <2>4, <2>5, <3>3, <3>4, OneShown
  <2>10. CASE Upgraded(nicks[n].mask, new)
    <3>1. nicks[n].mask \in {"busy", "netfriends"} /\ new = "available"
      BY <2>10 DEF Upgraded
    <3>2. ~Downgraded(nicks[n].mask, new)
      BY <3>1 DEF Downgraded
    <3>3. view' = [view EXCEPT ![n] = (view[n] \ {"h"}) \cup {"o"}]
      BY <2>1, <2>10, <3>2 DEF Modes
    <3>4. plain /\ patient => (view[n] \ {"h"}) \cup {"o"} = ModesOf(r)
      BY <2>6, <2>7, <2>8, <3>1 DEF NoMask
    <3>5. QED
      BY <2>1, <2>2, <2>4, <2>5, <3>3, <3>4, OneShown
  <2>11. CASE ~Downgraded(nicks[n].mask, new) /\ ~Upgraded(nicks[n].mask, new)
    <3>1. nicks[n].mask \in {"available", NoMask} <=> new = "available"
      BY <2>2, <2>3, <2>11 DEF Downgraded, Upgraded, Masks, NoMask
    <3>2. view' = [view EXCEPT ![n] = view[n]]
      BY <2>1, <2>2, <2>11 DEF Lists
    <3>3. plain /\ patient => view[n] = ModesOf(r)
      BY <2>6, <2>7, <2>8, <3>1
    <3>4. QED
      BY <2>1, <2>2, <2>4, <2>5, <3>2, <3>3, OneShown
  <2>12. QED
    BY <2>9, <2>10, <2>11
<1>3. QED
  BY <1>1, <1>2

LEMMA NextShown ==
  ASSUME Types, Flow, Shown, [Next]_vars
  PROVE  Shown'
<1>1. ASSUME NEW n \in Nick, Ignore(n) \/ Unignore(n)
      PROVE  Shown'
  BY <1>1, NotPlainShown DEF Ignore, Unignore
<1>2. CASE JoinConsole
  BY <1>2, NotPlainShown DEF JoinConsole
<1>3. ASSUME NEW n \in Nick, Add(n) \/ Del(n)
      PROVE  Shown'
  BY <1>3, AddShown, DelShown
<1>4. CASE ServerAnswer \/ NickChanges \/ UNCHANGED vars
  BY <1>4, QuietShown DEF ServerAnswer, NickChanges, vars, clientVars
<1>5. QED
  BY <1>1, <1>2, <1>3, <1>4, UsersShown, OnlineShown, OfflineShown, ChangeShown DEF Next, Idle

-----------------------------------------------------------------------------
-----------------------------------------------------------------------------
(* What the server is told.                                                *)

(* What it was told before the packet, and is told behind it. *)
After(bits, p) == IF p.op = "status" THEN p.bits ELSE bits

(* From x, packet after packet, it is told y; and busy, whenever a message *)
(* is answered.                                                            *)
Tells(b, x, s, y) ==
  /\ b[0] = x /\ b[Len(s)] = y
  /\ \A i \in 1..Len(s) : /\ b[i] = After(b[i - 1], s[i])
                          /\ s[i].op = "message" => "busy" \in b[i - 1]

Tell(x, s, y) == \E b : Tells(b, x, s, y)

LEMMA TellNothing ==
  ASSUME NEW x
  PROVE  Tell(x, << >>, x)
<1> DEFINE b == [i \in 0..0 |-> x]
<1>1. b[0] = x /\ Len(<< >>) = 0 /\ 1..0 = {}
  OBVIOUS
<1> HIDE DEF b
<1>2. Tells(b, x, << >>, x)
  BY <1>1 DEF Tells
<1>3. QED
  BY <1>2 DEF Tell

LEMMA TellOne ==
  ASSUME NEW x, NEW p, p.op = "message" => "busy" \in x
  PROVE  Tell(x, <<p>>, After(x, p))
<1> DEFINE y == After(x, p)
           b == [i \in 0..1 |-> IF i = 0 THEN x ELSE y]
<1> HIDE DEF y
<1>1. b[0] = x /\ b[1] = y /\ Len(<<p>>) = 1 /\ <<p>>[1] = p /\ \A i \in 1..1 : i = 1
  OBVIOUS
<1> HIDE DEF b
<1>2. Tells(b, x, <<p>>, y)
  <2>1. ASSUME NEW i \in 1..1
        PROVE  /\ b[i] = After(b[i - 1], <<p>>[i])
               /\ <<p>>[i].op = "message" => "busy" \in b[i - 1]
    <3>1. i = 1 /\ i - 1 = 0
      BY <1>1
    <3>2. QED
      BY <1>1, <3>1 DEF y
  <2>2. QED
    BY <1>1, <2>1 DEF Tells
<1>3. QED
  BY <1>2 DEF Tell, y

(* Packets that tell a status, of which the last is y.                     *)
LEMMA TellStatus ==
  ASSUME NEW x, NEW s \in Seq(Telling), NEW y,
         s = << >> => x = y, s # << >> => s[Len(s)].bits = y
  PROVE  Tell(x, s, y)
<1> DEFINE n == Len(s)
           b == [i \in 0..n |-> IF i = 0 THEN x ELSE s[i].bits]
<1>1. n \in Nat /\ (n = 0 <=> s = << >>)
  BY LenProperties, EmptySeq
<1>2. \A i \in 1..n : s[i].op = "status"
  <2>1. \A i \in 1..n : s[i] \in Telling
    BY ElementOfSeq
  <2>2. QED
    BY <2>1 DEF Telling
<1>3. b[0] = x /\ \A i \in 1..n : b[i] = s[i].bits
  BY <1>1
<1>4. b[n] = y
  <2>1. CASE n = 0
    BY <1>1, <1>3, <2>1
  <2>2. CASE n # 0
    <3>1. n \in 1..n
      BY <1>1, <2>2
    <3>2. QED
      BY <1>1, <1>3, <2>2, <3>1
  <2>3. QED
    BY <2>1, <2>2
<1> HIDE DEF b
<1>5. Tells(b, x, s, y)
  BY <1>2, <1>3, <1>4 DEF Tells, After
<1>6. QED
  BY <1>5 DEF Tell

LEMMA TellJoined ==
  ASSUME NEW s \in Seq(Request), NEW t \in Seq(Request), NEW x, NEW y, NEW z,
         Tell(x, s, y), Tell(y, t, z)
  PROVE  Tell(x, s \o t, z)
<1>1. PICK b : Tells(b, x, s, y)
  BY DEF Tell
<1>2. PICK c : Tells(c, y, t, z)
  BY DEF Tell
<1>3. /\ Len(s \o t) = Len(s) + Len(t)
      /\ \A j \in 1..Len(s) : (s \o t)[j] = s[j]
      /\ \A j \in 1..Len(t) : (s \o t)[Len(s) + j] = t[j]
  BY JoinedProperties
<1>4. Len(s) \in Nat /\ Len(t) \in Nat
  BY LenProperties
<1> DEFINE n == Len(s)
           m == Len(t)
           st == s \o t
           d == [i \in 0..(n + m) |-> IF i <= n THEN b[i] ELSE c[i - n]]
<1>5. /\ n \in Nat /\ m \in Nat /\ Len(st) = n + m
      /\ \A j \in 1..n : st[j] = s[j]
      /\ \A j \in 1..m : st[n + j] = t[j]
  BY <1>3, <1>4
<1>6. /\ b[0] = x /\ b[n] = y /\ c[0] = y /\ c[m] = z
      /\ \A i \in 1..n : /\ b[i] = After(b[i - 1], s[i])
                         /\ s[i].op = "message" => "busy" \in b[i - 1]
      /\ \A i \in 1..m : /\ c[i] = After(c[i - 1], t[i])
                         /\ t[i].op = "message" => "busy" \in c[i - 1]
  BY <1>1, <1>2 DEF Tells
<1> HIDE DEF n, m, st
<1>7. /\ \A i \in 0..n : d[i] = b[i]
      /\ \A i \in 0..m : d[n + i] = c[i]
  <2>1. \A i \in 0..n : d[i] = b[i]
    BY <1>5
  <2>2. \A i \in 1..m : d[n + i] = c[i]
    BY <1>5
  <2>3. d[n + 0] = c[0]
    BY <1>5, <1>6
  <2>4. \A i \in 0..m : i = 0 \/ i \in 1..m
    BY <1>5
  <2>5. QED
    BY <2>1, <2>2, <2>3, <2>4
<1> HIDE DEF d
<1>8. ASSUME NEW i \in 1..(n + m)
      PROVE  d[i] = After(d[i - 1], st[i]) /\ (st[i].op = "message" => "busy" \in d[i - 1])
  <2>1. CASE i <= n
    <3>1. i \in 1..n /\ i \in 0..n /\ i - 1 \in 0..n
      BY <1>5, <2>1
    <3>2. QED
      BY <1>5, <1>6, <1>7, <3>1
  <2>2. CASE ~(i <= n)
    <3>1. PICK j \in 1..m : i = n + j
      <4>1. i - n \in 1..m /\ i = n + (i - n)
        BY <1>5, <2>2
      <4>2. QED
        BY <4>1
    <3>2. j \in 0..m /\ j - 1 \in 0..m /\ i - 1 = n + (j - 1)
      BY <1>5, <3>1
    <3>3. d[i] = c[j] /\ d[i - 1] = c[j - 1] /\ st[i] = t[j]
      BY <1>5, <1>7, <3>1, <3>2
    <3>4. QED
      BY <1>6, <3>1, <3>3
  <2>3. QED
    BY <2>1, <2>2
<1>9. d[0] = x /\ d[n + m] = z
  <2>1. 0 \in 0..n /\ m \in 0..m
    BY <1>5
  <2>2. QED
    BY <1>6, <1>7, <2>1
<1>10. Tells(d, x, st, z)
  BY <1>5, <1>8, <1>9 DEF Tells
<1>11. QED
  BY <1>10 DEF Tell, st

LEMMA TellTail ==
  ASSUME NEW s \in Seq(Request), s # << >>, NEW x, NEW y, Tell(x, s, y)
  PROVE  /\ Tell(After(x, Head(s)), Tail(s), y)
         /\ Head(s).op = "message" => "busy" \in x
<1>1. PICK b : Tells(b, x, s, y)
  BY DEF Tell
<1> DEFINE t == Tail(s)
           m == Len(t)
<1>2. /\ Len(s) \in Nat \ {0} /\ m = Len(s) - 1
      /\ \A i \in 1..m : t[i] = s[i + 1]
  BY HeadTailProperties, EmptySeq
<1>3. Head(s) = s[1]
  OBVIOUS
<1> HIDE DEF t
<1>4. m \in Nat /\ Len(s) = m + 1
  BY <1>2
<1> HIDE DEF m
<1>5. /\ b[0] = x /\ b[m + 1] = y
      /\ \A i \in 1..(m + 1) : /\ b[i] = After(b[i - 1], s[i])
                               /\ s[i].op = "message" => "busy" \in b[i - 1]
  BY <1>1, <1>4 DEF Tells
<1> DEFINE d == [i \in 0..m |-> b[i + 1]]
<1>6. \A i \in 0..m : d[i] = b[i + 1]
  OBVIOUS
<1> HIDE DEF d
<1>7. ASSUME NEW i \in 1..m
      PROVE  d[i] = After(d[i - 1], t[i]) /\ (t[i].op = "message" => "busy" \in d[i - 1])
  <2>1. i \in 0..m /\ i - 1 \in 0..m /\ (i - 1) + 1 = (i + 1) - 1 /\ i + 1 \in 1..(m + 1)
    BY <1>4
  <2>2. d[i] = b[i + 1] /\ d[i - 1] = b[(i + 1) - 1] /\ t[i] = s[i + 1]
    BY <1>2, <1>6, <2>1
  <2>3. QED
    BY <1>5, <2>1, <2>2
<1>8. 1 \in 1..(m + 1) /\ 1 - 1 = 0
  BY <1>4
<1>9. b[1] = After(x, s[1]) /\ (s[1].op = "message" => "busy" \in x)
  BY <1>5, <1>8
<1>10. d[0] = After(x, s[1]) /\ d[m] = y
  <2>1. 0 \in 0..m /\ m \in 0..m /\ 0 + 1 = 1
    BY <1>4
  <2>2. QED
    BY <1>5, <1>6, <1>9, <2>1
<1>11. Tells(d, After(x, s[1]), t, y)
  BY <1>7, <1>10 DEF Tells, m
<1>12. QED
  BY <1>3, <1>9, <1>11 DEF Tell, t

-----------------------------------------------------------------------------
(* The two foldings: of the packets on their way into what the server will *)
(* have been told, and of the letters of a command into what it does.      *)

Step(fold, x, e) == IF fold.of = "told" THEN After(x, e) ELSE OneMode(x, e, fold.text)

Folding(fold, s, f, it) ==
  it = [S \in SUBSET (DOMAIN s) |->
          IF S = {} THEN f ELSE Step(fold, it[S \ {Max(S)}], s[Max(S)])]

LEMMA MaxOfInterval ==
  ASSUME NEW n \in Nat, NEW S, S \subseteq 1..(n + 1), n + 1 \in S
  PROVE  Max(S) = n + 1
<1>1. \A y \in S : n + 1 >= y
  OBVIOUS
<1>2. \A x \in S : (\A y \in S : x >= y) => x = n + 1
  OBVIOUS
<1>3. QED
  BY <1>1, <1>2 DEF Max

LEMMA FoldingExists ==
  ASSUME NEW fold, NEW s, NEW n \in Nat, DOMAIN s = 1..n, NEW f
  PROVE  \E it : Folding(fold, s, f, it)
<1> DEFINE Body(it, S) == IF S = {} THEN f ELSE Step(fold, it[S \ {Max(S)}], s[Max(S)])
           Upto(k, it) == it = [S \in SUBSET (1..k) |-> Body(it, S)]
           T == {k \in Nat : \E it : Upto(k, it)}
<1>1. 0 \in T
  <2> DEFINE it == [S \in SUBSET (1..0) |-> f]
  <2>1. \A S \in SUBSET (1..0) : S = {}
    OBVIOUS
  <2>2. Upto(0, it)
    BY <2>1
  <2> HIDE DEF Upto, it
  <2>3. QED
    BY <2>2
<1>2. ASSUME NEW k \in Nat, k \in T
      PROVE  k + 1 \in T
  <2>1. PICK it : Upto(k, it)
    BY <1>2
  <2> DEFINE more == [S \in SUBSET (1..(k + 1)) |->
                        IF k + 1 \in S THEN Body(it, S) ELSE it[S]]
  <2>2. \A S \in SUBSET (1..k) : more[S] = it[S] /\ it[S] = Body(it, S)
    <3>1. \A S \in SUBSET (1..k) : S \in SUBSET (1..(k + 1)) /\ k + 1 \notin S
      OBVIOUS
    <3>2. QED
      BY <2>1, <3>1
  <2>3. \A S \in SUBSET (1..(k + 1)) : more[S] = Body(more, S)
    <3>1. SUFFICES ASSUME NEW S \in SUBSET (1..(k + 1))
                   PROVE  more[S] = Body(more, S)
      BY Zenon
    <3>2. S \ {Max(S)} \in SUBSET (1..k) => more[S \ {Max(S)}] = it[S \ {Max(S)}]
      BY <2>2
    <3>3. CASE k + 1 \in S
      <4>1. Max(S) = k + 1
        BY <3>3, MaxOfInterval
      <4>2. S \ {Max(S)} \in SUBSET (1..k)
        <5>1. \A x \in S : x # k + 1 => x \in 1..k
          OBVIOUS
        <5>2. QED
          BY <4>1, <5>1
      <4>3. more[S] = Body(it, S)
        BY <3>3
      <4> HIDE DEF more
      <4>4. QED
        BY <3>2, <4>2, <4>3
    <3>4. CASE k + 1 \notin S
      <4>1. S \in SUBSET (1..k)
        <5>1. \A x \in S : x # k + 1 => x \in 1..k
          OBVIOUS
        <5>2. QED
          BY <3>4, <5>1
      <4>2. S \ {Max(S)} \in SUBSET (1..k)
        BY <4>1
      <4> HIDE DEF more
      <4>3. QED
        BY <2>2, <3>2, <4>1, <4>2
    <3>5. QED
      BY <3>3, <3>4
  <2>4. more = [S \in SUBSET (1..(k + 1)) |-> more[S]]
    OBVIOUS
  <2> HIDE DEF more, Body
  <2>5. Upto(k + 1, more)
    BY <2>3, <2>4
  <2> HIDE DEF Upto
  <2>6. QED
    BY <2>5
<1>3. Nat \subseteq T
  <2> HIDE DEF T
  <2>1. QED
    BY <1>1, <1>2, SetInduction
<1>4. \E it : Upto(n, it)
  BY <1>3
<1>5. QED
  BY <1>4 DEF Folding

(* What is folded after every element. *)
Folded(fold, s, f, g) ==
  g[0] = f /\ \A k \in 1..Len(s) : g[k] = Step(fold, g[k - 1], s[k])

LEMMA FoldingSteps ==
  ASSUME NEW fold, NEW S, NEW s \in Seq(S), NEW f, NEW it, Folding(fold, s, f, it)
  PROVE  \E g : Folded(fold, s, f, g) /\ it[DOMAIN s] = g[Len(s)]
<1>1. PICK n \in Nat : n = Len(s) /\ DOMAIN s = 1..n
  BY LenProperties
<1> DEFINE g == [k \in 0..n |-> it[1..k]]
<1>2. \A k \in 0..n : g[k] = it[1..k]
  OBVIOUS
<1>3. it[{}] = f
  <2>1. {} \in SUBSET (DOMAIN s)
    OBVIOUS
  <2>2. QED
    BY <2>1 DEF Folding
<1>4. g[0] = f
  <2>1. 0 \in 0..n /\ 1..0 = {}
    OBVIOUS
  <2>2. QED
    BY <1>2, <1>3, <2>1
<1>5. ASSUME NEW k \in 1..n
      PROVE  g[k] = Step(fold, g[k - 1], s[k])
  <2> DEFINE S2 == 1..k
  <2>1. k - 1 \in Nat /\ k - 1 \in 0..n /\ k \in 0..n /\ (k - 1) + 1 = k
    OBVIOUS
  <2>2. S2 \in SUBSET (DOMAIN s) /\ S2 # {}
    <3>1. S2 \in SUBSET (1..n) /\ k \in S2
      OBVIOUS
    <3>2. QED
      BY <1>1, <3>1, Zenon
  <2>3. Max(1..((k - 1) + 1)) = (k - 1) + 1
    <3>1. (k - 1) + 1 \in 1..((k - 1) + 1)
      BY <2>1
    <3>2. QED
      BY <2>1, <3>1, MaxOfInterval
  <2>4. Max(S2) = k
    BY <2>1, <2>3
  <2>5. S2 \ {k} = 1..(k - 1)
    OBVIOUS
  <2>6. g[k] = it[S2] /\ g[k - 1] = it[1..(k - 1)]
    BY <1>2, <2>1
  <2> HIDE DEF S2, g
  <2>7. it[S2] = Step(fold, it[S2 \ {Max(S2)}], s[Max(S2)])
    BY <2>2 DEF Folding
  <2>8. QED
    BY <2>4, <2>5, <2>6, <2>7
<1>6. g[n] = it[DOMAIN s]
  BY <1>1, <1>2
<1> HIDE DEF g
<1>7. Folded(fold, s, f, g)
  BY <1>1, <1>4, <1>5 DEF Folded
<1>8. QED
  BY <1>1, <1>6, <1>7

LEMMA FoldOfTold ==
  ASSUME NEW S, c2s \in Seq(S)
  PROVE  \E g : Folded([of |-> "told"], c2s, told, g) /\ ToldSoon = g[Len(c2s)]
<1> DEFINE fold == [of |-> "told"]
           Iter(it) == it = [D \in SUBSET (DOMAIN c2s) |->
                              IF D = {} THEN told
                              ELSE IF c2s[Max(D)].op = "status" THEN c2s[Max(D)].bits
                              ELSE it[D \ {Max(D)}]]
           it0 == CHOOSE it : Iter(it)
<1>1. ToldSoon = it0[DOMAIN c2s]
  BY DEF ToldSoon, FoldLeft, MapThenFoldSet
<1>2. PICK n \in Nat : DOMAIN c2s = 1..n
  BY LenProperties
<1>3. \A it : Folding(fold, c2s, told, it) <=> Iter(it)
  BY DEF Folding, Step, After
<1>4. PICK it : Folding(fold, c2s, told, it)
  <2> HIDE DEF fold
  <2>1. QED
    BY <1>2, FoldingExists
<1>5. Iter(it0)
  <2>1. Iter(it)
    BY <1>3, <1>4
  <2> HIDE DEF Iter
  <2>2. QED
    BY <2>1
<1>6. Folding(fold, c2s, told, it0)
  <2> HIDE DEF Iter, it0, fold
  <2>1. QED
    BY <1>3, <1>5
<1> HIDE DEF it0, Iter, fold
<1>7. \E g : Folded(fold, c2s, told, g) /\ it0[DOMAIN c2s] = g[Len(c2s)]
  BY <1>6, FoldingSteps
<1>8. QED
  BY <1>1, <1>7 DEF fold

LEMMA FoldOfModes ==
  ASSUME NEW S, NEW modes \in Seq(S), NEW text
  PROVE  \E g : Folded([of |-> "modes", text |-> text], modes, Own, g)
                /\ ModeResult(modes, text) = g[Len(modes)]
<1> DEFINE fold == [of |-> "modes", text |-> text]
           Iter(it) == it = [D \in SUBSET (DOMAIN modes) |->
                              IF D = {} THEN Own
                              ELSE OneMode(it[D \ {Max(D)}], modes[Max(D)], text)]
           it0 == CHOOSE it : Iter(it)
<1>1. ModeResult(modes, text) = it0[DOMAIN modes]
  BY DEF ModeResult, FoldLeft, MapThenFoldSet
<1>2. PICK n \in Nat : DOMAIN modes = 1..n
  BY LenProperties
<1>3. \A it : Folding(fold, modes, Own, it) <=> Iter(it)
  BY DEF Folding, Step
<1>4. PICK it : Folding(fold, modes, Own, it)
  <2> HIDE DEF fold
  <2>1. QED
    BY <1>2, FoldingExists
<1>5. Iter(it0)
  <2>1. Iter(it)
    BY <1>3, <1>4
  <2> HIDE DEF Iter
  <2>2. QED
    BY <2>1
<1>6. Folding(fold, modes, Own, it0)
  <2> HIDE DEF Iter, it0, fold
  <2>1. QED
    BY <1>3, <1>5
<1> HIDE DEF it0, Iter, fold
<1>7. \E g : Folded(fold, modes, Own, g) /\ it0[DOMAIN modes] = g[Len(modes)]
  BY <1>6, FoldingSteps
<1>8. QED
  BY <1>1, <1>7 DEF fold

LEMMA TellShows ==
  ASSUME NEW S, c2s \in Seq(S), Tell(told, c2s, status)
  PROVE  ToldSoon = status
<1>1. PICK g : Folded([of |-> "told"], c2s, told, g) /\ ToldSoon = g[Len(c2s)]
  BY FoldOfTold
<1>2. PICK b : Tells(b, told, c2s, status)
  BY DEF Tell
<1>3. PICK n \in Nat : n = Len(c2s)
  BY LenProperties
<1>4. /\ g[0] = told /\ b[0] = told /\ b[n] = status
      /\ \A k \in 1..n : g[k] = After(g[k - 1], c2s[k]) /\ b[k] = After(b[k - 1], c2s[k])
  BY <1>1, <1>2, <1>3 DEF Folded, Tells, Step
<1> DEFINE T == {k \in Nat : k <= n => g[k] = b[k]}
<1>5. 0 \in T
  BY <1>4
<1>6. ASSUME NEW k \in Nat, k \in T
      PROVE  k + 1 \in T
  <2> SUFFICES ASSUME k + 1 <= n
               PROVE  g[k + 1] = b[k + 1]
    OBVIOUS
  <2>1. k + 1 \in 1..n /\ k + 1 - 1 = k /\ k <= n
    BY <1>3
  <2>2. g[k] = b[k]
    BY <1>6, <2>1
  <2>3. QED
    BY <1>4, <2>1, <2>2
<1>7. Nat \subseteq T
  <2> HIDE DEF T
  <2>1. QED
    BY <1>5, <1>6, SetInduction
<1>8. g[n] = b[n]
  BY <1>7
<1>9. QED
  BY <1>1, <1>3, <1>4, <1>8

-----------------------------------------------------------------------------
(* The user's own status.                                                  *)

OwnRecord ==
  [status : SUBSET Bits, away : Text \cup {NoText}, umodes : SUBSET {"a", "n", "i"},
   sent : Seq(Telling)]

(* One status, and what is shown and answered for it. *)
Sound(s, a, u) ==
  /\ s \subseteq Bits /\ a \in Text \cup {NoText} /\ u \subseteq {"a", "n", "i"}
  /\ "online" \in s
  /\ \E bit \in StatusMask : s \cap StatusMask = {bit}
  /\ a # NoText => "busy" \in s
  /\ "busy" \in s => "a" \in u
  /\ "netfriends" \in s => "n" \in u
  /\ "visible ip" \in s => "i" \notin u

(* From the status old, the last packet tells what it is now. *)
SaysLast(o, s, old) ==
  /\ o \in Seq(Telling)
  /\ o = << >> => s = old
  /\ o # << >> => o[Len(o)].bits = s

Fine(own) ==
  /\ own \in OwnRecord
  /\ Sound(own.status, own.away, own.umodes)
  /\ SaysLast(own.sent, own.status, status)

Entry(s, a, u, o) == [status |-> s, away |-> a, umodes |-> u, sent |-> o]

Says(o, s) == Append(o, [op |-> "status", bits |-> s])

OfBits(s) == s \cap Bits = s

LEMMA OwnEntry ==
  ASSUME NEW own \in OwnRecord
  PROVE  own = Entry(own.status, own.away, own.umodes, own.sent)
  BY DEF OwnRecord, Entry

LEMMA SendIs ==
  ASSUME NEW s, OfBits(s), NEW a, NEW u, NEW o
  PROVE  SendStatus(Entry(s, a, u, o)) = Entry(s, a, u, Says(o, s))
<1> DEFINE own == Entry(s, a, u, o)
           e == Append(o, [op |-> "status", bits |-> s])
<1>1. own.sent = o /\ own.status \cap Bits = s
  BY DEF Entry, OfBits
<1>2. Append(own.sent, [op |-> "status", bits |-> own.status \cap Bits]) = e
  BY <1>1
<1> HIDE DEF own
<1>3. SendStatus(own) = [own EXCEPT !.sent = e]
  BY <1>2 DEF SendStatus
<1> HIDE DEF e
<1>4. [own EXCEPT !.sent = e] = Entry(s, a, u, e)
  BY DEF own, Entry
<1>5. QED
  BY <1>3, <1>4 DEF e, own, Says

LEMMA ShowIs ==
  ASSUME NEW s, NEW a, NEW u, NEW o, NEW on \in BOOLEAN, NEW letter
  PROVE  ShowMode(Entry(s, a, u, o), on, letter)
           = Entry(s, a, IF on THEN u \cup {letter} ELSE u \ {letter}, o)
  BY DEF ShowMode, Entry

LEMMA ForgetIs ==
  ASSUME NEW s, NEW a, NEW u, NEW o
  PROVE  ForgetAway(Entry(s, a, u, o)) = Entry(s, NoText, u, o)
  BY DEF ForgetAway, Entry

Chosen(s, bit) == (s \ StatusMask) \cup {bit}

LEMMA ChooseIs ==
  ASSUME NEW s, NEW a, NEW u, NEW o, NEW bit
  PROVE  Choose(Entry(s, a, u, o), bit) = Entry(Chosen(s, bit), a, u, o)
  BY DEF Choose, Entry, Chosen

LEMMA ChosenBits ==
  ASSUME NEW s, s \subseteq Bits, NEW bit \in StatusMask
  PROVE  OfBits(Chosen(s, bit))
  BY DEF OfBits, Chosen, Bits, StatusMask

Sent(s, a, u, o) == Entry(s, a, u, Says(o, s))

BusyEntry(s, a, u, o, on, text) ==
  Sent(Chosen(s, IF on THEN "busy" ELSE "available"),
       IF ~on THEN NoText ELSE IF text = NoText THEN a ELSE text,
       IF on THEN u \cup {"a"} ELSE u \ {"a"}, o)

LEMMA BusyIs ==
  ASSUME NEW s, s \subseteq Bits, NEW a, NEW u, NEW o, NEW on \in BOOLEAN, NEW text
  PROVE  Busy(Entry(s, a, u, o), on, text) = BusyEntry(s, a, u, o, on, text)
<1> DEFINE own == Entry(s, a, u, o)
           c == Chosen(s, IF on THEN "busy" ELSE "available")
           aw == IF ~on THEN NoText ELSE IF text = NoText THEN a ELSE text
           chosen == IF ~on THEN ForgetAway(Choose(own, "available"))
                     ELSE IF text = NoText THEN Choose(own, "busy")
                     ELSE [Choose(own, "busy") EXCEPT !.away = text]
<1>1. Busy(own, on, text) = ShowMode(SendStatus(chosen), on, "a")
  BY DEF Busy
<1>2. OfBits(c)
  BY ChosenBits DEF StatusMask
<1>3. chosen = Entry(c, aw, u, o)
  <2>1. CASE ~on
    BY <2>1, ChooseIs, ForgetIs
  <2>2. CASE on /\ text = NoText
    BY <2>2, ChooseIs
  <2>3. CASE on /\ text # NoText
    <3>1. Choose(own, "busy") = Entry(c, a, u, o)
      BY <2>3, ChooseIs
    <3>2. [Entry(c, a, u, o) EXCEPT !.away = text] = Entry(c, text, u, o)
      BY DEF Entry
    <3> HIDE DEF c
    <3>3. QED
      BY <2>3, <3>1, <3>2
  <2>4. QED
    BY <2>1, <2>2, <2>3
<1> HIDE DEF c, aw, chosen
<1>4. SendStatus(chosen) = Entry(c, aw, u, Says(o, c))
  BY <1>2, <1>3, SendIs
<1>5. ShowMode(SendStatus(chosen), on, "a")
        = Entry(c, aw, IF on THEN u \cup {"a"} ELSE u \ {"a"}, Says(o, c))
  BY <1>4, ShowIs
<1>6. QED
  BY <1>1, <1>5 DEF c, aw, BusyEntry, Sent

FriendsEntry(s, u, o, on) ==
  Sent(Chosen(s, IF on THEN "netfriends" ELSE "available"), NoText,
       IF on THEN u \cup {"n"} ELSE u \ {"n"}, o)

LEMMA OnlyFriendsIs ==
  ASSUME NEW s, s \subseteq Bits, NEW a, NEW u, NEW o, NEW on \in BOOLEAN
  PROVE  OnlyFriends(Entry(s, a, u, o), on) = FriendsEntry(s, u, o, on)
<1> DEFINE bit == IF on THEN "netfriends" ELSE "available"
           own == Entry(s, a, u, o)
           c == Chosen(s, bit)
           v == IF on THEN u \cup {"n"} ELSE u \ {"n"}
<1>1. OnlyFriends(own, on) = ForgetAway(ShowMode(SendStatus(Choose(own, bit)), on, "n"))
  BY DEF OnlyFriends
<1>2. OfBits(c)
  BY ChosenBits DEF StatusMask
<1>3. Choose(own, bit) = Entry(c, a, u, o)
  BY ChooseIs
<1> HIDE DEF c
<1>4. SendStatus(Entry(c, a, u, o)) = Entry(c, a, u, Says(o, c))
  BY <1>2, SendIs
<1>5. ShowMode(Entry(c, a, u, Says(o, c)), on, "n") = Entry(c, a, v, Says(o, c))
  BY ShowIs
<1> HIDE DEF v
<1>6. ForgetAway(Entry(c, a, v, Says(o, c))) = Entry(c, NoText, v, Says(o, c))
  BY ForgetIs
<1>7. QED
  BY <1>1, <1>3, <1>4, <1>5, <1>6 DEF c, v, FriendsEntry, Sent

IpEntry(s, a, u, o, on) ==
  Sent(IF on THEN s \ {"visible ip"} ELSE s \cup {"visible ip"}, a,
       IF on THEN u \cup {"i"} ELSE u \ {"i"}, o)

LEMMA VisibleIpIs ==
  ASSUME NEW s, s \subseteq Bits, NEW a, NEW u, NEW o, NEW on \in BOOLEAN
  PROVE  VisibleIp(Entry(s, a, u, o), on) = IpEntry(s, a, u, o, on)
<1> DEFINE own == Entry(s, a, u, o)
           c == IF on THEN s \ {"visible ip"} ELSE s \cup {"visible ip"}
<1>1. own.status = s
  BY DEF Entry
<1>2. [own EXCEPT !.status = IF on THEN own.status \ {"visible ip"}
                                   ELSE own.status \cup {"visible ip"}]
        = [own EXCEPT !.status = c]
  BY <1>1
<1>3. OfBits(c)
  BY DEF OfBits, Bits
<1> HIDE DEF c
<1>4. [own EXCEPT !.status = c] = Entry(c, a, u, o)
  BY DEF Entry
<1> HIDE DEF own
<1>5. VisibleIp(own, on) = ShowMode(SendStatus(Entry(c, a, u, o)), on, "i")
  BY <1>2, <1>4 DEF VisibleIp
<1>6. SendStatus(Entry(c, a, u, o)) = Entry(c, a, u, Says(o, c))
  BY <1>3, SendIs
<1>7. ShowMode(Entry(c, a, u, Says(o, c)), on, "i")
        = Entry(c, a, IF on THEN u \cup {"i"} ELSE u \ {"i"}, Says(o, c))
  BY ShowIs
<1>8. QED
  BY <1>5, <1>6, <1>7 DEF c, own, IpEntry, Sent

LEMMA FineEntry ==
  ASSUME NEW s, NEW a, NEW u, Sound(s, a, u), NEW o \in Seq(Telling)
  PROVE  Fine(Entry(s, a, u, Says(o, s)))
<1> DEFINE e == [op |-> "status", bits |-> s]
<1>1. e \in Telling /\ e.bits = s
  BY DEF Telling, Sound
<1> HIDE DEF e
<1>2. /\ Append(o, e) \in Seq(Telling) /\ Append(o, e) # << >>
      /\ Len(Append(o, e)) = Len(o) + 1
      /\ Append(o, e)[Len(o) + 1] = e
  BY <1>1, AppendProperties
<1> DEFINE so == Append(o, e)
<1>3. so \in Seq(Telling) /\ so # << >> /\ so[Len(so)].bits = s
  BY <1>1, <1>2
<1>4. Says(o, s) = so
  BY DEF Says, e
<1> HIDE DEF so
<1> DEFINE own == Entry(s, a, u, so)
<1>5. own.status = s /\ own.away = a /\ own.umodes = u /\ own.sent = so
  BY DEF Entry
<1>6. own \in OwnRecord
  BY <1>3 DEF Entry, OwnRecord, Sound
<1> HIDE DEF own
<1>7. Fine(own)
  BY <1>3, <1>5, <1>6 DEF Fine, SaysLast
<1>8. QED
  BY <1>4, <1>7 DEF own

LEMMA FineIs ==
  ASSUME NEW own, Fine(own)
  PROVE  \E s, a, u, o : own = Entry(s, a, u, o) /\ Sound(s, a, u) /\ o \in Seq(Telling)
                         /\ s \subseteq Bits /\ s = own.status
<1>1. own = Entry(own.status, own.away, own.umodes, own.sent)
  BY OwnEntry DEF Fine
<1>2. Sound(own.status, own.away, own.umodes) /\ own.sent \in Seq(Telling)
  BY DEF Fine, SaysLast
<1>3. own.status \subseteq Bits
  BY <1>2 DEF Sound
<1>4. QED
  BY <1>1, <1>2, <1>3

LEMMA ChosenIs ==
  ASSUME NEW s, NEW bit \in StatusMask
  PROVE  /\ Chosen(s, bit) \cap StatusMask = {bit}
         /\ \A x \in {"online", "visible ip"} : x \in Chosen(s, bit) <=> x \in s
         /\ \A x \in StatusMask : x \in Chosen(s, bit) <=> x = bit
         /\ s \subseteq Bits => Chosen(s, bit) \subseteq Bits
  BY DEF Chosen, StatusMask, Bits

LEMMA FineBusy ==
  ASSUME NEW own, Fine(own), NEW on \in BOOLEAN, NEW text \in Text \cup {NoText}
  PROVE  Fine(Busy(own, on, text))
<1>1. PICK s, a, u, o : own = Entry(s, a, u, o) /\ Sound(s, a, u) /\ o \in Seq(Telling)
                        /\ s \subseteq Bits
  BY FineIs
<1> DEFINE c  == Chosen(s, IF on THEN "busy" ELSE "available")
           aw == IF ~on THEN NoText ELSE IF text = NoText THEN a ELSE text
           v  == IF on THEN u \cup {"a"} ELSE u \ {"a"}
<1>2. Busy(own, on, text) = Entry(c, aw, v, Says(o, c))
  <2>1. s \subseteq Bits
    BY <1>1
  <2>2. Busy(Entry(s, a, u, o), on, text) = BusyEntry(s, a, u, o, on, text)
    BY <2>1, BusyIs
  <2>3. QED
    BY <1>1, <2>2 DEF BusyEntry, Sent
<1>3. Sound(c, aw, v)
  <2> DEFINE bit == IF on THEN "busy" ELSE "available"
  <2>1. /\ c \cap StatusMask = {bit} /\ c \subseteq Bits /\ bit \in StatusMask
        /\ ("online" \in c <=> "online" \in s) /\ ("visible ip" \in c <=> "visible ip" \in s)
        /\ "busy" \in c <=> bit = "busy"
        /\ "netfriends" \in c <=> bit = "netfriends"
    <3>1. /\ bit \in StatusMask /\ "busy" \in StatusMask /\ "netfriends" \in StatusMask
          /\ c = Chosen(s, bit)
      BY DEF StatusMask
    <3> HIDE DEF bit, c
    <3>2. QED
      BY <1>1, <3>1, ChosenIs
  <2> HIDE DEF c
  <2>2. ("busy" \in c <=> on) /\ "netfriends" \notin c
    BY <2>1
  <2>3. aw \in Text \cup {NoText} /\ (aw # NoText => on)
    BY <1>1 DEF Sound
  <2>4. /\ v \subseteq {"a", "n", "i"} /\ (on => "a" \in v)
        /\ ("i" \in v <=> "i" \in u)
    BY <1>1 DEF Sound
  <2>5. QED
    BY <1>1, <2>1, <2>2, <2>3, <2>4 DEF Sound
<1> HIDE DEF c, aw, v
<1>4. QED
  BY <1>1, <1>2, <1>3, FineEntry

LEMMA FineOnlyFriends ==
  ASSUME NEW own, Fine(own), NEW on \in BOOLEAN
  PROVE  Fine(OnlyFriends(own, on))
<1>1. PICK s, a, u, o : own = Entry(s, a, u, o) /\ Sound(s, a, u) /\ o \in Seq(Telling)
                        /\ s \subseteq Bits
  BY FineIs
<1> DEFINE c == Chosen(s, IF on THEN "netfriends" ELSE "available")
           v == IF on THEN u \cup {"n"} ELSE u \ {"n"}
<1>2. OnlyFriends(own, on) = Entry(c, NoText, v, Says(o, c))
  <2>1. s \subseteq Bits
    BY <1>1
  <2>2. OnlyFriends(Entry(s, a, u, o), on) = FriendsEntry(s, u, o, on)
    BY <2>1, OnlyFriendsIs
  <2>3. QED
    BY <1>1, <2>2 DEF FriendsEntry, Sent
<1>3. Sound(c, NoText, v)
  <2> DEFINE bit == IF on THEN "netfriends" ELSE "available"
  <2>1. /\ c \cap StatusMask = {bit} /\ c \subseteq Bits /\ bit \in StatusMask
        /\ ("online" \in c <=> "online" \in s) /\ ("visible ip" \in c <=> "visible ip" \in s)
        /\ "busy" \in c <=> bit = "busy"
        /\ "netfriends" \in c <=> bit = "netfriends"
    <3>1. /\ bit \in StatusMask /\ "busy" \in StatusMask /\ "netfriends" \in StatusMask
          /\ c = Chosen(s, bit)
      BY DEF StatusMask
    <3> HIDE DEF bit, c
    <3>2. QED
      BY <1>1, <3>1, ChosenIs
  <2> HIDE DEF c
  <2>2. ("netfriends" \in c => on) /\ "busy" \notin c
    BY <2>1
  <2>3. /\ v \subseteq {"a", "n", "i"} /\ (on => "n" \in v)
        /\ ("i" \in v <=> "i" \in u)
    BY <1>1 DEF Sound
  <2>4. QED
    BY <1>1, <2>1, <2>2, <2>3 DEF Sound
<1> HIDE DEF c, v
<1>4. QED
  BY <1>1, <1>2, <1>3, FineEntry

LEMMA FineVisibleIp ==
  ASSUME NEW own, Fine(own), NEW on \in BOOLEAN
  PROVE  Fine(VisibleIp(own, on))
<1>1. PICK s, a, u, o : own = Entry(s, a, u, o) /\ Sound(s, a, u) /\ o \in Seq(Telling)
                        /\ s \subseteq Bits
  BY FineIs
<1> DEFINE c == IF on THEN s \ {"visible ip"} ELSE s \cup {"visible ip"}
           v == IF on THEN u \cup {"i"} ELSE u \ {"i"}
<1>2. VisibleIp(own, on) = Entry(c, a, v, Says(o, c))
  <2>1. s \subseteq Bits
    BY <1>1
  <2>2. VisibleIp(Entry(s, a, u, o), on) = IpEntry(s, a, u, o, on)
    BY <2>1, VisibleIpIs
  <2>3. QED
    BY <1>1, <2>2 DEF IpEntry, Sent
<1>3. Sound(c, a, v)
  <2>1. /\ c \subseteq Bits /\ ("online" \in c <=> "online" \in s)
        /\ \A x \in StatusMask : x \in c <=> x \in s
        /\ "visible ip" \in c <=> ~on
    BY <1>1 DEF StatusMask, Bits
  <2>2. /\ v \subseteq {"a", "n", "i"} /\ ("i" \in v <=> on)
        /\ ("a" \in v <=> "a" \in u) /\ ("n" \in v <=> "n" \in u)
    BY <1>1 DEF Sound
  <2> HIDE DEF c, v
  <2>3. c \cap StatusMask = s \cap StatusMask
    BY <2>1
  <2>4. ("busy" \in c <=> "busy" \in s) /\ ("netfriends" \in c <=> "netfriends" \in s)
    BY <2>1 DEF StatusMask
  <2>5. QED
    BY <1>1, <2>1, <2>2, <2>3, <2>4 DEF Sound
<1> HIDE DEF c, v
<1>4. QED
  BY <1>1, <1>2, <1>3, FineEntry

LEMMA FineAvailable ==
  ASSUME NEW own, Fine(own)
  PROVE  Fine(Available(own))
<1> DEFINE notBusy == IF "busy" \in own.status THEN Busy(own, FALSE, NoText) ELSE own
<1>1. Fine(notBusy)
  BY FineBusy
<1> HIDE DEF notBusy
<1>2. Fine(OnlyFriends(notBusy, FALSE))
  BY <1>1, FineOnlyFriends
<1>3. Available(own) = IF "netfriends" \in notBusy.status THEN OnlyFriends(notBusy, FALSE)
                       ELSE notBusy
  BY DEF Available, notBusy
<1>4. QED
  BY <1>1, <1>2, <1>3

Mode == [plus : BOOLEAN, letter : {"a", "n", "i"}]

LEMMA FineOneMode ==
  ASSUME NEW own, Fine(own), NEW m \in Mode, NEW text \in Text \cup {NoText}
  PROVE  Fine(OneMode(own, m, text))
<1>1. m.plus \in BOOLEAN /\ m.letter \in {"a", "n", "i"}
  BY DEF Mode
<1> DEFINE arg == IF m.plus THEN text ELSE NoText
<1>2. CASE m.letter = "a"
  <2>1. OneMode(own, m, text) = Busy(own, m.plus, arg)
    BY <1>2 DEF OneMode
  <2>2. arg \in Text \cup {NoText}
    OBVIOUS
  <2> HIDE DEF arg
  <2>3. QED
    BY <1>1, <2>1, <2>2, FineBusy
<1>3. CASE m.letter = "n"
  <2>1. OneMode(own, m, text) = OnlyFriends(own, m.plus)
    BY <1>3 DEF OneMode
  <2>2. QED
    BY <1>1, <2>1, FineOnlyFriends
<1>4. CASE m.letter = "i"
  <2>1. OneMode(own, m, text) = VisibleIp(own, m.plus)
    BY <1>4 DEF OneMode
  <2>2. QED
    BY <1>1, <2>1, FineVisibleIp
<1>5. QED
  BY <1>1, <1>2, <1>3, <1>4

LEMMA FineModes ==
  ASSUME Fine(Own), NEW modes \in Seq(Mode), NEW text \in Text \cup {NoText}
  PROVE  Fine(ModeResult(modes, text))
<1> DEFINE fold == [of |-> "modes", text |-> text]
<1>1. PICK g : Folded(fold, modes, Own, g) /\ ModeResult(modes, text) = g[Len(modes)]
  BY FoldOfModes
<1>2. fold.of # "told" /\ fold.text = text
  OBVIOUS
<1>3. PICK n \in Nat : n = Len(modes)
  BY LenProperties
<1> HIDE DEF fold
<1>4. g[0] = Own /\ \A k \in 1..n : g[k] = OneMode(g[k - 1], modes[k], text)
  BY <1>1, <1>2, <1>3 DEF Folded, Step
<1> DEFINE T == {k \in Nat : k <= n => Fine(g[k])}
<1>5. 0 \in T
  BY <1>4
<1>6. ASSUME NEW k \in Nat, k \in T
      PROVE  k + 1 \in T
  <2> SUFFICES ASSUME k + 1 <= n
               PROVE  Fine(g[k + 1])
    OBVIOUS
  <2>1. k + 1 \in 1..n /\ k + 1 - 1 = k /\ k <= n
    BY <1>3
  <2>2. Fine(g[k])
    BY <1>6, <2>1
  <2>3. modes[k + 1] \in Mode
    BY <1>3, <2>1, ElementOfSeq
  <2>4. g[k + 1] = OneMode(g[k], modes[k + 1], text)
    BY <1>4, <2>1
  <2>5. QED
    BY <2>2, <2>3, <2>4, FineOneMode
<1>7. Nat \subseteq T
  <2> HIDE DEF T
  <2>1. QED
    BY <1>5, <1>6, SetInduction
<1>8. Fine(g[n])
  BY <1>7
<1>9. QED
  BY <1>1, <1>3, <1>8

LEMMA FineResults ==
  ASSUME OwnAssumption, Fine(Own), NEW own \in Results
  PROVE  Fine(own)
<1>1. ASSUME NEW modes \in ModeArgs, NEW text \in Text \cup {NoText}
      PROVE  Fine(ModeResult(modes, text))
  <2>1. modes \in Seq(Mode)
    BY DEF OwnAssumption, Mode
  <2>2. QED
    BY <2>1, FineModes
<1>2. Fine(Available(Own)) /\ Fine(Busy(Own, TRUE, NoText)) /\ Fine(OnlyFriends(Own, TRUE))
  BY FineAvailable, FineBusy, FineOnlyFriends
<1>3. \/ \E modes \in ModeArgs, text \in Text \cup {NoText} : own = ModeResult(modes, text)
      \/ own \in {Available(Own), Busy(Own, TRUE, NoText), OnlyFriends(Own, TRUE)}
  <2> DEFINE A == {ModeResult(modes, text) : modes \in ModeArgs, text \in Text \cup {NoText}}
             B == {Available(Own), Busy(Own, TRUE, NoText), OnlyFriends(Own, TRUE)}
  <2>1. Results = A \cup B
    BY DEF Results
  <2>2. own \in A => \E modes \in ModeArgs, text \in Text \cup {NoText} :
                         own = ModeResult(modes, text)
    OBVIOUS
  <2> HIDE DEF A, B
  <2>3. own \in A \/ own \in B
    BY <2>1
  <2>4. QED
    BY <2>2, <2>3 DEF B
<1>4. QED
  BY <1>1, <1>2, <1>3

-----------------------------------------------------------------------------
(* Commands of the own status and messages leave the list alone.           *)

Talk == Answer \cup Telling

LEMMA TalkIs ==
  /\ Talk \subseteq Request
  /\ \A n : ReqOf(n) \notin Talk /\ DelOf(n) \notin Talk
<1>1. Talk \subseteq Request
  BY DEF Talk, Request
<1>2. \A r \in Talk : r.op = "message" \/ r.op = "status"
  BY DEF Talk, Answer, Telling
<1>3. \A n : ReqOf(n).op = "users req" /\ DelOf(n).op = "users del"
  BY DEF ReqOf, DelOf
<1>4. QED
  BY <1>1, <1>2, <1>3

LEMMA TalkSeq ==
  ASSUME NEW packet \in Seq(Talk)
  PROVE  packet \in Seq(Request)
BY TalkIs

(* More is said to the server, which is not about the list. *)
LEMMA TalkFlow ==
  ASSUME Types, Flow, NEW packet \in Seq(Talk), c2s' = c2s \o packet,
         UNCHANGED <<nicks, watched, patient>>,
         \A n \in Listed : Course(n) => Course(n)'
  PROVE  Flow'
<1>1. c2s \in Seq(Request) /\ packet \in Seq(Request)
  BY StreamTypes, TalkSeq
<1>2. /\ Len(c2s') = Len(c2s) + Len(packet)
      /\ \A i \in 1..Len(c2s) : c2s'[i] = c2s[i]
      /\ \A i \in 1..Len(packet) : c2s'[Len(c2s) + i] = packet[i]
  BY <1>1, JoinedProperties
<1>3. Len(c2s) \in Nat /\ Len(packet) \in Nat
  BY <1>1, LenProperties
<1>4. \A i \in 1..Len(c2s) : i \in 1..Len(c2s')
  BY <1>2, <1>3
<1>5. ASSUME NEW i \in 1..Len(c2s'), i \notin 1..Len(c2s)
      PROVE  c2s'[i] \in Talk
  <2>1. i - Len(c2s) \in 1..Len(packet) /\ i = Len(c2s) + (i - Len(c2s))
    BY <1>2, <1>3, <1>5
  <2>2. c2s'[i] = packet[i - Len(c2s)]
    BY <1>2, <2>1
  <2>3. packet[i - Len(c2s)] \in Talk
    BY <2>1, ElementOfSeq
  <2>4. QED
    BY <2>2, <2>3
<1>6. \A i \in 1..Len(c2s') : \A n :
        c2s'[i] = ReqOf(n) \/ c2s'[i] = DelOf(n) => i \in 1..Len(c2s)
  BY <1>5, TalkIs
<1>7. Listed' = Listed
  BY DEF Listed
<1>8. ASSUME NEW n \in Nick, n \notin Listed
      PROVE  Leaving(n)'
  <2>1. Leaving(n)
    BY <1>8 DEF Flow
  <2>2. \A i \in 1..Len(c2s') : c2s'[i] = ReqOf(n) =>
          \E j \in 1..Len(c2s') : j > i /\ c2s'[j] = DelOf(n)
    <3>1. SUFFICES ASSUME NEW i \in 1..Len(c2s'), c2s'[i] = ReqOf(n)
                   PROVE  \E j \in 1..Len(c2s') : j > i /\ c2s'[j] = DelOf(n)
      OBVIOUS
    <3>2. i \in 1..Len(c2s) /\ c2s[i] = ReqOf(n)
      BY <1>2, <1>6, <3>1
    <3>3. PICK j \in 1..Len(c2s) : j > i /\ c2s[j] = DelOf(n)
      BY <2>1, <3>2 DEF Leaving
    <3>4. QED
      BY <1>2, <1>4, <3>3
  <2>3. n \in watched' => \E j \in 1..Len(c2s') : c2s'[j] = DelOf(n)
    BY <1>2, <1>4, <2>1 DEF Leaving
  <2>4. QED
    BY <2>2, <2>3 DEF Leaving, ReqOf, DelOf
<1>9. ASSUME patient, NEW n \in Listed
      PROVE  Staying(n)' /\ Course(n)'
  <2>1. Staying(n) /\ Course(n)
    BY <1>9 DEF Flow
  <2>2. \A i \in 1..Len(c2s') : c2s'[i] # DelOf(n)
    BY <1>2, <1>6, <2>1 DEF Staying
  <2>3. n \in watched' \/ \E i \in 1..Len(c2s') : c2s'[i] = ReqOf(n)
    BY <1>2, <1>4, <2>1 DEF Staying
  <2>4. QED
    BY <2>1, <2>2, <2>3 DEF Staying, ReqOf, DelOf
<1>10. QED
  BY <1>7, <1>8, <1>9 DEF Flow

(* The server takes something that is not about the list. *)
LEMMA TakeFlow ==
  ASSUME Types, Flow, c2s # << >>, Head(c2s) \in Talk, c2s' = Tail(c2s),
         UNCHANGED <<nicks, s2c, watched, present, patient>>
  PROVE  Flow'
<1>1. c2s \in Seq(Request)
  BY StreamTypes
<1>2. Len(c2s) \in Nat \ {0} /\ Head(c2s) = c2s[1]
  BY <1>1, EmptySeq
<1>3. Len(c2s') = Len(c2s) - 1 /\ \A i \in 1..Len(c2s') : c2s'[i] = c2s[i + 1]
  BY <1>1, HeadTailProperties
<1>4. \A i \in 1..Len(c2s') : i + 1 \in 1..Len(c2s)
  BY <1>2, <1>3
<1>5. ASSUME NEW j \in 1..Len(c2s), NEW n, c2s[j] = ReqOf(n) \/ c2s[j] = DelOf(n)
      PROVE  j - 1 \in 1..Len(c2s') /\ c2s'[j - 1] = c2s[j]
  <2>1. j # 1
    BY <1>2, <1>5, TalkIs
  <2>2. j - 1 \in 1..Len(c2s') /\ (j - 1) + 1 = j
    BY <1>2, <1>3, <2>1
  <2>3. QED
    BY <1>3, <2>2
<1>6. Listed' = Listed /\ \A n \in Listed : Held(n)' = Held(n)
  BY DEF Listed, Held
<1>7. ASSUME NEW n \in Nick, n \notin Listed
      PROVE  Leaving(n)'
  <2>1. Leaving(n)
    BY <1>7 DEF Flow
  <2>2. \A i \in 1..Len(c2s') : c2s'[i] = ReqOf(n) =>
          \E j \in 1..Len(c2s') : j > i /\ c2s'[j] = DelOf(n)
    <3>1. SUFFICES ASSUME NEW i \in 1..Len(c2s'), c2s'[i] = ReqOf(n)
                   PROVE  \E j \in 1..Len(c2s') : j > i /\ c2s'[j] = DelOf(n)
      OBVIOUS
    <3>2. i + 1 \in 1..Len(c2s) /\ c2s[i + 1] = ReqOf(n)
      BY <1>3, <1>4, <3>1
    <3>3. PICK j \in 1..Len(c2s) : j > i + 1 /\ c2s[j] = DelOf(n)
      BY <2>1, <3>2 DEF Leaving
    <3>4. j - 1 \in 1..Len(c2s') /\ c2s'[j - 1] = DelOf(n)
      BY <1>5, <3>3
    <3>5. j - 1 > i
      BY <1>2, <3>2, <3>3
    <3>6. QED
      BY <3>4, <3>5
  <2>3. n \in watched' => \E j \in 1..Len(c2s') : c2s'[j] = DelOf(n)
    <3>1. SUFFICES ASSUME n \in watched
                   PROVE  \E j \in 1..Len(c2s') : c2s'[j] = DelOf(n)
      OBVIOUS
    <3>2. PICK j \in 1..Len(c2s) : c2s[j] = DelOf(n)
      BY <2>1, <3>1 DEF Leaving
    <3>3. QED
      BY <1>5, <3>2
  <2>4. QED
    BY <2>2, <2>3 DEF Leaving, ReqOf, DelOf
<1>8. ASSUME patient, NEW n \in Listed
      PROVE  Staying(n)' /\ Course(n)'
  <2>1. Staying(n) /\ Course(n)
    BY <1>8 DEF Flow
  <2>2. \A i \in 1..Len(c2s') : c2s'[i] # DelOf(n)
    BY <1>3, <1>4, <2>1 DEF Staying
  <2>3. n \in watched' \/ \E i \in 1..Len(c2s') : c2s'[i] = ReqOf(n)
    <3>1. CASE n \in watched
      BY <3>1
    <3>2. CASE n \notin watched
      <4>1. PICK j \in 1..Len(c2s) : c2s[j] = ReqOf(n)
        BY <2>1, <3>2 DEF Staying
      <4>2. QED
        BY <1>5, <4>1
    <3>3. QED
      BY <3>1, <3>2
  <2>4. Course(n)'
    BY <1>6, <2>1, SameCourse
  <2>5. QED
    BY <2>2, <2>3, <2>4 DEF Staying, ReqOf, DelOf
<1>9. QED
  BY <1>6, <1>7, <1>8 DEF Flow

(* What the user is, and what the server has been told when all has come.  *)
Owned ==
  /\ Sound(status, away, umodes)
  /\ Tell(told, c2s, status)
  /\ tactful

ContactsIInv == Types /\ Flow /\ Shown /\ Owned

LEMMA FineOwn ==
  ASSUME Owned
  PROVE  Fine(Own)
<1>1. << >> \in Seq(Telling)
  BY EmptySeq
<1>2. Own = Entry(status, away, umodes, << >>)
  BY DEF Own, Entry
<1>3. Own \in OwnRecord
  BY <1>1, <1>2 DEF Owned, Sound, OwnRecord, Entry
<1>4. SaysLast(Own.sent, Own.status, status)
  BY <1>1, <1>2 DEF Entry, SaysLast
<1>5. QED
  BY <1>2, <1>3, <1>4 DEF Owned, Fine, Entry

LEMMA ChangeStatusKeeps ==
  ASSUME PresenceAssumption, OwnAssumption, ContactsIInv, ChangeStatus
  PROVE  ContactsIInv'
<1>1. Types /\ Flow /\ Shown /\ Owned
  BY DEF ContactsIInv
<1>2. PICK own \in Results : /\ Command(own.sent, TRUE)
                             /\ Takes(own)
                             /\ UNCHANGED <<clientVars, patient, told, tactful>>
  BY DEF ChangeStatus
<1>3. Fine(own)
  BY <1>1, FineOwn, FineResults
<1> DEFINE packet == own.sent
<1>4. /\ packet \in Seq(Telling)
      /\ Sound(own.status, own.away, own.umodes)
      /\ SaysLast(packet, own.status, status)
  BY <1>3 DEF Fine, OwnRecord
<1>5. /\ Command(packet, TRUE)
      /\ status' = own.status /\ away' = own.away /\ umodes' = own.umodes
      /\ UNCHANGED <<running, nicks, view, patient, told, tactful>>
  BY <1>2 DEF Takes, clientVars
<1> HIDE DEF packet
<1>6. packet \in Seq(Talk)
  BY <1>4 DEF Talk
<1>7. c2s \in Seq(Request) /\ packet \in Seq(Request)
  BY <1>1, <1>6, StreamTypes, TalkSeq
<1>8. /\ c2s' = c2s \o packet
      /\ UNCHANGED <<s2c, watched, present, plain>>
  <2>1. plain' = (plain /\ TRUE)
    BY <1>5 DEF Command
  <2>2. plain \in BOOLEAN
    BY <1>1, TypesSplit DEF Rest
  <2>3. QED
    BY <1>5, <2>1, <2>2 DEF Command
<1>9. Types'
  <2>1. Lists'
    BY <1>1, <1>5, TypesSplit, SameLists
  <2>2. c2s \o packet \in Seq(Request)
    BY <1>7, JoinedProperties
  <2>3. running' \in BOOLEAN /\ patient' \in BOOLEAN
    BY <1>1, <1>5, TypesSplit DEF Rest
  <2>4. Rest'
    BY <1>1, <1>5, <2>2, <2>3, CommandTypes
  <2>5. QED
    BY <2>1, <2>4, TypesAgain
<1>10. Flow'
  <2>1. Listed' = Listed /\ \A n \in Listed : Held(n)' = Held(n)
    BY <1>5 DEF Listed, Held
  <2>2. \A n \in Listed : Course(n) => Course(n)'
    BY <1>8, <2>1, SameCourse
  <2>3. QED
    BY <1>1, <1>5, <1>6, <1>8, <2>2, TalkFlow
<1>11. Shown'
  BY <1>1, <1>5, <1>8, QuietShown
<1>12. Owned'
  <2>1. Sound(status, away, umodes)'
    BY <1>4, <1>5 DEF Sound
  <2>2. Tell(status, packet, own.status)
    BY <1>4, TellStatus DEF SaysLast
  <2>3. Tell(told, c2s, status)
    BY <1>1 DEF Owned
  <2>4. Tell(told, c2s \o packet, own.status)
    BY <1>7, <2>2, <2>3, TellJoined
  <2>5. Tell(told, c2s, status)'
    BY <1>5, <1>8, <2>4 DEF Tell, Tells, After
  <2>6. QED
    BY <1>1, <1>5, <2>1, <2>5 DEF Owned
<1>13. QED
  BY <1>9, <1>10, <1>11, <1>12 DEF ContactsIInv

LEMMA ServerMessageKeeps ==
  ASSUME PresenceAssumption, ContactsIInv, ServerMessage
  PROVE  ContactsIInv'
<1>1. Types /\ Flow /\ Shown /\ Owned
  BY DEF ContactsIInv
<1>2. PICK m \in Nick :
        /\ changes < MaxChanges
        /\ changes' = changes + 1
        /\ s2c' = Append(s2c, Packet("message", {m}, NoMask))
        /\ UNCHANGED <<clientVars, c2s, watched, present, patient, plain, requests,
                       ownVars, told, tactful>>
  BY DEF ServerMessage
<1> DEFINE p == Packet("message", {m}, NoMask)
<1>3. p \in Report /\ Proper(p) /\ \A n : ~About(n, p)
  BY DEF Packet, Report, Proper, About
<1>4. UNCHANGED <<running, nicks, view, c2s, watched, present, patient, plain, requests,
                  status, away, umodes, told, tactful>>
  BY <1>2 DEF clientVars, ownVars
<1> HIDE DEF p
<1>5. s2c' = Append(s2c, p)
  BY <1>2 DEF p
<1>6. Types'
  <2>1. Lists'
    BY <1>1, <1>4, TypesSplit, SameLists
  <2>2. s2c' \in Seq(Report) /\ \A i \in 1..Len(s2c') : Proper(s2c'[i])
    BY <1>1, <1>3, <1>5, ReportTypes
  <2>3. changes' \in 0..MaxChanges
    BY <1>1, <1>2, TypesSplit DEF Rest, PresenceAssumption
  <2>4. Rest'
    BY <1>1, <1>4, <2>2, <2>3, TypesSplit DEF Rest
  <2>5. QED
    BY <2>1, <2>4, TypesAgain
<1>7. Flow'
  <2>1. Listed' = Listed /\ \A n \in Listed : Held(n)' = Held(n)
    BY <1>4 DEF Listed, Held
  <2>2. \A n \in Listed : Course(n) => Course(n)'
    BY <1>1, <1>3, <1>4, <1>5, <2>1, CourseAside
  <2>3. \A n \in Nick : (Leaving(n)' <=> Leaving(n)) /\ (Staying(n)' <=> Staying(n))
    BY <1>4 DEF Leaving, Staying, ReqOf, DelOf
  <2>4. \A n \in Listed : n \in Nick
    BY <1>1, TypesSplit DEF Lists
  <2>5. QED
    BY <1>1, <1>4, <2>1, <2>2, <2>3, <2>4 DEF Flow
<1>8. Shown'
  BY <1>1, <1>4, QuietShown
<1>9. Owned'
  BY <1>1, <1>4 DEF Owned, Sound, Tell, Tells, After
<1>10. QED
  BY <1>6, <1>7, <1>8, <1>9 DEF ContactsIInv

LEMMA RecvMessageKeeps ==
  ASSUME ContactsIInv, RecvMessage
  PROVE  ContactsIInv'
<1>1. Types /\ Flow /\ Shown /\ Owned
  BY DEF ContactsIInv
<1>2. Taken /\ Head(s2c).type = "message"
  BY DEF RecvMessage, Taken
<1>3. /\ s2c' \in Seq(Report) /\ \A i \in 1..Len(s2c') : Proper(s2c'[i])
      /\ Proper(Head(s2c))
  BY <1>1, <1>2, TakenTypes
<1>4. UNCHANGED <<running, nicks, view, watched, present, patient, plain, requests, changes,
                  status, away, umodes, told, tactful>>
  BY DEF RecvMessage, clientVars, ownVars
<1> DEFINE n == CHOOSE x \in Head(s2c).nicks : TRUE
           answer == [op |-> "message", nick |-> n]
<1>5. n \in Nick
  <2>1. PICK m \in Nick : Head(s2c).nicks = {m}
    BY <1>2, <1>3 DEF Proper
  <2>2. QED
    BY <2>1
<1>6. answer \in Talk /\ answer.op = "message"
  BY <1>5 DEF Talk, Answer
<1>7. \/ c2s' = c2s
      \/ away # NoText /\ c2s' = Append(c2s, answer)
  BY DEF RecvMessage
<1> HIDE DEF answer, n
<1>8. PICK packet \in Seq(Talk) :
        /\ c2s' = c2s \o packet
        /\ packet = << >> \/ (packet = <<answer>> /\ away # NoText)
  <2>1. CASE c2s' = c2s
    <3>1. << >> \in Seq(Talk) /\ c2s \o << >> = c2s
      BY <1>1, EmptySeq, StreamTypes, ConcatEmptySeq
    <3>2. QED
      BY <2>1, <3>1
  <2>2. CASE away # NoText /\ c2s' = Append(c2s, answer)
    <3>1. <<answer>> \in Seq(Talk)
      BY <1>6
    <3>2. c2s \in Seq(Request) /\ answer \in Request
      BY <1>1, <1>6, StreamTypes, TalkIs
    <3>3. Append(c2s, answer) = c2s \o <<answer>>
      BY <3>2, AppendIsConcat
    <3>4. QED
      BY <2>2, <3>1, <3>3
  <2>3. QED
    BY <1>7, <2>1, <2>2
<1>9. c2s \in Seq(Request) /\ packet \in Seq(Request)
  BY <1>1, StreamTypes, TalkSeq
<1>10. Types'
  <2>1. Lists'
    BY <1>1, <1>4, TypesSplit, SameLists
  <2>2. c2s' \in Seq(Request)
    BY <1>8, <1>9, JoinedProperties
  <2>3. Rest'
    BY <1>1, <1>3, <1>4, <2>2, TypesSplit DEF Rest
  <2>4. QED
    BY <2>1, <2>3, TypesAgain
<1>11. Flow'
  <2>1. \A m \in Listed : Held(m)' = Held(m)
    BY <1>4 DEF Listed, Held
  <2>2. \A m \in Listed : Updates(m)
    BY <1>2, <2>1 DEF Updates, Follows, About
  <2>3. \A m \in Listed : Course(m) => Course(m)'
    BY <1>1, <1>2, <1>4, <2>2, CourseOn
  <2>4. QED
    BY <1>1, <1>4, <1>8, <2>3, TalkFlow
<1>12. Shown'
  BY <1>1, <1>4, QuietShown
<1>13. Owned'
  <2>1. Tell(status, packet, status)
    <3>1. CASE packet = << >>
      BY <3>1, TellNothing
    <3>2. CASE packet = <<answer>> /\ away # NoText
      <4>1. "busy" \in status
        BY <1>1, <3>2 DEF Owned, Sound
      <4>2. After(status, answer) = status
        BY <1>6 DEF After
      <4>3. Tell(status, <<answer>>, After(status, answer))
        BY <4>1, TellOne
      <4>4. QED
        BY <3>2, <4>2, <4>3
    <3>3. QED
      BY <1>8, <3>1, <3>2
  <2>2. Tell(told, c2s, status)
    BY <1>1 DEF Owned
  <2>3. Tell(told, c2s \o packet, status)
    BY <1>9, <2>1, <2>2, TellJoined
  <2>4. Tell(told, c2s, status)'
    BY <1>4, <1>8, <2>3 DEF Tell, Tells, After
  <2>5. QED
    BY <1>1, <1>4, <2>4 DEF Owned, Sound
<1>14. QED
  BY <1>10, <1>11, <1>12, <1>13 DEF ContactsIInv

LEMMA ServerTakesKeeps ==
  ASSUME ContactsIInv, ServerTakes
  PROVE  ContactsIInv'
<1>1. Types /\ Flow /\ Shown /\ Owned
  BY DEF ContactsIInv
<1>2. /\ c2s # << >> /\ c2s' = Tail(c2s)
      /\ UNCHANGED <<running, nicks, view, s2c, watched, present, patient, plain, requests,
                     changes, status, away, umodes>>
  BY DEF ServerTakes, clientVars, ownVars
<1>3. c2s \in Seq(Request)
  BY <1>1, StreamTypes
<1>4. Head(c2s) \in Request /\ c2s' \in Seq(Request)
  BY <1>2, <1>3, HeadTailProperties
<1>5. Head(c2s) \in Talk
  BY <1>4 DEF ServerTakes, Talk, Request, Listing
<1>6. told' = After(told, Head(c2s))
  BY DEF ServerTakes, After
<1>7. /\ Tell(After(told, Head(c2s)), Tail(c2s), status)
      /\ Head(c2s).op = "message" => "busy" \in told
  BY <1>1, <1>2, <1>3, TellTail DEF Owned
<1>8. tactful'
  BY <1>1, <1>7 DEF ServerTakes, Owned
<1>9. Types'
  <2>1. Lists'
    BY <1>1, <1>2, TypesSplit, SameLists
  <2>2. Rest'
    BY <1>1, <1>2, <1>4, TypesSplit DEF Rest
  <2>3. QED
    BY <2>1, <2>2, TypesAgain
<1>10. Flow'
  BY <1>1, <1>2, <1>5, TakeFlow
<1>11. Shown'
  BY <1>1, <1>2, QuietShown
<1>12. Owned'
  <2>1. Tell(told, c2s, status)'
    BY <1>2, <1>6, <1>7 DEF Tell, Tells, After
  <2>2. QED
    BY <1>1, <1>2, <1>8, <2>1 DEF Owned, Sound
<1>13. QED
  BY <1>9, <1>10, <1>11, <1>12 DEF ContactsIInv

(* What the steps of the list say to the server is about the list. *)
LEMMA NextListing ==
  ASSUME Types, [Next]_vars
  PROVE  \/ c2s' = c2s
         \/ \E r \in Listing : c2s' = c2s \o <<r>>
         \/ c2s # << >> /\ Head(c2s) \in Listing /\ c2s' = Tail(c2s)
<1>1. ASSUME NEW n \in Nick, Add(n) \/ Del(n) \/ Ignore(n)
      PROVE  \E r \in Listing : c2s' = c2s \o <<r>>
  <2>1. ReqOf(n) \in Listing /\ DelOf(n) \in Listing
    BY DEF ReqOf, DelOf, Listing
  <2>2. c2s' = c2s \o UsersReq(n) \/ c2s' = c2s \o UsersDel(n)
    BY <1>1 DEF Add, Del, Ignore, Command
  <2>3. QED
    BY <2>1, <2>2, Requests
<1>2. ASSUME NEW n \in Nick, Unignore(n)
      PROVE  c2s' = c2s
  BY <1>2, NoRequest DEF Unignore
<1>3. CASE JoinConsole
  BY <1>3, NoRequest DEF JoinConsole
<1>4. CASE ServerAnswer
  <2>1. c2s # << >> /\ c2s' = Tail(c2s) /\ Head(c2s).op \in {"users req", "users del"}
    BY <1>4 DEF ServerAnswer
  <2>2. Head(c2s) \in Request
    BY <2>1, StreamTypes, HeadTailProperties
  <2>3. Head(c2s) \in Listing
    BY <2>1, <2>2 DEF Request, Listing, Answer, Telling
  <2>4. QED
    BY <2>1, <2>3
<1>5. CASE NickChanges \/ RecvUsers \/ RecvOnline \/ RecvOffline \/ RecvChange
  BY <1>5 DEF NickChanges, RecvUsers, RecvOnline, RecvOffline, RecvChange, Unknown, Receive
<1>6. CASE UNCHANGED vars
  BY <1>6 DEF vars
<1>7. QED
  BY <1>1, <1>2, <1>3, <1>4, <1>5, <1>6 DEF Next, Idle

LEMMA NextOwned ==
  ASSUME Types, Owned, [Next]_vars, UNCHANGED <<ownVars, told, tactful>>
  PROVE  Owned'
<1>1. UNCHANGED <<status, away, umodes, told, tactful>>
  BY DEF ownVars
<1>2. Tell(told, c2s, status)
  BY DEF Owned
<1>3. c2s \in Seq(Request)
  BY StreamTypes
<1>4. \A r \in Listing : r.op # "status" /\ r.op # "message"
  BY DEF Listing
<1>5. Tell(told, c2s', status)
  <2>1. CASE c2s' = c2s
    BY <1>2, <2>1
  <2>2. ASSUME NEW r \in Listing, c2s' = c2s \o <<r>>
        PROVE  Tell(told, c2s', status)
    <3>1. <<r>> \in Seq(Request)
      BY DEF Request
    <3>2. After(status, r) = status
      BY <1>4 DEF After
    <3>3. Tell(status, <<r>>, After(status, r))
      BY <1>4, TellOne
    <3>4. Tell(told, c2s \o <<r>>, status)
      BY <1>2, <1>3, <3>1, <3>2, <3>3, TellJoined
    <3>5. QED
      BY <2>2, <3>4
  <2>3. CASE c2s # << >> /\ Head(c2s) \in Listing /\ c2s' = Tail(c2s)
    <3>1. Tell(After(told, Head(c2s)), Tail(c2s), status)
      BY <1>2, <1>3, <2>3, TellTail
    <3>2. After(told, Head(c2s)) = told
      BY <1>4, <2>3 DEF After
    <3>3. QED
      BY <2>3, <3>1, <3>2
  <2>4. QED
    BY <2>1, <2>2, <2>3, NextListing
<1>6. Tell(told, c2s, status)'
  BY <1>1, <1>5 DEF Tell, Tells, After
<1>7. Sound(status, away, umodes)'
  BY <1>1 DEF Owned, Sound
<1>8. tactful'
  <2>1. tactful /\ UNCHANGED tactful
    BY <1>1 DEF Owned
  <2>2. QED
    BY <2>1
<1>9. QED
  BY <1>6, <1>7, <1>8 DEF Owned

-----------------------------------------------------------------------------
(* The theorems *)

LEMMA InitContacts == PresenceAssumption /\ OwnAssumption /\ ContactsInit => ContactsIInv
<1> SUFFICES ASSUME PresenceAssumption, OwnAssumption, ContactsInit
             PROVE  ContactsIInv
  OBVIOUS
<1>1. Init /\ OwnInit /\ told = status /\ tactful
  BY DEF ContactsInit
<1>2. Sound(status, away, umodes)
  <2>1. status \cap StatusMask = {"available"} /\ "available" \in StatusMask
    BY <1>1 DEF OwnInit, StatusMask
  <2>2. QED
    BY <1>1, <2>1 DEF OwnInit, Sound, Bits, StatusMask
<1>3. Tell(told, c2s, status)
  BY <1>1, TellNothing DEF Init
<1>4. QED
  BY <1>1, <1>2, <1>3, InitTypes, InitFlow, InitShown DEF ContactsIInv, Owned

LEMMA NextContacts ==
  PresenceAssumption /\ OwnAssumption /\ ContactsIInv /\ [ContactsNext]_allVars
    => ContactsIInv'
<1> SUFFICES ASSUME PresenceAssumption, OwnAssumption, ContactsIInv, [ContactsNext]_allVars
             PROVE  ContactsIInv'
  OBVIOUS
<1>1. ASSUME [Next]_vars, UNCHANGED <<ownVars, told, tactful>>
      PROVE  ContactsIInv'
  <2>1. Types /\ Flow /\ Shown /\ Owned
    BY DEF ContactsIInv
  <2>2. Types'
    BY <1>1, <2>1, NextTypes
  <2>3. Flow' /\ Shown' /\ Owned'
    BY <1>1, <2>1, <2>2, NextFlow, NextShown, NextOwned
  <2>4. QED
    BY <2>2, <2>3 DEF ContactsIInv
<1>2. CASE UNCHANGED allVars
  BY <1>1, <1>2 DEF allVars
<1>3. QED
  BY <1>1, <1>2, ChangeStatusKeeps, ServerMessageKeeps, RecvMessageKeeps, ServerTakesKeeps
     DEF ContactsNext

LEMMA Invariance == ContactsSpec => []ContactsIInv
<1>1. ContactsInit => ContactsIInv
  BY PresenceAssumption, OwnAssumption, InitContacts
<1>2. ContactsIInv /\ [ContactsNext]_allVars => ContactsIInv'
  BY PresenceAssumption, OwnAssumption, NextContacts
<1>3. QED
  BY <1>1, <1>2, PTL DEF ContactsSpec

(* No list, set of modes or packet is ever other than it is declared,      *)
(* whatever the client, the nicks and the server do.                       *)
THEOREM TypeCorrect == ContactsSpec => []TypeOK
<1>1. ContactsIInv => TypeOK
  BY DEF ContactsIInv, Types
<1>2. QED
  BY <1>1, Invariance, PTL

(* The channel holds the nicks of the list, through every command of the   *)
(* console and every packet (nicklist_add, nicklist_del and the JOIN and   *)
(* PART lines that go with them).                                          *)
THEOREM ChannelIsList == ContactsSpec => []ListedIsShown
<1>1. ContactsIInv => ListedIsShown
  BY DEF ContactsIInv, Types
<1>2. QED
  BY <1>1, Invariance, PTL

(* A client that adds no nick while something of its last listing is under *)
(* way, and neither ignores nor joins again, has been sent modes that add  *)
(* up (irc_out_users, irc_out_user_online, _offline and _chg_status): a    *)
(* voice alone for a nick held to be offline, one of op and half-op for    *)
(* one held to be online, half-op for one held to be busy.                 *)
THEOREM ModesAreStatus == ContactsSpec => []ModesAddUp
<1>1. ASSUME Lists, ModesExact, patient, plain, NEW n \in Listed
      PROVE  /\ ~nicks[n].online => view[n] = {"v"}
             /\ nicks[n].online => ("h" \in view[n] <=> "o" \notin view[n])
             /\ ShownHalfop(nicks[n]) => "h" \in view[n]
  <2>1. view[n] = ModesOf(nicks[n])
    BY <1>1 DEF ModesExact
  <2>2. nicks[n] \in NickList
    BY <1>1 DEF Lists
  <2>3. CASE ~nicks[n].online
    <3>1. ModesOf(nicks[n]) = {"v"} /\ ~ShownHalfop(nicks[n])
      BY <2>3 DEF ModesOf, ShownOp, ShownHalfop
    <3>2. QED
      BY <2>1, <2>3, <3>1
  <2>4. CASE nicks[n].online /\ nicks[n].mask \in {"available", NoMask}
    <3>1. ShownOp(nicks[n]) /\ ~ShownHalfop(nicks[n])
      BY <2>4 DEF ShownOp, ShownHalfop, NoMask
    <3>2. view[n] = {"v"} \cup {"o"}
      BY <2>1, <3>1 DEF ModesOf
    <3>3. QED
      BY <2>4, <3>1, <3>2
  <2>5. CASE nicks[n].online /\ nicks[n].mask \in {"busy", "netfriends"}
    <3>1. ~ShownOp(nicks[n]) /\ ShownHalfop(nicks[n])
      BY <2>5 DEF ShownOp, ShownHalfop, NoMask
    <3>2. view[n] = {"v"} \cup {"h"}
      BY <2>1, <3>1 DEF ModesOf
    <3>3. QED
      BY <2>5, <3>1, <3>2
  <2>6. QED
    BY <2>2, <2>3, <2>4, <2>5 DEF NickList, Masks
<1>2. ContactsIInv => ModesAddUp
  BY <1>1, TypesSplit DEF ContactsIInv, Shown, ModesAddUp
<1>3. QED
  BY <1>2, Invariance, PTL

(* The status held is the server's as soon as nothing is under way, for a  *)
(* client that adds no nick while something of its last listing is, be it  *)
(* that nicks are ignored or the channel joined again, and messages and    *)
(* the user's own status go the same way.                                  *)
THEOREM StatusIsTold == ContactsSpec => []StatusIsServers
<1>1. ASSUME ContactsIInv, patient, running, c2s = <<>>, s2c = <<>>, NEW n \in Listed
      PROVE  /\ nicks[n].online <=> present[n] # "offline"
             /\ nicks[n].mask \in {NoMask, present[n]}
  <2>1. Types /\ Staying(n) /\ Course(n)
    BY <1>1 DEF ContactsIInv, Flow
  <2>2. Len(c2s) = 0 /\ Len(s2c) = 0 /\ 1..Len(c2s) = {}
    BY <1>1
  <2>3. n \in watched
    BY <2>1, <2>2 DEF Staying
  <2>4. PICK e \in States : Reaches(n, e) /\ Agrees(e, present[n])
    BY <2>1, <2>3 DEF Course
  <2>5. PICK b : b[1] = Held(n) /\ b[Len(s2c) + 1] = e
    BY <2>4 DEF Reaches, Leads
  <2>6. e = Held(n)
    BY <2>2, <2>5
  <2>7. /\ nicks[n] \in NickList /\ (~nicks[n].online => nicks[n].mask = NoMask)
        /\ present[n] \in {"offline"} \cup Masks
    BY <2>1, TypesSplit, HeldType DEF Lists, MasksOnline, Rest
  <2>8. QED
    BY <2>4, <2>6, <2>7 DEF Agrees, Held, NickList, Masks, NoMask
<1>2. ContactsIInv => StatusIsServers
  BY <1>1 DEF StatusIsServers
<1>3. QED
  BY <1>2, Invariance, PTL

(* The user has one status, told to the server in the order in which it    *)
(* was chosen, and the last that is told is the one held; a text of away   *)
(* only while it is busy, so that a message is only answered by a user who *)
(* is busy for the server too; the modes show what is set (irc_status_busy *)
(* and its like, whatever letters MODE is given, and irc_out_message).     *)
THEOREM StatusIsOne == ContactsSpec => []OwnStatusAgrees
<1>1. ASSUME ContactsIInv
      PROVE  OwnStatusAgrees
  <2>1. Types /\ Owned
    BY <1>1 DEF ContactsIInv
  <2>2. c2s \in Seq(Request) /\ Tell(told, c2s, status)
    BY <2>1, StreamTypes DEF Owned
  <2>3. ToldSoon = status
    BY <2>2, TellShows
  <2>4. QED
    BY <2>1, <2>3 DEF OwnStatusAgrees, Owned, Sound
<1>2. ContactsIInv => OwnStatusAgrees
  BY <1>1
<1>3. QED
  BY <1>2, Invariance, PTL
=============================================================================
