-------------------------------- MODULE Rooms --------------------------------
(***************************************************************************)
(* Rooms of the C6 network shown as IRC channels.  A room is entered, left *)
(* or created by a request; not every answer names its room, so the names  *)
(* wait in a queue, proom, whose head every answer takes.  chans holds the *)
(* rooms the session is in and who else is there, and the IRC client holds *)
(* its own idea of both from the lines it is sent, in which every room has *)
(* the name that RoomNames gives it.                                       *)
(*                                                                         *)
(* External: the C6 server.  It answers the requests in order; the creator *)
(* of a room may be entered at once, by a user list that nobody waits for. *)
(***************************************************************************)
EXTENDS RoomNames, FiniteSets

CONSTANTS
  Room,         \* names of rooms
  Channel,      \* names the IRC client uses for them in JOIN and PART
  NewName,      \* and in crea_stanza
  Nick,         \* the other users
  MaxRequests,  \* bound: requests of the session
  MaxMoves,     \* bound: entries and exits of the others
  MaxSent       \* bound: packets of the server in flight

ASSUME RoomsAssumption ==
  /\ {MaxRequests, MaxMoves, MaxSent} \subseteq Nat
  /\ Room \subseteq Seq(Char) \ {<< >>}
  /\ \A name \in Channel \cup NewName : Decode(name) \in Room
  /\ \A ch \in Channel : Head(ch) = Hash

VARIABLES
  proom,      \* C6(c)->proom
  chans,      \* c->chans: [rooms joined -> the others in it]
  view,       \* the IRC client's: [channels -> the others in it]
  stray,      \* history: a message was shown in a channel it is not in
  untold,     \* history: answers of which the IRC client was told nothing
  c2s, s2c,   \* packets in flight
  inside,     \* the server's: rooms that have the session in them,
  members,    \*   the others in each room,
  existing,   \*   and the rooms there are
  unasked,    \* history: the server has entered the creator of a room
  requests,   \* bound's count
  moves       \* bound's count

clientVars == <<proom, chans, view, stray, untold>>
serverVars == <<inside, members, existing, unasked>>
vars == <<clientVars, c2s, s2c, serverVars, requests, moves>>

Joined == DOMAIN chans

Init ==
  /\ proom = <<>>
  /\ chans = <<>>
  /\ view = <<>>
  /\ stray = FALSE
  /\ untold = {}
  /\ c2s = <<>>
  /\ s2c = <<>>
  /\ inside = {}
  /\ existing \in SUBSET Room
  /\ unasked = FALSE
  /\ members = [r \in Room |-> {}]
  /\ requests = 0
  /\ moves = 0

-----------------------------------------------------------------------------
(* Requests of the IRC client *)

Request(op, r) ==
  /\ UNCHANGED stray
  /\ requests < MaxRequests
  /\ requests' = requests + 1
  /\ c2s' = Append(c2s, [op |-> op, room |-> r])
  /\ UNCHANGED <<chans, view, untold, s2c, serverVars, moves>>

(* Defect: the name of the channel waits, not that of the room. *)
AwaitChannel(r) == proom' = Append(proom, Encode(r))

Await(r) == proom' = Append(proom, r)

(* JOIN *)
Enter(ch) == Request("enter", Decode(ch)) /\ Await(Decode(ch))

(* PART *)
Leave(ch) == Request("leave", Decode(ch)) /\ Await(Decode(ch))

(* crea_stanza *)
Create(name) == Request("create", Decode(name)) /\ UNCHANGED proom

-----------------------------------------------------------------------------
(* The C6 server *)

(* of is what the packet is about, room what it says of that. *)
Packet(type, r, nicks) ==
  [type |-> type, of |-> r, nicks |-> nicks,
   room |-> IF type \in {"ROOM_CANLEAVE", "ROOM_NOTEXIST", "ROOM_ALREXIST"}
            THEN << >> ELSE r]

UserList(r) == Packet("ROOM_USERLIST", r, members[r])

Answer(q, p) ==
  /\ c2s # <<>>
  /\ q = Head(c2s)
  /\ Len(s2c) < MaxSent
  /\ c2s' = Tail(c2s)
  /\ s2c' = Append(s2c, p)
  /\ UNCHANGED <<clientVars, members, requests, moves>>

AnswerEnter ==
  \E r \in Room :
    \/ /\ r \in existing
       /\ Answer([op |-> "enter", room |-> r], UserList(r))
       /\ inside' = inside \cup {r}
       /\ UNCHANGED <<existing, unasked>>
    \/ /\ r \in existing
       /\ Answer([op |-> "enter", room |-> r], Packet("ROOM_ISFULL", r, {}))
       /\ r \notin inside
       /\ UNCHANGED <<inside, existing, unasked>>
    \/ /\ r \notin existing
       /\ Answer([op |-> "enter", room |-> r], Packet("ROOM_NOTEXIST", r, {}))
       /\ UNCHANGED <<inside, existing, unasked>>

AnswerLeave ==
  \E r \in Room :
    /\ Answer([op |-> "leave", room |-> r], Packet("ROOM_CANLEAVE", r, {}))
    /\ inside' = inside \ {r}
    /\ UNCHANGED <<existing, unasked>>

AnswerCreate ==
  \E r \in Room :
    \/ /\ r \in existing
       /\ Answer([op |-> "create", room |-> r], Packet("ROOM_ALREXIST", r, {}))
       /\ UNCHANGED <<inside, existing, unasked>>
    \/ /\ r \notin existing
       /\ Answer([op |-> "create", room |-> r], UserList(r))
       /\ inside' = inside \cup {r}
       /\ existing' = existing \cup {r}
       /\ unasked' = TRUE
    \/ /\ r \notin existing
       /\ c2s # <<>>
       /\ Head(c2s) = [op |-> "create", room |-> r]
       /\ c2s' = Tail(c2s)
       /\ existing' = existing \cup {r}
       /\ UNCHANGED <<clientVars, s2c, inside, members, unasked, requests, moves>>

(* Others come and go, of which those inside are told. *)
Move(r, type, nick, others) ==
  /\ r \in existing
  /\ moves < MaxMoves
  /\ moves' = moves + 1
  /\ members' = [members EXCEPT ![r] = others]
  /\ \/ r \notin inside /\ UNCHANGED s2c
     \/ /\ r \in inside
        /\ Len(s2c) < MaxSent
        /\ s2c' = Append(s2c, Packet(type, r, {nick}))
  /\ UNCHANGED <<clientVars, c2s, inside, existing, unasked, requests>>

OtherMoves ==
  \E r \in Room, n \in Nick :
    \/ n \notin members[r] /\ Move(r, "ROOM_USERENTER", n, members[r] \cup {n})
    \/ n \in members[r] /\ Move(r, "ROOM_USERLEAVE", n, members[r] \ {n})

(* One of those inside with the session says something.                    *)
OtherSpeaks ==
  \E r \in inside : \E n \in members[r] :
    /\ moves < MaxMoves
    /\ Len(s2c) < MaxSent
    /\ moves' = moves + 1
    /\ s2c' = Append(s2c, Packet("ROOM_MSG", r, {n}))
    /\ UNCHANGED <<clientVars, c2s, serverVars, requests>>

-----------------------------------------------------------------------------
(* Packets for the session *)

With(f, r, s) == [x \in DOMAIN f \cup {r} |-> IF x = r THEN s ELSE f[x]]
Less(f, r) == [x \in DOMAIN f \ {r} |-> f[x]]

(* Events that irc_init registers. *)
IrcEvents ==
  {"gui room user list", "gui room user enter", "gui room user leave",
   "gui room can leave", "gui room notexist", "gui room is full",
   "gui room already exist"}

(* EMIT: an event nobody registered has no handler. *)
Told(event, type) ==
  untold' = IF event \in IrcEvents THEN untold ELSE untold \cup {type}

Receive(type) ==
  /\ type # "ROOM_MSG" => UNCHANGED stray
  /\ s2c # <<>>
  /\ Head(s2c).type = type
  /\ s2c' = Tail(s2c)
  /\ UNCHANGED <<c2s, serverVars, requests, moves>>

(* _get_last_room *)
PopRoom == proom' = IF proom = <<>> THEN <<>> ELSE Tail(proom)

(* Defect: the answer leaves its entry. *)
KeepRoom == UNCHANGED proom

(* The answers that name their room. *)
PopUnread == PopRoom

(* irc_out_room_ulist: a second list for a joined room is refused. *)
RecvUserList ==
  /\ Receive("ROOM_USERLIST")
  /\ PopUnread
  /\ LET r == Head(s2c).room IN
       \/ /\ r \notin Joined
          /\ chans' = With(chans, r, Head(s2c).nicks)
          /\ view' = With(view, Encode(r), Head(s2c).nicks)
       \/ /\ r \in Joined
          /\ UNCHANGED <<chans, view>>
  /\ Told("gui room user list", "ROOM_USERLIST")

DropChannel(r) == chans' = Less(chans, r)

(* Defect: the answers are taken to come in the reverse order. *)
NewestRoom == Last(proom)

RoomOfAnswer == Head(proom)

(* irc_out_room_canleave; without an entry there is no event. *)
RecvCanLeave ==
  /\ Receive("ROOM_CANLEAVE")
  /\ \/ /\ proom = <<>>
        /\ Told("", "ROOM_CANLEAVE")
        /\ UNCHANGED <<proom, chans, view>>
     \/ /\ proom # <<>>
        /\ PopRoom
        /\ Told("gui room can leave", "ROOM_CANLEAVE")
        /\ \/ /\ RoomOfAnswer \in Joined
              /\ DropChannel(RoomOfAnswer)
              /\ view' = Less(view, Encode(RoomOfAnswer))
           \/ /\ RoomOfAnswer \notin Joined
              /\ UNCHANGED <<chans, view>>

RecvNotExist ==
  /\ Receive("ROOM_NOTEXIST")
  /\ PopRoom
  /\ Told(IF proom = <<>> THEN "" ELSE "gui room not exist", "ROOM_NOTEXIST")
  /\ UNCHANGED <<chans, view>>

RecvIsFull ==
  /\ Receive("ROOM_ISFULL")
  /\ PopUnread
  /\ Told("gui room is full", "ROOM_ISFULL")
  /\ UNCHANGED <<chans, view>>

RecvAlrExist ==
  /\ Receive("ROOM_ALREXIST")
  /\ Told("gui room already exist", "ROOM_ALREXIST")
  /\ UNCHANGED <<proom, chans, view>>

(* irc_out_room_uenter, irc_out_room_uleave: a room not joined, a user     *)
(* already there and one who is not are reported and change nothing.       *)
RecvMove ==
  /\ s2c # <<>>
  /\ LET r == Head(s2c).room
         nicks == Head(s2c).nicks
     IN \/ /\ Receive("ROOM_USERENTER")
           /\ r \in Joined
           /\ nicks \cap chans[r] = {}
           /\ chans' = With(chans, r, chans[r] \cup nicks)
           /\ view' = With(view, Encode(r), view[Encode(r)] \cup nicks)
        \/ /\ Receive("ROOM_USERLEAVE")
           /\ r \in Joined
           /\ nicks \subseteq chans[r]
           /\ chans' = With(chans, r, chans[r] \ nicks)
           /\ view' = With(view, Encode(r), view[Encode(r)] \ nicks)
        \/ /\ Receive("ROOM_USERENTER")
           /\ r \in Joined => nicks \cap chans[r] # {}
           /\ UNCHANGED <<chans, view>>
        \/ /\ Receive("ROOM_USERLEAVE")
           /\ r \in Joined => ~(nicks \subseteq chans[r])
           /\ UNCHANGED <<chans, view>>
  /\ UNCHANGED <<proom, untold>>

(* irc_out_room_message does not look whether the room is joined.          *)
RecvMessage ==
  /\ Receive("ROOM_MSG")
  /\ stray' = (stray \/ Encode(Head(s2c).room) \notin DOMAIN view)
  /\ UNCHANGED <<proom, chans, view, untold>>

-----------------------------------------------------------------------------
(* Nobody has anything to do. *)
Idle == c2s = <<>> /\ s2c = <<>> /\ UNCHANGED vars

Next ==
  \/ \E ch \in Channel : Enter(ch) \/ Leave(ch)
  \/ \E name \in NewName : Create(name)
  \/ AnswerEnter
  \/ AnswerLeave
  \/ AnswerCreate
  \/ OtherMoves
  \/ OtherSpeaks
  \/ RecvUserList
  \/ RecvCanLeave
  \/ RecvNotExist
  \/ RecvIsFull
  \/ RecvAlrExist
  \/ RecvMove
  \/ RecvMessage
  \/ Idle

(* The server answers, and the event loop reads what it sent. *)
Fairness ==
  /\ WF_vars(AnswerEnter \/ AnswerLeave \/ AnswerCreate)
  /\ WF_vars(RecvUserList \/ RecvCanLeave \/ RecvNotExist \/ RecvIsFull
              \/ RecvAlrExist \/ RecvMove \/ RecvMessage)

Spec == Init /\ [][Next]_vars /\ Fairness

-----------------------------------------------------------------------------
(* Properties *)

PacketTypes ==
  {"ROOM_USERLIST", "ROOM_ISFULL", "ROOM_NOTEXIST", "ROOM_CANLEAVE",
   "ROOM_ALREXIST", "ROOM_USERENTER", "ROOM_USERLEAVE", "ROOM_MSG"}

Lists(names) == UNION {[rooms -> SUBSET Nick] : rooms \in SUBSET names}

(* Every variable has its type. *)
TypeOK ==
  /\ proom \in Seq(Room)
  /\ chans \in Lists(Room)
  /\ view \in Lists({Encode(r) : r \in Room})
  /\ stray \in BOOLEAN
  /\ untold \subseteq PacketTypes
  /\ c2s \in Seq([op : {"enter", "leave", "create"}, room : Room])
  /\ s2c \in Seq([type : PacketTypes, of : Room, room : Room \cup {<< >>}, nicks : SUBSET Nick])
  /\ inside \subseteq existing
  /\ existing \subseteq Room
  /\ unasked \in BOOLEAN
  /\ members \in [Room -> SUBSET Nick]
  /\ requests \in 0..MaxRequests
  /\ moves \in 0..MaxMoves

TakenBy(p) ==
  IF p.type \in {"ROOM_USERLIST", "ROOM_ISFULL", "ROOM_NOTEXIST", "ROOM_CANLEAVE"}
  THEN <<p.of>> ELSE << >>

WaitedFor(q) == IF q.op # "create" THEN <<q.room>> ELSE << >>

(* The queue of names and the answers on their way, then the requests on   *)
(* theirs, are the same rooms in the same order: an answer that names no   *)
(* room is taken for the right one, however requests are pipelined.  (A    *)
(* list that nobody waits for takes the name of another answer.)           *)
PendingInOrder ==
  ~unasked =>
    proom = FlattenSeq([i \in DOMAIN s2c |-> TakenBy(s2c[i])])
              \o FlattenSeq([i \in DOMAIN c2s |-> WaitedFor(c2s[i])])

(* The IRC client has heard of every channel and of everybody in it, and   *)
(* of nothing else: its idea of the rooms is the session's, a channel for  *)
(* each, under a name that leads back to the room when it is used.         *)
ViewIsChans ==
  /\ DOMAIN view = {Encode(r) : r \in Joined}
  /\ \A r \in Joined : view[Encode(r)] = chans[r] /\ Decode(Encode(r)) = r

(* What a packet says of the rooms to whoever knows what it is about. *)
After(f, p) ==
  CASE p.type = "ROOM_USERLIST"  -> With(f, p.of, p.nicks)
    [] p.type = "ROOM_CANLEAVE"  -> Less(f, p.of)
    [] p.type = "ROOM_USERENTER" -> With(f, p.of, f[p.of] \cup p.nicks)
    [] p.type = "ROOM_USERLEAVE" -> With(f, p.of, f[p.of] \ p.nicks)
    [] OTHER                     -> f

(* The session's rooms and their users are those the server had when it    *)
(* sent the last packet that has arrived: with what is on its way they are *)
(* the server's of this moment.  So no message is shown in a channel that  *)
(* the IRC client is not in, though nobody looks.                          *)
ChansAreServersPast ==
  ~unasked =>
    /\ FoldLeft(After, chans, s2c) = [r \in inside |-> members[r]]
    /\ ~stray

(* Every name leaves the queue. *)
RequestsSettle == proom # <<>> ~> proom = <<>>

(* Rooms behave as channels do (LEGGIMI:106): the client is told of every  *)
(* answer to its JOIN or PART.                                             *)
AnswersTold == untold = {}
==============================================================================
