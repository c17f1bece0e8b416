------------------------------- MODULE Answers -------------------------------
(***************************************************************************)
(* Questions to the C6 server whose answer is an event: a callback is      *)
(* connected for one emission, in front of the others of the session's own *)
(* signal instance, and the request is sent.  An emission fires every      *)
(* callback there is and does not look for whom the answer is.             *)
(*                                                                         *)
(* sig_emit_real hands the same va_list to one callback after the other,   *)
(* which C leaves undefined: where a va_list is passed by value, as on     *)
(* i386, each finds the arguments, and elsewhere only the first does.      *)
(*                                                                         *)
(* External: the C6 server, which answers in order.                        *)
(***************************************************************************)
EXTENDS ArgsSep

CONSTANTS
  Nick, Room,  \* words: nicks, and names of channels
  Lines,       \* lines of WHOIS and profilo
  MaxWaiting,  \* questions that may wait for their answer at a time
  MaxAsked     \* bound: questions

ASSUME AnswersAssumption ==
  /\ {MaxWaiting, MaxAsked} \subseteq Nat
  /\ Lines \subseteq Seq(STRING)
  /\ \A l \in Lines : Range(Tail(Words(l))) \subseteq Nick \cup Room

VARIABLES
  handlers,  \* [event -> the callbacks connected to it and how often each fires]
  c2s, s2c,  \* requests, and answers on their way
  asked,     \* history: the questions, and for which callback,
  shown,     \*   what the callbacks told the IRC client,
  overlap    \*   and a question was asked while another waited

vars == <<handlers, c2s, s2c, asked, shown, overlap>>

Garbage == "garbage"

UserInfo == "gui user info"
RoomInfo == "gui room info"

Init ==
  /\ handlers = [e \in {UserInfo, RoomInfo} |-> <<>>]
  /\ c2s = <<>>
  /\ s2c = <<>>
  /\ asked = <<>>
  /\ shown = <<>>
  /\ overlap = FALSE

Waiting == Len(c2s) + Len(s2c)

-----------------------------------------------------------------------------
(* Asking *)

(* Defect: the callback stays connected. *)
ForTwo(cb) == [func |-> cb, count |-> 2]

ForOne(cb) == [func |-> cb, count |-> 1]

(* What a word asks for. *)
Question(cmd, word) ==
  IF cmd = "WHOIS"
  THEN [event |-> UserInfo, func |-> "irc_out_whois", of |-> word]
  ELSE IF Head(word) = "#"
  THEN [event |-> RoomInfo, func |-> "irc_out_roominfo", of |-> word]
  ELSE [event |-> UserInfo, func |-> "irc_out_user_info", of |-> word]

Questions(cmd, words) == [i \in DOMAIN words |-> Question(cmd, words[i])]

(* Those of questions, or of requests and answers, that have an event. *)
IfOf(event, q) == IF q.event = event THEN <<q>> ELSE <<>>

AllOf(event, qs) == FlattenSeq([i \in DOMAIN qs |-> IfOf(event, qs[i])])

(* CONNECT and the request of each, in a loop; of the callbacks for one    *)
(* event all are the same.                                                 *)
Ask(qs, said) ==
  /\ Len(asked) + Len(said) <= MaxAsked
  /\ Waiting + Len(qs) <= MaxWaiting
  /\ handlers' = [e \in DOMAIN handlers |->
                    LET of == AllOf(e, qs)
                    IN  [i \in DOMAIN of |-> ForOne(of[i].func)] \o handlers[e]]
  /\ c2s' = c2s \o [i \in DOMAIN qs |-> [event |-> qs[i].event, of |-> qs[i].of]]
  /\ asked' = asked \o [i \in DOMAIN said |-> [func |-> said[i].func, of |-> said[i].of]]
  /\ overlap' = (overlap \/ Waiting + Len(qs) > 1)
  /\ UNCHANGED <<s2c, shown>>

(* The lines that are a command, with what it gets and what was said.      *)
Command(cmd) ==
  {[qs |-> Questions(cmd, Tail(Args(l))), said |-> Questions(cmd, Tail(Words(l)))] :
     l \in {x \in Lines : Words(x) # <<>> /\ Head(Words(x)) = <<cmd>>}}

WhoisLines == Command("WHOIS")
UserinfoLines == Command("profilo")

(* WHOIS nick ... *)
Whois == \E l \in WhoisLines : Ask(l.qs, l.said)

(* profilo nick ... and profilo #room ... *)
Userinfo == \E l \in UserinfoLines : Ask(l.qs, l.said)

(* A room was entered: irc_out_room_ulist asks for its topic. *)
Entered ==
  \E r \in Room :
    LET q == <<[event |-> RoomInfo, func |-> "irc_out_roomtopic", of |-> r]>> IN Ask(q, q)

-----------------------------------------------------------------------------
ServerAnswer ==
  /\ c2s # <<>>
  /\ s2c' = Append(s2c, Head(c2s))
  /\ c2s' = Tail(c2s)
  /\ UNCHANGED <<handlers, asked, shown, overlap>>

(* Defect: what has fired for the last time is not deleted. *)
Everyone(hdls) == hdls

(* Those that have not fired for the last time. *)
Lasting(h) == IF h.count - 1 > 0 THEN <<[h EXCEPT !.count = @ - 1]>> ELSE <<>>

Remaining(hdls) == FlattenSeq([i \in DOMAIN hdls |-> Lasting(hdls[i])])

(* sig_emit_real; every order of the arguments that the build can produce. *)
Emit(event, of) ==
  LET fired == handlers[event] IN
  \E kept \in BOOLEAN :
    /\ shown' = shown \o [i \in DOMAIN fired |->
                  [func |-> fired[i].func, of |-> IF i = 1 \/ kept THEN of ELSE Garbage]]
    /\ handlers' = [handlers EXCEPT ![event] = Remaining(fired)]

RecvAnswer ==
  /\ s2c # <<>>
  /\ s2c' = Tail(s2c)
  /\ Emit(Head(s2c).event, Head(s2c).of)
  /\ UNCHANGED <<c2s, asked, overlap>>

Done == Len(asked) = MaxAsked /\ Waiting = 0 /\ UNCHANGED vars

Next == Whois \/ Userinfo \/ Entered \/ ServerAnswer \/ RecvAnswer \/ Done

Fairness == WF_vars(ServerAnswer) /\ WF_vars(RecvAnswer)

Spec == Init /\ [][Next]_vars /\ Fairness

-----------------------------------------------------------------------------
(* Properties *)

Events == {UserInfo, RoomInfo}
Funcs == {"irc_out_whois", "irc_out_user_info", "irc_out_roominfo", "irc_out_roomtopic"}

(* Every variable has its type. *)
TypeOK ==
  /\ handlers \in [Events -> Seq([func : Funcs, count : {1}])]
  /\ c2s \in Seq([event : Events, of : Nick \cup Room])
  /\ s2c \in Seq([event : Events, of : Nick \cup Room])
  /\ asked \in Seq([func : Funcs, of : Nick \cup Room])
  /\ shown \in Seq([func : Funcs, of : Nick \cup Room \cup {Garbage}])
  /\ overlap \in BOOLEAN

(* What the IRC client was shown is the answer to every question that has  *)
(* been answered, in order, once, and by the callback that asked.  LEGGIMI *)
(* line 87: WHOIS shows information on the user given as its argument.     *)
AnsweredAsAsked == shown = SubSeq(asked, 1, Len(asked) - Waiting)

(* An IRC client that waits for every answer before it asks again, and     *)
(* meanwhile enters no room, is answered as it asked, word for word of its *)
(* lines however they are spaced.                                          *)
AnsweredOneByOne == ~overlap => AnsweredAsAsked

WaitingFor(event) == Len(AllOf(event, c2s)) + Len(AllOf(event, s2c))

(* Every callback waits for an answer of its own that will come: none is   *)
(* left over to show what nobody asked for.                                *)
HandlersAwaited ==
  \A event \in Events : Len(handlers[event]) <= WaitingFor(event)

(* Every callback fires, and with it whoever waited for it is told.        *)
CallbacksFire ==
  \A event \in Events : handlers[event] # <<>> ~> handlers[event] = <<>>
==============================================================================
