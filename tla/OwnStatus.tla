------------------------------ MODULE OwnStatus ------------------------------
(***************************************************************************)
(* The user's own status (irc/status.c): bits of c->status, the text that  *)
(* answers messages while the user is away, the user modes the IRC client  *)
(* was shown for them, and the packets that tell the C6 server.            *)
(*                                                                         *)
(* The calls are operators on a record own = [status, away, umodes, sent], *)
(* so that a command of several modes is one step; sent holds the packets  *)
(* it sends.  The characters of the text are left out, and so is the text  *)
(* of an earlier +a, which a new one does not free (Areas).                *)
(***************************************************************************)
EXTENDS Naturals, Sequences, SequencesExt

CONSTANTS
  Text,     \* texts of away
  NoText,   \* NULL
  ModeArgs  \* arguments of MODE, each the letters with their signs

ASSUME OwnAssumption ==
  /\ NoText \notin Text
  /\ ModeArgs \subseteq Seq([plus : BOOLEAN, letter : {"a", "n", "i"}])

VARIABLES
  status,   \* c->status
  away,     \* IRC(c)->away
  umodes    \* the IRC client's: its user modes of these

ownVars == <<status, away, umodes>>

(* STATUS_MASK *)
StatusMask == {"available", "busy", "netfriends"}

Bits == {"online", "visible ip"} \cup StatusMask

(* irc_out_logindone *)
OwnInit ==
  /\ status = {"online", "available"}
  /\ away = NoText
  /\ umodes = {}

-----------------------------------------------------------------------------
Own == [status |-> status, away |-> away, umodes |-> umodes, sent |-> << >>]

(* c6_send_status, bit by bit. *)
SendStatus(own) ==
  [own EXCEPT !.sent = Append(@, [op |-> "status", bits |-> own.status \cap Bits])]

ShowMode(own, on, letter) ==
  [own EXCEPT !.umodes = IF on THEN @ \cup {letter} ELSE @ \ {letter}]

Choose(own, bit) == [own EXCEPT !.status = (@ \ StatusMask) \cup {bit}]

(* Defect: the text outlives the status. *)
KeepAway(own) == own

ForgetAway(own) == [own EXCEPT !.away = NoText]

(* irc_status_busy; without a text the former one stays. *)
Busy(own, on, text) ==
  LET chosen == IF ~on THEN ForgetAway(Choose(own, "available"))
                ELSE IF text = NoText THEN Choose(own, "busy")
                ELSE [Choose(own, "busy") EXCEPT !.away = text]
  IN  ShowMode(SendStatus(chosen), on, "a")

OnlyFriends(own, on) ==
  LET chosen == Choose(own, IF on THEN "netfriends" ELSE "available")
  IN  ForgetAway(ShowMode(SendStatus(chosen), on, "n"))

(* Only the mode of the status that is set is taken back. *)
Available(own) ==
  LET notBusy == IF "busy" \in own.status THEN Busy(own, FALSE, NoText) ELSE own
  IN  IF "netfriends" \in notBusy.status THEN OnlyFriends(notBusy, FALSE) ELSE notBusy

VisibleIp(own, on) ==
  ShowMode(SendStatus([own EXCEPT !.status = IF on THEN @ \ {"visible ip"}
                                             ELSE @ \cup {"visible ip"}]),
           on, "i")

-----------------------------------------------------------------------------
(* nick_mode: letters with the sign before them; +a takes the argument of  *)
(* the command as its text.                                                *)
OneMode(own, m, text) ==
  CASE m.letter = "a" -> Busy(own, m.plus, IF m.plus THEN text ELSE NoText)
    [] m.letter = "n" -> OnlyFriends(own, m.plus)
    [] m.letter = "i" -> VisibleIp(own, m.plus)

ModeResult(modes, text) ==
  FoldLeft(LAMBDA own, m : OneMode(own, m, text), Own, modes)

(* What the commands of the IRC client and of the console do: c_mode,      *)
(* c_away, which is a MODE of +a or -a, and stato.                         *)
Results ==
  {ModeResult(modes, text) : modes \in ModeArgs, text \in Text \cup {NoText}}
  \cup {Available(Own), Busy(Own, TRUE, NoText), OnlyFriends(Own, TRUE)}

Takes(own) ==
  /\ status' = own.status
  /\ away' = own.away
  /\ umodes' = own.umodes
=============================================================================
