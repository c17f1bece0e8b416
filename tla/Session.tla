------------------------------- MODULE Session -------------------------------
(***************************************************************************)
(* One client connection of irC6: the IRC side collects PASS, NICK and     *)
(* USER, the C6 side then connects to the login server, obtains the key,   *)
(* sends the user name, chooses a nick, logs in, may be redirected to      *)
(* another server, and is welcomed.  Commands that arrive before the       *)
(* welcome are kept (ADD_COMMAND) and replayed by it.                      *)
(*                                                                         *)
(* A step is one event-loop callback cut at the granularity of one client  *)
(* line (irc_process_input) or one server packet (c6_process_input): the   *)
(* lines and packets of one read() are a sequence of such steps.           *)
(*                                                                         *)
(* The C6 server is external.  A polite one follows the protocol of        *)
(* doc/protocollo-c6.txt; any other sends any packet at any time.          *)
(***************************************************************************)
EXTENDS Integers, Sequences

CONSTANTS
  Manners,     \* whether there are polite servers, others, or both
  CanSquit,    \* main.c: can_squit
  IdMod,       \* number of values of the uint16_t packet counter
  MaxLines,    \* bound: lines the client sends
  MaxServers,  \* bound: servers connected to, one more than the redirects
  MaxSent,     \* bound: packets written to one server before it stops pinging
  MaxInFlight, \* bound: packets of the server not read yet
  RudeLines,   \* bounds: as MaxLines and MaxSent, where the server is not
  RudeSent     \*   polite, for every packet it sends

ASSUME SessionAssumption ==
  /\ Manners \subseteq BOOLEAN
  /\ CanSquit \in BOOLEAN
  /\ IdMod \in Nat \ {0, 1}
  /\ MaxLines \in Nat
  /\ MaxServers \in Nat \ {0}
  /\ MaxSent \in Nat
  /\ MaxInFlight \in Nat \ {0}
  /\ RudeLines \in Nat
  /\ RudeSent \in Nat

VARIABLES
  conn,        \* "open", "closed" (irC6_close_connection), "exited" (process)
  conn_flags,  \* IRC_FLAG_PASS, _NICK, _USER, _READY
  timer,       \* the 20 second read timeout of the client socket is armed
  lines,       \* number of client lines processed
  cmd_list,    \* kept commands: the numbers of their lines
  fd,          \* C6 socket: 0 is -1, n is the connection to the n-th server
  key,         \* whose key c6_send encodes with: 0 is the zeroed one
  clt_id,      \* counter put in the next packet
  sent,        \* history: packets written to the current server
  srv,         \* external: how far the server is with this client
  c2s,         \* packets written and not read by the server
  s2c,         \* packets of the server not processed yet
  accepted,    \* history: deferrable lines received
  done,        \* history: deferrable lines executed
  polite       \* external: the server follows the protocol; never changes

ircVars  == <<conn_flags, timer, cmd_list>>
c6Vars   == <<fd, key, clt_id, sent>>
netVars  == <<srv, c2s, s2c>>
histVars == <<accepted, done, polite>>
vars == <<conn, lines, ircVars, c6Vars, netVars, histVars>>

LoginFlags == {"PASS", "NICK", "USER"}
Flags      == LoginFlags \cup {"READY"}

LoginCompleted(flags) == LoginFlags \subseteq flags

(* Defect for the mutation runs: READY is forgotten. *)
ConnectionCompletedAtLogin == LoginCompleted(conn_flags)

ConnectionCompleted == Flags \subseteq conn_flags

ClientPacketTypes == {"username", "login", "status", "cmd", "roomlist", "pong"}
NicksTypes  == {"NICKS_OLD", "NICKS_LISTED", "NICKS_UNLISTED", "NICKS_ERROR"}
ServerTypes == {"HELO", "REDIR", "INFOLOGIN", "WLCOME", "REFUSED", "PING"}
                 \cup NicksTypes

ServerPhases == {"greet", "user", "nicks", "login", "decide", "redirected",
                 "welcome", "in", "refused", "gone"}

(* What a protocol-following server sends in which phase, and its next phase. *)
ServerFlow ==
  {<<"greet", "HELO", "user">>}
    \cup ({"nicks"} \X NicksTypes \X {"login"})
    \cup {<<"decide", "REDIR", "redirected">>,
          <<"decide", "REFUSED", "refused">>,
          <<"decide", "INFOLOGIN", "welcome">>,
          <<"welcome", "WLCOME", "in">>,
          <<"in", "PING", "in">>}

ClientPackets == [type : ClientPacketTypes, key : 0..MaxServers, id : 0..(IdMod - 1)]
ServerPackets == [type : ServerTypes \cup {"EOF"}, from : 1..MaxServers]

(* Defect: a counter wider than the packet field. *)
NoWrap(n) == n

Wrap(n) == n % IdMod

Init ==
  /\ conn = "open"
  /\ conn_flags = {}
  /\ timer = TRUE
  /\ lines = 0
  /\ cmd_list = <<>>
  /\ fd = 0
  /\ key = 0
  /\ clt_id = 1
  /\ sent = 0
  /\ srv = "gone"
  /\ c2s = <<>>
  /\ s2c = <<>>
  /\ accepted = <<>>
  /\ done = <<>>
  /\ polite \in Manners

-----------------------------------------------------------------------------
(* The connection and everything in its area are freed, both sockets closed. *)
Freed ==
  /\ conn_flags' = {}
  /\ timer' = FALSE
  /\ cmd_list' = <<>>
  /\ fd' = 0
  /\ key' = 0
  /\ clt_id' = 1
  /\ sent' = 0
  /\ srv' = "gone"
  /\ c2s' = <<>>
  /\ s2c' = <<>>

(* irC6_close_connection, also as the end of IRC_FATAL. *)
Close == conn' = "closed" /\ Freed

(* exit_program: every connection of the process is freed with this one. *)
Exit == conn' = "exited" /\ Freed

(* The packets c6_send writes for a list of types, encoded with key k. *)
Wire(types, k) ==
  [i \in 1..Len(types) |->
     [type |-> types[i], key |-> k, id |-> Wrap(clt_id + i - 1)]]

(* c6_send: the write succeeds, and the counter moves on. *)
Send(types, k) ==
  /\ fd > 0
  /\ c2s' = IF srv = "gone" THEN c2s ELSE c2s \o Wire(types, k)
  /\ clt_id' = Wrap(clt_id + Len(types))
  /\ sent' = sent + Len(types)

(* c6_send: the write fails.  No socket is EBADF, "errore in scrittura"    *)
(* and close; a server that is gone is that or SIGPIPE, whose handler is   *)
(* exit_program.                                                           *)
SendFails ==
  \/ fd = 0 /\ Close
  \/ srv = "gone" /\ fd > 0 /\ (Close \/ Exit)

Commands(n) == [i \in 1..n |-> "cmd"]

(* Defect: the timeout survives the login. *)
TimerLeft == UNCHANGED timer

(* do_login: event_del, then event_add without a timeout. *)
TimerRemoved == timer' = FALSE

(* Defect: inserted at the wrong end of the list. *)
KeepFirst(line) == cmd_list' = <<line>> \o cmd_list

(* ADD_COMMAND: SIMPLEQ_INSERT_TAIL. *)
Keep(line) == cmd_list' = Append(cmd_list, line)

(* Defects: the list is not reinitialised; nothing is replayed. *)
ReplayAndLeave == done' = done \o cmd_list /\ UNCHANGED cmd_list
ReplayNothing  == UNCHANGED <<done, cmd_list>>

(* irc_out_welcome: every kept command is processed, the list is emptied. *)
Replay == done' = done \o cmd_list /\ cmd_list' = <<>>

(* Defect: the user name is sent before the key is taken. *)
StaleHeloKey == key

HeloKey == Head(s2c).from

(* Defect: the redirect leaves the counter alone. *)
CounterLeft == UNCHANGED clt_id

CounterReset == clt_id' = 1

-----------------------------------------------------------------------------
(* Lines of the client *)

(* c_pass, c_nick, c_user and do_login: the three flags come in any order; *)
(* the last one disarms the timeout and connects to the login server.      *)
LoginLine(flag) ==
  LET flags == conn_flags \cup {flag} IN
  /\ flag \in LoginFlags
  /\ UNCHANGED histVars
  /\ \/ /\ LoginCompleted(conn_flags)      \* "login gia' completata"
        /\ UNCHANGED <<conn, ircVars, c6Vars, netVars>>
     \/ /\ ~LoginCompleted(flags)
        /\ conn_flags' = flags
        /\ UNCHANGED <<conn, timer, cmd_list, c6Vars, netVars>>
     \/ /\ ~LoginCompleted(conn_flags) /\ LoginCompleted(flags)
        /\ \/ /\ conn_flags' = flags
              /\ TimerRemoved
              /\ fd' = 1
              /\ srv' = "greet"
              /\ UNCHANGED <<conn, cmd_list, key, clt_id, sent, c2s, s2c>>
           \/ Close                        \* c6_connect fails: "gui fatal"

(* A command whose handler starts with ADD_COMMAND: kept until the session *)
(* is ready, executed at once after.  It writes at most one packet.        *)
DeferrableLine ==
  LET line == lines + 1 IN
  /\ UNCHANGED polite
  /\ accepted' = Append(accepted, line)
  /\ \/ /\ ~ConnectionCompleted
        /\ Keep(line)
        /\ UNCHANGED <<conn, conn_flags, timer, c6Vars, netVars, done>>
     \/ /\ ConnectionCompleted
        /\ done' = Append(done, line)
        /\ \/ /\ \E n \in 0..1 : Send(Commands(n), key)
              /\ UNCHANGED <<conn, ircVars, fd, key, srv, s2c>>
           \/ SendFails

(* c_list has no ADD_COMMAND: the request is written at once. *)
ListLine ==
  /\ UNCHANGED histVars
  /\ \/ /\ Send(<<"roomlist">>, key)
        /\ UNCHANGED <<conn, ircVars, fd, key, srv, s2c>>
     \/ SendFails

QuitLine == Close /\ UNCHANGED histVars

SquitLine ==
  /\ UNCHANGED histVars
  /\ \/ CanSquit /\ Exit
     \/ ~CanSquit /\ UNCHANGED <<conn, ircVars, c6Vars, netVars>>

ClientLine ==
  /\ conn = "open"
  /\ lines < MaxLines
  /\ ~polite => lines < RudeLines
  /\ lines' = lines + 1
  /\ \/ \E flag \in LoginFlags : LoginLine(flag)
     \/ DeferrableLine
     \/ ListLine
     \/ QuitLine
     \/ SquitLine

(* irc_read: end of file or error on the client socket. *)
ClientGone ==
  /\ conn = "open"
  /\ Close
  /\ UNCHANGED <<lines, histVars>>

(* Defect: the timeout is taken as in add_connection, only ignored. *)
TimeoutIgnored ==
  /\ conn = "open"
  /\ timer
  /\ UNCHANGED vars

(* irc_read with EV_TIMEOUT. *)
Timeout ==
  /\ conn = "open"
  /\ timer
  /\ Close
  /\ UNCHANGED <<lines, histVars>>

-----------------------------------------------------------------------------
(* Packets of the server *)

Receives(type) ==
  /\ conn = "open"
  /\ s2c # <<>>
  /\ Head(s2c).type = type
  /\ UNCHANGED lines

(* cmd_helo: the key is taken and the user name sent with it. *)
RecvHelo ==
  /\ Receives("HELO")
  /\ UNCHANGED histVars
  /\ \/ /\ key' = Head(s2c).from
        /\ Send(<<"username">>, HeloKey)
        /\ s2c' = Tail(s2c)
        /\ UNCHANGED <<conn, ircVars, fd, srv>>
     \/ SendFails

(* cmd_nicks, irc_out_selnick: an old account logs in with the user name,  *)
(* a new one with the nick asked for; if that is not in the list the       *)
(* password is NULL, and c6_login takes its length.  An error is fatal.    *)
RecvNicks ==
  /\ UNCHANGED histVars
  /\ \/ /\ Receives("NICKS_OLD") \/ Receives("NICKS_LISTED")
        /\ \/ /\ Send(<<"login">>, key)
              /\ s2c' = Tail(s2c)
              /\ UNCHANGED <<conn, ircVars, fd, key, srv>>
           \/ SendFails
     \/ Receives("NICKS_UNLISTED") /\ Exit
     \/ Receives("NICKS_ERROR") /\ Close

(* cmd_redir: the socket is replaced, counters and keys are reset.  What   *)
(* the old server sent in the same read() is still in the buffer and is    *)
(* parsed as if it came from the new one.                                  *)
RecvRedir ==
  /\ Receives("REDIR")
  /\ UNCHANGED histVars
  /\ \/ /\ fd < MaxServers
        /\ fd' = fd + 1
        /\ key' = 0
        /\ CounterReset
        /\ sent' = 0
        /\ srv' = "greet"
        /\ c2s' = <<>>
        /\ \E n \in 0..(Len(s2c) - 1) :
             /\ \A i \in 2..(n + 1) : s2c[i].type # "EOF"
             /\ s2c' = SubSeq(s2c, 2, n + 1)
        /\ UNCHANGED <<conn, ircVars>>
     \/ Close                              \* "redirect fallito"

(* cmd_infologin: banners and buttons are shown. *)
RecvInfologin ==
  /\ Receives("INFOLOGIN")
  /\ s2c' = Tail(s2c)
  /\ UNCHANGED <<conn, ircVars, c6Vars, srv, c2s, histVars>>

(* cmd_wlcome, irc_out_welcome: the status is sent, READY is set and the   *)
(* kept commands are processed in order.  A write that fails ends the      *)
(* callback, and with it the replay, after some of them.                   *)
RecvWlcome ==
  /\ Receives("WLCOME")
  /\ UNCHANGED <<accepted, polite>>
  /\ \/ /\ \E n \in 0..Len(cmd_list) :
             Send(<<"status">> \o Commands(n), key)
        /\ conn_flags' = conn_flags \cup {"READY"}
        /\ Replay
        /\ s2c' = Tail(s2c)
        /\ UNCHANGED <<conn, timer, fd, key, srv>>
     \/ /\ SendFails
        /\ \E n \in 0..Len(cmd_list) : done' = done \o SubSeq(cmd_list, 1, n)

(* cmd_nouser, cmd_invpass, cmd_alrcon: IRC_FATAL. *)
RecvRefused ==
  /\ Receives("REFUSED")
  /\ Close
  /\ UNCHANGED histVars

(* cmd_ping, c6_send_pong. *)
RecvPing ==
  /\ Receives("PING")
  /\ UNCHANGED histVars
  /\ \/ /\ Send(<<"pong">>, key)
        /\ s2c' = Tail(s2c)
        /\ UNCHANGED <<conn, ircVars, fd, key, srv>>
     \/ SendFails

(* c6_read: end of file or error on the server socket. *)
RecvEof ==
  /\ Receives("EOF")
  /\ Close
  /\ UNCHANGED histVars

ServerPacket ==
  \/ RecvHelo \/ RecvNicks \/ RecvRedir \/ RecvInfologin
  \/ RecvWlcome \/ RecvRefused \/ RecvPing \/ RecvEof

-----------------------------------------------------------------------------
(* The server, external *)

(* It sends a packet of its protocol, or any packet if it is not polite. *)
ServerSend ==
  \E type \in ServerTypes, next \in ServerPhases :
    /\ conn = "open"
    /\ fd > 0
    /\ srv # "gone"
    /\ Len(s2c) < MaxInFlight
    /\ type = "REDIR" => fd < MaxServers
    /\ polite /\ type = "PING" => sent < MaxSent
    /\ ~polite => sent < RudeSent
    /\ \/ <<srv, type, next>> \in ServerFlow
       \/ ~polite /\ next = srv
    /\ srv' = next
    /\ s2c' = Append(s2c, [type |-> type, from |-> fd])
    /\ UNCHANGED <<conn, lines, ircVars, c6Vars, c2s, histVars>>

(* It reads a packet; one that it can decode and waits for moves it on. *)
ServerRecv ==
  /\ conn = "open"
  /\ c2s # <<>>
  /\ c2s' = Tail(c2s)
  /\ srv' = IF Head(c2s).key # fd THEN srv
            ELSE IF srv = "user" /\ Head(c2s).type = "username" THEN "nicks"
            ELSE IF srv = "login" /\ Head(c2s).type = "login" THEN "decide"
            ELSE srv
  /\ UNCHANGED <<conn, lines, ircVars, c6Vars, s2c, histVars>>

(* It goes away: what it sent is followed by an end of file. *)
ServerDrop ==
  /\ conn = "open"
  /\ fd > 0
  /\ srv # "gone"
  /\ srv' = "gone"
  /\ c2s' = <<>>
  /\ s2c' = Append(s2c, [type |-> "EOF", from |-> fd])
  /\ UNCHANGED <<conn, lines, ircVars, c6Vars, histVars>>

(* After the end nothing happens. *)
Finished == conn # "open" /\ UNCHANGED vars

Next ==
  \/ ClientLine
  \/ ClientGone
  \/ Timeout
  \/ ServerPacket
  \/ ServerSend
  \/ ServerRecv
  \/ ServerDrop
  \/ Finished

Spec == Init /\ [][Next]_vars

(***************************************************************************)
(* event_dispatch serves every ready socket and every expired timer; the   *)
(* server is assumed to read and to answer as long as it is not gone.      *)
(***************************************************************************)
Fairness ==
  /\ WF_vars(ServerPacket)
  /\ WF_vars(Timeout)
  /\ WF_vars(ServerSend)
  /\ WF_vars(ServerRecv)

FairSpec == Spec /\ Fairness

-----------------------------------------------------------------------------
(* Properties *)

(* Every variable has its type. *)
TypeOK ==
  /\ conn \in {"open", "closed", "exited"}
  /\ conn_flags \in SUBSET Flags
  /\ timer \in BOOLEAN
  /\ lines \in 0..MaxLines
  /\ cmd_list \in Seq(1..MaxLines)
  /\ fd \in 0..MaxServers
  /\ key \in 0..MaxServers
  /\ clt_id \in 0..(IdMod - 1)
  /\ sent \in Nat
  /\ srv \in ServerPhases
  /\ c2s \in Seq(ClientPackets)
  /\ s2c \in Seq(ServerPackets)
  /\ accepted \in Seq(1..MaxLines)
  /\ done \in Seq(1..MaxLines)
  /\ polite \in Manners

(* While the session is open its client socket has a timeout exactly until *)
(* the three login lines are in, and a C6 socket exactly from then on, also *)
(* across redirects; packets of a server, and the welcome among them, come *)
(* only after (do_login, cmd_redir, irc_out_welcome).                      *)
LoginGates ==
  conn = "open" =>
    /\ timer <=> ~LoginCompleted(conn_flags)
    /\ fd > 0 <=> LoginCompleted(conn_flags)
    /\ "READY" \in conn_flags => LoginCompleted(conn_flags)
    /\ s2c # <<>> => LoginCompleted(conn_flags)

(* The commands received are, in order, those executed and then those      *)
(* kept: none is lost, repeated or overtaken, whatever redirects, replays  *)
(* and immediate commands come between; once the session is ready none is  *)
(* kept (ADD_COMMAND, irc_out_welcome).                                    *)
ExecutedInOrder ==
  conn = "open" =>
    /\ accepted = done \o cmd_list
    /\ ConnectionCompleted => cmd_list = <<>>

(* Every packet but a room list request is encoded with the key of the     *)
(* server it is written to, across redirects; a ready session has that key *)
(* (cmd_helo, cmd_redir, c6_send).  LIST is the one command that is not    *)
(* kept until there is a key.                                              *)
PacketsKeyed ==
  polite =>
    /\ \A i \in DOMAIN c2s : c2s[i].type # "roomlist" => c2s[i].key = fd
    /\ "READY" \in conn_flags => key = fd

(* The packets a server receives carry consecutive numbers from 1, modulo  *)
(* the width of the counter, from its first packet on (c6_send, cmd_redir). *)
PacketIds ==
  /\ clt_id = Wrap(sent + 1)
  /\ \A i \in DOMAIN c2s : c2s[i].id = Wrap(sent - Len(c2s) + i)

(* No command and no status reaches a server that has not welcomed the     *)
(* user: the deferred commands wait for WLCOME, also of the server a       *)
(* redirect led to (ADD_COMMAND, cmd_wlcome).                              *)
CommandsAfterWelcome ==
  polite =>
    \A i \in DOMAIN c2s : c2s[i].type \in {"cmd", "status", "pong"} => srv = "in"

(* As doc/protocollo-c6.txt has it: every packet of the client is encoded. *)
EveryPacketEncoded == \A i \in DOMAIN c2s : c2s[i].key = fd

(* A client that never completes its login does not stay (the 20 seconds   *)
(* of add_connection, irc_read).                                           *)
LoginDecided == conn = "open" ~> (LoginCompleted(conn_flags) \/ conn # "open")

(* A kept command is executed or its session ends, where the server        *)
(* follows the protocol.                                                   *)
KeptIsServed == polite /\ cmd_list # <<>> ~> cmd_list = <<>>

(* The session executes commands as InOrderExec promises.                  *)
Exec == INSTANCE InOrderExec
          WITH pending <- cmd_list, alive <- (conn = "open"), Command <- 1..MaxLines
ImplementsInOrderExec == Exec!Spec
==============================================================================
