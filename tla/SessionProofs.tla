---------------------------- MODULE SessionProofs ----------------------------
(* Theorems about Session for every value of its constants: what it does   *)
(* with commands, then what is on its way between it and the server, then  *)
(* the numbers of its packets.                                             *)
EXTENDS Session, SequenceTheorems, TLAPS

-----------------------------------------------------------------------------
(* Lemmas about the operators of Session *)

(* The packets written for a list of types are packets, one for each type. *)
LEMMA WireType ==
  ASSUME clt_id \in 0..(IdMod - 1), SessionAssumption,
         NEW types \in Seq(ClientPacketTypes), NEW k \in 0..MaxServers
  PROVE  /\ Wire(types, k) \in Seq(ClientPackets)
         /\ Len(Wire(types, k)) = Len(types)
         /\ \A i \in 1..Len(types) :
              /\ Wire(types, k)[i].type = types[i]
              /\ Wire(types, k)[i].key = k
<1>1. Len(types) \in Nat /\ \A i \in 1..Len(types) : types[i] \in ClientPacketTypes
  BY LenProperties, ElementOfSeq
<1>2. \A i \in 1..Len(types) : Wrap(clt_id + i - 1) \in 0..(IdMod - 1)
  BY <1>1 DEF Wrap, SessionAssumption
<1>3. \A i \in 1..Len(types) :
        [type |-> types[i], key |-> k, id |-> Wrap(clt_id + i - 1)] \in ClientPackets
  BY <1>1, <1>2 DEF ClientPackets
<1>4. QED
  BY <1>1, <1>3, IsASeq DEF Wire

(* A number of command packets is a list of packet types. *)
LEMMA CommandsType ==
  ASSUME NEW n \in Nat
  PROVE  /\ Commands(n) \in Seq(ClientPacketTypes)
         /\ Len(Commands(n)) = n
         /\ \A i \in 1..n : Commands(n)[i] = "cmd"
<1>1. "cmd" \in ClientPacketTypes
  BY DEF ClientPacketTypes
<1>2. QED
  BY <1>1, IsASeq DEF Commands

(* The types of the packets that answer a welcome. *)
LEMMA WelcomeTypes ==
  ASSUME NEW n \in Nat
  PROVE  /\ <<"status">> \o Commands(n) \in Seq(ClientPacketTypes)
         /\ \A i \in 1..Len(<<"status">> \o Commands(n)) :
              (<<"status">> \o Commands(n))[i] \in {"status", "cmd"}
<1>1. <<"status">> \in Seq(ClientPacketTypes) /\ Len(<<"status">>) = 1
  BY DEF ClientPacketTypes
<1>2. QED
  BY <1>1, CommandsType, ConcatProperties

(* c6_send keeps the types of what it writes. *)
LEMMA SendType ==
  ASSUME TypeOK, SessionAssumption,
         NEW types \in Seq(ClientPacketTypes), NEW k \in 0..MaxServers, Send(types, k)
  PROVE  /\ c2s' \in Seq(ClientPackets)
         /\ clt_id' \in 0..(IdMod - 1)
         /\ sent' \in Nat
<1>1. Len(types) \in Nat
  BY LenProperties
<1>2. clt_id' \in 0..(IdMod - 1) /\ sent' \in Nat
  BY <1>1 DEF Send, Wrap, SessionAssumption, TypeOK
<1>3. Wire(types, k) \in Seq(ClientPackets)
  BY WireType DEF TypeOK
<1>4. c2s' \in Seq(ClientPackets)
  BY <1>3, ConcatProperties DEF Send, TypeOK
<1>5. QED
  BY <1>2, <1>4

(* A connection that is closed or lost with its process is well typed. *)
LEMMA FreedType ==
  ASSUME SessionAssumption, Freed
  PROVE  /\ conn_flags' \in SUBSET Flags
         /\ timer' \in BOOLEAN
         /\ cmd_list' \in Seq(1..MaxLines)
         /\ fd' \in 0..MaxServers
         /\ key' \in 0..MaxServers
         /\ clt_id' \in 0..(IdMod - 1)
         /\ sent' \in Nat
         /\ srv' \in ServerPhases
         /\ c2s' \in Seq(ClientPackets)
         /\ s2c' \in Seq(ServerPackets)
<1>1. timer' \in BOOLEAN
  BY DEF Freed
<1>2. srv' \in ServerPhases
  BY DEF Freed, ServerPhases
<1>3. clt_id' \in 0..(IdMod - 1)
  BY DEF Freed, SessionAssumption
<1>4. /\ cmd_list' \in Seq(1..MaxLines)
      /\ c2s' \in Seq(ClientPackets)
      /\ s2c' \in Seq(ServerPackets)
  BY DEF Freed
<1>5. QED
  BY <1>1, <1>2, <1>3, <1>4 DEF Freed, SessionAssumption

(* However a session ends, its variables keep their types. *)
LEMMA EndType ==
  ASSUME SessionAssumption, Close \/ Exit, lines' \in 0..MaxLines,
         accepted' \in Seq(1..MaxLines), done' \in Seq(1..MaxLines),
         polite' \in Manners
  PROVE  TypeOK'
  BY FreedType DEF TypeOK, Close, Exit

-----------------------------------------------------------------------------
(* The initial state is well typed. *)
LEMMA InitType == SessionAssumption /\ Init => TypeOK
  BY DEF Init, TypeOK, SessionAssumption, ServerPhases

(* A client line keeps the types. *)
LEMMA ClientLineType ==
  ASSUME SessionAssumption, TypeOK, ClientLine
  PROVE  TypeOK'
<1> USE SessionAssumption
<1>1. lines' \in 0..MaxLines /\ lines + 1 \in 1..MaxLines
  BY DEF ClientLine, TypeOK, SessionAssumption
<1>0. polite' \in Manners
  BY DEF ClientLine, LoginLine, DeferrableLine, ListLine, QuitLine, SquitLine, histVars, TypeOK
<1>2. ASSUME Close \/ Exit, accepted' \in Seq(1..MaxLines), done' \in Seq(1..MaxLines)
      PROVE  TypeOK'
  BY <1>0, <1>1, <1>2, EndType
<1>3. CASE \E flag \in LoginFlags : LoginLine(flag)
  <2>1. PICK flag \in LoginFlags : LoginLine(flag)
    BY <1>3
  <2>2. conn_flags \cup {flag} \in SUBSET Flags
    BY DEF TypeOK, Flags
  <2>3. CASE Close
    BY <1>2, <2>1, <2>3 DEF LoginLine, histVars, TypeOK
  <2>4. CASE ~Close
    <3>1. timer' \in BOOLEAN
      BY <2>1, <2>4 DEF LoginLine, TimerRemoved, ircVars, TypeOK
    <3>2. srv' \in ServerPhases
      BY <2>1, <2>4 DEF LoginLine, netVars, TypeOK, ServerPhases
    <3>3. /\ conn' = conn /\ conn_flags' \in SUBSET Flags /\ fd' \in 0..MaxServers
          /\ UNCHANGED <<cmd_list, key, clt_id, sent, c2s, s2c, accepted, done>>
      BY <2>1, <2>2, <2>4
      DEF LoginLine, TypeOK, ircVars, c6Vars, netVars, histVars, SessionAssumption
    <3>4. QED
      BY <1>0, <1>1, <3>1, <3>2, <3>3 DEF TypeOK
  <2>5. QED
    BY <2>3, <2>4
<1>4. CASE DeferrableLine
  <2>1. accepted' \in Seq(1..MaxLines)
    BY <1>1, <1>4, AppendProperties DEF DeferrableLine, TypeOK
  <2>2. CASE ~ConnectionCompleted
    <3>1. cmd_list' = Append(cmd_list, lines + 1)
      BY <1>4, <2>2 DEF DeferrableLine, Keep
    <3>2. cmd_list' \in Seq(1..MaxLines)
      BY <1>1, <3>1, AppendProperties DEF TypeOK
    <3>3. QED
      BY <1>1, <1>4, <2>1, <2>2, <3>2 DEF DeferrableLine, TypeOK, c6Vars, netVars
  <2>3. CASE ConnectionCompleted
    <3>1. done' \in Seq(1..MaxLines)
      <4>1. done' = Append(done, lines + 1)
        BY <1>4, <2>3 DEF DeferrableLine
      <4>2. QED
        BY <1>1, <4>1, AppendProperties DEF TypeOK
    <3>2. CASE SendFails
      BY <1>2, <2>1, <3>1, <3>2 DEF SendFails
    <3>3. CASE /\ \E n \in 0..1 : Send(Commands(n), key)
               /\ UNCHANGED <<conn, ircVars, fd, key, srv, s2c>>
      <4>1. PICK n \in 0..1 : Send(Commands(n), key)
        BY <3>3
      <4>2. Commands(n) \in Seq(ClientPacketTypes)
        BY CommandsType
      <4>3. key \in 0..MaxServers
        BY DEF TypeOK
      <4>4. /\ c2s' \in Seq(ClientPackets)
            /\ clt_id' \in 0..(IdMod - 1)
            /\ sent' \in Nat
        BY <4>1, <4>2, <4>3, SendType
      <4>5. QED
        BY <1>0, <1>1, <2>1, <3>1, <3>3, <4>4 DEF TypeOK, ircVars
    <3>4. QED
      BY <1>4, <2>3, <3>2, <3>3 DEF DeferrableLine
  <2>4. QED
    BY <2>2, <2>3
<1>5. CASE ListLine
  <2>1. <<"roomlist">> \in Seq(ClientPacketTypes) /\ key \in 0..MaxServers
    BY DEF ClientPacketTypes, TypeOK
  <2>2. CASE SendFails
    BY <1>2, <1>5, <2>2 DEF ListLine, SendFails, histVars, TypeOK
  <2>3. CASE ~SendFails
    <3>1. /\ c2s' \in Seq(ClientPackets)
          /\ clt_id' \in 0..(IdMod - 1)
          /\ sent' \in Nat
      BY <1>5, <2>1, <2>3, SendType DEF ListLine
    <3>2. QED
      BY <1>1, <1>5, <2>3, <3>1 DEF ListLine, TypeOK, ircVars, histVars
  <2>4. QED
    BY <2>2, <2>3
<1>6. CASE QuitLine
  BY <1>2, <1>6 DEF QuitLine, histVars, TypeOK
<1>7. CASE SquitLine
  BY <1>1, <1>2, <1>7 DEF SquitLine, ircVars, c6Vars, netVars, histVars, TypeOK
<1>8. QED
  BY <1>3, <1>4, <1>5, <1>6, <1>7 DEF ClientLine

(* The head of the packets not processed yet is one, the rest are some. *)
LEMMA HeadTailType ==
  ASSUME TypeOK, s2c # <<>>
  PROVE  /\ Head(s2c) \in ServerPackets
         /\ Tail(s2c) \in Seq(ServerPackets)
         /\ Len(s2c) \in Nat \ {0}
  BY HeadTailProperties, EmptySeq DEF TypeOK

(* A packet of the server keeps the types. *)
LEMMA ServerPacketType ==
  ASSUME SessionAssumption, TypeOK, ServerPacket
  PROVE  TypeOK'
<1> USE SessionAssumption
<1>1. s2c # <<>> /\ conn = "open" /\ lines' = lines
  BY DEF ServerPacket, Receives, RecvHelo, RecvNicks, RecvRedir, RecvInfologin,
         RecvWlcome, RecvRefused, RecvPing, RecvEof
<1>2. /\ Head(s2c) \in ServerPackets
      /\ Tail(s2c) \in Seq(ServerPackets)
  BY <1>1, HeadTailType
<1>3. lines' \in 0..MaxLines
  BY <1>1 DEF TypeOK
<1>4. ASSUME Close \/ Exit \/ SendFails, UNCHANGED histVars
      PROVE  TypeOK'
  BY <1>3, <1>4, EndType DEF SendFails, histVars, TypeOK
<1>5. ASSUME NEW types \in Seq(ClientPacketTypes), NEW k \in 0..MaxServers,
             Send(types, k), s2c' = Tail(s2c), key' \in 0..MaxServers,
             UNCHANGED <<conn, ircVars, fd, srv, histVars>>
      PROVE  TypeOK'
  <2>1. /\ c2s' \in Seq(ClientPackets)
        /\ clt_id' \in 0..(IdMod - 1)
        /\ sent' \in Nat
    BY <1>5, SendType
  <2>2. QED
    BY <1>2, <1>3, <1>5, <2>1 DEF TypeOK, ircVars, histVars
<1>6. key \in 0..MaxServers
  BY DEF TypeOK
<1>7. /\ <<"username">> \in Seq(ClientPacketTypes)
      /\ <<"login">> \in Seq(ClientPacketTypes)
      /\ <<"pong">> \in Seq(ClientPacketTypes)
  BY DEF ClientPacketTypes
<1>8. CASE RecvHelo
  <2>1. Head(s2c).from \in 0..MaxServers
    BY <1>2 DEF ServerPackets
  <2>2. QED
    BY <1>4, <1>5, <1>7, <1>8, <2>1 DEF RecvHelo, HeloKey
<1>9. CASE RecvNicks
  BY <1>4, <1>5, <1>6, <1>7, <1>9 DEF RecvNicks
<1>10. CASE RecvRedir
  <2>1. CASE Close
    BY <1>4, <1>10, <2>1 DEF RecvRedir
  <2>2. CASE ~Close
    <3>1. PICK n \in 0..(Len(s2c) - 1) : s2c' = SubSeq(s2c, 2, n + 1)
      BY <1>10, <2>2 DEF RecvRedir
    <3>2. Len(s2c) \in Nat /\ s2c \in Seq(ServerPackets)
      BY LenProperties DEF TypeOK
    <3>3. s2c' \in Seq(ServerPackets)
      BY <3>1, <3>2, SubSeqProperties
    <3>4. srv' \in ServerPhases
      BY <1>10, <2>2 DEF RecvRedir, ServerPhases
    <3>5. /\ c2s' \in Seq(ClientPackets)
          /\ key' \in 0..MaxServers
          /\ sent' \in Nat
      <4>1. c2s' = <<>> /\ key' = 0 /\ sent' = 0
        BY <1>10, <2>2 DEF RecvRedir
      <4>2. QED
        BY <4>1 DEF SessionAssumption
    <3>7. fd' = fd + 1 /\ fd < MaxServers /\ clt_id' = 1
      BY <1>10, <2>2 DEF RecvRedir, CounterReset
    <3>8. fd' \in 0..MaxServers /\ clt_id' \in 0..(IdMod - 1)
      BY <3>7 DEF TypeOK, SessionAssumption
    <3>6. QED
      BY <1>3, <1>10, <2>2, <3>3, <3>4, <3>5, <3>8 DEF RecvRedir, TypeOK, ircVars, histVars
  <2>3. QED
    BY <2>1, <2>2
<1>11. CASE RecvInfologin
  BY <1>2, <1>3, <1>11 DEF RecvInfologin, TypeOK, ircVars, c6Vars, histVars
<1>12. CASE RecvWlcome
  <2>1. CASE SendFails
    <3>1. done \in Seq(1..MaxLines) /\ cmd_list \in Seq(1..MaxLines)
      BY DEF TypeOK
    <3>2. done' \in Seq(1..MaxLines)
      <4>1. CASE Replay
        BY <3>1, <4>1, ConcatProperties DEF Replay
      <4>2. CASE \E n \in 0..Len(cmd_list) : done' = done \o SubSeq(cmd_list, 1, n)
        <5>1. PICK n \in 0..Len(cmd_list) : done' = done \o SubSeq(cmd_list, 1, n)
          BY <4>2
        <5>2. SubSeq(cmd_list, 1, n) \in Seq(1..MaxLines)
          BY <3>1, SubSeqProperties, LenProperties
        <5>3. QED
          BY <3>1, <5>1, <5>2, ConcatProperties
      <4>3. QED
        BY <1>12, <4>1, <4>2 DEF RecvWlcome
    <3>3. QED
      BY <1>3, <1>12, <2>1, <3>2, EndType DEF RecvWlcome, SendFails, TypeOK
  <2>2. CASE ~SendFails
    <3>1. PICK n \in 0..Len(cmd_list) : Send(<<"status">> \o Commands(n), key)
      BY <1>12, <2>2 DEF RecvWlcome
    <3>2. n \in Nat
      BY LenProperties DEF TypeOK
    <3>3. /\ c2s' \in Seq(ClientPackets)
          /\ clt_id' \in 0..(IdMod - 1)
          /\ sent' \in Nat
      BY <1>6, <3>1, <3>2, WelcomeTypes, SendType
    <3>4. done' \in Seq(1..MaxLines) /\ cmd_list' \in Seq(1..MaxLines)
      <4>1. done' = done \o cmd_list /\ cmd_list' = <<>>
        BY <1>12, <2>2 DEF RecvWlcome, Replay
      <4>2. done \in Seq(1..MaxLines) /\ cmd_list \in Seq(1..MaxLines)
        BY DEF TypeOK
      <4>3. done' \in Seq(1..MaxLines)
        BY <4>1, <4>2, ConcatProperties
      <4>4. QED
        BY <4>1, <4>3
    <3>5. conn_flags' \in SUBSET Flags
      BY <1>12, <2>2 DEF RecvWlcome, TypeOK, Flags
    <3>6. QED
      BY <1>2, <1>3, <1>12, <2>2, <3>3, <3>4, <3>5 DEF RecvWlcome, TypeOK
  <2>3. QED
    BY <2>1, <2>2
<1>13. CASE RecvRefused
  BY <1>4, <1>13 DEF RecvRefused
<1>14. CASE RecvPing
  BY <1>4, <1>5, <1>6, <1>7, <1>14 DEF RecvPing
<1>15. CASE RecvEof
  BY <1>4, <1>15 DEF RecvEof
<1>16. QED
  BY <1>8, <1>9, <1>10, <1>11, <1>12, <1>13, <1>14, <1>15 DEF ServerPacket

(* The server, reading, sending or leaving, keeps the types. *)
LEMMA ServerType ==
  ASSUME SessionAssumption, TypeOK, ServerSend \/ ServerRecv \/ ServerDrop
  PROVE  TypeOK'
<1>1. CASE ServerSend
  <2>1. PICK type \in ServerTypes, next \in ServerPhases :
          srv' = next /\ fd > 0 /\ s2c' = Append(s2c, [type |-> type, from |-> fd])
    BY <1>1 DEF ServerSend
  <2>2. [type |-> type, from |-> fd] \in ServerPackets
    BY <2>1 DEF ServerPackets, TypeOK
  <2>3. s2c' \in Seq(ServerPackets)
    BY <2>1, <2>2, AppendProperties DEF TypeOK
  <2>4. QED
    BY <1>1, <2>1, <2>3 DEF ServerSend, TypeOK, ircVars, c6Vars, histVars
<1>2. CASE ServerRecv
  <2>1. Tail(c2s) \in Seq(ClientPackets)
    BY <1>2, HeadTailProperties DEF ServerRecv, TypeOK
  <2>2. srv' \in ServerPhases
    BY <1>2 DEF ServerRecv, ServerPhases, TypeOK
  <2>3. QED
    BY <1>2, <2>1, <2>2 DEF ServerRecv, TypeOK, ircVars, c6Vars, histVars
<1>3. CASE ServerDrop
  <2>1. [type |-> "EOF", from |-> fd] \in ServerPackets
    BY <1>3 DEF ServerDrop, ServerPackets, TypeOK
  <2>2. s2c' \in Seq(ServerPackets)
    BY <1>3, <2>1, AppendProperties DEF ServerDrop, TypeOK
  <2>3. srv' \in ServerPhases /\ c2s' \in Seq(ClientPackets)
    BY <1>3 DEF ServerDrop, ServerPhases
  <2>4. QED
    BY <1>3, <2>2, <2>3 DEF ServerDrop, TypeOK, ircVars, c6Vars, histVars
<1>4. QED
  BY <1>1, <1>2, <1>3

(* Every step keeps the types. *)
LEMMA StepType == SessionAssumption /\ TypeOK /\ [Next]_vars => TypeOK'
<1> SUFFICES ASSUME SessionAssumption, TypeOK, [Next]_vars
             PROVE  TypeOK'
  OBVIOUS
<1>1. CASE ClientLine
  BY <1>1, ClientLineType
<1>2. CASE ClientGone \/ Timeout
  <2>1. /\ Close /\ lines' \in 0..MaxLines
        /\ accepted' \in Seq(1..MaxLines) /\ done' \in Seq(1..MaxLines)
        /\ polite' \in Manners
    BY <1>2 DEF ClientGone, Timeout, histVars, TypeOK
  <2>2. QED
    BY <2>1, EndType
<1>3. CASE ServerPacket
  BY <1>3, ServerPacketType
<1>4. CASE ServerSend \/ ServerRecv \/ ServerDrop
  BY <1>4, ServerType
<1>5. CASE Finished \/ UNCHANGED vars
  BY <1>5 DEF Finished, vars, ircVars, c6Vars, netVars, histVars, TypeOK
<1>6. QED
  BY <1>1, <1>2, <1>3, <1>4, <1>5 DEF Next

(* Every variable of a session has its type at all times. *)
THEOREM TypeCorrect == Spec => []TypeOK
<1>1. Init => TypeOK
  BY InitType, SessionAssumption
<1>2. TypeOK /\ [Next]_vars => TypeOK'
  BY StepType, SessionAssumption
<1>3. QED
  BY <1>1, <1>2, PTL DEF Spec

-----------------------------------------------------------------------------
(* A line of the client keeps the login gates. *)
LEMMA ClientLineGates ==
  ASSUME TypeOK, LoginGates, ClientLine
  PROVE  LoginGates'
<1>1. conn = "open"
  BY DEF ClientLine
<1>2. ASSUME Close \/ Exit PROVE LoginGates'
  BY <1>2 DEF Close, Exit, LoginGates
<1>3. CASE \E flag \in LoginFlags : LoginLine(flag)
  <2>1. PICK flag \in LoginFlags : LoginLine(flag)
    BY <1>3
  <2>2. CASE LoginCompleted(conn_flags)
    BY <1>1, <1>2, <2>1, <2>2
    DEF LoginLine, LoginGates, LoginCompleted, ircVars, c6Vars, netVars
  <2>3. CASE ~LoginCompleted(conn_flags) /\ ~LoginCompleted(conn_flags \cup {flag})
    BY <1>1, <1>2, <2>1, <2>3
    DEF LoginLine, LoginGates, LoginCompleted, LoginFlags, c6Vars, netVars
  <2>4. CASE ~LoginCompleted(conn_flags) /\ LoginCompleted(conn_flags \cup {flag})
    <3>1. CASE Close
      BY <1>2, <3>1
    <3>2. CASE /\ conn_flags' = conn_flags \cup {flag}
               /\ TimerRemoved
               /\ fd' = 1
               /\ s2c' = s2c
      BY <2>4, <3>2 DEF LoginGates, TimerRemoved, LoginCompleted
    <3>3. QED
      BY <2>1, <2>4, <3>1, <3>2 DEF LoginLine, LoginCompleted, netVars
  <2>5. QED
    BY <2>2, <2>3, <2>4
<1>4. CASE DeferrableLine \/ ListLine \/ QuitLine \/ SquitLine
  <2>1. \/ Close \/ Exit
        \/ UNCHANGED <<conn, conn_flags, timer, fd, s2c>>
    BY <1>4 DEF DeferrableLine, ListLine, QuitLine, SquitLine, SendFails, Keep,
                ircVars, c6Vars, netVars
  <2>2. QED
    BY <1>2, <2>1 DEF LoginGates
<1>5. QED
  BY <1>3, <1>4 DEF ClientLine

(* A packet of the server keeps the login gates. *)
LEMMA ServerPacketGates ==
  ASSUME TypeOK, LoginGates, ServerPacket
  PROVE  LoginGates'
<1>1. conn = "open" /\ s2c # <<>>
  BY DEF ServerPacket, Receives, RecvHelo, RecvNicks, RecvRedir, RecvInfologin,
         RecvWlcome, RecvRefused, RecvPing, RecvEof
<1>2. LoginCompleted(conn_flags) /\ ~timer /\ fd > 0
  BY <1>1 DEF LoginGates
<1>3. ASSUME Close \/ Exit PROVE LoginGates'
  BY <1>3 DEF Close, Exit, LoginGates
<1>4. CASE RecvHelo \/ RecvNicks \/ RecvInfologin \/ RecvRefused \/ RecvPing \/ RecvEof
  <2>1. Close \/ Exit \/ UNCHANGED <<conn, conn_flags, timer, fd>>
    BY <1>4 DEF RecvHelo, RecvNicks, RecvInfologin, RecvRefused, RecvPing, RecvEof,
                SendFails, ircVars, c6Vars
  <2>2. QED
    BY <1>1, <1>2, <1>3, <2>1 DEF LoginGates
<1>5. CASE RecvRedir
  <2>1. Close \/ (UNCHANGED <<conn, conn_flags, timer>> /\ fd' = fd + 1)
    BY <1>5 DEF RecvRedir, ircVars
  <2>2. fd \in Nat
    BY DEF TypeOK
  <2>3. QED
    BY <1>1, <1>2, <1>3, <2>1, <2>2 DEF LoginGates
<1>6. CASE RecvWlcome
  <2>1. \/ Close \/ Exit
        \/ UNCHANGED <<conn, timer, fd>> /\ conn_flags' = conn_flags \cup {"READY"}
    BY <1>6 DEF RecvWlcome, SendFails
  <2>2. LoginCompleted(conn_flags \cup {"READY"})
    BY <1>2 DEF LoginCompleted
  <2>3. QED
    BY <1>1, <1>2, <1>3, <2>1, <2>2 DEF LoginGates
<1>7. QED
  BY <1>4, <1>5, <1>6 DEF ServerPacket

(* Every step keeps the login gates. *)
LEMMA StepGates == TypeOK /\ LoginGates /\ [Next]_vars => LoginGates'
<1> SUFFICES ASSUME TypeOK, LoginGates, [Next]_vars
             PROVE  LoginGates'
  OBVIOUS
<1>1. CASE ClientLine
  BY <1>1, ClientLineGates
<1>2. CASE ClientGone \/ Timeout
  BY <1>2 DEF ClientGone, Timeout, Close, LoginGates
<1>3. CASE ServerPacket
  BY <1>3, ServerPacketGates
<1>4. CASE ServerSend \/ ServerDrop
  <2>1. conn = "open" /\ fd > 0 /\ UNCHANGED <<conn, conn_flags, timer, fd>>
    BY <1>4 DEF ServerSend, ServerDrop, ircVars, c6Vars
  <2>2. QED
    BY <2>1 DEF LoginGates
<1>5. CASE ServerRecv \/ Finished \/ UNCHANGED vars
  <2>1. UNCHANGED <<conn, conn_flags, timer, fd, s2c>>
    BY <1>5 DEF ServerRecv, Finished, vars, ircVars, c6Vars, netVars
  <2>2. QED
    BY <2>1 DEF LoginGates
<1>6. QED
  BY <1>1, <1>2, <1>3, <1>4, <1>5 DEF Next

(* A client socket has a timeout exactly until the login lines are in, and *)
(* only then are there a C6 socket, server packets and a ready session.    *)
THEOREM GatesHold == Spec => []LoginGates
<1>1. Init => LoginGates
  BY DEF Init, LoginGates, LoginCompleted, LoginFlags
<1>2. QED
  BY <1>1, TypeCorrect, StepGates, PTL DEF Spec

-----------------------------------------------------------------------------
(* Keeping a command extends the commands received by it. *)
LEMMA AppendToKept ==
  ASSUME NEW S, NEW s \in Seq(S), NEW t \in Seq(S), NEW e \in S
  PROVE  Append(s \o t, e) = s \o Append(t, e)
<1>1. /\ s \o t \in Seq(S) /\ <<e>> \in Seq(S)
      /\ Append(s \o t, e) = (s \o t) \o <<e>>
      /\ Append(t, e) = t \o <<e>>
  BY ConcatProperties, AppendIsConcat
<1>2. QED
  BY <1>1, ConcatAssociative

LEMMA AppendToCommands ==
  ASSUME NEW s \in Seq(1..MaxLines), NEW t \in Seq(1..MaxLines), NEW e \in 1..MaxLines
  PROVE  Append(s \o t, e) = s \o Append(t, e)
  BY AppendToKept

(* A command is kept or executed, never both, and overtakes none. *)
LEMMA DeferrableOrder ==
  ASSUME SessionAssumption, TypeOK, ExecutedInOrder, ClientLine, DeferrableLine
  PROVE  ExecutedInOrder'
<1>0. PICK line : line = lines + 1
  OBVIOUS
<1>1. /\ conn = "open" /\ line \in 1..MaxLines
      /\ done \in Seq(1..MaxLines) /\ cmd_list \in Seq(1..MaxLines)
  BY <1>0 DEF ClientLine, TypeOK, SessionAssumption
<1>2. accepted = done \o cmd_list /\ accepted' = Append(accepted, line)
  BY <1>0, <1>1 DEF ExecutedInOrder, DeferrableLine
<1>3. CASE ~ConnectionCompleted
  <2>1. cmd_list' = Append(cmd_list, line) /\ done' = done /\ conn_flags' = conn_flags
    BY <1>0, <1>3 DEF DeferrableLine, Keep
  <2>2. accepted' = done' \o cmd_list'
    <3>1. Append(done \o cmd_list, line) = done \o Append(cmd_list, line)
      <4>1. done \in Seq(1..MaxLines)
        BY <1>1
      <4>2. cmd_list \in Seq(1..MaxLines)
        BY <1>1
      <4>3. line \in 1..MaxLines
        BY <1>1
      <4>4. QED
        BY <4>1, <4>2, <4>3, AppendToCommands, Zenon
    <3>2. QED
      BY <1>2, <2>1, <3>1
  <2>3. QED
    BY <1>3, <2>1, <2>2 DEF ExecutedInOrder, ConnectionCompleted
<1>4. CASE ConnectionCompleted
  <2>1. cmd_list = <<>> /\ done' = Append(done, line)
    BY <1>0, <1>1, <1>4 DEF ExecutedInOrder, DeferrableLine
  <2>2. accepted = done
    BY <1>1, <1>2, <2>1, ConcatEmptySeq
  <2>3. CASE SendFails
    BY <2>3 DEF SendFails, Close, Exit, ExecutedInOrder
  <2>4. CASE ~SendFails
    <3>1. cmd_list' = <<>> /\ conn_flags' = conn_flags
      BY <1>4, <2>1, <2>4 DEF DeferrableLine, ircVars
    <3>2. done' \in Seq(1..MaxLines)
      BY <1>1, <2>1, AppendProperties
    <3>3. accepted' = done' \o cmd_list'
      BY <1>2, <2>1, <2>2, <3>1, <3>2, ConcatEmptySeq
    <3>4. QED
      BY <3>1, <3>3 DEF ExecutedInOrder
  <2>5. QED
    BY <2>3, <2>4
<1>5. QED
  BY <1>3, <1>4

(* The welcome replays what was kept, and leaves nothing kept. *)
LEMMA WelcomeOrder ==
  ASSUME TypeOK, ExecutedInOrder, RecvWlcome
  PROVE  ExecutedInOrder'
<1>1. /\ conn = "open"
      /\ done \in Seq(1..MaxLines) /\ cmd_list \in Seq(1..MaxLines)
  BY DEF RecvWlcome, Receives, TypeOK
<1>2. CASE SendFails
  BY <1>2 DEF SendFails, Close, Exit, ExecutedInOrder
<1>3. CASE ~SendFails
  <2>1. done' = done \o cmd_list /\ cmd_list' = <<>> /\ accepted' = accepted
    BY <1>3 DEF RecvWlcome, Replay
  <2>2. done' \in Seq(1..MaxLines)
    BY <1>1, <2>1, ConcatProperties
  <2>3. accepted' = done' \o cmd_list'
    BY <1>1, <2>1, <2>2, ConcatEmptySeq DEF ExecutedInOrder
  <2>4. QED
    BY <2>1, <2>3 DEF ExecutedInOrder
<1>4. QED
  BY <1>2, <1>3

(* What is kept and what was done change nowhere else, and a session does  *)
(* not become ready anywhere else.                                         *)
LEMMA OtherStepsOrder ==
  ASSUME TypeOK, LoginGates, [Next]_vars,
         ~(ClientLine /\ DeferrableLine), ~RecvWlcome
  PROVE  /\ UNCHANGED histVars
         /\ \/ Close \/ Exit
            \/ UNCHANGED <<conn, cmd_list>> /\ (ConnectionCompleted' => ConnectionCompleted)
<1>1. CASE ClientLine
  <2>1. CASE \E flag \in LoginFlags : LoginLine(flag)
    <3>1. PICK flag \in LoginFlags : LoginLine(flag)
      BY <2>1
    <3>2. UNCHANGED histVars
      BY <3>1 DEF LoginLine
    <3>3. Close \/ UNCHANGED <<conn, cmd_list>>
      BY <3>1 DEF LoginLine, ircVars
    <3>4. \/ Close \/ conn_flags' = conn_flags
          \/ ~LoginCompleted(conn_flags) /\ conn_flags' = conn_flags \cup {flag}
      BY <3>1 DEF LoginLine, ircVars, LoginCompleted
    <3>5. ~LoginCompleted(conn_flags) => "READY" \notin conn_flags
      BY <1>1 DEF LoginGates, ClientLine
    <3>6. "READY" # flag
      BY DEF LoginFlags
    <3>7. QED
      BY <3>2, <3>3, <3>4, <3>5, <3>6 DEF ConnectionCompleted, Flags
  <2>2. CASE ListLine \/ QuitLine \/ SquitLine
    BY <2>2 DEF ListLine, QuitLine, SquitLine, SendFails, ConnectionCompleted, ircVars
  <2>3. QED
    BY <1>1, <2>1, <2>2 DEF ClientLine
<1>2. CASE ServerPacket
  <2>1. RecvHelo \/ RecvNicks \/ RecvRedir \/ RecvInfologin \/ RecvRefused
        \/ RecvPing \/ RecvEof
    BY <1>2 DEF ServerPacket
  <2>2. UNCHANGED histVars
    BY <2>1 DEF RecvHelo, RecvNicks, RecvRedir, RecvInfologin, RecvRefused,
                RecvPing, RecvEof
  <2>3. Close \/ Exit \/ UNCHANGED <<conn, cmd_list, conn_flags>>
    BY <2>1 DEF RecvHelo, RecvNicks, RecvRedir, RecvInfologin, RecvRefused,
                RecvPing, RecvEof, SendFails, ircVars
  <2>4. QED
    BY <2>2, <2>3 DEF ConnectionCompleted
<1>3. CASE ClientGone \/ Timeout
  BY <1>3 DEF ClientGone, Timeout
<1>4. CASE ServerSend \/ ServerRecv \/ ServerDrop \/ Finished \/ UNCHANGED vars
  BY <1>4 DEF ServerSend, ServerRecv, ServerDrop, Finished, vars, ircVars, histVars,
              ConnectionCompleted
<1>5. QED
  BY <1>1, <1>2, <1>3, <1>4 DEF Next

(* Every step keeps the order of the commands. *)
LEMMA StepOrder ==
  SessionAssumption /\ TypeOK /\ LoginGates /\ ExecutedInOrder /\ [Next]_vars
    => ExecutedInOrder'
<1> SUFFICES ASSUME SessionAssumption, TypeOK, LoginGates, ExecutedInOrder, [Next]_vars
             PROVE  ExecutedInOrder'
  OBVIOUS
<1>1. CASE ClientLine /\ DeferrableLine
  BY <1>1, DeferrableOrder
<1>2. CASE RecvWlcome
  BY <1>2, WelcomeOrder
<1>3. CASE ~(ClientLine /\ DeferrableLine) /\ ~RecvWlcome
  <2>1. /\ UNCHANGED histVars
        /\ \/ Close \/ Exit
           \/ UNCHANGED <<conn, cmd_list>> /\ (ConnectionCompleted' => ConnectionCompleted)
    BY <1>3, OtherStepsOrder
  <2>2. CASE Close \/ Exit
    BY <2>2 DEF Close, Exit, ExecutedInOrder
  <2>3. CASE ~Close /\ ~Exit
    BY <2>1, <2>3 DEF ExecutedInOrder, histVars
  <2>4. QED
    BY <2>2, <2>3
<1>4. QED
  BY <1>1, <1>2, <1>3

(* The commands received are those executed followed by those kept, in the *)
(* order of their arrival, and a ready session keeps none.                 *)
THEOREM CommandsInOrder == Spec => []ExecutedInOrder
<1>1. Init => ExecutedInOrder
  BY DEF Init, ExecutedInOrder, ConnectionCompleted, Flags
<1>2. TypeOK /\ LoginGates /\ ExecutedInOrder /\ [Next]_vars => ExecutedInOrder'
  BY StepOrder, SessionAssumption
<1>3. QED
  BY <1>1, <1>2, TypeCorrect, GatesHold, PTL DEF Spec

-----------------------------------------------------------------------------
(* A session implements InOrderExec. *)

(* The initial state of a session is one of its abstraction. *)
LEMMA InitRefines == Init => Exec!Init
  BY DEF Init, Exec!Init

(* However a session ends between two commands, its abstraction ends. *)
LEMMA EndRefines ==
  ASSUME TypeOK, conn = "open", Close \/ Exit, UNCHANGED done
  PROVE  Exec!End
<1>1. /\ done \in Seq(1..MaxLines) /\ cmd_list \in Seq(1..MaxLines)
      /\ Len(cmd_list) \in Nat
  BY LenProperties DEF TypeOK
<1>2. SubSeq(cmd_list, 1, 0) = <<>>
  BY <1>1, SubSeqProperties, EmptySeq
<1>3. done' = done \o SubSeq(cmd_list, 1, 0)
  BY <1>1, <1>2, ConcatEmptySeq
<1>4. \E n \in 0..Len(cmd_list) : done' = done \o SubSeq(cmd_list, 1, n)
  BY <1>1, <1>3
<1>5. (conn = "open") /\ (conn = "open")' = FALSE /\ cmd_list' = <<>>
  BY DEF Close, Exit, Freed
<1>6. QED
  BY <1>4, <1>5 DEF Exec!End

(* A deferrable command is kept, or runs when none is kept, or ends the    *)
(* session.                                                                *)
LEMMA DeferrableRefines ==
  ASSUME SessionAssumption, TypeOK, ExecutedInOrder, ClientLine, DeferrableLine
  PROVE  Exec!Next
<1> DEFINE line == lines + 1
<1>1. conn = "open" /\ line \in 1..MaxLines
  BY DEF ClientLine, TypeOK, SessionAssumption
<1>2. CASE ~ConnectionCompleted
  <2>1. cmd_list' = Append(cmd_list, line) /\ done' = done /\ conn' = conn
    BY <1>2 DEF DeferrableLine, Keep
  <2>2. Exec!Accept(line)
    BY <1>1, <2>1 DEF Exec!Accept
  <2>3. QED
    BY <1>1, <2>2 DEF Exec!Next
<1>3. CASE ConnectionCompleted
  <2>1. cmd_list = <<>> /\ done' = Append(done, line)
    BY <1>1, <1>3 DEF ExecutedInOrder, DeferrableLine
  <2>2. CASE SendFails
    <3>1. (conn = "open")' = FALSE /\ cmd_list' = <<>>
      BY <2>2 DEF SendFails, Close, Exit, Freed
    <3>2. Exec!End
      BY <1>1, <2>1, <3>1 DEF Exec!End
    <3>3. QED
      BY <3>2 DEF Exec!Next
  <2>3. CASE ~SendFails
    <3>1. cmd_list' = cmd_list /\ conn' = conn
      BY <1>3, <2>3 DEF DeferrableLine, ircVars
    <3>2. Exec!Run(line)
      BY <1>1, <2>1, <3>1 DEF Exec!Run
    <3>3. QED
      BY <1>1, <3>2 DEF Exec!Next
  <2>4. QED
    BY <2>2, <2>3
<1>4. QED
  BY <1>2, <1>3

(* The welcome replays all that was kept, or ends the session part way. *)
LEMMA WelcomeRefines ==
  ASSUME RecvWlcome
  PROVE  Exec!Next
<1>1. conn = "open"
  BY DEF RecvWlcome, Receives
<1>2. CASE SendFails /\ \E n \in 0..Len(cmd_list) : done' = done \o SubSeq(cmd_list, 1, n)
  <2>1. (conn = "open")' = FALSE /\ cmd_list' = <<>>
    BY <1>2 DEF SendFails, Close, Exit, Freed
  <2>2. Exec!End
    BY <1>1, <1>2, <2>1 DEF Exec!End
  <2>3. QED
    BY <2>2 DEF Exec!Next
<1>3. CASE Replay /\ UNCHANGED conn
  <2>1. Exec!Replay
    BY <1>1, <1>3 DEF Exec!Replay, Replay
  <2>2. QED
    BY <2>1 DEF Exec!Next
<1>4. QED
  BY <1>2, <1>3 DEF RecvWlcome

(* Every step of a session is a step of its abstraction or a stutter. *)
LEMMA StepRefines ==
  SessionAssumption /\ TypeOK /\ LoginGates /\ ExecutedInOrder /\ [Next]_vars
    => [Exec!Next]_(Exec!vars)
<1> SUFFICES ASSUME SessionAssumption, TypeOK, LoginGates, ExecutedInOrder, [Next]_vars
             PROVE  [Exec!Next]_(Exec!vars)
  OBVIOUS
<1>1. CASE ClientLine /\ DeferrableLine
  BY <1>1, DeferrableRefines
<1>2. CASE RecvWlcome
  BY <1>2, WelcomeRefines
<1>3. CASE ~(ClientLine /\ DeferrableLine) /\ ~RecvWlcome
  <2>1. UNCHANGED histVars /\ (Close \/ Exit \/ UNCHANGED <<conn, cmd_list>>)
    BY <1>3, OtherStepsOrder
  <2>2. CASE UNCHANGED <<conn, cmd_list>>
    BY <2>1, <2>2 DEF histVars, Exec!vars
  <2>3. CASE ~UNCHANGED <<conn, cmd_list>>
    <3>1. conn = "open" /\ (Close \/ Exit) /\ UNCHANGED done
      <4>1. ~UNCHANGED vars /\ ~Finished
        BY <2>3 DEF Finished, vars, ircVars
      <4>2. conn = "open"
        BY <4>1 DEF Next, ClientLine, ClientGone, Timeout, ServerPacket, Receives,
                    RecvHelo, RecvNicks, RecvRedir, RecvInfologin, RecvWlcome,
                    RecvRefused, RecvPing, RecvEof, ServerSend, ServerRecv, ServerDrop
      <4>3. QED
        BY <2>1, <2>3, <4>2 DEF histVars
    <3>2. QED
      BY <3>1, EndRefines DEF Exec!Next
  <2>4. QED
    BY <2>2, <2>3
<1>4. QED
  BY <1>1, <1>2, <1>3

(* The session executes the commands it receives as InOrderExec promises:  *)
(* ADD_COMMAND, the replay of irc_out_welcome, immediate commands and every *)
(* end of a connection are steps of it, everything else is a stutter.      *)
THEOREM Refinement == Spec => ImplementsInOrderExec
<1>1. TypeOK /\ LoginGates /\ ExecutedInOrder /\ [Next]_vars => [Exec!Next]_(Exec!vars)
  BY StepRefines, SessionAssumption
<1>2. QED
  BY <1>1, InitRefines, TypeCorrect, GatesHold, CommandsInOrder, PTL
  DEF Spec, ImplementsInOrderExec, Exec!Spec

-----------------------------------------------------------------------------
(* What can be on its way between a session and a polite server, and the   *)
(* theorems about packets of Session that follow, for every value of the   *)
(* constants.                                                              *)

-----------------------------------------------------------------------------
(* The inductive invariant *)

Welcomed == srv \in {"in", "gone"}

(* The phases of a server that has read the user name. *)
KnownPhases == {"nicks", "login", "decide", "welcome", "in"}

(* The packets that a server sends from then on, but those that end it.    *)
KeyedTypes == NicksTypes \cup {"INFOLOGIN", "WLCOME", "PING"}

PhaseCourse ==
  /\ fd = 0 => srv = "gone"
  /\ srv = "gone" => c2s = <<>>
  /\ srv \in KnownPhases => key = fd
  /\ "READY" \in conn_flags => Welcomed /\ key = fd

WrittenCourse ==
  \A i \in DOMAIN c2s :
    /\ c2s[i].type # "roomlist" => c2s[i].key = fd /\ key = fd
    /\ c2s[i].type \in {"cmd", "status", "pong"} => srv = "in"

(* A redirect is the last thing a server says. *)
RedirectLast(i) ==
  /\ srv \in {"redirected", "gone"}
  /\ "READY" \notin conn_flags
  /\ \A j \in DOMAIN s2c : s2c[j].type # "WLCOME"
  /\ \A j \in DOMAIN s2c : j > i => s2c[j].type = "EOF"

ArrivingCourse ==
  \A i \in DOMAIN s2c :
    /\ s2c[i].from = fd
    /\ s2c[i].type \in KeyedTypes => key = fd
    /\ s2c[i].type \in {"WLCOME", "PING"} => Welcomed
    /\ s2c[i].type = "REDIR" => RedirectLast(i)

Course == polite => PhaseCourse /\ WrittenCourse /\ ArrivingCourse

-----------------------------------------------------------------------------
(* Lemmas about the sequences *)

(* What is in the rest of a sequence was in it. *)
LEMMA InTail ==
  ASSUME NEW S, NEW s \in Seq(S), s # <<>>
  PROVE  \A i \in DOMAIN Tail(s) : i + 1 \in DOMAIN s /\ Tail(s)[i] = s[i + 1] /\ i \in Nat
  BY HeadTailProperties, LenProperties

(* What is in a sequence with one more element. *)
LEMMA InAppend ==
  ASSUME NEW S, NEW s \in Seq(S), NEW e \in S
  PROVE  \A i \in DOMAIN Append(s, e) :
           \/ i \in DOMAIN s /\ Append(s, e)[i] = s[i]
           \/ i = Len(s) + 1 /\ Append(s, e)[i] = e
  BY AppendProperties, LenProperties

(* What is in two sequences joined. *)
LEMMA InConcat ==
  ASSUME NEW S, NEW s \in Seq(S), NEW t \in Seq(S)
  PROVE  \A i \in DOMAIN (s \o t) :
           \/ i \in DOMAIN s /\ (s \o t)[i] = s[i]
           \/ \E j \in DOMAIN t : i = Len(s) + j /\ (s \o t)[i] = t[j]
<1> SUFFICES ASSUME NEW i \in DOMAIN (s \o t), i \notin DOMAIN s
             PROVE  \E j \in DOMAIN t : i = Len(s) + j /\ (s \o t)[i] = t[j]
  BY ConcatProperties, LenProperties
<1>1. i \in 1..(Len(s) + Len(t)) /\ ~(i \in 1..Len(s)) /\ Len(s) \in Nat /\ Len(t) \in Nat
  BY ConcatProperties, LenProperties
<1>2. i - Len(s) \in 1..Len(t) /\ i > Len(s)
  BY <1>1
<1>3. (s \o t)[i] = t[i - Len(s)] /\ i = Len(s) + (i - Len(s))
  BY <1>1, <1>2, ConcatProperties
<1>4. QED
  BY <1>2, <1>3, LenProperties

(* c6_send adds nothing but packets of the types given, with the key given,*)
(* and nothing where the server is gone.                                   *)
LEMMA InSent ==
  ASSUME TypeOK, SessionAssumption,
         NEW types \in Seq(ClientPacketTypes), NEW k \in 0..MaxServers, Send(types, k),
         NEW i \in DOMAIN c2s'
  PROVE  \/ i \in DOMAIN c2s /\ c2s'[i] = c2s[i]
         \/ /\ srv # "gone"
            /\ c2s'[i].key = k
            /\ \E j \in 1..Len(types) : c2s'[i].type = types[j]
<1>1. CASE srv = "gone"
  BY <1>1 DEF Send
<1>2. CASE srv # "gone"
  <2>1. c2s' = c2s \o Wire(types, k)
    BY <1>2 DEF Send
  <2>2. c2s \in Seq(ClientPackets) /\ Wire(types, k) \in Seq(ClientPackets)
    BY WireType DEF TypeOK
  <2>3. \/ i \in DOMAIN c2s /\ c2s'[i] = c2s[i]
        \/ \E j \in DOMAIN Wire(types, k) : c2s'[i] = Wire(types, k)[j]
    BY <2>1, <2>2, InConcat
  <2>4. \A j \in DOMAIN Wire(types, k) :
          j \in 1..Len(types) /\ Wire(types, k)[j].type = types[j] /\ Wire(types, k)[j].key = k
    <3>1. /\ Len(Wire(types, k)) = Len(types)
          /\ \A j \in 1..Len(types) :
               Wire(types, k)[j].type = types[j] /\ Wire(types, k)[j].key = k
      BY WireType DEF TypeOK
    <3>2. DOMAIN Wire(types, k) = 1..Len(Wire(types, k))
      BY <2>2, LenProperties
    <3>3. QED
      BY <3>1, <3>2
  <2>5. QED
    BY <1>2, <2>3, <2>4
<1>3. QED
  BY <1>1, <1>2

-----------------------------------------------------------------------------
(* The end of a session leaves nothing on its way. *)
LEMMA EndCourse ==
  ASSUME Close \/ Exit
  PROVE  Course'
<1>1. fd' = 0 /\ srv' = "gone" /\ c2s' = <<>> /\ s2c' = <<>> /\ conn_flags' = {}
  BY DEF Close, Exit, Freed
<1>2. DOMAIN c2s' = {} /\ DOMAIN s2c' = {}
  BY <1>1
<1>3. PhaseCourse'
  BY <1>1 DEF PhaseCourse, KnownPhases
<1>4. WrittenCourse' /\ ArrivingCourse'
  BY <1>2 DEF WrittenCourse, ArrivingCourse
<1>5. QED
  BY <1>3, <1>4 DEF Course

(* A write with the key of the server, or of room list requests, keeps     *)
(* what is said of the packets written; k is the key after it.             *)
LEMMA WriteCourse ==
  ASSUME TypeOK, SessionAssumption, WrittenCourse,
         NEW types \in Seq(ClientPacketTypes), NEW k \in 0..MaxServers, Send(types, k),
         fd' = fd, srv' = srv, key' = k \/ key' = key,
         key = fd => key' = fd,
         \A j \in 1..Len(types) :
           /\ types[j] # "roomlist" => k = fd /\ key' = fd
           /\ types[j] \in {"cmd", "status", "pong"} => Welcomed
  PROVE  WrittenCourse'
<1> SUFFICES ASSUME NEW i \in DOMAIN c2s'
             PROVE  /\ c2s'[i].type # "roomlist" => c2s'[i].key = fd' /\ key' = fd'
                    /\ c2s'[i].type \in {"cmd", "status", "pong"} => srv' = "in"
  BY DEF WrittenCourse
<1>1. CASE i \in DOMAIN c2s /\ c2s'[i] = c2s[i]
  BY <1>1 DEF WrittenCourse
<1>2. CASE /\ srv # "gone"
           /\ c2s'[i].key = k
           /\ \E j \in 1..Len(types) : c2s'[i].type = types[j]
  BY <1>2 DEF Welcomed
<1>3. QED
  BY <1>1, <1>2, InSent

(* Reading a packet keeps what is said of those behind it. *)
LEMMA ReadCourse ==
  ASSUME TypeOK, ArrivingCourse, s2c # <<>>, s2c' = Tail(s2c), UNCHANGED <<fd, srv>>,
         key = fd => key' = fd,
         "READY" \in conn_flags' =>
           "READY" \in conn_flags \/ \E j \in DOMAIN s2c : s2c[j].type = "WLCOME"
  PROVE  ArrivingCourse'
<1>1. \A i \in DOMAIN s2c' : i + 1 \in DOMAIN s2c /\ s2c'[i] = s2c[i + 1] /\ i \in Nat
  BY InTail DEF TypeOK
<1> SUFFICES ASSUME NEW i \in DOMAIN s2c'
             PROVE  /\ s2c'[i].from = fd'
                    /\ s2c'[i].type \in KeyedTypes => key' = fd'
                    /\ s2c'[i].type \in {"WLCOME", "PING"} => Welcomed'
                    /\ s2c'[i].type = "REDIR" => RedirectLast(i)'
  BY DEF ArrivingCourse
<1>2. /\ s2c[i + 1].from = fd
      /\ s2c[i + 1].type \in KeyedTypes => key = fd
      /\ s2c[i + 1].type \in {"WLCOME", "PING"} => Welcomed
      /\ s2c[i + 1].type = "REDIR" => RedirectLast(i + 1)
  BY <1>1 DEF ArrivingCourse
<1>3. ASSUME RedirectLast(i + 1) PROVE RedirectLast(i)'
  <2>1. \A j \in DOMAIN s2c' : s2c'[j].type # "WLCOME"
    BY <1>1, <1>3 DEF RedirectLast
  <2>2. \A j \in DOMAIN s2c' : j > i => s2c'[j].type = "EOF"
    BY <1>1, <1>3 DEF RedirectLast
  <2>3. "READY" \notin conn_flags'
    BY <1>3 DEF RedirectLast
  <2>4. QED
    BY <1>3, <2>1, <2>2, <2>3 DEF RedirectLast
<1>4. QED
  BY <1>1, <1>2, <1>3 DEF Welcomed
-----------------------------------------------------------------------------
(* The initial state. *)
LEMMA InitCourse == Init => Course
  BY DEF Init, Course, PhaseCourse, WrittenCourse, ArrivingCourse, KnownPhases

(* A login line, the last one of which connects. *)
LEMMA LoginLineCourse ==
  ASSUME TypeOK, LoginGates, Course, conn = "open", NEW flag \in LoginFlags, LoginLine(flag)
  PROVE  Course'
<1> SUFFICES ASSUME polite, PhaseCourse, WrittenCourse, ArrivingCourse
             PROVE  Course'
  BY DEF Course, LoginLine, histVars
<1>1. flag # "READY"
  BY DEF LoginFlags
<1>2. CASE Close
  BY <1>2, EndCourse
<1>3. CASE /\ UNCHANGED <<c6Vars, netVars>>
           /\ conn_flags' \in {conn_flags, conn_flags \cup {flag}}
  <2>1. UNCHANGED <<fd, key, srv, c2s, s2c>> /\ ("READY" \in conn_flags' <=> "READY" \in conn_flags)
    BY <1>1, <1>3 DEF c6Vars, netVars
  <2>2. PhaseCourse' /\ WrittenCourse' /\ ArrivingCourse'
    BY <2>1 DEF PhaseCourse, WrittenCourse, ArrivingCourse, RedirectLast, Welcomed
  <2>3. QED
    BY <2>2 DEF Course
<1>4. CASE /\ ~LoginCompleted(conn_flags)
           /\ conn_flags' = conn_flags \cup {flag}
           /\ fd' = 1
           /\ srv' = "greet"
           /\ UNCHANGED <<c2s, s2c>>
  <2>1. fd = 0 /\ s2c = <<>> /\ "READY" \notin conn_flags
    BY <1>4 DEF LoginGates, TypeOK
  <2>2. c2s = <<>>
    BY <2>1 DEF PhaseCourse
  <2>3. PhaseCourse'
    BY <1>1, <1>4, <2>1 DEF PhaseCourse, KnownPhases
  <2>4. DOMAIN c2s' = {} /\ DOMAIN s2c' = {}
    BY <1>4, <2>1, <2>2
  <2>5. WrittenCourse' /\ ArrivingCourse'
    BY <2>4 DEF WrittenCourse, ArrivingCourse
  <2>6. QED
    BY <2>3, <2>5 DEF Course
<1>5. QED
  BY <1>2, <1>3, <1>4 DEF LoginLine, ircVars

(* A write that leaves the phase and the flags alone. *)
LEMMA SendCourse ==
  ASSUME SessionAssumption, TypeOK, polite, PhaseCourse, WrittenCourse,
         NEW types \in Seq(ClientPacketTypes), Send(types, key),
         UNCHANGED <<fd, key, srv>>, "READY" \in conn_flags' => Welcomed /\ key = fd,
         \A j \in 1..Len(types) :
           types[j] = "roomlist" \/ (key = fd /\ (types[j] \in {"cmd", "status", "pong"} => Welcomed))
  PROVE  PhaseCourse' /\ WrittenCourse'
<1>1. key \in 0..MaxServers
  BY DEF TypeOK
<1>2. WrittenCourse'
  <2>1. \A j \in 1..Len(types) :
          /\ types[j] # "roomlist" => key = fd /\ key' = fd
          /\ types[j] \in {"cmd", "status", "pong"} => Welcomed
    OBVIOUS
  <2>2. QED
    BY <1>1, <2>1, WriteCourse
<1>3. srv = "gone" => c2s' = <<>>
  BY DEF Send, PhaseCourse
<1>4. PhaseCourse'
  BY <1>3 DEF PhaseCourse, Welcomed
<1>5. QED
  BY <1>2, <1>4

(* A line of the client. *)
LEMMA ClientLineCourse ==
  ASSUME SessionAssumption, TypeOK, LoginGates, Course, ClientLine
  PROVE  Course'
<1> USE SessionAssumption
<1>1. conn = "open"
  BY DEF ClientLine
<1>2. CASE \E flag \in LoginFlags : LoginLine(flag)
  BY <1>1, <1>2, LoginLineCourse
<1>3. CASE Close \/ Exit
  BY <1>3, EndCourse
<1>4. CASE ~polite'
  BY <1>4 DEF Course
<1>5. CASE polite' /\ ~(Close \/ Exit) /\ (DeferrableLine \/ ListLine \/ QuitLine \/ SquitLine)
  <2>1. polite /\ PhaseCourse /\ WrittenCourse /\ ArrivingCourse /\ polite' = polite
    BY <1>5 DEF Course, DeferrableLine, ListLine, QuitLine, SquitLine, histVars
  <2>2. UNCHANGED <<fd, key, srv, s2c>> /\ conn_flags' = conn_flags
    BY <1>5 DEF DeferrableLine, ListLine, QuitLine, SquitLine, SendFails, ircVars, c6Vars, netVars
  <2>3. ArrivingCourse'
    BY <2>1, <2>2 DEF ArrivingCourse, RedirectLast, Welcomed
  <2>4. PhaseCourse' /\ WrittenCourse'
    <3>1. CASE c2s' = c2s
      BY <2>1, <2>2, <3>1 DEF PhaseCourse, WrittenCourse, Welcomed
    <3>2. CASE ConnectionCompleted /\ \E n \in 0..1 : Send(Commands(n), key)
      <4>1. PICK n \in 0..1 : Send(Commands(n), key)
        BY <3>2
      <4>2. /\ Commands(n) \in Seq(ClientPacketTypes)
            /\ \A j \in 1..Len(Commands(n)) : Commands(n)[j] = "cmd"
        BY CommandsType
      <4>3. Welcomed /\ key = fd
        BY <2>1, <3>2 DEF ConnectionCompleted, Flags, PhaseCourse
      <4>4. \A j \in 1..Len(Commands(n)) :
              \/ Commands(n)[j] = "roomlist"
              \/ key = fd /\ (Commands(n)[j] \in {"cmd", "status", "pong"} => Welcomed)
        BY <4>3
      <4>5. QED
        BY <2>1, <2>2, <4>1, <4>2, <4>3, <4>4, SendCourse
    <3>3. CASE Send(<<"roomlist">>, key)
      <4>1. /\ <<"roomlist">> \in Seq(ClientPacketTypes)
            /\ \A j \in 1..Len(<<"roomlist">>) : <<"roomlist">>[j] = "roomlist"
        BY DEF ClientPacketTypes
      <4>2. "READY" \in conn_flags' => Welcomed /\ key = fd
        BY <2>1, <2>2 DEF PhaseCourse
      <4>3. \A j \in 1..Len(<<"roomlist">>) :
              \/ <<"roomlist">>[j] = "roomlist"
              \/ key = fd /\ (<<"roomlist">>[j] \in {"cmd", "status", "pong"} => Welcomed)
        BY <4>1
      <4>4. QED
        BY <2>1, <2>2, <3>3, <4>1, <4>2, <4>3, SendCourse
    <3>4. QED
      BY <1>5, <3>1, <3>2, <3>3
      DEF DeferrableLine, ListLine, QuitLine, SquitLine, SendFails, netVars
  <2>5. QED
    BY <2>3, <2>4 DEF Course
<1>6. QED
  BY <1>2, <1>3, <1>4, <1>5 DEF ClientLine

(* A packet that is answered by one packet, with the key of the server. *)
LEMMA AnswerCourse ==
  ASSUME SessionAssumption, TypeOK, polite, PhaseCourse, WrittenCourse, ArrivingCourse,
         s2c # <<>>, s2c' = Tail(s2c),
         NEW type \in ClientPacketTypes, Send(<<type>>, fd),
         UNCHANGED <<fd, conn_flags, srv>>, key' = fd,
         type \in {"cmd", "status", "pong"} => Welcomed
  PROVE  PhaseCourse' /\ WrittenCourse' /\ ArrivingCourse'
<1>1. /\ <<type>> \in Seq(ClientPacketTypes)
      /\ \A j \in 1..Len(<<type>>) : <<type>>[j] = type
  OBVIOUS
<1>2. fd \in 0..MaxServers
  BY DEF TypeOK
<1>3. \A j \in 1..Len(<<type>>) :
        /\ <<type>>[j] # "roomlist" => fd = fd /\ key' = fd
        /\ <<type>>[j] \in {"cmd", "status", "pong"} => Welcomed
  BY <1>1
<1>4. WrittenCourse'
  BY <1>1, <1>2, <1>3, WriteCourse
<1>5. ArrivingCourse'
  BY ReadCourse
<1>6. srv = "gone" => c2s' = <<>>
  BY DEF Send, PhaseCourse
<1>7. PhaseCourse'
  BY <1>6 DEF PhaseCourse, Welcomed
<1>8. QED
  BY <1>4, <1>5, <1>7

(* A redirect: nothing the old server said is left. *)
LEMMA RedirCourse ==
  ASSUME TypeOK, PhaseCourse, ArrivingCourse, RecvRedir, ~Close
  PROVE  PhaseCourse' /\ WrittenCourse' /\ ArrivingCourse'
<1>1. PICK n \in 0..(Len(s2c) - 1) :
        /\ \A i \in 2..(n + 1) : s2c[i].type # "EOF"
        /\ s2c' = SubSeq(s2c, 2, n + 1)
  BY DEF RecvRedir
<1>2. s2c \in Seq(ServerPackets) /\ s2c # <<>> /\ Head(s2c).type = "REDIR"
  BY DEF RecvRedir, Receives, TypeOK
<1>3. /\ Len(s2c) \in Nat \ {0} /\ DOMAIN s2c = 1..Len(s2c) /\ 1 \in DOMAIN s2c
      /\ s2c[1].type = "REDIR"
  BY <1>2, HeadTailProperties, LenProperties, EmptySeq
<1>4. RedirectLast(1)
  BY <1>3 DEF ArrivingCourse
<1>5. n = 0
  <2>1. CASE n > 0
    <3>1. 2 \in 2..(n + 1) /\ 2 \in DOMAIN s2c
      BY <1>3, <2>1
    <3>2. QED
      BY <1>1, <1>4, <3>1 DEF RedirectLast
  <2>2. QED
    BY <2>1
<1>6. DOMAIN s2c' = {}
  <2>1. s2c' = SubSeq(s2c, 2, 1)
    BY <1>1, <1>5
  <2>2. SubSeq(s2c, 2, 1) = <<>>
    BY <1>2, <1>3, SubSeqProperties, EmptySeq
  <2>3. QED
    BY <2>1, <2>2
<1>7. /\ fd' = fd + 1 /\ fd \in Nat /\ srv' = "greet"
      /\ conn_flags' = conn_flags /\ c2s' = <<>>
  BY DEF RecvRedir, ircVars, TypeOK
<1>8. PhaseCourse'
  BY <1>4, <1>7 DEF PhaseCourse, RedirectLast, KnownPhases
<1>9. DOMAIN c2s' = {}
  BY <1>7
<1>10. QED
  BY <1>6, <1>8, <1>9 DEF WrittenCourse, ArrivingCourse

(* The welcome: the session is ready, with the key of the server. *)
LEMMA WlcomeCourse ==
  ASSUME SessionAssumption, TypeOK, polite, PhaseCourse, WrittenCourse, ArrivingCourse,
         RecvWlcome, ~SendFails
  PROVE  PhaseCourse' /\ WrittenCourse' /\ ArrivingCourse'
<1>1. PICK n \in 0..Len(cmd_list) : Send(<<"status">> \o Commands(n), key)
  BY DEF RecvWlcome
<1>2. /\ conn_flags' = conn_flags \cup {"READY"} /\ s2c' = Tail(s2c)
      /\ UNCHANGED <<fd, key, srv>>
  BY DEF RecvWlcome
<1>3. s2c \in Seq(ServerPackets) /\ s2c # <<>> /\ Head(s2c).type = "WLCOME"
  BY DEF RecvWlcome, Receives, TypeOK
<1>4. 1 \in DOMAIN s2c /\ s2c[1].type = "WLCOME"
  BY <1>3, HeadTailProperties, LenProperties, EmptySeq
<1>5. key = fd /\ Welcomed
  BY <1>4 DEF ArrivingCourse, KeyedTypes
<1>6. n \in Nat
  BY LenProperties DEF TypeOK
<1>7. /\ <<"status">> \o Commands(n) \in Seq(ClientPacketTypes)
      /\ \A i \in 1..Len(<<"status">> \o Commands(n)) :
           (<<"status">> \o Commands(n))[i] \in {"status", "cmd"}
  BY <1>6, WelcomeTypes
<1>8. PICK types \in Seq(ClientPacketTypes) : types = <<"status">> \o Commands(n)
  BY <1>7
<1>9. \A j \in 1..Len(types) :
        types[j] = "roomlist" \/ (key = fd /\ (types[j] \in {"cmd", "status", "pong"} => Welcomed))
  BY <1>5
<1>10. PhaseCourse' /\ WrittenCourse'
  BY <1>1, <1>2, <1>5, <1>8, <1>9, SendCourse
<1>11. ArrivingCourse'
  BY <1>2, <1>3, <1>4, <1>5, ReadCourse
<1>12. QED
  BY <1>10, <1>11

(* A packet of the server. *)
LEMMA ServerPacketCourse ==
  ASSUME SessionAssumption, TypeOK, Course, ServerPacket
  PROVE  Course'
<1> USE SessionAssumption
<1>1. CASE Close \/ Exit
  BY <1>1, EndCourse
<1>2. CASE ~polite
  <2>1. ~polite'
    BY <1>2 DEF ServerPacket, RecvHelo, RecvNicks, RecvRedir, RecvInfologin,
         RecvWlcome, RecvRefused, RecvPing, RecvEof, histVars
  <2>2. QED
    BY <2>1 DEF Course
<1>3. CASE polite /\ ~Close /\ ~Exit
  <2>1. PhaseCourse /\ WrittenCourse /\ ArrivingCourse
    BY <1>3 DEF Course
  <2>2. s2c # <<>> /\ s2c \in Seq(ServerPackets)
    BY DEF ServerPacket, Receives, RecvHelo, RecvNicks, RecvRedir, RecvInfologin,
         RecvWlcome, RecvRefused, RecvPing, RecvEof, TypeOK
  <2>3. 1 \in DOMAIN s2c /\ s2c[1] = Head(s2c)
    BY <2>2, HeadTailProperties, LenProperties, EmptySeq
  <2>4. /\ Head(s2c).from = fd
        /\ Head(s2c).type \in KeyedTypes => key = fd
        /\ Head(s2c).type = "PING" => Welcomed
    BY <2>1, <2>3 DEF ArrivingCourse
  <2>5. ASSUME NEW type \in ClientPacketTypes, Send(<<type>>, fd), s2c' = Tail(s2c),
               UNCHANGED <<fd, conn_flags, srv>>, key' = fd,
               type \in {"cmd", "status", "pong"} => Welcomed
        PROVE  PhaseCourse' /\ WrittenCourse' /\ ArrivingCourse'
    BY <1>3, <2>1, <2>2, <2>5, AnswerCourse
  <2>6. CASE RecvHelo
    <3>1. /\ Send(<<"username">>, fd) /\ key' = fd /\ s2c' = Tail(s2c)
          /\ UNCHANGED <<fd, conn_flags, srv>>
      BY <1>3, <2>4, <2>6 DEF RecvHelo, HeloKey, SendFails, ircVars
    <3>2. "username" \in ClientPacketTypes \ {"cmd", "status", "pong"}
      BY DEF ClientPacketTypes
    <3>3. QED
      BY <2>5, <3>1, <3>2 DEF Course
  <2>7. CASE RecvNicks
    <3>1. /\ Head(s2c).type \in NicksTypes
          /\ Send(<<"login">>, key) /\ s2c' = Tail(s2c)
          /\ UNCHANGED <<fd, key, conn_flags, srv>>
      BY <1>3, <2>7 DEF RecvNicks, Receives, SendFails, ircVars, NicksTypes
    <3>2. key = fd
      BY <2>4, <3>1 DEF KeyedTypes
    <3>3. "login" \in ClientPacketTypes \ {"cmd", "status", "pong"}
      BY DEF ClientPacketTypes
    <3>4. QED
      BY <2>5, <3>1, <3>2, <3>3 DEF Course
  <2>8. CASE RecvRedir
    BY <1>3, <2>1, <2>8, RedirCourse DEF Course
  <2>9. CASE RecvInfologin
    <3>1. s2c' = Tail(s2c) /\ UNCHANGED <<fd, key, conn_flags, srv, c2s>>
      BY <2>9 DEF RecvInfologin, ircVars, c6Vars
    <3>2. PhaseCourse' /\ WrittenCourse'
      BY <2>1, <3>1 DEF PhaseCourse, WrittenCourse, Welcomed
    <3>3. ArrivingCourse'
      BY <2>1, <2>2, <3>1, ReadCourse
    <3>4. QED
      BY <3>2, <3>3 DEF Course
  <2>10. CASE RecvWlcome
    BY <1>3, <2>1, <2>10, WlcomeCourse DEF Course, SendFails
  <2>11. CASE RecvPing
    <3>1. /\ Head(s2c).type = "PING"
          /\ Send(<<"pong">>, key) /\ s2c' = Tail(s2c)
          /\ UNCHANGED <<fd, key, conn_flags, srv>>
      BY <1>3, <2>11 DEF RecvPing, Receives, SendFails, ircVars
    <3>2. key = fd /\ Welcomed
      BY <2>4, <3>1 DEF KeyedTypes
    <3>3. "pong" \in ClientPacketTypes
      BY DEF ClientPacketTypes
    <3>4. QED
      BY <2>5, <3>1, <3>2, <3>3 DEF Course
  <2>12. CASE RecvRefused \/ RecvEof
    BY <1>3, <2>12 DEF RecvRefused, RecvEof
  <2>13. QED
    BY <2>6, <2>7, <2>8, <2>9, <2>10, <2>11, <2>12 DEF ServerPacket
<1>4. QED
  BY <1>1, <1>2, <1>3

-----------------------------------------------------------------------------
(* One more packet of the server, which moves it to its next phase. *)
LEMMA SaidCourse ==
  ASSUME TypeOK, ArrivingCourse, NEW p \in ServerPackets,
         s2c' = Append(s2c, p), p.from = fd, UNCHANGED <<fd, key, conn_flags>>,
         p.type \in KeyedTypes => key = fd,
         p.type \in {"WLCOME", "PING"} \/ Welcomed => srv' \in {"in", "gone"},
         srv \in {"redirected", "gone"} => p.type = "EOF" /\ srv' \in {"redirected", "gone"},
         p.type = "REDIR" => srv' = "redirected" /\ ~Welcomed /\ "READY" \notin conn_flags
  PROVE  ArrivingCourse'
<1>1. s2c \in Seq(ServerPackets)
  BY DEF TypeOK
<1>2. \A i \in DOMAIN s2c' :
        \/ i \in DOMAIN s2c /\ s2c'[i] = s2c[i]
        \/ i = Len(s2c) + 1 /\ s2c'[i] = p
  BY <1>1, InAppend
<1>3. DOMAIN s2c = 1..Len(s2c) /\ Len(s2c) \in Nat
  BY <1>1, LenProperties
<1> SUFFICES ASSUME NEW i \in DOMAIN s2c'
             PROVE  /\ s2c'[i].from = fd'
                    /\ s2c'[i].type \in KeyedTypes => key' = fd'
                    /\ s2c'[i].type \in {"WLCOME", "PING"} => Welcomed'
                    /\ s2c'[i].type = "REDIR" => RedirectLast(i)'
  BY DEF ArrivingCourse
<1>4. CASE i \in DOMAIN s2c /\ s2c'[i] = s2c[i]
  <2>1. /\ s2c[i].from = fd
        /\ s2c[i].type \in KeyedTypes => key = fd
        /\ s2c[i].type \in {"WLCOME", "PING"} => Welcomed
        /\ s2c[i].type = "REDIR" => RedirectLast(i)
    BY <1>4 DEF ArrivingCourse
  <2>2. ASSUME RedirectLast(i) PROVE RedirectLast(i)'
    <3>1. p.type = "EOF" /\ srv' \in {"redirected", "gone"}
      BY <2>2 DEF RedirectLast
    <3>2. \A j \in DOMAIN s2c' : s2c'[j].type # "WLCOME"
      BY <1>2, <2>2, <3>1 DEF RedirectLast
    <3>3. \A j \in DOMAIN s2c' : j > i => s2c'[j].type = "EOF"
      BY <1>2, <2>2, <3>1 DEF RedirectLast
    <3>4. QED
      BY <2>2, <3>1, <3>2, <3>3 DEF RedirectLast
  <2>3. QED
    BY <1>4, <2>1, <2>2 DEF Welcomed
<1>5. CASE i = Len(s2c) + 1 /\ s2c'[i] = p
  <2>1. ASSUME p.type = "REDIR" PROVE RedirectLast(i)'
    <3>1. \A j \in DOMAIN s2c : s2c[j].type # "WLCOME"
      BY <2>1 DEF ArrivingCourse
    <3>2. \A j \in DOMAIN s2c' : s2c'[j].type # "WLCOME"
      BY <1>2, <2>1, <3>1
    <3>3. \A j \in DOMAIN s2c' : ~(j > i)
      BY <1>2, <1>3, <1>5
    <3>4. QED
      BY <2>1, <3>2, <3>3 DEF RedirectLast
  <2>2. QED
    BY <1>5, <2>1 DEF Welcomed
<1>6. QED
  BY <1>2, <1>4, <1>5

(* The server, reading, sending or leaving. *)
LEMMA ServerCourse ==
  ASSUME TypeOK, Course, ServerSend \/ ServerRecv \/ ServerDrop
  PROVE  Course'
<1> SUFFICES ASSUME polite, PhaseCourse, WrittenCourse, ArrivingCourse
             PROVE  PhaseCourse' /\ WrittenCourse' /\ ArrivingCourse'
  BY DEF Course, ServerSend, ServerRecv, ServerDrop, histVars
<1>1. UNCHANGED <<fd, key, conn_flags>>
  BY DEF ServerSend, ServerRecv, ServerDrop, ircVars, c6Vars
<1>2. CASE ServerSend
  <2>1. PICK type \in ServerTypes, next \in ServerPhases :
          /\ <<srv, type, next>> \in ServerFlow
          /\ srv' = next
          /\ s2c' = Append(s2c, [type |-> type, from |-> fd])
          /\ fd > 0
          /\ srv # "gone"
          /\ c2s' = c2s
    BY <1>2 DEF ServerSend
  <2>2. \/ srv = "greet" /\ type = "HELO" /\ next = "user"
        \/ srv = "nicks" /\ type \in NicksTypes /\ next = "login"
        \/ srv = "decide" /\ type = "REDIR" /\ next = "redirected"
        \/ srv = "decide" /\ type = "REFUSED" /\ next = "refused"
        \/ srv = "decide" /\ type = "INFOLOGIN" /\ next = "welcome"
        \/ srv = "welcome" /\ type = "WLCOME" /\ next = "in"
        \/ srv = "in" /\ type = "PING" /\ next = "in"
    BY <2>1 DEF ServerFlow
  <2>3. PhaseCourse' /\ WrittenCourse'
    BY <1>1, <2>1, <2>2 DEF PhaseCourse, WrittenCourse, KnownPhases, Welcomed
  <2>4. PICK p \in ServerPackets : p = [type |-> type, from |-> fd]
    <3>1. fd \in 1..MaxServers
      BY <2>1 DEF TypeOK
    <3>2. [type |-> type, from |-> fd] \in ServerPackets
      BY <3>1 DEF ServerPackets
    <3>3. QED
      BY <3>2
  <2>5. type \in KeyedTypes => key = fd
    BY <2>2 DEF PhaseCourse, KnownPhases, KeyedTypes, NicksTypes
  <2>6. type = "REDIR" => srv' = "redirected" /\ ~Welcomed /\ "READY" \notin conn_flags
    BY <2>1, <2>2 DEF PhaseCourse, Welcomed, NicksTypes
  <2>7. type \in {"WLCOME", "PING"} \/ Welcomed => srv' \in {"in", "gone"}
    BY <2>1, <2>2 DEF Welcomed, NicksTypes
  <2>8. srv \notin {"redirected", "gone"}
    BY <2>2
  <2>9. ArrivingCourse'
    BY <1>1, <2>1, <2>4, <2>5, <2>6, <2>7, <2>8, SaidCourse
  <2>10. QED
    BY <2>3, <2>9
<1>3. CASE ServerRecv
  <2>1. c2s # <<>> /\ c2s \in Seq(ClientPackets) /\ c2s' = Tail(c2s) /\ s2c' = s2c
    BY <1>3 DEF ServerRecv, TypeOK
  <2>2. \A i \in DOMAIN c2s' : i + 1 \in DOMAIN c2s /\ c2s'[i] = c2s[i + 1]
    BY <2>1, InTail
  <2>3. 1 \in DOMAIN c2s /\ c2s[1] = Head(c2s)
    BY <2>1, HeadTailProperties, LenProperties, EmptySeq
  <2>4. \/ srv' = srv
        \/ srv = "user" /\ Head(c2s).type = "username" /\ srv' = "nicks"
        \/ srv = "login" /\ srv' = "decide"
    BY <1>3 DEF ServerRecv
  <2>5. srv = "user" /\ Head(c2s).type = "username" => key = fd
    BY <2>3 DEF WrittenCourse
  <2>6. srv # "gone"
    BY <2>1 DEF PhaseCourse
  <2>7. PhaseCourse'
    BY <1>1, <2>4, <2>5, <2>6 DEF PhaseCourse, KnownPhases, Welcomed
  <2>8. WrittenCourse'
    BY <1>1, <2>2, <2>4 DEF WrittenCourse
  <2>9. ArrivingCourse'
    BY <1>1, <2>1, <2>4 DEF ArrivingCourse, RedirectLast, Welcomed
  <2>10. QED
    BY <2>7, <2>8, <2>9
<1>4. CASE ServerDrop
  <2>1. /\ srv' = "gone" /\ c2s' = <<>> /\ fd > 0 /\ srv # "gone"
        /\ s2c' = Append(s2c, [type |-> "EOF", from |-> fd])
    BY <1>4 DEF ServerDrop
  <2>2. PhaseCourse'
    BY <1>1, <2>1 DEF PhaseCourse, KnownPhases, Welcomed
  <2>3. DOMAIN c2s' = {}
    BY <2>1
  <2>4. WrittenCourse'
    BY <2>3 DEF WrittenCourse
  <2>5. PICK p \in ServerPackets : p = [type |-> "EOF", from |-> fd]
    <3>1. fd \in 1..MaxServers
      BY <2>1 DEF TypeOK
    <3>2. [type |-> "EOF", from |-> fd] \in ServerPackets
      BY <3>1 DEF ServerPackets
    <3>3. QED
      BY <3>2
  <2>6. p.type \notin KeyedTypes
    BY <2>5 DEF KeyedTypes, NicksTypes
  <2>7. ArrivingCourse'
    BY <1>1, <2>1, <2>5, <2>6, SaidCourse
  <2>8. QED
    BY <2>2, <2>4, <2>7
<1>5. QED
  BY <1>2, <1>3, <1>4

(* Every step keeps the course. *)
LEMMA StepCourse == SessionAssumption /\ TypeOK /\ LoginGates /\ Course /\ [Next]_vars => Course'
<1> SUFFICES ASSUME SessionAssumption, TypeOK, LoginGates, Course, [Next]_vars
             PROVE  Course'
  OBVIOUS
<1>1. CASE ClientLine
  BY <1>1, ClientLineCourse
<1>2. CASE ClientGone \/ Timeout
  BY <1>2, EndCourse DEF ClientGone, Timeout
<1>3. CASE ServerPacket
  BY <1>3, ServerPacketCourse
<1>4. CASE ServerSend \/ ServerRecv \/ ServerDrop
  BY <1>4, ServerCourse
<1>5. CASE Finished \/ UNCHANGED vars
  <2>1. UNCHANGED vars
    BY <1>5 DEF Finished
  <2>2. QED
    BY <2>1 DEF vars, ircVars, c6Vars, netVars, histVars, Course, PhaseCourse,
                WrittenCourse, ArrivingCourse, RedirectLast, Welcomed
<1>6. QED
  BY <1>1, <1>2, <1>3, <1>4, <1>5 DEF Next

(* The course holds at all times. *)
LEMMA CourseHolds == Spec => []Course
<1>1. Init => Course
  BY InitCourse
<1>2. TypeOK /\ LoginGates /\ Course /\ [Next]_vars => Course'
  BY StepCourse, SessionAssumption
<1>3. QED
  BY <1>1, <1>2, TypeCorrect, GatesHold, PTL DEF Spec

(* Every packet but a room list request is encoded with the key of the     *)
(* server it is written to, across any number of redirects, and a ready    *)
(* session has that key (cmd_helo, cmd_redir, c6_send).                    *)
THEOREM PacketsHaveTheKey == Spec => []PacketsKeyed
<1>1. Course => PacketsKeyed
  BY DEF Course, PhaseCourse, WrittenCourse, PacketsKeyed
<1>2. QED
  BY <1>1, CourseHolds, PTL

(* No command and no status reaches a server that has not welcomed the     *)
(* user (ADD_COMMAND, cmd_wlcome).                                         *)
THEOREM CommandsWait == Spec => []CommandsAfterWelcome
<1>1. Course => CommandsAfterWelcome
  BY DEF Course, WrittenCourse, CommandsAfterWelcome
<1>2. QED
  BY <1>1, CourseHolds, PTL


-----------------------------------------------------------------------------
(* The numbers of the packets of Session, for every value of the constants.*)

-----------------------------------------------------------------------------
(* The inductive invariant: PacketIds, with what makes it so after a write *)
(* and after the server has read or is gone.                               *)
Numbered ==
  /\ PacketIds
  /\ Len(c2s) <= sent
  /\ srv = "gone" => c2s = <<>>

-----------------------------------------------------------------------------
(* Numbers modulo the width of the counter.  A quotient and a remainder    *)
(* determine each other.                                                   *)
LEMMA OneRemainder ==
  ASSUME NEW m \in Nat \ {0}, NEW x \in Int, NEW y \in Int,
         NEW r \in 0..(m - 1), NEW q \in 0..(m - 1), m * x + r = m * y + q
  PROVE  r = q
<1>1. m * (x - y) = q - r
  OBVIOUS
<1>2. CASE x = y
  BY <1>2
<1>3. CASE x > y
  <2>1. x - y >= 1 /\ m * (x - y) >= m
    BY <1>3
  <2>2. QED
    BY <1>1, <2>1
<1>4. CASE x < y
  <2>1. y - x >= 1 /\ m * (y - x) >= m
    BY <1>4
  <2>2. m * (y - x) = r - q
    BY <1>1
  <2>3. QED
    BY <2>1, <2>2
<1>5. QED
  BY <1>2, <1>3, <1>4

LEMMA WrapAdd ==
  ASSUME SessionAssumption, NEW a \in Nat, NEW b \in Nat
  PROVE  Wrap(Wrap(a) + b) = Wrap(a + b)
<1>1. IdMod \in Nat \ {0}
  BY DEF SessionAssumption
<1>2. \A n \in Nat : /\ n = IdMod * (n \div IdMod) + (n % IdMod)
                     /\ n % IdMod \in 0..(IdMod - 1)
                     /\ n \div IdMod \in Int
  BY <1>1
<1> DEFINE x == Wrap(a) + b
           r == Wrap(x)
           q == Wrap(a + b)
           da == a \div IdMod
           dx == x \div IdMod
           dq == (a + b) \div IdMod
<1>3. a = IdMod * da + Wrap(a) /\ da \in Int /\ Wrap(a) \in Nat
  BY <1>1, <1>2 DEF Wrap
<1>4. x \in Nat /\ a + b \in Nat
  BY <1>3
<1>5. x = IdMod * dx + r /\ dx \in Int /\ r \in 0..(IdMod - 1)
  <2> HIDE DEF x
  <2>1. QED
    BY <1>2, <1>4 DEF Wrap
<1>6. a + b = IdMod * dq + q /\ dq \in Int /\ q \in 0..(IdMod - 1)
  BY <1>2, <1>4 DEF Wrap
<1>7. IdMod * (da + dx) + r = IdMod * dq + q
  <2>1. IdMod * (da + dx) = IdMod * da + IdMod * dx
    <3> HIDE DEF da, dx
    <3>1. QED
      BY <1>1, <1>3, <1>5
  <2>2. x = Wrap(a) + b
    OBVIOUS
  <2> DEFINE ma == IdMod * da
             mx == IdMod * dx
             mq == IdMod * dq
  <2>3. ma \in Int /\ mx \in Int /\ mq \in Int
    BY <1>1, <1>3, <1>5, <1>6
  <2> HIDE DEF x, r, q, da, dx, dq
  <2>4. a = ma + Wrap(a) /\ x = mx + r /\ a + b = mq + q
    BY <1>3, <1>5, <1>6
  <2>5. IdMod * (da + dx) = ma + mx
    BY <2>1
  <2> HIDE DEF ma, mx, mq
  <2>6. ma + mx + r = mq + q
    BY <1>1, <1>3, <1>5, <1>6, <2>2, <2>3, <2>4
  <2>7. QED
    BY <2>5, <2>6 DEF mq
<1>8. r = q
  <2> HIDE DEF x, r, q, da, dx, dq
  <2>1. da + dx \in Int
    BY <1>3, <1>5
  <2>2. QED
    BY <1>1, <1>5, <1>6, <1>7, <2>1, OneRemainder
<1>9. QED
  BY <1>8

-----------------------------------------------------------------------------
(* What two sequences joined are. *)
LEMMA Joined ==
  ASSUME NEW S, NEW s \in Seq(S), NEW t \in Seq(S)
  PROVE  /\ Len(s \o t) = Len(s) + Len(t)
         /\ \A i \in 1..(Len(s) + Len(t)) :
              (s \o t)[i] = IF i <= Len(s) THEN s[i] ELSE t[i - Len(s)]
         /\ s \o t \in Seq(S)
  BY ConcatProperties

(* c6_send: the packets written continue the numbers. *)
LEMMA SendNumbers ==
  ASSUME TypeOK, SessionAssumption, Numbered, UNCHANGED srv,
         NEW types \in Seq(ClientPacketTypes), NEW k \in 0..MaxServers, Send(types, k)
  PROVE  Numbered'
<1> DEFINE n == Len(types)
<1>1. n \in Nat /\ sent \in Nat /\ Len(c2s) \in Nat
  BY LenProperties DEF TypeOK
<1>2. clt_id' = Wrap(clt_id + n) /\ sent' = sent + n
  BY DEF Send
<1>3. clt_id = Wrap(sent + 1)
  BY DEF Numbered, PacketIds
<1>4. clt_id' = Wrap(sent' + 1)
  <2>1. sent + 1 \in Nat /\ (sent + 1) + n = sent' + 1
    BY <1>1, <1>2
  <2>2. Wrap(Wrap(sent + 1) + n) = Wrap((sent + 1) + n)
    BY <1>1, <2>1, WrapAdd
  <2>3. QED
    BY <1>2, <1>3, <2>1, <2>2
<1>5. CASE srv = "gone"
  <2>1. c2s' = <<>> /\ srv' = "gone"
    BY <1>5 DEF Send, Numbered
  <2>2. Len(c2s') = 0 /\ DOMAIN c2s' = {}
    BY <2>1
  <2>3. QED
    BY <1>1, <1>2, <1>4, <2>1, <2>2 DEF Numbered, PacketIds
<1>6. CASE srv # "gone"
  <2>1. c2s' = c2s \o Wire(types, k) /\ srv' # "gone"
    BY <1>6 DEF Send
  <2>2. /\ c2s \in Seq(ClientPackets) /\ Wire(types, k) \in Seq(ClientPackets)
        /\ Len(Wire(types, k)) = n
    BY WireType DEF TypeOK
  <2>3. /\ Len(c2s') = Len(c2s) + n
        /\ DOMAIN c2s' = 1..(Len(c2s) + n)
        /\ \A i \in 1..(Len(c2s) + n) :
             c2s'[i] = IF i <= Len(c2s) THEN c2s[i] ELSE Wire(types, k)[i - Len(c2s)]
    <3>1. /\ Len(c2s \o Wire(types, k)) = Len(c2s) + Len(Wire(types, k))
          /\ \A i \in 1..(Len(c2s) + Len(Wire(types, k))) :
               (c2s \o Wire(types, k))[i] =
                 IF i <= Len(c2s) THEN c2s[i] ELSE Wire(types, k)[i - Len(c2s)]
          /\ c2s \o Wire(types, k) \in Seq(ClientPackets)
      BY <2>2, Joined
    <3>2. DOMAIN (c2s \o Wire(types, k)) = 1..Len(c2s \o Wire(types, k))
      BY <3>1, LenProperties
    <3>3. QED
      BY <2>1, <2>2, <3>1, <3>2
  <2>4. sent' - Len(c2s') = sent - Len(c2s) /\ Len(c2s') <= sent'
    BY <1>1, <1>2, <2>3 DEF Numbered
  <2>5. ASSUME NEW i \in 1..(Len(c2s) + n)
        PROVE  c2s'[i].id = Wrap(sent - Len(c2s) + i)
    <3>1. CASE i <= Len(c2s)
      <4>1. i \in DOMAIN c2s /\ c2s'[i] = c2s[i]
        BY <1>1, <2>2, <2>3, <3>1, LenProperties
      <4>2. QED
        BY <4>1 DEF Numbered, PacketIds
    <3>2. CASE i > Len(c2s)
      <4> DEFINE j == i - Len(c2s)
      <4>1. j \in 1..n /\ j - 1 \in Nat /\ sent + 1 \in Nat
        BY <1>1, <3>2
      <4>2. c2s'[i] = Wire(types, k)[j]
        BY <1>1, <2>3, <3>2
      <4>3. c2s'[i].id = Wrap(clt_id + j - 1)
        BY <4>1, <4>2 DEF Wire
      <4>4. clt_id \in Int /\ clt_id + j - 1 = clt_id + (j - 1)
        BY <4>1 DEF TypeOK
      <4>5. Wrap(Wrap(sent + 1) + (j - 1)) = Wrap((sent + 1) + (j - 1))
        BY <4>1, WrapAdd
      <4>6. (sent + 1) + (j - 1) = sent - Len(c2s) + i
        BY <1>1
      <4>7. QED
        BY <1>3, <4>3, <4>4, <4>5, <4>6
    <3>3. QED
      BY <1>1, <3>1, <3>2
  <2>6. PacketIds'
    BY <1>4, <2>3, <2>4, <2>5 DEF PacketIds
  <2>7. QED
    BY <2>1, <2>4, <2>6 DEF Numbered
<1>7. QED
  BY <1>5, <1>6

(* A new connection and the end of one begin again at 1. *)
LEMMA FirstNumber ==
  ASSUME SessionAssumption, clt_id' = 1, sent' = 0, c2s' = <<>>
  PROVE  Numbered'
<1>1. Wrap(0 + 1) = 1
  BY DEF Wrap, SessionAssumption
<1>2. Len(c2s') = 0 /\ DOMAIN c2s' = {}
  OBVIOUS
<1>3. QED
  BY <1>1, <1>2 DEF Numbered, PacketIds

LEMMA EndNumbers ==
  ASSUME SessionAssumption, Close \/ Exit
  PROVE  Numbered'
  BY FirstNumber DEF Close, Exit, Freed

(* A write that fails ends the session. *)
LEMMA FailNumbers ==
  ASSUME SessionAssumption, SendFails
  PROVE  Numbered'
  BY EndNumbers DEF SendFails

(* What leaves the packets alone, and the server there, leaves the numbers.*)
LEMMA SameNumbers ==
  ASSUME Numbered, UNCHANGED <<clt_id, sent, c2s>>, srv' = "gone" => srv = "gone"
  PROVE  Numbered'
  BY DEF Numbered, PacketIds

-----------------------------------------------------------------------------
(* A client line. *)
LEMMA ClientLineNumbers ==
  ASSUME SessionAssumption, TypeOK, Numbered, ClientLine
  PROVE  Numbered'
<1>1. CASE \E flag \in LoginFlags : LoginLine(flag)
  <2>1. PICK flag \in LoginFlags : LoginLine(flag)
    BY <1>1
  <2>2. CASE Close
    BY <2>2, EndNumbers
  <2>3. CASE ~Close
    <3>1. UNCHANGED <<clt_id, sent, c2s>> /\ (srv' = srv \/ srv' = "greet")
      BY <2>1, <2>3 DEF LoginLine, c6Vars, netVars
    <3>2. QED
      BY <3>1, SameNumbers
  <2>4. QED
    BY <2>2, <2>3
<1>2. CASE DeferrableLine \/ ListLine
  <2>1. key \in 0..MaxServers /\ <<"roomlist">> \in Seq(ClientPacketTypes)
    BY DEF TypeOK, ClientPacketTypes
  <2>2. CASE SendFails
    BY <2>2, FailNumbers
  <2>3. CASE UNCHANGED <<c6Vars, netVars>>
    BY <2>3, SameNumbers DEF c6Vars, netVars
  <2>4. CASE UNCHANGED srv /\ \E n \in 0..1 : Send(Commands(n), key)
    <3>1. PICK n \in 0..1 : Send(Commands(n), key)
      BY <2>4
    <3>2. Commands(n) \in Seq(ClientPacketTypes)
      BY CommandsType
    <3>3. QED
      BY <2>1, <2>4, <3>1, <3>2, SendNumbers
  <2>5. CASE UNCHANGED srv /\ Send(<<"roomlist">>, key)
    BY <2>1, <2>5, SendNumbers
  <2>6. QED
    BY <1>2, <2>2, <2>3, <2>4, <2>5 DEF DeferrableLine, ListLine
<1>3. CASE QuitLine \/ SquitLine
  <2>1. Close \/ Exit \/ UNCHANGED <<clt_id, sent, c2s, srv>>
    BY <1>3 DEF QuitLine, SquitLine, c6Vars, netVars
  <2>2. QED
    BY <2>1, EndNumbers, SameNumbers
<1>4. QED
  BY <1>1, <1>2, <1>3 DEF ClientLine

(* A packet of the server. *)
LEMMA ServerPacketNumbers ==
  ASSUME SessionAssumption, TypeOK, Numbered, ServerPacket
  PROVE  Numbered'
<1>1. key \in 0..MaxServers
  BY DEF TypeOK
<1>2. CASE Close \/ Exit \/ SendFails
  BY <1>2, EndNumbers, FailNumbers
<1>3. CASE RecvHelo /\ ~SendFails
  <2>1. s2c # <<>> /\ Send(<<"username">>, HeloKey) /\ srv' = srv
    BY <1>3 DEF RecvHelo, Receives
  <2>2. HeloKey \in 0..MaxServers
    BY <2>1, HeadTailType DEF HeloKey, ServerPackets
  <2>3. <<"username">> \in Seq(ClientPacketTypes)
    BY DEF ClientPacketTypes
  <2>4. QED
    BY <2>1, <2>2, <2>3, SendNumbers
<1>4. CASE RecvNicks /\ ~Close /\ ~Exit /\ ~SendFails
  <2>1. Send(<<"login">>, key) /\ srv' = srv
    BY <1>4 DEF RecvNicks
  <2>2. <<"login">> \in Seq(ClientPacketTypes)
    BY DEF ClientPacketTypes
  <2>3. QED
    BY <1>1, <2>1, <2>2, SendNumbers
<1>5. CASE RecvRedir /\ ~Close
  BY <1>5, FirstNumber DEF RecvRedir, CounterReset
<1>6. CASE RecvInfologin
  BY <1>6, SameNumbers DEF RecvInfologin, c6Vars
<1>7. CASE RecvWlcome /\ ~SendFails
  <2>1. PICK n \in 0..Len(cmd_list) : Send(<<"status">> \o Commands(n), key) /\ srv' = srv
    BY <1>7 DEF RecvWlcome
  <2>2. n \in Nat
    BY LenProperties DEF TypeOK
  <2>3. <<"status">> \o Commands(n) \in Seq(ClientPacketTypes)
    BY <2>2, WelcomeTypes
  <2>4. QED
    BY <1>1, <2>1, <2>3, SendNumbers
<1>8. CASE RecvRefused \/ RecvEof
  BY <1>8, EndNumbers DEF RecvRefused, RecvEof
<1>9. CASE RecvPing /\ ~SendFails
  <2>1. Send(<<"pong">>, key) /\ srv' = srv
    BY <1>9 DEF RecvPing
  <2>2. <<"pong">> \in Seq(ClientPacketTypes)
    BY DEF ClientPacketTypes
  <2>3. QED
    BY <1>1, <2>1, <2>2, SendNumbers
<1>10. QED
  BY <1>2, <1>3, <1>4, <1>5, <1>6, <1>7, <1>8, <1>9 DEF ServerPacket

(* A server that reads takes the packets from the front. *)
LEMMA ServerRecvNumbers ==
  ASSUME SessionAssumption, TypeOK, Numbered, ServerRecv
  PROVE  Numbered'
<1>1. /\ c2s # <<>> /\ c2s' = Tail(c2s) /\ UNCHANGED <<clt_id, sent>>
      /\ srv' \in {srv, "nicks", "decide"}
  BY DEF ServerRecv, c6Vars
<1>2. c2s \in Seq(ClientPackets) /\ Len(c2s) \in Nat /\ sent \in Nat
  BY LenProperties DEF TypeOK
<1>3. /\ Len(c2s') = Len(c2s) - 1
      /\ DOMAIN c2s' = 1..(Len(c2s) - 1)
      /\ \A i \in DOMAIN c2s' : i \in Nat /\ i + 1 \in DOMAIN c2s /\ c2s'[i] = c2s[i + 1]
  BY <1>1, <1>2, HeadTailProperties, LenProperties
<1>4. ASSUME NEW i \in DOMAIN c2s'
      PROVE  c2s'[i].id = Wrap(sent' - Len(c2s') + i)
  <2>1. c2s[i + 1].id = Wrap(sent - Len(c2s) + (i + 1))
    BY <1>3 DEF Numbered, PacketIds
  <2>2. sent - Len(c2s) + (i + 1) = sent' - Len(c2s') + i
    BY <1>1, <1>2, <1>3
  <2>3. QED
    BY <1>3, <2>1, <2>2
<1>5. clt_id' = Wrap(sent' + 1)
  BY <1>1 DEF Numbered, PacketIds
<1>6. Len(c2s') <= sent'
  BY <1>1, <1>2, <1>3 DEF Numbered
<1>7. srv' # "gone"
  BY <1>1 DEF Numbered
<1>8. QED
  BY <1>4, <1>5, <1>6, <1>7 DEF Numbered, PacketIds

(* A server that speaks or goes away. *)
LEMMA ServerNumbers ==
  ASSUME SessionAssumption, TypeOK, Numbered, ServerSend \/ ServerDrop
  PROVE  Numbered'
<1>1. CASE ServerSend
  <2>1. PICK type \in ServerTypes, next \in ServerPhases :
          /\ srv # "gone" /\ srv' = next
          /\ <<srv, type, next>> \in ServerFlow \/ next = srv
          /\ UNCHANGED <<clt_id, sent, c2s>>
    BY <1>1 DEF ServerSend, c6Vars
  <2>2. \A p, t, q : <<p, t, q>> \in ServerFlow => q # "gone"
    BY DEF ServerFlow
  <2>3. srv' # "gone"
    BY <2>1, <2>2
  <2>4. QED
    BY <2>1, <2>3, SameNumbers
<1>2. CASE ServerDrop
  <2>1. c2s' = <<>> /\ UNCHANGED <<clt_id, sent>>
    BY <1>2 DEF ServerDrop, c6Vars
  <2>2. Len(c2s') = 0 /\ DOMAIN c2s' = {}
    BY <2>1
  <2>3. QED
    BY <2>1, <2>2 DEF Numbered, PacketIds, TypeOK
<1>3. QED
  BY <1>1, <1>2

(* Every step keeps the numbers. *)
LEMMA StepNumbers == SessionAssumption /\ TypeOK /\ Numbered /\ [Next]_vars => Numbered'
<1> SUFFICES ASSUME SessionAssumption, TypeOK, Numbered, [Next]_vars
             PROVE  Numbered'
  OBVIOUS
<1>1. CASE ClientLine
  BY <1>1, ClientLineNumbers
<1>2. CASE ClientGone \/ Timeout
  BY <1>2, EndNumbers DEF ClientGone, Timeout
<1>3. CASE ServerPacket
  BY <1>3, ServerPacketNumbers
<1>4. CASE ServerRecv
  BY <1>4, ServerRecvNumbers
<1>5. CASE ServerSend \/ ServerDrop
  BY <1>5, ServerNumbers
<1>6. CASE Finished \/ UNCHANGED vars
  BY <1>6, SameNumbers DEF Finished, vars, c6Vars, netVars
<1>7. QED
  BY <1>1, <1>2, <1>3, <1>4, <1>5, <1>6 DEF Next

(* The packets a server receives carry consecutive numbers from 1, modulo  *)
(* the width of the counter, whatever redirects and failures come between  *)
(* (c6_send, cmd_redir).                                                   *)
THEOREM PacketsNumbered == Spec => []PacketIds
<1>1. Init => Numbered
  <2>1. ASSUME Init PROVE Numbered
    <3>1. Wrap(0 + 1) = 1
      BY SessionAssumption DEF Wrap, SessionAssumption
    <3>2. c2s = <<>> /\ clt_id = 1 /\ sent = 0
      BY <2>1 DEF Init
    <3>3. Len(c2s) = 0 /\ DOMAIN c2s = {}
      BY <3>2
    <3>4. QED
      BY <3>1, <3>2, <3>3 DEF Numbered, PacketIds
  <2>2. QED
    BY <2>1
<1>2. TypeOK /\ Numbered /\ [Next]_vars => Numbered'
  BY StepNumbers, SessionAssumption
<1>3. Numbered => PacketIds
  BY DEF Numbered
<1>4. QED
  BY <1>1, <1>2, <1>3, TypeCorrect, PTL DEF Spec
==============================================================================
