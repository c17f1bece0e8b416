# Verification of irC6

irC6 is a proxy: IRC clients connect to it, and for each of them it holds a
session with a C6 chat server (`c6login.tin.it`).  It is one process with one
thread and one libevent loop; a behaviour of it is a sequence of callbacks for a
ready socket or an expired timer.  This directory holds TLA+ models of its
parts, the TLC configurations that check them on small instances, and theorems
about all of these parts, which TLAPS checks for every value of the constants.

Paths below are relative to `src/irC6/src/`.

Contents: 1 the system, 2 the modules and the code, 3 the runs, 4 fairness,
5 proofs, 6 divergences between code and documents, 7 what is not modelled,
8 plan.

## 1. The system

| component | source | state | operations | modules |
|---|---|---|---|---|
| session life cycle | `irc/irc.c`, `irc/comandi.c`, `irc/output.c`, `c6/c6.c`, `c6/client.c`, `c6/server.c`, `main.c` | `conn_flags`, read timer, `cmd_list`; C6 socket, `server_key`, `clt_id` | login lines, deferred commands, LIST, QUIT, SQUIT, timeout; HELO, NICKS, REDIR, INFOLOGIN, WLCOME, refusals, PING; end of either peer, failed write | `InOrderExec`, `Session`, `SessionProofs` |
| IRC line framing | `irc/irc.c` (`irc_read`) | `buf`, `old_len` | read, scan, hand over a line, keep the rest | `ReadBuffer`, `LineStream`, `LineFraming`, `SequenceFacts`, `ArrivalProofs` |
| C6 packet framing | `c6/c6.c` (`c6_read`, `parse_indata`) | `buf`, `old_len` | read, process a packet, skip garbage, keep the rest | `ReadBuffer`, `PacketStream`, `PacketFraming`, `SequenceFacts`, `ArrivalProofs` |
| rooms as channels | `irc/comandi.c`, `irc/console.c`, `irc/output.c`, `c6/client.c`, `c6/server.c`, `list.c` | `chans`, `proom` | JOIN, PART, crea_stanza; the ROOM packets, messages among them | `Rooms`, `RoomsProofs` |
| room names | `irc/room.c` | none | encode, decode | `RoomNames`, under `Rooms`; `RoomsProofs` |
| nick list and presence | `irc/console.c`, `irc/output.c`, `list.c`, `c6/server.c` | `nicks` (online, status, black list) | aggiungi, rimuovi, ignora, non_ignora, PART and JOIN &irC6; SEND_USERS, STATUS_USER, USER_CHG_STATUS, messages | `Presence`, `PresenceProofs`, `Contacts` |
| own status and away | `irc/status.c`, `irc/comandi.c`, `irc/console.c` | `status`, `away` | MODE, AWAY, stato, the automatic reply | `OwnStatus`, `Contacts`, `PresenceProofs` |
| signals and one-shot callbacks | `lib/signals.c`, users in `irc/comandi.c`, `irc/console.c`, `irc/output.c` | callbacks of every event, with how often they are to fire | connect, emit, delete the spent | `Answers`, `ArrivalProofs` |
| argument splitting | `lib/args_sep.c` | none | count and cut the words of a line | `ArgsSep`, under `Answers`; `ArrivalProofs` |
| hash table | `lib/hash.c` | red-black tree, sorted lists, cache | add, find, delete, traverse | `Dictionary`, `HashTable`, `HashTableProofs` |
| chunked allocator | `lib/area_chunk.c` | areas, index and count of each, free atoms | new, delete, clean | `AreaChunk`, under `Memory`; `MemoryProofs` |
| areas | `lib/area.c`, users in `main.c`, `c6/client.c`, `c6/server.c` | tree of areas, their chunks and sizes | node, alloc, realloc, free, relink, destroy | `Areas`, under `Memory`; `MemoryProofs` |
| packet buffers | `lib/buffer.c`, users in `c6/client.c`, `c6/server.c` | a chunk and a size | new, resize, append, insert, copy, pack, unpack | `ByteString`, `Buffer`, `PackCodec`, `Packets`, `PacketsProofs` |
| encoding | `c6/codifica.c` | keys | the encoding of every packet after the first; the blowfish and md5 of the login are not modelled | `Packets`, `PacketsProofs` |
| user search, sockets, start, texts, generators | see PROJECT.json | | | none, see 7 |

### How the parts interact

The IRC side and the C6 side do not call each other.  Each registers named
events with `lib/signals.c` (`irc_ev`, `c6_ev`), the other side emits them, and
the handlers run inside the emission: `EMIT(c, "send room enter", ...)` in
`c_join` ends in `c6_room_enter`, `EMIT(c, "gui room can leave", ...)` in
`cmd_roomcanleave` ends in `irc_out_room_canleave`.  An event that nobody
registered is passed over in silence.  What a session keeps (nicks, rooms,
users of a room, callbacks by name) is in hash tables, whose entries come from
the chunked allocator, whose areas hang below the area of the session;
`area_destroy` frees them all at its end.  What a handler needs for the time of
one event comes from an area of the event.

A callback that ends its session (`irC6_close_connection`) does not return: it
longjmps to `irc_read` or `c6_read`, and the lines or packets that were still to
come out of the same read are lost with the buffer.  A signal, SIGPIPE among
them, ends the whole process through `exit_program`.

### Which behaviours are hard

* The login is a chain of gates across two sockets, a timer and a redirect that
  changes the server, its keys and the packet numbers in the middle.
* Commands of the client come at any time and wait for the welcome.
* The network cuts both streams anywhere; both parsers work in place in a buffer
  with a 16 bit rest.
* Requests are pipelined and some answers do not say what they answer.
* Modes and channel lists are told to the IRC client as changes only, so every
  handler must agree with what all the others have told.
* Memory of the tables is used again at once, while a cache still points to it;
  memory of an event is gone when its handler returns, or longjmps.
* A format says twice what a packet looks like, to the side that packs and to
  the side that unpacks, and lengths are cut to the bits of their counts.

### What makes each component correct

| component | properties | abstract specification |
|---|---|---|
| session | the timeout and the C6 socket follow the login flags (`LoginGates`); commands run once and in order (`ExecutedInOrder`), none before the server has welcomed the user (`CommandsAfterWelcome`); packets have the key (`PacketsKeyed`) and the number (`PacketIds`) of the server they go to; a login is decided (`LoginDecided`) and kept commands are served (`KeptIsServed`) | `InOrderExec` |
| line framing | the loop looks at every byte once and in order, at none it was not given, and leaves no line behind (`BufferIsStream`) | `LineStream` |
| packet framing | packets whole, in order and at once, of a server that keeps to the protocol (`PacketsAsSent`) | `PacketStream` |
| rooms, room names | names wait in the order of the answers (`PendingInOrder`); what the client sees, under the names it sees, is what the session holds (`ViewIsChans`), and that is the server's, messages included (`ChansAreServersPast`); every name leaves the queue (`RequestsSettle`) | |
| presence | the channel is the list (`ListedIsShown`); modes never say two things of a nick, nor another than the status held (`ModesAddUp`); the status held is the server's (`StatusIsServers`) | |
| own status | one status, told to the server in order and shown to the client; automatic answers only from somebody the server knows to be busy (`OwnStatusAgrees`) | |
| answers, argument splitting | the words of the line, each shown to whom asked (`AnsweredOneByOne`); no callback is left over (`HandlersAwaited`); every callback fires (`CallbacksFire`) | |
| hash table | lists sorted and counted, traversal complete (`TraversalOnce`) | `Dictionary` |
| areas, chunked allocator | what is in use stays memory of its own (`HeldIsMemory`); nothing is lost, freed twice or kept too long (`NothingLost`); no area of atoms is lost while one is enough (`OneAreaIsEnough`) | |
| packet buffers | what one side packs the other unpacks (`FieldsSurvive`); nothing is read past the end (`CutIsRefused`) | `ByteString` |

PROJECT.json lists the hazards behind these, each at its line of the source, and
says of those that no property covers why.

## 2. Modules

Every run has a module `MC...`, which gives the constants of the instance that
TLC checks and nothing else.  An operator whose comment starts with "Defect" is
never used by a specification: it is what a definition would be with a plausible
bug, and every property is broken by one of them.  Operators are named after the
functions of the source where TLA+ allows it; PROJECT.json maps every definition
to its lines.  Variables commented `history` are not in the program; they
remember what the properties are about.

### Session

One client connection from `accept` to its end.  A step is one line of the
client (`irc_process_input`) or one packet of the server (`c6_process_input`),
the timer, a peer that goes away, or a move of the server.  The lines and
packets of one `read()` are a sequence of steps; nothing comes between them in
the code, so the model has more interleavings than the program, never fewer.

| model | code |
|---|---|
| `conn` | in `connection_list` ("open"), after `irC6_close_connection` ("closed"), after `exit_program` ("exited") |
| `conn_flags`, `timer`, `cmd_list` | `IRC_FLAG_*` of `irc/irc.h`, the timeout of `IRC(c)->ev`, the kept commands |
| `fd`, `key`, `clt_id` | `C6(c)->fd`, `reordered_key`, `clt_id`; sockets and keys are known by the number of the server they belong to, 0 is none |
| `LoginLine` | `c_pass`, `c_nick`, `c_user` and `do_login`, which connects inside the line |
| `DeferrableLine`, `Keep` | every handler that starts with `ADD_COMMAND` |
| `ListLine` | `c_list`, which does not |
| `RecvWlcome`, `Replay` | `cmd_wlcome` and `irc_out_welcome`: status, READY, all kept commands in one step |
| `RecvRedir` | `cmd_redir`: the buffer may still hold packets of the old server |
| `Send`, `SendFails` | `c6_send`: a write succeeds, or closes the session, or raises SIGPIPE |

`srv`, `c2s` and `s2c` are the C6 server and the two streams.  The server is
external.  Its manners are drawn at the start (`polite`, out of `Manners`): a
polite one follows `doc/protocollo-c6.txt` and may redirect, refuse or disappear;
another sends any packet at any time.  The bounds `RudeLines` and `RudeSent`
are those of `MaxLines` and `MaxSent` for the second kind, whose state space is
larger.  Close and exit free every variable of the connection, as
`area_destroy` does.

`InOrderExec` is what the session promises about commands: they are executed or
kept, in order, and given up only with the session.  `Session` implements it
with `pending <- cmd_list`, `alive <- (conn = "open")`.

### LineFraming, PacketFraming

`ReadBuffer` holds what `irc_read` and `c6_read` have in common: the buffer, the
rest and its length.  The specifications are `LineSpec` and `PacketSpec`.  One
step is one `read()` or one turn of the loop.  `buf` is the part of the
buffer that was read into; `sz`, `offs` and `res` are the locals of `irc_read`.
`old_len` is a `uint16_t` and the buffer has 2^16 bytes, so a full buffer makes
it zero; the models keep that as `% BufSize`.  `LineStream` and `PacketStream`
know nothing of reads: they take the stream byte by byte or packet by packet,
and say in one action, `Overflow`, what a line or packet too long for the buffer
costs.  For lines the refinement shows that nothing depends on how the network
cuts the stream, that overflow included.  Packets do not depend on it either as
long as the server keeps to the protocol (`PacketsAsSent`).  Behind a header that
is no packet's they do: `parse_indata` drops what has arrived (`c6/c6.c:198`), and
`Skip` of `PacketStream` does the same, so where the parser goes on is for the
reads to say.

`memcpy` on overlapping memory, at the end of both functions, is undefined in C;
both models take the upward copy that compilers and libraries make of it.

### Rooms, RoomNames

`proom` is the queue of room names.  `c6_room_enter` and `c6_room_leave` append
the name, every answer takes the head, and only some answers bring a name of
their own.  The model has the requests in flight, a server that answers them in
order while others enter, speak and leave, and `view`: the channels as an IRC
client puts them together from the lines it is sent.  A creator may be put into
a room by a list that nobody waits for; `unasked` remembers that, because it
moves the queue by one.

Rooms have names, and channels the names that `RoomNames` makes of them:
`irc_room_encode` for every line to the client, `irc_room_decode` for every line
of it.  The escapes have digits of base 3 and there are eight characters, one or
more of every kind that the two functions tell apart; one room is called like
an escape, and the client may write a channel with the escapes or without.

### Presence, OwnStatus, Contacts

`nicks` holds per nick `ONLINE`, the bits of `STATUS_MASK` and `black_list`;
`view` holds the modes that the client has been sent for everybody in `&irC6`.
`patient` and `plain` remember that the client did nothing after which the code
does not promise right modes (section 6); `ListedIsShown` needs neither.

`OwnStatus` has the calls of `irc/status.c` as operators on a record, so that a
MODE of several letters is one step which folds over them, as `c_mode` loops.
`Contacts` composes both: a message of a nick is dropped for the black list of
`Presence` and answered for the away text of `OwnStatus`, and status packets,
answers and list requests share one stream to the server.  `told` is what the
server knows of the user; `tactful` remembers that nobody was ever answered
automatically while the server knew the user as not busy.

### Answers, ArgsSep

`handlers` is the list of one-shot callbacks of the two events that are
connected without a handler of their own.  `Emit` is `sig_emit_real`: all
callbacks fire, in order, from one `va_list`, and the spent ones are deleted.
`AllOf` is what the callbacks of one event have been connected for, `Lasting`
what the spent ones leave.  What is asked comes from lines: `Args` is `args_sep`
with its two passes, `Count`, which counts the words, and `Cut`, which cuts the
line with `strsep` and keeps as many pieces as were counted (`Kept`).  The
properties compare with `Words`, which says what a word is: from a character
behind a blank to the last before one.

### HashTable

The entries are memory: an entry that was deleted keeps its bytes until it is
handed out again, and the ring may point to it all the time.  The two hashes are
constants, chosen so that names collide in the first hash, or in both.  `Values`
are the first hashes in the order of the tree, and a traversal takes the lists
in that order; `out` names the call that returned last and what it gave.
`Dictionary` is what the callers rely on.  It takes entries from a set of free
ones, which is what `HeldIsMemory` promises.

### Areas, AreaChunk, Memory

`Areas` has the operations of `lib/area.c` as operators on a tree of areas with
lists of chunks; `AreaChunk` is the allocator of atoms in areas of its own.
`Memory` composes them as a connection uses them: the area of the connection,
that of its table below it with the areas of atoms, and that of the event being
handled.  A handler packs a buffer (with an area of the packer's own, gone when
it is done), lets it grow and move, asks for a room, which leaves a chunk in
the area of the connection, takes the answer, which relinks that chunk to the
event, and may close the connection or end the process anywhere in between.
The model stops at the first access to a freed area of atoms (`wild`).

### Buffer, PackCodec, Packets

`Buffer` is memory: `mem` is the chunk, `Junk` what nobody wrote.  Every call of
`lib/buffer.c` grows, moves, clears and copies byte by byte in the order of the
code; `ByteString` says what it means for the text.  `PackCodec` has the
directives of the formats that this program uses, with how each consumes, counts
and compares; a byte has `Base` values, so that a text of `Base` bytes is what
one of 256 is for the code.  `Packets` builds each packet of `c6/client.c` group
by group, completes and encodes it as `c6_send` does (`OrderKey`, `XorCode`),
hands it over whole or cut, and takes it apart call by call as the handlers do,
to the terminating zero that `cmd_message` makes room for (`Keep`).  All handlers
that take something out of a packet are there, `cmd_infologin` with its two loops
and the two bytes of `cmd_errpkt` included.  A number without a size (`%^u` of
USERINFO and of the login) has no `Modifier`: what is compared before it is
nothing, and its four bytes are read whether or not they arrived.  The
exclusive or of two bytes is a constant, `XorOf`: the run gives it the bits, the
proofs what they need of it.  The other end of each packet is the server's and
external.

## 3. Runs

Every run is `tlc -config <cfg> <module>`.

| run | distinct states | bounds | shows |
|---|---|---|---|
| `session` | 98 019 | both kinds of server, 2 servers (one redirect), counter modulo 4; polite: 6 lines, 5 packets per server before it stops pinging; not polite: 4 lines, 2 packets; 2 packets of the server in flight | all properties of the session, safety and liveness |
| `session_list` | violation | polite, 5 lines | LIST is written before there is a key |
| `line_framing` | 87 943 | buffer of 3, stream of 6 over two letters, CR and a line end | lines do not depend on the cuts |
| `packet_framing` | 111 099 | buffer of 3, header of 2, payloads to 2, 2 packets | packets do not depend on the cuts, garbage and too large ones included |
| `rooms` | 54 271 | 2 rooms, `%11` and `0 `, under 3 channel names, 1 other user, 3 requests, 2 moves of the other, 3 packets in flight | answers are taken for the right room; the client sees the server's rooms |
| `rooms_told` | violation | 2 requests | a JOIN of no room is not answered |
| `hash_table` | 91 503 | 5 names in two first hashes, 3 entries, ring of 2 | a dictionary, whatever collides and is used again |
| `answers` | 94 509 | 2 nicks, 1 room, every line of 4 characters, 4 questions, 3 waiting | one question at a time is answered rightly; callbacks come and go with answers |
| `answers_two` | violation | 2 questions | two WHOIS at a time |
| `presence` | 574 595 | 2 nicks, 3 commands, 2 changes, 2 packets in flight, 1 away text, 7 arguments of MODE | list, modes and status agree; the user's own status too |
| `memory` | 38 022 | 3 areas of 2 atoms, 4 other chunks, 2 requests for rooms | memory in use is safe up to the first access to a freed area; nothing is lost |
| `buffers` | 15 846 | `Base` 8; edits of buffers to 3 bytes; packets with texts of 0, 1, 2, 8 and 9 bytes and lists of 0 to 2 names, cut anywhere | a buffer is its bytes; packets carry their fields over |

Why the bounds are enough.

* Session: six lines are the three login lines in any order and three commands,
  so that some are kept, some run at once, and a replay has more than one.  Two
  servers are one redirect; a second one would repeat the reset that the first
  one did.  The counter wraps inside a session.  A server without manners needs
  four lines only, the login and a command, to send any packet in every phase.
* Framing: a buffer of three fills up with text, with a line, with a line and a
  rest, and the stream is twice as long, so overflow is followed by a line.  The
  packet model has a header that can be split and a packet that cannot fit.
* Rooms: two requests can be in flight while the third is made, for the same
  room or for another, and another moves before, between and after the answers.
* Hash table: four of the five names share the first hash and two of these both;
  three entries make lists of three, and every further addition uses memory
  again that the ring of two still points to.
* Answers: three waiting questions are the first length of list at which a
  callback in the middle can go.  Four characters make two words with one blank
  before, between or behind them, or two between.
* Presence: two nicks are one that the packet is about and one that it is not;
  add, remove, add is the shortest history with a former listing in flight, and
  three commands pass from any status over a second one to a third.
* Memory: the third area is the first that is used again after one was freed;
  four chunks are two requests at a time, or a request and a buffer being
  packed.
* Buffers: 0, 1, 2, 8 and 9 bytes are no text, the shortest, one that has a
  middle, and the two lengths around the first that a count cannot say.

Deadlock is checked in every run; where the system may rest, an explicit
stuttering action (`Finished`, `Idle`, `Done`, `Stop`, `Halt`) says so.

## 4. Fairness

* `Session` (`FairSpec`): weak fairness of the server's packets, of the timeout,
  and of the server's reads and sends.  The first two are event_dispatch, which
  serves every ready descriptor and every expired timer.  The last two assume a
  server that reads and answers until it is gone: there is no timeout on the C6
  socket, so without it nothing in the code would end the wait.  No fairness of
  the client, which may stay silent for ever.
* `Rooms`, `Answers`: weak fairness of the server's answer and of its reception.
  None of the client's requests, and none of the moves of others.
* The other modules have safety properties only.

## 5. Proofs

TLAPS checks these theorems for every value of the constants, from the named
assumptions of the modules (`SessionAssumption`, `LineAssumption`,
`PacketAssumption`, `BufferAssumption`, `BaseAssumption`, `PacketsAssumption`, `PresenceAssumption`, `OwnAssumption`,
`RoomsAssumption`, `HashAssumption`, `AnswersAssumption`, `AreaChunkAssumption`,
`AreasAssumption`, `MemoryAssumption`).  They give the constants their types;
besides, CR is no line end, a buffer has room for a header, a byte that nobody
wrote is told from those written, the two hashes of a name differ and the first
is not zero, room names are not empty, a channel that the client writes begins
with # and decodes into a room, an area of atoms has at least one, and addresses
are finitely many, those of different things different.  A byte has more than
four values (256 in the code; the constants of the formats are up to 4), and of
the exclusive or of two bytes it is enough that it is a byte and that doing it
twice undoes it, which `XorOf` is assumed to do; the run gives it the bits.
TLC evaluates each of them in a run.

| theorem | statement |
|---|---|
| `SessionProofs!TypeCorrect` | `Spec => []TypeOK` |
| `SessionProofs!GatesHold` | `Spec => []LoginGates` |
| `SessionProofs!CommandsInOrder` | `Spec => []ExecutedInOrder` |
| `SessionProofs!Refinement` | `Spec => ImplementsInOrderExec` |
| `SessionProofs!PacketsHaveTheKey` | `Spec => []PacketsKeyed` |
| `SessionProofs!CommandsWait` | `Spec => []CommandsAfterWelcome` |
| `SessionProofs!PacketsNumbered` | `Spec => []PacketIds` |
| `ArrivalProofs!LineTypeCorrect` | `LineSpec => []LineTypeOK` |
| `ArrivalProofs!NothingLostOrLeft` | `LineSpec => []BufferIsStream` |
| `ArrivalProofs!LineRefinement` | `LineSpec => ImplementsLineStream` |
| `ArrivalProofs!PacketTypeCorrect` | `PacketSpec => []PacketTypeOK` |
| `ArrivalProofs!PacketRefinement` | `PacketSpec => ImplementsPacketStream` |
| `ArrivalProofs!PacketsInOrder` | `PacketSpec => []PacketsAsSent` |
| `RoomsProofs!RoomsTyped` | `Spec => []TypeOK` |
| `RoomsProofs!RoomsPendingInOrder` | `Spec => []PendingInOrder` |
| `RoomsProofs!RoomsViewIsChans` | `Spec => []ViewIsChans` |
| `RoomsProofs!RoomsChansAreServersPast` | `Spec => []ChansAreServersPast` |
| `RoomsProofs!DecodeEncode` | a channel name decodes into the room it was made of |
| `PresenceProofs!TypeCorrect` | `ContactsSpec => []TypeOK` |
| `PresenceProofs!ChannelIsList` | `ContactsSpec => []ListedIsShown` |
| `PresenceProofs!ModesAreStatus` | `ContactsSpec => []ModesAddUp` |
| `PresenceProofs!StatusIsTold` | `ContactsSpec => []StatusIsServers` |
| `PresenceProofs!StatusIsOne` | `ContactsSpec => []OwnStatusAgrees` |
| `ArrivalProofs!ArgsAreWords` | `Args(str) = Words(str)` for every line |
| `ArrivalProofs!AnswersTyped` | `Spec => []TypeOK` |
| `ArrivalProofs!HandlersAreAwaited` | `Spec => []HandlersAwaited` |
| `ArrivalProofs!AnsweredWhenAlone` | `Spec => []AnsweredOneByOne` |
| `HashTableProofs!TableTyped` | `Spec => []TypeOK` |
| `HashTableProofs!TableTraversedOnce` | `Spec => []TraversalOnce` |
| `HashTableProofs!TableIsDictionary` | `Spec => ImplementsDictionary` |
| `MemoryProofs!MemoryTypes` | `MemorySpec => []MemoryTypeOK` |
| `MemoryProofs!HeldStaysMemory` | `MemorySpec => []HeldIsMemory` |
| `MemoryProofs!OneAreaSuffices` | `MemorySpec => []OneAreaIsEnough` |
| `MemoryProofs!NothingGetsLost` | `MemorySpec => []NothingLost` |
| `PacketsProofs!BufferRefinement` | `EditSpec => ImplementsByteString` |
| `PacketsProofs!PacketsTyped` | `Spec => []TypeOK` |
| `PacketsProofs!PacketsSurvive` | `Spec => []FieldsSurvive` |
| `PacketsProofs!CutPacketsRefused` | `Spec => []CutIsRefused` |
| `PacketsProofs!PacketBufferRefinement` | `Spec => ImplementsByteString` |
| `PacketsProofs!UnpackReadsPacked` | any bytes that agree with packed fields are read into those fields, or refused |
| `PacketsProofs!DigitsSayNumber` | the bytes of a number say it, modulo their width |
| `PacketsProofs!EncodeUndoesItself` | encoding twice gives back any bytes |

### Induction

The induction theorems of the library take an operator as a parameter, which the
provers cannot instantiate.  `SequenceFacts` has induction without one: a set of
numbers that holds zero, and with every number the next, holds all
(`SetInduction`, from the well-founded order on the naturals), and a proof
defines the set of numbers for which what it wants is true.  What a fold
computes is said step by step: for one operator there is a sequence of partial
results, each made of the one before by that operator (`FoldingExists` and
`FoldingSteps`, in the modules that need one), and `SetInduction` runs along it.
`FlattenSeq` is treated the same way once, in `SequenceFacts`,
and folds over finite sets in `MemoryProofs`, from an induction over their parts
(`SubsetInduction`).  That a recursive
function of the model, such as the reader of `Unpack`, satisfies its equation is
proved by the same induction: its beginnings exist at every length
(`UnpackIsDefined`).  Selection and
sorting of the community modules have no such form, so the models filter with
`FlattenSeq` and state order as a property of a list.

### Arguments

Session.  The theorems are about `Spec` and so about both kinds of server.
`TypeOK` is inductive, `LoginGates` is inductive given it, and `ExecutedInOrder`
given both: that a ready session keeps nothing holds because `READY` comes with
a completed login (`LoginGates`) and in the step that empties the list.  The
proofs have one lemma per kind of step (client lines, packets of the server,
moves of the server), and one for what `c6_send` writes (`WireType`,
`SendType`), which every step that writes uses.  In the refinement a kept line
is `Accept`, a line of a ready session is `Run`, the welcome is `Replay`, an end
in the middle of either is `End`, and every other step stutters.  `Run` needs
`pending = <<>>`, which is the second half of `ExecutedInOrder`.

Keys and the welcome.  Neither `PacketsKeyed` nor `CommandsAfterWelcome` says
what may still arrive, and both depend on it: a key that comes late, or a
welcome behind a redirect, would break them.  `Course` says it for every phase
of a polite server: what is written has the key the session holds, packets that
need a key arrive only while it is the server's, a welcome or a ping only from a
server that has welcomed the user, and a redirect is the last thing a server
says.  The last is why a command cannot slip to the next server.

Numbers.  `PacketIds` becomes inductive with two facts about the stream: no more
is in it than was sent, and nothing once the server is gone (`Numbered`).  What
the prover has to be told is the arithmetic of the width: a remainder is unique
(`OneRemainder`), so wrapping twice is wrapping once (`WrapAdd`).

Line framing.  That `sz` stays in its type needs `sz <= res`; that a read
continues where the last one stopped needs that the rest is at the front of the
buffer; and the rest is the scanned part only because the loop has looked at all
that is ahead.  The invariant is the conjunction of the type with the two parts
of `BufferIsStream` that say so (`AheadIsStream`, `RestIsPart`).  The proof has a
lemma for every action, on top of lemmas about slices of a sequence.  In the
refinement a byte that is no line end and a line end are `Take`, the end of the
scan is a stutter, or `Overflow` when the rest has filled the buffer, and a read
stutters: it takes nothing yet.

Packet framing.  The invariant adds to the types that what is kept between two
reads is neither garbage nor a packet (`RestWaits`) and that the loop works on no
more than the buffer holds (`FitsBuffer`).  The first is why a read may stutter:
what arrived with it could not have been taken before.  The abstract state is
the bytes of the buffer that the parser has not used, followed by the stream
that was not read.  `PacketsAsSent` needs what the cuts leave: the bytes of the
buffer that are not used, followed by those on the wire, are the packets that
were sent and not processed, one behind the other (`Order`), and where a
sequence of packets starts there is a header that says its length.

Rooms.  What `ChansAreServersPast` says of the last packet has to be carried
through all that are still on their way: applied one after the other they lead
from what the session holds to what the server has (`Leads`, a chain of states
with one packet between two).  A step of the server makes the chain longer at
its end, a packet taken shortens it at its front, and what the session makes of
a packet is what the chain says, because the name at the head of `proom` is that
of the request which the packet answers.  The latter is `Waits`: names that wait
are the requests in the streams, answers before requests.  `Past` and `Types`
complete the invariant.  The client comes in through `DecodeEncode`, which says
of the escapes that no name is lost in them, and so that two rooms never share a
channel: a digit of the escape stands for one character, and a character that
needs none is none of the escapes.

Presence.  `StatusIsServers` speaks of streams that are empty, so the invariant
has to say what they carry when they are not.  Who is off the list is taken off
at the server by a request that is still to be answered, if need be (`Leaving`);
who is on it stays watched, or is asked for (`Staying`).  For a watched nick,
what the session holds, carried packet by packet through what is on its way,
becomes what the server has (`Reaches`, `Agrees`, in `Course`), where a nick
comes only if it was gone and changes only if it was there (`Follows`).  That
last is also why modes add up, of which the invariant keeps the exact form
(`ModesExact`): `irc_out_user_online` gives an op without looking
at what was shown, and `irc_out_user_chg_status` takes one without knowing that
it was given.  A server that sent two "online" in a row would break it; none of
the histories of a patient client makes it do so.

Own status.  The theorems of this module are about `ContactsSpec`, where the list
and the user's own status share the streams.  A MODE is a fold over its letters,
and every letter keeps what is claimed: the packets of the step, told to the
server in order, end in the status that is held, and a mode that is set is one
that was shown (induction along the fold).  The rest is a chain again: the
status packets on their way, taken one after the other from what the server
knows, end in what is held.  An automatic answer is in the stream only behind
the packet that says busy, and none that says otherwise is before it.

Answers.  `ArgsAreWords` goes along the line: after a prefix both passes know
whether the last character was a blank, and the first has counted as many words
as the prefix begins, the second has cut off those that the prefix ends; the
words of the definition are found at the same characters (`Found`).  So the two
passes agree, which is what keeps `argv` inside what was allocated for it.
`HandlersAwaited` counts: what the callbacks of an event are still to be called
for, one behind the other, is no longer than what the server is still to answer,
since every line that connects a callback sends one question for each word and
a callback is connected for as many.  `AnsweredOneByOne` needs, until two
questions wait at a time, that the one that waits is the last that was asked and
has the one callback (`Alone`).

Hash table.  The invariant has three parts.  `Cells`: the second hash that an
entry keeps, in the table or freed, is zero or that of its name.  `Sorted`: every
entry of a list is in use and has the first hash of the list; in a list of two
or more its second hash was computed, and these are strictly ascending; the
count is the length.  `Ring`: a slot that is used points to some entry, freed or
not.  That is all that is needed, for the ring answers nothing: the code
compares the second hash that an entry keeps with the first hash of the name it
looks for, and these differ (`RingIsSilent`).  A search may stop early because
lists ascend, and an insertion keeps them so.  That there is an order of the
values (`Values`) is an induction over the size of a finite set; a traversal is
a bijection from its calls to the names.

Memory.  The invariant has two halves.  `AreasInv` says which areas exist in
each phase of a connection, below which, and exactly which chunks each lists
(`Layout`): the connection its own and those of the requests not answered, the
table's its areas of atoms, the event's what its handler was given.  The size of
an area is the sum of its list, so each call of `lib/area.c` is a fact about
lists that are apart from each other and about sums over finite sets
(`AllocLaid`, `FreeLaid`, `RelinkIs`, `DestroyLaid`); no tree of areas here is
more than three deep, which makes what lies below one a union of three sets
(`BelowIs`).  `ChunkInv` says of the atoms, up to the first access to freed
memory, that those below the index of an area are in use or free, not both, and
that the count is right (`Right`).  A call of `achunk_new` first runs the loop
of `ac_clean`, whose invariant is `Scanned`: an area that is not marked is as it
was; at most one marked area is used again; the atoms seen so far of marked
areas lead nowhere, and the others are kept, or about to be handed out.  After
the loop no area is marked and the counts are right for the atoms that are left
(`SweptIsRight`), so that one lemma for each way to hand out an atom, and one
for its return, remain.  While one area is enough the loop finds only that one,
and frees it never (`OneStep`); another is allocated only by who finds it full
with no atom free, which is to have nmemb atoms in use (`FullIsCrowded`).

Buffers.  The invariant is that the memory of a buffer is no more and no less
than its bytes: the chunk of a live buffer is some text, and every byte of it
was written.  It is what makes an edit a function of the text, for `Junk` that
an edit leaves would be in the result of a later one.  The proof takes each loop
of the code as one fact about a sequence (what was opened, filled, joined) and
each call as such facts one after the other.

The codec.  Packing is a concatenation of what the directives give and unpacking
a loop over them, so the proof goes along the fields: the bytes of a list are
those of its beginning and those of its last field (`PackedAppend`), and a read
of the list is a read of the beginning and then of the field's one or two
directives (`UnpackAppend`).  What has to be said of the data is not that it is
the packed bytes, for it may be cut and more may follow, but that it agrees with
them as far as it goes (`Agrees`); then each field is either stored as it was
said or there are too few bytes (`FieldRead`).  The second directive of a counted
field takes the size that the first left, which is where a count of nothing and
one that is too small for its text come in (`Countable`), and why `CutIsRefused`
needs the fields that compare before they read (`Compared`): no `%Z`, no constant
and no number without a size.  The same along the
groups (`GroupRead`, `SoFarAgrees`) gives what a handler reads call by call.
That what two bytes say is the remainder of a length (`DigitsSayNumber`) is the
arithmetic of quotients; that the encoding undoes itself is one fact for each
byte, for both directions use the same byte of the key at the same place.

Packets.  Neither property is inductive: `FieldsSurvive` says nothing of the
buffer while it grows, nor of what is still to be read.  `PacketInv` ties all of
it to the groups the packet is made of.  While it is built, the buffer is exact
(as above) and its text is the groups so far, behind their head for a request,
and without the count for a search, which is put before them only at the end
(`Made`, `Wrapped`); when it is sent, what is behind the outer head decodes to
the completed text (`SentOff`).  While it is read, the bytes that arrived are the
beginning of all the groups, the offset is the length of those that were read,
and what was stored of each is what was said (`Hearing`, `Heard`), if the texts
can be counted; if every directive is compared, the offset is never behind what
arrived.  Each action keeps it by one lemma; every one that changes the buffer
is at the same time the step of `ByteString` its call means (`BufferStep`),
which is the refinement.  What is said holds for any number of groups: the lists
of names that `cmd_snd_users`, `cmd_roomlist` or `cmd_foundnicks` read in a loop
may have any length.

### Only model-checked

Liveness under fairness (`LoginDecided`, `KeptIsServed`, `RequestsSettle`,
`CallbacksFire`) is out of the prover's reach; TLC checks it.  Every invariant
and every refinement that a passing run checks is stated by a theorem.  That the
exclusive or of the run is the one on bits is `Bitwise` of the community modules
and not proved: the proofs use of it what `PacketsAssumption` says.

## 6. Divergences

Three runs end in a violation of what a document says.

* `session_list`: LIST before the HELO is encoded with the zeroed key
  (`irc/comandi.c:649`), against `doc/protocollo-c6.txt:929`.
* `rooms_told`: the answer to a JOIN of a room that does not exist is emitted as
  "gui room not exist" (`c6/server.c:587`) and registered as "gui room notexist"
  (`irc/irc.c:135`), so the client hears nothing, against `LEGGIMI:106`.
* `answers_two`: `WHOIS a b` never shows b (`lib/signals.c:515`), against
  `LEGGIMI:87`.

Others met on the way are in the models, without a run of their own:

* The modes in `&irC6`.  `LEGGIMI:75-76` has op for the user alone, half-op for
  who is online and voice for who is offline; the code gives who goes online `+o`
  and leaves the voice (`irc/output.c:251`).  `ModesAddUp` says nothing of which of
  op and half-op an available nick has, nor of the voice of who is online.
  Besides, joining `&irC6` again names online nicks with half-op
  (`irc/console.c:121`), and what goes when they leave is an op; a change of
  status gives an ignored nick a mode (`irc/output.c:303`).  `ModesAddUp` is
  claimed without these two (`plain`).
* A nick removed and added again while packets of its former listing are on
  their way is shown by those packets; `ModesAddUp` and `StatusIsServers` are
  claimed for a client that waits (`patient`).
* `c_unignore` goes on with a pointer that was never set for a nick that is not
  listed (`irc/console.c:204`): the program may end, or another nick be changed.
* `crea_stanza` may be answered by a user list, which takes a name off `proom`
  that waits for another answer; `PendingInOrder` and `ChansAreServersPast` are
  claimed up to that (`unasked`).
* Once a chunk has needed a second area, `ac_clean` can free the area that `cur`
  points to, and reads the link of atoms in areas it has freed
  (`lib/area_chunk.c:171`, `:192`); where `cur` has room, an area found for use
  again is never used and never freed before the table is (`:216`).  The model
  stops at the access; `OneAreaIsEnough` says when it cannot happen.
* `MODE +n` ends busy without taking `+a` back from the client's user modes, so
  that modes may be shown which are not set; `OwnStatusAgrees` claims the other
  direction only.
* A new text of away does not free the old one (`irc/status.c:51`), which stays in
  the area of the session to its end.
* Two users who are away answer each other for as long as both are
  (`irc/output.c:204`): an answer is a message like any other.
* A counted text of no bytes is read as the text that follows it, up to a zero
  (`lib/buffer.c:678`), and so is one as long as its count has values, which is
  counted as none (`c6/client.c:139`); `FieldsSurvive` is about texts between.
* `%Z`, a constant and `%u` of a format are read before they are compared with
  the length (`lib/buffer.c:809`): a packet that ends just before them is read a
  field too far, which is the outcome `past` of `Packets` (USERINFO by `%^u`,
  `c6/server.c:365`).  `CutIsRefused` leaves such packets out (`Compared`).
* `buf_copy` from a place behind the end of its source clears as many bytes in
  front of its target (`lib/buffer.c:195`), which `Missing` of `ByteString` says.
  The model leaves out the calls whose clearing would reach the header of the
  chunk; the program makes none of either kind.
* A refused entry of the hash table is lost with its `hash_t`
  (`AddNext` of `HashTable`), which only memory notices.
* A nick that NICKS does not list leaves a NULL password, of which `c6_login`
  takes the length: an exit of the process in `RecvNicks`.
* `LEGGIMI:86` names the option `-Q`, and `main.c:196` handles it, but the
  string of options at `main.c:173` lacks it.

## 7. Not modelled

* Several sessions in one process.  They share the event loop, the signal
  instance `ev_root` with the handlers of start-up, and the exit; every session
  has its own area, tables and child instance.  `exit_program` is modelled for
  the session at hand.
* Blocking.  `connect_addr` connects and `resolv` resolves inside the event
  loop, `atomicio` turns on `EAGAIN` until the peer reads (`socket.c:190`), and a
  C6 server that accepts and says nothing keeps its user waiting for ever, for
  that socket has no timeout (`c6/c6.c:78`).  A model of one session cannot tell
  the first two, and `Session` assumes of the server what the third denies.
* `irc/searchusr.c`, `c6/userinfo.c`: look-ups in tables generated from a data
  file; little state.
* The blowfish and md5 of the login in `c6/codifica.c`, and `missing/`:
  arithmetic and libc functions.
* `main.c` before the event loop, `socket.c`, `irc/dump.c`, `error.h`, `irc/msg.h`,
  `tool/`, `debian/`: sequential start-up, system calls, texts, logging, code
  generation, packaging.
* The red-black tree of `sys/tree.h` and the lists of `sys/queue.h`: functions
  and sequences in the models.
* Of the modelled components: the list of rooms, invitations and what the client
  says itself, which are one packet each and no state; the list of nicks as the
  user reads it; priorities, disconnection by name and trees of instances of the
  signals; `%n` and sizes of directives that no format has.

Further hazards, in what the models abstract from and PROJECT.json leaves out
for it: `memcpy` over itself (`c6/c6.c:221`), where the models take the
upward copy; a decoded room name with neither # nor escape, which is written one
byte behind its chunk (`irc/room.c:82`); names compared with `strstr` where the
whole name is meant (`irc/comandi.c:187`, `irc/console.c:300`); a packet length
that wraps below zero for a short packet (`c6/server.c:838`); the address of the
client cut to sixteen bits (`c6/client.c:83`).

## 8. Plan

Done, in this order: `Session` with `InOrderExec`, the two framings, `Rooms`,
`HashTable`, `Answers`, `Presence`, `AreaChunk`; then `OwnStatus` and `Contacts`,
`RoomNames`, `ArgsSep`, `Areas` and `Memory`, `Buffer` with `ByteString`,
`PackCodec` and `Packets`; the proofs of 5.

Next, models:

1. Two sessions that share the process: exit, `ev_root`, and a blocking write of
   one while the other waits.
2. The list of rooms and the search of users, as far as they keep state.
3. `atomicio` and its turns, as a peer that does not read.

Next, proofs:

1. Texts that cannot be counted: which of the fields behind them are read, and
   as what.
2. The modules of the plan above, as they come.
