------------------------------- MODULE Memory -------------------------------
(***************************************************************************)
(* The memory of a connection: its area below the root, the area of its    *)
(* table of nicks with the chunks atoms are cut from (AreaChunk), and the  *)
(* area of the event that is being handled, which is destroyed when the    *)
(* handler returns.  What must outlive an event lies in the area of the    *)
(* connection: of what the handlers keep there, the requests for rooms     *)
(* (c6_t.proom) are modelled, whose room moves to the event when it is     *)
(* answered.  A connection that is closed in the middle of an event takes  *)
(* all of it along; the handler never returns (longjmp).                   *)
(*                                                                         *)
(* The table is one chunk of structures and one achunk_t; the connection   *)
(* and its other members are one chunk.                                    *)
(***************************************************************************)
EXTENDS AreaChunk, Areas

CONSTANTS
  Piece,      \* addresses of chunks other than the areas of atoms
  MaxRooms    \* bound: requests not answered

VARIABLES
  phase,      \* "idle", "event", "closed" or "exited"
  proom,      \* requests: the chunk of each and the chunk of its room
  atmp        \* history: chunks the handler was given in the area of its event

memoryVars == <<chunkVars, areaVars, phase, proom, atmp>>

Nodes == {"root", "conn", "nicks", "event", "pack"}

ASSUME MemoryAssumption ==
  /\ Nodes \subseteq Node /\ IsFiniteSet(Node)
  /\ Block = Area \cup Piece \cup {"c", "table"} /\ IsFiniteSet(Block)
  /\ Area \cap Piece = {} /\ {"c", "table"} \cap (Area \cup Piece) = {}
  /\ MaxRooms \in Nat

AtomBytes == 2

AreaBytes == 1 + nmemb * AtomBytes

-----------------------------------------------------------------------------
(* irC6_new_connection: connection and table, whose first area of atoms is *)
(* at a.                                                                   *)
NewTable(s, a) == AllocIn(AllocIn(s, "nicks", "table", 1), "nicks", a, AreaBytes)

WithConnection(s, a) ==
  NewTable(WithNode(AllocIn(WithNode(s, "root", "conn"), "conn", "c", 3), "conn", "nicks"), a)

MemoryInit ==
  /\ ChunkInit
  /\ LET root == [areas |-> [x \in {"root"} |-> NewNode(None)], size |-> << >>]
         s    == WithConnection(root, cur)
     IN  areas = s.areas /\ size = s.size
  /\ phase = "idle"
  /\ proom = << >>
  /\ atmp = {}

NewConnection ==
  /\ phase = "closed"
  /\ \E a \in Area :
       /\ Becomes(WithConnection(Now, a))
       /\ cur' = a
       /\ tree' = [x \in {a} |-> NewArea]
  /\ phase' = "idle"
  /\ UNCHANGED <<free_atoms, held, crowded, wild, proom, atmp>>

(* irC6_callback_start and irC6_callback_end *)
StartEvent ==
  /\ phase = "idle"
  /\ Becomes(WithNode(Now, "conn", "event"))
  /\ phase' = "event"
  /\ UNCHANGED <<chunkVars, proom, atmp>>

EndEvent ==
  /\ phase = "event"
  /\ Becomes(Destroyed(Now, "event"))
  /\ phase' = "idle"
  /\ atmp' = {}
  /\ UNCHANGED <<chunkVars, proom>>

(* A nick enters or leaves the table: the areas of atoms come and go in    *)
(* the area of the table.                                                  *)
TableStep ==
  /\ phase = "event"
  /\ NewAtom \/ DelAtom
  /\ LET gone  == DOMAIN tree \ DOMAIN tree'
         fresh == DOMAIN tree' \ DOMAIN tree
         freed == FoldSet(LAMBDA a, s : FreeIn(s, "nicks", a), Now, gone)
     IN  Becomes(FoldSet(LAMBDA a, s : AllocIn(s, "nicks", a, AreaBytes), freed, fresh))
  /\ UNCHANGED <<phase, proom, atmp>>

(* room_leave_enter *)
AskForRoom ==
  /\ phase = "event"
  /\ Len(proom) < MaxRooms
  /\ \E pre, room \in Piece \ DOMAIN size :
       /\ pre # room
       /\ Becomes(AllocIn(AllocIn(Now, "conn", pre, 2), "conn", room, 1))
       /\ proom' = Append(proom, [pre |-> pre, room |-> room])
  /\ UNCHANGED <<chunkVars, phase, atmp>>

(* _get_last_room *)
GetLastRoom ==
  /\ phase = "event"
  /\ proom # << >>
  /\ LET p == Head(proom) IN
       /\ Becomes(Relink(FreeIn(Now, "conn", p.pre), "conn", "event", p.room))
       /\ atmp' = atmp \cup {p.room}
  /\ proom' = Tail(proom)
  /\ UNCHANGED <<chunkVars, phase>>

(* buf_new_pack: its queue has an area of its own, the buffer the event's. *)
PackBuffer ==
  /\ phase = "event"
  /\ \E q, b \in Piece \ DOMAIN size :
       /\ q # b
       /\ LET queue == AllocIn(WithNode(Now, "event", "pack"), "pack", q, 1)
          IN  Becomes(Destroyed(AllocIn(queue, "event", b, 1), "pack"))
       /\ atmp' = atmp \cup {b}
  /\ UNCHANGED <<chunkVars, phase, proom>>

(* buf_realloc in c6_send and cmd_message: the buffer may move.            *)
GrowBuffer ==
  /\ phase = "event"
  /\ \E b \in atmp, c \in Piece :
       /\ size[b] = 1
       /\ c = b \/ c \notin DOMAIN size
       /\ Becomes(ReallocIn(Now, "event", b, c, 2))
       /\ atmp' = (atmp \ {b}) \cup {c}
  /\ UNCHANGED <<chunkVars, phase, proom>>

NoTable ==
  /\ tree' = << >>
  /\ free_atoms' = << >>
  /\ held' = {}
  /\ crowded' = FALSE
  /\ UNCHANGED <<cur, wild>>

(* irC6_close_connection, always out of an event.                          *)
CloseConnection ==
  /\ phase = "event"
  /\ ~wild
  /\ Becomes(Destroyed(Now, "conn"))
  /\ NoTable
  /\ phase' = "closed"
  /\ proom' = << >>
  /\ atmp' = {}

(* exit_program, called or run by a signal.                                *)
ExitProgram ==
  /\ phase # "exited"
  /\ ~wild
  /\ Becomes(Destroyed(Now, "root"))
  /\ NoTable
  /\ phase' = "exited"
  /\ proom' = << >>
  /\ atmp' = {}

(* The end, or an access to freed memory.                                  *)
Halt ==
  /\ phase = "exited" \/ wild
  /\ UNCHANGED memoryVars

MemoryNext ==
  \/ NewConnection \/ CloseConnection \/ ExitProgram
  \/ StartEvent \/ EndEvent
  \/ TableStep \/ AskForRoom \/ GetLastRoom \/ PackBuffer \/ GrowBuffer
  \/ Halt

MemorySpec == MemoryInit /\ [][MemoryNext]_memoryVars

-----------------------------------------------------------------------------
(* Every variable has its type. *)
MemoryTypeOK ==
  /\ ChunkTypeOK
  /\ DOMAIN areas \subseteq Nodes
  /\ \A a \in DOMAIN areas : areas[a].parent \in DOMAIN areas \cup {None}
  /\ DOMAIN size \subseteq Block /\ \A b \in DOMAIN size : size[b] > 0
  /\ phase \in {"idle", "event", "closed", "exited"}
  /\ Len(proom) <= MaxRooms

(* An atom in use is memory twice over: below the index of an area of      *)
(* atoms that is counted right (AreaChunk), and that area is a chunk which *)
(* the area of the table still lists.                                      *)
HeldIsMemory ==
  ~wild =>
    /\ HeldIsSafe
    /\ CountsAreRight
    /\ DOMAIN tree = IF phase \in {"idle", "event"}
                     THEN areas["nicks"].list \ {"table"} ELSE {}

(* Nothing is lost and nothing is freed too early: every chunk is in the   *)
(* list of one area and counted there; what the connection keeps across    *)
(* events lies in its area, and what is in an area is what somebody still  *)
(* uses, so that an event leaves nothing behind; without a connection      *)
(* nothing is left (area_destroy, area_relink, _get_last_room).            *)
NothingLost ==
  ~wild =>
    /\ Accounted
    /\ phase = "exited" => areas = << >>
    /\ phase = "closed" => DOMAIN areas = {"root"} /\ AreaSize("root") = 0
    /\ phase \in {"idle", "event"} =>
         /\ areas["conn"].list =
              {"c"} \cup UNION {{proom[i].pre, proom[i].room} : i \in DOMAIN proom}
         /\ "event" \in DOMAIN areas <=> phase = "event"
    /\ phase = "event" => areas["event"].list = atmp
=============================================================================
