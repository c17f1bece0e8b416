------------------------------- MODULE Buffer -------------------------------
(***************************************************************************)
(* lib/buffer.c: a buffer is a chunk of memory of its own and a size; every *)
(* edit makes the chunk grow, moves what is in the way and copies or zeroes *)
(* the rest, byte by byte.  Memory that was allocated and not written yet  *)
(* holds Junk.                                                             *)
(*                                                                         *)
(* Abstracted: the area the chunk belongs to (Areas), and the end of       *)
(* memory, which ends the program in the error function of the area.       *)
(***************************************************************************)
EXTENDS Integers, Sequences

CONSTANTS
    Byte,       \* the values of a byte
    Junk,       \* what nobody wrote
    Sources,    \* the strings edits take bytes from: data or another buffer
    MaxBuffer   \* bound: no buffer grows beyond it

ASSUME BufferAssumption ==
    /\ 0 \in Byte /\ Byte \subseteq Nat
    /\ Junk \in Nat \ Byte
    /\ Sources \subseteq Seq(Byte)
    /\ MaxBuffer \in Nat

VARIABLES
    buf,        \* [mem: the chunk behind the header, size: bytes in use]
    live,       \* whether the pointer to it is not NULL
    call        \* history: the last call and its arguments

bufVars == <<buf, live, call>>

Memory == Seq(Byte \cup {Junk})

Lengths == 0..MaxBuffer

Larger(m, n) == IF m < n THEN n ELSE m

-----------------------------------------------------------------------------
(* Memory.  Copies may overlap only in Move, which is memmove.             *)
Alloc(n) == [i \in 1..n |-> Junk]

Within(i, offs, n) == offs < i /\ i <= offs + n

Copy(mem, offs, src, soffs, n) ==
    [i \in DOMAIN mem |->
        IF Within(i, offs, n) THEN src[soffs + (i - offs)] ELSE mem[i]]

Move(mem, offs, by, n) ==
    [i \in DOMAIN mem |->
        IF Within(i, offs + by, n) THEN mem[i - by] ELSE mem[i]]

Zero(mem, offs, n) ==
    [i \in DOMAIN mem |-> IF Within(i, offs, n) THEN 0 ELSE mem[i]]

(* a_expand never shrinks and leaves what it adds unwritten.               *)
Expand(mem, n) ==
    [i \in 1..Larger(Len(mem), n) |-> IF i <= Len(mem) THEN mem[i] ELSE Junk]

(* Defect: a_realloc in the place of a_realloc0. *)
ResizeUnwritten(mem, n) ==
    [i \in 1..n |-> IF i <= Len(mem) THEN mem[i] ELSE Junk]

(* a_realloc0 takes any size and zeroes what it adds.                      *)
Resize(mem, n) == [i \in 1..n |-> IF i <= Len(mem) THEN mem[i] ELSE 0]

-----------------------------------------------------------------------------
Buf(mem, size) == [mem |-> mem, size |-> size]

Called(op, s, at, skip, n) ==
    call' = [op |-> op, arg |-> s, at |-> at, skip |-> skip, len |-> n]

NewOf(s) == Buf(Copy(Alloc(Len(s)), 0, s, 0, Len(s)), Len(s))

ZeroOf(n) == Buf([i \in 1..n |-> 0], n)

DupSize(s, n) ==
    IF Len(s) < n
      THEN Buf(Zero(Copy(Alloc(n), 0, s, 0, Len(s)), Len(s), n - Len(s)), n)
      ELSE Buf(Copy(Alloc(n), 0, s, 0, n), n)

(* The bytes of s go behind the text, whatever size the caller names.      *)
Appended(b, s) ==
    Buf(Copy(Expand(b.mem, b.size + Len(s)), b.size, s, 0, Len(s)),
        b.size + Len(s))

(* The size grows first and, where the text ends before toffs, the gap is  *)
(* zeroed; then the bytes of s from foffs on, zeroes after its end.  Where *)
(* s ends before foffs, avail is negative: nothing is copied, and what is  *)
(* zeroed begins in front of toffs.                                        *)
Overwritten(b, s, toffs, foffs, n) ==
    LET more  == b.size < toffs + n
        mem   == IF ~more THEN b.mem
                 ELSE Zero(Expand(b.mem, toffs + n), b.size,
                           Larger(toffs, b.size) - b.size)
        avail == Len(s) - foffs
    IN  Buf(IF avail < n
              THEN Zero(Copy(mem, toffs, s, foffs, avail), toffs + avail, n - avail)
              ELSE Copy(mem, toffs, s, foffs, n),
            IF more THEN toffs + n ELSE b.size)

(* Defect: the gap between the end of the text and pos is not zeroed. *)
InsertedNoGap(b, s, pos, n) ==
    LET size == Larger(pos, b.size) + n
        moved == Move(Expand(b.mem, size), pos, n,
                      IF b.size > pos THEN b.size - pos ELSE 0)
        part == IF Len(s) < n THEN Len(s) ELSE n
    IN  Buf(Zero(Copy(moved, pos, s, 0, part), pos + Len(s),
                 Larger(n, Len(s)) - Len(s)), size)

Inserted(b, s, pos, n) ==
    LET size  == Larger(pos, b.size) + n
        moved == Move(Expand(b.mem, size), pos, n,
                      IF b.size > pos THEN b.size - pos ELSE 0)
        part  == IF Len(s) < n THEN Len(s) ELSE n
        put   == Copy(moved, pos, s, 0, part)
        gap   == Zero(put, b.size, Larger(pos, b.size) - b.size)
    IN  Buf(Zero(gap, pos + Len(s), Larger(n, Len(s)) - Len(s)), size)

-----------------------------------------------------------------------------
Init ==
    /\ buf = Buf(<< >>, 0)
    /\ live = FALSE
    /\ call = [op |-> "free", arg |-> << >>, at |-> 0, skip |-> 0, len |-> 0]

(* buf_new with data; of NULL data, zeroes; and buf_new_dummy, of size 0.  *)
New(s) ==
    /\ buf' = NewOf(s)
    /\ live' = TRUE
    /\ Called("new", s, 0, 0, Len(s))

NewZeroed(n) ==
    /\ buf' = ZeroOf(n)
    /\ live' = TRUE
    /\ Called("new", << >>, 0, 0, n)

(* buf_free also sets the caller's pointer to NULL.                        *)
Free ==
    /\ live
    /\ buf' = Buf(<< >>, 0)
    /\ live' = FALSE
    /\ Called("free", << >>, 0, 0, 0)

(* On a NULL pointer buf_realloc does nothing.                             *)
Realloc(n) ==
    /\ live
    /\ buf' = Buf(Resize(buf.mem, n), n)
    /\ UNCHANGED live
    /\ Called("resize", << >>, 0, 0, n)

(* The caller goes on with the copy.                                       *)
Dup ==
    /\ live
    /\ buf' = Buf(Copy(Alloc(buf.size), 0, buf.mem, 0, buf.size), buf.size)
    /\ UNCHANGED live
    /\ Called("same", << >>, 0, 0, 0)

AppendSize(s, n) ==
    /\ live' = TRUE
    /\ IF live
         THEN /\ buf.size + Len(s) <= MaxBuffer
              /\ buf' = Appended(buf, s)
              /\ Called("append", s, 0, 0, n)
         ELSE /\ buf' = DupSize(s, n)
              /\ Called("new", s, 0, 0, n)

(* buf_copy, as long as what it zeroes is in the chunk: with foffs further *)
(* behind the end of s than toffs is in the text it zeroes its own header. *)
Overwrite(s, toffs, foffs, n) ==
    /\ foffs <= Len(s) + toffs
    /\ toffs + n <= MaxBuffer
    /\ buf' = IF live THEN Overwritten(buf, s, toffs, foffs, n)
              ELSE Overwritten(ZeroOf(n + toffs), s, toffs, foffs, n)
    /\ live' = TRUE
    /\ Called("put", s, toffs, foffs, n)

InsertSize(s, pos, n) ==
    /\ Larger(pos, buf.size) + n <= MaxBuffer
    /\ buf' = IF live THEN Inserted(buf, s, pos, n)
              ELSE Overwritten(ZeroOf(n + pos), s, pos, 0, n)
    /\ live' = TRUE
    /\ Called("insert", s, pos, 0, n)

Edit ==
    \/ \E s \in Sources : New(s)
    \/ \E n \in Lengths : NewZeroed(n)
    \/ Free
    \/ \E n \in Lengths : Realloc(n)
    \/ Dup
    \/ \E s \in Sources, n \in Lengths : AppendSize(s, n)
    \/ \E s \in Sources, toffs, foffs, n \in Lengths : Overwrite(s, toffs, foffs, n)
    \/ \E s \in Sources, pos, n \in Lengths : InsertSize(s, pos, n)

EditSpec == Init /\ [][Edit]_bufVars

-----------------------------------------------------------------------------
(* The type invariant: no byte that a caller can read was never written.   *)
BufferOK ==
    /\ buf \in [mem : Memory, size : Nat]
    /\ live \in BOOLEAN
    /\ buf.size <= Len(buf.mem)
    /\ \A i \in 1..buf.size : buf.mem[i] # Junk

Text(b) == SubSeq(b.mem, 1, b.size)

BS == INSTANCE ByteString WITH text <- Text(buf)

(* Every call does to the bytes exactly what it says: what is appended,    *)
(* inserted or laid over the text stands where it was asked, the rest of   *)
(* the text is kept, whatever the chunk and the order of the copies were,  *)
(* and what nobody gave is zero and never what the memory held before.     *)
ImplementsByteString == BS!Spec
=============================================================================
