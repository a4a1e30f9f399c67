----------------------------- MODULE CycBufOps -----------------------------
(***************************************************************************)
(* The cyclic buffer cycbuf<size> as operators on a record [head, tail,    *)
(* buf]: mpHead, mpTail and mBuf.  A pointer into mBuf is its offset from  *)
(* mpStart, so mpStart is 0 and mpEnd is End.  The cell under mpTail and   *)
(* the cell at mpEnd never hold data (cycbuf.h, "Rules").                  *)
(* Every operator is the effect of one method; a method that hands out a   *)
(* pointer is given by the buffer it leaves and the region it returns.     *)
(***************************************************************************)
EXTENDS Naturals, Sequences

CONSTANTS
    Size,       \* the template parameter: 16 .. 131072 in cycsiz
    Byte        \* the byte values the model tells apart

\* Two usable cells are needed for the empty buffer to have room wherever
\* its head stopped; the smallest instantiation (tiny) has 16.
ASSUME SizeAssumption == Size \in Nat /\ Size >= 3
\* Cells are cleared to zero.
ASSUME ByteAssumption == 0 \in Byte

End == Size - 1
Cell == 0 .. End
CycBufs == [head : Cell, tail : Cell, buf : [Cell -> Byte]]

\* helpers.h: the macro min.
Least(x, y) == IF x <= y THEN x ELSE y

\* The constructor and reset(); the copy constructor makes one of these too.
Cleared == [head |-> 0, tail |-> 0, buf |-> [p \in Cell |-> 0]]

-----------------------------------------------------------------------------
\* Status checks.

IsEmpty(c) == c.head = c.tail \/ (c.head >= End /\ c.tail = 0)
\* Mutant: a buffer filled from its start to its end is not seen as full.
IsFullNoWrap(c) == c.tail + 1 = c.head

IsFull(c) == (c.head = 0 /\ c.tail >= End) \/ c.tail + 1 = c.head

\* Mutants: the pointer at the end of the buffer is not brought back.
ReadReadyStuck(c) == c
WriteReadyStuck(c) == c

\* The buffer isReadReady() leaves: a head that reached the end restarts.
ReadReady(c) ==
    IF ~IsEmpty(c) /\ c.head >= End THEN [c EXCEPT !.head = 0] ELSE c

\* The buffer isWriteReady() leaves.
WriteReady(c) ==
    IF ~IsFull(c) /\ c.tail >= End THEN [c EXCEPT !.tail = 0] ELSE c

\* The contiguous bytes after the head, and the contiguous room at the tail,
\* of a buffer that has been made ready.
ReadAvail(c) == IF c.head > c.tail THEN End - c.head ELSE c.tail - c.head
\* Mutants: the writer may use the cell at mpEnd; the head is not looked at.
WriteAvailToEnd(c) == IF c.head > c.tail THEN c.head - (c.tail + 1) ELSE Size - c.tail
WriteAvailPastHead(c) == End - c.tail
WriteAvail(c) == IF c.head > c.tail THEN c.head - (c.tail + 1) ELSE End - c.tail

-----------------------------------------------------------------------------
\* Memory.

\* memset(p, 0, n) and memcpy into the buffer at offset at.
Wipe(buf, at, n) ==
    [p \in Cell |-> IF p >= at /\ p < at + n THEN 0 ELSE buf[p]]
Place(buf, at, bs) ==
    [p \in Cell |-> IF p >= at /\ p < at + Len(bs) THEN bs[p - at + 1] ELSE buf[p]]
Region(c, at, n) == [i \in 1 .. n |-> c.buf[at + i - 1]]

\* A pointer with the number of bytes behind it; NoRegion is nullptr.
NoRegion == [at |-> 0, n |-> 0, ok |-> FALSE]
RegionAt(p, k) == [at |-> p, n |-> k, ok |-> TRUE]

-----------------------------------------------------------------------------
\* Direct access.

ReadHeadRegion(c) ==
    IF IsEmpty(c) THEN NoRegion
    ELSE RegionAt(ReadReady(c).head, ReadAvail(ReadReady(c)))

WriteTailRegion(c) ==
    IF IsFull(c) THEN NoRegion
    ELSE RegionAt(WriteReady(c).tail, WriteAvail(WriteReady(c)))

\* Mutant: the consumed bytes are not cleared.
AfterPushReadHeadDirty(c, s) ==
    LET r == ReadReady(c)
    IN  IF IsEmpty(c) THEN c
        ELSE [r EXCEPT !.head = r.head + Least(s, ReadAvail(r))]

AfterPushReadHead(c, s) ==
    LET r == ReadReady(c)
        dispose == Least(s, ReadAvail(r))
    IN  IF IsEmpty(c) THEN c
        ELSE [head |-> r.head + dispose, tail |-> r.tail,
              buf |-> Wipe(r.buf, r.head, dispose)]

AfterPushWriteTail(c, s) ==
    LET w == WriteReady(c)
    IN  IF IsFull(c) THEN c
        ELSE [w EXCEPT !.tail = w.tail + Least(s, WriteAvail(w))]

-----------------------------------------------------------------------------
\* Copying.  readcopy and writecopy handle one contiguous chunk and call
\* themselves for what remains.  A chunk clears and moves exactly as the
\* push functions do.  Two calls always finish the copy: the third returns
\* at its first line (TwoCallsSuffice in CycBuf).

ReadChunk(c, s) == Least(s, ReadHeadRegion(c).n)
ReadChunkBytes(c, s) == Region(c, ReadHeadRegion(c).at, ReadChunk(c, s))

\* Mutant: readcopy stops at the end of the buffer.
ReadCopyOnce(c, s) ==
    [buf |-> AfterPushReadHead(c, s), bytes |-> ReadChunkBytes(c, s)]

ReadCopy(c, s) ==
    LET c1 == AfterPushReadHead(c, s)
        rest == s - ReadChunk(c, s)
    IN  IF rest = 0 THEN [buf |-> c1, bytes |-> ReadChunkBytes(c, s)]
        ELSE [buf |-> AfterPushReadHead(c1, rest),
              bytes |-> ReadChunkBytes(c, s) \o ReadChunkBytes(c1, rest)]

WriteChunk(c, bs) == Least(Len(bs), WriteTailRegion(c).n)
AfterWriteChunk(c, bs) ==
    LET w == WriteReady(c)
        k == WriteChunk(c, bs)
    IN  IF IsFull(c) THEN c
        ELSE [head |-> w.head, tail |-> w.tail + k,
              buf |-> Place(w.buf, w.tail, SubSeq(bs, 1, k))]

\* Mutant: the second chunk is copied from the beginning of the block.
WriteCopyNoAdvance(c, bs) ==
    LET k1 == WriteChunk(c, bs)
        c1 == AfterWriteChunk(c, bs)
        rest == SubSeq(bs, 1, Len(bs) - k1)
    IN  IF rest = << >> THEN [buf |-> c1, n |-> k1]
        ELSE [buf |-> AfterWriteChunk(c1, rest), n |-> k1 + WriteChunk(c1, rest)]

WriteCopy(c, bs) ==
    LET k1 == WriteChunk(c, bs)
        c1 == AfterWriteChunk(c, bs)
        rest == SubSeq(bs, k1 + 1, Len(bs))
    IN  IF rest = << >> THEN [buf |-> c1, n |-> k1]
        ELSE [buf |-> AfterWriteChunk(c1, rest), n |-> k1 + WriteChunk(c1, rest)]

-----------------------------------------------------------------------------
\* What the buffer holds: Count bytes from the head onwards, the cell at End
\* skipped.

Count(c) == IF c.head <= c.tail THEN c.tail - c.head ELSE End - c.head + c.tail
Slot(p) == IF p >= End THEN p - End ELSE p
Contents(c) == [i \in 1 .. Count(c) |-> c.buf[Slot(c.head + i - 1)]]
DataCells(c) == {Slot(c.head + i - 1) : i \in 1 .. Count(c)}
=============================================================================
