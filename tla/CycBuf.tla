------------------------------- MODULE CycBuf -------------------------------
(***************************************************************************)
(* One cyclic buffer and its two users, a producer and a consumer, each    *)
(* either copying (writecopy, readcopy) or working in place (getWriteTail  *)
(* .. pushWriteTail, getReadHead .. pushReadHead).  In-place users keep a  *)
(* pointer into the buffer between two calls, while the other side goes on *)
(* calling: netdataraw::recv() and the application's callback do this to   *)
(* mRecvBuf, the application and netdataraw::send() to mSendBuf.           *)
(*                                                                         *)
(* c    the buffer                                                         *)
(* rd   the region the consumer got from getReadHead and still holds       *)
(* wr   the region the producer got from getWriteTail and still holds      *)
(* fill the bytes the producer has put there and not yet pushed            *)
(* out  what the last call moved, as its caller saw it                     *)
(***************************************************************************)
EXTENDS CycBufOps

CONSTANT MaxRequest     \* the longest block one call asks to move

ASSUME MaxRequestAssumption == MaxRequest \in Nat

VARIABLES c, rd, wr, fill, out

vars == <<c, rd, wr, fill, out>>

Blocks == UNION {[1 .. n -> Byte] : n \in 0 .. MaxRequest}

Fifo == INSTANCE ByteFifo WITH q <- Contents(c), Capacity <- End

Regions == [at : Cell, n : 0 .. End, ok : BOOLEAN]

Init ==
    /\ c = Cleared
    /\ rd = NoRegion
    /\ wr = NoRegion
    /\ fill = << >>
    /\ out = Fifo!Quiet

-----------------------------------------------------------------------------
\* The producer.

writecopy(bs) ==
    /\ ~wr.ok
    /\ c' = WriteCopy(c, bs).buf
    /\ out' = Fifo!Moved("write", Len(bs), SubSeq(bs, 1, WriteCopy(c, bs).n))
    /\ UNCHANGED <<rd, wr, fill>>

getWriteTail ==
    /\ ~wr.ok
    /\ c' = WriteReady(c)
    /\ wr' = WriteTailRegion(c)
    /\ out' = Fifo!Quiet
    /\ UNCHANGED <<rd, fill>>

\* The caller's memcpy or ::recv into the region it was given.
FillTail(bs) ==
    /\ wr.ok /\ fill = << >>
    /\ Len(bs) <= wr.n
    /\ c' = [c EXCEPT !.buf = Place(c.buf, wr.at, bs)]
    /\ fill' = bs
    /\ out' = Fifo!Quiet
    /\ UNCHANGED <<rd, wr>>

pushWriteTail ==
    /\ wr.ok
    /\ c' = AfterPushWriteTail(c, Len(fill))
    /\ out' = Fifo!Moved("commit", Len(fill), fill)
    /\ wr' = NoRegion
    /\ fill' = << >>
    /\ UNCHANGED rd

-----------------------------------------------------------------------------
\* The consumer.

readcopy(n) ==
    /\ ~rd.ok
    /\ c' = ReadCopy(c, n).buf
    /\ out' = Fifo!Moved("read", n, ReadCopy(c, n).bytes)
    /\ UNCHANGED <<rd, wr, fill>>

getReadHead ==
    /\ ~rd.ok
    /\ c' = ReadReady(c)
    /\ rd' = ReadHeadRegion(c)
    /\ out' = Fifo!Quiet
    /\ UNCHANGED <<wr, fill>>

\* The caller works on the first n bytes behind the pointer it holds, then
\* gives them back.
pushReadHead(n) ==
    /\ rd.ok /\ n <= rd.n
    /\ c' = AfterPushReadHead(c, n)
    /\ out' = Fifo!Moved("release", n, Region(c, rd.at, n))
    /\ rd' = NoRegion
    /\ UNCHANGED <<wr, fill>>

\* Both users have let go: a pointer does not survive a reset.
reset ==
    /\ ~rd.ok /\ ~wr.ok
    /\ c' = Cleared
    /\ out' = Fifo!Quiet
    /\ UNCHANGED <<rd, wr, fill>>

-----------------------------------------------------------------------------
Next ==
    \/ \E bs \in Blocks : writecopy(bs) \/ FillTail(bs)
    \/ \E n \in 0 .. MaxRequest : readcopy(n) \/ pushReadHead(n)
    \/ getWriteTail
    \/ pushWriteTail
    \/ getReadHead
    \/ reset

Spec == Init /\ [][Next]_vars

-----------------------------------------------------------------------------
\* Every pointer stays within the buffer and every held region within the
\* usable cells.
TypeOK ==
    /\ c \in CycBufs
    /\ rd \in Regions /\ (rd.ok => rd.at + rd.n <= End)
    /\ wr \in Regions /\ (wr.ok => wr.at + wr.n <= End)
    /\ fill \in Blocks /\ Len(fill) <= wr.n
    /\ wr.ok \/ fill = << >>
    /\ out.moved \in Seq(Byte)

\* A producer that holds the tail keeps it: whatever the consumer reads
\* meanwhile, the region it was promised still begins at the tail, none of
\* it holds data, and what it put there is still there (getWriteTail,
\* pushWriteTail and the head movements of readcopy and pushReadHead).
WriterKeepsRegion ==
    wr.ok =>
        /\ c.tail = wr.at
        /\ wr.n <= WriteAvail(c)
        /\ \A p \in wr.at .. (wr.at + wr.n - 1) : p \notin DataCells(c)
        /\ \A i \in 1 .. Len(fill) : c.buf[wr.at + i - 1] = fill[i]

\* A consumer that holds the head keeps it: whatever the producer writes
\* meanwhile, the bytes it was shown are the oldest of the queue.
ReaderKeepsRegion ==
    rd.ok =>
        /\ c.head = rd.at
        /\ rd.n <= ReadAvail(c)
        /\ rd.n <= Count(c)

\* An empty buffer always takes at least one byte, wherever its head and
\* tail stopped; a sender that drains the buffer and refills it makes progress.
EmptyHasRoom == IsEmpty(c) => WriteTailRegion(c).n > 0

\* A full buffer always gives at least one byte.
FullHasData == IsFull(c) => ReadHeadRegion(c).n > 0

\* A cell that holds no data is zero (toString shows it as a dot) unless the
\* producer has put a byte there that it has not pushed.
FreeCellsAreZero ==
    \A p \in Cell :
        \/ p \in DataCells(c)
        \/ p >= wr.at /\ p < wr.at + Len(fill)
        \/ c.buf[p] = 0

\* The copies are done after two chunks: a third call of readcopy or of
\* writecopy finds nothing to do.
TwoCallsSuffice ==
    \A n \in 1 .. MaxRequest :
        LET r == ReadCopy(c, n)
            w == WriteCopy(c, [i \in 1 .. n |-> 0])
        IN  /\ Len(r.bytes) < n => ReadHeadRegion(r.buf).n = 0
            /\ w.n < n => WriteTailRegion(w.buf).n = 0

\* The buffer implements the bounded queue of ByteFifo: no byte is lost,
\* duplicated or reordered, a bulk read is as long as it can be, and a bulk
\* write stops only at a buffer that is full.
RefinesByteFifo == Fifo!Spec
=============================================================================
