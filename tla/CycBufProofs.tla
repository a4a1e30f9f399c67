---------------------------- MODULE CycBufProofs ----------------------------
(***************************************************************************)
(* The cyclic buffer machine keeps its invariants and implements the       *)
(* bounded queue, for every buffer size, byte set and request bound.       *)
(***************************************************************************)
EXTENDS CycBuf, OpsProofs

\* A block is a sequence of at most MaxRequest bytes.
LEMMA BlocksAreSequences ==
  ASSUME NEW bs \in Blocks
  PROVE  bs \in Seq(Byte) /\ Len(bs) \in 0 .. MaxRequest
  <1>1. PICK n \in 0 .. MaxRequest : bs \in [1 .. n -> Byte]
    BY DEF Blocks
  <1>2. n \in Nat
    BY <1>1, MaxRequestAssumption
  <1>3. Len(bs) = n
    BY <1>1, <1>2
  <1> QED
    BY <1>1, <1>2, <1>3

\* The region a direct access hands out lies within the usable cells.
LEMMA RegionsAreUsable ==
  ASSUME NEW b \in CycBufs
  PROVE  /\ ReadHeadRegion(b) \in Regions
         /\ WriteTailRegion(b) \in Regions
         /\ ReadHeadRegion(b).ok => ReadHeadRegion(b).at + ReadHeadRegion(b).n <= End
         /\ WriteTailRegion(b).ok => WriteTailRegion(b).at + WriteTailRegion(b).n <= End
  <1>1. NoRegion \in Regions /\ ~NoRegion.ok
    BY EndType DEF NoRegion, Regions, Cell
  <1>2. /\ ReadHeadRegion(b) \in Regions
        /\ ReadHeadRegion(b).ok => ReadHeadRegion(b).at + ReadHeadRegion(b).n <= End
    <2>1. CASE IsEmpty(b)
      BY <1>1, <2>1 DEF ReadHeadRegion
    <2>2. CASE ~IsEmpty(b)
      <3>1. /\ ReadReady(b).head \in Cell
            /\ ReadAvail(ReadReady(b)) \in 0 .. End
            /\ ReadReady(b).head + ReadAvail(ReadReady(b)) <= End
        BY <2>2, ReadReadyType, ReadAvailType, CountType, EndType DEF CycBufs
      <3>2. ReadHeadRegion(b)
              = [at |-> ReadReady(b).head, n |-> ReadAvail(ReadReady(b)), ok |-> TRUE]
        BY <2>2 DEF ReadHeadRegion, RegionAt
      <3> QED
        BY <3>1, <3>2 DEF Regions
    <2> QED
      BY <2>1, <2>2
  <1>3. /\ WriteTailRegion(b) \in Regions
        /\ WriteTailRegion(b).ok => WriteTailRegion(b).at + WriteTailRegion(b).n <= End
    <2>1. CASE IsFull(b)
      BY <1>1, <2>1 DEF WriteTailRegion
    <2>2. CASE ~IsFull(b)
      <3>1. WriteReady(b).tail \in Cell /\ WriteReady(b).tail < End
        BY <2>2, WriteReadyType DEF CycBufs
      <3>2. /\ WriteAvail(WriteReady(b)) \in Nat
            /\ WriteReady(b).tail + WriteAvail(WriteReady(b)) <= End
        BY <2>2, WriteAvailType
      <3>3. WriteAvail(WriteReady(b)) \in 0 .. End
        BY <3>1, <3>2, EndType DEF Cell
      <3>4. WriteTailRegion(b)
              = [at |-> WriteReady(b).tail, n |-> WriteAvail(WriteReady(b)), ok |-> TRUE]
        BY <2>2 DEF WriteTailRegion, RegionAt
      <3> QED
        BY <3>1, <3>2, <3>3, <3>4 DEF Regions
    <2> QED
      BY <2>1, <2>2
  <1> QED
    BY <1>2, <1>3

\* Reading never shrinks the room at the tail and clears no cell of it.
LEMMA PushReadHeadSparesTail ==
  ASSUME NEW b \in CycBufs, NEW s \in Nat, b.tail < End
  PROVE  /\ WriteAvail(b) <= WriteAvail(AfterPushReadHead(b, s))
         /\ \A p \in Cell : p >= b.tail /\ p < b.tail + WriteAvail(b)
                => AfterPushReadHead(b, s).buf[p] = b.buf[p]
  <1>1. CASE IsEmpty(b)
    BY <1>1, EndType DEF AfterPushReadHead, WriteAvail, CycBufs, Cell
  <1>2. CASE ~IsEmpty(b)
    <2> DEFINE r == ReadReady(b)
               k == Least(s, ReadAvail(r))
               d == AfterPushReadHead(b, s)
    <2>1. /\ r \in CycBufs /\ r.head < End /\ r.tail = b.tail /\ r.buf = b.buf
          /\ ~IsEmpty(r)
      BY <1>2, ReadReadyType
    <2>2. /\ ReadAvail(r) \in Nat /\ k \in Nat /\ k <= ReadAvail(r)
      <3>1. ReadAvail(r) \in Nat
        BY <1>2, ReadAvailType, CountType
      <3> HIDE DEF r
      <3> QED
        BY <3>1, LeastType
    <2>3. d = [head |-> r.head + k, tail |-> r.tail, buf |-> Wipe(r.buf, r.head, k)]
      BY <1>2 DEF AfterPushReadHead
    <2>4. WriteAvail(b) <= WriteAvail(r)
      BY EndType DEF ReadReady, WriteAvail, CycBufs, Cell
    <2> HIDE DEF r, k, d
    <2>5. WriteAvail(r) <= WriteAvail(d)
      BY <2>1, <2>2, <2>3, EndType DEF WriteAvail, ReadAvail, CycBufs, Cell
    <2>6. ASSUME NEW p \in Cell, p >= r.tail, p < r.tail + WriteAvail(r)
          PROVE  d.buf[p] = r.buf[p]
      <3>1. ~(p >= r.head /\ p < r.head + k)
        BY <2>1, <2>2, <2>6, EndType DEF WriteAvail, ReadAvail, CycBufs, Cell
      <3> QED
        BY <2>3, <3>1 DEF Wipe
    <2>7. WriteAvail(b) \in Nat /\ WriteAvail(r) \in Nat /\ WriteAvail(d) \in Nat /\ b.tail \in Nat
      <3>1. d \in CycBufs
        BY PushReadHeadType DEF d
      <3> QED
        BY <2>1, <3>1, AvailType, EndType DEF CycBufs, Cell
    <2>8. WriteAvail(b) <= WriteAvail(d)
      BY <2>4, <2>5, <2>7
    <2>9. \A p \in Cell : p >= b.tail /\ p < b.tail + WriteAvail(b) => d.buf[p] = b.buf[p]
      BY <2>1, <2>4, <2>6, <2>7, EndType DEF Cell
    <2> QED
      BY <2>8, <2>9 DEF d
  <1> QED
    BY <1>1, <1>2

\* So does a whole readcopy.
LEMMA ReadCopySparesTail ==
  ASSUME NEW b \in CycBufs, NEW s \in Nat, b.tail < End
  PROVE  LET d == ReadCopy(b, s).buf
         IN  /\ WriteAvail(b) <= WriteAvail(d)
             /\ \A p \in Cell : p >= b.tail /\ p < b.tail + WriteAvail(b)
                                => d.buf[p] = b.buf[p]
  <1> DEFINE b1 == AfterPushReadHead(b, s)
             rest == s - ReadChunk(b, s)
             b2 == AfterPushReadHead(b1, rest)
  <1>1. rest \in Nat
    BY ReadChunkType
  <1>2. b1 \in CycBufs /\ b1.tail = b.tail
    BY PushReadHeadType
  <1>3. /\ WriteAvail(b) <= WriteAvail(b1)
        /\ \A p \in Cell : p >= b.tail /\ p < b.tail + WriteAvail(b) => b1.buf[p] = b.buf[p]
    BY PushReadHeadSparesTail
  <1>4. CASE rest = 0
    <2>1. ReadCopy(b, s).buf = b1
      BY <1>4 DEF ReadCopy
    <2> QED
      BY <1>3, <2>1
  <1>5. CASE rest # 0
    <2>1. ReadCopy(b, s).buf = b2
      BY <1>5 DEF ReadCopy
    <2> HIDE DEF b1, rest
    <2>2. b2 \in CycBufs
      BY <1>1, <1>2, PushReadHeadType
    <2>3. /\ WriteAvail(b1) <= WriteAvail(b2)
          /\ \A p \in Cell : p >= b1.tail /\ p < b1.tail + WriteAvail(b1) => b2.buf[p] = b1.buf[p]
      BY <1>1, <1>2, PushReadHeadSparesTail
    <2>4. /\ WriteAvail(b) \in Nat /\ WriteAvail(b1) \in Nat /\ WriteAvail(b2) \in Nat
          /\ b.tail \in Nat
      BY <1>2, <2>2, AvailType, EndType DEF CycBufs, Cell
    <2> HIDE DEF b2
    <2>5. WriteAvail(b) <= WriteAvail(b2)
      BY <1>3, <2>3, <2>4
    <2>6. \A p \in Cell : p >= b.tail /\ p < b.tail + WriteAvail(b) => b2.buf[p] = b.buf[p]
      BY <1>2, <1>3, <2>3, <2>4, EndType DEF Cell
    <2> QED
      BY <2>1, <2>5, <2>6
  <1> QED
    BY <1>4, <1>5

\* Writing never shortens the contiguous data at the head.
LEMMA WriteReadySparesHead ==
  ASSUME NEW b \in CycBufs
  PROVE  ReadAvail(b) <= ReadAvail(WriteReady(b))
  BY EndType DEF WriteReady, ReadAvail, IsFull, CycBufs, Cell

\* Nor does a chunk of writecopy.
LEMMA WriteChunkSparesHead ==
  ASSUME NEW b \in CycBufs, NEW bs \in Seq(Byte)
  PROVE  ReadAvail(b) <= ReadAvail(AfterWriteChunk(b, bs))
  <1>1. CASE IsFull(b)
    BY <1>1, EndType DEF AfterWriteChunk, ReadAvail, CycBufs, Cell
  <1>2. CASE ~IsFull(b)
    <2> DEFINE w == WriteReady(b)
               k == WriteChunk(b, bs)
               d == AfterWriteChunk(b, bs)
    <2>1. w \in CycBufs /\ w.tail < End /\ ReadAvail(b) <= ReadAvail(w)
      BY <1>2, WriteReadyType, WriteReadySparesHead
    <2>2. /\ WriteAvail(w) \in Nat /\ k \in Nat /\ k <= WriteAvail(w)
      BY <1>2, WriteAvailType, WriteChunkType, LenProperties, LeastType
    <2>3. d.head = w.head /\ d.tail = w.tail + k
      BY <1>2 DEF AfterWriteChunk
    <2>4. ReadAvail(b) \in Nat
      BY EndType DEF ReadAvail, CycBufs, Cell
    <2> HIDE DEF w, k, d
    <2>5. ReadAvail(w) \in Nat /\ ReadAvail(d) \in Nat /\ ReadAvail(w) <= ReadAvail(d)
      BY <2>1, <2>2, <2>3, EndType, SMTT(30) DEF ReadAvail, WriteAvail, CycBufs, Cell
    <2>6. ReadAvail(b) <= ReadAvail(d)
      BY <2>1, <2>4, <2>5
    <2> QED
      BY <2>6 DEF d
  <1> QED
    BY <1>1, <1>2

\* So does a whole writecopy.
LEMMA WriteCopySparesHead ==
  ASSUME NEW b \in CycBufs, NEW bs \in Seq(Byte)
  PROVE  ReadAvail(b) <= ReadAvail(WriteCopy(b, bs).buf)
  <1> DEFINE k1 == WriteChunk(b, bs)
             b1 == AfterWriteChunk(b, bs)
             rest == SubSeq(bs, k1 + 1, Len(bs))
             b2 == AfterWriteChunk(b1, rest)
  <1>1. b1 \in CycBufs /\ ReadAvail(b) <= ReadAvail(b1)
    BY WriteChunkLeaves, WriteChunkSparesHead
  <1>2. rest \in Seq(Byte)
    <2>1. k1 \in Nat /\ k1 <= Len(bs) /\ Len(bs) \in Nat
      BY WriteChunkType, LenProperties
    <2> HIDE DEF k1
    <2> QED
      BY <2>1, SubSeqOfSeq, k1 + 1 \in Nat, k1 + 1 >= 1, k1 + 1 <= Len(bs) + 1
  <1> HIDE DEF b1, rest
  <1>3. b2 \in CycBufs /\ ReadAvail(b1) <= ReadAvail(b2)
    BY <1>1, <1>2, WriteChunkLeaves, WriteChunkSparesHead
  <1>4. WriteCopy(b, bs).buf = IF rest = << >> THEN b1 ELSE b2
    BY DEF WriteCopy, b1, rest
  <1> HIDE DEF b2
  <1>5. ReadAvail(b) \in Nat /\ ReadAvail(b1) \in Nat /\ ReadAvail(b2) \in Nat
    BY <1>1, <1>3, AvailType
  <1> QED
    BY <1>1, <1>3, <1>4, <1>5

-----------------------------------------------------------------------------
(***************************************************************************)
(* The inductive invariant is the conjunction of the type invariant and    *)
(* the two promises: the type of a region alone would not keep a push      *)
(* within the buffer, and a promise alone says nothing without the types.  *)
(***************************************************************************)
Inv == TypeOK /\ WriterKeepsRegion /\ ReaderKeepsRegion

\* The writer's promise, once the bytes it placed are kept apart: the tail
\* does not move, the room does not shrink, the placed bytes stay.
LEMMA WriterPromise ==
  ASSUME NEW b \in CycBufs, NEW r \in Regions, r.at + r.n <= End,
         b.tail = r.at, r.n <= WriteAvail(b)
  PROVE  \A p \in r.at .. (r.at + r.n - 1) : p \notin DataCells(b)
  <1> SUFFICES ASSUME NEW p \in r.at .. (r.at + r.n - 1)
               PROVE  p \notin DataCells(b)
    OBVIOUS
  <1>1. r.at \in Nat /\ r.n \in Nat
    BY EndType DEF Regions, Cell
  <1>2. p \in Cell /\ p >= b.tail /\ p < b.tail + WriteAvail(b)
    BY <1>1, AvailType, EndType DEF Cell
  <1> QED
    BY <1>2, FreeAtTail DEF DataCells

\* The invariant holds of a buffer just constructed, with nothing held.
LEMMA InitInv == Init => Inv
  <1> SUFFICES ASSUME Init PROVE Inv
    OBVIOUS
  <1>1. << >> \in Blocks /\ Len(<< >>) = 0
    <2>1. << >> \in [1 .. 0 -> Byte]
      OBVIOUS
    <2> QED
      BY <2>1, MaxRequestAssumption DEF Blocks
  <1>2. NoRegion \in Regions /\ ~NoRegion.ok /\ NoRegion.n = 0
    BY EndType DEF NoRegion, Regions, Cell
  <1>3. << >> \in Seq(Byte)
    OBVIOUS
  <1> QED
    BY <1>1, <1>2, <1>3, ClearedType
       DEF Init, Inv, TypeOK, WriterKeepsRegion, ReaderKeepsRegion, Fifo!Quiet

\* What the two actions of a consumer must show of the producer's promise.
LEMMA WriterKeepsRegionNext ==
  ASSUME Inv, c' \in CycBufs, UNCHANGED <<wr, fill>>,
         c'.tail = c.tail,
         c.tail < End => /\ WriteAvail(c) <= WriteAvail(c')
                         /\ \A p \in Cell : p >= c.tail /\ p < c.tail + WriteAvail(c)
                                            => c'.buf[p] = c.buf[p]
  PROVE  WriterKeepsRegion'
  <1> SUFFICES ASSUME wr.ok
               PROVE  /\ c'.tail = wr.at
                      /\ wr.n <= WriteAvail(c')
                      /\ \A p \in wr.at .. (wr.at + wr.n - 1) : p \notin DataCells(c')
                      /\ \A i \in 1 .. Len(fill) : c'.buf[wr.at + i - 1] = fill[i]
    BY DEF WriterKeepsRegion
  <1>1. /\ c \in CycBufs /\ wr \in Regions /\ wr.at + wr.n <= End
        /\ fill \in Seq(Byte) /\ Len(fill) <= wr.n /\ Len(fill) \in Nat
    BY BlocksAreSequences, LenProperties DEF Inv, TypeOK
  <1>2. /\ c.tail = wr.at /\ wr.n <= WriteAvail(c)
        /\ \A i \in 1 .. Len(fill) : c.buf[wr.at + i - 1] = fill[i]
    BY DEF Inv, WriterKeepsRegion
  <1>3. /\ WriteAvail(c) \in Nat /\ WriteAvail(c') \in Nat
        /\ wr.at \in Nat /\ wr.n \in Nat
    BY <1>1, AvailType, EndType DEF Regions, Cell
  <1>4. wr.n <= WriteAvail(c')
    BY <1>1, <1>2, <1>3, EndType
  <1>5. \A p \in wr.at .. (wr.at + wr.n - 1) : p \notin DataCells(c')
    BY <1>1, <1>2, <1>4, WriterPromise
  <1>6. ASSUME NEW i \in 1 .. Len(fill)
        PROVE  c'.buf[wr.at + i - 1] = fill[i]
    <2>1. /\ wr.at + i - 1 \in Cell /\ c.tail < End
          /\ wr.at + i - 1 >= c.tail /\ wr.at + i - 1 < c.tail + WriteAvail(c)
      BY <1>1, <1>2, <1>3, EndType DEF Cell
    <2> QED
      BY <1>2, <2>1
  <1> QED
    BY <1>2, <1>4, <1>5, <1>6

\* What the actions of a producer must show of the consumer's promise.
LEMMA ReaderKeepsRegionNext ==
  ASSUME Inv, c' \in CycBufs, UNCHANGED rd,
         c'.head = c.head, ReadAvail(c) <= ReadAvail(c'), Count(c) <= Count(c')
  PROVE  ReaderKeepsRegion'
  <1> SUFFICES ASSUME rd.ok
               PROVE  c'.head = rd.at /\ rd.n <= ReadAvail(c') /\ rd.n <= Count(c')
    BY DEF ReaderKeepsRegion
  <1>1. /\ c \in CycBufs /\ rd.n \in Nat
        /\ c.head = rd.at /\ rd.n <= ReadAvail(c) /\ rd.n <= Count(c)
    BY EndType DEF Inv, TypeOK, ReaderKeepsRegion, Regions
  <1>2. /\ ReadAvail(c) \in Nat /\ ReadAvail(c') \in Nat
        /\ Count(c) \in Nat /\ Count(c') \in Nat
    BY <1>1, AvailType, CountType, EndType
  <1> QED
    BY <1>1, <1>2

\* A push of the filled bytes is one chunk of a writecopy of them.
LEMMA FillCommits ==
  ASSUME Inv, wr.ok
  PROVE  /\ AfterPushWriteTail(c, Len(fill)) = AfterWriteChunk(c, fill)
         /\ WriteChunk(c, fill) = Len(fill)
  <1>1. /\ c \in CycBufs /\ fill \in Seq(Byte) /\ Len(fill) \in Nat
        /\ wr.n \in Nat /\ Len(fill) <= wr.n
    BY BlocksAreSequences, LenProperties, EndType DEF Inv, TypeOK, Regions
  <1>2. /\ c.tail = wr.at /\ wr.n <= WriteAvail(c)
        /\ \A i \in 1 .. Len(fill) : c.buf[c.tail + i - 1] = fill[i]
    BY DEF Inv, WriterKeepsRegion
  <1>3. Len(fill) <= WriteAvail(c)
    BY <1>1, <1>2, AvailType
  <1> QED
    BY <1>1, <1>2, <1>3, CommitIsWriteChunk

\* What a consumer shows as consumed is the oldest data.
LEMMA HeldIsReleased ==
  ASSUME Inv, rd.ok, NEW n \in Nat, n <= rd.n
  PROVE  /\ Region(c, rd.at, n) = SubSeq(Contents(c), 1, n)
         /\ ReadChunk(c, n) = n
         /\ n <= Count(c)
  <1>1. /\ c \in CycBufs /\ rd.n \in Nat
        /\ c.head = rd.at /\ rd.n <= ReadAvail(c) /\ rd.n <= Count(c)
    BY EndType DEF Inv, TypeOK, ReaderKeepsRegion, Regions
  <1>2. n <= ReadAvail(c) /\ n <= Count(c)
    BY <1>1, AvailType, CountType, EndType
  <1> QED
    BY <1>1, <1>2, ReleaseIsExact

\* Every action of the machine keeps the invariant.
LEMMA NextInv == Inv /\ [Next]_vars => Inv'
  <1> SUFFICES ASSUME Inv, [Next]_vars PROVE Inv'
    OBVIOUS
  <1>0. /\ c \in CycBufs /\ Count(c) \in Nat /\ Count(c) <= End
        /\ rd \in Regions /\ wr \in Regions /\ fill \in Blocks
        /\ fill \in Seq(Byte) /\ Len(fill) \in Nat
    BY CountType, EndType, BlocksAreSequences, LenProperties DEF Inv, TypeOK
  <1>e. << >> \in Blocks /\ << >> \in Seq(Byte) /\ Len(<< >>) = 0
    <2>1. << >> \in [1 .. 0 -> Byte]
      OBVIOUS
    <2> QED
      BY <2>1, MaxRequestAssumption DEF Blocks
  <1>n. NoRegion \in Regions /\ ~NoRegion.ok /\ NoRegion.n = 0
    BY EndType DEF NoRegion, Regions, Cell
  <1>1. CASE \E bs \in Blocks : writecopy(bs)
    <2>1. PICK bs \in Blocks : writecopy(bs)
      BY <1>1
    <2> DEFINE k == WriteCopy(c, bs).n
               d == WriteCopy(c, bs).buf
    <2>2. bs \in Seq(Byte) /\ Len(bs) \in Nat
      BY BlocksAreSequences, LenProperties
    <2>3. /\ d \in CycBufs /\ d.head = c.head /\ k \in 0 .. Len(bs)
          /\ Contents(d) = Contents(c) \o SubSeq(bs, 1, k)
      BY <1>0, <2>2, WriteCopyAppends
    <2>4. ReadAvail(c) <= ReadAvail(d)
      BY <1>0, <2>2, WriteCopySparesHead
    <2> HIDE DEF k, d
    <2>5. SubSeq(bs, 1, k) \in Seq(Byte) /\ Len(SubSeq(bs, 1, k)) = k /\ k \in Nat
      BY <2>2, <2>3, SubSeqOfSeq, 1 \in Nat, k \in Nat, 1 <= k + 1
    <2>6. Count(c) <= Count(d)
      <3>1. Len(Contents(d)) = Len(Contents(c)) + Len(SubSeq(bs, 1, k))
        BY <1>0, <2>3, <2>5, ContentsType, ConcatProperties
      <3> QED
        BY <1>0, <2>3, <2>5, <3>1, ContentsType, CountType, EndType
    <2>7. c' = d /\ UNCHANGED <<rd, wr, fill>> /\ ~wr.ok
          /\ out' = Fifo!Moved("write", Len(bs), SubSeq(bs, 1, k))
      BY <2>1 DEF writecopy, k, d
    <2>8. out'.moved \in Seq(Byte)
      BY <2>5, <2>7 DEF Fifo!Moved
    <2>9. ReaderKeepsRegion'
      BY <2>3, <2>4, <2>6, <2>7, ReaderKeepsRegionNext
    <2> QED
      BY <2>3, <2>7, <2>8, <2>9 DEF Inv, TypeOK, WriterKeepsRegion
  <1>2. CASE getWriteTail
    <2>1. /\ c' = WriteReady(c) /\ wr' = WriteTailRegion(c)
          /\ UNCHANGED <<rd, fill>> /\ ~wr.ok /\ out' = Fifo!Quiet
      BY <1>2 DEF getWriteTail
    <2>2. /\ c' \in CycBufs /\ c'.head = c.head /\ Count(c') = Count(c)
          /\ ReadAvail(c) <= ReadAvail(c')
      BY <1>0, <2>1, WriteReadyType, WriteReadySparesHead
    <2>3. ReaderKeepsRegion'
      BY <1>0, <2>1, <2>2, ReaderKeepsRegionNext
    <2>4. /\ wr' \in Regions /\ (wr'.ok => wr'.at + wr'.n <= End)
      BY <1>0, <2>1, RegionsAreUsable
    <2>5. wr'.ok => /\ c'.tail = wr'.at /\ wr'.n = WriteAvail(c')
      BY <1>0, <1>n, <2>1, WriteAvailType DEF WriteTailRegion
    <2>6. fill = << >>
      BY <2>1 DEF Inv, TypeOK
    <2>7. fill' \in Blocks /\ Len(fill') <= wr'.n
      BY <1>e, <2>1, <2>4, <2>6, EndType DEF Regions
    <2>8. WriterKeepsRegion'
      <3>1. wr'.ok => \A p \in wr'.at .. (wr'.at + wr'.n - 1) : p \notin DataCells(c')
        <4> SUFFICES ASSUME wr'.ok
                     PROVE  \A p \in wr'.at .. (wr'.at + wr'.n - 1) : p \notin DataCells(c')
          OBVIOUS
        <4>1. wr'.n <= WriteAvail(c')
          BY <2>2, <2>5, AvailType
        <4> QED
          BY <2>2, <2>4, <2>5, <4>1, WriterPromise
      <3> QED
        BY <1>e, <2>1, <2>2, <2>5, <2>6, <3>1, AvailType DEF WriterKeepsRegion
    <2>9. out'.moved \in Seq(Byte)
      BY <1>e, <2>1 DEF Fifo!Quiet
    <2> QED
      BY <2>1, <2>2, <2>3, <2>4, <2>7, <2>8, <2>9 DEF Inv, TypeOK
  <1>3. CASE \E bs \in Blocks : FillTail(bs)
    <2>1. PICK bs \in Blocks : FillTail(bs)
      BY <1>3
    <2>2. /\ wr.ok /\ Len(bs) <= wr.n
          /\ c' = [c EXCEPT !.buf = Place(c.buf, wr.at, bs)]
          /\ fill' = bs /\ UNCHANGED <<rd, wr>> /\ out' = Fifo!Quiet
      BY <2>1 DEF FillTail
    <2>3. /\ c.tail = wr.at /\ wr.n <= WriteAvail(c) /\ wr.at + wr.n <= End
      BY <2>2 DEF Inv, TypeOK, WriterKeepsRegion
    <2>4. /\ bs \in Seq(Byte) /\ Len(bs) \in Nat /\ wr.n \in Nat /\ wr.at \in Nat
          /\ WriteAvail(c) \in Nat
      BY <1>0, BlocksAreSequences, LenProperties, AvailType, EndType DEF Regions, Cell
    <2>5. Len(bs) <= WriteAvail(c) /\ c.tail + Len(bs) <= End
      BY <2>2, <2>3, <2>4, EndType
    <2>6. /\ c' \in CycBufs /\ c'.head = c.head /\ c'.tail = c.tail
          /\ \A i \in 1 .. Len(bs) : c'.buf[c.tail + i - 1] = bs[i]
      BY <1>0, <2>2, <2>3, <2>4, <2>5, PlaceSparesContents, SMTT(30)
    <2>7. /\ WriteAvail(c') = WriteAvail(c) /\ ReadAvail(c') = ReadAvail(c)
          /\ Count(c') = Count(c)
      BY <2>6 DEF WriteAvail, ReadAvail, Count
    <2>8. ReaderKeepsRegion'
      BY <2>2, <2>6, <2>7 DEF Inv, ReaderKeepsRegion
    <2>9. \A p \in wr.at .. (wr.at + wr.n - 1) : p \notin DataCells(c')
      BY <1>0, <2>3, <2>6, <2>7, WriterPromise
    <2>10. WriterKeepsRegion'
      BY <2>2, <2>3, <2>6, <2>7, <2>9 DEF WriterKeepsRegion
    <2>11. out'.moved \in Seq(Byte)
      BY <1>e, <2>2 DEF Fifo!Quiet
    <2> QED
      BY <2>2, <2>6, <2>8, <2>10, <2>11 DEF Inv, TypeOK
  <1>4. CASE pushWriteTail
    <2>1. /\ wr.ok /\ c' = AfterPushWriteTail(c, Len(fill))
          /\ out' = Fifo!Moved("commit", Len(fill), fill)
          /\ wr' = NoRegion /\ fill' = << >> /\ UNCHANGED rd
      BY <1>4 DEF pushWriteTail
    <2>2. c' = AfterWriteChunk(c, fill) /\ WriteChunk(c, fill) = Len(fill)
      BY <1>0, <2>1, FillCommits
    <2>3. c' \in CycBufs /\ c'.head = c.head /\ Count(c') = Count(c) + Len(fill)
      BY <1>0, <2>2, WriteChunkLeaves
    <2>4. ReadAvail(c) <= ReadAvail(c')
      BY <1>0, <2>2, WriteChunkSparesHead
    <2>5. ReaderKeepsRegion'
      <3>1. Count(c) <= Count(c')
        BY <1>0, <2>3
      <3> QED
        BY <2>1, <2>3, <2>4, <3>1, ReaderKeepsRegionNext
    <2>6. out'.moved \in Seq(Byte)
      BY <1>0, <2>1 DEF Fifo!Moved
    <2>7. WriterKeepsRegion'
      BY <1>n, <2>1 DEF WriterKeepsRegion
    <2> QED
      BY <1>e, <1>n, <2>1, <2>3, <2>5, <2>6, <2>7 DEF Inv, TypeOK
  <1>5. CASE \E n \in 0 .. MaxRequest : readcopy(n)
    <2>1. PICK n \in 0 .. MaxRequest : readcopy(n)
      BY <1>5
    <2> DEFINE k == Least(n, Count(c))
               d == ReadCopy(c, n).buf
    <2>2. n \in Nat /\ k \in Nat /\ k <= Count(c)
      <3>1. n \in Nat
        BY MaxRequestAssumption
      <3> QED
        BY <1>0, <3>1, LeastType
    <2>3. /\ d \in CycBufs /\ d.tail = c.tail
          /\ ReadCopy(c, n).bytes = SubSeq(Contents(c), 1, k)
      BY <1>0, <2>2, ReadCopyTakesPrefix
    <2>4. c.tail < End => /\ WriteAvail(c) <= WriteAvail(d)
                          /\ \A p \in Cell : p >= c.tail /\ p < c.tail + WriteAvail(c)
                                             => d.buf[p] = c.buf[p]
      BY <1>0, <2>2, ReadCopySparesTail
    <2>5. /\ ~rd.ok /\ c' = d /\ UNCHANGED <<rd, wr, fill>>
          /\ out' = Fifo!Moved("read", n, ReadCopy(c, n).bytes)
      BY <2>1 DEF readcopy
    <2> HIDE DEF k, d
    <2>6. WriterKeepsRegion'
      BY <2>3, <2>4, <2>5, WriterKeepsRegionNext
    <2>7. SubSeq(Contents(c), 1, k) \in Seq(Byte)
      BY <1>0, <2>2, ContentsType, SubSeqOfSeq, 1 \in Nat, 1 <= k + 1
    <2>8. out'.moved \in Seq(Byte)
      BY <2>3, <2>5, <2>7 DEF Fifo!Moved
    <2> QED
      BY <2>3, <2>5, <2>6, <2>8 DEF Inv, TypeOK, ReaderKeepsRegion
  <1>6. CASE getReadHead
    <2>1. /\ ~rd.ok /\ c' = ReadReady(c) /\ rd' = ReadHeadRegion(c)
          /\ UNCHANGED <<wr, fill>> /\ out' = Fifo!Quiet
      BY <1>6 DEF getReadHead
    <2>2. /\ c' \in CycBufs /\ c'.tail = c.tail /\ c'.buf = c.buf /\ Count(c') = Count(c)
      BY <1>0, <2>1, ReadReadyType
    <2>3. c.tail < End => WriteAvail(c) <= WriteAvail(c')
      BY <1>0, <2>1, EndType DEF ReadReady, WriteAvail, CycBufs, Cell
    <2>4. WriterKeepsRegion'
      BY <2>1, <2>2, <2>3, WriterKeepsRegionNext
    <2>5. /\ rd' \in Regions /\ (rd'.ok => rd'.at + rd'.n <= End)
      BY <1>0, <2>1, RegionsAreUsable
    <2>6. rd'.ok => /\ c'.head = rd'.at /\ rd'.n = ReadAvail(c') /\ rd'.n \in 1 .. Count(c)
      BY <1>0, <1>n, <2>1, ReadAvailType DEF ReadHeadRegion
    <2>7. ReaderKeepsRegion'
      BY <1>0, <2>2, <2>6, AvailType DEF ReaderKeepsRegion
    <2>8. out'.moved \in Seq(Byte)
      BY <1>e, <2>1 DEF Fifo!Quiet
    <2> QED
      BY <2>1, <2>2, <2>4, <2>5, <2>7, <2>8 DEF Inv, TypeOK
  <1>7. CASE \E n \in 0 .. MaxRequest : pushReadHead(n)
    <2>1. PICK n \in 0 .. MaxRequest : pushReadHead(n)
      BY <1>7
    <2>2. /\ rd.ok /\ n <= rd.n /\ c' = AfterPushReadHead(c, n)
          /\ out' = Fifo!Moved("release", n, Region(c, rd.at, n))
          /\ rd' = NoRegion /\ UNCHANGED <<wr, fill>>
      BY <2>1 DEF pushReadHead
    <2>3. n \in Nat
      BY MaxRequestAssumption
    <2>4. /\ c' \in CycBufs /\ c'.tail = c.tail
      BY <1>0, <2>2, <2>3, PushReadHeadType
    <2>5. c.tail < End => /\ WriteAvail(c) <= WriteAvail(c')
                          /\ \A p \in Cell : p >= c.tail /\ p < c.tail + WriteAvail(c)
                                             => c'.buf[p] = c.buf[p]
      BY <1>0, <2>2, <2>3, PushReadHeadSparesTail
    <2>6. WriterKeepsRegion'
      BY <2>2, <2>4, <2>5, WriterKeepsRegionNext
    <2>7. out'.moved \in Seq(Byte)
      <3>1. Region(c, rd.at, n) = SubSeq(Contents(c), 1, n) /\ n <= Count(c)
        BY <2>2, <2>3, HeldIsReleased
      <3>2. SubSeq(Contents(c), 1, n) \in Seq(Byte)
        BY <1>0, <2>3, <3>1, ContentsType, SubSeqOfSeq, 1 \in Nat, 1 <= n + 1
      <3> QED
        BY <2>2, <3>1, <3>2 DEF Fifo!Moved
    <2>8. ReaderKeepsRegion'
      BY <1>n, <2>2 DEF ReaderKeepsRegion
    <2> QED
      BY <1>n, <2>2, <2>4, <2>6, <2>7, <2>8 DEF Inv, TypeOK
  <1>8. CASE reset
    <2>1. ~rd.ok /\ ~wr.ok /\ c' = Cleared /\ out' = Fifo!Quiet /\ UNCHANGED <<rd, wr, fill>>
      BY <1>8 DEF reset
    <2>2. out'.moved \in Seq(Byte)
      BY <1>e, <2>1 DEF Fifo!Quiet
    <2> QED
      BY <2>1, <2>2, ClearedType DEF Inv, TypeOK, WriterKeepsRegion, ReaderKeepsRegion
  <1>9. CASE UNCHANGED vars
    BY <1>9 DEF vars, Inv, TypeOK, WriterKeepsRegion, ReaderKeepsRegion
  <1> QED
    BY <1>1, <1>2, <1>3, <1>4, <1>5, <1>6, <1>7, <1>8, <1>9 DEF Next

\* Pointers, regions and placed bytes stay in range in every behaviour.
THEOREM SpecTypeOK == Spec => []TypeOK
  <1>1. Inv => TypeOK
    BY DEF Inv
  <1> QED
    BY <1>1, InitInv, NextInv, PTL DEF Spec

\* A producer keeps the region getWriteTail gave it until it pushes.
THEOREM SpecWriterKeepsRegion == Spec => []WriterKeepsRegion
  <1>1. Inv => WriterKeepsRegion
    BY DEF Inv
  <1> QED
    BY <1>1, InitInv, NextInv, PTL DEF Spec

\* A consumer keeps the bytes getReadHead showed it until it pushes.
THEOREM SpecReaderKeepsRegion == Spec => []ReaderKeepsRegion
  <1>1. Inv => ReaderKeepsRegion
    BY DEF Inv
  <1> QED
    BY <1>1, InitInv, NextInv, PTL DEF Spec

\* Whenever the buffer is empty it has room for at least one byte, wherever
\* the head and the tail stopped.
THEOREM SpecEmptyHasRoom == Spec => []EmptyHasRoom
  <1>1. Inv => EmptyHasRoom
    <2> SUFFICES ASSUME c \in CycBufs, IsEmpty(c)
                 PROVE  WriteTailRegion(c).n > 0
      BY DEF Inv, TypeOK, EmptyHasRoom
    <2>1. ~IsFull(c)
      BY EndType DEF IsEmpty, IsFull, CycBufs, Cell
    <2>2. WriteAvail(WriteReady(c)) > 0
      BY <2>1, EndType DEF IsEmpty, IsFull, WriteReady, WriteAvail, CycBufs, Cell
    <2> QED
      BY <2>1, <2>2, WriteAvailType
  <1> QED
    BY <1>1, InitInv, NextInv, PTL DEF Spec

\* Whenever the buffer is full it has at least one byte to show, although its
\* head may have stopped at the end.
THEOREM SpecFullHasData == Spec => []FullHasData
  <1>1. Inv => FullHasData
    <2> SUFFICES ASSUME c \in CycBufs, IsFull(c)
                 PROVE  ReadHeadRegion(c).n > 0
      BY DEF Inv, TypeOK, FullHasData
    <2>1. ~IsEmpty(c)
      BY EndType DEF IsEmpty, IsFull, CycBufs, Cell
    <2>2. ReadAvail(ReadReady(c)) > 0
      BY <2>1, EndType DEF IsEmpty, IsFull, ReadReady, ReadAvail, CycBufs, Cell
    <2> QED
      BY <2>1, <2>2 DEF ReadHeadRegion, RegionAt
  <1> QED
    BY <1>1, InitInv, NextInv, PTL DEF Spec

\* Two calls finish every copy, in every state that is reached.
THEOREM SpecTwoCallsSuffice == Spec => []TwoCallsSuffice
  <1>1. Inv => TwoCallsSuffice
    <2> SUFFICES ASSUME Inv, NEW n \in 1 .. MaxRequest
                 PROVE  /\ Len(ReadCopy(c, n).bytes) < n => ReadHeadRegion(ReadCopy(c, n).buf).n = 0
                        /\ WriteCopy(c, [i \in 1 .. n |-> 0]).n < n =>
                              WriteTailRegion(WriteCopy(c, [i \in 1 .. n |-> 0]).buf).n = 0
      BY DEF TwoCallsSuffice
    <2> DEFINE zeros == [i \in 1 .. n |-> 0]
    <2>1. c \in CycBufs /\ n \in Nat
      BY MaxRequestAssumption DEF Inv, TypeOK
    <2>2. zeros \in Seq(Byte) /\ Len(zeros) = n
      BY <2>1, ByteAssumption
    <2> HIDE DEF zeros
    <2>3. /\ Len(ReadCopy(c, n).bytes) < n => ReadHeadRegion(ReadCopy(c, n).buf).n = 0
          /\ WriteCopy(c, zeros).n < n => WriteTailRegion(WriteCopy(c, zeros).buf).n = 0
      BY <2>1, <2>2, SecondCallFinishes
    <2> QED
      BY <2>3 DEF zeros
  <1> QED
    BY <1>1, InitInv, NextInv, PTL DEF Spec

\* What an operation that cleans up must show when nothing is placed and
\* not pushed afterwards that was not before.
LEMMA FreeCellsNext ==
  ASSUME FreeCellsAreZero, CleansUp(c, c'), UNCHANGED <<wr, fill>>
  PROVE  FreeCellsAreZero'
  BY DEF FreeCellsAreZero, CleansUp

\* No action leaves a byte in a cell that holds no data: what is read is
\* wiped, and what is placed in advance stays inside the producer's region.
LEMMA NextFreeCells ==
  ASSUME Inv, FreeCellsAreZero, [Next]_vars
  PROVE  FreeCellsAreZero'
  <1>1. c \in CycBufs /\ fill \in Seq(Byte) /\ Len(fill) \in Nat
    BY BlocksAreSequences, LenProperties DEF Inv, TypeOK
  <1>2. CASE \E bs \in Blocks : writecopy(bs)
    <2>1. PICK bs \in Blocks : writecopy(bs)
      BY <1>2
    <2>2. CleansUp(c, c') /\ UNCHANGED <<wr, fill>>
      BY <1>1, <2>1, BlocksAreSequences, WriteCopyCleansUp DEF writecopy
    <2> QED
      BY <2>2, FreeCellsNext
  <1>3. CASE \E bs \in Blocks : FillTail(bs)
    <2>1. PICK bs \in Blocks : FillTail(bs)
      BY <1>3
    <2>2. /\ c' = [c EXCEPT !.buf = Place(c.buf, wr.at, bs)] /\ fill' = bs /\ wr' = wr
          /\ fill = << >>
      BY <2>1 DEF FillTail
    <2>3. /\ c'.head = c.head /\ c'.tail = c.tail /\ c'.buf = Place(c.buf, wr.at, bs)
      BY <1>1, <2>2 DEF CycBufs
    <2>4. DataCells(c') = DataCells(c)
      BY <2>3 DEF DataCells, Count
    <2>5. Len(fill) = 0 /\ wr.at \in Nat
      BY <2>2, EndType DEF Inv, TypeOK, Regions, Cell
    <2> SUFFICES ASSUME NEW p \in Cell, p \notin DataCells(c'),
                        ~(p >= wr.at /\ p < wr.at + Len(bs))
                 PROVE  c'.buf[p] = 0
      BY <2>2 DEF FreeCellsAreZero
    <2>6. c'.buf[p] = c.buf[p]
      BY <2>3 DEF Place
    <2>7. ~(p >= wr.at /\ p < wr.at + Len(fill))
      BY <2>5, EndType DEF Cell
    <2> QED
      BY <2>4, <2>6, <2>7 DEF FreeCellsAreZero
  <1>4. CASE pushWriteTail
    <2>1. /\ wr.ok /\ c' = AfterPushWriteTail(c, Len(fill)) /\ fill' = << >>
      BY <1>4 DEF pushWriteTail
    <2>2. c' = AfterWriteChunk(c, fill) /\ WriteChunk(c, fill) = Len(fill)
      BY <2>1, FillCommits
    <2>3. c.tail = wr.at /\ Len(fill) <= WriteAvail(c) /\ WriteAvail(c) \in Nat
          /\ wr.at + Len(fill) <= End
      <3>1. WriteAvail(c) \in Nat
        BY <1>1, AvailType
      <3>2. c.tail = wr.at /\ wr.n <= WriteAvail(c) /\ wr.n \in Nat /\ wr.at \in Nat
            /\ Len(fill) <= wr.n /\ wr.at + wr.n <= End
        BY <2>1, EndType DEF Inv, TypeOK, WriterKeepsRegion, Regions, Cell
      <3> QED
        BY <1>1, <3>1, <3>2, EndType
    <2>4. CleansUp(c, c')
      BY <1>1, <2>2, WriteChunkCleansUp
    <2>5. c' \in CycBufs /\ c'.head = c.head
      BY <1>1, <2>2, WriteChunkLeaves
    <2>6. ASSUME NEW p \in Cell, p >= wr.at, p < wr.at + Len(fill)
          PROVE  p \in DataCells(c')
      <3>1. Len(fill) > 0 /\ c.tail < End
        BY <1>1, <2>3, <2>6, EndType DEF Cell, CycBufs
      <3>2. ~IsFull(c)
        BY <1>1, <2>3, <3>1, EndType DEF IsFull, WriteAvail, CycBufs, Cell
      <3>3. WriteReady(c) = c
        BY <1>1, <3>1, EndType DEF WriteReady, CycBufs, Cell
      <3>4. c'.tail = c.tail + Len(fill)
        BY <2>2, <3>2, <3>3 DEF AfterWriteChunk
      <3>5. /\ p < End
            /\ IF c'.head <= c'.tail THEN c'.head <= p /\ p < c'.tail
               ELSE c'.head <= p \/ p < c'.tail
        <4> DEFINE h == c.head  t == c.tail  n == Len(fill)
        <4>1. /\ h \in Nat /\ t \in Nat /\ n \in Nat /\ p \in Nat /\ t <= p /\ p < t + n
              /\ t + n <= End /\ End \in Nat /\ n <= IF h > t THEN h - (t + 1) ELSE End - t
          BY <1>1, <2>3, <2>6, EndType DEF CycBufs, Cell, WriteAvail
        <4>2. c'.head = h /\ c'.tail = t + n
          BY <2>5, <3>4
        <4> HIDE DEF h, t, n
        <4>3. p < End /\ IF h <= t + n THEN h <= p /\ p < t + n ELSE h <= p \/ p < t + n
          BY <4>1
        <4> QED
          BY <4>2, <4>3
      <3> QED
        BY <2>5, <3>5, DataCellsAre
    <2> QED
      BY <2>4, <2>6 DEF FreeCellsAreZero, CleansUp
  <1>5. CASE \E n \in 0 .. MaxRequest : readcopy(n) \/ pushReadHead(n)
    <2>1. PICK n \in 0 .. MaxRequest : readcopy(n) \/ pushReadHead(n)
      BY <1>5
    <2>2. n \in Nat
      BY MaxRequestAssumption
    <2>3. c' = ReadCopy(c, n).buf \/ c' = AfterPushReadHead(c, n)
      BY <2>1 DEF readcopy, pushReadHead
    <2>4. CleansUp(c, c') /\ UNCHANGED <<wr, fill>>
      BY <1>1, <2>1, <2>2, <2>3, ReadCopyCleansUp, PushReadHeadCleansUp DEF readcopy, pushReadHead
    <2> QED
      BY <2>4, FreeCellsNext
  <1>6. CASE getReadHead
    <2>1. CleansUp(c, c') /\ UNCHANGED <<wr, fill>>
      BY <1>1, <1>6, ReadyCleansUp DEF getReadHead
    <2> QED
      BY <2>1, FreeCellsNext
  <1>7. CASE getWriteTail
    <2>1. CleansUp(c, c') /\ UNCHANGED fill /\ ~wr.ok
      BY <1>1, <1>7, ReadyCleansUp DEF getWriteTail
    <2>2. fill = << >>
      BY <2>1 DEF Inv, TypeOK
    <2>3. Len(fill) = 0 /\ wr.at \in Nat
      BY <2>2, EndType DEF Inv, TypeOK, Regions, Cell
    <2>4. \A p \in Cell : p \in DataCells(c) \/ c.buf[p] = 0
      BY <2>3, EndType DEF FreeCellsAreZero, Cell
    <2> QED
      BY <2>1, <2>4 DEF FreeCellsAreZero, CleansUp
  <1>8. CASE reset
    <2>1. c' = Cleared
      BY <1>8 DEF reset
    <2> QED
      BY <2>1 DEF FreeCellsAreZero, Cleared
  <1>9. CASE UNCHANGED vars
    BY <1>9 DEF vars, FreeCellsAreZero, DataCells, Count
  <1> QED
    BY <1>2, <1>3, <1>4, <1>5, <1>6, <1>7, <1>8, <1>9 DEF Next

\* A cell that holds no data is zero unless the producer has placed a byte
\* there that it has not pushed.
THEOREM SpecFreeCellsAreZero == Spec => []FreeCellsAreZero
  <1>1. Init => FreeCellsAreZero
    BY DEF Init, FreeCellsAreZero, Cleared
  <1>2. Inv /\ FreeCellsAreZero /\ [Next]_vars => FreeCellsAreZero'
    BY NextFreeCells
  <1> QED
    BY <1>1, <1>2, InitInv, NextInv, PTL DEF Spec

-----------------------------------------------------------------------------
(***************************************************************************)
(* Refinement: under q <- Contents(c) every step is one of the queue's.    *)
(***************************************************************************)
\* The constructor leaves what the queue begins with.
LEMMA InitMaps == Init => Fifo!Init
  BY ClearedType DEF Init, Fifo!Init

\* Every step of the machine is one of the queue's, or none.
LEMMA StepMaps ==
  ASSUME Inv, [Next]_vars
  PROVE  [Fifo!Next]_<<Contents(c), out>>
  <1> DEFINE q == Contents(c)
  <1>0. /\ c \in CycBufs /\ q \in Seq(Byte) /\ Len(q) = Count(c)
        /\ Count(c) \in Nat /\ Count(c) <= End
        /\ fill \in Blocks /\ fill \in Seq(Byte) /\ Len(fill) \in Nat
    BY CountType, ContentsType, EndType, BlocksAreSequences, LenProperties DEF Inv, TypeOK
  <1>b. Fifo!Blocks = Blocks
    BY DEF Fifo!Blocks, Blocks
  <1>1. CASE \E bs \in Blocks : writecopy(bs)
    <2>1. PICK bs \in Blocks : writecopy(bs)
      BY <1>1
    <2> DEFINE k == WriteCopy(c, bs).n
    <2>2. bs \in Seq(Byte)
      BY BlocksAreSequences
    <2>3. /\ k \in 0 .. Len(bs)
          /\ Len(q) + k <= End
          /\ k < Len(bs) => Len(q) + k >= End - 1
          /\ Contents(WriteCopy(c, bs).buf) = q \o SubSeq(bs, 1, k)
      BY <1>0, <2>2, WriteCopyAppends
    <2>4. /\ c' = WriteCopy(c, bs).buf
          /\ out' = Fifo!Moved("write", Len(bs), SubSeq(bs, 1, k))
      BY <2>1 DEF writecopy
    <2>5. q' = q \o SubSeq(bs, 1, k)
      BY <2>3, <2>4
    <2> HIDE DEF k, q
    <2>6. Fifo!Write(bs)
      BY <2>3, <2>4, <2>5 DEF Fifo!Write, q
    <2> QED
      BY <1>b, <2>6 DEF Fifo!Next
  <1>2. CASE getWriteTail \/ getReadHead
    <2>1. q' = q /\ out' = Fifo!Quiet
      BY <1>0, <1>2, WriteReadyContents, ReadReadyContents DEF getWriteTail, getReadHead
    <2> QED
      BY <2>1 DEF Fifo!Next, Fifo!Look
  <1>3. CASE \E bs \in Blocks : FillTail(bs)
    <2>1. PICK bs \in Blocks : FillTail(bs)
      BY <1>3
    <2>2. /\ wr.ok /\ Len(bs) <= wr.n
          /\ c' = [c EXCEPT !.buf = Place(c.buf, wr.at, bs)] /\ out' = Fifo!Quiet
      BY <2>1 DEF FillTail
    <2>3. /\ c.tail = wr.at /\ wr.n <= WriteAvail(c) /\ wr.at + wr.n <= End
          /\ wr.n \in Nat /\ wr.at \in Nat
      BY <2>2, EndType DEF Inv, TypeOK, WriterKeepsRegion, Regions, Cell
    <2>4. /\ bs \in Seq(Byte) /\ Len(bs) \in Nat /\ WriteAvail(c) \in Nat
      BY <1>0, BlocksAreSequences, LenProperties, AvailType
    <2>5. Len(bs) <= WriteAvail(c) /\ c.tail + Len(bs) <= End
      BY <2>2, <2>3, <2>4, EndType
    <2>6. q' = q
      BY <1>0, <2>2, <2>3, <2>4, <2>5, PlaceSparesContents
    <2> QED
      BY <2>2, <2>6 DEF Fifo!Next, Fifo!Look
  <1>4. CASE pushWriteTail
    <2>1. /\ wr.ok /\ c' = AfterPushWriteTail(c, Len(fill))
          /\ out' = Fifo!Moved("commit", Len(fill), fill)
      BY <1>4 DEF pushWriteTail
    <2>2. c' = AfterWriteChunk(c, fill) /\ WriteChunk(c, fill) = Len(fill)
      BY <2>1, FillCommits
    <2>3. Len(q) + Len(fill) <= End
      BY <1>0, <2>2, WriteChunkType
    <2>4. q' = q \o SubSeq(fill, 1, Len(fill))
      BY <1>0, <2>2, WriteChunkContents
    <2>5. SubSeq(fill, 1, Len(fill)) = fill
      BY <1>0, SubSeqFull
    <2> HIDE DEF q
    <2>6. q' = q \o fill
      BY <2>4, <2>5, Zenon
    <2>7. Fifo!Commit(fill)
      BY <2>1, <2>3, <2>6 DEF Fifo!Commit, q
    <2> QED
      BY <1>0, <1>b, <2>7 DEF Fifo!Next
  <1>5. CASE \E n \in 0 .. MaxRequest : readcopy(n)
    <2>1. PICK n \in 0 .. MaxRequest : readcopy(n)
      BY <1>5
    <2> DEFINE k == Least(n, Len(q))
    <2>2. n \in Nat
      BY MaxRequestAssumption
    <2>3. /\ ReadCopy(c, n).bytes = SubSeq(q, 1, k)
          /\ Contents(ReadCopy(c, n).buf) = SubSeq(q, k + 1, Len(q))
      BY <1>0, <2>2, ReadCopyTakesPrefix
    <2>4. /\ c' = ReadCopy(c, n).buf
          /\ out' = Fifo!Moved("read", n, ReadCopy(c, n).bytes)
      BY <2>1 DEF readcopy
    <2>5. k = Fifo!Smaller(n, Len(q))
      BY DEF Least, Fifo!Smaller
    <2> HIDE DEF k
    <2>6. Fifo!Read(n)
      BY <2>3, <2>4, <2>5 DEF Fifo!Read
    <2> QED
      BY <2>6 DEF Fifo!Next
  <1>6. CASE \E n \in 0 .. MaxRequest : pushReadHead(n)
    <2>1. PICK n \in 0 .. MaxRequest : pushReadHead(n)
      BY <1>6
    <2>2. /\ rd.ok /\ n <= rd.n /\ c' = AfterPushReadHead(c, n)
          /\ out' = Fifo!Moved("release", n, Region(c, rd.at, n))
      BY <2>1 DEF pushReadHead
    <2>3. n \in Nat
      BY MaxRequestAssumption
    <2>4. /\ Region(c, rd.at, n) = SubSeq(q, 1, n) /\ ReadChunk(c, n) = n
          /\ n <= Count(c)
      BY <2>2, <2>3, HeldIsReleased
    <2>5. q' = SubSeq(q, n + 1, Len(q))
      BY <1>0, <2>2, <2>3, <2>4, PushReadHeadContents
    <2>6. Fifo!Release(n)
      BY <1>0, <2>2, <2>4, <2>5 DEF Fifo!Release
    <2> QED
      BY <2>6 DEF Fifo!Next
  <1>7. CASE reset
    <2>1. q' = << >> /\ out' = Fifo!Quiet
      BY <1>7, ClearedType DEF reset
    <2> QED
      BY <2>1 DEF Fifo!Next, Fifo!Forget
  <1>8. CASE UNCHANGED vars
    BY <1>8 DEF vars
  <1> QED
    BY <1>1, <1>2, <1>3, <1>4, <1>5, <1>6, <1>7, <1>8 DEF Next

\* The cyclic buffer, with copying and in-place users interleaved in any way,
\* is a bounded first-in first-out queue of End bytes.
THEOREM SpecRefinesByteFifo == Spec => RefinesByteFifo
  <1>1. Inv /\ [Next]_vars => [Fifo!Next]_<<Contents(c), out>>
    BY StepMaps
  <1> QED
    BY <1>1, InitInv, NextInv, InitMaps, PTL DEF Spec, RefinesByteFifo, Fifo!Spec
=============================================================================
