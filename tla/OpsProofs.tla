------------------------------ MODULE OpsProofs ------------------------------
(***************************************************************************)
(* The lemmas about the operators the state machines are built from, which *)
(* hold for every value of the constants.                                  *)
(*                                                                         *)
(* CycBufOps: each method leaves a buffer, and moves exactly the bytes it  *)
(* should.                                                                 *)
(*                                                                         *)
(* ServerOps: what the methods of class server do to its record, that is   *)
(* to the memory and the elements of its vectors, to the sockets of its    *)
(* records, to mfdAll and to mfdMax.                                       *)
(***************************************************************************)
EXTENDS CycBufOps, ServerOps, SequenceTheorems, FiniteSetTheorems,
        WellFoundedInduction, TLAPS

-----------------------------------------------------------------------------
(***************************************************************************)
(* The cyclic buffer.                                                      *)
(***************************************************************************)

\* mpEnd is a cell of its own, behind at least two usable ones.
LEMMA EndType == End \in Nat /\ End >= 2 /\ End + 1 = Size
  BY SizeAssumption DEF End

\* The macro min returns a number no larger than either argument.
LEMMA LeastType ==
  ASSUME NEW x \in Nat, NEW y \in Nat
  PROVE  Least(x, y) \in Nat /\ Least(x, y) <= x /\ Least(x, y) <= y
  BY DEF Least

\* The constructor leaves an empty buffer.
LEMMA ClearedType ==
  Cleared \in CycBufs /\ Contents(Cleared) = << >>
  <1>1. Cleared \in CycBufs
    BY EndType, ByteAssumption DEF Cleared, CycBufs, Cell
  <1>2. Count(Cleared) = 0
    BY EndType DEF Cleared, Count
  <1>3. 1 .. 0 = {}
    OBVIOUS
  <1>4. Contents(Cleared) = [i \in {} |-> Cleared.buf[Slot(Cleared.head + i - 1)]]
    BY <1>2, <1>3 DEF Contents
  <1>5. [i \in {} |-> Cleared.buf[Slot(Cleared.head + i - 1)]] = << >>
    BY SMT
  <1> QED
    BY <1>1, <1>4, <1>5

\* The number of bytes held never exceeds the usable cells.
LEMMA CountType ==
  ASSUME NEW c \in CycBufs
  PROVE  Count(c) \in 0 .. End
  BY EndType DEF CycBufs, Cell, Count

\* Every byte the buffer holds lies in a usable cell, below mpEnd.
LEMMA SlotType ==
  ASSUME NEW c \in CycBufs, NEW i \in 1 .. Count(c)
  PROVE  Slot(c.head + i - 1) \in Cell /\ Slot(c.head + i - 1) < End
  BY EndType DEF CycBufs, Cell, Count, Slot

\* What the buffer holds is a sequence of bytes as long as its count.
LEMMA ContentsType ==
  ASSUME NEW c \in CycBufs
  PROVE  /\ Contents(c) \in Seq(Byte)
         /\ Len(Contents(c)) = Count(c)
         /\ \A i \in 1 .. Count(c) : Contents(c)[i] = c.buf[Slot(c.head + i - 1)]
  <1>1. Count(c) \in Nat
    BY CountType
  <1>2. \A i \in 1 .. Count(c) : c.buf[Slot(c.head + i - 1)] \in Byte
    BY SlotType DEF CycBufs
  <1>3. Contents(c) \in [1 .. Count(c) -> Byte]
    BY <1>2 DEF Contents
  <1> QED
    BY <1>1, <1>3 DEF Contents

\* isReadReady and isWriteReady move a pointer and leave the queue alone.
LEMMA ReadReadyType ==
  ASSUME NEW c \in CycBufs
  PROVE  /\ ReadReady(c) \in CycBufs
         /\ ReadReady(c).tail = c.tail
         /\ ReadReady(c).buf = c.buf
         /\ Count(ReadReady(c)) = Count(c)
         /\ IsEmpty(ReadReady(c)) = IsEmpty(c)
         /\ ~IsEmpty(c) => ReadReady(c).head < End
  BY EndType DEF CycBufs, Cell, ReadReady, IsEmpty, Count

\* isReadReady, which may restart the head, leaves the queue alone.
LEMMA ReadReadyContents ==
  ASSUME NEW c \in CycBufs
  PROVE  Contents(ReadReady(c)) = Contents(c)
  <1>1. \A i \in 1 .. Count(c) :
          Slot(ReadReady(c).head + i - 1) = Slot(c.head + i - 1)
    BY EndType DEF CycBufs, Cell, ReadReady, IsEmpty, Count, Slot
  <1> QED
    BY <1>1, ReadReadyType DEF Contents

\* isWriteReady leaves a buffer with the same head, whose tail, unless it is
\* full, is below mpEnd.
LEMMA WriteReadyType ==
  ASSUME NEW c \in CycBufs
  PROVE  /\ WriteReady(c) \in CycBufs
         /\ WriteReady(c).head = c.head
         /\ WriteReady(c).buf = c.buf
         /\ Count(WriteReady(c)) = Count(c)
         /\ ~IsFull(c) => WriteReady(c).tail < End
  BY EndType DEF CycBufs, Cell, WriteReady, IsFull, Count

\* isWriteReady, which may restart the tail, leaves the queue alone.
LEMMA WriteReadyContents ==
  ASSUME NEW c \in CycBufs
  PROVE  Contents(WriteReady(c)) = Contents(c)
  BY WriteReadyType DEF Contents

-----------------------------------------------------------------------------
\* Reading.

\* isEmpty holds exactly of the buffers that hold no byte.
LEMMA EmptyIsNoBytes ==
  ASSUME NEW c \in CycBufs
  PROVE  IsEmpty(c) <=> Count(c) = 0
  BY EndType DEF CycBufs, Cell, IsEmpty, Count

\* A buffer that is not empty shows its reader at least one byte, all of
\* them in usable cells.
LEMMA ReadAvailType ==
  ASSUME NEW c \in CycBufs, ~IsEmpty(c)
  PROVE  /\ ReadAvail(ReadReady(c)) \in 1 .. Count(c)
         /\ ReadReady(c).head + ReadAvail(ReadReady(c)) <= End
         /\ ReadReady(c).head + ReadAvail(ReadReady(c)) = End
              \/ ReadAvail(ReadReady(c)) = Count(c)
         /\ ReadHeadRegion(c).ok
         /\ ReadHeadRegion(c).at = ReadReady(c).head
         /\ ReadHeadRegion(c).n = ReadAvail(ReadReady(c))
  <1>1. /\ ReadReady(c) \in CycBufs
        /\ Count(ReadReady(c)) = Count(c)
        /\ ~IsEmpty(ReadReady(c))
        /\ ReadReady(c).head < End
    BY ReadReadyType
  <1>2. ASSUME NEW r \in CycBufs, ~IsEmpty(r), r.head < End
        PROVE  /\ ReadAvail(r) \in 1 .. Count(r)
               /\ r.head + ReadAvail(r) <= End
               /\ r.head + ReadAvail(r) = End \/ ReadAvail(r) = Count(r)
    BY <1>2, EndType DEF CycBufs, Cell, IsEmpty, Count, ReadAvail
  <1>3. /\ ReadHeadRegion(c).ok
        /\ ReadHeadRegion(c).at = ReadReady(c).head
        /\ ReadHeadRegion(c).n = ReadAvail(ReadReady(c))
    BY DEF ReadHeadRegion, RegionAt
  <1> QED
    BY <1>1, <1>2, <1>3

\* The chunk a read moves is never longer than what was asked for or held.
LEMMA ReadChunkType ==
  ASSUME NEW c \in CycBufs, NEW s \in Nat
  PROVE  /\ ReadChunk(c, s) \in Nat
         /\ ReadChunk(c, s) <= s
         /\ ReadChunk(c, s) <= Count(c)
         /\ IsEmpty(c) => ReadChunk(c, s) = 0
         /\ ~IsEmpty(c) => ReadChunk(c, s) = Least(s, ReadAvail(ReadReady(c)))
  <1>0. Count(c) \in Nat
    BY CountType
  <1>1. CASE IsEmpty(c)
    BY <1>0, <1>1 DEF ReadChunk, ReadHeadRegion, NoRegion, Least
  <1>2. CASE ~IsEmpty(c)
    BY <1>0, <1>2, ReadAvailType DEF ReadChunk, Least
  <1> QED
    BY <1>1, <1>2

\* The bytes behind the read head are the oldest of the queue.
LEMMA ReadChunkIsPrefix ==
  ASSUME NEW c \in CycBufs, NEW s \in Nat
  PROVE  ReadChunkBytes(c, s) = SubSeq(Contents(c), 1, ReadChunk(c, s))
  <1> DEFINE k == ReadChunk(c, s)
             at == ReadHeadRegion(c).at
  <1>1. k \in Nat /\ k <= Count(c) /\ Count(c) \in Nat
    BY ReadChunkType, CountType
  <1>2. \A i \in 1 .. k : c.buf[at + i - 1] = Contents(c)[i]
    <2> SUFFICES ASSUME NEW i \in 1 .. k
                 PROVE  c.buf[at + i - 1] = Contents(c)[i]
      OBVIOUS
    <2>1. ~IsEmpty(c)
      BY <1>1, ReadChunkType
    <2>2. /\ at = ReadReady(c).head
          /\ k <= ReadAvail(ReadReady(c))
          /\ at + ReadAvail(ReadReady(c)) <= End
          /\ at \in Nat
          /\ ReadAvail(ReadReady(c)) \in Nat
      <3>1. /\ at = ReadReady(c).head
            /\ at + ReadAvail(ReadReady(c)) <= End
            /\ ReadAvail(ReadReady(c)) \in 1 .. Count(c)
        BY <2>1, ReadAvailType
      <3>2. ReadReady(c).head \in Nat
        BY ReadReadyType, EndType DEF CycBufs, Cell
      <3>3. ReadAvail(ReadReady(c)) \in Nat
        BY <3>1, <1>1
      <3>4. k = Least(s, ReadAvail(ReadReady(c)))
        BY <2>1, ReadChunkType
      <3> QED
        BY <3>1, <3>2, <3>3, <3>4, LeastType
    <2>3. Slot(at + i - 1) = at + i - 1
      BY <2>2, <1>1, EndType DEF Slot
    <2>4. i \in 1 .. Count(ReadReady(c))
      BY <1>1, ReadReadyType
    <2>5. Contents(ReadReady(c))[i] = ReadReady(c).buf[Slot(ReadReady(c).head + i - 1)]
      BY <2>4, ReadReadyType, ContentsType
    <2> QED
      BY <2>2, <2>3, <2>5, ReadReadyType, ReadReadyContents
  <1>3. ReadChunkBytes(c, s) = [i \in 1 .. k |-> Contents(c)[i]]
    BY <1>2 DEF ReadChunkBytes, Region
  <1>4. SubSeq(Contents(c), 1, k) = [i \in 1 .. k |-> Contents(c)[i]]
    <2>1. Contents(c) \in Seq(Byte) /\ Len(Contents(c)) = Count(c)
      BY ContentsType
    <2>2. \A i \in 1 .. k : Contents(c)[i] \in Byte
      BY <1>1, <2>1, ElementOfSeq
    <2>3. /\ SubSeq(Contents(c), 1, k) \in Seq(Byte)
          /\ Len(SubSeq(Contents(c), 1, k)) = k
          /\ \A i \in 1 .. k : SubSeq(Contents(c), 1, k)[i] = Contents(c)[i]
      BY <1>1, <2>1, <2>2
    <2> QED
      BY <1>1, <2>3
  <1> QED
    BY <1>3, <1>4

\* pushReadHead drops exactly that chunk.
LEMMA PushReadHeadType ==
  ASSUME NEW c \in CycBufs, NEW s \in Nat
  PROVE  /\ AfterPushReadHead(c, s) \in CycBufs
         /\ AfterPushReadHead(c, s).tail = c.tail
         /\ Count(AfterPushReadHead(c, s)) = Count(c) - ReadChunk(c, s)
         /\ ReadChunk(c, s) < s =>
              \/ IsEmpty(AfterPushReadHead(c, s))
              \/ AfterPushReadHead(c, s).head = End
  <1>1. CASE IsEmpty(c)
    BY <1>1, ReadChunkType, CountType DEF AfterPushReadHead
  <1>2. CASE ~IsEmpty(c)
    <2> DEFINE r == ReadReady(c)
               k == Least(s, ReadAvail(r))
               d == AfterPushReadHead(c, s)
    <2>1. /\ r \in CycBufs /\ r.head < End /\ r.tail = c.tail
          /\ ~IsEmpty(r) /\ Count(r) = Count(c)
      BY <1>2, ReadReadyType
    <2>2. k \in Nat /\ k <= ReadAvail(r) /\ k = ReadChunk(c, s) /\ (k < s => k = ReadAvail(r))
      BY <1>2, ReadAvailType, ReadChunkType, CountType DEF Least
    <2>3. d = [head |-> r.head + k, tail |-> r.tail, buf |-> Wipe(r.buf, r.head, k)]
      BY <1>2 DEF AfterPushReadHead
    <2>4. Wipe(r.buf, r.head, k) \in [Cell -> Byte]
      BY <2>1, ByteAssumption DEF Wipe, CycBufs
    <2>5. r.head + ReadAvail(r) <= End /\ ReadAvail(r) \in Nat
          /\ (r.head + ReadAvail(r) = End \/ ReadAvail(r) = Count(c))
      BY <1>2, ReadAvailType, CountType
    <2>6. d \in CycBufs
      BY <2>1, <2>2, <2>3, <2>4, <2>5, EndType DEF CycBufs, Cell
    <2>7. Count(d) = Count(r) - k
      BY <2>1, <2>2, <2>3, <2>5, EndType DEF CycBufs, Cell, Count, ReadAvail, IsEmpty
    <2>8. k < s => IsEmpty(d) \/ d.head = End
      <3> SUFFICES ASSUME k < s, d.head # End
                   PROVE  IsEmpty(d)
        OBVIOUS
      <3>1. Count(d) = 0
        BY <2>1, <2>2, <2>3, <2>5, <2>7, CountType
      <3> QED
        BY <3>1, <2>6, EmptyIsNoBytes
    <2> HIDE DEF d
    <2> QED
      BY <2>1, <2>2, <2>3, <2>6, <2>7, <2>8 DEF d
  <1> QED
    BY <1>1, <1>2

\* A subsequence of a sequence: its type, its length and its elements.
LEMMA SubSeqOfSeq ==
  ASSUME NEW S, NEW q \in Seq(S), NEW m \in Nat, NEW n \in Nat,
         m >= 1, n <= Len(q), m <= n + 1
  PROVE  /\ SubSeq(q, m, n) \in Seq(S)
         /\ Len(SubSeq(q, m, n)) = n + 1 - m
         /\ \A i \in 1 .. (n + 1 - m) : SubSeq(q, m, n)[i] = q[m + i - 1]
  <1>1. \A i \in m .. n : q[i] \in S
    <2> SUFFICES ASSUME NEW i \in m .. n
                 PROVE  q[i] \in S
      OBVIOUS
    <2>1. i \in 1 .. Len(q)
      OBVIOUS
    <2> QED
      BY <2>1, ElementOfSeq
  <1>2. /\ SubSeq(q, m, n) \in Seq(S)
        /\ Len(SubSeq(q, m, n)) = IF m <= n THEN n - m + 1 ELSE 0
        /\ \A i \in 1 .. n - m + 1 : SubSeq(q, m, n)[i] = q[m + i - 1]
    BY <1>1, SubSeqProperties, m \in Int, n \in Int
  <1> QED
    BY <1>2

\* Taking a prefix in two parts, and dropping one in two parts.
LEMMA SplitPrefix ==
  ASSUME NEW S, NEW q \in Seq(S), NEW a \in Nat, NEW b \in Nat, a + b <= Len(q)
  PROVE  SubSeq(q, 1, a) \o SubSeq(SubSeq(q, a + 1, Len(q)), 1, b) = SubSeq(q, 1, a + b)
  <1>0. Len(q) \in Nat
    BY LenProperties
  <1> DEFINE n == Len(q)
             t == SubSeq(q, a + 1, n)
             u == SubSeq(q, 1, a)
             v == SubSeq(t, 1, b)
             x == SubSeq(q, 1, a + b)
  <1>1. /\ t \in Seq(S) /\ Len(t) = n - a
        /\ \A i \in 1 .. n - a : t[i] = q[a + i]
    <2>1. /\ t \in Seq(S) /\ Len(t) = n + 1 - (a + 1)
          /\ \A i \in 1 .. (n + 1 - (a + 1)) : t[i] = q[(a + 1) + i - 1]
      BY <1>0, SubSeqOfSeq, a + 1 \in Nat, a + 1 >= 1, a + 1 <= n + 1
    <2> QED
      BY <2>1, <1>0
  <1>2. /\ u \in Seq(S) /\ Len(u) = a /\ \A i \in 1 .. a : u[i] = q[i]
    <2>1. /\ u \in Seq(S) /\ Len(u) = a + 1 - 1
          /\ \A i \in 1 .. (a + 1 - 1) : u[i] = q[1 + i - 1]
      BY <1>0, SubSeqOfSeq, 1 \in Nat, a <= n, 1 <= a + 1
    <2> QED
      BY <2>1
  <1>3. /\ x \in Seq(S) /\ Len(x) = a + b /\ \A i \in 1 .. a + b : x[i] = q[i]
    <2>1. /\ x \in Seq(S) /\ Len(x) = a + b + 1 - 1
          /\ \A i \in 1 .. (a + b + 1 - 1) : x[i] = q[1 + i - 1]
      BY <1>0, SubSeqOfSeq, 1 \in Nat, a + b \in Nat, 1 <= a + b + 1
    <2> QED
      BY <2>1
  <1>4. /\ v \in Seq(S) /\ Len(v) = b /\ \A i \in 1 .. b : v[i] = q[a + i]
    <2> HIDE DEF t
    <2>1. /\ v \in Seq(S) /\ Len(v) = b + 1 - 1
          /\ \A i \in 1 .. (b + 1 - 1) : v[i] = t[1 + i - 1]
      BY <1>0, <1>1, SubSeqOfSeq, 1 \in Nat, b <= n - a, 1 <= b + 1
    <2> QED
      BY <2>1, <1>1, <1>0
  <1> HIDE DEF t, u, v, x
  <1> DEFINE y == u \o v
  <1>5. /\ y \in Seq(S) /\ Len(y) = a + b
        /\ \A i \in 1 .. a + b : y[i] = IF i <= a THEN u[i] ELSE v[i - a]
    BY <1>2, <1>4, ConcatProperties
  <1> HIDE DEF y
  <1>6. ASSUME NEW i \in 1 .. a + b
        PROVE  y[i] = x[i]
    <2>1. CASE i <= a
      <3>1. i \in 1 .. a
        BY <2>1
      <3> QED
        BY <2>1, <3>1, <1>2, <1>3, <1>5
    <2>2. CASE i > a
      <3>1. i - a \in 1 .. b /\ a + (i - a) = i
        BY <2>2
      <3> QED
        BY <2>2, <3>1, <1>3, <1>4, <1>5
    <2> QED
      BY <2>1, <2>2
  <1>7. y = x
    BY <1>3, <1>5, <1>6, SeqEqual
  <1> QED
    BY <1>7 DEF t, u, v, x, y

\* Dropping a bytes and then b bytes drops a + b.
LEMMA SuffixOfSuffix ==
  ASSUME NEW S, NEW q \in Seq(S), NEW a \in Nat, NEW b \in Nat, a + b <= Len(q)
  PROVE  SubSeq(SubSeq(q, a + 1, Len(q)), b + 1, Len(q) - a) = SubSeq(q, a + b + 1, Len(q))
  <1>0. Len(q) \in Nat
    BY LenProperties
  <1> DEFINE n == Len(q)
             t == SubSeq(q, a + 1, n)
             v == SubSeq(t, b + 1, n - a)
             x == SubSeq(q, a + b + 1, n)
  <1>1. /\ t \in Seq(S) /\ Len(t) = n - a
        /\ \A i \in 1 .. n - a : t[i] = q[a + i]
    <2>1. /\ t \in Seq(S) /\ Len(t) = n + 1 - (a + 1)
          /\ \A i \in 1 .. (n + 1 - (a + 1)) : t[i] = q[(a + 1) + i - 1]
      BY <1>0, SubSeqOfSeq, a + 1 \in Nat, a + 1 >= 1, a + 1 <= n + 1
    <2> QED
      BY <2>1, <1>0
  <1>2. /\ x \in Seq(S) /\ Len(x) = n - a - b
        /\ \A i \in 1 .. n - a - b : x[i] = q[a + b + i]
    <2>1. /\ x \in Seq(S) /\ Len(x) = n + 1 - (a + b + 1)
          /\ \A i \in 1 .. (n + 1 - (a + b + 1)) : x[i] = q[(a + b + 1) + i - 1]
      BY <1>0, SubSeqOfSeq, a + b + 1 \in Nat, a + b + 1 >= 1, a + b + 1 <= n + 1
    <2> QED
      BY <2>1, <1>0, SMTT(30)
  <1>3. /\ v \in Seq(S) /\ Len(v) = n - a - b
        /\ \A i \in 1 .. n - a - b : v[i] = t[b + i]
    <2> HIDE DEF t
    <2>1. /\ v \in Seq(S) /\ Len(v) = (n - a) + 1 - (b + 1)
          /\ \A i \in 1 .. ((n - a) + 1 - (b + 1)) : v[i] = t[(b + 1) + i - 1]
      BY <1>0, <1>1, SubSeqOfSeq, b + 1 \in Nat, b + 1 >= 1, n - a \in Nat,
         b + 1 <= n - a + 1
    <2> QED
      BY <2>1, <1>0
  <1> HIDE DEF t, v, x
  <1>4. ASSUME NEW i \in 1 .. n - a - b
        PROVE  v[i] = x[i]
    <2>1. b + i \in 1 .. n - a /\ a + (b + i) = a + b + i
      BY <1>0
    <2> QED
      BY <2>1, <1>1, <1>2, <1>3
  <1>5. v = x
    BY <1>2, <1>3, <1>4, SeqEqual
  <1> QED
    BY <1>5 DEF t, v, x

\* What remains after pushReadHead is the queue without its oldest bytes.
LEMMA PushReadHeadContents ==
  ASSUME NEW c \in CycBufs, NEW s \in Nat
  PROVE  Contents(AfterPushReadHead(c, s))
           = SubSeq(Contents(c), ReadChunk(c, s) + 1, Count(c))
  <1> DEFINE k == ReadChunk(c, s)
             d == AfterPushReadHead(c, s)
             q == Contents(c)
             r == ReadReady(c)
  <1>1. k \in Nat /\ k <= Count(c) /\ Count(c) \in Nat
    BY ReadChunkType, CountType
  <1>2. d \in CycBufs /\ Count(d) = Count(c) - k
    BY PushReadHeadType
  <1>3. /\ Contents(d) \in Seq(Byte)
        /\ Len(Contents(d)) = Count(c) - k
        /\ \A i \in 1 .. Count(c) - k : Contents(d)[i] = d.buf[Slot(d.head + i - 1)]
    BY <1>2, ContentsType
  <1>4. q \in Seq(Byte) /\ Len(q) = Count(c)
    BY ContentsType
  <1>5. /\ SubSeq(q, k + 1, Count(c)) \in Seq(Byte)
        /\ Len(SubSeq(q, k + 1, Count(c))) = Count(c) - k
        /\ \A i \in 1 .. Count(c) - k :
              SubSeq(q, k + 1, Count(c))[i] = q[k + i]
    <2> HIDE DEF q, k
    <2>1. /\ SubSeq(q, k + 1, Count(c)) \in Seq(Byte)
          /\ Len(SubSeq(q, k + 1, Count(c))) = Count(c) + 1 - (k + 1)
          /\ \A i \in 1 .. (Count(c) + 1 - (k + 1)) :
                SubSeq(q, k + 1, Count(c))[i] = q[(k + 1) + i - 1]
      BY <1>1, <1>4, k + 1 \in Nat, k + 1 >= 1, k + 1 <= Count(c) + 1, SubSeqOfSeq
    <2> QED
      BY <2>1, <1>1
  <1>6. ASSUME NEW i \in 1 .. Count(c) - k
        PROVE  d.buf[Slot(d.head + i - 1)] = q[k + i]
    <2>1. CASE IsEmpty(c)
      BY <2>1, <1>1, EmptyIsNoBytes
    <2>2. CASE ~IsEmpty(c)
      <3>1. /\ r \in CycBufs /\ r.head < End /\ r.tail = c.tail
            /\ ~IsEmpty(r) /\ Count(r) = Count(c)
        BY <2>2, ReadReadyType
      <3>2. d = [head |-> r.head + k, tail |-> r.tail, buf |-> Wipe(r.buf, r.head, k)]
        BY <2>2, ReadChunkType DEF AfterPushReadHead
      <3>3. q[k + i] = r.buf[Slot(r.head + (k + i) - 1)]
        <4>1. k + i \in 1 .. Count(r)
          BY <1>1, <3>1
        <4> QED
          BY <4>1, <3>1, ContentsType, ReadReadyContents
      <3>4. Slot(r.head + k + i - 1) \in Cell
        <4>1. k + i \in 1 .. Count(r)
          BY <1>1, <3>1
        <4>2. r.head + (k + i) - 1 = r.head + k + i - 1
          BY <3>1, <1>1, EndType DEF CycBufs, Cell
        <4> QED
          BY <3>1, <4>1, <4>2, SlotType
      <3>5. r.head + k <= End
        <4>1. k = Least(s, ReadAvail(r)) /\ r.head + ReadAvail(r) <= End
              /\ ReadAvail(r) \in 1 .. Count(c)
          BY <2>2, ReadChunkType, ReadAvailType
        <4>2. ReadAvail(r) \in Nat /\ r.head \in Nat
          BY <4>1, <3>1, <1>1, EndType DEF CycBufs, Cell
        <4>3. k <= ReadAvail(r)
          BY <4>1, <4>2, LeastType
        <4> QED
          BY <4>1, <4>2, <4>3, <1>1, EndType
      <3>6. ~(Slot(r.head + k + i - 1) >= r.head /\ Slot(r.head + k + i - 1) < r.head + k)
        BY <3>1, <3>5, <1>1, EndType, SMTT(30) DEF CycBufs, Cell, Slot, Count, IsEmpty
      <3>7. d.buf[Slot(r.head + k + i - 1)] = r.buf[Slot(r.head + k + i - 1)]
        BY <3>2, <3>4, <3>6 DEF Wipe
      <3>8. r.head + (k + i) - 1 = r.head + k + i - 1
        BY <3>1, <1>1, EndType DEF CycBufs, Cell
      <3> HIDE DEF d
      <3> QED
        BY <3>2, <3>3, <3>7, <3>8
    <2> QED
      BY <2>1, <2>2
  <1> HIDE DEF d, q, k
  <1>7. \A i \in 1 .. Len(Contents(d)) :
          Contents(d)[i] = SubSeq(q, k + 1, Count(c))[i]
    BY <1>3, <1>5, <1>6
  <1>8. Contents(d) = SubSeq(q, k + 1, Count(c))
    BY <1>3, <1>5, <1>7, SeqEqual
  <1> QED
    BY <1>8 DEF d, q, k

-----------------------------------------------------------------------------
\* Writing.

\* The contiguous room at the tail ends before mpEnd and never overruns the
\* usable cells.
LEMMA WriteAvailType ==
  ASSUME NEW c \in CycBufs, ~IsFull(c)
  PROVE  /\ WriteAvail(WriteReady(c)) \in Nat
         /\ WriteReady(c).tail + WriteAvail(WriteReady(c)) <= End
         /\ Count(c) + WriteAvail(WriteReady(c)) <= End
         /\ WriteTailRegion(c).ok
         /\ WriteTailRegion(c).at = WriteReady(c).tail
         /\ WriteTailRegion(c).n = WriteAvail(WriteReady(c))
  <1>1. /\ WriteReady(c) \in CycBufs
        /\ Count(WriteReady(c)) = Count(c)
        /\ WriteReady(c).tail < End
    BY WriteReadyType
  <1>2. ASSUME NEW w \in CycBufs, w.tail < End
        PROVE  /\ WriteAvail(w) \in Nat
               /\ w.tail + WriteAvail(w) <= End
               /\ Count(w) + WriteAvail(w) <= End
    BY <1>2, EndType, SMTT(30) DEF CycBufs, Cell, Count, WriteAvail
  <1>3. /\ WriteTailRegion(c).ok
        /\ WriteTailRegion(c).at = WriteReady(c).tail
        /\ WriteTailRegion(c).n = WriteAvail(WriteReady(c))
    BY DEF WriteTailRegion, RegionAt
  <1> QED
    BY <1>1, <1>2, <1>3

\* A chunk of writecopy is no longer than the block or the room left.
LEMMA WriteChunkType ==
  ASSUME NEW c \in CycBufs, NEW bs \in Seq(Byte)
  PROVE  /\ WriteChunk(c, bs) \in Nat
         /\ WriteChunk(c, bs) <= Len(bs)
         /\ Count(c) + WriteChunk(c, bs) <= End
         /\ IsFull(c) => WriteChunk(c, bs) = 0
         /\ ~IsFull(c) => WriteChunk(c, bs) = Least(Len(bs), WriteAvail(WriteReady(c)))
  <1>0. Count(c) \in Nat /\ Count(c) <= End /\ Len(bs) \in Nat
    BY CountType, LenProperties, EndType
  <1>1. CASE IsFull(c)
    BY <1>0, <1>1, EndType DEF WriteChunk, WriteTailRegion, NoRegion, Least
  <1>2. CASE ~IsFull(c)
    BY <1>0, <1>2, WriteAvailType, EndType DEF WriteChunk, Least
  <1> QED
    BY <1>1, <1>2

\* One chunk of writecopy: memcpy at the tail, then the tail moves over it.
LEMMA WriteChunkLeaves ==
  ASSUME NEW c \in CycBufs, NEW bs \in Seq(Byte)
  PROVE  /\ AfterWriteChunk(c, bs) \in CycBufs
         /\ AfterWriteChunk(c, bs).head = c.head
         /\ Count(AfterWriteChunk(c, bs)) = Count(c) + WriteChunk(c, bs)
  <1>0. Len(bs) \in Nat
    BY LenProperties
  <1>1. CASE IsFull(c)
    BY <1>1, CountType, WriteChunkType, EndType DEF AfterWriteChunk
  <1>2. CASE ~IsFull(c)
    <2> DEFINE w == WriteReady(c)
               k == WriteChunk(c, bs)
               d == AfterWriteChunk(c, bs)
    <2>1. /\ w \in CycBufs /\ w.head = c.head /\ Count(w) = Count(c) /\ w.tail < End
      BY <1>2, WriteReadyType
    <2>2. k \in Nat /\ k <= Len(bs)
      BY WriteChunkType
    <2>3. WriteAvail(w) \in Nat /\ w.tail + WriteAvail(w) <= End
      BY <1>2, WriteAvailType
    <2>4. k <= WriteAvail(w)
      BY <1>2, <2>3, <1>0, WriteChunkType, LeastType
    <2>5. d = [head |-> w.head, tail |-> w.tail + k,
               buf |-> Place(w.buf, w.tail, SubSeq(bs, 1, k))]
      BY <1>2 DEF AfterWriteChunk
    <2>6. /\ SubSeq(bs, 1, k) \in Seq(Byte)
          /\ Len(SubSeq(bs, 1, k)) = k
          /\ \A i \in 1 .. k : SubSeq(bs, 1, k)[i] = bs[i]
      <3> HIDE DEF k
      <3> QED
        BY <2>2, <1>0, SubSeqOfSeq, 1 \in Nat
    <2>7. Place(w.buf, w.tail, SubSeq(bs, 1, k)) \in [Cell -> Byte]
      <3>1. ASSUME NEW p \in Cell, p >= w.tail, p < w.tail + k
            PROVE  SubSeq(bs, 1, k)[p - w.tail + 1] \in Byte
        <4>1. p - w.tail + 1 \in 1 .. k
          BY <3>1, <2>1, <2>2, EndType DEF CycBufs, Cell
        <4> HIDE DEF k
        <4> QED
          BY <4>1, <2>6, ElementOfSeq
      <3> HIDE DEF k
      <3> QED
        BY <2>1, <2>6, <3>1 DEF Place, CycBufs
    <2>8. d \in CycBufs
      BY <2>1, <2>2, <2>3, <2>4, <2>5, <2>7, EndType DEF CycBufs, Cell
    <2>9. Count(d) = Count(w) + k
      <3>1. \/ w.head <= w.tail
            \/ w.head > w.tail /\ w.head > w.tail + k
        BY <2>1, <2>2, <2>3, <2>4, EndType DEF CycBufs, Cell, WriteAvail
      <3> HIDE DEF k, w
      <3> QED
        BY <2>1, <2>2, <2>3, <2>4, <2>5, <3>1, EndType DEF CycBufs, Cell, Count
    <2> HIDE DEF d, k
    <2> QED
      BY <2>1, <2>5, <2>8, <2>9 DEF d, k
  <1> QED
    BY <1>1, <1>2

\* Cells of the bytes held before, and of the bytes placed at the tail.
LEMMA WrittenSlots ==
  ASSUME NEW w \in CycBufs, w.tail < End,
         NEW k \in Nat, k <= WriteAvail(w),
         NEW i \in 1 .. (Count(w) + k)
  PROVE  /\ i <= Count(w) =>
              ~(Slot(w.head + i - 1) >= w.tail /\ Slot(w.head + i - 1) < w.tail + k)
         /\ i > Count(w) =>
              /\ Slot(w.head + i - 1) >= w.tail
              /\ Slot(w.head + i - 1) < w.tail + k
              /\ Slot(w.head + i - 1) - w.tail + 1 = i - Count(w)
              /\ i - Count(w) \in 1 .. k
  <1>1. w.head \in Nat /\ w.tail \in Nat /\ w.head <= End
    BY EndType DEF CycBufs, Cell
  <1>2. CASE w.head <= w.tail
    <2>1. Count(w) = w.tail - w.head /\ w.tail + k <= End
      BY <1>1, <1>2, EndType DEF Count, WriteAvail
    <2>2. i \in Nat /\ i >= 1 /\ i <= w.tail - w.head + k
      BY <2>1, <1>1, <1>2
    <2>3. Slot(w.head + i - 1) = w.head + i - 1
      BY <2>1, <2>2, <1>1, EndType DEF Slot
    <2> QED
      BY <2>1, <2>2, <2>3, <1>1, <1>2
  <1>3. CASE w.head > w.tail
    <2>1. Count(w) = End - w.head + w.tail /\ w.tail + k < w.head
      BY <1>1, <1>3, EndType DEF Count, WriteAvail
    <2>2. i \in Nat /\ i >= 1 /\ i <= End - w.head + w.tail + k
      BY <2>1, <1>1, <1>3, EndType
    <2>3. Slot(w.head + i - 1) = IF w.head + i - 1 >= End THEN w.head + i - 1 - End
                                 ELSE w.head + i - 1
      BY <2>2, <1>1, EndType DEF Slot
    <2> QED
      BY <2>1, <2>2, <2>3, <1>1, <1>3, EndType
  <1> QED
    BY <1>1, <1>2, <1>3

\* The bytes of the chunk are appended behind the queue.
LEMMA WriteChunkContents ==
  ASSUME NEW c \in CycBufs, NEW bs \in Seq(Byte)
  PROVE  Contents(AfterWriteChunk(c, bs))
           = Contents(c) \o SubSeq(bs, 1, WriteChunk(c, bs))
  <1> DEFINE w == WriteReady(c)
             k == WriteChunk(c, bs)
             d == AfterWriteChunk(c, bs)
             q == Contents(c)
             n == Count(c)
             t == SubSeq(bs, 1, k)
  <1>0. Len(bs) \in Nat
    BY LenProperties
  <1>1. k \in Nat /\ k <= Len(bs) /\ n \in Nat /\ n + k <= End
    BY WriteChunkType, CountType, EndType
  <1>2. q \in Seq(Byte) /\ Len(q) = n
    BY ContentsType
  <1>3. t \in Seq(Byte) /\ Len(t) = k /\ \A i \in 1 .. k : t[i] = bs[i]
    <2> HIDE DEF k
    <2> QED
      BY <1>1, <1>0, SubSeqOfSeq, 1 \in Nat
  <1>4. /\ d \in CycBufs /\ Count(d) = n + k /\ d.head = c.head
    BY WriteChunkLeaves
  <1>5. /\ Contents(d) \in Seq(Byte) /\ Len(Contents(d)) = n + k
        /\ \A i \in 1 .. n + k : Contents(d)[i] = d.buf[Slot(c.head + i - 1)]
    <2> HIDE DEF d
    <2> QED
      BY <1>4, ContentsType
  <1>6. /\ q \o t \in Seq(Byte) /\ Len(q \o t) = n + k
        /\ \A i \in 1 .. n + k : (q \o t)[i] = IF i <= n THEN q[i] ELSE t[i - n]
    <2> HIDE DEF q, t, n, k
    <2> QED
      BY <1>2, <1>3, ConcatProperties
  <1>7. ASSUME NEW i \in 1 .. n + k, ~IsFull(c)
        PROVE  d.buf[Slot(c.head + i - 1)] = IF i <= n THEN q[i] ELSE t[i - n]
    <2>1. /\ w \in CycBufs /\ w.head = c.head /\ Count(w) = n /\ w.tail < End
          /\ w.buf = c.buf
      BY <1>7, WriteReadyType
    <2>2. WriteAvail(w) \in Nat /\ w.tail + WriteAvail(w) <= End /\ k <= WriteAvail(w)
      BY <1>7, <1>0, WriteAvailType, WriteChunkType, LeastType
    <2>3. d.buf = Place(w.buf, w.tail, t)
      BY <1>7 DEF AfterWriteChunk
    <2>4. Slot(c.head + i - 1) \in Cell
      <3> HIDE DEF d
      <3> QED
        BY <1>4, SlotType
    <2>7. /\ i <= n =>
               ~(Slot(c.head + i - 1) >= w.tail /\ Slot(c.head + i - 1) < w.tail + k)
          /\ i > n =>
               /\ Slot(c.head + i - 1) >= w.tail
               /\ Slot(c.head + i - 1) < w.tail + k
               /\ Slot(c.head + i - 1) - w.tail + 1 = i - n
      <3>1. i \in 1 .. (Count(w) + k)
        BY <2>1
      <3> HIDE DEF w, k
      <3> QED
        BY <2>1, <2>2, <1>1, <3>1, WrittenSlots
    <2>5. CASE i <= n
      <3>1. ~(Slot(c.head + i - 1) >= w.tail /\ Slot(c.head + i - 1) < w.tail + k)
        BY <2>5, <2>7
      <3>2. d.buf[Slot(c.head + i - 1)] = c.buf[Slot(c.head + i - 1)]
        <4> HIDE DEF d, w, t, k
        <4> QED
          BY <2>1, <2>3, <2>4, <3>1, <1>3 DEF Place
      <3>3. i \in 1 .. Count(c)
        BY <2>5, <1>1
      <3>4. q[i] = c.buf[Slot(c.head + i - 1)]
        BY <3>3, ContentsType
      <3> QED
        BY <2>5, <3>2, <3>4
    <2>6. CASE i > n
      <3>3. /\ Slot(c.head + i - 1) >= w.tail /\ Slot(c.head + i - 1) < w.tail + k
            /\ Slot(c.head + i - 1) - w.tail + 1 = i - n
        BY <2>6, <2>7
      <3>4. d.buf[Slot(c.head + i - 1)] = t[i - n]
        <4> HIDE DEF d, w, t, k
        <4> QED
          BY <2>3, <2>4, <3>3, <1>3 DEF Place
      <3> QED
        BY <2>6, <3>4, <1>1
    <2> QED
      BY <2>5, <2>6, <1>1
  <1>8. ASSUME NEW i \in 1 .. n + k, IsFull(c)
        PROVE  d.buf[Slot(c.head + i - 1)] = IF i <= n THEN q[i] ELSE t[i - n]
    <2>1. k = 0 /\ d = c
      BY <1>8, WriteChunkType DEF AfterWriteChunk
    <2>2. i \in 1 .. Count(c)
      BY <2>1, <1>1
    <2>3. q[i] = c.buf[Slot(c.head + i - 1)]
      BY <2>2, ContentsType
    <2> HIDE DEF d, k
    <2> QED
      BY <2>1, <2>2, <2>3, <1>1
  <1> HIDE DEF d, q, t, n, k
  <1>9. \A i \in 1 .. Len(Contents(d)) : Contents(d)[i] = (q \o t)[i]
    BY <1>5, <1>6, <1>7, <1>8
  <1>10. Contents(d) = q \o t
    BY <1>5, <1>6, <1>9, SeqEqual
  <1> QED
    BY <1>10 DEF d, q, t, k

-----------------------------------------------------------------------------
\* The whole copies.

\* readcopy takes as many of the oldest bytes as were asked for, or all.
LEMMA ReadCopyTakesPrefix ==
  ASSUME NEW c \in CycBufs, NEW s \in Nat
  PROVE  LET k == Least(s, Count(c))
         IN  /\ ReadCopy(c, s).buf \in CycBufs
             /\ ReadCopy(c, s).buf.tail = c.tail
             /\ ReadCopy(c, s).bytes = SubSeq(Contents(c), 1, k)
             /\ Contents(ReadCopy(c, s).buf) = SubSeq(Contents(c), k + 1, Count(c))
  <1> DEFINE c1 == AfterPushReadHead(c, s)
             k1 == ReadChunk(c, s)
             rest == s - k1
             k2 == ReadChunk(c1, rest)
             c2 == AfterPushReadHead(c1, rest)
             q == Contents(c)
             n == Count(c)
  <1>1. k1 \in Nat /\ k1 <= s /\ k1 <= n /\ n \in Nat
    BY ReadChunkType, CountType
  <1>2. q \in Seq(Byte) /\ Len(q) = n
    BY ContentsType
  <1>3. c1 \in CycBufs /\ c1.tail = c.tail /\ Count(c1) = n - k1
        /\ (k1 < s => IsEmpty(c1) \/ c1.head = End)
    BY PushReadHeadType
  <1>4. Contents(c1) = SubSeq(q, k1 + 1, n)
    BY PushReadHeadContents
  <1>5. ReadChunkBytes(c, s) = SubSeq(q, 1, k1)
    BY ReadChunkIsPrefix
  <1>6. CASE rest = 0
    <2>1. k1 = s /\ Least(s, n) = k1
      BY <1>1, <1>6 DEF Least
    <2>2. ReadCopy(c, s) = [buf |-> c1, bytes |-> ReadChunkBytes(c, s)]
      BY <1>6 DEF ReadCopy
    <2> HIDE DEF c1, k1, q, n
    <2> QED
      BY <2>1, <2>2, <1>3, <1>4, <1>5 DEF q, n
  <1>7. CASE rest # 0
    <2>1. ReadCopy(c, s) = [buf |-> c2, bytes |-> ReadChunkBytes(c, s) \o ReadChunkBytes(c1, rest)]
      BY <1>7 DEF ReadCopy
    <2>2. rest \in Nat /\ k1 < s
      BY <1>1, <1>7
    <2> HIDE DEF c1, k1, rest
    <2>3. k2 \in Nat /\ k2 <= rest /\ k2 <= Count(c1)
      BY <1>3, <2>2, ReadChunkType
    <2>4. c2 \in CycBufs /\ c2.tail = c1.tail /\ Count(c2) = Count(c1) - k2
      BY <1>3, <2>2, PushReadHeadType
    <2>5. Contents(c2) = SubSeq(Contents(c1), k2 + 1, Count(c1))
      BY <1>3, <2>2, PushReadHeadContents
    <2>6. ReadChunkBytes(c1, rest) = SubSeq(Contents(c1), 1, k2)
      BY <1>3, <2>2, ReadChunkIsPrefix
    <2>7. k2 = Least(rest, Count(c1))
      <3>1. CASE IsEmpty(c1)
        BY <3>1, <2>2, <2>3, <1>1, <1>3, ReadChunkType, EmptyIsNoBytes DEF Least
      <3>2. CASE ~IsEmpty(c1)
        <4>1. c1.head = End
          BY <3>2, <2>2, <1>3
        <4>2. ReadReady(c1) = [c1 EXCEPT !.head = 0]
          BY <3>2, <4>1, EndType DEF ReadReady
        <4>3. ReadAvail(ReadReady(c1)) = Count(c1)
          BY <3>2, <4>1, <4>2, <1>3, EndType
             DEF ReadAvail, Count, IsEmpty, CycBufs, Cell
        <4> QED
          BY <3>2, <4>3, <1>3, <2>2, ReadChunkType
      <3> QED
        BY <3>1, <3>2
    <2>8. k1 + k2 = Least(s, n) /\ k1 + k2 <= n
      <3> HIDE DEF n, k2
      <3> QED
        BY <2>7, <2>3, <1>1, <1>3, <2>2 DEF Least, rest
    <2> HIDE DEF k2, c2, q, n
    <2>9. SubSeq(q, 1, k1) \o SubSeq(SubSeq(q, k1 + 1, n), 1, k2) = SubSeq(q, 1, k1 + k2)
      BY <1>1, <1>2, <2>3, <2>8, SplitPrefix
    <2>10. SubSeq(SubSeq(q, k1 + 1, n), k2 + 1, n - k1) = SubSeq(q, k1 + k2 + 1, n)
      BY <1>1, <1>2, <2>3, <2>8, SuffixOfSuffix
    <2>11. ReadCopy(c, s).bytes = SubSeq(q, 1, k1 + k2)
      <3>1. ReadChunkBytes(c1, rest) = SubSeq(SubSeq(q, k1 + 1, n), 1, k2)
        BY <2>6, <1>4, Zenon
      <3>2. ReadCopy(c, s).bytes = ReadChunkBytes(c, s) \o ReadChunkBytes(c1, rest)
        BY <2>1
      <3> QED
        BY <3>1, <3>2, <2>9, <1>5, Zenon
    <2>12. /\ ReadCopy(c, s).buf = c2
           /\ Contents(c2) = SubSeq(q, k1 + k2 + 1, n)
      <3>1. ReadCopy(c, s).buf = c2
        BY <2>1
      <3>2. Contents(c2) = SubSeq(SubSeq(q, k1 + 1, n), k2 + 1, n - k1)
        BY <2>5, <1>3, <1>4, Zenon
      <3> QED
        BY <3>1, <3>2, <2>10, Zenon
    <2> QED
      BY <2>4, <2>8, <2>11, <2>12, <1>3 DEF q, n
  <1> QED
    BY <1>6, <1>7

\* A write chunk that stopped short left a full buffer, or reached the end of
\* the buffer; a second one that stopped short left at most one usable cell.
LEMMA ShortChunk ==
  ASSUME NEW c \in CycBufs, NEW bs \in Seq(Byte), WriteChunk(c, bs) < Len(bs)
  PROVE  \/ Count(AfterWriteChunk(c, bs)) >= End - 1
         \/ AfterWriteChunk(c, bs).tail = End
  <1>0. Len(bs) \in Nat
    BY LenProperties
  <1>1. CASE IsFull(c)
    BY <1>1, EndType DEF AfterWriteChunk, IsFull, Count, CycBufs, Cell
  <1>2. CASE ~IsFull(c)
    <2> DEFINE w == WriteReady(c)
               k == WriteChunk(c, bs)
               d == AfterWriteChunk(c, bs)
    <2>1. /\ w \in CycBufs /\ w.head = c.head /\ Count(w) = Count(c) /\ w.tail < End
      BY <1>2, WriteReadyType
    <2>2. WriteAvail(w) \in Nat /\ k \in Nat
      BY <1>2, WriteAvailType, WriteChunkType
    <2>3. k = WriteAvail(w)
      BY <1>2, <1>0, <2>2, WriteChunkType DEF Least
    <2>4. d.head = w.head /\ d.tail = w.tail + k
      BY <1>2 DEF AfterWriteChunk
    <2> HIDE DEF w, k, d
    <2>5. Count(d) >= End - 1 \/ d.tail = End
      BY <2>1, <2>2, <2>3, <2>4, EndType DEF WriteAvail, Count, CycBufs, Cell
    <2> QED
      BY <2>5 DEF d
  <1> QED
    BY <1>1, <1>2

\* After a chunk that began at the start of the buffer and stopped short, at
\* most one cell is free.
LEMMA SecondChunk ==
  ASSUME NEW c \in CycBufs, NEW bs \in Seq(Byte), WriteChunk(c, bs) < Len(bs),
         c.tail = End
  PROVE  Count(AfterWriteChunk(c, bs)) >= End - 1
  <1>1. CASE IsFull(c)
    BY <1>1, EndType DEF AfterWriteChunk, IsFull, Count, CycBufs, Cell
  <1>2. CASE ~IsFull(c)
    <2>0. Len(bs) \in Nat
      BY LenProperties
    <2>1. c.head \in Nat /\ c.head > 0 /\ c.head <= End
      BY <1>2, EndType DEF IsFull, CycBufs, Cell
    <2>2. WriteReady(c) = [c EXCEPT !.tail = 0]
      BY <1>2, EndType DEF WriteReady
    <2>3. WriteAvail(WriteReady(c)) = c.head - 1
      BY <2>1, <2>2 DEF WriteAvail, CycBufs
    <2>4. WriteChunk(c, bs) = c.head - 1
      BY <1>2, <2>0, <2>1, <2>3, WriteChunkType DEF Least
    <2>5. Count(c) = End - c.head
      BY <2>1, EndType DEF Count
    <2> QED
      BY <2>1, <2>4, <2>5, EndType, WriteChunkLeaves
  <1> QED
    BY <1>1, <1>2

\* writecopy appends a prefix of its block, and stops short only when all but
\* at most one usable cell hold data.
LEMMA WriteCopyAppends ==
  ASSUME NEW c \in CycBufs, NEW bs \in Seq(Byte)
  PROVE  LET k == WriteCopy(c, bs).n
         IN  /\ WriteCopy(c, bs).buf \in CycBufs
             /\ WriteCopy(c, bs).buf.head = c.head
             /\ k \in 0 .. Len(bs)
             /\ Count(c) + k <= End
             /\ k < Len(bs) => Count(c) + k >= End - 1
             /\ Contents(WriteCopy(c, bs).buf) = Contents(c) \o SubSeq(bs, 1, k)
  <1> DEFINE k1 == WriteChunk(c, bs)
             c1 == AfterWriteChunk(c, bs)
             rest == SubSeq(bs, k1 + 1, Len(bs))
             k2 == WriteChunk(c1, rest)
             c2 == AfterWriteChunk(c1, rest)
             q == Contents(c)
  <1>0. Len(bs) \in Nat /\ q \in Seq(Byte)
    BY LenProperties, ContentsType
  <1>1. k1 \in Nat /\ k1 <= Len(bs) /\ Count(c) + k1 <= End /\ Count(c) \in Nat
    BY WriteChunkType, CountType, EndType
  <1>2. c1 \in CycBufs /\ c1.head = c.head /\ Count(c1) = Count(c) + k1
    BY WriteChunkLeaves
  <1>3. Contents(c1) = q \o SubSeq(bs, 1, k1)
    BY WriteChunkContents
  <1>4. rest \in Seq(Byte) /\ Len(rest) = Len(bs) - k1
    <2> HIDE DEF k1
    <2>1. rest \in Seq(Byte) /\ Len(rest) = Len(bs) + 1 - (k1 + 1)
      BY <1>0, <1>1, SubSeqOfSeq, k1 + 1 \in Nat, k1 + 1 >= 1, k1 + 1 <= Len(bs) + 1
    <2> QED
      BY <2>1, <1>0, <1>1
  <1>5. CASE rest = << >>
    <2>1. WriteCopy(c, bs) = [buf |-> c1, n |-> k1]
      BY <1>5 DEF WriteCopy
    <2>2. k1 = Len(bs)
      <3> HIDE DEF k1, rest
      <3> QED
        BY <1>0, <1>1, <1>4, <1>5
    <2> HIDE DEF k1, c1, q
    <2> QED
      BY <2>1, <2>2, <1>0, <1>1, <1>2, <1>3 DEF q
  <1>6. CASE rest # << >>
    <2>1. WriteCopy(c, bs) = [buf |-> c2, n |-> k1 + k2]
      BY <1>6 DEF WriteCopy
    <2>2. k1 < Len(bs)
      <3> HIDE DEF k1, rest
      <3> QED
        BY <1>0, <1>1, <1>4, <1>6, EmptySeq
    <2>3. Count(c1) >= End - 1 \/ c1.tail = End
      BY <2>2, ShortChunk
    <2> HIDE DEF rest, c1
    <2>4. k2 \in Nat /\ k2 <= Len(rest) /\ Count(c1) + k2 <= End
      BY <1>2, <1>4, WriteChunkType
    <2>5. c2 \in CycBufs /\ c2.head = c1.head /\ Count(c2) = Count(c1) + k2
      BY <1>2, <1>4, WriteChunkLeaves
    <2>6. Contents(c2) = Contents(c1) \o SubSeq(rest, 1, k2)
      BY <1>2, <1>4, WriteChunkContents
    <2>7. k2 < Len(rest) => Count(c2) >= End - 1
      <3>1. CASE c1.tail = End
        BY <3>1, <1>2, <1>4, SecondChunk
      <3>2. CASE Count(c1) >= End - 1
        BY <3>2, <2>4, <2>5, <1>1, <1>2, EndType
      <3> QED
        BY <3>1, <3>2, <2>3
    <2> HIDE DEF k1, k2, c2, q
    <2>8. (q \o SubSeq(bs, 1, k1)) \o SubSeq(rest, 1, k2) = q \o SubSeq(bs, 1, k1 + k2)
      <3>1. SubSeq(bs, 1, k1) \o SubSeq(rest, 1, k2) = SubSeq(bs, 1, k1 + k2)
        BY <1>0, <1>1, <1>4, <2>4, SplitPrefix DEF rest
      <3>2. SubSeq(bs, 1, k1) \in Seq(Byte)
        BY <1>0, <1>1, SubSeqOfSeq, 1 \in Nat, 1 <= k1 + 1
      <3>3. SubSeq(rest, 1, k2) \in Seq(Byte)
        BY <1>4, <2>4, SubSeqOfSeq, 1 \in Nat, 1 <= k2 + 1
      <3>4. (q \o SubSeq(bs, 1, k1)) \o SubSeq(rest, 1, k2)
              = q \o (SubSeq(bs, 1, k1) \o SubSeq(rest, 1, k2))
        <4> DEFINE u == SubSeq(bs, 1, k1)
                   v == SubSeq(rest, 1, k2)
        <4>1. q \in Seq(Byte) /\ u \in Seq(Byte) /\ v \in Seq(Byte)
          BY <1>0, <3>2, <3>3
        <4> HIDE DEF u, v
        <4>2. (q \o u) \o v = q \o (u \o v)
          BY <4>1, ConcatAssociative
        <4> QED
          BY <4>2 DEF u, v
      <3> QED
        BY <3>1, <3>4, Zenon
    <2>9. Contents(c2) = q \o SubSeq(bs, 1, k1 + k2)
      BY <2>6, <2>8, <1>3, Zenon
    <2>10. WriteCopy(c, bs).buf = c2 /\ WriteCopy(c, bs).n = k1 + k2
      BY <2>1
    <2>11. k1 + k2 \in 0 .. Len(bs) /\ Count(c) + (k1 + k2) <= End
           /\ (k1 + k2 < Len(bs) => Count(c) + (k1 + k2) >= End - 1)
      BY <1>0, <1>1, <1>2, <1>4, <2>4, <2>5, <2>7, EndType
    <2>12. Contents(WriteCopy(c, bs).buf) = Contents(c) \o SubSeq(bs, 1, WriteCopy(c, bs).n)
      BY <2>9, <2>10, Zenon DEF q
    <2> QED
      BY <2>5, <2>10, <2>11, <2>12, <1>2
  <1> QED
    BY <1>5, <1>6

-----------------------------------------------------------------------------
\* Regions handed out for direct access.

\* The free cells at the tail hold no data.
LEMMA FreeAtTail ==
  ASSUME NEW b \in CycBufs, NEW i \in 1 .. Count(b), NEW p \in Cell,
         p >= b.tail, p < b.tail + WriteAvail(b)
  PROVE  Slot(b.head + i - 1) # p
  BY EndType DEF CycBufs, Cell, Count, Slot, WriteAvail

\* The contiguous room and the contiguous data are numbers.
LEMMA AvailType ==
  ASSUME NEW b \in CycBufs
  PROVE  WriteAvail(b) \in Nat /\ ReadAvail(b) \in Nat
  BY EndType DEF WriteAvail, ReadAvail, CycBufs, Cell

\* A consumer that holds n bytes gets them all released, and they are the
\* bytes it was shown.
LEMMA ReleaseIsExact ==
  ASSUME NEW b \in CycBufs, NEW n \in Nat, n <= ReadAvail(b), n <= Count(b)
  PROVE  /\ ReadChunk(b, n) = n
         /\ Region(b, b.head, n) = SubSeq(Contents(b), 1, n)
  <1>1. CASE n = 0
    <2>1. ReadChunk(b, n) = 0
      BY <1>1, ReadChunkType
    <2>2. Region(b, b.head, n) = ReadChunkBytes(b, n)
      <3>1. 1 .. 0 = {}
        OBVIOUS
      <3>2. \A at : Region(b, at, 0) = [i \in {} |-> 0]
        BY <3>1 DEF Region
      <3> QED
        BY <1>1, <2>1, <3>2 DEF ReadChunkBytes
    <2> QED
      BY <1>1, <2>1, <2>2, ReadChunkIsPrefix
  <1>2. CASE n > 0
    <2>1. ~IsEmpty(b)
      BY <1>2, EmptyIsNoBytes
    <2>2. b.head < End
      BY <1>2, EndType DEF ReadAvail, CycBufs, Cell
    <2>3. ReadReady(b) = b
      BY <2>1, <2>2, EndType DEF ReadReady, CycBufs, Cell
    <2>4. ReadChunk(b, n) = n
      BY <2>1, <2>3, AvailType, ReadChunkType DEF Least
    <2>5. Region(b, b.head, n) = ReadChunkBytes(b, n)
      BY <2>1, <2>3, <2>4, ReadAvailType DEF ReadChunkBytes
    <2> QED
      BY <2>4, <2>5, ReadChunkIsPrefix
  <1> QED
    BY <1>1, <1>2

\* pushWriteTail over bytes already in place is a chunk of writecopy.
LEMMA CommitIsWriteChunk ==
  ASSUME NEW b \in CycBufs, NEW bs \in Seq(Byte),
         Len(bs) <= WriteAvail(b),
         \A i \in 1 .. Len(bs) : b.buf[b.tail + i - 1] = bs[i]
  PROVE  /\ AfterPushWriteTail(b, Len(bs)) = AfterWriteChunk(b, bs)
         /\ WriteChunk(b, bs) = Len(bs)
  <1>0. Len(bs) \in Nat /\ WriteAvail(b) \in Nat
    BY LenProperties, AvailType
  <1>1. CASE IsFull(b)
    <2>1. WriteAvail(b) = 0
      BY <1>1, EndType DEF IsFull, WriteAvail, CycBufs, Cell
    <2> QED
      BY <1>0, <1>1, <2>1, WriteChunkType DEF AfterPushWriteTail, AfterWriteChunk
  <1>2. CASE ~IsFull(b)
    <2> DEFINE w == WriteReady(b)
               n == Len(bs)
    <2>1. w \in CycBufs /\ w.buf = b.buf /\ w.head = b.head
      BY WriteReadyType
    <2>2. n <= WriteAvail(w) /\ (n > 0 => w = b)
      <3>1. CASE b.tail = End
        <4>1. WriteAvail(b) = 0
          BY <3>1, EndType DEF WriteAvail, CycBufs, Cell
        <4> QED
          BY <4>1, <1>0, <2>1, AvailType
      <3>2. CASE b.tail # End
        BY <3>2, EndType DEF WriteReady, CycBufs, Cell
      <3> QED
        BY <3>1, <3>2
    <2>3. Least(n, WriteAvail(w)) = n
      BY <2>2 DEF Least
    <2>4. WriteChunk(b, bs) = n
      BY <1>2, <2>3, WriteChunkType
    <2>5. SubSeq(bs, 1, n) = bs
      BY SubSeqFull
    <2>6. \A p \in Cell : p >= w.tail /\ p < w.tail + n => bs[p - w.tail + 1] = w.buf[p]
      <3> SUFFICES ASSUME NEW p \in Cell, p >= w.tail, p < w.tail + n
                   PROVE  bs[p - w.tail + 1] = w.buf[p]
        OBVIOUS
      <3>1. w = b /\ w.tail \in Nat /\ p \in Nat
        BY <1>0, <2>1, <2>2, EndType DEF CycBufs, Cell
      <3>2. p - w.tail + 1 \in 1 .. n /\ w.tail + (p - w.tail + 1) - 1 = p
        <4> HIDE DEF w, n
        <4> QED
          BY <3>1, <1>0 DEF n
      <3> QED
        BY <3>1, <3>2
    <2>7. Place(w.buf, w.tail, bs) = w.buf
      <3> HIDE DEF w
      <3> QED
        BY <2>1, <2>6 DEF Place, CycBufs
    <2>8. AfterWriteChunk(b, bs)
            = [head |-> w.head, tail |-> w.tail + n, buf |-> w.buf]
      BY <1>2, <2>4, <2>5, <2>7 DEF AfterWriteChunk
    <2>9. AfterPushWriteTail(b, n) = [w EXCEPT !.tail = w.tail + n]
      BY <1>2, <2>3 DEF AfterPushWriteTail
    <2> HIDE DEF w
    <2>10. [w EXCEPT !.tail = w.tail + n] = [head |-> w.head, tail |-> w.tail + n, buf |-> w.buf]
      BY <2>1 DEF CycBufs
    <2> QED
      BY <2>4, <2>8, <2>9, <2>10
  <1> QED
    BY <1>1, <1>2

\* Bytes put in free cells at the tail do not disturb the queue.
LEMMA PlaceSparesContents ==
  ASSUME NEW b \in CycBufs, NEW bs \in Seq(Byte), Len(bs) <= WriteAvail(b),
         b.tail + Len(bs) <= End
  PROVE  LET d == [b EXCEPT !.buf = Place(b.buf, b.tail, bs)]
         IN  /\ d \in CycBufs
             /\ d.head = b.head /\ d.tail = b.tail
             /\ Contents(d) = Contents(b)
             /\ \A i \in 1 .. Len(bs) : d.buf[b.tail + i - 1] = bs[i]
  <1> DEFINE d == [b EXCEPT !.buf = Place(b.buf, b.tail, bs)]
             n == Len(bs)
  <1>0. n \in Nat /\ WriteAvail(b) \in Nat /\ b.tail \in Nat
    BY LenProperties, AvailType, EndType DEF CycBufs, Cell
  <1>1. d = [head |-> b.head, tail |-> b.tail, buf |-> Place(b.buf, b.tail, bs)]
    BY DEF CycBufs
  <1>2. Place(b.buf, b.tail, bs) \in [Cell -> Byte]
    <2>1. ASSUME NEW p \in Cell, p >= b.tail, p < b.tail + n
          PROVE  bs[p - b.tail + 1] \in Byte
      <3>1. p - b.tail + 1 \in 1 .. n
        BY <2>1, <1>0, EndType DEF Cell
      <3> QED
        BY <3>1, ElementOfSeq
    <2> QED
      BY <2>1 DEF Place, CycBufs
  <1>3. d \in CycBufs /\ d.head = b.head /\ d.tail = b.tail /\ Count(d) = Count(b)
    BY <1>1, <1>2 DEF CycBufs, Count
  <1>4. \A i \in 1 .. Count(b) : d.buf[Slot(b.head + i - 1)] = b.buf[Slot(b.head + i - 1)]
    <2> SUFFICES ASSUME NEW i \in 1 .. Count(b)
                 PROVE  d.buf[Slot(b.head + i - 1)] = b.buf[Slot(b.head + i - 1)]
      OBVIOUS
    <2>1. Slot(b.head + i - 1) \in Cell
      BY SlotType
    <2>2. ~(Slot(b.head + i - 1) >= b.tail /\ Slot(b.head + i - 1) < b.tail + n)
      BY <2>1, <1>0, FreeAtTail, EndType DEF Cell
    <2> QED
      BY <1>1, <2>1, <2>2 DEF Place
  <1>5. Contents(d) = Contents(b)
    BY <1>3, <1>4 DEF Contents
  <1>6. \A i \in 1 .. n : d.buf[b.tail + i - 1] = bs[i]
    <2> SUFFICES ASSUME NEW i \in 1 .. n
                 PROVE  d.buf[b.tail + i - 1] = bs[i]
      OBVIOUS
    <2>1. /\ b.tail + i - 1 \in Cell
          /\ b.tail + i - 1 >= b.tail /\ b.tail + i - 1 < b.tail + n
          /\ (b.tail + i - 1) - b.tail + 1 = i
      BY <1>0, EndType DEF Cell
    <2> QED
      BY <1>1, <2>1 DEF Place
  <1> QED
    BY <1>3, <1>5, <1>6

\* The cells that hold data, by the two pointers.
LEMMA DataCellsAre ==
  ASSUME NEW b \in CycBufs, NEW p \in Cell
  PROVE  p \in DataCells(b) <=> /\ p < End
                               /\ IF b.head <= b.tail THEN b.head <= p /\ p < b.tail
                                  ELSE b.head <= p \/ p < b.tail
  <1>1. ASSUME p \in DataCells(b)
        PROVE  p < End /\ IF b.head <= b.tail THEN b.head <= p /\ p < b.tail
                          ELSE b.head <= p \/ p < b.tail
    <2>1. PICK i \in 1 .. Count(b) : p = Slot(b.head + i - 1)
      BY <1>1 DEF DataCells
    <2>2. p < End
      BY <2>1, SlotType
    <2> QED
      BY <2>1, <2>2, EndType DEF CycBufs, Cell, Count, Slot
  <1>2. ASSUME p < End, IF b.head <= b.tail THEN b.head <= p /\ p < b.tail
                        ELSE b.head <= p \/ p < b.tail
        PROVE  p \in DataCells(b)
    <2> DEFINE i == IF b.head <= p THEN p - b.head + 1 ELSE End - b.head + p + 1
    <2>1. i \in 1 .. Count(b) /\ Slot(b.head + i - 1) = p
      BY <1>2, EndType DEF CycBufs, Cell, Count, Slot
    <2> QED
      BY <2>1 DEF DataCells
  <1> QED
    BY <1>1, <1>2

\* b2 is b1 after an operation that cleans up: a cell that holds no data
\* any more is zero, and no other cell without data has changed.
CleansUp(b1, b2) ==
    \A p \in Cell : \/ p \in DataCells(b2) \/ b2.buf[p] = 0
                    \/ p \notin DataCells(b1) /\ b2.buf[p] = b1.buf[p]

\* What two such operations leave.
LEMMA CleansUpTwice ==
  ASSUME NEW b1, NEW b2, NEW b3, CleansUp(b1, b2), CleansUp(b2, b3)
  PROVE  CleansUp(b1, b3)
  BY DEF CleansUp

\* pushReadHead clears what it gives up.
LEMMA PushReadHeadCleansUp ==
  ASSUME NEW b \in CycBufs, NEW s \in Nat
  PROVE  CleansUp(b, AfterPushReadHead(b, s))
  <1> DEFINE d == AfterPushReadHead(b, s)
             r == ReadReady(b)
             k == Least(s, ReadAvail(r))
  <1>1. CASE IsEmpty(b)
    BY <1>1 DEF AfterPushReadHead, CleansUp
  <1>2. CASE ~IsEmpty(b)
    <2>1. r \in CycBufs /\ r.head < End /\ r.tail = b.tail /\ r.buf = b.buf /\ r.head \in {b.head, 0}
          /\ (r.head # b.head => b.head = End)
      BY <1>2, ReadReadyType, EndType DEF ReadReady, CycBufs, Cell
    <2>2. ReadAvail(r) \in Nat /\ k \in Nat /\ k <= ReadAvail(r)
      <3>1. ReadAvail(r) \in Nat
        BY <2>1, AvailType
      <3> HIDE DEF r
      <3> QED
        BY <3>1, LeastType
    <2>3. d = [head |-> r.head + k, tail |-> r.tail, buf |-> Wipe(r.buf, r.head, k)]
      BY <1>2 DEF AfterPushReadHead
    <2>4. d \in CycBufs
      BY PushReadHeadType
    <2> HIDE DEF r, k, d
    <2>5. ASSUME NEW p \in Cell, p \notin DataCells(d), d.buf[p] # 0
          PROVE  p \notin DataCells(b) /\ d.buf[p] = b.buf[p]
      <3>1. ~(p >= r.head /\ p < r.head + k) /\ d.buf[p] = b.buf[p]
        BY <2>1, <2>3, <2>5 DEF Wipe
      <3>2. p \notin DataCells(b)
        <4>1. ~(/\ p < End
                /\ IF d.head <= d.tail THEN d.head <= p /\ p < d.tail
                   ELSE d.head <= p \/ p < d.tail)
          BY <2>4, <2>5, DataCellsAre
        <4>2. d.head = r.head + k /\ d.tail = b.tail
          BY <2>1, <2>3
        <4>3. ~(/\ p < End
                /\ IF b.head <= b.tail THEN b.head <= p /\ p < b.tail
                   ELSE b.head <= p \/ p < b.tail)
          BY <2>1, <2>2, <3>1, <4>1, <4>2, EndType DEF ReadAvail, CycBufs, Cell
        <4> QED
          BY <4>3, DataCellsAre
      <3> QED
        BY <3>1, <3>2
    <2> QED
      BY <2>5 DEF CleansUp, d
  <1> QED
    BY <1>1, <1>2

\* So does a whole readcopy.
LEMMA ReadCopyCleansUp ==
  ASSUME NEW b \in CycBufs, NEW s \in Nat
  PROVE  CleansUp(b, ReadCopy(b, s).buf)
  <1> DEFINE b1 == AfterPushReadHead(b, s)
             rest == s - ReadChunk(b, s)
             b2 == AfterPushReadHead(b1, rest)
  <1>1. rest \in Nat /\ b1 \in CycBufs /\ CleansUp(b, b1)
    <2>1. rest \in Nat
      BY ReadChunkType
    <2>2. b1 \in CycBufs /\ CleansUp(b, b1)
      BY PushReadHeadType, PushReadHeadCleansUp
    <2> QED
      BY <2>1, <2>2
  <1>2. ReadCopy(b, s).buf = IF rest = 0 THEN b1 ELSE b2
    BY DEF ReadCopy
  <1> HIDE DEF b1, rest
  <1>3. CleansUp(b1, b2)
    BY <1>1, PushReadHeadCleansUp
  <1> HIDE DEF b2
  <1>4. CleansUp(b, b2)
    BY <1>1, <1>3, CleansUpTwice
  <1> QED
    BY <1>1, <1>2, <1>4

\* Making ready moves a pointer and no data.
LEMMA ReadyCleansUp ==
  ASSUME NEW b \in CycBufs
  PROVE  CleansUp(b, ReadReady(b)) /\ CleansUp(b, WriteReady(b))
  <1>1. ReadReady(b) \in CycBufs /\ WriteReady(b) \in CycBufs
    BY ReadReadyType, WriteReadyType
  <1>2. ASSUME NEW p \in Cell
        PROVE  /\ p \in DataCells(ReadReady(b)) <=> p \in DataCells(b)
               /\ p \in DataCells(WriteReady(b)) <=> p \in DataCells(b)
    BY <1>1, DataCellsAre, EndType DEF ReadReady, WriteReady, IsEmpty, IsFull, CycBufs, Cell
  <1> QED
    BY <1>2, ReadReadyType, WriteReadyType DEF CleansUp

\* A chunk of writecopy fills cells that then hold data, and no other.
LEMMA WriteChunkCleansUp ==
  ASSUME NEW b \in CycBufs, NEW bs \in Seq(Byte)
  PROVE  CleansUp(b, AfterWriteChunk(b, bs))
  <1> DEFINE d == AfterWriteChunk(b, bs)
             w == WriteReady(b)
             k == WriteChunk(b, bs)
  <1>1. CASE IsFull(b)
    BY <1>1 DEF AfterWriteChunk, CleansUp
  <1>2. CASE ~IsFull(b)
    <2>1. w \in CycBufs /\ w.tail < End /\ w.buf = b.buf
      BY <1>2, WriteReadyType
    <2>2. WriteAvail(w) \in Nat /\ k \in Nat /\ k <= WriteAvail(w) /\ k <= Len(bs)
      <3>1. Len(bs) \in Nat /\ WriteAvail(w) \in Nat
        BY <2>1, AvailType, LenProperties
      <3>2. k = Least(Len(bs), WriteAvail(w))
        BY <1>2, WriteChunkType
      <3> HIDE DEF w, k
      <3> QED
        BY <3>1, <3>2, LeastType
    <2>3. Len(SubSeq(bs, 1, k)) = k
      BY <2>2, SubSeqOfSeq
    <2>4. d.head = w.head /\ d.tail = w.tail + k /\ d.buf = Place(w.buf, w.tail, SubSeq(bs, 1, k))
      BY <1>2 DEF AfterWriteChunk
    <2>5. d \in CycBufs
      BY WriteChunkLeaves
    <2>6. CleansUp(b, w)
      BY ReadyCleansUp
    <2> HIDE DEF w, k, d
    <2>7. ASSUME NEW p \in Cell, p \notin DataCells(d)
          PROVE  p \notin DataCells(w) /\ d.buf[p] = w.buf[p]
      <3>1. ~(/\ p < End
              /\ IF d.head <= d.tail THEN d.head <= p /\ p < d.tail
                 ELSE d.head <= p \/ p < d.tail)
        BY <2>5, <2>7, DataCellsAre
      <3>2. /\ ~(p >= w.tail /\ p < w.tail + k)
            /\ ~(/\ p < End
                 /\ IF w.head <= w.tail THEN w.head <= p /\ p < w.tail
                    ELSE w.head <= p \/ p < w.tail)
        BY <2>1, <2>2, <2>4, <3>1, EndType DEF WriteAvail, CycBufs, Cell
      <3> QED
        BY <2>1, <2>3, <2>4, <3>2, DataCellsAre DEF Place
    <2>8. CleansUp(w, d)
      BY <2>7 DEF CleansUp
    <2>9. CleansUp(b, d)
      BY <2>6, <2>8, CleansUpTwice
    <2> QED
      BY <2>9 DEF d
  <1> QED
    BY <1>1, <1>2

\* So does a whole writecopy.
LEMMA WriteCopyCleansUp ==
  ASSUME NEW b \in CycBufs, NEW bs \in Seq(Byte)
  PROVE  CleansUp(b, WriteCopy(b, bs).buf)
  <1> DEFINE k1 == WriteChunk(b, bs)
             b1 == AfterWriteChunk(b, bs)
             rest == SubSeq(bs, k1 + 1, Len(bs))
             b2 == AfterWriteChunk(b1, rest)
  <1>1. rest \in Seq(Byte) /\ b1 \in CycBufs /\ CleansUp(b, b1)
    BY WriteChunkType, WriteChunkLeaves, WriteChunkCleansUp, SubSeqOfSeq, LenProperties
  <1>2. WriteCopy(b, bs).buf = IF rest = << >> THEN b1 ELSE b2
    BY DEF WriteCopy
  <1> HIDE DEF b1, rest
  <1>3. CleansUp(b1, b2)
    BY <1>1, WriteChunkCleansUp
  <1> HIDE DEF b2
  <1>4. CleansUp(b, b2)
    BY <1>1, <1>3, CleansUpTwice
  <1> QED
    BY <1>1, <1>2, <1>4

\* The room getWriteTail finds, by the two pointers.
LEMMA RoomIs ==
  ASSUME NEW b \in CycBufs
  PROVE  WriteTailRegion(b).n = IF IsFull(b) THEN 0
                                ELSE IF b.tail = End THEN b.head - 1
                                ELSE IF b.head > b.tail THEN b.head - (b.tail + 1)
                                ELSE End - b.tail
  <1>1. CASE IsFull(b)
    BY <1>1 DEF WriteTailRegion, NoRegion
  <1>2. CASE ~IsFull(b)
    <2>1. WriteTailRegion(b).n = WriteAvail(WriteReady(b))
      BY <1>2, WriteAvailType
    <2>2. /\ b.tail = End => WriteReady(b).tail = 0 /\ WriteReady(b).head = b.head /\ b.head > 0
          /\ b.tail # End => WriteReady(b) = b
      BY <1>2, EndType DEF WriteReady, IsFull, CycBufs, Cell
    <2> QED
      BY <1>2, <2>1, <2>2, EndType DEF WriteAvail, CycBufs, Cell
  <1> QED
    BY <1>1, <1>2

\* Who fills the region to its end finds no more room, unless it was the one
\* before the end of the memory.
LEMMA FilledRegion ==
  ASSUME NEW b \in CycBufs, NEW bs \in Seq(Byte), WriteChunk(b, bs) = WriteTailRegion(b).n
  PROVE  LET d == AfterWriteChunk(b, bs)
         IN  /\ d.tail = End \/ WriteTailRegion(d).n = 0
             /\ b.tail = End \/ WriteTailRegion(b).n = 0 => WriteTailRegion(d).n = 0
  <1> DEFINE d == AfterWriteChunk(b, bs)
             w == WriteReady(b)
             k == WriteChunk(b, bs)
  <1>1. d \in CycBufs /\ d.head = b.head
    BY WriteChunkLeaves
  <1>2. CASE IsFull(b)
    BY <1>2, RoomIs DEF AfterWriteChunk
  <1>3. CASE ~IsFull(b)
    <2>1. d.tail = w.tail + k
      BY <1>3 DEF AfterWriteChunk
    <2>2. w.tail = IF b.tail = End THEN 0 ELSE b.tail
      BY <1>3, EndType DEF WriteReady, CycBufs, Cell
    <2>3. k = IF b.tail = End THEN b.head - 1
              ELSE IF b.head > b.tail THEN b.head - (b.tail + 1) ELSE End - b.tail
      BY <1>3, RoomIs
    <2>4. b.head \in Nat /\ b.tail \in Nat /\ b.head <= End /\ b.tail <= End /\ End \in Nat
      BY EndType DEF CycBufs, Cell
    <2>5. b.tail = End => b.head > 0
      BY <1>3, <2>4 DEF IsFull
    <2> HIDE DEF w, k, d
    <2>6. d.tail = End \/ d.tail + 1 = d.head
      BY <1>1, <2>1, <2>2, <2>3, <2>4, <2>5
    <2>7. b.tail = End => d.tail + 1 = d.head
      BY <1>1, <2>1, <2>2, <2>3, <2>4, <2>5
    <2>8. WriteTailRegion(b).n = 0 => k = 0
      BY DEF k
    <2>9. b.tail # End /\ k = 0 => d.tail + 1 = d.head
      BY <1>1, <2>1, <2>2, <2>3, <2>4
    <2>10. d.tail + 1 = d.head => WriteTailRegion(d).n = 0
      BY <1>1, RoomIs DEF IsFull
    <2> QED
      BY <2>6, <2>7, <2>8, <2>9, <2>10 DEF d
  <1> QED
    BY <1>2, <1>3

\* Two calls finish a readcopy and a writecopy: who got less than it asked
\* for finds nothing more.
LEMMA SecondCallFinishes ==
  ASSUME NEW b \in CycBufs, NEW s \in Nat, NEW bs \in Seq(Byte)
  PROVE  /\ Len(ReadCopy(b, s).bytes) < s => ReadHeadRegion(ReadCopy(b, s).buf).n = 0
         /\ WriteCopy(b, bs).n < Len(bs) => WriteTailRegion(WriteCopy(b, bs).buf).n = 0
  <1>1. ASSUME Len(ReadCopy(b, s).bytes) < s
        PROVE  ReadHeadRegion(ReadCopy(b, s).buf).n = 0
    <2> DEFINE q == Contents(b)
               k == Least(s, Count(b))
               d == ReadCopy(b, s).buf
    <2>1. /\ d \in CycBufs /\ ReadCopy(b, s).bytes = SubSeq(q, 1, k)
          /\ Contents(d) = SubSeq(q, k + 1, Count(b))
      BY ReadCopyTakesPrefix
    <2>2. q \in Seq(Byte) /\ Len(q) = Count(b) /\ Count(b) \in Nat
      BY ContentsType, CountType, EndType
    <2>3. k \in Nat /\ k <= Count(b) /\ (k = s \/ k = Count(b))
      BY <2>2 DEF Least
    <2> HIDE DEF q, k, d
    <2>4. Len(SubSeq(q, 1, k)) = k
      BY <2>2, <2>3, SubSeqOfSeq
    <2>5. k = Count(b)
      BY <1>1, <2>1, <2>3, <2>4
    <2>6. Len(Contents(d)) = 0
      BY <2>1, <2>2, <2>5, SubSeqOfSeq
    <2>7. IsEmpty(d)
      BY <2>1, <2>6, ContentsType, EmptyIsNoBytes
    <2>8. ReadHeadRegion(d).n = 0
      BY <2>7 DEF ReadHeadRegion, NoRegion
    <2> QED
      BY <2>8 DEF d
  <1>2. ASSUME WriteCopy(b, bs).n < Len(bs)
        PROVE  WriteTailRegion(WriteCopy(b, bs).buf).n = 0
    <2> DEFINE k1 == WriteChunk(b, bs)
               b1 == AfterWriteChunk(b, bs)
               rest == SubSeq(bs, k1 + 1, Len(bs))
               k2 == WriteChunk(b1, rest)
               b2 == AfterWriteChunk(b1, rest)
    <2>1. /\ k1 \in Nat /\ k1 <= Len(bs) /\ b1 \in CycBufs /\ Len(bs) \in Nat
      BY WriteChunkType, WriteChunkLeaves, LenProperties
    <2>2. rest \in Seq(Byte) /\ Len(rest) = Len(bs) - k1
      <3> HIDE DEF k1
      <3>1. Len(bs) + 1 - (k1 + 1) = Len(bs) - k1
        BY <2>1
      <3> QED
        BY <2>1, <3>1, SubSeqOfSeq
    <2>3. WriteCopy(b, bs) = IF rest = << >> THEN [buf |-> b1, n |-> k1]
                             ELSE [buf |-> b2, n |-> k1 + k2]
      BY DEF WriteCopy
    <2>4. rest # << >>
      <3> HIDE DEF rest, k1, b1, b2, k2
      <3>1. rest = << >> => Len(rest) = 0
        OBVIOUS
      <3> QED
        BY <1>2, <2>1, <2>2, <2>3, <3>1
    <2>5. k1 < Len(bs) => k1 = WriteTailRegion(b).n
      BY DEF WriteChunk, Least
    <2>6. k2 < Len(rest) => k2 = WriteTailRegion(b1).n
      <3>1. Len(rest) \in Nat
        BY <2>2, LenProperties
      <3> HIDE DEF rest, b1
      <3> QED
        BY <3>1 DEF WriteChunk, Least
    <2>7. k1 < Len(bs)
      <3>1. Len(rest) # 0
        BY <2>2, <2>4, EmptySeq
      <3> HIDE DEF rest, k1
      <3> QED
        BY <2>1, <2>2, <3>1
    <2>8. b1.tail = End \/ WriteTailRegion(b1).n = 0
      BY <2>5, <2>7, FilledRegion
    <2>9. k2 < Len(rest)
      <3>1. k2 \in Nat
        BY <2>1, <2>2, WriteChunkType
      <3> HIDE DEF rest, k1, b1, b2, k2
      <3> QED
        BY <1>2, <2>1, <2>2, <2>3, <2>4, <3>1
    <2> HIDE DEF b1, rest
    <2>10. WriteTailRegion(b2).n = 0
      BY <2>1, <2>2, <2>6, <2>8, <2>9, FilledRegion
    <2> QED
      BY <2>3, <2>4, <2>10
  <1> QED
    BY <1>1, <1>2

-----------------------------------------------------------------------------
(***************************************************************************)
(* The server's record.                                                    *)
(***************************************************************************)

\* No two records have the same socket, and a record's transfer class has
\* the socket of the record as long as the record has one.
Distinct(s) ==
    \A i, j \in 1 .. s.clients.n :
        s.clients.mem[i].sock = s.clients.mem[j].sock => i = j

Agree(s) ==
    \A i \in 1 .. Len(s.clients.mem) : s.clients.mem[i].sock \in {0, s.clients.mem[i].xfer}

-----------------------------------------------------------------------------
\* Smallest and largest numbers.

\* A set of naturals that is not empty has a least element, and Min finds it.
LEMMA MinOfNat ==
  ASSUME NEW S \in SUBSET Nat, S # {}
  PROVE  Min(S) \in S /\ \A y \in S : Min(S) <= y
  <1> DEFINE R == OpToRel(<, Nat)
  <1>1. IsWellFoundedOn(R, Nat)
    BY NatLessThanWellFounded
  <1>2. \A x, y \in Nat : x < y => <<x, y>> \in R
    BY DEF OpToRel
  <1> HIDE DEF R
  <1>3. PICK x \in S : \A y \in S : <<y, x>> \notin R
    BY <1>1, WFMin
  <1>4. ASSUME NEW y \in S PROVE x <= y
    <2>1. x \in Nat /\ y \in Nat /\ ~(y < x)
      BY <1>2, <1>3
    <2> QED
      BY <2>1
  <1> QED
    BY <1>4 DEF Min

\* A finite one also has a largest, which Max finds: the element with the
\* fewest elements above it.
LEMMA MaxOfFinite ==
  ASSUME NEW S \in SUBSET Nat, S # {}, IsFiniteSet(S)
  PROVE  Max(S) \in S /\ \A y \in S : y <= Max(S)
  <1> DEFINE Above(x) == {y \in S : x < y}
             N == {Cardinality(Above(x)) : x \in S}
  <1>1. \A x \in S : IsFiniteSet(Above(x)) /\ Cardinality(Above(x)) \in Nat
    BY FS_Subset, FS_CardinalityType
  <1>2. N \in SUBSET Nat /\ N # {}
    BY <1>1
  <1>3. PICK x \in S : \A y \in S : Cardinality(Above(x)) <= Cardinality(Above(y))
    <2>1. PICK n \in N : \A m \in N : n <= m
      <3> HIDE DEF N
      <3> QED
        BY <1>2, MinOfNat
    <2> QED
      BY <2>1
  <1>4. ASSUME NEW y \in S PROVE y <= x
    <2> SUFFICES ASSUME x < y PROVE FALSE
      <3>1. x \in Nat /\ y \in Nat
        OBVIOUS
      <3> QED
        BY <3>1
    <2>1. ASSUME NEW z \in S, y < z PROVE x < z
      <3>1. x \in Nat /\ y \in Nat /\ z \in Nat
        OBVIOUS
      <3> QED
        BY <2>1, <3>1
    <2>2. ~(y < y)
      <3>1. y \in Nat
        OBVIOUS
      <3> QED
        BY <3>1
    <2>3. Above(y) \in SUBSET Above(x) /\ y \in Above(x) /\ y \notin Above(y)
      BY <2>1, <2>2
    <2>4. Above(y) # Above(x)
      BY <2>3
    <2> HIDE DEF Above
    <2>5. /\ Cardinality(Above(y)) <= Cardinality(Above(x))
          /\ Cardinality(Above(y)) # Cardinality(Above(x))
      BY <1>1, <2>3, <2>4, FS_Subset
    <2> QED
      BY <1>1, <1>3, <2>5
  <1>5. x \in Nat /\ \A y \in S : x >= y
    <2>1. \A y \in S : y \in Nat
      OBVIOUS
    <2> QED
      BY <1>4, <2>1
  <1>6. Max(S) \in S /\ \A y \in S : Max(S) >= y
    BY <1>5 DEF Max
  <1>7. Max(S) \in Nat /\ \A y \in S : y \in Nat
    BY <1>6
  <1> QED
    BY <1>6, <1>7

-----------------------------------------------------------------------------
\* Vectors.

\* The elements of a vector, and what lies behind them, have its type.
LEMMA ElementsType ==
  ASSUME NEW S, NEW v \in Vectors(S)
  PROVE  Elements(v) \subseteq S /\ \A i \in 1 .. Len(v.mem) : v.mem[i] \in S
  BY DEF Vectors, Elements

\* A vector begins without an element.
LEMMA NoElementsVector ==
  ASSUME NEW S
  PROVE  NoElements \in Vectors(S) /\ Elements(NoElements) = {} /\ NoElements.n = 0
  BY DEF Vectors, NoElements, Elements

\* push_back adds one element behind the others; the memory never shrinks.
LEMMA PushBackVector ==
  ASSUME NEW S, NEW v \in Vectors(S), NEW x \in S
  PROVE  /\ PushBack(v, x) \in Vectors(S)
         /\ PushBack(v, x).n = v.n + 1
         /\ Len(PushBack(v, x).mem) \in {Len(v.mem), v.n + 1}
         /\ Len(PushBack(v, x).mem) >= Len(v.mem)
         /\ PushBack(v, x).mem[v.n + 1] = x
         /\ \A i \in 1 .. Len(PushBack(v, x).mem) :
               PushBack(v, x).mem[i] = IF i = v.n + 1 THEN x ELSE v.mem[i]
         /\ Elements(PushBack(v, x)) = Elements(v) \cup {x}
  <1> DEFINE w == PushBack(v, x)
  <1>1. v.mem \in Seq(S) /\ v.n \in Nat /\ v.n <= Len(v.mem)
    BY DEF Vectors
  <1>2. w.n = v.n + 1 /\ w = [mem |-> w.mem, n |-> w.n]
    BY DEF PushBack
  <1>3. /\ w.mem \in Seq(S) /\ Len(w.mem) >= Len(v.mem) /\ Len(w.mem) >= v.n + 1
        /\ Len(w.mem) \in {Len(v.mem), v.n + 1}
        /\ w.mem[v.n + 1] = x
        /\ \A i \in 1 .. Len(w.mem) : w.mem[i] = IF i = v.n + 1 THEN x ELSE v.mem[i]
    <2>1. CASE v.n < Len(v.mem)
      BY <1>1, <2>1 DEF PushBack
    <2>2. CASE ~(v.n < Len(v.mem))
      <3>1. v.n = Len(v.mem)
        BY <1>1, <2>2
      <3> QED
        BY <1>1, <2>2, <3>1 DEF PushBack
    <2> QED
      BY <2>1, <2>2
  <1> HIDE DEF w
  <1>4. w \in Vectors(S)
    BY <1>1, <1>2, <1>3 DEF Vectors
  <1>5. Elements(w) = Elements(v) \cup {x}
    <2>1. \A i \in 1 .. w.n : i = v.n + 1 \/ i \in 1 .. v.n
      BY <1>1, <1>2
    <2>2. \A i \in 1 .. v.n : i \in 1 .. w.n /\ i \in 1 .. Len(w.mem) /\ i # v.n + 1
      BY <1>1, <1>2, <1>3
    <2>3. v.n + 1 \in 1 .. w.n
      BY <1>1, <1>2
    <2> QED
      BY <1>3, <2>1, <2>2, <2>3 DEF Elements
  <1> QED
    BY <1>1, <1>2, <1>3, <1>4, <1>5 DEF w

\* erase takes out the element at i and keeps every other one.
LEMMA EraseVector ==
  ASSUME NEW S, NEW v \in Vectors(S), NEW i \in 1 .. v.n
  PROVE  /\ Erase(v, i) \in Vectors(S)
         /\ Erase(v, i).n = v.n - 1
         /\ Len(Erase(v, i).mem) = Len(v.mem)
         /\ \A j \in 1 .. Len(v.mem) :
               Erase(v, i).mem[j] = IF j >= i /\ j < v.n THEN v.mem[j + 1] ELSE v.mem[j]
         /\ Elements(Erase(v, i)) = {v.mem[j] : j \in (1 .. v.n) \ {i}}
  <1> DEFINE w == Erase(v, i)
  <1>1. v.mem \in Seq(S) /\ v.n \in Nat /\ v.n <= Len(v.mem) /\ Len(v.mem) \in Nat
    BY DEF Vectors
  <1>2. w.n = v.n - 1 /\ w = [mem |-> w.mem, n |-> w.n]
    BY DEF Erase
  <1>3. w.mem = [j \in 1 .. Len(v.mem) |->
                   IF j >= i /\ j < v.n THEN v.mem[j + 1] ELSE v.mem[j]]
    BY DEF Erase
  <1>4. \A j \in 1 .. Len(v.mem) :
            (IF j >= i /\ j < v.n THEN v.mem[j + 1] ELSE v.mem[j]) \in S
    BY <1>1
  <1>5. w.mem \in Seq(S) /\ Len(w.mem) = Len(v.mem)
    BY <1>1, <1>3, <1>4
  <1> HIDE DEF w
  <1>6. w \in Vectors(S)
    BY <1>1, <1>2, <1>5 DEF Vectors
  <1>7. Elements(w) = {v.mem[j] : j \in (1 .. v.n) \ {i}}
    <2>1. ASSUME NEW j \in 1 .. w.n
          PROVE  \E l \in (1 .. v.n) \ {i} : w.mem[j] = v.mem[l]
      <3>1. CASE j >= i
        <4>1. j + 1 \in (1 .. v.n) \ {i} /\ w.mem[j] = v.mem[j + 1]
          BY <1>1, <1>2, <1>3, <3>1
        <4> QED
          BY <4>1
      <3>2. CASE j < i
        <4>1. j \in (1 .. v.n) \ {i} /\ w.mem[j] = v.mem[j]
          BY <1>1, <1>2, <1>3, <3>2
        <4> QED
          BY <4>1
      <3> QED
        BY <3>1, <3>2
    <2>2. ASSUME NEW l \in (1 .. v.n) \ {i}
          PROVE  \E j \in 1 .. w.n : w.mem[j] = v.mem[l]
      <3>1. CASE l > i
        <4>1. l - 1 \in 1 .. w.n /\ l - 1 \in 1 .. Len(v.mem) /\ l - 1 >= i /\ l - 1 < v.n
          BY <1>1, <1>2, <3>1
        <4>2. w.mem[l - 1] = v.mem[l - 1 + 1]
          BY <1>3, <4>1
        <4> QED
          BY <4>1, <4>2
      <3>2. CASE l < i
        <4>1. l \in 1 .. w.n /\ w.mem[l] = v.mem[l]
          BY <1>1, <1>2, <1>3, <3>2
        <4> QED
          BY <4>1
      <3> QED
        BY <3>1, <3>2
    <2> QED
      BY <2>1, <2>2 DEF Elements
  <1> QED
    BY <1>1, <1>2, <1>3, <1>5, <1>6, <1>7 DEF w

\* clear() leaves no element.
LEMMA ClearVector ==
  ASSUME NEW S, NEW v \in Vectors(S)
  PROVE  Clear(v) \in Vectors(S) /\ Elements(Clear(v)) = {}
  BY DEF Vectors, Clear, Elements

-----------------------------------------------------------------------------
\* The record of the server.

ClientRecords == [sock : Fd, xfer : Fd]

\* The members of class server have their types.
LEMMA ServersType ==
  ASSUME NEW s \in Servers
  PROVE  /\ s.sock \in Fd /\ s.max \in Fd /\ s.fds \subseteq Fd
         /\ s.clients \in Vectors(ClientRecords) /\ s.users \in Vectors(Fd)
         /\ s.clients.n \in Nat /\ Len(s.clients.mem) \in Nat
         /\ s.clients.n <= Len(s.clients.mem)
         /\ \A i \in 1 .. Len(s.clients.mem) : s.clients.mem[i] \in ClientRecords
         /\ Sockets(s) \subseteq Fd /\ Elements(s.users) \subseteq Fd
  <1>1. /\ s.sock \in Fd /\ s.max \in Fd /\ s.fds \subseteq Fd
        /\ s.clients \in Vectors(ClientRecords) /\ s.users \in Vectors(Fd)
    BY DEF Servers, ClientRecords
  <1>2. s.clients.n \in Nat /\ Len(s.clients.mem) \in Nat /\ s.clients.n <= Len(s.clients.mem)
    BY <1>1 DEF Vectors
  <1>3. /\ \A i \in 1 .. Len(s.clients.mem) : s.clients.mem[i] \in ClientRecords
        /\ Elements(s.clients) \subseteq ClientRecords /\ Elements(s.users) \subseteq Fd
    BY <1>1, ElementsType
  <1>4. Sockets(s) \subseteq Fd
    BY <1>3 DEF Sockets, ClientRecords
  <1> QED
    BY <1>1, <1>2, <1>3, <1>4

\* The sockets of the list, by position.
LEMMA SocketsByPosition ==
  ASSUME NEW s \in Servers
  PROVE  Sockets(s) = {s.clients.mem[i].sock : i \in 1 .. s.clients.n}
  BY DEF Sockets, Elements

\* A server has finitely many connections.
LEMMA SocketsFinite ==
  ASSUME NEW s \in Servers
  PROVE  IsFiniteSet(Sockets(s))
  BY ServersType, FdAssumption, FS_Subset

\* Records that differ in their sockets are as many as their sockets.
LEMMA DistinctCounts ==
  ASSUME NEW s \in Servers, Distinct(s)
  PROVE  Cardinality(Sockets(s)) = s.clients.n
  <1> DEFINE n == s.clients.n
             f == [i \in 1 .. n |-> s.clients.mem[i].sock]
  <1>1. n \in Nat
    BY ServersType
  <1>2. f \in Bijection(1 .. n, Sockets(s))
    <2>1. f \in [1 .. n -> Sockets(s)]
      BY SocketsByPosition
    <2>2. \A i, j \in 1 .. n : f[i] = f[j] => i = j
      BY DEF Distinct
    <2>3. \A x \in Sockets(s) : \E i \in 1 .. n : f[i] = x
      BY SocketsByPosition
    <2> QED
      BY <2>1, <2>2, <2>3 DEF Bijection, Injection, Surjection, IsInjective
  <1>3. IsFiniteSet(1 .. n) /\ Cardinality(1 .. n) = n
    <2>1. 1 \in Int /\ n \in Int
      BY <1>1
    <2> HIDE DEF n
    <2>2. IsFiniteSet(1 .. n) /\ Cardinality(1 .. n) = IF 1 > n THEN 0 ELSE n - 1 + 1
      BY <2>1, FS_Interval
    <2> QED
      BY <1>1, <2>2
  <1> QED
    BY <1>2, <1>3, FS_Bijection DEF ExistsBijection

\* updateFdMax is at least the listening socket and every client's, and it is
\* the listening socket when there is no client.
LEMMA FdMaxBounds ==
  ASSUME NEW s \in Servers
  PROVE  /\ FdMax(s) \in Fd /\ s.sock <= FdMax(s) /\ \A f \in Sockets(s) : f <= FdMax(s)
         /\ Sockets(s) = {} => FdMax(s) = s.sock
  <1> DEFINE S == {0, s.sock} \cup Sockets(s)
  <1>1. S \in SUBSET Fd /\ S # {} /\ s.sock \in S /\ Sockets(s) \subseteq S
    BY ServersType, FdAssumption
  <1>2. S \in SUBSET Nat /\ IsFiniteSet(S)
    BY <1>1, FdAssumption, FS_Subset
  <1> HIDE DEF S
  <1>3. Max(S) \in S /\ \A y \in S : y <= Max(S)
    BY <1>1, <1>2, MaxOfFinite
  <1>4. Max(S) \in Fd /\ s.sock <= Max(S) /\ \A f \in Sockets(s) : f <= Max(S)
    BY <1>1, <1>3
  <1>5. Sockets(s) = {} => Max(S) = s.sock
    <2>1. Sockets(s) = {} => Max(S) \in {0, s.sock}
      BY <1>3 DEF S
    <2>2. s.sock \in Nat /\ Max(S) \in Nat
      BY <1>1, <1>2, <1>3
    <2> QED
      BY <1>4, <2>1, <2>2
  <1> QED
    BY <1>4, <1>5 DEF FdMax, S

\* The constructed server has no client, watches nothing and has no socket.
LEMMA IdleServer ==
  /\ Idle \in Servers /\ Sockets(Idle) = {} /\ Distinct(Idle) /\ Agree(Idle)
  /\ Idle.sock = 0 /\ Idle.fds = {} /\ Idle.max = 0 /\ Idle.clients.n = 0
  /\ Idle.clients = NoElements /\ Elements(Idle.users) = {}
  <1>1. Idle \in Servers
    BY FdAssumption, NoElementsVector DEF Idle, Servers
  <1> QED
    BY <1>1, NoElementsVector DEF Idle, Sockets, Distinct, Agree, NoElements

\* Whoever listens watches the new socket alone.
LEMMA ListeningServer ==
  ASSUME NEW s \in Servers, NEW fd \in Fd
  PROVE  /\ Listening(s, fd) \in Servers
         /\ Listening(s, fd).clients = s.clients /\ Listening(s, fd).users = s.users
         /\ Listening(s, fd).sock = fd
         /\ Listening(s, fd).fds = {fd} /\ Listening(s, fd).max = fd
  BY DEF Listening, Servers

\* A descriptor that is watched is in mfdAll, and mfdMax is as large.
LEMMA WatchedServer ==
  ASSUME NEW s \in Servers, NEW fd \in Fd
  PROVE  /\ Watched(s, fd) \in Servers
         /\ Watched(s, fd).clients = s.clients /\ Watched(s, fd).users = s.users
         /\ Watched(s, fd).sock = s.sock
         /\ Watched(s, fd).fds = s.fds \cup {fd}
         /\ fd <= Watched(s, fd).max /\ s.max <= Watched(s, fd).max
         /\ Watched(s, fd).max \in {fd, s.max}
  <1>1. s.max \in Nat /\ fd \in Nat
    BY ServersType, FdAssumption
  <1> DEFINE m == IF fd > s.max THEN fd ELSE s.max
             F == s.fds \cup {fd}
  <1>2. m \in Fd /\ fd <= m /\ s.max <= m /\ m \in {fd, s.max}
    BY <1>1, ServersType
  <1>3. F \in SUBSET Fd
    BY ServersType
  <1>4. Watched(s, fd) = [s EXCEPT !.fds = F, !.max = m]
    BY DEF Watched
  <1> HIDE DEF m, F
  <1>5. /\ Watched(s, fd) \in Servers
        /\ Watched(s, fd).clients = s.clients /\ Watched(s, fd).users = s.users
        /\ Watched(s, fd).sock = s.sock
        /\ Watched(s, fd).fds = F /\ Watched(s, fd).max = m
    BY <1>2, <1>3, <1>4 DEF Servers
  <1> QED
    BY <1>2, <1>5 DEF F

\* captureUserReadFd watches its descriptor, and lists it when it is new.
LEMMA CapturedServer ==
  ASSUME NEW s \in Servers, NEW fd \in Fd
  PROVE  /\ Captured(s, fd) \in Servers
         /\ Captured(s, fd).clients = s.clients /\ Captured(s, fd).sock = s.sock
         /\ Captured(s, fd).fds = s.fds \cup {fd}
         /\ s.max <= Captured(s, fd).max /\ Captured(s, fd).max \in {fd, s.max}
         /\ Captured(s, fd).users =
               IF fd \in s.fds \cup Sockets(s) \cup Elements(s.users) THEN s.users
               ELSE PushBack(s.users, fd)
  <1>1. s.max \in Nat
    BY ServersType, FdAssumption
  <1>2. CASE fd \in s.fds
    BY <1>1, <1>2 DEF Captured
  <1>3. CASE fd \notin s.fds
    <2> DEFINE t == Watched(s, fd)
               u == IF fd \in Sockets(s) \cup Elements(s.users) THEN s.users
                    ELSE PushBack(s.users, fd)
    <2>1. /\ t \in Servers /\ t.clients = s.clients /\ t.sock = s.sock
          /\ t.fds = s.fds \cup {fd} /\ s.max <= t.max /\ t.users = s.users
          /\ t.max \in {fd, s.max}
      BY WatchedServer
    <2>2. u \in Vectors(Fd)
      BY ServersType, PushBackVector
    <2>3. Captured(s, fd) = [t EXCEPT !.users = u]
      BY <1>3, <2>1 DEF Captured
    <2> HIDE DEF t, u
    <2>4. /\ Captured(s, fd) \in Servers
          /\ Captured(s, fd).clients = s.clients /\ Captured(s, fd).sock = s.sock
          /\ Captured(s, fd).fds = s.fds \cup {fd} /\ s.max <= Captured(s, fd).max
          /\ Captured(s, fd).max \in {fd, s.max}
          /\ Captured(s, fd).users = u
      BY <2>1, <2>2, <2>3 DEF Servers
    <2> QED
      BY <1>3, <2>4 DEF u
  <1> QED
    BY <1>2, <1>3

\* A new record has a socket of its own.
LEMMA ListedServer ==
  ASSUME NEW s \in Servers, NEW fd \in Fd
  PROVE  /\ Listed(s, fd) \in Servers
         /\ Listed(s, fd).clients.n = s.clients.n + 1
         /\ Len(Listed(s, fd).clients.mem) >= Len(s.clients.mem)
         /\ Listed(s, fd).sock = s.sock /\ Listed(s, fd).users = s.users
         /\ Listed(s, fd).fds = s.fds /\ Listed(s, fd).max = s.max
         /\ Sockets(Listed(s, fd)) = Sockets(s) \cup {fd}
         /\ Distinct(s) /\ fd \notin Sockets(s) => Distinct(Listed(s, fd))
         /\ Agree(s) => Agree(Listed(s, fd))
  <1> DEFINE t == Listed(s, fd)
             r == Record(fd)
             v == s.clients
             w == PushBack(v, r)
  <1>1. r \in ClientRecords /\ r.sock = fd /\ r.xfer = fd
    BY DEF Record, ClientRecords
  <1>2. v \in Vectors(ClientRecords) /\ v.n \in Nat /\ Len(v.mem) \in Nat /\ v.n <= Len(v.mem)
    BY ServersType
  <1>3. t = [s EXCEPT !.clients = w]
    BY DEF Listed
  <1> HIDE DEF r, t
  <1>4. /\ w \in Vectors(ClientRecords) /\ w.n = v.n + 1 /\ Len(w.mem) >= Len(v.mem)
        /\ Len(w.mem) \in {Len(v.mem), v.n + 1}
        /\ \A i \in 1 .. Len(w.mem) : w.mem[i] = IF i = v.n + 1 THEN r ELSE v.mem[i]
        /\ Elements(w) = Elements(v) \cup {r}
    BY <1>1, <1>2, PushBackVector
  <1>5. Len(w.mem) \in Nat /\ w.n <= Len(w.mem)
    BY <1>4 DEF Vectors
  <1>6. \A i \in 1 .. Len(w.mem) : i = v.n + 1 \/ i \in 1 .. Len(v.mem)
    BY <1>2, <1>4
  <1> HIDE DEF w
  <1>7. /\ t \in Servers /\ t.clients = w /\ t.sock = s.sock /\ t.users = s.users
        /\ t.fds = s.fds /\ t.max = s.max
    BY <1>3, <1>4 DEF Servers, ClientRecords
  <1>8. Sockets(t) = Sockets(s) \cup {fd}
    BY <1>1, <1>4, <1>7 DEF Sockets
  <1>9. ASSUME Distinct(s), fd \notin Sockets(s) PROVE Distinct(t)
    <2> SUFFICES ASSUME NEW i \in 1 .. w.n, NEW j \in 1 .. w.n, w.mem[i].sock = w.mem[j].sock
                 PROVE  i = j
      BY <1>7 DEF Distinct
    <2>1. i \in 1 .. Len(w.mem) /\ j \in 1 .. Len(w.mem)
      BY <1>2, <1>4, <1>5
    <2>2. (i = v.n + 1 \/ i \in 1 .. v.n) /\ (j = v.n + 1 \/ j \in 1 .. v.n)
      BY <1>2, <1>4
    <2>3. \A l \in 1 .. v.n : v.mem[l].sock # fd
      BY <1>9, SocketsByPosition
    <2> QED
      BY <1>1, <1>2, <1>4, <1>9, <2>1, <2>2, <2>3 DEF Distinct
  <1>10. ASSUME Agree(s) PROVE Agree(t)
    <2> SUFFICES ASSUME NEW i \in 1 .. Len(w.mem) PROVE w.mem[i].sock \in {0, w.mem[i].xfer}
      BY <1>7 DEF Agree
    <2>1. CASE i = v.n + 1
      BY <1>1, <1>4, <2>1
    <2>2. CASE i # v.n + 1 /\ i \in 1 .. Len(v.mem)
      BY <1>4, <1>10, <2>2 DEF Agree
    <2> QED
      BY <1>6, <2>1, <2>2
  <1> QED
    BY <1>4, <1>7, <1>8, <1>9, <1>10 DEF t

\* The search of disconnectClient finds a record with the socket it is given,
\* when there is one.
LEMMA FoundAtPosition ==
  ASSUME NEW s \in Servers, NEW p \in 1 .. Len(s.clients.mem)
  PROVE  /\ FoundAt(s, p) \in 1 .. s.clients.n + 1
         /\ FoundAt(s, p) <= s.clients.n =>
               s.clients.mem[FoundAt(s, p)].sock = s.clients.mem[p].sock
         /\ s.clients.mem[p].sock \in Sockets(s) => FoundAt(s, p) <= s.clients.n
  <1> DEFINE n == s.clients.n
             found == {i \in 1 .. n : s.clients.mem[i].sock = s.clients.mem[p].sock}
  <1>1. n \in Nat
    BY ServersType
  <1>2. found \in SUBSET Nat
    OBVIOUS
  <1>3. FoundAt(s, p) = IF found = {} THEN n + 1 ELSE Min(found)
    BY DEF FoundAt
  <1>4. CASE found = {}
    <2>1. FoundAt(s, p) = n + 1
      BY <1>3, <1>4
    <2>2. s.clients.mem[p].sock \notin Sockets(s)
      BY <1>4, SocketsByPosition
    <2> QED
      BY <1>1, <2>1, <2>2
  <1>5. CASE found # {}
    <2>1. Min(found) \in found
      <3> HIDE DEF found
      <3> QED
        BY <1>2, <1>5, MinOfNat
    <2>2. FoundAt(s, p) = Min(found)
      BY <1>3, <1>5
    <2>3. FoundAt(s, p) \in 1 .. n
      BY <2>1, <2>2
    <2>4. s.clients.mem[FoundAt(s, p)].sock = s.clients.mem[p].sock
      BY <2>1, <2>2, Zenon
    <2> QED
      <3> HIDE DEF n, found
      <3> QED
        BY <1>1, <2>3, <2>4 DEF n
  <1> QED
    BY <1>4, <1>5

\* Its first part: the record at p has no socket any more and the socket it
\* had is not watched.
LEMMA UnwatchedServer ==
  ASSUME NEW s \in Servers, NEW p \in 1 .. Len(s.clients.mem)
  PROVE  LET t == Unwatched(s, p)
             old == s.clients.mem[p].sock
         IN  /\ t \in Servers /\ t.sock = s.sock /\ t.users = s.users
             /\ t.clients.n = s.clients.n /\ Len(t.clients.mem) = Len(s.clients.mem)
             /\ \A j \in 1 .. Len(s.clients.mem) :
                   /\ t.clients.mem[j].xfer = s.clients.mem[j].xfer
                   /\ t.clients.mem[j].sock = IF j = p THEN 0 ELSE s.clients.mem[j].sock
             /\ t.fds = IF old = 0 THEN s.fds ELSE s.fds \ {old}
             /\ t.max = s.max \/ (t.sock <= t.max /\ \A f \in Sockets(t) : f <= t.max)
  <1> DEFINE t == Unwatched(s, p)
             old == s.clients.mem[p].sock
             mem == s.clients.mem
             m == [mem EXCEPT ![p].sock = 0]
             v == [s.clients EXCEPT !.mem = m]
             F == s.fds \ {old}
             u == [s EXCEPT !.clients = v, !.fds = F]
  <1>1. /\ s.sock \in Fd /\ s.max \in Fd /\ s.fds \subseteq Fd
        /\ s.clients \in Vectors(ClientRecords) /\ s.clients.n \in Nat
        /\ s.clients.n <= Len(mem) /\ Len(mem) \in Nat /\ s.users \in Vectors(Fd)
        /\ \A i \in 1 .. Len(mem) : mem[i] \in ClientRecords
    BY ServersType
  <1>2. mem \in Seq(ClientRecords)
    BY <1>1 DEF Vectors
  <1>3. /\ m \in Seq(ClientRecords) /\ Len(m) = Len(mem)
        /\ \A j \in 1 .. Len(mem) : /\ m[j].xfer = mem[j].xfer
                                    /\ m[j].sock = IF j = p THEN 0 ELSE mem[j].sock
    <2> DEFINE r == [mem[p] EXCEPT !.sock = 0]
    <2>1. r \in ClientRecords /\ r.xfer = mem[p].xfer /\ r.sock = 0
      BY <1>1, FdAssumption DEF ClientRecords
    <2>2. m = [mem EXCEPT ![p] = r]
      OBVIOUS
    <2> HIDE DEF r, m
    <2>3. /\ m \in Seq(ClientRecords) /\ Len(m) = Len(mem)
          /\ \A j \in 1 .. Len(mem) : m[j] = IF j = p THEN r ELSE mem[j]
      BY <1>1, <1>2, <2>1, <2>2
    <2> QED
      BY <2>1, <2>3
  <1> HIDE DEF m
  <1>4. v \in Vectors(ClientRecords) /\ v.n = s.clients.n /\ v.mem = m
    BY <1>1, <1>3 DEF Vectors
  <1>5. F \in SUBSET Fd
    BY <1>1
  <1> HIDE DEF v, F
  <1>6. /\ u \in Servers /\ u.clients = v /\ u.fds = F /\ u.sock = s.sock
        /\ u.users = s.users /\ u.max = s.max
    BY <1>4, <1>5 DEF Servers, ClientRecords
  <1>7. t = IF old = 0 THEN s ELSE IF old = s.max THEN [u EXCEPT !.max = FdMax(u)] ELSE u
    BY DEF Unwatched, u, v, m, F
  <1> HIDE DEF u, t
  <1>8. CASE old = 0
    <2>1. t = s
      BY <1>7, <1>8
    <2> QED
      BY <1>1, <1>8, <2>1 DEF t
  <1>9. CASE old # 0 /\ old = s.max
    <2>1. t = [u EXCEPT !.max = FdMax(u)]
      BY <1>7, <1>9
    <2>2. FdMax(u) \in Fd /\ u.sock <= FdMax(u) /\ \A f \in Sockets(u) : f <= FdMax(u)
      BY <1>6, FdMaxBounds
    <2>3. /\ t \in Servers /\ t.sock = s.sock /\ t.users = s.users /\ t.clients = v
          /\ t.fds = F /\ t.max = FdMax(u)
      BY <1>6, <2>1, <2>2 DEF Servers
    <2>4. Sockets(t) = Sockets(u)
      BY <1>6, <2>3 DEF Sockets
    <2> QED
      BY <1>3, <1>4, <1>6, <1>9, <2>2, <2>3, <2>4 DEF F, t
  <1>10. CASE old # 0 /\ old # s.max
    <2>1. t = u
      BY <1>7, <1>10
    <2> QED
      BY <1>3, <1>4, <1>6, <1>10, <2>1 DEF F, t
  <1> QED
    BY <1>8, <1>9, <1>10

\* disconnectClient takes the record it found out of the list, and with it
\* its socket out of the list's sockets and out of mfdAll.
LEMMA DisconnectedServer ==
  ASSUME NEW s \in Servers, NEW p \in 1 .. Len(s.clients.mem),
         FoundAt(s, p) <= s.clients.n
  PROVE  LET d == Disconnected(s, p)
             old == s.clients.mem[p].sock
         IN  /\ d \in Servers /\ d.sock = s.sock /\ d.users = s.users
             /\ Len(d.clients.mem) = Len(s.clients.mem)
             /\ d.clients.n = s.clients.n - 1
             /\ Agree(s) => Agree(d)
             /\ old # 0 => d.fds = s.fds \ {old}
             /\ Distinct(s) /\ old # 0 => Sockets(d) = Sockets(s) \ {old} /\ Distinct(d)
             /\ s.sock <= s.max => d.sock <= d.max
             /\ Sockets(d) \subseteq {0} \cup Sockets(s)
             /\ (\A f \in Sockets(s) : f <= s.max) => \A f \in Sockets(d) : f <= d.max
  <1> DEFINE d == Disconnected(s, p)
             t == Unwatched(s, p)
             q == FoundAt(s, p)
             n == s.clients.n
             old == s.clients.mem[p].sock
             w == Erase(t.clients, q)
  <1>1. q \in 1 .. n /\ s.clients.mem[q].sock = old
    BY FoundAtPosition
  <1>2. /\ t \in Servers /\ t.sock = s.sock /\ t.users = s.users
        /\ t.clients.n = n /\ Len(t.clients.mem) = Len(s.clients.mem)
        /\ \A j \in 1 .. Len(s.clients.mem) :
              /\ t.clients.mem[j].xfer = s.clients.mem[j].xfer
              /\ t.clients.mem[j].sock = IF j = p THEN 0 ELSE s.clients.mem[j].sock
        /\ t.fds = IF old = 0 THEN s.fds ELSE s.fds \ {old}
        /\ t.max = s.max \/ (t.sock <= t.max /\ \A f \in Sockets(t) : f <= t.max)
    BY UnwatchedServer
  <1>3. n \in Nat /\ Len(s.clients.mem) \in Nat /\ n <= Len(s.clients.mem)
    BY ServersType
  <1>4. t.clients \in Vectors(ClientRecords)
    BY <1>2, ServersType
  <1>5. d = [t EXCEPT !.clients = w]
    BY DEF Disconnected
  <1> HIDE DEF d, t, q
  <1>6. /\ w \in Vectors(ClientRecords) /\ w.n = n - 1 /\ Len(w.mem) = Len(s.clients.mem)
        /\ \A j \in 1 .. Len(s.clients.mem) :
              w.mem[j] = IF j >= q /\ j < n THEN t.clients.mem[j + 1] ELSE t.clients.mem[j]
        /\ Elements(w) = {t.clients.mem[j] : j \in (1 .. n) \ {q}}
    <2> DEFINE c == t.clients
    <2>1. c \in Vectors(ClientRecords) /\ q \in 1 .. c.n /\ c.n = n
          /\ Len(c.mem) = Len(s.clients.mem)
      BY <1>1, <1>2, <1>4
    <2> HIDE DEF c, n, w
    <2>2. w = Erase(c, q)
      BY DEF w, c
    <2>3. /\ w \in Vectors(ClientRecords) /\ w.n = c.n - 1 /\ Len(w.mem) = Len(c.mem)
          /\ \A j \in 1 .. Len(c.mem) :
                w.mem[j] = IF j >= q /\ j < c.n THEN c.mem[j + 1] ELSE c.mem[j]
          /\ Elements(w) = {c.mem[j] : j \in (1 .. c.n) \ {q}}
      BY <2>1, <2>2, EraseVector
    <2>4. /\ w \in Vectors(ClientRecords) /\ w.n = n - 1 /\ Len(w.mem) = Len(s.clients.mem)
          /\ \A j \in 1 .. Len(s.clients.mem) :
                w.mem[j] = IF j >= q /\ j < n THEN c.mem[j + 1] ELSE c.mem[j]
          /\ Elements(w) = {c.mem[j] : j \in (1 .. n) \ {q}}
      BY <2>1, <2>3
    <2> QED
      BY <2>4 DEF c
  <1> HIDE DEF w
  <1>7. /\ d \in Servers /\ d.clients = w /\ d.sock = s.sock /\ d.users = s.users
        /\ d.fds = t.fds /\ d.max = t.max
    BY <1>2, <1>5, <1>6 DEF Servers, ClientRecords
  <1>8. Sockets(d) = {t.clients.mem[j].sock : j \in (1 .. n) \ {q}}
    BY <1>6, <1>7 DEF Sockets
  <1>9. Sockets(d) \subseteq Sockets(t) /\ Sockets(d) \subseteq {0} \cup Sockets(s)
    <2>1. Sockets(t) = {t.clients.mem[j].sock : j \in 1 .. n}
      BY <1>2, SocketsByPosition
    <2>2. Sockets(s) = {s.clients.mem[j].sock : j \in 1 .. n}
      BY SocketsByPosition
    <2>3. \A j \in 1 .. n : t.clients.mem[j].sock \in {0, s.clients.mem[j].sock}
      BY <1>2, <1>3, SMTT(30)
    <2> QED
      BY <1>8, <2>1, <2>2, <2>3
  <1>10. ASSUME Agree(s) PROVE Agree(d)
    <2> SUFFICES ASSUME NEW j \in 1 .. Len(w.mem) PROVE w.mem[j].sock \in {0, w.mem[j].xfer}
      BY <1>7 DEF Agree
    <2>1. \A i \in 1 .. Len(s.clients.mem) :
            t.clients.mem[i].sock \in {0, t.clients.mem[i].xfer}
      BY <1>2, <1>10 DEF Agree
    <2>2. j \in 1 .. Len(s.clients.mem) /\ (j < n => j + 1 \in 1 .. Len(s.clients.mem))
      BY <1>3, <1>6
    <2> QED
      BY <1>6, <2>1, <2>2
  <1>11. ASSUME Distinct(s), old # 0 PROVE Sockets(d) = Sockets(s) \ {old} /\ Distinct(d)
    <2>1. \A j \in (1 .. n) \ {q} : /\ s.clients.mem[j].sock # old
                                   /\ t.clients.mem[j].sock = s.clients.mem[j].sock
      BY <1>1, <1>2, <1>3, <1>11 DEF Distinct
    <2>2. Sockets(d) = Sockets(s) \ {old}
      BY <1>1, <1>8, <2>1, SocketsByPosition, SMTT(30)
    <2>3. ASSUME NEW i \in 1 .. n - 1, NEW j \in 1 .. n - 1, w.mem[i].sock = w.mem[j].sock
          PROVE  i = j
      <3> DEFINE At(l) == IF l >= q THEN l + 1 ELSE l
      <3>1. q \in Nat /\ i \in Nat /\ j \in Nat
        BY <1>1
      <3>2. At(i) \in (1 .. n) \ {q} /\ At(j) \in (1 .. n) \ {q}
        BY <1>1, <1>3, <3>1
      <3>3. w.mem[i] = t.clients.mem[At(i)] /\ w.mem[j] = t.clients.mem[At(j)]
        <4>1. i \in 1 .. Len(s.clients.mem) /\ i < n /\ j \in 1 .. Len(s.clients.mem) /\ j < n
          BY <1>3
        <4>2. w.mem[i] = IF i >= q THEN t.clients.mem[i + 1] ELSE t.clients.mem[i]
          BY <1>6, <4>1
        <4>3. w.mem[j] = IF j >= q THEN t.clients.mem[j + 1] ELSE t.clients.mem[j]
          BY <1>6, <4>1
        <4> QED
          BY <4>2, <4>3
      <3>4. At(i) = At(j)
        BY <1>11, <2>1, <2>3, <3>2, <3>3 DEF Distinct
      <3> QED
        BY <3>1, <3>4
    <2> QED
      BY <1>6, <1>7, <2>2, <2>3 DEF Distinct
  <1>12. s.sock <= s.max => d.sock <= d.max
    BY <1>2, <1>7
  <1>13. ASSUME \A f \in Sockets(s) : f <= s.max PROVE \A f \in Sockets(d) : f <= d.max
    <2>1. s.max \in Nat
      BY ServersType, FdAssumption
    <2>2. CASE t.max = s.max
      <3>1. \A f \in {0} \cup Sockets(s) : f <= s.max
        BY <1>13, <2>1
      <3> QED
        BY <1>7, <1>9, <2>2, <3>1
    <2>3. CASE \A f \in Sockets(t) : f <= t.max
      BY <1>7, <1>9, <2>3
    <2> QED
      BY <1>2, <2>2, <2>3
  <1>14. old # 0 => d.fds = s.fds \ {old}
    BY <1>2, <1>7
  <1> QED
    BY <1>6, <1>7, <1>9, <1>10, <1>11, <1>12, <1>13, <1>14 DEF d

\* disconnectAllClients forgets the list, not its memory, whose records have
\* no socket any more, and watches only the listening socket.
LEMMA AllDisconnectedServer ==
  ASSUME NEW s \in Servers
  PROVE  LET d == AllDisconnected(s)
         IN  /\ d \in Servers /\ d.sock = s.sock /\ d.users = s.users
             /\ d.clients.n = 0 /\ Len(d.clients.mem) = Len(s.clients.mem)
             /\ Sockets(d) = {} /\ (Agree(s) => Agree(d))
             /\ d.fds = {s.sock} /\ d.max = s.sock
  <1> DEFINE d == AllDisconnected(s)
             mem == s.clients.mem
             m == [j \in 1 .. Len(mem) |->
                     IF j <= s.clients.n THEN [mem[j] EXCEPT !.sock = 0] ELSE mem[j]]
             v == [mem |-> m, n |-> 0]
  <1>1. /\ s.sock \in Fd /\ Len(mem) \in Nat
        /\ \A i \in 1 .. Len(mem) : mem[i] \in ClientRecords
    BY ServersType
  <1>2. /\ m \in Seq(ClientRecords) /\ Len(m) = Len(mem)
        /\ \A j \in 1 .. Len(mem) : m[j].xfer = mem[j].xfer /\ m[j].sock \in {0, mem[j].sock}
    BY <1>1, FdAssumption DEF ClientRecords
  <1>3. d = [s EXCEPT !.clients = v, !.fds = {s.sock}, !.max = s.sock]
    BY DEF AllDisconnected
  <1> HIDE DEF m, d
  <1>4. v \in Vectors(ClientRecords) /\ v.n = 0 /\ v.mem = m /\ Elements(v) = {}
    BY <1>2 DEF Vectors, Elements
  <1> HIDE DEF v
  <1>5. {s.sock} \in SUBSET Fd
    BY <1>1
  <1>6. /\ d \in Servers /\ d.sock = s.sock /\ d.users = s.users
        /\ d.clients = v /\ d.fds = {s.sock} /\ d.max = s.sock
    BY <1>1, <1>3, <1>4, <1>5 DEF Servers, ClientRecords
  <1>7. Sockets(d) = {}
    BY <1>4, <1>6 DEF Sockets
  <1>8. Agree(s) => Agree(d)
    BY <1>2, <1>4, <1>6 DEF Agree
  <1> QED
    BY <1>2, <1>4, <1>6, <1>7, <1>8 DEF d

\* Closing the listening socket changes mSocket only.
LEMMA ClosedServer ==
  ASSUME NEW s \in Servers
  PROVE  /\ Closed(s) \in Servers /\ Closed(s).sock = 0
         /\ Closed(s).clients = s.clients /\ Closed(s).users = s.users
         /\ Closed(s).fds = s.fds /\ Closed(s).max = s.max
  BY FdAssumption DEF Closed, Servers

\* The end of term() clears the set, its maximum and the user's descriptors.
LEMMA ForgottenServer ==
  ASSUME NEW s \in Servers
  PROVE  /\ Forgotten(s) \in Servers /\ Forgotten(s).sock = s.sock
         /\ Forgotten(s).clients = s.clients /\ Elements(Forgotten(s).users) = {}
         /\ Forgotten(s).users.n = 0
         /\ Forgotten(s).fds = {} /\ Forgotten(s).max = 0
  <1>1. Clear(s.users) \in Vectors(Fd) /\ Elements(Clear(s.users)) = {} /\ Clear(s.users).n = 0
    BY ServersType, ClearVector DEF Clear, Vectors
  <1> DEFINE u == Clear(s.users)
  <1>2. Forgotten(s) = [s EXCEPT !.users = u, !.fds = {}, !.max = 0]
    BY DEF Forgotten
  <1> HIDE DEF u
  <1>3. /\ Forgotten(s) \in Servers /\ Forgotten(s).sock = s.sock
        /\ Forgotten(s).clients = s.clients /\ Forgotten(s).users = u
        /\ Forgotten(s).fds = {} /\ Forgotten(s).max = 0
    BY <1>1, <1>2, FdAssumption DEF Servers, u
  <1> QED
    BY <1>1, <1>3 DEF u

\* What is said of the client list depends on the client list only.
LEMMA AgreeClients ==
  ASSUME NEW s, NEW t, t.clients = s.clients
  PROVE  /\ Agree(t) = Agree(s) /\ Distinct(t) = Distinct(s) /\ Sockets(t) = Sockets(s)
  BY DEF Agree, Distinct, Sockets

=============================================================================
