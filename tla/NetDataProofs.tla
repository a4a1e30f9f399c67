---------------------------- MODULE NetDataProofs ----------------------------
(***************************************************************************)
(* One direction of a connection: for every size of the two cyclic         *)
(* buffers, every number of bytes given, every capacity of the sockets and *)
(* every split of the regions over ::send and ::recv, the bytes arrive     *)
(* once and in their order.                                                *)
(***************************************************************************)
EXTENDS NetData, OpsProofs

-----------------------------------------------------------------------------
\* Sequences.

\* The first k of a sequence, and those behind them.
LEMMA FrontAndRest ==
  ASSUME NEW S, NEW q \in Seq(S), NEW k \in 0 .. Len(q)
  PROVE  /\ SubSeq(q, 1, k) \in Seq(S) /\ Len(SubSeq(q, 1, k)) = k
         /\ SubSeq(q, k + 1, Len(q)) \in Seq(S)
         /\ Len(SubSeq(q, k + 1, Len(q))) = Len(q) - k
  <1>1. Len(q) \in Nat /\ k \in Nat /\ k <= Len(q)
    BY LenProperties
  <1>2. SubSeq(q, 1, k) \in Seq(S) /\ Len(SubSeq(q, 1, k)) = k + 1 - 1
    <2>1. 1 \in Nat /\ 1 >= 1 /\ 1 <= k + 1
      BY <1>1
    <2> QED
      BY <1>1, <2>1, SubSeqOfSeq
  <1>3. /\ SubSeq(q, k + 1, Len(q)) \in Seq(S)
        /\ Len(SubSeq(q, k + 1, Len(q))) = Len(q) + 1 - (k + 1)
    <2>1. k + 1 \in Nat /\ k + 1 >= 1 /\ k + 1 <= Len(q) + 1 /\ Len(q) <= Len(q)
      BY <1>1
    <2> QED
      BY <1>1, <2>1, SubSeqOfSeq
  <1> QED
    BY <1>1, <1>2, <1>3

\* A sequence is its first k and what is behind them.
LEMMA SplitAt ==
  ASSUME NEW S, NEW q \in Seq(S), NEW k \in 0 .. Len(q)
  PROVE  SubSeq(q, 1, k) \o SubSeq(q, k + 1, Len(q)) = q
  <1>1. k \in Nat /\ Len(q) \in Nat /\ k <= Len(q)
    BY LenProperties
  <1>2. 1 \in 1 .. Len(q) + 1 /\ k \in 1 - 1 .. Len(q) /\ Len(q) \in k .. Len(q)
    BY <1>1
  <1>3. SubSeq(q, 1, k) \o SubSeq(q, k + 1, Len(q)) = SubSeq(q, 1, Len(q))
    BY <1>2, ConcatAdjacentSubSeq
  <1> QED
    BY <1>3, SubSeqFull

\* Sequences are joined in any order.
LEMMA Associate ==
  ASSUME NEW S
  PROVE  \A x, y, z \in Seq(S) : (x \o y) \o z = x \o (y \o z)
  BY ConcatAssociative

\* Numbers of which each is at most one more than the one before it.
NoGap(q) == \A i \in 1 .. Len(q) : q[i] \in 1 .. (IF i = 1 THEN 1 ELSE q[i - 1] + 1)
LastOf(q) == IF q = << >> THEN 0 ELSE q[Len(q)]
FirstNumbers(n) == [i \in 1 .. n |-> i]

\* The numbers after p, sent behind a sequence that has come to p or further.
LEMMA RunExtends ==
  ASSUME NEW q \in Seq(Nat), NEW p \in Nat, NEW r \in Seq(Nat),
         NoGap(q), p <= LastOf(q), \A i \in 1 .. Len(r) : r[i] = p + i
  PROVE  /\ NoGap(q \o r) /\ p + Len(r) <= LastOf(q \o r)
         /\ q = FirstNumbers(p) => q \o r = FirstNumbers(p + Len(r))
  <1> DEFINE n == Len(q)
             k == Len(r)
             s == q \o r
  <1>1. /\ n \in Nat /\ k \in Nat /\ s \in Seq(Nat) /\ Len(s) = n + k
        /\ \A i \in 1 .. n : s[i] = q[i]
        /\ \A i \in 1 .. k : s[n + i] = p + i
    BY LenProperties, ConcatProperties
  <1>2. \A i \in 1 .. n : q[i] \in Nat
    BY ElementOfSeq
  <1>3. LastOf(q) = IF n = 0 THEN 0 ELSE q[n]
    BY EmptySeq DEF LastOf
  <1>4. LastOf(s) = IF n + k = 0 THEN 0 ELSE s[n + k]
    BY <1>1, EmptySeq DEF LastOf
  <1> HIDE DEF n, k, s
  <1>5. \A i \in 1 .. n + k : i \in 1 .. n \/ (i - n \in 1 .. k /\ i = n + (i - n))
    BY <1>1
  <1>6. ASSUME NEW i \in 1 .. n + k
        PROVE  s[i] \in 1 .. (IF i = 1 THEN 1 ELSE s[i - 1] + 1)
    <2>1. CASE i \in 1 .. n
      <3>1. q[i] \in 1 .. (IF i = 1 THEN 1 ELSE q[i - 1] + 1)
        BY <2>1 DEF NoGap, n
      <3>2. i # 1 => i - 1 \in 1 .. n
        BY <1>1, <2>1
      <3> QED
        BY <1>1, <2>1, <3>1, <3>2
    <2>2. CASE i - n \in 1 .. k
      <3>1. s[i] = p + (i - n)
        <4>1. s[n + (i - n)] = p + (i - n)
          BY <1>1, <2>2
        <4>2. n + (i - n) = i
          BY <1>1, <1>5, <2>2
        <4> QED
          BY <4>1, <4>2
      <3>2. CASE i - n = 1
        <4>1. i = n + 1 /\ s[i] = p + 1
          BY <1>1, <2>2, <3>1, <3>2
        <4>2. n # 0 => n \in 1 .. n /\ s[n] = q[n] /\ q[n] \in Nat
          BY <1>1, <1>2
        <4> QED
          BY <1>1, <1>3, <4>1, <4>2
      <3>3. CASE i - n # 1
        <4>1. i - n - 1 \in 1 .. k /\ i - 1 = n + (i - n - 1) /\ i # 1
          BY <1>1, <2>2, <3>3
        <4>2. s[i - 1] = p + (i - n - 1)
          BY <1>1, <4>1
        <4> QED
          BY <1>1, <2>2, <3>1, <4>1, <4>2
      <3> QED
        BY <3>2, <3>3
    <2> QED
      BY <1>5, <2>1, <2>2
  <1>7. NoGap(s)
    BY <1>1, <1>6 DEF NoGap
  <1>8. p + k <= LastOf(s)
    <2>1. CASE k = 0
      BY <1>1, <1>2, <1>3, <1>4, <2>1
    <2>2. CASE k # 0
      <3>1. k \in 1 .. k
        BY <1>1, <2>2
      <3> QED
        BY <1>1, <1>4, <2>2, <3>1
    <2> QED
      BY <2>1, <2>2
  <1>9. ASSUME q = FirstNumbers(p)
        PROVE  s = FirstNumbers(p + k)
    <2>1. n = p
      BY <1>9 DEF n, FirstNumbers
    <2>2. \A i \in 1 .. p : q[i] = i
      BY <1>9 DEF FirstNumbers
    <2>3. \A i \in 1 .. p + k : s[i] = i
      <3> TAKE i \in 1 .. p + k
      <3>1. CASE i \in 1 .. p
        BY <1>1, <2>1, <2>2, <3>1
      <3>2. CASE i - n \in 1 .. k
        <4>1. s[n + (i - n)] = p + (i - n)
          BY <1>1, <3>2
        <4>2. n + (i - n) = i /\ p + (i - n) = i
          BY <1>1, <2>1
        <4> QED
          BY <4>1, <4>2
      <3> QED
        BY <1>5, <2>1, <3>1, <3>2
    <2>4. s = [i \in 1 .. p + k |-> s[i]]
      BY <1>1, <2>1
    <2> QED
      BY <2>3, <2>4 DEF FirstNumbers
  <1> QED
    BY <1>7, <1>8, <1>9 DEF s, k

-----------------------------------------------------------------------------
\* The buffers.

\* Bytes copied to the region at the tail and committed are written as
\* writecopy writes a chunk that fits.
LEMMA PlacedIsWriteChunk ==
  ASSUME NEW b \in CycBufs, NEW bs \in Seq(Byte), Len(bs) <= WriteTailRegion(b).n
  PROVE  LET w == IF IsFull(b) THEN b ELSE WriteReady(b)
         IN  /\ AfterPushWriteTail([w EXCEPT !.buf = Place(w.buf, w.tail, bs)], Len(bs))
                  = AfterWriteChunk(b, bs)
             /\ WriteChunk(b, bs) = Len(bs)
  <1> DEFINE n == Len(bs)
             w == IF IsFull(b) THEN b ELSE WriteReady(b)
             f == [w EXCEPT !.buf = Place(w.buf, w.tail, bs)]
  <1>1. n \in Nat
    BY LenProperties
  <1>2. w \in CycBufs
    BY WriteReadyType
  <1>3. n = 0 => Place(w.buf, w.tail, bs) = w.buf
    <2> HIDE DEF w
    <2>1. w.tail \in Nat /\ w.buf \in [Cell -> Byte] /\ \A p \in Cell : p \in Nat
      BY <1>2, EndType DEF CycBufs, Cell
    <2>2. n = 0 => \A p \in Cell : ~(p >= w.tail /\ p < w.tail + n)
      BY <2>1
    <2> QED
      BY <2>1, <2>2 DEF Place
  <1>4. CASE IsFull(b)
    <2>1. n = 0
      BY <1>1, <1>4 DEF WriteTailRegion, NoRegion
    <2>2. f = b
      <3>1. w = b
        BY <1>4
      <3> HIDE DEF w
      <3>2. [b EXCEPT !.buf = b.buf] = b
        BY DEF CycBufs
      <3> QED
        BY <1>3, <2>1, <3>1, <3>2
    <2>3. WriteChunk(b, bs) = 0
      BY <1>4, WriteChunkType
    <2> QED
      BY <1>4, <2>1, <2>2, <2>3 DEF AfterPushWriteTail, AfterWriteChunk
  <1>5. CASE ~IsFull(b)
    <2>1. /\ w = WriteReady(b) /\ w.tail < End
          /\ WriteAvail(w) \in Nat /\ n <= WriteAvail(w)
      BY <1>5, WriteReadyType, WriteAvailType
    <2>2. WriteChunk(b, bs) = n
      BY <1>1, <1>5, <2>1, WriteChunkType DEF Least
    <2>3. SubSeq(bs, 1, n) = bs
      BY SubSeqFull
    <2>4. AfterWriteChunk(b, bs)
            = [head |-> w.head, tail |-> w.tail + n, buf |-> Place(w.buf, w.tail, bs)]
      BY <1>5, <2>1, <2>2, <2>3 DEF AfterWriteChunk
    <2> HIDE DEF w
    <2>5. f = [head |-> w.head, tail |-> w.tail, buf |-> Place(w.buf, w.tail, bs)]
      BY <1>2 DEF CycBufs
    <2>6. f.head = w.head /\ f.tail = w.tail /\ f.buf = Place(w.buf, w.tail, bs)
      BY <2>5
    <2>7. w.head \in Nat /\ w.tail \in Nat /\ w.head <= End /\ End \in Nat
      BY <1>2, EndType DEF CycBufs, Cell
    <2>8. CASE IsFull(w)
      <3>1. n = 0
        BY <1>1, <2>1, <2>7, <2>8 DEF IsFull, WriteAvail
      <3>2. IsFull(f)
        BY <2>6, <2>8 DEF IsFull
      <3>3. AfterPushWriteTail(f, n) = f
        BY <3>2 DEF AfterPushWriteTail
      <3>4. w.tail + n = w.tail
        BY <3>1, <2>7
      <3> QED
        BY <2>2, <2>4, <2>5, <3>3, <3>4 DEF w
    <2>9. CASE ~IsFull(w)
      <3>1. ~IsFull(f)
        BY <2>6, <2>9 DEF IsFull
      <3>2. WriteReady(f) = f
        BY <2>1, <2>6, <2>7 DEF WriteReady
      <3>3. Least(n, WriteAvail(f)) = n
        BY <1>1, <2>1, <2>6 DEF WriteAvail, Least
      <3>4. AfterPushWriteTail(f, n) = [f EXCEPT !.tail = f.tail + n]
        BY <3>1, <3>2, <3>3 DEF AfterPushWriteTail
      <3>5. [f EXCEPT !.tail = f.tail + n]
              = [head |-> w.head, tail |-> w.tail + n, buf |-> Place(w.buf, w.tail, bs)]
        <4> DEFINE bf == Place(w.buf, w.tail, bs)
        <4> HIDE DEF bf, f
        <4>1. f = [head |-> w.head, tail |-> w.tail, buf |-> bf]
          BY <2>5 DEF bf
        <4>2. [f EXCEPT !.tail = f.tail + n] = [head |-> w.head, tail |-> w.tail + n, buf |-> bf]
          BY <4>1
        <4> QED
          BY <4>2 DEF bf
      <3> QED
        BY <2>2, <2>4, <3>4, <3>5 DEF w
    <2> QED
      BY <2>8, <2>9
  <1> QED
    BY <1>4, <1>5

\* What a reader that is k bytes into the region at the head is shown is what
\* the queue holds from there on.
LEMMA RegionFrom ==
  ASSUME NEW b \in CycBufs, NEW n \in Nat, n <= ReadAvail(b), n <= Count(b),
         NEW k \in Nat, NEW m \in Nat, k + m <= n
  PROVE  /\ Region(b, b.head + k, m) \in Seq(Byte) /\ Len(Region(b, b.head + k, m)) = m
         /\ \A i \in 1 .. m : Region(b, b.head + k, m)[i] = Contents(b)[k + i]
  <1>1. b.head \in Nat /\ b.tail \in Nat /\ b.head <= End /\ b.tail <= End /\ End \in Nat
    BY EndType DEF CycBufs, Cell
  <1>2. b.head + n <= End
    BY <1>1 DEF ReadAvail
  <1>3. \A i \in 1 .. m : (b.head + k) + i - 1 = b.head + (k + i) - 1
    BY <1>1
  <1>4. \A i \in 1 .. m : k + i \in 1 .. Count(b) /\ b.head + (k + i) - 1 < End
    BY <1>1, <1>2, CountType
  <1>5. \A i \in 1 .. m : Slot(b.head + (k + i) - 1) = b.head + (k + i) - 1
    <2> SUFFICES ASSUME NEW i \in 1 .. m
                 PROVE  Slot(b.head + (k + i) - 1) = b.head + (k + i) - 1
      OBVIOUS
    <2> DEFINE p == b.head + (k + i) - 1
    <2>1. p \in Nat /\ p < End
      BY <1>1, <1>4
    <2> HIDE DEF p
    <2>2. Slot(p) = p
      BY <1>1, <2>1 DEF Slot
    <2> QED
      BY <2>2 DEF p
  <1>6. \A i \in 1 .. m : /\ Contents(b)[k + i] = b.buf[b.head + (k + i) - 1]
                          /\ b.buf[b.head + (k + i) - 1] \in Byte
    <2> SUFFICES ASSUME NEW i \in 1 .. m
                 PROVE  /\ Contents(b)[k + i] = b.buf[b.head + (k + i) - 1]
                        /\ b.buf[b.head + (k + i) - 1] \in Byte
      OBVIOUS
    <2>1. k + i \in 1 .. Count(b)
      BY <1>4
    <2>2. Contents(b)[k + i] = b.buf[Slot(b.head + (k + i) - 1)]
      BY <2>1, ContentsType
    <2>3. b.head + (k + i) - 1 \in Cell
      BY <1>1, <1>4 DEF Cell
    <2> QED
      BY <1>5, <2>2, <2>3 DEF CycBufs
  <1>7. Region(b, b.head + k, m) = [i \in 1 .. m |-> b.buf[b.head + (k + i) - 1]]
    BY <1>3 DEF Region
  <1> DEFINE r == Region(b, b.head + k, m)
  <1>8. /\ r \in [1 .. m -> Byte]
        /\ \A i \in 1 .. m : r[i] = Contents(b)[k + i]
    BY <1>6, <1>7
  <1> HIDE DEF r
  <1>9. r \in Seq(Byte) /\ Len(r) = m
    BY <1>8
  <1> QED
    BY <1>8, <1>9 DEF r

-----------------------------------------------------------------------------
\* The invariant.

\* The bytes of mSendBuf that ::send has not taken, and the last that it has.
Waiting == IF spc = "send" THEN Count(sb) - sent ELSE Count(sb)
Passed == given - Waiting

\* mSendBuf holds the last bytes given, in their order.
Holds ==
    /\ Count(sb) <= given
    /\ \A i \in 1 .. Count(sb) : Contents(sb)[i] = given - Count(sb) + i

\* The region send() works on is what the buffer shows at its head until it
\* is given back.
RegionHeld ==
    spc = "send" => size <= ReadAvail(sb) /\ size <= Count(sb) /\ sent < size

\* Whatever is received is a byte that was given.
Received == Contents(rb) \in Seq(1 .. Total)

\* recv() goes on to a second recvnow only from the end of the memory or when
\* no room is left.
SecondAtEnd == rpc = "second" => rb.tail = End \/ WriteTailRegion(rb).n = 0

\* The numbers q, sent with f failures by a sender that has come to p.
Follows(q, p, f) ==
    /\ NoGap(q) /\ p <= LastOf(q)
    /\ f = 0 => q = FirstNumbers(p)
Order == up => Follows(Stream, Passed, fails)

Inv ==
    /\ TypeOK /\ Holds /\ RegionHeld /\ Received /\ SecondAtEnd
    /\ Order /\ NothingLeftBehind

\* The bytes given that are not taken by ::send are counted from the last
\* one it took.
LEMMA PassedType ==
  ASSUME TypeOK, Holds, RegionHeld
  PROVE  Passed \in Nat /\ Waiting \in Nat /\ Passed + Waiting = given /\ Count(sb) \in Nat
  <1>1. Count(sb) \in Nat /\ Count(sb) <= given /\ given \in Nat /\ sent \in Nat
    BY CountType, EndType, NetDataAssumption DEF TypeOK, Holds
  <1>2. CASE spc = "send"
    <2>1. sent < Count(sb)
      <3>1. size \in Nat /\ size <= Count(sb) /\ sent < size
        BY <1>2, EndType DEF TypeOK, RegionHeld
      <3> QED
        BY <1>1, <3>1
    <2> QED
      BY <1>1, <1>2, <2>1 DEF Passed, Waiting
  <1>3. CASE spc # "send"
    BY <1>1, <1>3 DEF Passed, Waiting
  <1> QED
    BY <1>2, <1>3

\* The stream is a sequence of the bytes given.
LEMMA StreamType ==
  ASSUME TypeOK, Received
  PROVE  /\ Stream \in Seq(1 .. Total) /\ Stream \in Seq(Nat)
         /\ taken \in Seq(1 .. Total) /\ wire \in Seq(1 .. Total)
         /\ taken \o Contents(rb) \in Seq(1 .. Total)
  <1>1. taken \in Seq(1 .. Total) /\ Contents(rb) \in Seq(1 .. Total) /\ wire \in Seq(1 .. Total)
    BY DEF TypeOK, Received
  <1>2. taken \o Contents(rb) \in Seq(1 .. Total)
    BY <1>1, ConcatProperties
  <1>3. Stream \in Seq(1 .. Total)
    BY <1>1, <1>2, ConcatProperties DEF Stream
  <1>4. \A i \in 1 .. Len(Stream) : Stream[i] \in Nat
    <2>1. \A i \in 1 .. Len(Stream) : Stream[i] \in 1 .. Total
      BY <1>3, ElementOfSeq
    <2> QED
      BY <2>1, NetDataAssumption
  <1>5. Stream \in Seq(Nat)
    BY <1>3, <1>4
  <1> QED
    BY <1>1, <1>2, <1>3, <1>5

\* Nothing has been given and nothing sent.
LEMMA InitInv == Init => Inv
  <1> SUFFICES ASSUME Init PROVE Inv
    OBVIOUS
  <1> USE DEF Init
  <1>1. Cleared \in CycBufs /\ Contents(Cleared) = << >> /\ Count(Cleared) = 0
    BY ClearedType, EndType DEF Cleared, Count
  <1>2. << >> \in Seq(1 .. Total) /\ Len(<< >>) = 0
    BY EmptySeq
  <1>3. TypeOK
    BY <1>1, <1>2, EndType, NetDataAssumption DEF TypeOK
  <1>4. Holds
    BY <1>1 DEF Holds
  <1>5. RegionHeld /\ SecondAtEnd /\ NothingLeftBehind
    BY DEF RegionHeld, SecondAtEnd, NothingLeftBehind
  <1>6. Received
    BY <1>1, <1>2 DEF Received
  <1>7. Order
    <2>1. Stream = << >>
      BY <1>1, <1>2, ConcatEmptySeq DEF Stream
    <2>2. Passed = 0
      BY <1>1 DEF Passed, Waiting
    <2>3. FirstNumbers(0) = << >>
      <3>1. 1 .. 0 = {}
        OBVIOUS
      <3> QED
        BY <3>1, SMT DEF FirstNumbers
    <2> QED
      BY <1>2, <2>1, <2>2, <2>3 DEF Order, Follows, NoGap, LastOf
  <1> QED
    BY <1>3, <1>4, <1>5, <1>6, <1>7 DEF Inv

\* What keeps both ends' buffers, the wire and what ::send has taken keeps
\* the order.
LEMMA SameStream ==
  ASSUME Inv, Stream' = Stream, Passed' = Passed, fails' = fails, up' => up
  PROVE  Order'
  BY DEF Inv, Order

\* The sender puts k bytes into its buffer.
LEMMA GiveInv ==
  ASSUME Inv, NEW k \in 0 .. Size, Give(k)
  PROVE  Inv'
  <1> USE DEF Inv
  <1> DEFINE bytes == [i \in 1 .. k |-> given + i]
             w == IF IsFull(sb) THEN sb ELSE WriteReady(sb)
  <1>1. /\ spc = "app" /\ k <= WriteTailRegion(sb).n /\ given + k <= Total
        /\ given' = given + k /\ spc' = "region"
        /\ size' = size /\ sent' = sent /\ fails' = fails
        /\ rb' = rb /\ rpc' = rpc /\ nds' = nds /\ taken' = taken
        /\ wire' = wire /\ up' = up
    BY DEF Give, rvars
  <1>2. sb' = AfterPushWriteTail([w EXCEPT !.buf = Place(w.buf, w.tail, bytes)], k)
    BY DEF Give
  <1>3. sb \in CycBufs /\ k \in Nat /\ given \in Nat /\ Total \in Nat /\ Byte = 0 .. Total
    BY NetDataAssumption, SizeAssumption DEF TypeOK
  <1>4. bytes \in Seq(Byte) /\ Len(bytes) = k /\ \A i \in 1 .. k : bytes[i] = given + i
    <2>1. \A i \in 1 .. k : given + i \in Byte
      BY <1>1, <1>3
    <2> QED
      BY <1>3, <2>1
  <1> HIDE DEF bytes
  <1>5. sb' = AfterWriteChunk(sb, bytes) /\ WriteChunk(sb, bytes) = k
    BY <1>1, <1>2, <1>3, <1>4, PlacedIsWriteChunk
  <1> HIDE DEF w
  <1>6. sb' \in CycBufs /\ Count(sb') = Count(sb) + k
    BY <1>3, <1>4, <1>5, WriteChunkLeaves
  <1>7. Contents(sb') = Contents(sb) \o bytes
    <2>1. SubSeq(bytes, 1, Len(bytes)) = bytes
      BY <1>4, SubSeqFull
    <2> QED
      BY <1>3, <1>4, <1>5, <2>1, WriteChunkContents
  <1> DEFINE q == Contents(sb)
             n == Count(sb)
  <1>8. /\ q \in Seq(Byte) /\ Len(q) = n /\ n \in Nat /\ n <= given
        /\ \A i \in 1 .. n : q[i] = given - n + i
    BY <1>3, ContentsType, CountType, EndType DEF Holds
  <1>9. \A i \in 1 .. n + k : Contents(sb')[i] = IF i <= n THEN q[i] ELSE bytes[i - n]
    <2> HIDE DEF q, n
    <2>1. Contents(sb') = q \o bytes
      BY <1>7 DEF q
    <2> QED
      BY <1>4, <1>8, <2>1, ConcatProperties
  <1>10. Holds'
    <2> SUFFICES Count(sb') <= given' /\ \A i \in 1 .. Count(sb') : Contents(sb')[i] = given' - Count(sb') + i
      BY DEF Holds
    <2> HIDE DEF q, n
    <2>1. Count(sb') = n + k /\ given' = given + k
      BY <1>1, <1>6 DEF n
    <2>2. n + k <= given + k
      BY <1>3, <1>8
    <2>3. \A i \in 1 .. n + k : Contents(sb')[i] = (given + k) - (n + k) + i
      <3> SUFFICES ASSUME NEW i \in 1 .. n + k
                   PROVE  Contents(sb')[i] = (given + k) - (n + k) + i
        OBVIOUS
      <3>1. CASE i <= n
        <4>1. q[i] = given - n + i
          BY <1>8, <3>1
        <4> QED
          BY <1>3, <1>8, <1>9, <3>1, <4>1
      <3>2. CASE ~(i <= n)
        <4>1. i - n \in 1 .. k
          BY <1>3, <1>8, <3>2
        <4>2. bytes[i - n] = given + (i - n)
          BY <1>4, <4>1
        <4> QED
          BY <1>3, <1>8, <1>9, <3>2, <4>2
      <3> QED
        BY <3>1, <3>2
    <2> QED
      BY <2>1, <2>2, <2>3
  <1>11. TypeOK'
    BY <1>1, <1>3, <1>6 DEF TypeOK
  <1>12. RegionHeld' /\ Received' /\ SecondAtEnd' /\ NothingLeftBehind'
    BY <1>1 DEF RegionHeld, Received, SecondAtEnd, NothingLeftBehind
  <1>13. Order'
    <2>1. Passed' = (given + k) - (Count(sb) + k) /\ Passed = given - Count(sb)
      BY <1>1, <1>6 DEF Passed, Waiting
    <2>2. Passed' = Passed
      BY <1>3, <1>8, <2>1
    <2>3. Stream' = Stream
      BY <1>1 DEF Stream
    <2> QED
      BY <1>1, <2>2, <2>3, SameStream
  <1> QED
    BY <1>10, <1>11, <1>12, <1>13

\* send() looks at what is left at the head.
LEMMA SendRegionInv ==
  ASSUME Inv, SendRegion
  PROVE  Inv'
  <1> USE DEF Inv
  <1>1. /\ spc = "region" /\ size' = ReadHeadRegion(sb).n /\ sent' = 0
        /\ sb' = ReadReady(sb) /\ spc' = (IF size' = 0 THEN "app" ELSE "send")
        /\ given' = given /\ fails' = fails
        /\ rb' = rb /\ rpc' = rpc /\ nds' = nds /\ taken' = taken
        /\ wire' = wire /\ up' = up
    BY DEF SendRegion, rvars
  <1>2. sb \in CycBufs /\ Count(sb) \in Nat /\ Count(sb) <= End /\ End \in Nat
    BY CountType, EndType DEF TypeOK
  <1>3. sb' \in CycBufs /\ Count(sb') = Count(sb) /\ Contents(sb') = Contents(sb)
    BY <1>1, <1>2, ReadReadyType, ReadReadyContents
  <1>4. size' \in 0 .. Count(sb) /\ (size' # 0 => size' = ReadAvail(sb'))
    <2>1. CASE IsEmpty(sb)
      BY <1>1, <1>2, <2>1 DEF ReadHeadRegion, NoRegion
    <2>2. CASE ~IsEmpty(sb)
      BY <1>1, <1>2, <2>2, ReadAvailType
    <2> QED
      BY <2>1, <2>2
  <1>5. TypeOK'
    <2>1. size' \in 0 .. End /\ sent' \in 0 .. size' /\ (spc' = "send" => size' <= Count(sb'))
      BY <1>1, <1>2, <1>3, <1>4
    <2> QED
      BY <1>1, <1>3, <2>1 DEF TypeOK
  <1>6. Holds'
    BY <1>1, <1>3 DEF Holds
  <1>7. RegionHeld'
    <2>1. spc' = "send" => /\ size' <= ReadAvail(sb') /\ size' <= Count(sb') /\ sent' < size'
      BY <1>1, <1>2, <1>3, <1>4
    <2> QED
      BY <2>1 DEF RegionHeld
  <1>8. Received' /\ SecondAtEnd' /\ NothingLeftBehind'
    BY <1>1 DEF Received, SecondAtEnd, NothingLeftBehind
  <1>9. Order'
    <2>1. Waiting' = Waiting
      BY <1>1, <1>2, <1>3 DEF Waiting
    <2>2. Passed' = Passed
      BY <1>1, <2>1 DEF Passed
    <2>3. Stream' = Stream
      BY <1>1 DEF Stream
    <2> QED
      BY <1>1, <2>2, <2>3, SameStream
  <1> QED
    BY <1>5, <1>6, <1>7, <1>8, <1>9

\* One ::send takes the next k bytes of the region; the last of them gives
\* the region back.
LEMMA SendSomeInv ==
  ASSUME Inv, NEW k \in 0 .. Size, k > 0, SendSome(k)
  PROVE  Inv'
  <1> USE DEF Inv
  <1> DEFINE r == Region(sb, sb.head + sent, k)
             q == Contents(sb)
             n == Count(sb)
  <1>1. /\ spc = "send" /\ up /\ k <= size - sent /\ Len(wire) + k <= WireRoom
        /\ wire' = wire \o r /\ sent' = sent + k
        /\ size' = size /\ given' = given /\ fails' = fails
        /\ rb' = rb /\ rpc' = rpc /\ nds' = nds /\ taken' = taken /\ up' = up
    BY DEF SendSome, rvars
  <1>2. \/ sent' = size /\ sb' = AfterPushReadHead(sb, size) /\ spc' = "region"
        \/ sent' # size /\ sb' = sb /\ spc' = spc
    BY DEF SendSome
  <1>3. /\ sb \in CycBufs /\ n \in Nat /\ n <= End /\ n <= given /\ End \in Nat
        /\ given \in Nat /\ given <= Total /\ Total \in Nat /\ WireRoom \in Nat
        /\ k \in Nat /\ size \in Nat /\ sent \in Nat
        /\ size <= ReadAvail(sb) /\ size <= n /\ sent < size
    <2>1. size \in Nat /\ size <= ReadAvail(sb) /\ size <= Count(sb) /\ sent < size
      BY <1>1, EndType DEF TypeOK, RegionHeld
    <2> QED
      BY <2>1, CountType, EndType, SizeAssumption, NetDataAssumption DEF TypeOK, Holds
  <1>4. Passed = given - (n - sent)
    BY <1>1 DEF Passed, Waiting
  <1>5. r \in Seq(Byte) /\ Len(r) = k /\ \A i \in 1 .. k : r[i] = q[sent + i]
    <2>1. /\ sent + k <= size /\ sb \in CycBufs /\ size \in Nat /\ sent \in Nat /\ k \in Nat
          /\ size <= ReadAvail(sb) /\ size <= Count(sb)
      BY <1>1, <1>3
    <2>2. /\ Region(sb, sb.head + sent, k) \in Seq(Byte)
          /\ Len(Region(sb, sb.head + sent, k)) = k
          /\ \A i \in 1 .. k : Region(sb, sb.head + sent, k)[i] = Contents(sb)[sent + i]
      BY ONLY <2>1, RegionFrom
    <2> QED
      BY <2>2
  <1>6. \A i \in 1 .. k : r[i] = Passed + i /\ r[i] \in 1 .. Total
    <2> SUFFICES ASSUME NEW i \in 1 .. k
                 PROVE  r[i] = Passed + i /\ r[i] \in 1 .. Total
      OBVIOUS
    <2> HIDE DEF r
    <2>1. sent + i \in 1 .. n
      BY <1>1, <1>3
    <2>2. q[sent + i] = given - n + (sent + i)
      BY <2>1 DEF Holds
    <2>3. r[i] = given - n + (sent + i)
      BY <1>5, <2>2
    <2> HIDE DEF n
    <2> QED
      BY <1>3, <1>4, <2>1, <2>3
  <1> HIDE DEF r, q, n
  <1>7. r \in Seq(1 .. Total) /\ r \in Seq(Nat)
    <2>1. r \in [1 .. k -> 1 .. Total]
      <3>1. r \in [1 .. k -> Byte]
        BY <1>5
      <3> QED
        BY <1>6, <3>1
    <2>2. r \in Seq(1 .. Total)
      BY <1>3, <2>1
    <2>3. \A i \in 1 .. k : r[i] \in Nat
      BY <1>3, <1>6
    <2> QED
      BY <1>5, <2>2, <2>3
  <1>8. wire' \in Seq(1 .. Total) /\ Len(wire') = Len(wire) + k
    BY <1>1, <1>5, <1>7, StreamType, ConcatProperties
  <1>9. Stream' = Stream \o r
    <2> DEFINE tc == taken \o Contents(rb)
    <2>1. tc \in Seq(1 .. Total) /\ wire \in Seq(1 .. Total)
      BY StreamType
    <2>2. Stream = tc \o wire /\ Stream' = tc \o (wire \o r)
      BY <1>1 DEF Stream
    <2> HIDE DEF tc
    <2>3. \A x, y, z \in Seq(1 .. Total) : (x \o y) \o z = x \o (y \o z)
      BY Associate
    <2>4. (tc \o wire) \o r = tc \o (wire \o r)
      BY <1>7, <2>1, <2>3
    <2> QED
      BY <2>2, <2>4
  <1>10. /\ sb' \in CycBufs
         /\ sent' = size => Count(sb') = n - size /\ Contents(sb') = SubSeq(q, size + 1, n)
    <2>1. CASE sent' = size
      <3>1. sb' = AfterPushReadHead(sb, size)
        BY <1>2, <2>1
      <3>2. ReadChunk(sb, size) = size
        BY <1>3, ReleaseIsExact DEF n
      <3> QED
        BY <1>3, <3>1, <3>2, PushReadHeadType, PushReadHeadContents DEF n, q
    <2>2. CASE sent' # size
      BY <1>2, <1>3, <2>2
    <2> QED
      BY <2>1, <2>2
  <1>11. Passed' = Passed + k
    <2>1. Waiting' = n - (sent + k)
      <3>1. CASE sent' = size
        BY <1>1, <1>2, <1>10, <3>1 DEF Waiting
      <3>2. CASE sent' # size
        BY <1>1, <1>2, <3>2 DEF Waiting, n
      <3> QED
        BY <3>1, <3>2
    <2>2. Passed' = given - (n - (sent + k))
      BY <1>1, <2>1 DEF Passed
    <2> QED
      BY <1>3, <1>4, <2>2
  <1>12. TypeOK'
    <2>1. sent' \in 0 .. size' /\ (spc' = "send" => size' <= Count(sb'))
          /\ spc' \in {"app", "region", "send", "gone"}
      BY <1>1, <1>2, <1>3 DEF n
    <2>2. wire' \in Seq(1 .. Total) /\ Len(wire') <= WireRoom
      BY <1>1, <1>8
    <2> QED
      BY <1>1, <1>10, <2>1, <2>2 DEF TypeOK
  <1>13. Holds'
    <2>1. CASE sent' # size
      BY <1>1, <1>2, <2>1 DEF Holds
    <2>2. CASE sent' = size
      <3>1. q \in Seq(Byte) /\ Len(q) = n /\ \A i \in 1 .. n : q[i] = given - n + i
        BY <1>3, ContentsType DEF Holds, q, n
      <3>2. /\ size + 1 \in Nat /\ size + 1 >= 1 /\ size + 1 <= n + 1
            /\ n + 1 - (size + 1) = n - size
        BY <1>3
      <3>3. \A i \in 1 .. n - size : SubSeq(q, size + 1, n)[i] = q[(size + 1) + i - 1]
        BY <1>3, <3>1, <3>2, SubSeqOfSeq
      <3>4. \A i \in 1 .. n - size : SubSeq(q, size + 1, n)[i] = given - (n - size) + i
        <4> SUFFICES ASSUME NEW i \in 1 .. n - size
                     PROVE  SubSeq(q, size + 1, n)[i] = given - (n - size) + i
          OBVIOUS
        <4>1. size + i \in 1 .. n /\ (size + 1) + i - 1 = size + i
          BY <1>3
        <4>2. q[size + i] = given - n + (size + i)
          BY <3>1, <4>1
        <4>3. SubSeq(q, size + 1, n)[i] = given - n + (size + i)
          BY <3>3, <4>1, <4>2
        <4> QED
          BY <1>3, <4>3
      <3>5. n - size <= given
        BY <1>3
      <3> QED
        BY <1>1, <1>10, <2>2, <3>4, <3>5 DEF Holds
    <2> QED
      BY <2>1, <2>2
  <1>14. RegionHeld'
    <2>1. CASE sent' # size
      <3>1. sb' = sb /\ sent' < size'
        BY <1>1, <1>2, <1>3, <2>1
      <3> QED
        BY <1>1, <1>3, <3>1 DEF RegionHeld, n
    <2>2. CASE sent' = size
      BY <1>2, <2>2 DEF RegionHeld
    <2> QED
      BY <2>1, <2>2
  <1>15. Received' /\ SecondAtEnd' /\ NothingLeftBehind'
    BY <1>1 DEF Received, SecondAtEnd, NothingLeftBehind
  <1>16. Order'
    <2>1. Stream \in Seq(Nat) /\ Passed \in Nat
      BY StreamType, PassedType
    <2>2. Follows(Stream, Passed, fails)
      BY <1>1 DEF Order
    <2>3. /\ NoGap(Stream \o r) /\ Passed + Len(r) <= LastOf(Stream \o r)
          /\ Stream = FirstNumbers(Passed) => Stream \o r = FirstNumbers(Passed + Len(r))
      BY <1>5, <1>6, <1>7, <2>1, <2>2, RunExtends DEF Follows
    <2>4. Follows(Stream \o r, Passed + k, fails)
      BY <1>5, <2>2, <2>3 DEF Follows
    <2> QED
      BY <1>1, <1>9, <1>11, <2>4 DEF Order
  <1> QED
    BY <1>12, <1>13, <1>14, <1>15, <1>16

\* A send() that fails has the whole region sent again: what was passed is
\* less than before, and no number is skipped.
LEMMA SendFailsInv ==
  ASSUME Inv, SendFails
  PROVE  Inv'
  <1> USE DEF Inv
  <1>1. /\ spc = "send" /\ spc' \in {"app", "gone"} /\ fails' = fails + 1
        /\ sb' = sb /\ size' = size /\ sent' = sent /\ given' = given
        /\ rb' = rb /\ rpc' = rpc /\ nds' = nds /\ taken' = taken
        /\ wire' = wire /\ up' = up
    BY DEF SendFails, rvars
  <1>2. spc' \in {"app", "gone"} /\ fails \in Nat /\ fails' \in Nat /\ fails' # 0
    BY <1>1 DEF TypeOK
  <1>3. TypeOK'
    BY <1>1, <1>2 DEF TypeOK
  <1>4. Holds' /\ RegionHeld' /\ Received' /\ SecondAtEnd' /\ NothingLeftBehind'
    BY <1>1, <1>2 DEF Holds, RegionHeld, Received, SecondAtEnd, NothingLeftBehind
  <1>5. Order'
    <2>1. Passed = given - (Count(sb) - sent) /\ Passed' = given - Count(sb)
      BY <1>1, <1>2 DEF Passed, Waiting
    <2>2. given \in Nat /\ sent \in Nat /\ Count(sb) \in Nat
      BY PassedType, NetDataAssumption, EndType DEF TypeOK
    <2>3. Passed \in Nat /\ Passed' <= Passed
      BY PassedType, <2>1, <2>2
    <2>4. LastOf(Stream) \in Nat
      <3>1. Stream \in Seq(Nat)
        BY StreamType
      <3>2. Stream # << >> => Len(Stream) \in 1 .. Len(Stream)
        BY <3>1, EmptySeq
      <3> QED
        BY <3>1, <3>2, ElementOfSeq DEF LastOf
    <2>5. Stream' = Stream
      BY <1>1 DEF Stream
    <2>6. Passed' \in Int /\ (Passed <= LastOf(Stream) => Passed' <= LastOf(Stream))
      <3>1. Passed' \in Int
        BY <2>1, <2>2
      <3>2. \A x \in Int, y, z \in Nat : x <= y /\ y <= z => x <= z
        OBVIOUS
      <3> QED
        BY <2>3, <2>4, <3>1, <3>2
    <2> QED
      BY <1>1, <1>2, <2>5, <2>6 DEF Order, Follows
  <1> QED
    BY <1>3, <1>4, <1>5

\* The end of the sending application, and the loss of the connection with
\* what is on its way.
LEMMA EndInv ==
  ASSUME Inv, Leave \/ Break
  PROVE  Inv'
  <1> USE DEF Inv
  <1>1. CASE Leave
    <2>1. /\ spc = "app" /\ spc' = "gone" /\ sb' = sb /\ size' = size /\ sent' = sent
          /\ given' = given /\ fails' = fails
          /\ rb' = rb /\ rpc' = rpc /\ nds' = nds /\ taken' = taken
          /\ wire' = wire /\ up' = up
      BY <1>1 DEF Leave, rvars
    <2>2. TypeOK'
      BY <2>1 DEF TypeOK
    <2>3. Holds' /\ RegionHeld' /\ Received' /\ SecondAtEnd' /\ NothingLeftBehind'
      BY <2>1 DEF Holds, RegionHeld, Received, SecondAtEnd, NothingLeftBehind
    <2>4. Stream' = Stream /\ Passed' = Passed
      BY <2>1 DEF Stream, Passed, Waiting
    <2>5. Order'
      BY <2>1, <2>4, SameStream
    <2> QED
      BY <2>2, <2>3, <2>5
  <1>2. CASE Break
    <2>1. /\ up' = FALSE /\ wire' = << >> /\ spc' = spc /\ sb' = sb /\ size' = size
          /\ sent' = sent /\ given' = given /\ fails' = fails
          /\ rb' = rb /\ rpc' = rpc /\ nds' = nds /\ taken' = taken
      BY <1>2 DEF Break, svars, rvars
    <2>2. wire' \in Seq(1 .. Total) /\ Len(wire') <= WireRoom
      BY <2>1, EmptySeq, NetDataAssumption
    <2>3. TypeOK'
      BY <2>1, <2>2 DEF TypeOK
    <2>4. Holds' /\ RegionHeld' /\ Received' /\ SecondAtEnd' /\ NothingLeftBehind'
      BY <2>1 DEF Holds, RegionHeld, Received, SecondAtEnd, NothingLeftBehind
    <2>5. Order'
      BY <2>1 DEF Order
    <2> QED
      BY <2>3, <2>4, <2>5
  <1> QED
    BY <1>1, <1>2

-----------------------------------------------------------------------------
\* The receiving end.

\* isWriteReady leaves a buffer without room as it found it.
LEMMA StillNoRoom ==
  ASSUME NEW b \in CycBufs, WriteTailRegion(b).n = 0
  PROVE  WriteTailRegion(WriteReady(b)).n = 0
  <1> DEFINE w == WriteReady(b)
  <1>1. CASE IsFull(b)
    BY <1>1 DEF WriteReady
  <1>2. CASE ~IsFull(b)
    <2>1. w \in CycBufs /\ w.tail < End /\ WriteAvail(w) = 0
      BY <1>2, WriteReadyType, WriteAvailType
    <2> HIDE DEF w
    <2>2. WriteReady(w) = w
      BY <2>1, EndType DEF WriteReady, CycBufs, Cell
    <2>3. WriteTailRegion(w).n = 0
      BY <2>1, <2>2 DEF WriteTailRegion, NoRegion, RegionAt
    <2> QED
      BY <2>3 DEF w
  <1> QED
    BY <1>1, <1>2

\* One recvnow moves the front of what is on the wire behind what the buffer
\* holds.
LEMMA RecvSomeEffect ==
  ASSUME Inv, RecvSome
  PROVE  \E k \in Nat :
           /\ k = Least(WriteTailRegion(rb).n, Len(wire)) /\ k > 0 /\ k <= Len(wire)
           /\ SubSeq(wire, 1, k) \in Seq(Byte)
           /\ rb' = AfterWriteChunk(rb, SubSeq(wire, 1, k))
           /\ WriteChunk(rb, SubSeq(wire, 1, k)) = k
           /\ Contents(rb') = Contents(rb) \o SubSeq(wire, 1, k)
           /\ wire' = SubSeq(wire, k + 1, Len(wire))
           /\ rpc' = IF k = WriteTailRegion(rb).n /\ rpc = "first" THEN "second" ELSE "empty"
           /\ nds' = IF k = WriteTailRegion(rb).n /\ rpc = "second" THEN "bufferfull" ELSE nds
  <1> USE DEF Inv
  <1> DEFINE n == WriteTailRegion(rb).n
             k == Least(n, Len(wire))
             t == SubSeq(wire, 1, k)
             w == WriteReady(rb)
  <1>1. /\ k > 0 /\ wire' = SubSeq(wire, k + 1, Len(wire))
        /\ rb' = AfterPushWriteTail([w EXCEPT !.buf = Place(w.buf, w.tail, t)], k)
        /\ rpc' = (IF k = n /\ rpc = "first" THEN "second" ELSE "empty")
        /\ nds' = (IF k = n /\ rpc = "second" THEN "bufferfull" ELSE nds)
    BY Zenon DEF RecvSome
  <1>2. rb \in CycBufs /\ wire \in Seq(1 .. Total) /\ Len(wire) \in Nat
    BY LenProperties DEF TypeOK
  <1>3. n \in Nat
    <2>1. CASE IsFull(rb)
      BY <2>1 DEF WriteTailRegion, NoRegion
    <2>2. CASE ~IsFull(rb)
      BY <1>2, <2>2, WriteAvailType
    <2> QED
      BY <2>1, <2>2
  <1>4. k \in Nat /\ k <= n /\ k <= Len(wire)
    <2> HIDE DEF n
    <2> QED
      BY <1>2, <1>3, LeastType
  <1>5. ~IsFull(rb)
    <2>1. IsFull(rb) => n = 0
      BY DEF WriteTailRegion, NoRegion
    <2> HIDE DEF n, k
    <2> QED
      BY <1>1, <1>3, <1>4, <2>1
  <1> HIDE DEF n, k
  <1>6. t \in Seq(1 .. Total) /\ Len(t) = k
    <2>1. k \in 0 .. Len(wire)
      BY <1>2, <1>4
    <2> QED
      BY <1>2, <2>1, FrontAndRest
  <1> HIDE DEF t
  <1>7. t \in Seq(Byte)
    <2>1. \A i \in 1 .. k : t[i] \in 1 .. Total
      BY <1>6, ElementOfSeq
    <2>2. \A i \in 1 .. k : t[i] \in Byte
      BY <2>1, NetDataAssumption
    <2> QED
      BY <1>6, <2>2
  <1>8. rb' = AfterWriteChunk(rb, t) /\ WriteChunk(rb, t) = k
    <2>1. Len(t) <= WriteTailRegion(rb).n
      BY <1>4, <1>6 DEF n
    <2>2. LET v == IF IsFull(rb) THEN rb ELSE WriteReady(rb)
          IN  /\ AfterPushWriteTail([v EXCEPT !.buf = Place(v.buf, v.tail, t)], Len(t))
                   = AfterWriteChunk(rb, t)
              /\ WriteChunk(rb, t) = Len(t)
      BY <1>2, <1>7, <2>1, PlacedIsWriteChunk
    <2> QED
      BY <1>1, <1>5, <1>6, <2>2
  <1>9. Contents(rb') = Contents(rb) \o t
    <2>1. SubSeq(t, 1, Len(t)) = t
      BY <1>7, SubSeqFull
    <2> QED
      BY <1>2, <1>6, <1>7, <1>8, <2>1, WriteChunkContents
  <1> QED
    <2>1. /\ k = Least(WriteTailRegion(rb).n, Len(wire))
          /\ (k = WriteTailRegion(rb).n) = (k = n)
      BY DEF n, k
    <2> QED
      BY <1>1, <1>4, <1>7, <1>8, <1>9, <2>1 DEF t, n

\* A region of the receiver's buffer filled to its end is either the one
\* before the end of the memory or the last room there was.
LEMMA RecvFills ==
  ASSUME Inv, RecvSome, NEW k \in Nat, NEW t \in Seq(Byte), k = WriteTailRegion(rb).n,
         rb' = AfterWriteChunk(rb, t), WriteChunk(rb, t) = k
  PROVE  /\ rb'.tail = End \/ WriteTailRegion(rb').n = 0
         /\ rpc = "second" => WriteTailRegion(rb').n = 0
  <1>1. rb \in CycBufs /\ SecondAtEnd
    BY DEF Inv, TypeOK
  <1>2. WriteChunk(rb, t) = WriteTailRegion(rb).n
    OBVIOUS
  <1>3. LET d == AfterWriteChunk(rb, t)
        IN  /\ d.tail = End \/ WriteTailRegion(d).n = 0
            /\ rb.tail = End \/ WriteTailRegion(rb).n = 0 => WriteTailRegion(d).n = 0
    BY <1>1, <1>2, FilledRegion
  <1> QED
    BY <1>1, <1>3 DEF SecondAtEnd

\* recvnow receives k bytes: they are taken from the front of the wire.
LEMMA RecvSomeInv ==
  ASSUME Inv, RecvSome
  PROVE  Inv'
  <1> USE DEF Inv
  <1>1. PICK k \in Nat :
           /\ k = Least(WriteTailRegion(rb).n, Len(wire)) /\ k > 0 /\ k <= Len(wire)
           /\ SubSeq(wire, 1, k) \in Seq(Byte)
           /\ rb' = AfterWriteChunk(rb, SubSeq(wire, 1, k))
           /\ WriteChunk(rb, SubSeq(wire, 1, k)) = k
           /\ Contents(rb') = Contents(rb) \o SubSeq(wire, 1, k)
           /\ wire' = SubSeq(wire, k + 1, Len(wire))
           /\ rpc' = IF k = WriteTailRegion(rb).n /\ rpc = "first" THEN "second" ELSE "empty"
           /\ nds' = IF k = WriteTailRegion(rb).n /\ rpc = "second" THEN "bufferfull" ELSE nds
    BY RecvSomeEffect
  <1> DEFINE t == SubSeq(wire, 1, k)
  <1>2. /\ sb' = sb /\ spc' = spc /\ size' = size /\ sent' = sent /\ given' = given
        /\ fails' = fails /\ taken' = taken /\ up' = up
    BY DEF RecvSome, svars
  <1>3. /\ rb \in CycBufs /\ wire \in Seq(1 .. Total) /\ Len(wire) \in Nat
        /\ Len(wire) <= WireRoom /\ WireRoom \in Nat
    BY LenProperties, NetDataAssumption DEF TypeOK
  <1>4. t \in Seq(1 .. Total) /\ Len(t) = k
    <2>1. k \in 0 .. Len(wire)
      BY <1>1, <1>3
    <2> QED
      BY <1>3, <2>1, FrontAndRest
  <1>5. wire' \in Seq(1 .. Total) /\ Len(wire') <= WireRoom
    <2>1. k \in 0 .. Len(wire)
      BY <1>1, <1>3
    <2>2. SubSeq(wire, k + 1, Len(wire)) \in Seq(1 .. Total)
          /\ Len(SubSeq(wire, k + 1, Len(wire))) = Len(wire) - k
      BY <1>3, <2>1, FrontAndRest
    <2>3. Len(wire) - k <= WireRoom
      BY <1>1, <1>3
    <2> QED
      BY <1>1, <2>2, <2>3
  <1>6. rb' \in CycBufs
    BY <1>1, <1>3, WriteChunkLeaves
  <1>7. TypeOK'
    <2>1. rpc' \in {"app", "first", "second", "empty", "gone"}
      BY <1>1
    <2>2. nds' \in {"ok", "bufferfull", "fail", "disconnected"}
      BY <1>1 DEF TypeOK
    <2> QED
      BY <1>2, <1>5, <1>6, <2>1, <2>2 DEF TypeOK
  <1>8. Holds' /\ RegionHeld'
    BY <1>2 DEF Holds, RegionHeld
  <1>9. Received'
    <2>1. Contents(rb) \in Seq(1 .. Total)
      BY DEF Received
    <2>2. Contents(rb) \o t \in Seq(1 .. Total)
      BY <1>4, <2>1, ConcatProperties
    <2> QED
      BY <1>1, <2>2 DEF Received
  <1>10. SecondAtEnd' /\ NothingLeftBehind'
    <2>1. rpc' = "second" => rb'.tail = End \/ WriteTailRegion(rb').n = 0
      BY <1>1, RecvFills
    <2>2. rpc' # "gone"
      BY <1>1
    <2> QED
      BY <2>1, <2>2 DEF SecondAtEnd, NothingLeftBehind
  <1>11. Order'
    <2>1. k \in 0 .. Len(wire)
      BY <1>1, <1>3
    <2>2. taken \in Seq(1 .. Total) /\ Contents(rb) \in Seq(1 .. Total)
      BY DEF TypeOK, Received
    <2> DEFINE c == Contents(rb)
               r == SubSeq(wire, k + 1, Len(wire))
    <2>3. Stream' = (taken \o (c \o t)) \o r /\ Stream = (taken \o c) \o wire
      BY <1>1, <1>2 DEF Stream
    <2>4. t \o r = wire /\ r \in Seq(1 .. Total)
      BY <1>3, <2>1, SplitAt, FrontAndRest
    <2> HIDE DEF c, r
    <2>5. Stream' = Stream
      <3> DEFINE tc == taken \o c
      <3> HIDE DEF t
      <3>1. \A x, y, z \in Seq(1 .. Total) : (x \o y) \o z = x \o (y \o z)
        BY Associate
      <3>2. c \in Seq(1 .. Total) /\ tc \in Seq(1 .. Total)
        BY <2>2, StreamType DEF c
      <3>3. tc \o t = taken \o (c \o t)
        BY <1>4, <2>2, <3>1, <3>2
      <3> HIDE DEF tc
      <3>4. (tc \o t) \o r = tc \o (t \o r)
        BY <1>4, <2>4, <3>1, <3>2
      <3> QED
        BY <2>3, <2>4, <3>3, <3>4 DEF tc
    <2>6. Passed' = Passed
      BY <1>2 DEF Passed, Waiting
    <2> QED
      BY <1>2, <2>5, <2>6, SameStream
  <1> QED
    BY <1>7, <1>8, <1>9, <1>10, <1>11

\* What recv() does when it finds no room or nothing to receive moves a
\* pointer at most.
LEMMA RecvIdleInv ==
  ASSUME Inv, CallRecv \/ RecvFull \/ RecvNothing
  PROVE  Inv'
  <1> USE DEF Inv
  <1>1. /\ sb' = sb /\ spc' = spc /\ size' = size /\ sent' = sent /\ given' = given
        /\ fails' = fails /\ taken' = taken /\ wire' = wire /\ up' = up
    BY DEF CallRecv, RecvFull, RecvNothing, svars
  <1>2. rb \in CycBufs /\ (rb' = rb \/ rb' = WriteReady(rb))
    BY DEF CallRecv, RecvFull, RecvNothing, TypeOK
  <1>3. rb' \in CycBufs /\ Contents(rb') = Contents(rb)
    BY <1>2, WriteReadyType, WriteReadyContents
  <1>4. rpc' \in {"first", "app", "empty"}
    BY DEF CallRecv, RecvFull, RecvNothing
  <1>5. nds' \in {"ok", "bufferfull", "fail", "disconnected"}
    <2>1. CASE CallRecv \/ RecvFull
      BY <2>1 DEF CallRecv, RecvFull
    <2>2. CASE RecvNothing
      BY <2>2 DEF RecvNothing
    <2> QED
      BY <2>1, <2>2
  <1>6. TypeOK'
    BY <1>1, <1>3, <1>4, <1>5 DEF TypeOK
  <1>7. Holds' /\ RegionHeld' /\ Received' /\ SecondAtEnd' /\ NothingLeftBehind'
    BY <1>1, <1>3, <1>4 DEF Holds, RegionHeld, Received, SecondAtEnd, NothingLeftBehind
  <1>8. Order'
    <2>1. Stream' = Stream /\ Passed' = Passed
      BY <1>1, <1>3 DEF Stream, Passed, Waiting
    <2> QED
      BY <1>1, <2>1, SameStream
  <1> QED
    BY <1>6, <1>7, <1>8

\* The application is shown the region at the head and clears it; it stops
\* when nothing is left.
LEMMA EmptyInv ==
  ASSUME Inv, Empty
  PROVE  Inv'
  <1> USE DEF Inv
  <1> DEFINE n == ReadHeadRegion(rb).n
             c == Contents(rb)
             m == Count(rb)
  <1>1. /\ taken' = taken \o ReadChunkBytes(rb, n) /\ rb' = AfterPushReadHead(rb, n)
        /\ rpc' = (IF n > 0 THEN "empty"
                   ELSE IF nds = "bufferfull" THEN "first"
                   ELSE IF nds = "disconnected" THEN "gone" ELSE "app")
        /\ sb' = sb /\ spc' = spc /\ size' = size /\ sent' = sent /\ given' = given
        /\ fails' = fails /\ nds' = nds /\ wire' = wire /\ up' = up
    BY DEF Empty, svars
  <1>2. /\ rb \in CycBufs /\ c \in Seq(1 .. Total) /\ Len(c) = m /\ m \in Nat
        /\ taken \in Seq(1 .. Total)
    BY CountType, EndType, ContentsType DEF TypeOK, Received
  <1>3. n \in 0 .. m /\ (n = 0 => IsEmpty(rb))
    <2>1. CASE IsEmpty(rb)
      BY <1>2, <2>1 DEF ReadHeadRegion, NoRegion
    <2>2. CASE ~IsEmpty(rb)
      BY <1>2, <2>2, ReadAvailType
    <2> QED
      BY <2>1, <2>2
  <1>4. n \in Nat /\ ReadChunk(rb, n) = n
    <2>1. ReadChunk(rb, n) = Least(n, n)
      BY DEF ReadChunk
    <2> HIDE DEF n
    <2> QED
      BY <1>2, <1>3, <2>1 DEF Least
  <1>5. ReadChunkBytes(rb, n) = SubSeq(c, 1, n)
    BY <1>2, <1>4, ReadChunkIsPrefix
  <1>6. rb' \in CycBufs /\ Contents(rb') = SubSeq(c, n + 1, m)
    <2>1. AfterPushReadHead(rb, n) \in CycBufs
      BY <1>2, <1>4, PushReadHeadType
    <2>2. Contents(AfterPushReadHead(rb, n)) = SubSeq(c, ReadChunk(rb, n) + 1, m)
      BY <1>2, <1>4, PushReadHeadContents
    <2> QED
      BY <1>1, <1>4, <2>1, <2>2
  <1> HIDE DEF n, c, m
  <1>7. SubSeq(c, 1, n) \in Seq(1 .. Total) /\ SubSeq(c, n + 1, m) \in Seq(1 .. Total)
    <2>1. n \in 0 .. Len(c)
      BY <1>2, <1>3
    <2>2. SubSeq(c, 1, n) \in Seq(1 .. Total) /\ SubSeq(c, n + 1, Len(c)) \in Seq(1 .. Total)
      BY <1>2, <2>1, FrontAndRest
    <2> QED
      BY <1>2, <2>2
  <1>8. taken' \in Seq(1 .. Total)
    BY <1>1, <1>2, <1>5, <1>7, ConcatProperties
  <1>9. TypeOK'
    <2>1. rpc' \in {"app", "first", "second", "empty", "gone"}
      BY <1>1
    <2> QED
      BY <1>1, <1>6, <1>8, <2>1 DEF TypeOK
  <1>10. Holds' /\ RegionHeld'
    BY <1>1 DEF Holds, RegionHeld
  <1>11. Received'
    BY <1>6, <1>7 DEF Received
  <1>12. SecondAtEnd'
    BY <1>1 DEF SecondAtEnd
  <1>13. NothingLeftBehind'
    <2> SUFFICES ASSUME rpc' = "gone"
                 PROVE  Contents(rb') = << >>
      BY DEF NothingLeftBehind
    <2>1. n = 0
      BY <1>1, <1>3, <1>4
    <2>2. m = 0
      BY <1>2, <1>3, <2>1, EmptyIsNoBytes DEF m
    <2>3. c = << >>
      BY <1>2, <2>2, EmptySeq
    <2>4. SubSeq(c, 1, 0) = << >>
      BY <1>2, <2>2, <2>3, SubSeqFull, EmptySeq
    <2> QED
      BY <1>6, <2>1, <2>2, <2>4
  <1>14. Order'
    <2> DEFINE f == SubSeq(c, 1, n)
               r == SubSeq(c, n + 1, m)
    <2>1. n \in 0 .. Len(c)
      BY <1>2, <1>3
    <2>2. f \o r = c
      BY <1>2, <2>1, SplitAt
    <2>3. f \in Seq(1 .. Total) /\ r \in Seq(1 .. Total)
      BY <1>7
    <2>4. Stream' = ((taken \o f) \o r) \o wire /\ Stream = (taken \o c) \o wire
      BY <1>1, <1>5, <1>6 DEF Stream, c
    <2> HIDE DEF f, r
    <2>5. Stream' = Stream
      <3>1. \A x, y, z \in Seq(1 .. Total) : (x \o y) \o z = x \o (y \o z)
        BY Associate
      <3>2. (taken \o f) \o r = taken \o (f \o r)
        BY <1>2, <2>3, <3>1
      <3> QED
        BY <2>2, <2>4, <3>2
    <2>6. Passed' = Passed
      BY <1>1 DEF Passed, Waiting
    <2> QED
      BY <1>1, <2>5, <2>6, SameStream
  <1> QED
    BY <1>9, <1>10, <1>11, <1>12, <1>13, <1>14

-----------------------------------------------------------------------------
\* Every step keeps the invariant.
LEMMA NextInv ==
  ASSUME Inv, [Next]_vars
  PROVE  Inv'
  <1>1. CASE Sender
    <2>1. ASSUME NEW k \in 0 .. Size, Give(k)
          PROVE  Inv'
      BY <2>1, GiveInv
    <2>2. ASSUME NEW k \in 0 .. Size, k > 0, SendSome(k)
          PROVE  Inv'
      BY <2>2, SendSomeInv
    <2>3. CASE SendRegion
      BY <2>3, SendRegionInv
    <2>4. CASE SendFails
      BY <2>4, SendFailsInv
    <2>5. CASE Leave
      BY <2>5, EndInv
    <2> QED
      BY <1>1, <2>1, <2>2, <2>3, <2>4, <2>5 DEF Sender
  <1>2. CASE Receiver
    <2>1. CASE CallRecv \/ RecvFull \/ RecvNothing
      BY <2>1, RecvIdleInv
    <2>2. CASE RecvSome
      BY <2>2, RecvSomeInv
    <2>3. CASE Empty
      BY <2>3, EmptyInv
    <2> QED
      BY <1>2, <2>1, <2>2, <2>3 DEF Receiver
  <1>3. CASE Break
    BY <1>3, EndInv
  <1>4. CASE UNCHANGED vars
    <2>1. /\ sb' = sb /\ spc' = spc /\ size' = size /\ sent' = sent /\ given' = given
          /\ fails' = fails /\ rb' = rb /\ rpc' = rpc /\ nds' = nds /\ taken' = taken
          /\ wire' = wire /\ up' = up
      BY <1>4 DEF vars, svars, rvars
    <2> QED
      BY <2>1 DEF Inv, TypeOK, Holds, RegionHeld, Received, SecondAtEnd, Order,
                  Follows, Stream, Passed, Waiting, NothingLeftBehind
  <1> QED
    BY <1>1, <1>2, <1>3, <1>4 DEF Next

\* What is passed and what waits are all the numbers given.
LEMMA InvIsExact ==
  ASSUME Inv
  PROVE  StreamIsExact
  <1> SUFFICES ASSUME fails = 0, up
               PROVE  Stream \o Unsent = [i \in 1 .. given |-> i]
    BY DEF StreamIsExact
  <1> USE DEF Inv
  <1> DEFINE q == Contents(sb)
             n == Count(sb)
             m == IF spc = "send" THEN sent ELSE 0
  <1>1. /\ Passed \in Nat /\ Waiting \in Nat /\ Passed + Waiting = given
        /\ n \in Nat /\ given \in Nat
    BY PassedType, NetDataAssumption DEF TypeOK
  <1>2. q \in Seq(Byte) /\ Len(q) = n /\ \A i \in 1 .. n : q[i] = given - n + i
    BY ContentsType DEF TypeOK, Holds
  <1>3. m \in Nat /\ Waiting = n - m /\ m <= n /\ Passed = given - n + m
    <2>1. CASE spc = "send"
      <3>1. sent \in Nat /\ Waiting = n - sent /\ m = sent
        BY <2>1, EndType DEF TypeOK, Waiting
      <3> HIDE DEF m, n
      <3> QED
        BY <1>1, <3>1
    <2>2. CASE spc # "send"
      <3>1. Waiting = n /\ m = 0
        BY <2>2 DEF Waiting
      <3> HIDE DEF m, n
      <3> QED
        BY <1>1, <3>1
    <2> QED
      BY <2>1, <2>2
  <1>4. Unsent = SubSeq(q, m + 1, n)
    <2>1. CASE spc = "send"
      BY <1>2, <2>1 DEF Unsent
    <2>2. CASE spc # "send"
      <3>1. Unsent = q /\ m = 0
        BY <2>2 DEF Unsent
      <3>2. SubSeq(q, 1, Len(q)) = q
        BY <1>2, SubSeqFull
      <3> QED
        BY <1>2, <3>1, <3>2
    <2> QED
      BY <2>1, <2>2
  <1> HIDE DEF q, n, m
  <1>5. /\ Unsent \in Seq(Byte) /\ Len(Unsent) = Waiting
        /\ \A i \in 1 .. Waiting : Unsent[i] = Passed + i
    <2>1. /\ m + 1 \in Nat /\ m + 1 >= 1 /\ n <= Len(q) /\ m + 1 <= n + 1
          /\ n + 1 - (m + 1) = Waiting
      BY <1>1, <1>2, <1>3
    <2>2. /\ Unsent \in Seq(Byte) /\ Len(Unsent) = n + 1 - (m + 1)
          /\ \A i \in 1 .. n + 1 - (m + 1) : Unsent[i] = q[(m + 1) + i - 1]
      BY <1>1, <1>2, <1>4, <2>1, SubSeqOfSeq, SMTT(30)
    <2>3. ASSUME NEW i \in 1 .. Waiting
          PROVE  Unsent[i] = Passed + i
      <3>1. (m + 1) + i - 1 = m + i /\ m + i \in 1 .. n
        BY <1>1, <1>3
      <3>2. q[m + i] = given - n + (m + i)
        BY <1>2, <3>1
      <3>3. Unsent[i] = given - n + (m + i)
        BY <2>1, <2>2, <3>1, <3>2
      <3> QED
        BY <1>1, <1>3, <3>3
    <2> QED
      BY <2>1, <2>2, <2>3
  <1>6. Unsent \in Seq(Nat)
    <2>1. \A i \in 1 .. Waiting : Unsent[i] \in Nat
      BY <1>1, <1>5
    <2> QED
      BY <1>5, <2>1
  <1>7. Stream \in Seq(Nat) /\ Follows(Stream, Passed, fails)
    BY StreamType DEF Order
  <1>8. Stream \o Unsent = FirstNumbers(Passed + Len(Unsent))
    <2>1. NoGap(Stream) /\ Passed <= LastOf(Stream) /\ Stream = FirstNumbers(Passed)
      BY <1>7 DEF Follows
    <2>2. \A i \in 1 .. Len(Unsent) : Unsent[i] = Passed + i
      BY <1>5
    <2> QED
      BY <1>1, <1>6, <1>7, <2>1, <2>2, RunExtends
  <1> QED
    BY <1>1, <1>5, <1>8 DEF FirstNumbers

-----------------------------------------------------------------------------
\* The theorems.

\* The invariant holds in every state of every behaviour.
LEMMA SpecInv == Spec => []Inv
  <1>1. Inv /\ [Next]_vars => Inv'
    BY NextInv
  <1> QED
    BY InitInv, <1>1, PTL DEF Spec

\* Both ends stay in their states.
THEOREM SpecTypeOK == Spec => []TypeOK
  <1>1. Inv => TypeOK
    BY DEF Inv
  <1> QED
    BY SpecInv, <1>1, PTL

\* As long as no send() has failed and the connection stands, what the
\* receiver was shown, what its buffer holds, what is on the wire and what
\* the sender's buffer still holds are the bytes given, each once and in
\* their order.
THEOREM SpecStreamIsExact == Spec => []StreamIsExact
  BY SpecInv, InvIsExact, PTL

\* After any number of failed sends that the application retried, bytes may
\* come again but none is skipped.
THEOREM SpecStreamHasNoGap == Spec => []StreamHasNoGap
  <1>1. Inv => StreamHasNoGap
    BY DEF Inv, Order, Follows, NoGap, StreamHasNoGap
  <1> QED
    BY SpecInv, <1>1, PTL

\* A receiver that was told of the end has been shown all that was received.
THEOREM SpecNothingLeftBehind == Spec => []NothingLeftBehind
  <1>1. Inv => NothingLeftBehind
    BY DEF Inv
  <1> QED
    BY SpecInv, <1>1, PTL

\* recv() returns only when nothing is left to receive or no room is left to
\* receive it in, which it then reports.
LEMMA NextTakesAll ==
  ASSUME Inv, Next, rpc' = "empty", rpc \in {"first", "second"}
  PROVE  \/ wire' = << >>
         \/ nds' = "bufferfull" /\ WriteTailRegion(rb').n = 0
  <1>1. rb \in CycBufs /\ wire \in Seq(1 .. Total) /\ Len(wire) \in Nat
    BY LenProperties DEF Inv, TypeOK
  <1>2. CASE RecvFull
    BY <1>1, <1>2, StillNoRoom DEF RecvFull
  <1>3. CASE RecvNothing
    BY <1>3 DEF RecvNothing
  <1>4. CASE RecvSome
    <2>1. PICK k \in Nat :
             /\ k = Least(WriteTailRegion(rb).n, Len(wire)) /\ k > 0 /\ k <= Len(wire)
             /\ SubSeq(wire, 1, k) \in Seq(Byte)
             /\ rb' = AfterWriteChunk(rb, SubSeq(wire, 1, k))
             /\ WriteChunk(rb, SubSeq(wire, 1, k)) = k
             /\ Contents(rb') = Contents(rb) \o SubSeq(wire, 1, k)
             /\ wire' = SubSeq(wire, k + 1, Len(wire))
             /\ rpc' = IF k = WriteTailRegion(rb).n /\ rpc = "first" THEN "second" ELSE "empty"
             /\ nds' = IF k = WriteTailRegion(rb).n /\ rpc = "second" THEN "bufferfull" ELSE nds
      BY <1>4, RecvSomeEffect
    <2>2. CASE k = WriteTailRegion(rb).n
      <3>1. rpc = "second" /\ nds' = "bufferfull"
        BY <2>1, <2>2
      <3> QED
        BY <1>4, <2>1, <2>2, <3>1, RecvFills
    <2>3. CASE k # WriteTailRegion(rb).n
      <3>1. k = Len(wire)
        BY <2>1, <2>3 DEF Least
      <3>2. wire' \in Seq(1 .. Total) /\ Len(wire') = 0
        <4>1. k \in 0 .. Len(wire)
          BY <1>1, <2>1
        <4> QED
          BY <1>1, <2>1, <3>1, <4>1, FrontAndRest
      <3> QED
        BY <3>2, EmptySeq
    <2> QED
      BY <2>2, <2>3
  <1>5. CASE CallRecv \/ Empty
    BY <1>5 DEF CallRecv, Empty
  <1>6. CASE Sender \/ Break
    <2>1. rpc' = rpc
      BY <1>6 DEF Sender, Break, Give, SendSome, SendRegion, SendFails, Leave, rvars
    <2> QED
      BY <2>1
  <1> QED
    BY <1>2, <1>3, <1>4, <1>5, <1>6 DEF Next, Receiver

\* So recv() does in every step of every behaviour: a receiver that empties
\* its buffer and waits for select() leaves nothing behind in the socket.
THEOREM SpecRecvTakesAll == Spec => RecvTakesAll
  <1>1. Inv /\ [Next]_vars =>
          [rpc' = "empty" /\ rpc \in {"first", "second"} =>
             \/ wire' = << >>
             \/ nds' = "bufferfull" /\ WriteTailRegion(rb').n = 0]_vars
    BY NextTakesAll
  <1> QED
    BY SpecInv, <1>1, PTL DEF Spec, RecvTakesAll

=============================================================================
