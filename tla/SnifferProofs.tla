---------------------------- MODULE SnifferProofs ----------------------------
(***************************************************************************)
(* Theorems about the sniffer's packet callback, for every set of          *)
(* connections, every payload and every modulus of the buffers' size: each *)
(* block of memory has one owner, a buffer holds units of one turn of one  *)
(* connection, and no unit that was stored is lost.                        *)
(*                                                                         *)
(* The invariant (Sound) ties the lists to the heap: the pointers that are *)
(* not null are pairwise different and are the blocks of the heap; the     *)
(* endpoints are of pairwise different connections and each buffer has its *)
(* own; the endpoints' direction is the side that sent last; what counts   *)
(* of a buffer, after what was handed over, is all that was stored.        *)
(***************************************************************************)
EXTENDS Sniffer, SequenceTheorems, FiniteSetTheorems, TLAPS

\* What a unit is, and a list of endpoints and of buffers.
UnitSet == [conn : Conn, turn : Nat, n : Nat, kind : Kinds, end : BOOLEAN]
Block == Nat \ {0}
Address == (Conn \X Side) \cup {Nobody}
EndsSet == [src : Address, dst : Address, inv : BOOLEAN]
BufSet == [id : Nat, buf : Nat, size : Nat]
SentSet == [side : Side, turn : Nat, units : Nat, wrapped : BOOLEAN]

\* A heap has finitely many blocks, which hold units.
IsHeap(heap) ==
    /\ DOMAIN heap \subseteq Block /\ IsFiniteSet(DOMAIN heap)
    /\ heap \in [DOMAIN heap -> Seq(UnitSet)]

IsMemory(m) ==
    /\ m \in [heap : {m.heap}, qh : [data : Nat, size : Nat]]
    /\ IsHeap(m.heap)

\* The connection of an entry of the list of endpoints, and the side that sent last.
ConnOf(e) == e.src[1]
LastSide(e) == IF e.inv THEN 1 - e.src[2] ELSE e.src[2]

\* The list of endpoints is the blank one, or has an entry for each of some connections.
RealEnds(list) ==
    /\ \A i \in DOMAIN list : /\ list[i].src \in Conn \X Side
                              /\ list[i].dst = <<ConnOf(list[i]), 1 - list[i].src[2]>>
    /\ \A i, j \in DOMAIN list : ConnOf(list[i]) = ConnOf(list[j]) => i = j

EndsOK(list) == list = <<BlankEnds>> \/ RealEnds(list)

\* The same of the buffers, which belong to endpoints of the list es.
RealBufs(list, es) ==
    /\ \A i \in DOMAIN list : list[i].id \in DOMAIN es
    /\ \A i, j \in DOMAIN list : list[i].id = list[j].id => i = j

BufsOK(list, es) == list = <<BlankBuf>> \/ (RealBufs(list, es) /\ RealEnds(es))

\* Every block has one owner.
OneOwner(heap, data, ks, list) ==
    /\ \A i \in DOMAIN ks : ks[i] \in DOMAIN heap
    /\ \A i, j \in DOMAIN ks : ks[i] = ks[j] => i = j
    /\ \A i \in DOMAIN list : list[i].buf # Null =>
         /\ list[i].buf \in DOMAIN heap
         /\ \A k \in DOMAIN ks : ks[k] # list[i].buf
         /\ \A j \in DOMAIN list : list[i].buf = list[j].buf => i = j
    /\ data # Null =>
         /\ data \in DOMAIN heap
         /\ \A k \in DOMAIN ks : ks[k] # data
         /\ \A i \in DOMAIN list : list[i].buf # data
    /\ \A b \in DOMAIN heap :
         b = data \/ (\E k \in DOMAIN ks : ks[k] = b) \/ (\E i \in DOMAIN list : list[i].buf = b)

\* goQuick's buffer is empty, or counts units it holds.
QuickOK(heap, qh) ==
    /\ qh.data = Null => qh = NoData
    /\ qh.data # Null => /\ qh.size > 0 /\ qh.size <= Len(heap[qh.data])

\* The numbers of the first n units.
Numbers(n) == [i \in 1 .. n |-> i]

\* The units that count are of connection c, of its turn, and in order.
Ordered(units, c, s) ==
    /\ \A i \in DOMAIN units : /\ units[i].conn = c /\ units[i].turn = s.turn
                               /\ units[i].n <= s.units
    /\ \A i, j \in DOMAIN units : i < j => units[i].n < units[j].n

Kept(heap, b) == Effective(heap, b.buf, b.size)

\* A buffer without a block, or with one that is allocated and long enough.
IsBuffer(heap, b) ==
    /\ b \in BufSet
    /\ b.buf = Null => b.size = 0
    /\ b.buf # Null => b.buf \in DOMAIN heap /\ b.size <= Len(heap[b.buf])

\* The buffer of connection c, of which s was seen and h handed over: nothing
\* that was stored is missing.
BufferOK(heap, b, c, s, h) ==
    /\ IsBuffer(heap, b)
    /\ Ordered(Kept(heap, b), c, s)
    /\ ~s.wrapped => h \o Positions(Kept(heap, b)) = Numbers(s.units)

\* What the capture has seen of a connection agrees with its endpoints.
EndsAgree(es, st) ==
    \A c \in Conn :
        /\ \A i \in DOMAIN es : es[i].src # Nobody /\ ConnOf(es[i]) = c
              => st[c].turn > 0 /\ st[c].side = LastSide(es[i])
        /\ (\A i \in DOMAIN es : es[i].src = Nobody \/ ConnOf(es[i]) # c) => st[c].turn = 0

\* The buffers agree with what was seen and handed over; of a connection
\* without one nothing was.
BufsAgree(heap, list, es, st, h) ==
    /\ \A i \in DOMAIN list : list[i].id # Null =>
          LET c == ConnOf(es[list[i].id]) IN BufferOK(heap, list[i], c, st[c], h[c])
    /\ \A c \in Conn : (\A i \in DOMAIN list : list[i].id # Null => ConnOf(es[list[i].id]) # c)
          => st[c].units = 0 /\ h[c] = <<>>

\* What holds while the capture runs.
Sound(m, ks, es, bs, st, h) ==
    /\ ks \in Seq(Block)
    /\ IsMemory(m) /\ QuickOK(m.heap, m.qh)
    /\ es \in Seq(EndsSet) /\ EndsOK(es)
    /\ bs \in Seq(BufSet) /\ BufsOK(bs, es)
    /\ st \in [Conn -> SentSet] /\ h \in [Conn -> Seq(Nat)]
    /\ OneOwner(m.heap, m.qh.data, ks, bs)
    /\ EndsAgree(es, st)
    /\ BufsAgree(m.heap, bs, es, st, h)

\* Before, all is as at first; after, the buffers are blank again.
Inv ==
    /\ phase \in {"start", "capturing", "exited"}
    /\ phase = "start" => Init
    /\ phase = "capturing" => Sound(mem, keys, ends, ul, sent, handed)
    /\ phase = "exited" => ul = <<BlankBuf>>

-----------------------------------------------------------------------------
\* malloc finds a block that is not in use.
LEMMA FreshIsFree ==
  ASSUME NEW heap, IsFiniteSet(DOMAIN heap)
  PROVE  FreshBlock(heap) \in Block /\ FreshBlock(heap) \notin DOMAIN heap
  <1> DEFINE n == Cardinality(DOMAIN heap)
  <1>1. n \in Nat
    BY FS_CardinalityType
  <1>2. IsFiniteSet(1 .. n + 1) /\ Cardinality(1 .. n + 1) = n + 1
    BY <1>1, FS_Interval
  <1>3. \E b \in 1 .. n + 1 : b \notin DOMAIN heap
    <2> SUFFICES ASSUME 1 .. n + 1 \subseteq DOMAIN heap PROVE FALSE
      OBVIOUS
    <2>1. Cardinality(1 .. n + 1) <= n
      BY FS_Subset
    <2> QED
      BY <1>1, <1>2, <2>1
  <1>4. FreshBlock(heap) \in 1 .. n + 1 /\ FreshBlock(heap) \notin DOMAIN heap
    BY <1>3 DEF FreshBlock
  <1> QED
    BY <1>1, <1>4 DEF Block

\* A block that is written holds what was written, the others what they held.
LEMMA WithBlockHeap ==
  ASSUME NEW heap, IsHeap(heap), NEW b \in Block, NEW content \in Seq(UnitSet)
  PROVE  /\ IsHeap(WithBlock(heap, b, content))
         /\ DOMAIN WithBlock(heap, b, content) = DOMAIN heap \cup {b}
         /\ WithBlock(heap, b, content)[b] = content
         /\ \A a \in DOMAIN heap \ {b} : WithBlock(heap, b, content)[a] = heap[a]
  <1>1. IsFiniteSet(DOMAIN heap \cup {b})
    BY FS_AddElement DEF IsHeap
  <1> QED
    BY <1>1 DEF WithBlock, IsHeap

\* free takes blocks away and leaves the others.
LEMMA FreedHeap ==
  ASSUME NEW heap, IsHeap(heap), NEW bs
  PROVE  /\ IsHeap(Freed(heap, bs))
         /\ DOMAIN Freed(heap, bs) = DOMAIN heap \ bs
         /\ \A a \in DOMAIN heap \ bs : Freed(heap, bs)[a] = heap[a]
  <1>1. IsFiniteSet(DOMAIN heap \ bs)
    BY FS_Subset DEF IsHeap
  <1> QED
    BY <1>1 DEF Freed, IsHeap

\* Freeing what is not allocated, as free(NULL), does nothing.
LEMMA FreedNothing ==
  ASSUME NEW heap, IsHeap(heap), NEW bs, bs \cap DOMAIN heap = {}
  PROVE  Freed(heap, bs) = heap
  <1>1. DOMAIN heap \ bs = DOMAIN heap
    OBVIOUS
  <1> QED
    BY <1>1 DEF Freed, IsHeap

\* What counts of a block is as long as the size says.
LEMMA EffectiveOf ==
  ASSUME NEW heap, IsHeap(heap), NEW p \in DOMAIN heap, NEW size \in 0 .. Len(heap[p])
  PROVE  /\ Effective(heap, p, size) \in Seq(UnitSet)
         /\ Len(Effective(heap, p, size)) = size
         /\ \A i \in 1 .. size : Effective(heap, p, size)[i] = heap[p][i]
  <1>1. p # Null /\ heap[p] \in Seq(UnitSet)
    BY DEF IsHeap, Block, Null
  <1> QED
    BY <1>1 DEF Effective

\* Two heaps of the same blocks with the same contents are equal.
LEMMA SameHeap ==
  ASSUME NEW heap, IsHeap(heap), NEW other, IsHeap(other), DOMAIN heap = DOMAIN other,
         \A a \in DOMAIN heap : heap[a] = other[a]
  PROVE  heap = other
  <1>1. heap \in [DOMAIN heap -> Seq(UnitSet)] /\ other \in [DOMAIN heap -> Seq(UnitSet)]
    BY DEF IsHeap
  <1> QED
    BY <1>1

\* A response's content is freed again before processResponse returns.
LEMMA ProcessResponseHeap ==
  ASSUME NEW heap, IsHeap(heap), NEW kind, NEW failed \in BOOLEAN
  PROVE  ProcessResponse(heap, kind, failed) = heap
  <1> DEFINE b == FreshBlock(heap)
             grown == WithBlock(heap, b, <<>>)
             r == AllocResponseData(heap, kind, failed)
             left == Freed(grown, {b})
  <1>1. b \in Block /\ b \notin DOMAIN heap
    BY FreshIsFree DEF IsHeap
  <1>2. <<>> \in Seq(UnitSet)
    OBVIOUS
  <1>3. r = [heap |-> heap, html |-> Null] \/ r = [heap |-> grown, html |-> b]
    BY DEF AllocResponseData, Gunzip
  <1>4. ProcessResponse(heap, kind, failed) = Freed(r.heap, {r.html})
    BY DEF ProcessResponse
  <1> HIDE DEF b, r
  <1>5. IsHeap(grown) /\ DOMAIN grown = DOMAIN heap \cup {b}
        /\ \A a \in DOMAIN heap \ {b} : grown[a] = heap[a]
    BY <1>1, <1>2, WithBlockHeap
  <1> HIDE DEF grown
  <1>6. IsHeap(left) /\ DOMAIN left = DOMAIN grown \ {b}
        /\ \A a \in DOMAIN grown \ {b} : left[a] = grown[a]
    BY <1>5, FreedHeap
  <1> HIDE DEF left
  <1>7. left = heap
    <2>1. DOMAIN heap = DOMAIN left /\ \A a \in DOMAIN heap : heap[a] = left[a]
      BY <1>1, <1>5, <1>6
    <2> QED
      BY <2>1, <1>6, SameHeap
  <1>8. Freed(heap, {Null}) = heap
    <2>1. {Null} \cap DOMAIN heap = {}
      BY DEF IsHeap, Block, Null
    <2> QED
      BY <2>1, FreedNothing
  <1> QED
    BY <1>3, <1>4, <1>7, <1>8 DEF left

\* A buffer that is ready is let go of, whatever its content; another one stays.
LEMMA ParseIfReadyEither ==
  ASSUME NEW m, IsMemory(m), NEW failed \in BOOLEAN
  PROVE  \/ ParseIfReady(m, failed) = m
         \/ ParseIfReady(m, failed)
              = [heap |-> Freed(m.heap, {m.qh.data}), qh |-> NoData]
  <1>1. \A kind : ProcessResponse(m.heap, kind, failed) = m.heap
    BY ProcessResponseHeap DEF IsMemory
  <1> QED
    BY <1>1 DEF ParseIfReady

-----------------------------------------------------------------------------
\* A memory is told by its two parts.
LEMMA MemoryParts ==
  ASSUME NEW heap, IsHeap(heap), NEW qh \in [data : Nat, size : Nat]
  PROVE  IsMemory([heap |-> heap, qh |-> qh])
  BY DEF IsMemory

\* The memory after goQuick, as far as its caller is concerned: of the block p
\* and of the buffer there was before at most one is left, and it is goQuick's.
Absorbed(m, p, r) ==
    /\ IsMemory(r) /\ QuickOK(r.heap, r.qh)
    /\ r.qh.data \in {Null, p, m.qh.data}
    /\ DOMAIN r.heap = (DOMAIN m.heap \ {p, m.qh.data}) \cup ({r.qh.data} \ {Null})
    /\ \A a \in DOMAIN m.heap \ {p, m.qh.data} : r.heap[a] = m.heap[a]

\* A buffer that is parsed is freed.
LEMMA ParseAbsorbs ==
  ASSUME NEW m, IsMemory(m), m.qh.data \in DOMAIN m.heap, QuickOK(m.heap, m.qh),
         NEW failed \in BOOLEAN
  PROVE  Absorbed(m, m.qh.data, ParseIfReady(m, failed))
  <1> DEFINE r == ParseIfReady(m, failed)
             content == Effective(m.heap, m.qh.data, m.qh.size)
             left == Freed(m.heap, {m.qh.data})
  <1>1. m.qh \in [data : Nat, size : Nat] /\ IsHeap(m.heap)
    BY DEF IsMemory
  <1>2. m.qh.data # Null
    BY <1>1 DEF IsHeap, Block, Null
  <1>3. CASE r = m
    BY <1>2, <1>3 DEF Absorbed
  <1>4. CASE r = [heap |-> left, qh |-> NoData]
    <2>1. m.qh.size \in 0 .. Len(m.heap[m.qh.data])
      <3>1. m.heap[m.qh.data] \in Seq(UnitSet)
        BY <1>1 DEF IsHeap
      <3> QED
        BY <1>1, <1>2, <3>1 DEF QuickOK
    <2>2. content \in Seq(UnitSet)
      BY <1>1, <2>1, EffectiveOf
    <2>3. IsHeap(left) /\ DOMAIN left = DOMAIN m.heap \ {m.qh.data}
          /\ \A a \in DOMAIN m.heap \ {m.qh.data} : left[a] = m.heap[a]
      BY <1>1, FreedHeap
    <2> HIDE DEF left, content, r
    <2>4. NoData \in [data : Nat, size : Nat] /\ NoData.data = Null
      BY DEF NoData, Null
    <2>5. IsMemory(r)
      BY <1>4, <2>2, <2>3, <2>4, MemoryParts
    <2>6. r.heap = left /\ r.qh = NoData
      BY <1>4
    <2> QED
      BY <2>1, <2>3, <2>4, <2>5, <2>6 DEF Absorbed, QuickOK, r
  <1> QED
    BY <1>3, <1>4, ParseIfReadyEither

\* goQuick, given a block, keeps it or has freed it.
LEMMA GoQuickAbsorbs ==
  ASSUME NEW m, IsMemory(m), QuickOK(m.heap, m.qh),
         m.qh.data # Null => m.qh.data \in DOMAIN m.heap,
         NEW p \in DOMAIN m.heap, p # m.qh.data,
         NEW size \in 1 .. Len(m.heap[p]),
         NEW nomem \in BOOLEAN, NEW failed \in BOOLEAN
  PROVE  Absorbed(m, p, GoQuick(m, p, size, nomem, failed))
  <1> DEFINE r == GoQuick(m, p, size, nomem, failed)
  <1>1. m.qh \in [data : Nat, size : Nat] /\ IsHeap(m.heap)
        /\ m = [heap |-> m.heap, qh |-> m.qh]
    BY DEF IsMemory
  <1>2. p \in Block /\ p # Null /\ m.heap[p] \in Seq(UnitSet)
    BY <1>1 DEF IsHeap, Block, Null
  <1>3. p \in Nat /\ size \in Nat /\ size # 0
    BY <1>2 DEF Block
  <1>4. CASE m.qh = NoData
    <2> DEFINE own == [heap |-> m.heap, qh |-> [data |-> p, size |-> size]]
    <2>1. own = [m EXCEPT !.qh = [data |-> p, size |-> size]]
      BY <1>1
    <2>2. r = ParseIfReady(own, failed)
      BY <1>2, <1>3, <1>4, <2>1 DEF GoQuick
    <2>3. IsMemory(own) /\ own.heap = m.heap /\ own.qh.data = p /\ own.qh.size = size
      BY <1>1, <1>3, MemoryParts
    <2> HIDE DEF own, r
    <2>4. QuickOK(own.heap, own.qh)
      BY <1>2, <1>3, <2>3 DEF QuickOK
    <2>5. Absorbed(own, p, r)
      BY <2>2, <2>3, <2>4, ParseAbsorbs
    <2>6. m.qh.data = Null /\ Null \notin DOMAIN m.heap
      BY <1>1, <1>4 DEF NoData, IsHeap, Block, Null
    <2> QED
      BY <2>3, <2>5, <2>6 DEF Absorbed, r
  <1>5. ASSUME m.qh # NoData, nomem PROVE Absorbed(m, p, r)
    <2> DEFINE left == Freed(m.heap, {p, m.qh.data})
    <2>1. r = [heap |-> left, qh |-> NoData]
      BY <1>1, <1>2, <1>3, <1>5 DEF GoQuick
    <2>2. IsHeap(left) /\ DOMAIN left = DOMAIN m.heap \ {p, m.qh.data}
          /\ \A a \in DOMAIN m.heap \ {p, m.qh.data} : left[a] = m.heap[a]
      BY <1>1, FreedHeap
    <2> HIDE DEF left, r
    <2>3. NoData \in [data : Nat, size : Nat] /\ NoData.data = Null
      BY DEF NoData, Null
    <2>4. IsMemory(r)
      BY <1>1, <2>1, <2>2, <2>3, MemoryParts
    <2>5. r.heap = left /\ r.qh = NoData
      BY <2>1
    <2> QED
      BY <2>2, <2>3, <2>4, <2>5 DEF Absorbed, QuickOK, r
  <1>6. ASSUME m.qh # NoData, ~nomem PROVE Absorbed(m, p, r)
    <2> DEFINE d == m.qh.data
               old == Effective(m.heap, d, m.qh.size)
               joined == old \o Effective(m.heap, p, size)
               less == Freed(m.heap, {p})
               grown == WithBlock(less, d, joined)
               more == [heap |-> grown, qh |-> m.qh]
    <2>1. more = [m EXCEPT !.heap = grown]
      BY <1>1
    <2>2. r = ParseIfReady(more, failed)
      BY <1>2, <1>3, <1>6, <2>1 DEF GoQuick
    <2>3. d # Null /\ d \in DOMAIN m.heap /\ d \in Block /\ m.qh.size > 0
          /\ m.qh.size \in 0 .. Len(m.heap[d])
      <3>1. m.qh.data # Null /\ d \in DOMAIN m.heap
        BY <1>6 DEF QuickOK
      <3>2. m.heap[d] \in Seq(UnitSet) /\ d \in Block
        BY <1>1, <3>1 DEF IsHeap
      <3> QED
        BY <1>1, <3>1, <3>2 DEF QuickOK
    <2>4. old \in Seq(UnitSet) /\ Len(old) = m.qh.size
      BY <1>1, <2>3, EffectiveOf
    <2>5. Effective(m.heap, p, size) \in Seq(UnitSet)
      BY <1>1, <1>3, EffectiveOf
    <2> HIDE DEF d, old
    <2>6. joined \in Seq(UnitSet) /\ Len(joined) >= m.qh.size
          /\ SubSeq(joined, 1, m.qh.size) = old
      BY <1>1, <2>4, <2>5
    <2> HIDE DEF joined
    <2>7. IsHeap(less) /\ DOMAIN less = DOMAIN m.heap \ {p}
          /\ \A a \in DOMAIN m.heap \ {p} : less[a] = m.heap[a]
      BY <1>1, FreedHeap
    <2> HIDE DEF less
    <2>8. IsHeap(grown) /\ DOMAIN grown = DOMAIN less \cup {d} /\ grown[d] = joined
          /\ \A a \in DOMAIN less \ {d} : grown[a] = less[a]
      <3>1. IsHeap(less) /\ d \in Block /\ joined \in Seq(UnitSet)
        BY <2>3, <2>6, <2>7
      <3>2. IsHeap(grown) /\ DOMAIN grown = DOMAIN less \cup {d}
        BY <3>1, WithBlockHeap
      <3>3. grown[d] = joined
        BY DEF WithBlock
      <3>4. \A a \in DOMAIN less \ {d} : grown[a] = less[a]
        BY <3>1, WithBlockHeap
      <3> QED
        BY <3>2, <3>3, <3>4
    <2> HIDE DEF grown
    <2>9. IsMemory(more) /\ more.heap = grown /\ more.qh = m.qh
      BY <1>1, <2>8, MemoryParts
    <2>10. Effective(grown, d, m.qh.size) = old
      BY <2>3, <2>6, <2>8 DEF Effective
    <2> HIDE DEF more, r
    <2>11. QuickOK(more.heap, more.qh) /\ d \in DOMAIN more.heap
      BY <1>1, <2>3, <2>6, <2>8, <2>9, <2>10 DEF QuickOK, d
    <2>12. Absorbed(more, d, r)
      BY <2>2, <2>9, <2>11, ParseAbsorbs DEF d
    <2>13. d # p
      BY DEF d
    <2>14. DOMAIN grown = DOMAIN m.heap \ {p}
           /\ \A a \in DOMAIN m.heap \ {p, d} : grown[a] = m.heap[a]
      BY <2>3, <2>7, <2>8, <2>13
    <2> QED
      BY <2>3, <2>9, <2>12, <2>13, <2>14 DEF Absorbed, r, d
  <1> QED
    BY <1>4, <1>5, <1>6

-----------------------------------------------------------------------------
\* The least of some numbers is one of them.
LEMMA LeastOne ==
  ASSUME NEW S, NEW k, S = {k}, k \in Nat
  PROVE  (CHOOSE j \in S : \A i \in S : j <= i) = k
  <1>1. k \in S /\ \A i \in S : k <= i
    OBVIOUS
  <1> QED
    BY <1>1

\* The entry getEndpoints finds or makes for a packet of connection c: the
\* others stay, and a change of direction is told from the entry there was.
EndsKnown(list, c, side, e) ==
    /\ RealEnds(list) /\ e.at \in DOMAIN list /\ ConnOf(list[e.at]) = c
    /\ DOMAIN e.list = DOMAIN list
    /\ e.swapped <=> LastSide(list[e.at]) # side

EndsNew(list, c, e) ==
    /\ e.swapped = FALSE
    /\ \/ list = <<BlankEnds>> /\ DOMAIN e.list = {1}
       \/ /\ RealEnds(list) /\ e.at \notin DOMAIN list
          /\ DOMAIN e.list = DOMAIN list \cup {e.at}
          /\ \A i \in DOMAIN list : ConnOf(list[i]) # c

EndsFound(list, c, side, e) ==
    /\ e.list \in Seq(EndsSet) /\ RealEnds(e.list)
    /\ e.at \in DOMAIN e.list /\ e.list[e.at].src # Nobody
    /\ ConnOf(e.list[e.at]) = c /\ LastSide(e.list[e.at]) = side
    /\ \A i \in DOMAIN e.list : i # e.at => i \in DOMAIN list /\ e.list[i] = list[i]
    /\ EndsKnown(list, c, side, e) \/ EndsNew(list, c, e)

\* Addresses are told apart by their connection and side.
LEMMA Addresses ==
  ASSUME NEW c \in Conn, NEW side \in Side
  PROVE  /\ <<c, side>> \in Conn \X Side /\ <<c, side>> # Nobody
         /\ <<c, side>>[1] = c /\ <<c, side>>[2] = side
         /\ 1 - side \in Side /\ 1 - side # side
         /\ \A a \in Conn \X Side : /\ a # Nobody /\ a = <<a[1], a[2]>>
                                    /\ a[1] \in Conn /\ a[2] \in Side
         /\ \A a \in Conn \X Side : a = <<c, side>> <=> a[1] = c /\ a[2] = side
  <1>1. <<c, side>> # <<>>
    OBVIOUS
  <1>2. \A a \in Conn \X Side : a # <<>>
    OBVIOUS
  <1>3. 1 - side \in Side /\ 1 - side # side
    BY DEF Side
  <1> QED
    BY <1>1, <1>2, <1>3 DEF Nobody

\* A new entry is one of its connection, which the side has sent last.
LEMMA NewEndpoints ==
  ASSUME NEW c \in Conn, NEW side \in Side
  PROVE  LET new == [src |-> <<c, side>>, dst |-> <<c, 1 - side>>, inv |-> FALSE]
         IN /\ new \in EndsSet /\ new.src \in Conn \X Side /\ new.src # Nobody
            /\ new.dst = <<ConnOf(new), 1 - new.src[2]>>
            /\ ConnOf(new) = c /\ LastSide(new) = side
  BY Addresses DEF EndsSet, Address, ConnOf, LastSide

\* Of a list of real endpoints an entry is found for the connection it is of.
LEMMA EntryIsFound ==
  ASSUME NEW list \in Seq(EndsSet), RealEnds(list), NEW c \in Conn, NEW side \in Side,
         NEW i \in DOMAIN list
  PROVE  /\ list[i].src = <<c, side>> /\ list[i].dst = <<c, 1 - side>>
              <=> ConnOf(list[i]) = c /\ list[i].src[2] = side
         /\ list[i].src = <<c, 1 - side>> /\ list[i].dst = <<c, side>>
              <=> ConnOf(list[i]) = c /\ list[i].src[2] # side
         /\ list[i].src # Nobody
  <1>1. list[i].src \in Conn \X Side /\ list[i].dst = <<ConnOf(list[i]), 1 - list[i].src[2]>>
    BY DEF RealEnds
  <1>2. list[i].src[1] \in Conn /\ list[i].src[2] \in Side /\ list[i].src # Nobody
    BY <1>1, Addresses
  <1>3. list[i].src = <<c, side>> <=> ConnOf(list[i]) = c /\ list[i].src[2] = side
    BY <1>1, Addresses DEF ConnOf
  <1>4. list[i].src = <<c, 1 - side>> <=> ConnOf(list[i]) = c /\ list[i].src[2] = 1 - side
    BY <1>1, Addresses DEF ConnOf
  <1>5. list[i].src[2] # side <=> list[i].src[2] = 1 - side
    BY <1>2 DEF Side
  <1>6. 1 - (1 - side) = side
    BY DEF Side
  <1> QED
    BY <1>1, <1>2, <1>3, <1>4, <1>5, <1>6

\* getEndpoints finds or makes the entry of the packet's connection, or has no
\* memory for a new one.
LEMMA GetEndpointsFinds ==
  ASSUME NEW list \in Seq(EndsSet), EndsOK(list), NEW c \in Conn, NEW side \in Side,
         NEW nomem \in BOOLEAN
  PROVE  LET e == GetEndpoints(list, <<c, side>>, <<c, 1 - side>>, nomem)
         IN e.at = Null \/ EndsFound(list, c, side, e)
  <1> DEFINE src == <<c, side>>
             dst == <<c, 1 - side>>
             new == [src |-> src, dst |-> dst, inv |-> FALSE]
             same(i) == list[i].src = src /\ list[i].dst = dst
             inverse(i) == list[i].src = dst /\ list[i].dst = src
             blank(i) == i = Len(list) /\ list[i].src = Nobody /\ list[i].dst = Nobody
             found == {i \in DOMAIN list : same(i) \/ inverse(i) \/ blank(i)}
             first == CHOOSE j \in found : \A k \in found : j <= k
             e == GetEndpoints(list, src, dst, nomem)
             made == Append(list, new)
  <1>1. new \in EndsSet /\ new.src \in Conn \X Side /\ new.src # Nobody
        /\ new.dst = <<ConnOf(new), 1 - new.src[2]>>
        /\ ConnOf(new) = c /\ LastSide(new) = side
    BY NewEndpoints
  <1>2. e = IF found = {}
            THEN IF nomem THEN [list |-> list, at |-> Null, swapped |-> FALSE]
                 ELSE [list |-> made, at |-> Len(list) + 1, swapped |-> FALSE]
            ELSE IF blank(first)
            THEN [list |-> [list EXCEPT ![first] = new], at |-> first, swapped |-> FALSE]
            ELSE [list |-> [list EXCEPT ![first].inv = inverse(first)], at |-> first,
                  swapped |-> list[first].inv # inverse(first)]
    BY DEF GetEndpoints
  <1>3. CASE list = <<BlankEnds>>
    <2>1. Len(list) = 1 /\ DOMAIN list = {1} /\ list[1] = BlankEnds
      BY <1>3
    <2>2. list[1].src = Nobody /\ list[1].dst = Nobody
      BY <2>1 DEF BlankEnds
    <2>3. found = {1}
      BY <2>1, <2>2
    <2> HIDE DEF found
    <2>4. first = 1
      BY <2>3, LeastOne
    <2> HIDE DEF first
    <2>5. blank(first)
      BY <2>1, <2>2, <2>4
    <2> HIDE DEF new
    <2>6. e = [list |-> [list EXCEPT ![1] = new], at |-> 1, swapped |-> FALSE]
      BY <1>2, <2>3, <2>4, <2>5
    <2> HIDE DEF e, blank, same, inverse
    <2>7. e.list = <<new>> /\ e.at = 1 /\ e.swapped = FALSE
      BY <1>3, <2>6
    <2>8. e.list \in Seq(EndsSet) /\ DOMAIN e.list = {1} /\ e.list[1] = new
      BY <1>1, <2>7
    <2> HIDE DEF src, dst
    <2>9. RealEnds(e.list)
      BY <1>1, <2>8 DEF RealEnds
    <2> QED
      BY <1>1, <1>3, <2>7, <2>8, <2>9 DEF EndsFound, EndsNew, e, src, dst
  <1>4. ASSUME RealEnds(list) PROVE e.at = Null \/ EndsFound(list, c, side, e)
    <2>1. \A i \in DOMAIN list : /\ same(i) <=> ConnOf(list[i]) = c /\ list[i].src[2] = side
                                 /\ inverse(i) <=> ConnOf(list[i]) = c /\ list[i].src[2] # side
                                 /\ ~blank(i)
      BY <1>4, EntryIsFound
    <2>2. found = {i \in DOMAIN list : ConnOf(list[i]) = c}
      BY <2>1
    <2>3. CASE found = {}
      <3> HIDE DEF e, found, first, made, blank, inverse
      <3>1. CASE nomem
        <4>1. e.at = Null
          BY <1>2, <2>3, <3>1
        <4> QED
          BY <4>1 DEF e
      <3>2. CASE ~nomem
        <4>1. e.list = made /\ e.at = Len(list) + 1 /\ e.swapped = FALSE
          BY <1>2, <2>3, <3>2
        <4>2. \A i \in DOMAIN list : ConnOf(list[i]) # c
          BY <2>2, <2>3
        <4> USE DEF made
        <4> HIDE DEF new
        <4>3. /\ made \in Seq(EndsSet) /\ Len(made) = Len(list) + 1
              /\ DOMAIN made = DOMAIN list \cup {Len(list) + 1}
              /\ \A i \in DOMAIN list : i # Len(list) + 1 /\ made[i] = list[i]
              /\ made[Len(list) + 1] = new
          BY <1>1
        <4> HIDE DEF made
        <4>4. RealEnds(made)
          <5>1. ASSUME NEW i \in DOMAIN made
                PROVE  made[i].src \in Conn \X Side
                       /\ made[i].dst = <<ConnOf(made[i]), 1 - made[i].src[2]>>
            BY <1>1, <1>4, <4>3 DEF RealEnds
          <5>2. ASSUME NEW i \in DOMAIN made, NEW j \in DOMAIN made,
                        ConnOf(made[i]) = ConnOf(made[j])
                PROVE  i = j
            BY <1>1, <1>4, <4>2, <4>3, <5>2 DEF RealEnds
          <5> QED
            BY <5>1, <5>2 DEF RealEnds
        <4>5. Len(list) + 1 \notin DOMAIN list
          BY <4>3
        <4>6. EndsNew(list, c, e)
          BY <1>4, <4>1, <4>2, <4>3, <4>5 DEF EndsNew
        <4>7. e.at \in DOMAIN e.list /\ e.list[e.at] = new
          BY <4>1, <4>3
        <4>8. \A i \in DOMAIN e.list : i # e.at => i \in DOMAIN list /\ e.list[i] = list[i]
          BY <4>1, <4>3
        <4>9. EndsFound(list, c, side, e)
          BY <1>1, <4>1, <4>3, <4>4, <4>6, <4>7, <4>8 DEF EndsFound
        <4> QED
          BY <4>9 DEF e
      <3> QED
        BY <3>1, <3>2
    <2>4. CASE found # {}
      <3>1. PICK k \in DOMAIN list : ConnOf(list[k]) = c
        BY <2>2, <2>4
      <3>2. found = {k}
        BY <1>4, <2>2, <3>1 DEF RealEnds
      <3>3. k \in Nat
        OBVIOUS
      <3> HIDE DEF found
      <3>4. first = k
        BY <3>2, <3>3, LeastOne
      <3> HIDE DEF first
      <3> DEFINE flag == inverse(k)
                 turned == [list EXCEPT ![k].inv = flag]
      <3>5. flag \in BOOLEAN /\ (flag <=> list[k].src[2] # side)
        BY <2>1, <3>1
      <3>6. ~blank(first)
        BY <2>1, <3>4
      <3> HIDE DEF flag, e, same, inverse, blank, made, new
      <3>7. e.list = turned /\ e.at = k /\ e.swapped = (list[k].inv # flag)
        <4>1. found # {}
          BY <2>4
        <4>2. e = [list |-> [list EXCEPT ![first].inv = inverse(first)], at |-> first,
                   swapped |-> list[first].inv # inverse(first)]
          BY <1>2, <4>1, <3>6
        <4> QED
          BY <3>4, <4>2 DEF flag
      <3>8. list[k] \in EndsSet /\ list[k].inv \in BOOLEAN
        <4>1. list[k] \in EndsSet
          OBVIOUS
        <4> QED
          BY <4>1 DEF EndsSet
      <3>9. /\ turned \in Seq(EndsSet) /\ DOMAIN turned = DOMAIN list
            /\ \A i \in DOMAIN list : i # k => turned[i] = list[i]
            /\ turned[k].src = list[k].src /\ turned[k].dst = list[k].dst /\ turned[k].inv = flag
        <4>1. [list[k] EXCEPT !.inv = flag] \in EndsSet
          BY <3>5, <3>8 DEF EndsSet
        <4>2. turned = [list EXCEPT ![k] = [list[k] EXCEPT !.inv = flag]]
          OBVIOUS
        <4> QED
          BY <3>8, <4>1, <4>2 DEF EndsSet
      <3> HIDE DEF turned
      <3>10. \A i \in DOMAIN list : turned[i].src = list[i].src /\ turned[i].dst = list[i].dst
        BY <3>9
      <3>11. RealEnds(turned)
        BY <1>4, <3>9, <3>10 DEF RealEnds, ConnOf
      <3>12. list[k].src \in Conn \X Side /\ list[k].src # Nobody /\ list[k].src[2] \in Side
        BY <1>4, Addresses DEF RealEnds
      <3>13. LastSide(turned[k]) = side
        BY <3>5, <3>9, <3>12 DEF LastSide, Side
      <3>14. list[k].inv # flag <=> LastSide(list[k]) # side
        <4>1. LastSide(list[k]) = IF list[k].inv THEN 1 - list[k].src[2] ELSE list[k].src[2]
          BY DEF LastSide
        <4>2. side = 0 \/ side = 1
          BY DEF Side
        <4>3. list[k].src[2] = 0 \/ list[k].src[2] = 1
          BY <3>12 DEF Side
        <4>4. CASE list[k].inv
          <5>1. LastSide(list[k]) # side <=> list[k].src[2] = side
            BY <4>1, <4>2, <4>3, <4>4
          <5> QED
            BY <3>5, <3>8, <4>4, <5>1
        <4>5. CASE ~list[k].inv
          <5>1. LastSide(list[k]) # side <=> list[k].src[2] # side
            BY <4>1, <4>5
          <5> QED
            BY <3>5, <3>8, <4>5, <5>1
        <4> QED
          BY <4>4, <4>5
      <3>15. EndsKnown(list, c, side, e)
        BY <1>4, <3>1, <3>7, <3>9, <3>14 DEF EndsKnown
      <3>16. ConnOf(turned[k]) = c
        BY <3>1, <3>9 DEF ConnOf
      <3>17. EndsFound(list, c, side, e)
        BY <3>7, <3>9, <3>11, <3>12, <3>13, <3>15, <3>16 DEF EndsFound
      <3> QED
        BY <3>17 DEF e
    <2> QED
      BY <2>3, <2>4
  <1> QED
    BY <1>3, <1>4 DEF EndsOK

-----------------------------------------------------------------------------
\* The buffer getULBuffer finds or makes for the endpoints `id`: the others
\* stay, and a buffer that is made has no block and takes none over.
BufsFound(list, id, es, u) ==
    /\ u.list \in Seq(BufSet) /\ RealBufs(u.list, es) /\ u.free = Null
    /\ u.at \in DOMAIN u.list /\ u.list[u.at].id = id
    /\ \A i \in DOMAIN u.list : i # u.at => i \in DOMAIN list /\ u.list[i] = list[i]
    /\ \/ u.at \in DOMAIN list /\ u.list = list
       \/ /\ u.list[u.at].buf = Null /\ u.list[u.at].size = 0
          /\ \A i \in DOMAIN list : list[i].id # id
          /\ \A i \in DOMAIN list : i # u.at => i \in DOMAIN u.list
          /\ u.at \in DOMAIN list => list[u.at] = BlankBuf

\* There was no buffer for the endpoints, and there is no memory for one.
BufsFull(list, id, es) ==
    RealBufs(list, es) /\ \A i \in DOMAIN list : list[i].id # id

\* getULBuffer finds or makes the buffer of some endpoints, or has no memory
\* for a new one.
LEMMA GetULBufferFinds ==
  ASSUME NEW es \in Seq(EndsSet), NEW list \in Seq(BufSet),
         list = <<BlankBuf>> \/ RealBufs(list, es),
         NEW id \in DOMAIN es, NEW nomem \in BOOLEAN
  PROVE  LET u == GetULBuffer(list, id, nomem)
         IN \/ u.at = Null /\ BufsFull(list, id, es)
            \/ u.at # Null /\ BufsFound(list, id, es, u)
  <1> DEFINE of == {i \in DOMAIN list : list[i].id = id}
             unused == {i \in DOMAIN list : list[i].id = Null}
             first(s) == CHOOSE j \in s : \A k \in s : j <= k
             new == [BlankBuf EXCEPT !.id = id]
             made == Append(list, new)
             u == GetULBuffer(list, id, nomem)
  <1>1. id \in Nat /\ id # Null
    BY DEF Null
  <1>2. new = [id |-> id, buf |-> Null, size |-> 0]
    BY DEF BlankBuf
  <1>3. new \in BufSet /\ new.id = id /\ new.buf = Null /\ new.size = 0
    BY <1>1, <1>2 DEF BufSet, Null
  <1> HIDE DEF new
  <1>4. u = IF of # {} THEN [list |-> list, at |-> first(of), free |-> Null]
            ELSE IF unused # {}
            THEN [list |-> [list EXCEPT ![first(unused)] = new], at |-> first(unused),
                  free |-> list[first(unused)].buf]
            ELSE IF nomem THEN [list |-> list, at |-> Null, free |-> Null]
            ELSE [list |-> made, at |-> Len(list) + 1, free |-> Null]
    BY DEF GetULBuffer, new
  <1>5. CASE list = <<BlankBuf>>
    <2>1. Len(list) = 1 /\ DOMAIN list = {1} /\ list[1] = BlankBuf
      BY <1>5
    <2>2. BlankBuf.id = Null /\ BlankBuf.buf = Null
      BY DEF BlankBuf
    <2>3. of = {} /\ unused = {1}
      BY <1>1, <2>1, <2>2
    <2> HIDE DEF of, unused
    <2>4. first(unused) = 1
      BY <2>3, LeastOne
    <2> HIDE DEF first, u, made
    <2>5. u = [list |-> [list EXCEPT ![1] = new], at |-> 1, free |-> Null]
      BY <1>4, <2>1, <2>2, <2>3, <2>4
    <2>6. u.list = <<new>> /\ u.at = 1 /\ u.free = Null
      BY <1>5, <2>5
    <2>7. u.list \in Seq(BufSet) /\ DOMAIN u.list = {1} /\ u.list[1] = new
      BY <1>3, <2>6
    <2>8. RealBufs(u.list, es)
      BY <1>3, <2>7 DEF RealBufs
    <2>9. BufsFound(list, id, es, u)
      BY <1>1, <1>3, <2>1, <2>2, <2>6, <2>7, <2>8 DEF BufsFound
    <2> QED
      BY <2>6, <2>9 DEF u, Null
  <1>6. ASSUME RealBufs(list, es)
        PROVE  \/ u.at = Null /\ BufsFull(list, id, es)
               \/ u.at # Null /\ BufsFound(list, id, es, u)
    <2>1. unused = {}
      <3>1. \A i \in DOMAIN list : list[i].id \in DOMAIN es
        BY <1>6 DEF RealBufs
      <3>2. Null \notin DOMAIN es
        BY DEF Null
      <3> QED
        BY <3>1, <3>2
    <2> HIDE DEF unused, u, made
    <2>2. CASE of # {}
      <3>1. PICK k \in DOMAIN list : list[k].id = id
        BY <2>2
      <3>2. of = {k}
        BY <1>6, <3>1 DEF RealBufs
      <3>3. k \in Nat
        OBVIOUS
      <3> HIDE DEF of
      <3>4. first(of) = k
        BY <3>2, <3>3, LeastOne
      <3> HIDE DEF first
      <3>5. u.list = list /\ u.at = k /\ u.free = Null
        BY <1>4, <2>2, <3>4
      <3>6. BufsFound(list, id, es, u)
        BY <1>6, <3>1, <3>5 DEF BufsFound
      <3> QED
        BY <3>3, <3>5, <3>6 DEF u, Null
    <2>3. CASE of = {}
      <3>1. \A i \in DOMAIN list : list[i].id # id
        BY <2>3
      <3> HIDE DEF of, first
      <3>2. CASE nomem
        <4>1. u.at = Null
          BY <1>4, <2>1, <2>3, <3>2
        <4> QED
          BY <1>6, <3>1, <4>1 DEF u, BufsFull
      <3>3. CASE ~nomem
        <4>1. u.list = made /\ u.at = Len(list) + 1 /\ u.free = Null
          BY <1>4, <2>1, <2>3, <3>3
        <4>2. /\ made \in Seq(BufSet) /\ Len(made) = Len(list) + 1
              /\ DOMAIN made = DOMAIN list \cup {Len(list) + 1}
              /\ \A i \in DOMAIN list : i # Len(list) + 1 /\ made[i] = list[i]
              /\ made[Len(list) + 1] = new
          BY <1>3 DEF made
        <4>3. RealBufs(made, es)
          <5>1. ASSUME NEW i \in DOMAIN made PROVE made[i].id \in DOMAIN es
            BY <1>3, <1>6, <4>2 DEF RealBufs
          <5>2. ASSUME NEW i \in DOMAIN made, NEW j \in DOMAIN made, made[i].id = made[j].id
                PROVE  i = j
            BY <1>3, <1>6, <3>1, <4>2, <5>2 DEF RealBufs
          <5> QED
            BY <5>1, <5>2 DEF RealBufs
        <4>4. Len(list) + 1 \notin DOMAIN list
          BY <4>2
        <4>5. u.at \in DOMAIN u.list /\ u.list[u.at] = new
          BY <4>1, <4>2
        <4>6. BufsFound(list, id, es, u)
          BY <1>3, <3>1, <4>1, <4>2, <4>3, <4>4, <4>5 DEF BufsFound
        <4> QED
          BY <4>1, <4>6 DEF u, Null
      <3> QED
        BY <3>2, <3>3
    <2> QED
      BY <2>2, <2>3
  <1> QED
    BY <1>5, <1>6

-----------------------------------------------------------------------------
\* A size is kept modulo Wrap, and is itself as long as it is smaller.
LEMMA Modulo ==
  ASSUME NEW x \in Nat
  PROVE  x % Wrap \in Nat /\ x % Wrap <= x /\ (x < Wrap => x % Wrap = x)
  <1>1. Wrap \in Nat \ {0}
    BY SnifferAssumption
  <1> QED
    BY <1>1

\* The units of a payload, their connection, turn and numbers.
LEMMA UnitsOf ==
  ASSUME NEW c \in Conn, NEW turn \in Nat, NEW n \in Nat, NEW load \in Payload
  PROVE  /\ Units(c, turn, n, load) \in Seq(UnitSet)
         /\ Len(Units(c, turn, n, load)) = Len(load) /\ Len(load) \in Nat
         /\ load = <<>> <=> Len(load) = 0
         /\ load = <<>> <=> Units(c, turn, n, load) = <<>>
         /\ \A i \in 1 .. Len(load) : /\ Units(c, turn, n, load)[i].conn = c
                                      /\ Units(c, turn, n, load)[i].turn = turn
                                      /\ Units(c, turn, n, load)[i].n = n + i
  <1> DEFINE u == Units(c, turn, n, load)
             f(i) == [conn |-> c, turn |-> turn, n |-> n + i, kind |-> load[i].kind,
                      end |-> load[i].end]
  <1>1. load \in Seq([kind : Kinds, end : BOOLEAN])
    BY SnifferAssumption
  <1>2. Len(load) \in Nat /\ DOMAIN load = 1 .. Len(load)
    BY <1>1
  <1>3. u = [i \in 1 .. Len(load) |-> f(i)]
    BY <1>2 DEF Units
  <1>4. \A i \in 1 .. Len(load) : f(i) \in UnitSet
    <2> TAKE i \in 1 .. Len(load)
    <2>1. load[i] \in [kind : Kinds, end : BOOLEAN]
      <3> HIDE DEF u, f
      <3> QED
        BY <1>1, ElementOfSeq
    <2>2. load[i].kind \in Kinds /\ load[i].end \in BOOLEAN
      BY <2>1
    <2>3. n + i \in Nat
      BY <1>2
    <2> QED
      BY <2>2, <2>3 DEF UnitSet
  <1>5. \A i \in 1 .. Len(load) : f(i).conn = c /\ f(i).turn = turn /\ f(i).n = n + i
    OBVIOUS
  <1> HIDE DEF f
  <1>6. u \in Seq(UnitSet) /\ Len(u) = Len(load)
    BY <1>2, <1>3, <1>4
  <1>7. \A i \in 1 .. Len(load) : u[i] = f(i)
    BY <1>3
  <1>8. load = <<>> <=> Len(load) = 0
    BY <1>1
  <1> HIDE DEF u
  <1>9. u = <<>> <=> Len(u) = 0
    BY <1>6
  <1> QED
    BY <1>2, <1>5, <1>6, <1>7, <1>8, <1>9 DEF u

\* The numbers of some units.
LEMMA PositionsOf ==
  ASSUME NEW u \in Seq(UnitSet)
  PROVE  /\ Positions(u) \in Seq(Nat) /\ Len(Positions(u)) = Len(u) /\ Len(u) \in Nat
         /\ \A i \in 1 .. Len(u) : Positions(u)[i] = u[i].n
  <1>1. DOMAIN u = 1 .. Len(u) /\ Len(u) \in Nat
    OBVIOUS
  <1>2. \A i \in 1 .. Len(u) : u[i].n \in Nat
    <2> TAKE i \in 1 .. Len(u)
    <2>1. u[i] \in UnitSet
      OBVIOUS
    <2> QED
      BY <2>1 DEF UnitSet
  <1>3. Positions(u) = [i \in 1 .. Len(u) |-> u[i].n]
    BY <1>1 DEF Positions
  <1> QED
    BY <1>1, <1>2, <1>3

\* No unit has no number.
LEMMA NoPositions == Positions(<<>>) = <<>>
  BY DEF Positions

\* What a buffer keeps is as long as its size says.
LEMMA KeptOf ==
  ASSUME NEW heap, IsHeap(heap), NEW b, IsBuffer(heap, b)
  PROVE  Kept(heap, b) \in Seq(UnitSet) /\ Len(Kept(heap, b)) = b.size /\ b.size \in Nat
         /\ b.buf \in Nat /\ b.id \in Nat
  <1>1. b.size \in Nat /\ b.buf \in Nat /\ b.id \in Nat
    BY DEF IsBuffer, BufSet
  <1>2. CASE b.buf = Null
    <2>1. Kept(heap, b) = <<>>
      BY <1>2 DEF Kept, Effective
    <2> QED
      BY <1>1, <1>2, <2>1 DEF IsBuffer
  <1>3. CASE b.buf # Null
    <2>1. b.buf \in DOMAIN heap /\ b.size \in 0 .. Len(heap[b.buf])
      <3>1. b.buf \in DOMAIN heap /\ b.size <= Len(heap[b.buf])
        BY <1>3 DEF IsBuffer
      <3>2. heap[b.buf] \in Seq(UnitSet)
        BY <3>1 DEF IsHeap
      <3> QED
        BY <1>1, <3>1, <3>2
    <2> QED
      BY <1>1, <2>1, EffectiveOf DEF Kept
  <1> QED
    BY <1>2, <1>3

\* What extendULBuf does to a buffer: a block of its own, new if it had none,
\* holds what counted and the new units.
Extended(heap, b, units, r) ==
    /\ IsHeap(r.heap) /\ IsBuffer(r.heap, r.b) /\ r.b.id = b.id
    /\ units = <<>> => r.heap = heap /\ r.b = b
    /\ units # <<>> =>
         /\ r.b.buf # Null /\ DOMAIN r.heap = DOMAIN heap \cup {r.b.buf}
         /\ r.b.buf = b.buf \/ (b.buf = Null /\ r.b.buf \notin DOMAIN heap)
         /\ \A a \in DOMAIN heap : a # r.b.buf => r.heap[a] = heap[a]
         /\ r.heap[r.b.buf] = Kept(heap, b) \o units
         /\ r.b.size = (b.size + Len(units)) % Wrap

\* extendULBuf extends the buffer it is given.
LEMMA ExtendULBufExtends ==
  ASSUME NEW heap, IsHeap(heap), NEW b, IsBuffer(heap, b), NEW units \in Seq(UnitSet)
  PROVE  Extended(heap, b, units, ExtendULBuf(heap, b, units))
  <1> DEFINE r == ExtendULBuf(heap, b, units)
             p == IF b.buf = Null THEN FreshBlock(heap) ELSE b.buf
             content == Kept(heap, b) \o units
             size == (b.size + Len(units)) % Wrap
             grown == WithBlock(heap, p, content)
             new == [b EXCEPT !.buf = p, !.size = size]
  <1>1. CASE units = <<>>
    <2>1. r.heap = heap /\ r.b = b
      BY <1>1 DEF ExtendULBuf
    <2> HIDE DEF r
    <2>2. Extended(heap, b, units, r)
      BY <1>1, <2>1 DEF Extended
    <2> QED
      BY <2>2 DEF r
  <1>2. CASE units # <<>>
    <2>1. r.heap = grown /\ r.b = new
      BY <1>2 DEF ExtendULBuf, Kept
    <2>2. b \in BufSet /\ b.size \in Nat /\ b.buf \in Nat /\ b.id \in Nat
      BY KeptOf DEF IsBuffer
    <2>3. Kept(heap, b) \in Seq(UnitSet) /\ Len(Kept(heap, b)) = b.size
      BY KeptOf
    <2>4. content \in Seq(UnitSet) /\ Len(content) = b.size + Len(units) /\ Len(units) \in Nat
      BY <2>2, <2>3
    <2>5. p \in Block /\ (p = b.buf \/ (b.buf = Null /\ p \notin DOMAIN heap))
      BY <2>2, FreshIsFree DEF IsHeap, Block, Null
    <2>6. size \in Nat /\ size <= Len(content)
      <3>1. b.size + Len(units) \in Nat
        BY <2>2, <2>4
      <3> QED
        BY <2>4, <3>1, Modulo
    <2> HIDE DEF p, content, size, r
    <2>7. new \in BufSet /\ new.id = b.id /\ new.buf = p /\ new.size = size
      BY <2>2, <2>5, <2>6 DEF BufSet, Block
    <2> HIDE DEF new
    <2>8. /\ IsHeap(grown) /\ DOMAIN grown = DOMAIN heap \cup {p}
          /\ \A a \in DOMAIN heap \ {p} : grown[a] = heap[a]
      BY <2>4, <2>5, WithBlockHeap
    <2>9. grown[p] = content
      BY DEF WithBlock
    <2> HIDE DEF grown
    <2>10. p # Null
      BY <2>5 DEF Block, Null
    <2>11. IsBuffer(grown, new)
      BY <2>4, <2>6, <2>7, <2>8, <2>9, <2>10 DEF IsBuffer
    <2>12. Extended(heap, b, units, r)
      BY <1>2, <2>1, <2>5, <2>7, <2>8, <2>9, <2>10, <2>11 DEF Extended, content, size
    <2> QED
      BY <2>12 DEF r
  <1> QED
    BY <1>1, <1>2

-----------------------------------------------------------------------------
\* The sequences that are joined may be joined in any order.
LEMMA Associate ==
  ASSUME NEW S, NEW x \in Seq(S), NEW y \in Seq(S), NEW z \in Seq(S)
  PROVE  (x \o y) \o z = x \o (y \o z)
  OBVIOUS

\* The elements of two sequences that are joined.
LEMMA Joined ==
  ASSUME NEW S, NEW x \in Seq(S), NEW y \in Seq(S)
  PROVE  /\ x \o y \in Seq(S) /\ Len(x) \in Nat /\ Len(y) \in Nat
         /\ Len(x \o y) = Len(x) + Len(y)
         /\ \A i \in 1 .. Len(x) : (x \o y)[i] = x[i]
         /\ \A i \in 1 .. Len(y) : (x \o y)[Len(x) + i] = y[i]
         /\ \A i \in 1 .. Len(x) + Len(y) :
              i \in 1 .. Len(x) \/ \E j \in 1 .. Len(y) : i = Len(x) + j
  <1>1. Len(x) \in Nat /\ Len(y) \in Nat
    OBVIOUS
  <1>2. ASSUME NEW i \in 1 .. Len(x) + Len(y), i \notin 1 .. Len(x)
        PROVE  \E j \in 1 .. Len(y) : i = Len(x) + j
    <2>1. i - Len(x) \in 1 .. Len(y) /\ i = Len(x) + (i - Len(x))
      BY <1>1, <1>2
    <2> QED
      BY <2>1
  <1> QED
    BY <1>1, <1>2

\* The units of a turn stay in order when the next ones follow them.
LEMMA OrderedFollow ==
  ASSUME NEW c \in Conn, NEW s \in SentSet, NEW x \in Seq(UnitSet), Ordered(x, c, s),
         NEW load \in Payload, NEW t \in SentSet, t.turn = s.turn, t.units = s.units + Len(load),
         NEW n \in 0 .. Len(x) + Len(load)
  PROVE  Ordered(SubSeq(x \o Units(c, s.turn, s.units, load), 1, n), c, t)
  <1> DEFINE y == Units(c, s.turn, s.units, load)
             z == x \o y
             w == SubSeq(z, 1, n)
  <1>1. s.turn \in Nat /\ s.units \in Nat
    BY DEF SentSet
  <1>2. y \in Seq(UnitSet) /\ Len(y) = Len(load) /\ Len(load) \in Nat
        /\ \A i \in 1 .. Len(load) : y[i].conn = c /\ y[i].turn = s.turn /\ y[i].n = s.units + i
    <2>1. y \in Seq(UnitSet) /\ Len(y) = Len(load) /\ Len(load) \in Nat
      BY <1>1, UnitsOf
    <2>2. \A i \in 1 .. Len(load) : y[i].conn = c /\ y[i].turn = s.turn /\ y[i].n = s.units + i
      <3>1. DOMAIN load = 1 .. Len(load)
        BY SnifferAssumption
      <3> QED
        BY <3>1 DEF Units
    <2> QED
      BY <2>1, <2>2
  <1> HIDE DEF y
  <1>3. /\ z \in Seq(UnitSet) /\ Len(x) \in Nat /\ Len(z) = Len(x) + Len(load)
        /\ \A i \in 1 .. Len(x) : z[i] = x[i]
        /\ \A i \in 1 .. Len(load) : z[Len(x) + i] = y[i]
        /\ \A i \in 1 .. Len(x) + Len(load) :
              i \in 1 .. Len(x) \/ \E j \in 1 .. Len(load) : i = Len(x) + j
    <2>1. y \in Seq(UnitSet)
      BY <1>2
    <2> HIDE DEF w
    <2>2. z \in Seq(UnitSet) /\ Len(x) \in Nat /\ Len(z) = Len(x) + Len(y)
      BY <2>1, Joined
    <2>3. \A i \in 1 .. Len(x) : z[i] = x[i]
      BY <2>1, Joined
    <2>4. \A i \in 1 .. Len(y) : z[Len(x) + i] = y[i]
      BY <2>1, Joined
    <2>5. \A i \in 1 .. Len(x) + Len(y) :
             i \in 1 .. Len(x) \/ \E j \in 1 .. Len(y) : i = Len(x) + j
      BY <2>1, Joined
    <2> HIDE DEF z
    <2> QED
      BY <1>2, <2>2, <2>3, <2>4, <2>5
  <1> HIDE DEF z
  <1>4. DOMAIN w = 1 .. n /\ \A i \in 1 .. n : w[i] = z[i]
    BY <1>3
  <1> HIDE DEF w
  <1>5. \A i \in 1 .. Len(x) : x[i].conn = c /\ x[i].turn = s.turn /\ x[i].n <= s.units
                               /\ x[i].n \in Nat
    <2> TAKE i \in 1 .. Len(x)
    <2>1. x[i] \in UnitSet /\ i \in DOMAIN x
      BY ElementOfSeq
    <2> QED
      BY <2>1 DEF Ordered, UnitSet
  <1>6. \A i, j \in 1 .. Len(x) : i < j => x[i].n < x[j].n
    BY DEF Ordered
  <1>7. ASSUME NEW i \in 1 .. n
        PROVE  w[i].conn = c /\ w[i].turn = t.turn /\ w[i].n <= t.units
    <2>1. i \in 1 .. Len(x) + Len(load)
      BY <1>2, <1>3
    <2>2. CASE i \in 1 .. Len(x)
      BY <1>1, <1>2, <1>3, <1>4, <1>5, <2>2, SMTT(30)
    <2>3. ASSUME NEW k \in 1 .. Len(load), i = Len(x) + k
          PROVE  w[i].conn = c /\ w[i].turn = t.turn /\ w[i].n <= t.units
      <3>1. w[i] = y[k]
        BY <1>3, <1>4, <2>3
      <3> QED
        BY <1>1, <1>2, <3>1
    <2> QED
      BY <1>3, <2>1, <2>2, <2>3
  <1>8. ASSUME NEW i \in 1 .. n, NEW j \in 1 .. n, i < j
        PROVE  w[i].n < w[j].n
    <2>1. i \in 1 .. Len(x) + Len(load) /\ j \in 1 .. Len(x) + Len(load)
      BY <1>2, <1>3
    <2>2. CASE j \in 1 .. Len(x)
      <3>1. i \in 1 .. Len(x)
        BY <1>3, <1>8, <2>2
      <3> QED
        BY <1>3, <1>4, <1>6, <1>8, <2>2, <3>1
    <2>3. ASSUME NEW k \in 1 .. Len(load), j = Len(x) + k
          PROVE  w[i].n < w[j].n
      <3>1. w[j].n = s.units + k
        BY <1>2, <1>3, <1>4, <2>3
      <3>2. CASE i \in 1 .. Len(x)
        <4>1. w[i].n <= s.units /\ w[i].n \in Nat
          BY <1>3, <1>4, <1>5, <3>2
        <4> QED
          BY <1>1, <1>2, <3>1, <4>1
      <3>3. ASSUME NEW l \in 1 .. Len(load), i = Len(x) + l
            PROVE  w[i].n < w[j].n
        <4>1. w[i].n = s.units + l
          BY <1>2, <1>3, <1>4, <3>3
        <4>2. l < k
          BY <1>2, <1>3, <1>8, <2>3, <3>3
        <4> QED
          BY <1>1, <1>2, <3>1, <4>1, <4>2
      <3> QED
        BY <1>3, <2>1, <3>2, <3>3
    <2> QED
      BY <1>3, <2>1, <2>2, <2>3
  <1>9. Ordered(w, c, t)
    BY <1>4, <1>7, <1>8 DEF Ordered
  <1> QED
    BY <1>9 DEF w, z, y

\* What a connection's record becomes when the units of a packet are stored
\* after `size` others.
Stored(s, size, load) ==
    [s EXCEPT !.units = @ + Len(load), !.wrapped = @ \/ size + Len(load) >= Wrap]

\* The record is of its type, and has wrapped only if the size has.
LEMMA StoredRecord ==
  ASSUME NEW s \in SentSet, NEW size \in Nat, NEW load \in Payload
  PROVE  LET t == Stored(s, size, load)
         IN /\ t \in SentSet /\ t.turn = s.turn /\ t.side = s.side
            /\ t.units = s.units + Len(load)
            /\ ~t.wrapped => ~s.wrapped /\ size + Len(load) < Wrap
  <1>1. Len(load) \in Nat /\ Wrap \in Nat
    BY SnifferAssumption
  <1>2. s.units \in Nat /\ s.wrapped \in BOOLEAN /\ s.turn \in Nat /\ s.side \in Side
    BY DEF SentSet
  <1> DEFINE n == s.units + Len(load)
             w == s.wrapped \/ size + Len(load) >= Wrap
             t == [s EXCEPT !.units = n, !.wrapped = w]
  <1>3. Stored(s, size, load) = t
    BY DEF Stored
  <1>4. n \in Nat /\ w \in BOOLEAN
    BY <1>1, <1>2
  <1>5. ~w => ~s.wrapped /\ size + Len(load) < Wrap
    BY <1>1
  <1>6. n = s.units + Len(load)
    OBVIOUS
  <1> HIDE DEF n, w
  <1>7. t \in SentSet /\ t.turn = s.turn /\ t.side = s.side /\ t.units = n /\ t.wrapped = w
    BY <1>4 DEF SentSet
  <1> HIDE DEF t
  <1> QED
    BY <1>3, <1>5, <1>6, <1>7

\* The numbers of a payload's units follow those there were.
LEMMA NextPositions ==
  ASSUME NEW c \in Conn, NEW turn \in Nat, NEW n \in Nat, NEW load \in Payload
  PROVE  Numbers(n) \o Positions(Units(c, turn, n, load)) = Numbers(n + Len(load))
  <1> DEFINE u == Units(c, turn, n, load)
             p == Positions(u)
             a == [i \in 1 .. n |-> i]
  <1>1. u \in Seq(UnitSet) /\ Len(u) = Len(load) /\ Len(load) \in Nat
    BY UnitsOf
  <1>2. \A i \in 1 .. Len(load) : u[i].n = n + i
    <2>1. DOMAIN load = 1 .. Len(load)
      BY SnifferAssumption
    <2> QED
      BY <2>1 DEF Units
  <1> HIDE DEF u
  <1>3. p \in Seq(Nat) /\ Len(p) = Len(load) /\ \A i \in 1 .. Len(load) : p[i] = n + i
    BY <1>1, <1>2, PositionsOf
  <1> HIDE DEF p
  <1>4. a \in Seq(Nat) /\ Len(a) = n /\ \A i \in 1 .. n : a[i] = i
    OBVIOUS
  <1> HIDE DEF a
  <1>5. /\ a \o p \in Seq(Nat) /\ Len(a \o p) = n + Len(load)
        /\ \A i \in 1 .. n : (a \o p)[i] = i
    BY <1>1, <1>3, <1>4
  <1>6. ASSUME NEW i \in 1 .. n + Len(load) PROVE (a \o p)[i] = i
    <2>1. CASE i \in 1 .. n
      BY <1>5, <2>1
    <2>2. CASE i \notin 1 .. n
      <3>1. i - n \in 1 .. Len(load)
        BY <1>1, <2>2
      <3>2. (a \o p)[i] = p[i - n]
        BY <1>1, <1>3, <1>4, <2>2
      <3>3. p[i - n] = n + (i - n)
        BY <1>3, <3>1
      <3> QED
        BY <3>2, <3>3
    <2> QED
      BY <2>1, <2>2
  <1>7. a \o p = [i \in 1 .. n + Len(load) |-> i]
    <2> DEFINE b == [i \in 1 .. n + Len(load) |-> i]
    <2>1. n + Len(load) \in Nat
      BY <1>1
    <2>2. b \in Seq(Nat) /\ Len(b) = n + Len(load) /\ \A i \in 1 .. n + Len(load) : b[i] = i
      BY <2>1
    <2> HIDE DEF b
    <2>3. a \o p = b
      BY <1>5, <1>6, <2>2, SeqEqual
    <2> QED
      BY <2>3 DEF b
  <1> QED
    BY <1>7 DEF a, p, u, Numbers

\* The numbers of joined units are the joined numbers.
LEMMA PositionsJoined ==
  ASSUME NEW x \in Seq(UnitSet), NEW y \in Seq(UnitSet)
  PROVE  Positions(x \o y) = Positions(x) \o Positions(y)
  <1>1. Len(x) \in Nat /\ Len(y) \in Nat /\ x \o y \in Seq(UnitSet)
        /\ Len(x \o y) = Len(x) + Len(y)
    OBVIOUS
  <1> DEFINE p == Positions(x)
             q == Positions(y)
             r == Positions(x \o y)
  <1>2. p \in Seq(Nat) /\ Len(p) = Len(x) /\ \A i \in 1 .. Len(x) : p[i] = x[i].n
    BY PositionsOf
  <1>3. q \in Seq(Nat) /\ Len(q) = Len(y) /\ \A i \in 1 .. Len(y) : q[i] = y[i].n
    BY PositionsOf
  <1>4. r \in Seq(Nat) /\ Len(r) = Len(x) + Len(y)
        /\ \A i \in 1 .. Len(x) + Len(y) : r[i] = (x \o y)[i].n
    BY <1>1, PositionsOf
  <1> HIDE DEF p, q, r
  <1>5. p \o q \in Seq(Nat) /\ Len(p \o q) = Len(x) + Len(y)
    BY <1>1, <1>2, <1>3
  <1>6. ASSUME NEW i \in 1 .. Len(x) + Len(y) PROVE r[i] = (p \o q)[i]
    <2>1. CASE i \in 1 .. Len(x)
      <3>1. (x \o y)[i] = x[i]
        BY <1>1, <2>1
      <3>2. (p \o q)[i] = p[i]
        BY <1>1, <1>2, <1>3, <2>1
      <3> QED
        BY <1>2, <1>4, <2>1, <3>1, <3>2
    <2>2. CASE i \notin 1 .. Len(x)
      <3>1. i - Len(x) \in 1 .. Len(y)
        BY <1>1, <2>2
      <3>2. (x \o y)[i] = y[i - Len(x)]
        BY <1>1, <2>2
      <3>3. (p \o q)[i] = q[i - Len(x)]
        BY <1>1, <1>2, <1>3, <2>2
      <3> QED
        BY <1>3, <1>4, <3>1, <3>2, <3>3
    <2> QED
      BY <2>1, <2>2
  <1>7. r = p \o q
    BY <1>4, <1>5, <1>6, SeqEqual
  <1> QED
    BY <1>7 DEF p, q, r

-----------------------------------------------------------------------------
\* What happens to one buffer: it is extended, ...
LEMMA BufferIsExtended ==
  ASSUME NEW heap, IsHeap(heap), NEW c \in Conn, NEW s \in SentSet, NEW h \in Seq(Nat),
         NEW b, BufferOK(heap, b, c, s, h), NEW load \in Payload, NEW r,
         Extended(heap, b, Units(c, s.turn, s.units, load), r)
  PROVE  BufferOK(r.heap, r.b, c, Stored(s, b.size, load), h)
  <1> DEFINE y == Units(c, s.turn, s.units, load)
             t == Stored(s, b.size, load)
             x == Kept(heap, b)
             w == Kept(r.heap, r.b)
  <1>1. s.turn \in Nat /\ s.units \in Nat
    BY DEF SentSet
  <1>2. IsBuffer(heap, b) /\ Ordered(x, c, s)
        /\ (~s.wrapped => h \o Positions(x) = Numbers(s.units))
    BY DEF BufferOK
  <1>3. x \in Seq(UnitSet) /\ Len(x) = b.size /\ b.size \in Nat
    BY <1>2, KeptOf
  <1>4. t \in SentSet /\ t.turn = s.turn /\ t.units = s.units + Len(load)
        /\ (~t.wrapped => ~s.wrapped /\ b.size + Len(load) < Wrap)
    BY <1>3, StoredRecord
  <1>5. y \in Seq(UnitSet) /\ Len(y) = Len(load) /\ Len(load) \in Nat
        /\ (load = <<>> <=> Len(load) = 0) /\ (load = <<>> <=> y = <<>>)
    <2> HIDE DEF t, x, w, y
    <2>1. y = Units(c, s.turn, s.units, load)
      BY DEF y
    <2>2. y \in Seq(UnitSet) /\ Len(y) = Len(load) /\ Len(load) \in Nat
      BY <1>1, <2>1, UnitsOf
    <2>3. load = <<>> <=> Len(load) = 0
      BY <1>1, UnitsOf
    <2>4. y = <<>> <=> Len(y) = 0
      BY <2>2
    <2> QED
      BY <2>2, <2>3, <2>4
  <1>6. IsHeap(r.heap) /\ IsBuffer(r.heap, r.b)
    BY DEF Extended
  <1>7. \E n \in 0 .. Len(x) + Len(load) :
          /\ w = SubSeq(x \o y, 1, n)
          /\ b.size + Len(load) < Wrap => n = Len(x) + Len(load)
    <2>1. CASE load = <<>>
      <3>1. w = x /\ y = <<>> /\ Len(load) = 0
        BY <1>5, <2>1 DEF Extended
      <3>2. x = SubSeq(x \o <<>>, 1, Len(x))
        BY <1>3
      <3> HIDE DEF w, x, y
      <3>3. w = SubSeq(x \o y, 1, Len(x)) /\ Len(x) \in 0 .. Len(x) + Len(load)
            /\ Len(x) = Len(x) + Len(load)
        BY <1>3, <3>1, <3>2
      <3> QED
        BY <3>3
    <2>2. CASE load # <<>>
      <3>1. r.b.buf # Null /\ r.heap[r.b.buf] = x \o y /\ r.b.size = (b.size + Len(load)) % Wrap
        BY <1>5, <2>2 DEF Extended
      <3>2. w = SubSeq(x \o y, 1, r.b.size)
        BY <3>1 DEF Kept, Effective
      <3>3. /\ r.b.size \in 0 .. Len(x) + Len(load)
            /\ b.size + Len(load) < Wrap => r.b.size = Len(x) + Len(load)
        <4> DEFINE m == b.size + Len(load)
        <4>1. m \in Nat /\ Len(x) + Len(load) = m
          BY <1>3, <1>5
        <4>2. r.b.size = m % Wrap
          BY <3>1
        <4> HIDE DEF m, x, y, w, t
        <4>3. m % Wrap \in Nat /\ m % Wrap <= m /\ (m < Wrap => m % Wrap = m)
          BY <4>1, Modulo
        <4>4. r.b.size \in 0 .. m /\ (m < Wrap => r.b.size = m)
          BY <4>1, <4>2, <4>3
        <4> QED
          BY <4>1, <4>4 DEF m
      <3> QED
        BY <3>2, <3>3
    <2> QED
      BY <2>1, <2>2
  <1>8. PICK n \in 0 .. Len(x) + Len(load) :
          /\ w = SubSeq(x \o y, 1, n)
          /\ b.size + Len(load) < Wrap => n = Len(x) + Len(load)
    BY <1>7
  <1>9. Ordered(SubSeq(x \o y, 1, n), c, t)
    <2> HIDE DEF x, t, w
    <2> QED
      BY <1>2, <1>3, <1>4, OrderedFollow
  <1>10. ASSUME ~t.wrapped
         PROVE  h \o Positions(w) = Numbers(t.units)
    <2>1. ~s.wrapped /\ n = Len(x) + Len(load)
      BY <1>4, <1>8, <1>10
    <2> DEFINE p == Positions(x)
               q == Positions(y)
    <2>2. p \in Seq(Nat) /\ q \in Seq(Nat)
      BY <1>3, <1>5, PositionsOf
    <2>3. Positions(x \o y) = p \o q
      BY <1>3, <1>5, PositionsJoined
    <2>4. Numbers(s.units) \o q = Numbers(t.units)
      <3>1. Numbers(s.units) \o q = Numbers(s.units + Len(load))
        BY <1>1, NextPositions
      <3> HIDE DEF q
      <3> QED
        BY <1>4, <3>1
    <2>5. h \o p = Numbers(s.units)
      BY <1>2, <2>1
    <2> HIDE DEF p, q
    <2>6. (h \o p) \o q = h \o (p \o q)
      BY <2>2, Associate, SMTT(30)
    <2> HIDE DEF x, y
    <2>7. SubSeq(x \o y, 1, n) = x \o y
      <3>1. x \o y \in Seq(UnitSet) /\ Len(x \o y) = Len(x) + Len(y)
        BY <1>3, <1>5, Joined
      <3>2. Len(x \o y) = n
        BY <1>5, <2>1, <3>1
      <3> QED
        BY <3>1, <3>2
    <2> HIDE DEF w, t
    <2> QED
      BY <1>8, <2>3, <2>4, <2>5, <2>6, <2>7
  <1> QED
    BY <1>6, <1>8, <1>9, <1>10 DEF BufferOK

\* ... or emptied, when all of it is handed to goQuick, ...
LEMMA BufferIsHanded ==
  ASSUME NEW heap, IsHeap(heap), NEW c \in Conn, NEW s \in SentSet, NEW h \in Seq(Nat),
         NEW b, BufferOK(heap, b, c, s, h), NEW t \in SentSet,
         t.units = s.units, t.wrapped = s.wrapped, NEW other
  PROVE  BufferOK(other, [b EXCEPT !.buf = Null, !.size = 0], c, t,
                  h \o Positions(Kept(heap, b)))
  <1> DEFINE left == [b EXCEPT !.buf = Null, !.size = 0]
             p == Positions(Kept(heap, b))
  <1>1. b \in BufSet /\ IsBuffer(heap, b)
    BY DEF BufferOK, IsBuffer
  <1>2. left \in BufSet /\ left.buf = Null /\ left.size = 0
    BY <1>1 DEF BufSet, Null
  <1> HIDE DEF left
  <1>3. Kept(other, left) = <<>>
    BY <1>2 DEF Kept, Effective
  <1>4. Ordered(<<>>, c, t)
    BY DEF Ordered
  <1>5. p \in Seq(Nat)
    BY <1>1, KeptOf, PositionsOf
  <1>6. ~s.wrapped => h \o p = Numbers(s.units)
    BY DEF BufferOK
  <1> HIDE DEF p
  <1>7. (h \o p) \o <<>> = h \o p
    BY <1>5
  <1>8. BufferOK(other, left, c, t, h \o p)
    BY <1>2, <1>3, <1>4, <1>6, <1>7, NoPositions DEF BufferOK, IsBuffer
  <1> QED
    BY <1>8 DEF left, p

\* ... or a turn begins while it is empty, ...
LEMMA BufferIsEmpty ==
  ASSUME NEW heap, IsHeap(heap), NEW c \in Conn, NEW s \in SentSet, NEW h \in Seq(Nat),
         NEW b, BufferOK(heap, b, c, s, h), b.size = 0,
         NEW t \in SentSet, t.units = s.units, t.wrapped = s.wrapped
  PROVE  BufferOK(heap, b, c, t, h)
  <1>1. Kept(heap, b) = <<>>
    <2>1. IsBuffer(heap, b)
      BY DEF BufferOK
    <2>2. Kept(heap, b) \in Seq(UnitSet) /\ Len(Kept(heap, b)) = 0
      BY <2>1, KeptOf
    <2> QED
      BY <2>2, EmptySeq
  <1>2. Ordered(<<>>, c, t)
    BY DEF Ordered
  <1> QED
    BY <1>1, <1>2 DEF BufferOK

\* ... or other blocks change.
LEMMA BufferElsewhere ==
  ASSUME NEW heap, NEW c, NEW s, NEW h, NEW b, BufferOK(heap, b, c, s, h), NEW other,
         b.buf # Null => b.buf \in DOMAIN other /\ other[b.buf] = heap[b.buf]
  PROVE  BufferOK(other, b, c, s, h)
  <1>1. Kept(other, b) = Kept(heap, b)
    BY DEF Kept, Effective
  <1> QED
    BY <1>1 DEF BufferOK, IsBuffer

-----------------------------------------------------------------------------
\* The owners of the blocks: getULBuffer makes no difference to them, ...
LEMMA OwnersFound ==
  ASSUME NEW heap, NEW data, NEW ks, NEW list, OneOwner(heap, data, ks, list),
         NEW id, NEW es, NEW u, BufsFound(list, id, es, u)
  PROVE  OneOwner(heap, data, ks, u.list)
  <1>1. CASE u.list = list
    BY <1>1
  <1>2. CASE u.list # list
    <2>1. /\ u.at \in DOMAIN u.list /\ u.list[u.at].buf = Null
          /\ \A i \in DOMAIN u.list : i # u.at => i \in DOMAIN list /\ u.list[i] = list[i]
          /\ \A i \in DOMAIN list : i # u.at => i \in DOMAIN u.list
          /\ u.at \in DOMAIN list => list[u.at].buf = Null
      BY <1>2 DEF BufsFound, BlankBuf
    <2>2. \A i \in DOMAIN u.list : u.list[i].buf # Null =>
            i \in DOMAIN list /\ u.list[i] = list[i]
      BY <2>1
    <2>3. \A i \in DOMAIN list : list[i].buf # Null =>
            i \in DOMAIN u.list /\ u.list[i] = list[i]
      BY <2>1
    <2>4. \A i, j \in DOMAIN u.list :
            u.list[i].buf # Null /\ u.list[i].buf = u.list[j].buf => i = j
      BY <2>2 DEF OneOwner
    <2>5. \A b \in DOMAIN heap : (\E i \in DOMAIN list : list[i].buf = b /\ b # Null)
                                 => \E i \in DOMAIN u.list : u.list[i].buf = b
      BY <2>3
    <2>6. ASSUME NEW b \in DOMAIN heap
          PROVE  b = data \/ (\E k \in DOMAIN ks : ks[k] = b)
                 \/ (\E i \in DOMAIN u.list : u.list[i].buf = b)
      <3>1. CASE b = Null
        <4>1. u.list[u.at].buf = b
          BY <2>1, <3>1
        <4> QED
          BY <2>1, <4>1
      <3>2. CASE b # Null
        BY <2>5, <3>2 DEF OneOwner
      <3> QED
        BY <3>1, <3>2
    <2>7. ASSUME NEW i \in DOMAIN u.list, u.list[i].buf # Null
          PROVE  u.list[i].buf \in DOMAIN heap /\ \A k \in DOMAIN ks : ks[k] # u.list[i].buf
      BY <2>2, <2>7 DEF OneOwner
    <2>8. ASSUME data # Null
          PROVE  data \in DOMAIN heap /\ (\A k \in DOMAIN ks : ks[k] # data)
                 /\ \A i \in DOMAIN u.list : u.list[i].buf # data
      BY <2>2, <2>8 DEF OneOwner
    <2>9. /\ \A i \in DOMAIN ks : ks[i] \in DOMAIN heap
          /\ \A i, j \in DOMAIN ks : ks[i] = ks[j] => i = j
      BY DEF OneOwner
    <2> QED
      BY <2>4, <2>6, <2>7, <2>8, <2>9 DEF OneOwner
  <1> QED
    BY <1>1, <1>2

\* ... goQuick takes over the block of the buffer that is handed to it, ...
LEMMA OwnersAbsorbed ==
  ASSUME NEW m, IsMemory(m), NEW ks, NEW list, OneOwner(m.heap, m.qh.data, ks, list),
         NEW at \in DOMAIN list, list[at].buf # Null,
         NEW r, Absorbed(m, list[at].buf, r),
         NEW other, DOMAIN other = DOMAIN list, other[at].buf = Null,
         \A i \in DOMAIN list : i # at => other[i] = list[i]
  PROVE  OneOwner(r.heap, r.qh.data, ks, other)
  <1> DEFINE p == list[at].buf
             d == m.qh.data
             e == r.qh.data
  <1>1. /\ e \in {Null, p, d}
        /\ DOMAIN r.heap = (DOMAIN m.heap \ {p, d}) \cup ({e} \ {Null})
    BY DEF Absorbed
  <1>2. Null \notin DOMAIN m.heap
    BY DEF IsMemory, IsHeap, Block, Null
  <1>3. p \in DOMAIN m.heap /\ (\A k \in DOMAIN ks : ks[k] # p)
        /\ \A i \in DOMAIN list : list[i].buf = p => i = at
    BY DEF OneOwner
  <1>4. d # Null => /\ d \in DOMAIN m.heap /\ (\A k \in DOMAIN ks : ks[k] # d)
                    /\ \A i \in DOMAIN list : list[i].buf # d
    BY DEF OneOwner
  <1>5. /\ \A i \in DOMAIN ks : ks[i] \in DOMAIN m.heap
        /\ \A i, j \in DOMAIN ks : ks[i] = ks[j] => i = j
    BY DEF OneOwner
  <1> HIDE DEF d, e
  <1>6. ASSUME NEW i \in DOMAIN ks PROVE ks[i] \in DOMAIN r.heap
    BY <1>1, <1>2, <1>3, <1>4, <1>5
  <1>7. ASSUME NEW i \in DOMAIN other, other[i].buf # Null
        PROVE  /\ i # at /\ other[i] = list[i] /\ list[i].buf # p /\ list[i].buf # d
    BY <1>3, <1>4, <1>7
  <1>8. ASSUME NEW i \in DOMAIN other, other[i].buf # Null
        PROVE  /\ other[i].buf \in DOMAIN r.heap
               /\ \A k \in DOMAIN ks : ks[k] # other[i].buf
               /\ \A j \in DOMAIN other : other[i].buf = other[j].buf => i = j
    <2>1. list[i].buf \in DOMAIN m.heap /\ (\A k \in DOMAIN ks : ks[k] # list[i].buf)
          /\ \A j \in DOMAIN list : list[i].buf = list[j].buf => i = j
      BY <1>7, <1>8 DEF OneOwner
    <2> QED
      BY <1>1, <1>7, <1>8, <2>1
  <1>9. ASSUME e # Null
        PROVE  e \in DOMAIN r.heap /\ (\A k \in DOMAIN ks : ks[k] # e)
               /\ \A i \in DOMAIN other : other[i].buf # e
    BY <1>1, <1>3, <1>4, <1>7, <1>9
  <1>10. ASSUME NEW b \in DOMAIN r.heap
         PROVE  \/ b = e
                \/ \E k \in DOMAIN ks : ks[k] = b
                \/ \E i \in DOMAIN other : other[i].buf = b
    <2>1. CASE b = e
      BY <2>1
    <2>2. CASE b # e
      <3>1. b \in DOMAIN m.heap /\ b # p /\ b # d
        BY <1>1, <2>2
      <3>2. (\E k \in DOMAIN ks : ks[k] = b) \/ (\E i \in DOMAIN list : list[i].buf = b)
        BY <3>1 DEF OneOwner, d
      <3>3. ASSUME NEW i \in DOMAIN list, list[i].buf = b PROVE other[i].buf = b
        BY <3>1, <3>3
      <3> QED
        BY <3>2, <3>3
    <2> QED
      BY <2>1, <2>2
  <1> QED
    BY <1>5, <1>6, <1>8, <1>9, <1>10 DEF OneOwner, e

\* ... and a buffer that is extended owns the block it is extended in.
LEMMA OwnersExtended ==
  ASSUME NEW heap, IsHeap(heap), NEW data, NEW ks, NEW list, OneOwner(heap, data, ks, list),
         NEW at \in DOMAIN list, NEW units, NEW r, Extended(heap, list[at], units, r),
         NEW other, DOMAIN other = DOMAIN list, other[at].buf = r.b.buf,
         \A i \in DOMAIN list : i # at => other[i] = list[i]
  PROVE  OneOwner(r.heap, data, ks, other)
  <1> DEFINE p == r.b.buf
  <1>1. /\ DOMAIN heap \subseteq DOMAIN r.heap
        /\ DOMAIN r.heap \subseteq DOMAIN heap \cup {p}
        /\ p # Null => p \in DOMAIN r.heap
        /\ p = list[at].buf \/ (list[at].buf = Null /\ p \notin DOMAIN heap)
    <2>1. CASE units = <<>>
      <3>1. r.heap = heap /\ p = list[at].buf
        BY <2>1 DEF Extended
      <3>2. p # Null => p \in DOMAIN heap
        BY <3>1 DEF OneOwner
      <3> QED
        BY <3>1, <3>2
    <2>2. CASE units # <<>>
      BY <2>2 DEF Extended
    <2> QED
      BY <2>1, <2>2
  <1> HIDE DEF p
  <1>2. Null \notin DOMAIN heap
    BY DEF IsHeap, Block, Null
  <1>3. /\ \A i \in DOMAIN ks : ks[i] \in DOMAIN heap
        /\ \A i, j \in DOMAIN ks : ks[i] = ks[j] => i = j
    BY DEF OneOwner
  <1>4. other[at].buf = p
    BY DEF p
  <1>5. \A i \in DOMAIN list : i # at /\ list[i].buf # Null => list[i].buf # p
    <2>1. CASE list[at].buf = Null
      BY <1>1, <1>2, <2>1 DEF OneOwner
    <2>2. CASE list[at].buf # Null
      BY <1>1, <2>2 DEF OneOwner
    <2> QED
      BY <2>1, <2>2
  <1>6. \A k \in DOMAIN ks : ks[k] = p => p = Null
    <2>1. CASE list[at].buf = Null
      BY <1>1, <1>3, <2>1
    <2>2. CASE list[at].buf # Null
      BY <1>1, <2>2 DEF OneOwner
    <2> QED
      BY <2>1, <2>2
  <1>7. ASSUME NEW i \in DOMAIN other, other[i].buf # Null
        PROVE  /\ other[i].buf \in DOMAIN r.heap
               /\ \A k \in DOMAIN ks : ks[k] # other[i].buf
               /\ \A j \in DOMAIN other : other[i].buf = other[j].buf => i = j
    <2>1. CASE i = at
      BY <1>1, <1>4, <1>5, <1>6, <1>7, <2>1
    <2>2. CASE i # at
      <3>1. other[i].buf = list[i].buf /\ list[i].buf # p
        BY <1>5, <1>7, <2>2
      <3>2. /\ list[i].buf \in DOMAIN heap
            /\ \A k \in DOMAIN ks : ks[k] # list[i].buf
            /\ \A j \in DOMAIN list : list[i].buf = list[j].buf => i = j
        BY <1>7, <3>1 DEF OneOwner
      <3> QED
        BY <1>1, <1>4, <3>1, <3>2
    <2> QED
      BY <2>1, <2>2
  <1>8. ASSUME data # Null
        PROVE  data \in DOMAIN r.heap /\ (\A k \in DOMAIN ks : ks[k] # data)
               /\ \A i \in DOMAIN other : other[i].buf # data
    <2>1. data \in DOMAIN heap /\ (\A k \in DOMAIN ks : ks[k] # data)
          /\ \A i \in DOMAIN list : list[i].buf # data
      BY <1>8 DEF OneOwner
    <2>2. p # data
      BY <1>1, <2>1
    <2> QED
      BY <1>1, <1>4, <2>1, <2>2
  <1>9. ASSUME NEW b \in DOMAIN r.heap
        PROVE  b = data \/ (\E k \in DOMAIN ks : ks[k] = b)
               \/ (\E i \in DOMAIN other : other[i].buf = b)
    <2>1. CASE b = p
      BY <1>4, <2>1
    <2>2. CASE b # p
      <3>1. b \in DOMAIN heap /\ b # list[at].buf
        BY <1>1, <1>2, <2>2
      <3>2. b = data \/ (\E k \in DOMAIN ks : ks[k] = b) \/ (\E i \in DOMAIN list : list[i].buf = b)
        BY <3>1 DEF OneOwner
      <3>3. ASSUME NEW i \in DOMAIN list, list[i].buf = b PROVE other[i].buf = b
        BY <3>1, <3>3
      <3> QED
        BY <3>2, <3>3
    <2> QED
      BY <2>1, <2>2
  <1>10. \A i \in DOMAIN ks : ks[i] \in DOMAIN r.heap
    BY <1>1, <1>3
  <1> QED
    BY <1>3, <1>7, <1>8, <1>9, <1>10 DEF OneOwner

-----------------------------------------------------------------------------
\* The blank list has no real endpoints.
LEMMA BlankIsNotReal == ~RealEnds(<<BlankEnds>>)
  <1>1. DOMAIN <<BlankEnds>> = {1} /\ <<BlankEnds>>[1].src = Nobody
    BY DEF BlankEnds
  <1>2. Nobody \notin Conn \X Side
    BY DEF Nobody
  <1> QED
    BY <1>1, <1>2 DEF RealEnds

\* What the buffers but the one at `at`, of connection c, have to agree with.
OthersAgree(heap, bs, es, st, h, at, c) ==
    /\ \A i \in DOMAIN bs : i # at =>
          LET d == ConnOf(es[bs[i].id])
          IN d \in Conn /\ d # c /\ BufferOK(heap, bs[i], d, st[d], h[d])
    /\ \A d \in Conn : d # c /\ (\A i \in DOMAIN bs : i # at => ConnOf(es[bs[i].id]) # d)
          => st[d].units = 0 /\ h[d] = <<>>

\* With the one at `at` all buffers agree.
LEMMA AllAgree ==
  ASSUME NEW heap, NEW bs, NEW es, NEW st, NEW h, NEW at \in DOMAIN bs, NEW c \in Conn,
         RealBufs(bs, es), DOMAIN es \subseteq Block,
         OthersAgree(heap, bs, es, st, h, at, c),
         ConnOf(es[bs[at].id]) = c, BufferOK(heap, bs[at], c, st[c], h[c])
  PROVE  BufsAgree(heap, bs, es, st, h)
  <1>1. \A i \in DOMAIN bs : bs[i].id # Null
    BY DEF RealBufs, Block, Null
  <1>2. ASSUME NEW i \in DOMAIN bs
        PROVE  LET d == ConnOf(es[bs[i].id]) IN BufferOK(heap, bs[i], d, st[d], h[d])
    <2>1. CASE i = at
      BY <2>1
    <2>2. CASE i # at
      BY <2>2 DEF OthersAgree
    <2> QED
      BY <2>1, <2>2
  <1>3. ASSUME NEW d \in Conn, \A i \in DOMAIN bs : bs[i].id # Null => ConnOf(es[bs[i].id]) # d
        PROVE  st[d].units = 0 /\ h[d] = <<>>
    <2>1. d # c
      BY <1>1, <1>3
    <2> QED
      BY <1>1, <1>3, <2>1 DEF OthersAgree
  <1> QED
    BY <1>2, <1>3 DEF BufsAgree

\* Changes to the buffer at `at`, to the records of its connection and to
\* blocks that are not the other buffers' leave those agreeing.
LEMMA OthersStay ==
  ASSUME NEW heap, NEW bs, NEW es, NEW st, NEW h, NEW at, NEW c,
         OthersAgree(heap, bs, es, st, h, at, c),
         NEW heap2, NEW bs2, NEW st2, NEW h2,
         DOMAIN bs2 = DOMAIN bs, \A i \in DOMAIN bs : i # at => bs2[i] = bs[i],
         \A d \in Conn : d # c => st2[d] = st[d] /\ h2[d] = h[d],
         \A i \in DOMAIN bs : i # at /\ bs[i].buf # Null =>
            bs[i].buf \in DOMAIN heap2 /\ heap2[bs[i].buf] = heap[bs[i].buf]
  PROVE  OthersAgree(heap2, bs2, es, st2, h2, at, c)
  <1>1. ASSUME NEW i \in DOMAIN bs2, i # at, NEW d, d = ConnOf(es[bs2[i].id])
        PROVE  d \in Conn /\ d # c /\ BufferOK(heap2, bs2[i], d, st2[d], h2[d])
    <2>1. i \in DOMAIN bs /\ bs2[i] = bs[i]
      BY <1>1
    <2>2. d \in Conn /\ d # c /\ BufferOK(heap, bs[i], d, st[d], h[d])
      BY <1>1, <2>1 DEF OthersAgree
    <2>3. BufferOK(heap2, bs[i], d, st[d], h[d])
      BY <1>1, <2>1, <2>2, BufferElsewhere
    <2> QED
      BY <2>1, <2>2, <2>3
  <1>2. ASSUME NEW d \in Conn, d # c, \A i \in DOMAIN bs2 : i # at => ConnOf(es[bs2[i].id]) # d
        PROVE  st2[d].units = 0 /\ h2[d] = <<>>
    <2>1. \A i \in DOMAIN bs : i # at => ConnOf(es[bs[i].id]) # d
      BY <1>2
    <2> QED
      BY <1>2, <2>1 DEF OthersAgree
  <1> QED
    BY <1>1, <1>2 DEF OthersAgree

\* A buffer without a block keeps nothing, which is what was stored of a
\* connection that has none.
LEMMA NewBuffer ==
  ASSUME NEW heap, NEW b \in BufSet, b.buf = Null, b.size = 0, NEW c, NEW s, s.units = 0
  PROVE  BufferOK(heap, b, c, s, <<>>)
  <1>1. Kept(heap, b) = <<>>
    BY DEF Kept, Effective
  <1>2. Ordered(<<>>, c, s)
    BY DEF Ordered
  <1>3. <<>> \o Positions(<<>>) = Numbers(s.units)
    BY NoPositions DEF Numbers
  <1> QED
    BY <1>1, <1>2, <1>3 DEF BufferOK, IsBuffer

\* The record of a connection when one of its sides sends a packet.
LEMMA NextTurnRecord ==
  ASSUME NEW s \in SentSet, NEW side \in Side
  PROVE  LET t == NextTurn(s, side)
         IN /\ t \in SentSet /\ t.side = side /\ t.turn > 0
            /\ t.units = s.units /\ t.wrapped = s.wrapped
            /\ s.turn > 0 /\ s.side = side => t = s
  <1>1. s.turn \in Nat /\ s.side \in Side /\ s.units \in Nat /\ s.wrapped \in BOOLEAN
    BY DEF SentSet
  <1> DEFINE n == s.turn + 1
             t == [s EXCEPT !.side = side, !.turn = n]
  <1>2. n \in Nat /\ n > 0
    BY <1>1
  <1>3. NextTurn(s, side) = IF s.turn = 0 \/ s.side # side THEN t ELSE s
    BY DEF NextTurn
  <1> HIDE DEF n
  <1>4. t \in SentSet /\ t.side = side /\ t.turn = n /\ t.units = s.units /\ t.wrapped = s.wrapped
    BY <1>2 DEF SentSet
  <1> HIDE DEF t
  <1>5. CASE s.turn = 0 \/ s.side # side
    BY <1>1, <1>2, <1>3, <1>4, <1>5
  <1>6. CASE s.turn # 0 /\ s.side = side
    BY <1>1, <1>3, <1>6
  <1> QED
    BY <1>5, <1>6

-----------------------------------------------------------------------------
\* The endpoints agree with the records when the packet's connection is in a
\* turn of the side that sent it.
LEMMA EndsAgreeFound ==
  ASSUME NEW es \in Seq(EndsSet), EndsOK(es), NEW st \in [Conn -> SentSet], EndsAgree(es, st),
         NEW c \in Conn, NEW side, NEW e, EndsFound(es, c, side, e),
         NEW t \in SentSet, t.turn > 0, t.side = side
  PROVE  EndsAgree(e.list, [st EXCEPT ![c] = t])
  <1> DEFINE st2 == [st EXCEPT ![c] = t]
  <1>1. st2[c] = t /\ \A d \in Conn : d # c => st2[d] = st[d]
    OBVIOUS
  <1> HIDE DEF st2
  <1>2. /\ RealEnds(e.list) /\ e.at \in DOMAIN e.list /\ e.list[e.at].src # Nobody
        /\ ConnOf(e.list[e.at]) = c /\ LastSide(e.list[e.at]) = side
        /\ \A i \in DOMAIN e.list : i # e.at => i \in DOMAIN es /\ e.list[i] = es[i]
    BY DEF EndsFound
  <1>3. ASSUME NEW d \in Conn, NEW i \in DOMAIN e.list, e.list[i].src # Nobody,
               ConnOf(e.list[i]) = d
        PROVE  st2[d].turn > 0 /\ st2[d].side = LastSide(e.list[i])
    <2>1. CASE i = e.at
      BY <1>1, <1>2, <1>3, <2>1
    <2>2. CASE i # e.at
      <3>1. d # c
        BY <1>2, <1>3, <2>2 DEF RealEnds
      <3> QED
        BY <1>1, <1>2, <1>3, <2>2, <3>1 DEF EndsAgree
    <2> QED
      BY <2>1, <2>2
  <1>4. ASSUME NEW d \in Conn,
               \A i \in DOMAIN e.list : e.list[i].src = Nobody \/ ConnOf(e.list[i]) # d
        PROVE  st2[d].turn = 0
    <2>1. d # c
      BY <1>2, <1>4
    <2>2. ASSUME NEW i \in DOMAIN es PROVE es[i].src = Nobody \/ ConnOf(es[i]) # d
      <3>1. CASE es = <<BlankEnds>>
        BY <3>1 DEF BlankEnds
      <3>2. CASE i \in DOMAIN e.list /\ i # e.at
        BY <1>2, <1>4, <3>2
      <3>3. CASE i = e.at /\ es # <<BlankEnds>>
        <4>1. ConnOf(es[e.at]) = c
          BY <3>3 DEF EndsFound, EndsKnown, EndsNew
        <4> QED
          BY <2>1, <3>3, <4>1
      <3>4. CASE i \notin DOMAIN e.list /\ es # <<BlankEnds>>
        BY <3>4 DEF EndsFound, EndsKnown, EndsNew
      <3> QED
        BY <3>1, <3>2, <3>3, <3>4
    <2> QED
      BY <1>1, <2>1, <2>2 DEF EndsAgree
  <1>5. EndsAgree(e.list, st2)
    BY <1>3, <1>4 DEF EndsAgree
  <1> QED
    BY <1>5 DEF st2

\* The buffers there were belong to endpoints there are.
LEMMA BufsBelong ==
  ASSUME NEW es \in Seq(EndsSet), NEW bs, BufsOK(bs, es),
         NEW c, NEW side, NEW e, EndsFound(es, c, side, e)
  PROVE  \/ bs = <<BlankBuf>>
         \/ /\ RealBufs(bs, es) /\ RealEnds(es) /\ RealBufs(bs, e.list)
            /\ DOMAIN es \subseteq DOMAIN e.list
  <1>1. CASE bs = <<BlankBuf>>
    BY <1>1
  <1>2. CASE bs # <<BlankBuf>>
    <2>1. RealBufs(bs, es) /\ RealEnds(es)
      BY <1>2 DEF BufsOK
    <2>2. es # <<BlankEnds>>
      BY <2>1, BlankIsNotReal
    <2>3. DOMAIN es \subseteq DOMAIN e.list
      BY <2>2 DEF EndsFound, EndsKnown, EndsNew
    <2> QED
      BY <2>1, <2>3 DEF RealBufs
  <1> QED
    BY <1>1, <1>2

\* A buffer that is not the packet's is of another connection, as it was.
LEMMA OtherConnection ==
  ASSUME NEW es \in Seq(EndsSet), RealEnds(es), NEW c \in Conn, NEW side, NEW e,
         EndsFound(es, c, side, e), NEW id \in DOMAIN es, id # e.at
  PROVE  /\ id \in DOMAIN e.list /\ e.list[id] = es[id]
         /\ ConnOf(es[id]) \in Conn /\ ConnOf(es[id]) # c
  <1>1. es # <<BlankEnds>>
    BY BlankIsNotReal
  <1>2. DOMAIN es \subseteq DOMAIN e.list
    BY <1>1 DEF EndsFound, EndsKnown, EndsNew
  <1>3. id \in DOMAIN e.list /\ e.list[id] = es[id]
    BY <1>2 DEF EndsFound
  <1>4. ConnOf(e.list[id]) # c
    BY <1>3 DEF EndsFound, RealEnds
  <1>5. es[id].src[1] \in Conn
    BY DEF RealEnds
  <1> QED
    BY <1>3, <1>4, <1>5 DEF ConnOf

\* What getEndpoints and getULBuffer find for a packet: the other buffers agree
\* with the records, and so does the packet's own, before the packet counts.
LEMMA FoundAgree ==
  ASSUME NEW heap, NEW es \in Seq(EndsSet), EndsOK(es), NEW bs \in Seq(BufSet), BufsOK(bs, es),
         NEW st \in [Conn -> SentSet], NEW h \in [Conn -> Seq(Nat)],
         BufsAgree(heap, bs, es, st, h),
         NEW c \in Conn, NEW side, NEW e, EndsFound(es, c, side, e),
         NEW u, BufsFound(bs, e.at, e.list, u)
  PROVE  /\ OthersAgree(heap, u.list, e.list, st, h, u.at, c)
         /\ BufferOK(heap, u.list[u.at], c, st[c], h[c])
         /\ u.list[u.at].buf # Null => EndsKnown(es, c, side, e)
  <1>1. /\ u.list \in Seq(BufSet) /\ RealBufs(u.list, e.list)
        /\ u.at \in DOMAIN u.list /\ u.list[u.at].id = e.at
        /\ \A i \in DOMAIN u.list : i # u.at => i \in DOMAIN bs /\ u.list[i] = bs[i]
    BY DEF BufsFound
  <1>2. e.at \in DOMAIN e.list /\ ConnOf(e.list[e.at]) = c /\ DOMAIN e.list \subseteq Block
        /\ RealEnds(e.list) /\ DOMAIN es \subseteq Block
    <2>1. e.at \in DOMAIN e.list /\ ConnOf(e.list[e.at]) = c /\ e.list \in Seq(EndsSet)
          /\ RealEnds(e.list)
      BY DEF EndsFound
    <2> QED
      BY <2>1 DEF Block
  <1>3. bs = <<BlankBuf>>
        \/ (RealBufs(bs, es) /\ RealEnds(es) /\ DOMAIN es \subseteq DOMAIN e.list)
    BY BufsBelong
  <1>4. \A i \in DOMAIN u.list : u.list[i].id \in DOMAIN e.list /\ u.list[i].id # Null
    BY <1>1, <1>2 DEF RealBufs, Block, Null
  <1>5. bs = <<BlankBuf>> => \A i \in DOMAIN bs : bs[i].id = Null
    BY DEF BlankBuf
  \* Another buffer was there before, and was not blank.
  <1>6. ASSUME NEW i \in DOMAIN bs, bs[i].id # Null, bs[i].id # e.at
        PROVE  /\ ConnOf(e.list[bs[i].id]) = ConnOf(es[bs[i].id])
               /\ ConnOf(es[bs[i].id]) \in Conn /\ ConnOf(es[bs[i].id]) # c
    <2>1. RealBufs(bs, es) /\ RealEnds(es)
      BY <1>3, <1>5, <1>6
    <2>2. bs[i].id \in DOMAIN es
      BY <2>1 DEF RealBufs
    <2> QED
      BY <1>6, <2>1, <2>2, OtherConnection
  <1>7. ASSUME NEW i \in DOMAIN u.list, i # u.at
        PROVE  i \in DOMAIN bs /\ u.list[i] = bs[i] /\ bs[i].id # Null /\ bs[i].id # e.at
    BY <1>1, <1>4, <1>7 DEF RealBufs
  <1>8. ASSUME NEW i \in DOMAIN u.list, i # u.at, NEW d, d = ConnOf(e.list[u.list[i].id])
        PROVE  d \in Conn /\ d # c /\ BufferOK(heap, u.list[i], d, st[d], h[d])
    <2>1. i \in DOMAIN bs /\ u.list[i] = bs[i] /\ bs[i].id # Null /\ bs[i].id # e.at
      BY <1>7, <1>8
    <2>2. d = ConnOf(es[bs[i].id]) /\ d \in Conn /\ d # c
      BY <1>6, <1>8, <2>1
    <2> QED
      BY <2>1, <2>2 DEF BufsAgree
  <1>9. ASSUME NEW d \in Conn, d # c,
               \A i \in DOMAIN u.list : i # u.at => ConnOf(e.list[u.list[i].id]) # d
        PROVE  st[d].units = 0 /\ h[d] = <<>>
    <2>1. ASSUME NEW i \in DOMAIN bs, bs[i].id # Null PROVE ConnOf(es[bs[i].id]) # d
      <3>1. CASE bs[i].id = e.at
        <4>1. RealBufs(bs, es) /\ RealEnds(es)
          BY <1>3, <1>5, <2>1
        <4>2. e.at \in DOMAIN es
          BY <3>1, <4>1 DEF RealBufs
        <4>3. es # <<BlankEnds>>
          BY <4>1, BlankIsNotReal
        <4>4. ConnOf(es[e.at]) = c
          BY <4>2, <4>3 DEF EndsFound, EndsKnown, EndsNew
        <4> QED
          BY <1>9, <3>1, <4>4
      <3>2. CASE bs[i].id # e.at
        <4>1. i \in DOMAIN u.list /\ i # u.at /\ u.list[i] = bs[i]
          <5>1. i # u.at \/ u.list # bs
            BY <1>1, <3>2
          <5>2. CASE u.list = bs
            BY <5>1, <5>2
          <5>3. CASE u.list # bs
            <6>1. /\ \A k \in DOMAIN bs : k # u.at => k \in DOMAIN u.list
                  /\ u.at \in DOMAIN bs => bs[u.at] = BlankBuf
              BY <5>3 DEF BufsFound
            <6>2. i # u.at
              BY <2>1, <6>1 DEF BlankBuf
            <6> QED
              BY <1>1, <6>1, <6>2
          <5> QED
            BY <5>2, <5>3
        <4> QED
          BY <1>6, <1>9, <2>1, <3>2, <4>1
      <3> QED
        BY <3>1, <3>2
    <2> QED
      BY <2>1 DEF BufsAgree
  <1>10. OthersAgree(heap, u.list, e.list, st, h, u.at, c)
    BY <1>8, <1>9 DEF OthersAgree
  <1>11. CASE u.at \in DOMAIN bs /\ u.list = bs
    <2>1. bs[u.at].id = e.at /\ e.at # Null
      BY <1>1, <1>4, <1>11
    <2>2. RealBufs(bs, es) /\ RealEnds(es)
      BY <1>3, <1>5, <1>11, <2>1
    <2>3. e.at \in DOMAIN es /\ es # <<BlankEnds>>
      BY <1>11, <2>1, <2>2, BlankIsNotReal DEF RealBufs
    <2>4. EndsKnown(es, c, side, e)
      BY <2>3 DEF EndsFound, EndsNew
    <2>5. ConnOf(es[e.at]) = c
      BY <2>4 DEF EndsKnown
    <2>6. BufferOK(heap, bs[u.at], c, st[c], h[c])
      BY <1>11, <2>1, <2>5 DEF BufsAgree
    <2> QED
      BY <1>10, <1>11, <2>4, <2>6
  <1>12. CASE ~(u.at \in DOMAIN bs /\ u.list = bs)
    <2>1. /\ u.list[u.at].buf = Null /\ u.list[u.at].size = 0
          /\ \A i \in DOMAIN bs : bs[i].id # e.at
      BY <1>12 DEF BufsFound
    <2>2. \A i \in DOMAIN bs : bs[i].id # Null => ConnOf(es[bs[i].id]) # c
      BY <1>6, <2>1
    <2>3. st[c].units = 0 /\ h[c] = <<>>
      BY <2>2 DEF BufsAgree
    <2>4. u.list[u.at] \in BufSet
      BY <1>1
    <2>5. BufferOK(heap, u.list[u.at], c, st[c], <<>>)
      BY <2>1, <2>3, <2>4, NewBuffer
    <2> QED
      BY <1>10, <2>1, <2>3, <2>5
  <1> QED
    BY <1>11, <1>12

-----------------------------------------------------------------------------
\* A buffer that is exchanged for another of the same endpoints.
LEMMA ExchangeBuffer ==
  ASSUME NEW bs \in Seq(BufSet), NEW es, RealBufs(bs, es), NEW at \in DOMAIN bs,
         NEW b \in BufSet, b.id = bs[at].id
  PROVE  LET other == [bs EXCEPT ![at] = b]
         IN /\ other \in Seq(BufSet) /\ RealBufs(other, es)
            /\ DOMAIN other = DOMAIN bs /\ other[at] = b
            /\ \A i \in DOMAIN bs : i # at => other[i] = bs[i]
  <1> DEFINE other == [bs EXCEPT ![at] = b]
  <1>1. other \in Seq(BufSet) /\ DOMAIN other = DOMAIN bs /\ other[at] = b
        /\ \A i \in DOMAIN bs : i # at => other[i] = bs[i]
    OBVIOUS
  <1> HIDE DEF other
  <1>2. \A i \in DOMAIN bs : other[i].id = bs[i].id
    BY <1>1
  <1>3. RealBufs(other, es)
    BY <1>1, <1>2 DEF RealBufs
  <1> QED
    BY <1>1, <1>3 DEF other

\* A buffer that is sound has a block no other holds.
LEMMA BufferToHand ==
  ASSUME NEW m, IsMemory(m), NEW ks, NEW bs, OneOwner(m.heap, m.qh.data, ks, bs),
         NEW at \in DOMAIN bs, NEW c, NEW s, NEW h, BufferOK(m.heap, bs[at], c, s, h),
         bs[at].buf # Null, bs[at].size > 0
  PROVE  /\ bs[at].buf \in DOMAIN m.heap /\ bs[at].buf # m.qh.data
         /\ bs[at].size \in 1 .. Len(m.heap[bs[at].buf])
  <1>1. IsBuffer(m.heap, bs[at]) /\ IsHeap(m.heap)
    BY DEF BufferOK, IsMemory
  <1>2. bs[at].buf \in DOMAIN m.heap /\ bs[at].size <= Len(m.heap[bs[at].buf])
        /\ bs[at].size \in Nat
    BY <1>1 DEF IsBuffer, BufSet
  <1>3. m.heap[bs[at].buf] \in Seq(UnitSet)
    BY <1>1, <1>2 DEF IsHeap
  <1>4. bs[at].buf # m.qh.data
    BY DEF OneOwner
  <1> QED
    BY <1>2, <1>3, <1>4

\* Extending the buffer of a connection with a packet's units keeps all sound.
LEMMA ExtendSound ==
  ASSUME NEW m, NEW ks, NEW es, NEW bs, NEW st, NEW h, Sound(m, ks, es, bs, st, h),
         RealBufs(bs, es), RealEnds(es),
         NEW at \in DOMAIN bs, NEW c \in Conn, ConnOf(es[bs[at].id]) = c,
         OthersAgree(m.heap, bs, es, st, h, at, c),
         BufferOK(m.heap, bs[at], c, st[c], h[c]),
         NEW load \in Payload,
         NEW r, r = ExtendULBuf(m.heap, bs[at], Units(c, st[c].turn, st[c].units, load))
  PROVE  Sound([m EXCEPT !.heap = r.heap], ks, es, [bs EXCEPT ![at] = r.b],
               [st EXCEPT ![c] = Stored(st[c], bs[at].size, load)], h)
  <1> DEFINE units == Units(c, st[c].turn, st[c].units, load)
             t == Stored(st[c], bs[at].size, load)
             m2 == [m EXCEPT !.heap = r.heap]
             bs2 == [bs EXCEPT ![at] = r.b]
             st2 == [st EXCEPT ![c] = t]
  <1>1. /\ IsMemory(m) /\ QuickOK(m.heap, m.qh)
        /\ es \in Seq(EndsSet) /\ bs \in Seq(BufSet)
        /\ st \in [Conn -> SentSet] /\ h \in [Conn -> Seq(Nat)]
        /\ OneOwner(m.heap, m.qh.data, ks, bs) /\ EndsAgree(es, st)
    BY DEF Sound
  <1>2. IsHeap(m.heap) /\ m.qh \in [data : Nat, size : Nat]
        /\ m = [heap |-> m.heap, qh |-> m.qh]
    BY <1>1 DEF IsMemory
  <1>3. st[c] \in SentSet /\ h[c] \in Seq(Nat) /\ st[c].turn \in Nat /\ st[c].units \in Nat
    BY <1>1 DEF SentSet
  <1>4. IsBuffer(m.heap, bs[at]) /\ bs[at] \in BufSet /\ bs[at].size \in Nat
    BY DEF BufferOK, IsBuffer, BufSet
  <1>5. units \in Seq(UnitSet)
    BY <1>3, UnitsOf
  <1>6. Extended(m.heap, bs[at], units, r)
    BY <1>2, <1>4, <1>5, ExtendULBufExtends
  <1>7. BufferOK(r.heap, r.b, c, t, h[c])
    BY <1>2, <1>3, <1>6, BufferIsExtended
  <1>8. t \in SentSet /\ t.turn = st[c].turn /\ t.side = st[c].side
    BY <1>3, <1>4, StoredRecord, ZenonT(60)
  <1> HIDE DEF units, t
  <1>9. IsHeap(r.heap) /\ r.b \in BufSet /\ r.b.id = bs[at].id
    BY <1>6 DEF Extended, IsBuffer
  <1>10. IsMemory(m2) /\ m2.heap = r.heap /\ m2.qh = m.qh
    <2>1. m2 = [heap |-> r.heap, qh |-> m.qh]
      BY <1>2
    <2> HIDE DEF m2
    <2> QED
      BY <1>2, <1>9, <2>1, MemoryParts
  <1>11. /\ bs2 \in Seq(BufSet) /\ RealBufs(bs2, es) /\ DOMAIN bs2 = DOMAIN bs /\ bs2[at] = r.b
         /\ \A i \in DOMAIN bs : i # at => bs2[i] = bs[i]
    BY <1>1, <1>9, ExchangeBuffer
  <1>12. st2 \in [Conn -> SentSet] /\ st2[c] = t /\ \A d \in Conn : d # c => st2[d] = st[d]
    BY <1>1, <1>8
  <1> HIDE DEF m2, bs2, st2
  \* The blocks of the others and goQuick's are not the one that is written.
  <1>13. \A a \in DOMAIN m.heap : a # bs[at].buf => a \in DOMAIN r.heap /\ r.heap[a] = m.heap[a]
    BY <1>6 DEF Extended
  <1>14. QuickOK(m2.heap, m2.qh)
    <2>1. CASE m.qh.data = Null
      BY <1>1, <1>10, <2>1 DEF QuickOK
    <2>2. CASE m.qh.data # Null
      <3>1. r.heap[m.qh.data] = m.heap[m.qh.data]
        BY <1>1, <1>13, <2>2 DEF OneOwner
      <3> QED
        BY <1>1, <1>10, <3>1 DEF QuickOK, Effective
    <2> QED
      BY <2>1, <2>2
  <1>15. OneOwner(m2.heap, m2.qh.data, ks, bs2)
    <2>1. IsHeap(m.heap) /\ OneOwner(m.heap, m.qh.data, ks, bs)
      BY <1>1, <1>2
    <2>2. bs2[at].buf = r.b.buf
      BY <1>11
    <2>3. DOMAIN bs2 = DOMAIN bs /\ \A i \in DOMAIN bs : i # at => bs2[i] = bs[i]
      BY <1>11
    <2>4. OneOwner(r.heap, m.qh.data, ks, bs2)
      BY <2>1, <2>2, <2>3, <1>6, OwnersExtended
    <2> QED
      BY <1>10, <2>4
  <1>16. OthersAgree(r.heap, bs2, es, st2, h, at, c)
    <2>1. \A i \in DOMAIN bs : i # at /\ bs[i].buf # Null =>
            bs[i].buf \in DOMAIN r.heap /\ r.heap[bs[i].buf] = m.heap[bs[i].buf]
      BY <1>1, <1>13 DEF OneOwner
    <2> QED
      BY <1>11, <1>12, <2>1, OthersStay
  <1>17. BufsAgree(m2.heap, bs2, es, st2, h)
    <2>1. DOMAIN es \subseteq Block /\ ConnOf(es[bs2[at].id]) = c
      BY <1>1, <1>9, <1>11 DEF Block
    <2> QED
      BY <1>7, <1>10, <1>11, <1>12, <1>16, <2>1, AllAgree
  <1>18. EndsAgree(es, st2)
    <2>1. \A d \in Conn : st2[d].turn = st[d].turn /\ st2[d].side = st[d].side
      BY <1>8, <1>12
    <2> QED
      BY <1>1, <2>1 DEF EndsAgree
  <1>19. Sound(m2, ks, es, bs2, st2, h)
    BY <1>1, <1>10, <1>11, <1>12, <1>14, <1>15, <1>17, <1>18 DEF Sound, EndsOK, BufsOK
  <1> QED
    BY <1>19 DEF m2, bs2, st2, t

\* All is sound, and the buffer at `at` is the one of connection c.
SoundAt(m, ks, es, bs, st, h, at, c) ==
    /\ Sound(m, ks, es, bs, st, h)
    /\ RealBufs(bs, es) /\ RealEnds(es)
    /\ at \in DOMAIN bs /\ ConnOf(es[bs[at].id]) = c
    /\ OthersAgree(m.heap, bs, es, st, h, at, c)
    /\ BufferOK(m.heap, bs[at], c, st[c], h[c])

\* The parts of soundness, put together.
LEMMA SoundParts ==
  ASSUME NEW m, IsMemory(m), QuickOK(m.heap, m.qh),
         NEW ks \in Seq(Block), NEW es \in Seq(EndsSet), RealEnds(es),
         NEW bs \in Seq(BufSet), RealBufs(bs, es),
         NEW st \in [Conn -> SentSet], NEW h \in [Conn -> Seq(Nat)],
         OneOwner(m.heap, m.qh.data, ks, bs), EndsAgree(es, st),
         NEW at \in DOMAIN bs, NEW c \in Conn, ConnOf(es[bs[at].id]) = c,
         OthersAgree(m.heap, bs, es, st, h, at, c),
         BufferOK(m.heap, bs[at], c, st[c], h[c])
  PROVE  SoundAt(m, ks, es, bs, st, h, at, c)
  <1>1. DOMAIN es \subseteq Block
    BY DEF Block
  <1>2. BufsAgree(m.heap, bs, es, st, h)
    BY <1>1, AllAgree
  <1> QED
    BY <1>2 DEF SoundAt, Sound, EndsOK, BufsOK

\* A packet that belongs to the turn of its connection, or finds its buffer
\* empty, leaves the buffer as it is.
LEMMA TurnGoesOn ==
  ASSUME NEW m, NEW ks, NEW es, NEW bs, NEW st, NEW h, Sound(m, ks, es, bs, st, h),
         NEW c \in Conn, NEW side \in Side, NEW e, EndsFound(es, c, side, e),
         NEW u, BufsFound(bs, e.at, e.list, u),
         ~TurnHasEnded(e.swapped, u.list[u.at])
  PROVE  SoundAt(m, ks, e.list, u.list, [st EXCEPT ![c] = NextTurn(st[c], side)], h, u.at, c)
  <1> DEFINE t == NextTurn(st[c], side)
             st2 == [st EXCEPT ![c] = t]
             b == u.list[u.at]
  <1>1. /\ IsMemory(m) /\ QuickOK(m.heap, m.qh) /\ ks \in Seq(Block)
        /\ es \in Seq(EndsSet) /\ EndsOK(es) /\ bs \in Seq(BufSet) /\ BufsOK(bs, es)
        /\ st \in [Conn -> SentSet] /\ h \in [Conn -> Seq(Nat)]
        /\ OneOwner(m.heap, m.qh.data, ks, bs) /\ EndsAgree(es, st)
        /\ BufsAgree(m.heap, bs, es, st, h)
    BY DEF Sound
  <1>2. /\ OthersAgree(m.heap, u.list, e.list, st, h, u.at, c)
        /\ BufferOK(m.heap, b, c, st[c], h[c])
        /\ b.buf # Null => EndsKnown(es, c, side, e)
    BY <1>1, FoundAgree
  <1>3. st[c] \in SentSet /\ h[c] \in Seq(Nat)
    BY <1>1
  <1>4. /\ t \in SentSet /\ t.side = side /\ t.turn > 0
        /\ t.units = st[c].units /\ t.wrapped = st[c].wrapped
        /\ st[c].turn > 0 /\ st[c].side = side => t = st[c]
    BY <1>3, NextTurnRecord
  <1>5. IsHeap(m.heap)
    BY <1>1 DEF IsMemory
  <1>6. OneOwner(m.heap, m.qh.data, ks, u.list)
    BY <1>1, OwnersFound
  <1> HIDE DEF t
  <1>7. EndsAgree(e.list, st2)
    BY <1>1, <1>4, EndsAgreeFound
  <1>8. st2 \in [Conn -> SentSet] /\ st2[c] = t /\ \A d \in Conn : d # c => st2[d] = st[d]
    BY <1>1, <1>4
  <1> HIDE DEF st2
  <1>9. /\ e.list \in Seq(EndsSet) /\ RealEnds(e.list) /\ ConnOf(e.list[e.at]) = c
        /\ u.list \in Seq(BufSet) /\ RealBufs(u.list, e.list) /\ u.at \in DOMAIN u.list
        /\ b.id = e.at
    BY DEF EndsFound, BufsFound
  <1>10. BufferOK(m.heap, b, c, t, h[c])
    <2>1. CASE b.size = 0
      BY <1>2, <1>3, <1>4, <1>5, <2>1, BufferIsEmpty
    <2>2. CASE b.size # 0
      <3>1. b.buf # Null /\ b.size \in Nat
        BY <1>2, <2>2 DEF BufferOK, IsBuffer, BufSet
      <3>2. ~e.swapped
        BY <2>2, <3>1 DEF TurnHasEnded
      <3>3. EndsKnown(es, c, side, e)
        BY <1>2, <3>1
      <3>4. /\ RealEnds(es) /\ e.at \in DOMAIN es /\ ConnOf(es[e.at]) = c
            /\ LastSide(es[e.at]) = side
        BY <3>2, <3>3 DEF EndsKnown
      <3>5. es[e.at].src # Nobody
        BY <3>4, EntryIsFound, <1>1
      <3>6. st[c].turn > 0 /\ st[c].side = side
        BY <1>1, <3>4, <3>5 DEF EndsAgree
      <3> QED
        BY <1>2, <1>4, <3>6
    <2> QED
      BY <2>1, <2>2
  <1>11. OthersAgree(m.heap, u.list, e.list, st2, h, u.at, c)
    <2>1. \A i \in DOMAIN u.list : i # u.at /\ u.list[i].buf # Null =>
            u.list[i].buf \in DOMAIN m.heap
      BY <1>6 DEF OneOwner
    <2> QED
      BY <1>2, <1>8, <2>1, OthersStay
  <1>12. SoundAt(m, ks, e.list, u.list, st2, h, u.at, c)
    BY <1>1, <1>6, <1>7, <1>8, <1>9, <1>10, <1>11, SoundParts
  <1> QED
    BY <1>12 DEF st2, t

\* When the turn has ended what counts of it goes to goQuick.
LEMMA TurnIsHanded ==
  ASSUME NEW m, NEW ks, NEW es, NEW bs, NEW st, NEW h, Sound(m, ks, es, bs, st, h),
         NEW c \in Conn, NEW side \in Side, NEW e, EndsFound(es, c, side, e),
         NEW u, BufsFound(bs, e.at, e.list, u),
         NEW b, b = u.list[u.at], TurnHasEnded(e.swapped, b),
         NEW nomem \in BOOLEAN, NEW failed \in BOOLEAN
  PROVE  SoundAt(GoQuick(m, b.buf, b.size, nomem, failed), ks, e.list,
                 [u.list EXCEPT ![u.at] = [b EXCEPT !.buf = Null, !.size = 0]],
                 [st EXCEPT ![c] = NextTurn(st[c], side)],
                 [h EXCEPT ![c] = @ \o Positions(Effective(m.heap, b.buf, b.size))], u.at, c)
  <1> DEFINE t == NextTurn(st[c], side)
             st2 == [st EXCEPT ![c] = t]
             r == GoQuick(m, b.buf, b.size, nomem, failed)
             left == [b EXCEPT !.buf = Null, !.size = 0]
             bs2 == [u.list EXCEPT ![u.at] = left]
             given == h[c] \o Positions(Kept(m.heap, b))
             h2 == [h EXCEPT ![c] = given]
  <1>1. /\ IsMemory(m) /\ QuickOK(m.heap, m.qh) /\ ks \in Seq(Block)
        /\ es \in Seq(EndsSet) /\ EndsOK(es) /\ bs \in Seq(BufSet) /\ BufsOK(bs, es)
        /\ st \in [Conn -> SentSet] /\ h \in [Conn -> Seq(Nat)]
        /\ OneOwner(m.heap, m.qh.data, ks, bs) /\ EndsAgree(es, st)
        /\ BufsAgree(m.heap, bs, es, st, h)
    BY DEF Sound
  <1>2. /\ OthersAgree(m.heap, u.list, e.list, st, h, u.at, c)
        /\ BufferOK(m.heap, b, c, st[c], h[c])
    BY <1>1, FoundAgree
  <1>3. st[c] \in SentSet /\ h[c] \in Seq(Nat)
    BY <1>1
  <1>4. /\ t \in SentSet /\ t.side = side /\ t.turn > 0
        /\ t.units = st[c].units /\ t.wrapped = st[c].wrapped
    BY <1>3, NextTurnRecord
  <1>5. IsHeap(m.heap) /\ (m.qh.data # Null => m.qh.data \in DOMAIN m.heap)
    BY <1>1 DEF IsMemory, OneOwner
  <1>6. OneOwner(m.heap, m.qh.data, ks, u.list)
    BY <1>1, OwnersFound
  <1> HIDE DEF t
  <1>7. EndsAgree(e.list, st2)
    BY <1>1, <1>4, EndsAgreeFound
  <1>8. st2 \in [Conn -> SentSet] /\ st2[c] = t /\ \A d \in Conn : d # c => st2[d] = st[d]
    BY <1>1, <1>4
  <1> HIDE DEF st2
  <1>9. /\ e.list \in Seq(EndsSet) /\ RealEnds(e.list) /\ ConnOf(e.list[e.at]) = c
        /\ u.list \in Seq(BufSet) /\ RealBufs(u.list, e.list) /\ u.at \in DOMAIN u.list
        /\ b.id = e.at
    BY DEF EndsFound, BufsFound
  <1>10. b.buf # Null /\ b.size > 0 /\ b \in BufSet /\ b.size \in Nat /\ IsBuffer(m.heap, b)
    BY <1>2 DEF TurnHasEnded, BufferOK, IsBuffer, BufSet
  <1>11. /\ b.buf \in DOMAIN m.heap /\ b.buf # m.qh.data
         /\ b.size \in 1 .. Len(m.heap[b.buf])
    BY <1>1, <1>2, <1>6, <1>9, <1>10, BufferToHand
  <1>12. Absorbed(m, b.buf, r)
    BY <1>1, <1>5, <1>11, GoQuickAbsorbs
  <1> HIDE DEF r
  <1>13. given \in Seq(Nat) /\ BufferOK(r.heap, left, c, t, given)
    <2>1. BufferOK(r.heap, left, c, t, given)
      BY <1>2, <1>3, <1>4, <1>5, BufferIsHanded
    <2>2. Positions(Kept(m.heap, b)) \in Seq(Nat)
      BY <1>5, <1>10, KeptOf, PositionsOf
    <2> QED
      BY <1>3, <2>1, <2>2
  <1> HIDE DEF given
  <1>14. left \in BufSet /\ left.id = b.id /\ left.buf = Null
    BY <1>10 DEF BufSet, Null
  <1> HIDE DEF left
  <1>15. /\ bs2 \in Seq(BufSet) /\ RealBufs(bs2, e.list) /\ DOMAIN bs2 = DOMAIN u.list
         /\ bs2[u.at] = left
         /\ \A i \in DOMAIN u.list : i # u.at => bs2[i] = u.list[i]
    BY <1>9, <1>14, ExchangeBuffer
  <1>16. h2 \in [Conn -> Seq(Nat)] /\ h2[c] = given /\ \A d \in Conn : d # c => h2[d] = h[d]
    BY <1>1, <1>13
  <1> HIDE DEF bs2, h2
  <1>17. OneOwner(r.heap, r.qh.data, ks, bs2)
    <2>1. IsMemory(m) /\ OneOwner(m.heap, m.qh.data, ks, u.list) /\ u.at \in DOMAIN u.list
      BY <1>1, <1>6, <1>9
    <2>2. u.list[u.at].buf # Null /\ Absorbed(m, u.list[u.at].buf, r)
      BY <1>10, <1>12
    <2>3. DOMAIN bs2 = DOMAIN u.list /\ bs2[u.at].buf = Null
      BY <1>14, <1>15
    <2>4. \A i \in DOMAIN u.list : i # u.at => bs2[i] = u.list[i]
      BY <1>15
    <2> QED
      BY <2>1, <2>2, <2>3, <2>4, OwnersAbsorbed
  <1>18. OthersAgree(r.heap, bs2, e.list, st2, h2, u.at, c)
    <2>1. ASSUME NEW i \in DOMAIN u.list, i # u.at, u.list[i].buf # Null
          PROVE  u.list[i].buf \in DOMAIN r.heap /\ r.heap[u.list[i].buf] = m.heap[u.list[i].buf]
      <3>1. u.list[i].buf \in DOMAIN m.heap \ {b.buf, m.qh.data}
        BY <1>6, <1>9, <1>10, <2>1 DEF OneOwner
      <3> QED
        BY <1>12, <3>1 DEF Absorbed
    <2>2. OthersAgree(m.heap, u.list, e.list, st, h, u.at, c)
      BY <1>2
    <2>3. DOMAIN bs2 = DOMAIN u.list /\ \A i \in DOMAIN u.list : i # u.at => bs2[i] = u.list[i]
      BY <1>15
    <2>4. \A d \in Conn : d # c => st2[d] = st[d] /\ h2[d] = h[d]
      BY <1>8, <1>16
    <2>5. \A i \in DOMAIN u.list : i # u.at /\ u.list[i].buf # Null =>
            u.list[i].buf \in DOMAIN r.heap /\ r.heap[u.list[i].buf] = m.heap[u.list[i].buf]
      BY <2>1
    <2> QED
      BY <2>2, <2>3, <2>4, <2>5, OthersStay
  <1>19. IsMemory(r) /\ QuickOK(r.heap, r.qh)
    BY <1>12 DEF Absorbed
  <1>20. /\ u.at \in DOMAIN bs2 /\ ConnOf(e.list[bs2[u.at].id]) = c
         /\ BufferOK(r.heap, bs2[u.at], c, st2[c], h2[c])
    BY <1>8, <1>9, <1>13, <1>14, <1>15, <1>16
  <1>21. SoundAt(r, ks, e.list, bs2, st2, h2, u.at, c)
    BY <1>1, <1>7, <1>8, <1>9, <1>15, <1>16, <1>17, <1>18, <1>19, <1>20, SoundParts
  <1>22. h2 = [h EXCEPT ![c] = @ \o Positions(Effective(m.heap, b.buf, b.size))]
    BY DEF h2, given, Kept
  <1> QED
    BY <1>21, <1>22 DEF r, st2, t, bs2, left

\* Without memory for a buffer only the endpoints and the turn are kept.
LEMMA FullSound ==
  ASSUME NEW m, NEW ks, NEW es, NEW bs, NEW st, NEW h, Sound(m, ks, es, bs, st, h),
         NEW c \in Conn, NEW side \in Side, NEW e, EndsFound(es, c, side, e),
         BufsFull(bs, e.at, e.list)
  PROVE  Sound(m, ks, e.list, bs, [st EXCEPT ![c] = NextTurn(st[c], side)], h)
  <1> DEFINE t == NextTurn(st[c], side)
             st2 == [st EXCEPT ![c] = t]
  <1>1. /\ IsMemory(m) /\ QuickOK(m.heap, m.qh) /\ ks \in Seq(Block)
        /\ es \in Seq(EndsSet) /\ EndsOK(es) /\ bs \in Seq(BufSet) /\ BufsOK(bs, es)
        /\ st \in [Conn -> SentSet] /\ h \in [Conn -> Seq(Nat)]
        /\ OneOwner(m.heap, m.qh.data, ks, bs) /\ EndsAgree(es, st)
        /\ BufsAgree(m.heap, bs, es, st, h)
    BY DEF Sound
  <1>2. st[c] \in SentSet
    BY <1>1
  <1>3. t \in SentSet /\ t.side = side /\ t.turn > 0 /\ t.units = st[c].units
    BY <1>2, NextTurnRecord
  <1> HIDE DEF t
  <1>4. EndsAgree(e.list, st2)
    BY <1>1, <1>3, EndsAgreeFound
  <1>5. st2 \in [Conn -> SentSet] /\ st2[c] = t /\ \A d \in Conn : d # c => st2[d] = st[d]
    BY <1>1, <1>3
  <1> HIDE DEF st2
  <1>6. /\ e.list \in Seq(EndsSet) /\ RealEnds(e.list) /\ RealBufs(bs, e.list)
        /\ \A i \in DOMAIN bs : bs[i].id # e.at /\ bs[i].id # Null
    BY DEF EndsFound, BufsFull, RealBufs, Null
  <1>7. bs # <<BlankBuf>>
    <2>1. SUFFICES ASSUME bs = <<BlankBuf>> PROVE FALSE
      OBVIOUS
    <2>2. 1 \in DOMAIN bs /\ bs[1].id = Null
      BY <2>1 DEF BlankBuf
    <2> QED
      BY <1>6, <2>2
  <1>8. RealBufs(bs, es) /\ RealEnds(es)
    BY <1>1, <1>7, BufsBelong
  <1>9. ASSUME NEW i \in DOMAIN bs
        PROVE  /\ e.list[bs[i].id] = es[bs[i].id]
               /\ ConnOf(es[bs[i].id]) \in Conn /\ ConnOf(es[bs[i].id]) # c
    <2>1. bs[i].id \in DOMAIN es /\ bs[i].id # e.at
      BY <1>6, <1>8 DEF RealBufs
    <2> QED
      BY <1>1, <1>8, <2>1, OtherConnection
  <1>10. BufsAgree(m.heap, bs, e.list, st2, h)
    <2>1. ASSUME NEW i \in DOMAIN bs, NEW d, d = ConnOf(e.list[bs[i].id])
          PROVE  BufferOK(m.heap, bs[i], d, st2[d], h[d])
      <3>1. d = ConnOf(es[bs[i].id]) /\ st2[d] = st[d]
        BY <1>5, <1>9, <2>1
      <3>2. BufferOK(m.heap, bs[i], d, st[d], h[d])
        BY <1>1, <1>6, <3>1 DEF BufsAgree
      <3> QED
        BY <3>1, <3>2
    <2>2. ASSUME NEW d \in Conn, \A i \in DOMAIN bs : ConnOf(e.list[bs[i].id]) # d
          PROVE  st2[d].units = 0 /\ h[d] = <<>>
      <3>1. \A i \in DOMAIN bs : ConnOf(es[bs[i].id]) # d
        BY <1>9, <2>2
      <3>2. st[d].units = 0 /\ h[d] = <<>>
        BY <1>1, <3>1 DEF BufsAgree
      <3> QED
        BY <1>3, <1>5, <3>2
    <2> QED
      BY <1>6, <2>1, <2>2 DEF BufsAgree
  <1>11. Sound(m, ks, e.list, bs, st2, h)
    BY <1>1, <1>4, <1>5, <1>6, <1>10 DEF Sound, EndsOK, BufsOK
  <1> QED
    BY <1>11 DEF st2, t

\* Every packet keeps all sound.
LEMMA PacketKeepsSound ==
  ASSUME Sound(mem, keys, ends, ul, sent, handed),
         NEW c \in Conn, NEW side \in Side, NEW load \in Payload, NEW failing \in Failing,
         ProcessTCP(c, side, load, failing)
  PROVE  Sound(mem', keys, ends', ul', sent', handed')
  <1> DEFINE e == GetEndpoints(ends, <<c, side>>, <<c, 1 - side>>, failing = "ends")
             u == GetULBuffer(ul, e.at, failing = "ul")
             turn == NextTurn(sent[c], side)
             b == u.list[u.at]
             ended == TurnHasEnded(e.swapped, b)
             m == [mem EXCEPT !.heap = Freed(@, {u.free})]
             given == Effective(m.heap, b.buf, b.size)
             quick == IF ended THEN GoQuick(m, b.buf, b.size, failing = "quick", failing = "html")
                      ELSE m
             left == IF ended THEN [b EXCEPT !.buf = Null, !.size = 0] ELSE b
             units == Units(c, turn.turn, turn.units, load)
             more == ExtendULBuf(quick.heap, left, units)
             stored == failing # "extend" \/ load = <<>>
             st2 == [sent EXCEPT ![c] = turn]
             h2 == IF ended THEN [handed EXCEPT ![c] = @ \o Positions(given)] ELSE handed
             bs2 == [u.list EXCEPT ![u.at] = left]
             final == IF ~stored THEN turn
                      ELSE [turn EXCEPT !.units = @ + Len(load),
                              !.wrapped = @ \/ left.size + Len(load) >= Wrap]
  <1>1. /\ IsMemory(mem) /\ ends \in Seq(EndsSet) /\ EndsOK(ends)
        /\ ul \in Seq(BufSet) /\ BufsOK(ul, ends) /\ sent \in [Conn -> SentSet]
    BY DEF Sound
  <1>2. /\ e.at = Null => UNCHANGED <<ends, ul, mem, sent, handed>>
        /\ e.at # Null => ends' = e.list
        /\ e.at # Null /\ u.at = Null => sent' = st2 /\ UNCHANGED <<ul, mem, handed>>
        /\ e.at # Null /\ u.at # Null =>
             /\ handed' = h2
             /\ ul' = [u.list EXCEPT ![u.at] = IF stored THEN more.b ELSE left]
             /\ mem' = IF stored THEN [quick EXCEPT !.heap = more.heap] ELSE quick
             /\ sent' = [sent EXCEPT ![c] = final]
    BY DEF ProcessTCP
  <1>3. e.at = Null \/ EndsFound(ends, c, side, e)
    BY <1>1, GetEndpointsFinds
  <1>4. ASSUME EndsFound(ends, c, side, e)
        PROVE  \/ u.at = Null /\ BufsFull(ul, e.at, e.list)
               \/ u.at # Null /\ BufsFound(ul, e.at, e.list, u)
    <2>1. ul = <<BlankBuf>> \/ RealBufs(ul, e.list)
      BY <1>1, <1>4, BufsBelong
    <2>2. e.list \in Seq(EndsSet) /\ e.at \in DOMAIN e.list
      BY <1>4 DEF EndsFound
    <2> HIDE DEF e
    <2> QED
      BY <1>1, <2>1, <2>2, GetULBufferFinds
  <1>5. CASE e.at = Null
    BY <1>2, <1>5
  <1>6. CASE e.at # Null /\ u.at = Null
    <2>1. EndsFound(ends, c, side, e)
      BY <1>3, <1>6
    <2>2. BufsFull(ul, e.at, e.list)
      BY <1>4, <1>6, <2>1
    <2>3. ends' = e.list /\ sent' = st2 /\ ul' = ul /\ mem' = mem /\ handed' = handed
      BY <1>2, <1>6
    <2> HIDE DEF e, u
    <2>4. Sound(mem, keys, e.list, ul, st2, handed)
      BY <2>1, <2>2, FullSound
    <2> QED
      BY <2>3, <2>4
  <1>7. CASE e.at # Null /\ u.at # Null
    <2>1. EndsFound(ends, c, side, e)
      BY <1>3, <1>7
    <2>2. BufsFound(ul, e.at, e.list, u)
      BY <1>4, <1>7, <2>1
    <2>3. /\ ends' = e.list /\ handed' = h2
          /\ ul' = [u.list EXCEPT ![u.at] = IF stored THEN more.b ELSE left]
          /\ mem' = IF stored THEN [quick EXCEPT !.heap = more.heap] ELSE quick
          /\ sent' = [sent EXCEPT ![c] = final]
      BY <1>2, <1>7
    <2> HIDE DEF e, u
    <2>4. u.list \in Seq(BufSet) /\ u.at \in DOMAIN u.list /\ u.free = Null
      BY <2>2 DEF BufsFound
    <2>5. m = mem
      <3>1. Freed(mem.heap, {u.free}) = mem.heap
        <4>1. IsHeap(mem.heap) /\ {u.free} \cap DOMAIN mem.heap = {}
          BY <1>1, <2>4 DEF IsMemory, IsHeap, Block, Null
        <4> QED
          BY <4>1, FreedNothing
      <3>2. mem \in [heap : {mem.heap}, qh : [data : Nat, size : Nat]]
        BY <1>1 DEF IsMemory
      <3> QED
        BY <3>1, <3>2
    \* What the turn's end makes of the memory and the buffer.
    <2>6. SoundAt(quick, keys, e.list, bs2, st2, h2, u.at, c)
      <3>1. CASE ended
        <4>1. (failing = "quick") \in BOOLEAN /\ (failing = "html") \in BOOLEAN
          OBVIOUS
        <4>2. /\ quick = GoQuick(mem, b.buf, b.size, failing = "quick", failing = "html")
              /\ left = [b EXCEPT !.buf = Null, !.size = 0]
              /\ h2 = [handed EXCEPT
                         ![c] = @ \o Positions(Effective(mem.heap, b.buf, b.size))]
          BY <2>5, <3>1
        <4>3. SoundAt(GoQuick(mem, b.buf, b.size, failing = "quick", failing = "html"), keys,
                      e.list, [u.list EXCEPT ![u.at] = [b EXCEPT !.buf = Null, !.size = 0]],
                      st2,
                      [handed EXCEPT ![c] = @ \o Positions(Effective(mem.heap, b.buf, b.size))],
                      u.at, c)
          BY <2>1, <2>2, <3>1, <4>1, TurnIsHanded
        <4> HIDE DEF quick, left, h2, st2
        <4> QED
          BY <4>2, <4>3
      <3>2. CASE ~ended
        <4>1. quick = mem /\ left = b /\ h2 = handed
          BY <2>5, <3>2
        <4>2. bs2 = u.list
          BY <2>4, <4>1
        <4>3. SoundAt(mem, keys, e.list, u.list, st2, handed, u.at, c)
          BY <2>1, <2>2, <3>2, TurnGoesOn
        <4> HIDE DEF quick, left, h2, st2, bs2
        <4> QED
          BY <4>1, <4>2, <4>3
      <3> QED
        BY <3>1, <3>2
    <2> HIDE DEF quick, left, h2
    <2>7. CASE ~stored
      <3>1. ul' = bs2 /\ mem' = quick /\ sent' = st2
        BY <2>3, <2>7
      <3> QED
        BY <2>3, <2>6, <3>1 DEF SoundAt
    \* What its units make of them.
    <2>8. CASE stored
      <3>1. bs2[u.at] = left /\ st2[c] = turn
        BY <1>1, <2>4
      <3>2. /\ mem' = [quick EXCEPT !.heap = more.heap]
            /\ ul' = [u.list EXCEPT ![u.at] = more.b]
            /\ sent' = [sent EXCEPT ![c] = Stored(turn, left.size, load)]
        BY <2>3, <2>8 DEF Stored
      <3> HIDE DEF stored, turn
      <3>3. /\ ul' = [bs2 EXCEPT ![u.at] = more.b]
            /\ sent' = [st2 EXCEPT ![c] = Stored(turn, left.size, load)]
        <4> HIDE DEF more
        <4> QED
          BY <3>2
      <3>4. more = ExtendULBuf(quick.heap, bs2[u.at], Units(c, st2[c].turn, st2[c].units, load))
        BY <3>1
      <3>5. /\ Sound(quick, keys, e.list, bs2, st2, h2)
            /\ RealBufs(bs2, e.list) /\ RealEnds(e.list)
            /\ u.at \in DOMAIN bs2 /\ ConnOf(e.list[bs2[u.at].id]) = c
            /\ OthersAgree(quick.heap, bs2, e.list, st2, h2, u.at, c)
            /\ BufferOK(quick.heap, bs2[u.at], c, st2[c], h2[c])
        BY <2>6 DEF SoundAt
      <3> HIDE DEF more, bs2, st2
      <3>6. Sound([quick EXCEPT !.heap = more.heap], keys, e.list, [bs2 EXCEPT ![u.at] = more.b],
                  [st2 EXCEPT ![c] = Stored(st2[c], bs2[u.at].size, load)], h2)
        BY <3>4, <3>5, ExtendSound
      <3> QED
        BY <2>3, <3>1, <3>2, <3>3, <3>6
    <2> QED
      BY <2>7, <2>8
  <1> QED
    BY <1>5, <1>6, <1>7

-----------------------------------------------------------------------------
\* When the keywords are loaded they own all blocks, and nothing was seen yet.
LEMMA LoadedSound ==
  ASSUME NEW n \in Nat
  PROVE  Sound([heap |-> [b \in 1 .. n |-> <<>>], qh |-> NoData], Numbers(n),
               <<BlankEnds>>, <<BlankBuf>>,
               [c \in Conn |-> [side |-> 0, turn |-> 0, units |-> 0, wrapped |-> FALSE]],
               [c \in Conn |-> <<>>])
  <1> DEFINE heap == [b \in 1 .. n |-> <<>>]
             m == [heap |-> heap, qh |-> NoData]
             none == [side |-> 0, turn |-> 0, units |-> 0, wrapped |-> FALSE]
             st == [c \in Conn |-> none]
             h == [c \in Conn |-> <<>>]
  <1>1. <<>> \in Seq(UnitSet) /\ <<>> \in Seq(Nat) /\ DOMAIN heap = 1 .. n
    OBVIOUS
  <1>2. IsHeap(heap)
    <2>1. IsFiniteSet(1 .. n)
      BY FS_Interval
    <2> QED
      BY <1>1, <2>1 DEF IsHeap, Block
  <1>3. NoData \in [data : Nat, size : Nat] /\ NoData.data = Null /\ NoData.size = 0
    BY DEF NoData, Null
  <1>4. none \in SentSet /\ none.turn = 0 /\ none.units = 0
    BY DEF SentSet, Side
  <1> HIDE DEF heap, none
  <1>5. IsMemory(m)
    BY <1>1, <1>2, <1>3, MemoryParts
  <1>6. m.heap = heap /\ m.qh = NoData
    OBVIOUS
  <1> HIDE DEF m
  <1>8. QuickOK(m.heap, m.qh)
    BY <1>3, <1>6 DEF QuickOK
  <1>9. /\ Numbers(n) \in Seq(Block) /\ DOMAIN Numbers(n) = 1 .. n
        /\ \A i \in 1 .. n : Numbers(n)[i] = i
    BY DEF Numbers, Block
  <1>10. <<BlankEnds>> \in Seq(EndsSet) /\ <<BlankBuf>> \in Seq(BufSet)
    BY DEF BlankEnds, EndsSet, Address, BlankBuf, BufSet, Null
  <1>11. st \in [Conn -> SentSet] /\ h \in [Conn -> Seq(Nat)]
    BY <1>1, <1>4
  <1>12. \A c \in Conn : st[c].turn = 0 /\ st[c].units = 0 /\ h[c] = <<>>
    BY <1>4
  <1> HIDE DEF st, h
  <1>13. /\ DOMAIN <<BlankBuf>> = {1} /\ <<BlankBuf>>[1].id = Null /\ <<BlankBuf>>[1].buf = Null
         /\ DOMAIN <<BlankEnds>> = {1} /\ <<BlankEnds>>[1].src = Nobody
    BY DEF BlankBuf, BlankEnds
  <1>14. OneOwner(m.heap, m.qh.data, Numbers(n), <<BlankBuf>>)
    BY <1>1, <1>3, <1>6, <1>9, <1>13 DEF OneOwner
  <1>15. EndsAgree(<<BlankEnds>>, st)
    BY <1>12, <1>13 DEF EndsAgree
  <1>16. BufsAgree(m.heap, <<BlankBuf>>, <<BlankEnds>>, st, h)
    BY <1>12, <1>13 DEF BufsAgree
  <1>17. Sound(m, Numbers(n), <<BlankEnds>>, <<BlankBuf>>, st, h)
    BY <1>5, <1>8, <1>9, <1>10, <1>11, <1>14, <1>15, <1>16 DEF Sound, EndsOK, BufsOK
  <1> QED
    BY <1>17 DEF m, st, h, heap, none

\* The invariant holds at first.
LEMMA InitInv == Init => Inv
  BY DEF Init, Inv

\* main() loads the keywords and captures, or leaves.
LEMMA StartInv == Inv /\ Start => Inv'
  <1> SUFFICES ASSUME Inv, Start PROVE Inv'
    OBVIOUS
  <1>1. Init
    BY DEF Inv, Start
  <1>2. PICK device \in BOOLEAN, ioerror \in BOOLEAN, lines \in 1 .. MaxKeywords,
             bad \in 0 .. MaxKeywords :
          LET loaded == LoadKeywords(mem.heap, lines, bad, ioerror)
          IN /\ bad <= lines
             /\ IF device /\ loaded.ok
                THEN /\ phase' = "capturing"
                     /\ mem' = [mem EXCEPT !.heap = loaded.heap]
                     /\ keys' = loaded.keys
                ELSE /\ phase' = "exited"
                     /\ UNCHANGED <<mem, keys>>
    BY Zenon DEF Start
  <1>3. UNCHANGED <<ends, ul, sent, handed>>
    BY DEF Start
  <1> DEFINE loaded == LoadKeywords(mem.heap, lines, bad, ioerror)
             n == IF bad = 0 THEN lines ELSE bad - 1
  <1>4. CASE ~(device /\ loaded.ok)
    <2>1. phase' = "exited" /\ mem' = mem /\ ul' = ul
      BY <1>2, <1>3, <1>4
    <2>2. ul = <<BlankBuf>>
      BY <1>1 DEF Init
    <2> QED
      BY <2>1, <2>2 DEF Inv
  <1>5. CASE device /\ loaded.ok
    <2>1. /\ phase' = "capturing" /\ mem' = [mem EXCEPT !.heap = loaded.heap]
          /\ keys' = loaded.keys
      BY <1>2, <1>5
    <2>2. n \in Nat
      BY SnifferAssumption
    <2>3. loaded.heap = [b \in 1 .. n |-> <<>>] /\ loaded.keys = Numbers(n)
      BY <1>5 DEF LoadKeywords, Numbers
    <2> HIDE DEF loaded, n
    <2>4. /\ mem' = [heap |-> [b \in 1 .. n |-> <<>>], qh |-> NoData]
          /\ keys' = Numbers(n) /\ ends' = <<BlankEnds>> /\ ul' = <<BlankBuf>>
          /\ sent' = [c \in Conn |-> [side |-> 0, turn |-> 0, units |-> 0, wrapped |-> FALSE]]
          /\ handed' = [c \in Conn |-> <<>>]
      BY <1>1, <1>3, <2>1, <2>3 DEF Init
    <2>5. Sound(mem', keys', ends', ul', sent', handed')
      BY <2>2, <2>4, LoadedSound
    <2> QED
      BY <2>1, <2>5 DEF Inv
  <1> QED
    BY <1>4, <1>5

\* termDevice blanks the buffers.
LEMMA StopInv == Inv /\ Stop => Inv'
  <1> SUFFICES ASSUME Inv, Stop PROVE Inv'
    OBVIOUS
  <1>1. Sound(mem, keys, ends, ul, sent, handed)
    BY DEF Inv, Stop
  <1>2. phase' = "exited" /\ ul' = <<BlankBuf>>
        /\ mem' = [mem EXCEPT !.heap = FreeKeywords(@, keys'), !.qh = NoData]
    BY DEF Stop
  <1> QED
    BY <1>2 DEF Inv

\* A packet that the callback leaves alone changes nothing, one that it takes
\* keeps all sound.
LEMMA CaptureInv == ASSUME Inv, NEW c \in Conn, Capture(c) PROVE Inv'
  <1>1. Sound(mem, keys, ends, ul, sent, handed)
    BY DEF Inv, Capture
  <1>2. phase = "capturing" /\ phase' = phase /\ keys' = keys
    BY DEF Capture
  <1>3. CASE UNCHANGED <<ends, ul, mem, sent, handed>>
    BY <1>1, <1>2, <1>3 DEF Inv
  <1>4. CASE \E side \in Side, load \in Payload, failing \in Failing :
                ProcessTCP(c, side, load, failing)
    <2>1. PICK side \in Side, load \in Payload, failing \in Failing :
             ProcessTCP(c, side, load, failing)
      BY <1>4
    <2>2. Sound(mem', keys, ends', ul', sent', handed')
      BY <1>1, <2>1, PacketKeepsSound
    <2> QED
      BY <1>2, <2>2 DEF Inv
  <1> QED
    BY <1>3, <1>4, Zenon DEF Capture, ProcessPacket

\* Every reachable state satisfies the invariant.
THEOREM SpecInv == Spec => []Inv
  <1>1. Init => Inv
    BY InitInv
  <1>2. Inv /\ [Next]_vars => Inv'
    <2> SUFFICES ASSUME Inv, [Next]_vars PROVE Inv'
      OBVIOUS
    <2>1. CASE Start
      BY <2>1, StartInv
    <2>2. CASE Stop
      BY <2>2, StopInv
    <2>3. CASE \E c \in Conn : Capture(c)
      BY <2>3, CaptureInv
    <2>4. CASE UNCHANGED vars
      BY <2>4 DEF Inv, Init, vars
    <2> QED
      BY <2>1, <2>2, <2>3, <2>4 DEF Next
  <1> QED
    BY <1>1, <1>2, PTL DEF Spec

-----------------------------------------------------------------------------
\* What the invariant says of a buffer that is not blank.
LEMMA BufferOf ==
  ASSUME Sound(mem, keys, ends, ul, sent, handed), NEW i \in DOMAIN ul, ul[i].id # Null
  PROVE  LET c == ConnOf(ends[ul[i].id]) IN BufferOK(mem.heap, ul[i], c, sent[c], handed[c])
  BY DEF Sound, BufsAgree

\* A buffer never mixes connections or directions.
LEMMA InvBufferIsOneTurn == Inv => BufferIsOneTurn
  <1> SUFFICES ASSUME Inv, NEW i \in DOMAIN ul
               PROVE  LET units == Effective(mem.heap, ul[i].buf, ul[i].size)
                          c == ends[ul[i].id].src[1]
                      IN /\ \A j \in DOMAIN units : /\ units[j].conn = c
                                                    /\ units[j].turn = sent[c].turn
                         /\ \A j, k \in DOMAIN units : j < k => units[j].n < units[k].n
    BY DEF BufferIsOneTurn
  <1> DEFINE units == Effective(mem.heap, ul[i].buf, ul[i].size)
             c == ends[ul[i].id].src[1]
  <1>1. CASE ul = <<BlankBuf>>
    <2>1. ul[i].buf = Null
      BY <1>1 DEF BlankBuf
    <2>2. DOMAIN units = {}
      BY <2>1 DEF Effective
    <2> QED
      BY <2>2
  <1>2. CASE ul # <<BlankBuf>>
    <2>1. Sound(mem, keys, ends, ul, sent, handed)
      BY <1>2 DEF Inv, Init
    <2>2. ul[i].id # Null
      BY <1>2, <2>1 DEF Sound, BufsOK, RealBufs, Null
    <2>3. BufferOK(mem.heap, ul[i], c, sent[c], handed[c])
      BY <2>1, <2>2, BufferOf DEF ConnOf
    <2>4. Ordered(units, c, sent[c])
      BY <2>3 DEF BufferOK, Kept
    <2> QED
      BY <2>4 DEF Ordered
  <1> QED
    BY <1>1, <1>2

\* What was stored was handed over or is still kept.
LEMMA InvNothingLost == Inv => NothingLost
  <1> SUFFICES ASSUME Inv, phase = "capturing", NEW c \in Conn, ~sent[c].wrapped
               PROVE  LET mine == {i \in DOMAIN ul : ul[i].id # Null /\ ends[ul[i].id].src[1] = c}
                          kept == IF mine = {} THEN <<>>
                                  ELSE LET b == ul[CHOOSE i \in mine : TRUE]
                                       IN Positions(Effective(mem.heap, b.buf, b.size))
                      IN handed[c] \o kept = [i \in 1 .. sent[c].units |-> i]
    BY DEF NothingLost
  <1> DEFINE mine == {i \in DOMAIN ul : ul[i].id # Null /\ ends[ul[i].id].src[1] = c}
             i == CHOOSE i \in mine : TRUE
  <1>1. Sound(mem, keys, ends, ul, sent, handed)
    BY DEF Inv
  <1>2. CASE mine = {}
    <2>1. \A k \in DOMAIN ul : ul[k].id # Null => ConnOf(ends[ul[k].id]) # c
      BY <1>2 DEF ConnOf
    <2>2. sent[c].units = 0 /\ handed[c] = <<>>
      BY <1>1, <2>1 DEF Sound, BufsAgree
    <2>3. handed[c] \o <<>> = [k \in 1 .. sent[c].units |-> k]
      BY <2>2
    <2> QED
      BY <1>2, <2>3
  <1>3. CASE mine # {}
    <2>1. i \in mine
      BY <1>3
    <2>2. i \in DOMAIN ul /\ ul[i].id # Null /\ ConnOf(ends[ul[i].id]) = c
      BY <2>1 DEF ConnOf
    <2>3. BufferOK(mem.heap, ul[i], c, sent[c], handed[c])
      BY <1>1, <2>2, BufferOf
    <2>4. handed[c] \o Positions(Effective(mem.heap, ul[i].buf, ul[i].size))
            = [k \in 1 .. sent[c].units |-> k]
      BY <2>3 DEF BufferOK, Kept, Numbers
    <2> QED
      BY <1>3, <2>4
  <1> QED
    BY <1>2, <1>3

\* A list of pointers, another, and one more.
LEMMA ThreeJoined ==
  ASSUME NEW x \in Seq(Nat), NEW y \in Seq(Nat), NEW z \in Nat
  PROVE  LET p == x \o y \o <<z>>
             K == Len(x)
             L == Len(y)
         IN /\ DOMAIN p = 1 .. K + L + 1
            /\ \A i \in 1 .. K : p[i] = x[i]
            /\ \A i \in 1 .. L : p[K + i] = y[i]
            /\ p[K + L + 1] = z
            /\ \A i \in 1 .. K + L + 1 :
                 i \in 1 .. K \/ (\E j \in 1 .. L : i = K + j) \/ i = K + L + 1
  <1> DEFINE both == x \o y
             one == <<z>>
             p == both \o one
             K == Len(x)
             L == Len(y)
  <1>1. /\ both \in Seq(Nat) /\ K \in Nat /\ L \in Nat /\ Len(both) = K + L
        /\ \A i \in 1 .. K : both[i] = x[i]
        /\ \A i \in 1 .. L : both[K + i] = y[i]
        /\ \A i \in 1 .. K + L : i \in 1 .. K \/ \E j \in 1 .. L : i = K + j
    BY Joined
  <1> HIDE DEF both, K, L
  <1>2. one \in Seq(Nat) /\ Len(one) = 1 /\ one[1] = z /\ 1 \in 1 .. 1
    OBVIOUS
  <1> HIDE DEF one
  <1>3. /\ p \in Seq(Nat) /\ Len(p) = Len(both) + Len(one)
        /\ \A i \in 1 .. Len(both) : p[i] = both[i]
        /\ \A i \in 1 .. Len(one) : p[Len(both) + i] = one[i]
    <2>1. both \in Seq(Nat) /\ one \in Seq(Nat)
      BY <1>1, <1>2
    <2>2. /\ both \o one \in Seq(Nat) /\ Len(both \o one) = Len(both) + Len(one)
          /\ \A i \in 1 .. Len(both) : (both \o one)[i] = both[i]
          /\ \A i \in 1 .. Len(one) : (both \o one)[Len(both) + i] = one[i]
      <3> HIDE DEF p
      <3> QED
        BY <2>1, Joined
    <2> QED
      BY <2>2
  <1> HIDE DEF p
  <1>4. DOMAIN p = 1 .. K + L + 1
    BY <1>1, <1>2, <1>3
  <1>5. p[K + L + 1] = z
    BY <1>1, <1>2, <1>3
  <1>6. \A i \in 1 .. K : p[i] = x[i]
    BY <1>1, <1>3
  <1>7. \A i \in 1 .. L : p[K + i] = y[i]
    BY <1>1, <1>3
  <1>8. \A i \in 1 .. K + L + 1 : i \in 1 .. K + L \/ i = K + L + 1
    BY <1>1
  <1>9. \A i \in 1 .. K + L + 1 :
          i \in 1 .. K \/ (\E j \in 1 .. L : i = K + j) \/ i = K + L + 1
    BY <1>1, <1>8
  <1> QED
    BY <1>4, <1>5, <1>6, <1>7, <1>9 DEF p, one, both, K, L

\* Every block that is allocated is held by exactly one pointer.
LEMMA InvEveryBlockHasOneOwner == Inv => EveryBlockHasOneOwner
  <1> DEFINE p == Pointers
             held == {i \in DOMAIN p : p[i] # Null}
             K == Len(keys)
             L == Len(ul)
             data == mem.qh.data
             bufs == [i \in DOMAIN ul |-> ul[i].buf]
             f == [i \in held |-> p[i]]
  <1> SUFFICES ASSUME Inv, phase = "capturing"
               PROVE  /\ {p[i] : i \in held} = DOMAIN mem.heap
                      /\ Cardinality(held) = Cardinality(DOMAIN mem.heap)
    BY DEF EveryBlockHasOneOwner
  <1>1. /\ IsHeap(mem.heap) /\ keys \in Seq(Block) /\ ul \in Seq(BufSet)
        /\ OneOwner(mem.heap, data, keys, ul) /\ data \in Nat
    BY DEF Inv, Sound, IsMemory
  <1>2. bufs \in Seq(Nat) /\ Len(bufs) = L /\ \A i \in 1 .. L : bufs[i] = ul[i].buf
    <2>1. DOMAIN ul = 1 .. L /\ L \in Nat
      BY <1>1
    <2>2. \A i \in 1 .. L : ul[i].buf \in Nat
      <3>1. \A i \in 1 .. L : ul[i] \in BufSet
        BY <1>1, <2>1
      <3> QED
        BY <3>1 DEF BufSet
    <2>3. bufs = [i \in 1 .. L |-> ul[i].buf]
      BY <2>1
    <2> QED
      BY <2>1, <2>2, <2>3
  <1>3. p = keys \o bufs \o <<data>> /\ keys \in Seq(Nat)
    BY <1>1 DEF Pointers, Block
  <1>4. /\ K \in Nat /\ L \in Nat /\ DOMAIN keys = 1 .. K /\ DOMAIN ul = 1 .. L
    BY <1>1
  <1> HIDE DEF p, data, bufs
  <1>5. /\ DOMAIN p = 1 .. K + L + 1
        /\ \A i \in 1 .. K : p[i] = keys[i]
        /\ \A i \in 1 .. L : p[K + i] = ul[i].buf
        /\ p[K + L + 1] = data
        /\ \A i \in 1 .. K + L + 1 :
             i \in 1 .. K \/ (\E j \in 1 .. L : i = K + j) \/ i = K + L + 1
    <2>1. /\ DOMAIN p = 1 .. K + Len(bufs) + 1
          /\ \A i \in 1 .. K : p[i] = keys[i]
          /\ \A i \in 1 .. Len(bufs) : p[K + i] = bufs[i]
          /\ p[K + Len(bufs) + 1] = data
          /\ \A i \in 1 .. K + Len(bufs) + 1 :
               \/ i \in 1 .. K
               \/ \E j \in 1 .. Len(bufs) : i = K + j
               \/ i = K + Len(bufs) + 1
      <3>1. bufs \in Seq(Nat) /\ data \in Nat /\ keys \in Seq(Nat)
        BY <1>1, <1>2, <1>3
      <3>2. p = keys \o bufs \o <<data>>
        BY <1>3
      <3> QED
        BY <3>1, <3>2, ThreeJoined
    <2> HIDE DEF K, L
    <2> QED
      BY <1>2, <2>1
  <1> HIDE DEF K, L
  \* What every pointer is.
  <1>6. ASSUME NEW i \in DOMAIN p
        PROVE  \/ i \in DOMAIN keys /\ p[i] = keys[i]
               \/ \E j \in DOMAIN ul : i = K + j /\ p[i] = ul[j].buf
               \/ i = K + L + 1 /\ p[i] = data
    <2>1. CASE i \in 1 .. K
      BY <1>4, <1>5, <2>1
    <2>2. CASE \E j \in 1 .. L : i = K + j
      <3>1. PICK j \in 1 .. L : i = K + j
        BY <2>2
      <3>2. p[i] = ul[j].buf
        BY <1>5, <3>1
      <3> QED
        BY <1>4, <3>1, <3>2
    <2>3. CASE i = K + L + 1
      BY <1>5, <2>3
    <2> QED
      BY <1>5, <2>1, <2>2, <2>3
  <1>7. ASSUME NEW i \in DOMAIN p, p[i] # Null PROVE p[i] \in DOMAIN mem.heap
    BY <1>1, <1>6, <1>7 DEF OneOwner
  <1>8. ASSUME NEW b \in DOMAIN mem.heap PROVE \E i \in held : p[i] = b
    <2>1. b = data \/ (\E k \in DOMAIN keys : keys[k] = b) \/ (\E i \in DOMAIN ul : ul[i].buf = b)
      BY <1>1 DEF OneOwner
    <2>2. b # Null
      BY <1>1 DEF IsHeap, Block, Null
    <2>3. \E i \in DOMAIN p : p[i] = b
      <3>1. CASE b = data
        BY <1>4, <1>5, <3>1
      <3>2. CASE \E k \in DOMAIN keys : keys[k] = b
        BY <1>4, <1>5, <3>2
      <3>3. CASE \E i \in DOMAIN ul : ul[i].buf = b
        <4>1. PICK i \in 1 .. L : ul[i].buf = b
          BY <1>4, <3>3
        <4>2. K + i \in 1 .. K + L + 1 /\ p[K + i] = b
          BY <1>4, <1>5, <4>1
        <4> QED
          BY <1>5, <4>2
      <3> QED
        BY <2>1, <3>1, <3>2, <3>3
    <2> QED
      BY <2>2, <2>3
  <1>14. ASSUME NEW i \in DOMAIN p, NEW j \in DOMAIN p, p[i] # Null, p[i] = p[j]
         PROVE  i = j
    <2>1. /\ \A k, n \in DOMAIN keys : keys[k] = keys[n] => k = n
          /\ \A k \in DOMAIN ul : ul[k].buf # Null =>
               /\ \A n \in DOMAIN keys : keys[n] # ul[k].buf
               /\ \A n \in DOMAIN ul : ul[k].buf = ul[n].buf => k = n
          /\ data # Null => /\ \A n \in DOMAIN keys : keys[n] # data
                            /\ \A n \in DOMAIN ul : ul[n].buf # data
      BY <1>1 DEF OneOwner
    <2>2. CASE i \in DOMAIN keys /\ p[i] = keys[i]
      <3>1. j \in DOMAIN keys /\ p[j] = keys[j]
        <4>1. \/ j \in DOMAIN keys /\ p[j] = keys[j]
              \/ \E k \in DOMAIN ul : p[j] = ul[k].buf
              \/ p[j] = data
          BY <1>6
        <4>2. p[j] = keys[i] /\ p[j] # Null
          BY <1>14, <2>2
        <4> QED
          BY <2>1, <2>2, <4>1, <4>2
      <3>2. keys[i] = keys[j]
        BY <1>14, <2>2, <3>1
      <3> QED
        BY <2>1, <2>2, <3>1, <3>2
    <2>3. CASE \E k \in DOMAIN ul : i = K + k /\ p[i] = ul[k].buf
      BY <1>6, <1>14, <2>1, <2>3
    <2>4. CASE i = K + L + 1 /\ p[i] = data
      BY <1>6, <1>14, <2>1, <2>4
    <2> QED
      BY <1>6, <2>2, <2>3, <2>4
  <1>9. {p[i] : i \in held} = DOMAIN mem.heap
    BY <1>7, <1>8
  <1>10. f \in Injection(held, DOMAIN mem.heap)
    BY <1>7, <1>14 DEF Injection, IsInjective
  <1>11. f \in Surjection(held, DOMAIN mem.heap)
    BY <1>7, <1>8 DEF Surjection
  <1>12. IsFiniteSet(DOMAIN mem.heap)
    BY <1>1 DEF IsHeap
  <1> HIDE DEF f, held
  <1>13. Cardinality(held) = Cardinality(DOMAIN mem.heap)
    BY <1>10, <1>11, <1>12, FS_Injection
  <1> QED
    BY <1>9, <1>13

-----------------------------------------------------------------------------
\* While the capture runs no block is lost and none is freed while it is held,
\* whatever allocation fails: goQuick takes the block it is handed, and frees it.
THEOREM SpecEveryBlockHasOneOwner == Spec => []EveryBlockHasOneOwner
  BY SpecInv, InvEveryBlockHasOneOwner, PTL

\* What an upper-layer buffer holds was sent by one side of one connection
\* since the other side last sent, in order.
THEOREM SpecBufferIsOneTurn == Spec => []BufferIsOneTurn
  BY SpecInv, InvBufferIsOneTurn, PTL

\* What was stored of a connection is handed to goQuick in order, or still in
\* its buffer, as long as the 16-bit size of the buffer does not wrap.
THEOREM SpecNothingLost == Spec => []NothingLost
  BY SpecInv, InvNothingLost, PTL

=============================================================================
