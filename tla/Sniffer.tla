------------------------------ MODULE Sniffer ------------------------------
(***************************************************************************)
(* pcapsniff: main(), the packet callback, and the buffers it keeps for    *)
(* every connection (endpoints and upper-layer buffers).  The packets of   *)
(* several connections arrive in any order.  What one side of a connection *)
(* sends until the other side sends something is a turn; the callback      *)
(* collects a turn and hands it to goQuick when the direction changes.     *)
(*                                                                         *)
(* phase    where main() is                                                *)
(* mem      the heap and QuickHTTP's buffer                                *)
(* keys     the blocks of the keyword list: the file's text, then a node   *)
(*          for each keyword but the first                                 *)
(* ends     the list of endpoints        ul  the list of upper-layer       *)
(*          buffers, each with the index of its endpoints                  *)
(* sent     for each connection what the capture has seen of it: who sent  *)
(*          last, how many turns there were, how many units were stored,   *)
(*          and whether the 16-bit size of its buffer has wrapped          *)
(* handed   for each connection the units given to goQuick                 *)
(***************************************************************************)
EXTENDS QuickHttp

CONSTANTS
    Conn,           \* connections
    Payload,        \* what a packet may carry: sequences of [kind, end]
    Wrap,           \* sizes are kept modulo Wrap (2^16 in the program)
    MaxKeywords,    \* lines in the key file
    MaxPackets,     \* packets captured
    MaxFails        \* allocations that fail

ASSUME SnifferAssumption ==
    /\ Wrap \in Nat \ {0} /\ MaxKeywords \in Nat \ {0}
    /\ \A load \in Payload : load \in Seq([kind : Kinds, end : BOOLEAN])

VARIABLES phase, mem, keys, ends, ul, sent, handed, packets, fails

vars == <<phase, mem, keys, ends, ul, sent, handed, packets, fails>>

Side == {0, 1}
Nobody == <<>>          \* address and port 0
BlankEnds == [src |-> Nobody, dst |-> Nobody, inv |-> FALSE]
BlankBuf == [id |-> Null, buf |-> Null, size |-> 0]

Init ==
    /\ phase = "start"
    /\ mem = [heap |-> <<>>, qh |-> NoData]
    /\ keys = <<>>
    /\ ends = <<BlankEnds>> /\ ul = <<BlankBuf>>
    /\ sent = [c \in Conn |-> [side |-> 0, turn |-> 0, units |-> 0, wrapped |-> FALSE]]
    /\ handed = [c \in Conn |-> <<>>]
    /\ packets = 0 /\ fails = 0

-----------------------------------------------------------------------------
\* main() up to the capture loop, and after it.

\* The blocks loadKeywords leaves behind, and whether it succeeds, for a file
\* of `lines` lines when the allocation number `bad` fails (0: none does).
\* The file may be missing, empty or too large, or fail to be read when the
\* text is allocated (`ioerror`); the text is freed.  A list cut short by a
\* failing allocation is still used.
LoadKeywords(heap, lines, bad, ioerror) ==
    LET n == IF bad = 0 THEN lines ELSE bad - 1
    IN IF n = 0 \/ ioerror THEN [ok |-> FALSE, heap |-> heap, keys |-> <<>>]
       ELSE [ok |-> TRUE,
             heap |-> [b \in 1 .. n |-> <<>>],
             keys |-> [i \in 1 .. n |-> i]]

\* freeKeywords frees the second node of the list, not all of them, and the text.
FreeKeywords(heap, list) ==
    Freed(heap, (IF Len(list) >= 3 THEN {list[3]} ELSE {})
                \cup (IF list # <<>> THEN {list[1]} ELSE {}))

Start ==
    /\ phase = "start"
    /\ \E device, ioerror \in BOOLEAN, lines \in 1 .. MaxKeywords, bad \in 0 .. MaxKeywords :
         LET loaded == LoadKeywords(mem.heap, lines, bad, ioerror)
         IN /\ bad <= lines
            /\ IF device /\ loaded.ok
               THEN /\ phase' = "capturing"
                    /\ mem' = [mem EXCEPT !.heap = loaded.heap]
                    /\ keys' = loaded.keys
               ELSE /\ phase' = "exited"
                    /\ UNCHANGED <<mem, keys>>
    /\ UNCHANGED <<ends, ul, sent, handed, packets, fails>>

\* pcap_loop has returned.  termDevice clears the whole of Sniff, so that
\* freeKeywords finds nothing.
Stop ==
    /\ phase = "capturing"
    /\ phase' = "exited"
    /\ ends' = <<BlankEnds>> /\ ul' = <<BlankBuf>> /\ keys' = <<>>
    /\ mem' = [mem EXCEPT !.heap = FreeKeywords(@, keys'), !.qh = NoData]
    /\ UNCHANGED <<sent, handed, packets, fails>>

-----------------------------------------------------------------------------
\* Endpoints and upper-layer buffers.

\* Mutant: a connection is looked for in the direction it began in only.
GetEndpointsOneWay(list, src, dst, nomem) ==
    LET found == {i \in DOMAIN list : list[i].src = src \/ list[i].src = Nobody}
    IN IF found = {} /\ nomem THEN [list |-> list, at |-> Null, swapped |-> FALSE]
       ELSE IF found = {}
       THEN [list |-> Append(list, [src |-> src, dst |-> dst, inv |-> FALSE]),
             at |-> Len(list) + 1, swapped |-> TRUE]
       ELSE LET i == CHOOSE j \in found : \A k \in found : j <= k
            IN [list |-> [list EXCEPT ![i] = [src |-> src, dst |-> dst, inv |-> FALSE]],
                at |-> i, swapped |-> FALSE]

\* getEndpoints: the list, the index of the packet's endpoints (Null if
\* there is no memory for new ones), and whether the direction has changed.
GetEndpoints(list, src, dst, nomem) ==
    LET same(i) == list[i].src = src /\ list[i].dst = dst
        inverse(i) == list[i].src = dst /\ list[i].dst = src
        blank(i) == i = Len(list) /\ list[i].src = Nobody /\ list[i].dst = Nobody
        found == {i \in DOMAIN list : same(i) \/ inverse(i) \/ blank(i)}
        i == CHOOSE j \in found : \A k \in found : j <= k
        new == [src |-> src, dst |-> dst, inv |-> FALSE]
    IN IF found = {}
       THEN IF nomem THEN [list |-> list, at |-> Null, swapped |-> FALSE]
            ELSE [list |-> Append(list, new), at |-> Len(list) + 1, swapped |-> FALSE]
       ELSE IF blank(i)
       THEN [list |-> [list EXCEPT ![i] = new], at |-> i, swapped |-> FALSE]
       ELSE [list |-> [list EXCEPT ![i].inv = inverse(i)], at |-> i,
             swapped |-> list[i].inv # inverse(i)]

\* getULBuffer: the list, the index of the buffer of `id` (Null if there is
\* no memory for a new one), and the block an unused buffer still had.
GetULBuffer(list, id, nomem) ==
    LET of == {i \in DOMAIN list : list[i].id = id}
        unused == {i \in DOMAIN list : list[i].id = Null}
        first(s) == CHOOSE j \in s : \A k \in s : j <= k
        new == [BlankBuf EXCEPT !.id = id]
    IN IF of # {} THEN [list |-> list, at |-> first(of), free |-> Null]
       ELSE IF unused # {}
       THEN [list |-> [list EXCEPT ![first(unused)] = new], at |-> first(unused),
             free |-> list[first(unused)].buf]
       ELSE IF nomem THEN [list |-> list, at |-> Null, free |-> Null]
       ELSE [list |-> Append(list, new), at |-> Len(list) + 1, free |-> Null]

\* extendULBuf on buffer b: the heap and the buffer.
ExtendULBuf(heap, b, units) ==
    LET p == IF b.buf = Null THEN FreshBlock(heap) ELSE b.buf
    IN IF units = <<>> THEN [heap |-> heap, b |-> b]
       ELSE [heap |-> WithBlock(heap, p, Effective(heap, b.buf, b.size) \o units),
             b |-> [b EXCEPT !.buf = p, !.size = (b.size + Len(units)) % Wrap]]

\* Mutant: a turn that has ended is not told from one that goes on.
TurnNeverEnds(swapped, b) == FALSE

\* cbProcessTCP's test for a turn that has ended.
TurnHasEnded(swapped, b) == swapped /\ b.buf # Null /\ b.size > 0

-----------------------------------------------------------------------------
\* The packet callback.

\* The units of a packet's payload, as the n-th and following of connection c.
Units(c, turn, n, load) ==
    [i \in DOMAIN load |->
        [conn |-> c, turn |-> turn, n |-> n + i, kind |-> load[i].kind, end |-> load[i].end]]

Positions(units) == [i \in DOMAIN units |-> units[i].n]

NextTurn(s, side) ==
    IF s.turn = 0 \/ s.side # side THEN [s EXCEPT !.side = side, !.turn = @ + 1] ELSE s

\* cbProcessTCP, for a packet of c that `side` has sent.  `failing` is the
\* one allocation that fails, if any.
ProcessTCP(c, side, load, failing) ==
    LET e == GetEndpoints(ends, <<c, side>>, <<c, 1 - side>>, failing = "ends")
        u == GetULBuffer(ul, e.at, failing = "ul")
        turn == NextTurn(sent[c], side)
        b == u.list[u.at]
        ended == TurnHasEnded(e.swapped, b)
        m == [mem EXCEPT !.heap = Freed(@, {u.free})]
        given == Effective(m.heap, b.buf, b.size)
        quick == IF ended THEN GoQuick(m, b.buf, b.size, failing = "quick", failing = "html")
                 ELSE m
        left == IF ended THEN [b EXCEPT !.buf = Null, !.size = 0] ELSE b
        units == Units(c, turn.turn, turn.units, load)
        more == ExtendULBuf(quick.heap, left, units)
        stored == failing # "extend" \/ load = <<>>
    IN IF e.at = Null THEN UNCHANGED <<ends, ul, mem, sent, handed>>
       ELSE /\ ends' = e.list
            /\ IF u.at = Null
               THEN /\ sent' = [sent EXCEPT ![c] = turn]
                    /\ UNCHANGED <<ul, mem, handed>>
               ELSE /\ handed' = IF ended THEN [handed EXCEPT ![c] = @ \o Positions(given)]
                                 ELSE handed
                    /\ ul' = [u.list EXCEPT ![u.at] = IF stored THEN more.b ELSE left]
                    /\ mem' = IF stored THEN [quick EXCEPT !.heap = more.heap] ELSE quick
                    /\ sent' = [sent EXCEPT ![c] =
                                  IF ~stored THEN turn
                                  ELSE [turn EXCEPT !.units = @ + Len(load),
                                          !.wrapped = @ \/ left.size + Len(load) >= Wrap]]

Failing == {"none", "ends", "ul", "extend", "quick", "html"}

\* cbProcessPacket: a frame that is not IP over Ethernet with TCP is left alone.
ProcessPacket(c) ==
    \/ UNCHANGED <<ends, ul, mem, sent, handed, fails>>
    \/ \E side \in Side, load \in Payload, failing \in Failing :
         /\ failing # "none" => fails < MaxFails
         /\ fails' = IF failing = "none" THEN fails ELSE fails + 1
         /\ ProcessTCP(c, side, load, failing)

\* cbCapture: a packet that was cut short is discarded.
Capture(c) ==
    /\ phase = "capturing" /\ packets < MaxPackets
    /\ \/ UNCHANGED <<ends, ul, mem, sent, handed, fails>>
       \/ ProcessPacket(c)
    /\ packets' = packets + 1
    /\ UNCHANGED <<phase, keys>>

Next == Start \/ Stop \/ \E c \in Conn : Capture(c)

Spec == Init /\ [][Next]_vars

-----------------------------------------------------------------------------
\* What must hold.

Pointers == keys \o [i \in DOMAIN ul |-> ul[i].buf] \o <<mem.qh.data>>

\* While the capture runs every allocated block is held by exactly one
\* pointer, whatever allocation failed: the keyword list, an upper-layer
\* buffer or goQuick's buffer (goQuick "will take responsibility of pBuf").
EveryBlockHasOneOwner ==
    phase = "capturing" =>
        LET held == {i \in DOMAIN Pointers : Pointers[i] # Null}
        IN /\ {Pointers[i] : i \in held} = DOMAIN mem.heap
           /\ Cardinality(held) = Cardinality(DOMAIN mem.heap)

\* An upper-layer buffer never mixes connections or directions: what counts
\* of it was sent in the turn its connection is in, in order.
BufferIsOneTurn ==
    \A i \in DOMAIN ul :
        LET units == Effective(mem.heap, ul[i].buf, ul[i].size)
            c == ends[ul[i].id].src[1]
        IN /\ \A j \in DOMAIN units : units[j].conn = c /\ units[j].turn = sent[c].turn
           /\ \A j, k \in DOMAIN units : j < k => units[j].n < units[k].n

\* Every unit that was stored is handed to goQuick once, in order, or is
\* still in its connection's buffer, unless the buffer's 16-bit size wrapped.
NothingLost ==
    phase = "capturing" =>
        \A c \in Conn :
            LET mine == {i \in DOMAIN ul : ul[i].id # Null /\ ends[ul[i].id].src[1] = c}
                kept == IF mine = {} THEN <<>>
                        ELSE LET b == ul[CHOOSE i \in mine : TRUE]
                             IN Positions(Effective(mem.heap, b.buf, b.size))
            IN ~sent[c].wrapped => handed[c] \o kept = [i \in 1 .. sent[c].units |-> i]

-----------------------------------------------------------------------------
\* What the documents say and the code does not keep (README, "Findings").

\* "The provided buffer will need to be appended to the existing one"
\* (http.cpp): what was appended counts.
QuickCountsAll ==
    mem.qh.data # Null => mem.qh.size = Len(mem.heap[mem.qh.data])

=============================================================================
