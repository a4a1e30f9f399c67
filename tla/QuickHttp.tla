----------------------------- MODULE QuickHttp -----------------------------
(***************************************************************************)
(* http.cpp of the sniffer: goQuick, which collects a transmission in its  *)
(* one buffer until it ends in an empty line, and then parses it.          *)
(*                                                                         *)
(* The heap is a function from the blocks that are allocated to what they  *)
(* hold, a sequence of units.  A unit stands for a few bytes; its kind is  *)
(* what the parser makes of a buffer that begins with it, its end tells    *)
(* whether it ends in CR LF CR LF.  A memory m has the heap and the        *)
(* members mpData and mSize of QuickHTTP (qh).                             *)
(***************************************************************************)
EXTENDS Naturals, Sequences, FiniteSets

Null == 0
NoData == [data |-> Null, size |-> 0]

\* request   GET, POST, PUT or HEAD and an URI
\* identity  a response 200 whose content is not encoded
\* gzip      a response 200 whose content is
\* coded     a response 200 in another encoding
\* status    a response with another status
\* text      anything else
Kinds == {"request", "identity", "gzip", "coded", "status", "text"}

\* malloc: a block that is not in use.
FreshBlock(heap) == CHOOSE b \in 1 .. Cardinality(DOMAIN heap) + 1 : b \notin DOMAIN heap

WithBlock(heap, b, content) ==
    [a \in DOMAIN heap \cup {b} |-> IF a = b THEN content ELSE heap[a]]

Freed(heap, bs) == [a \in DOMAIN heap \ bs |-> heap[a]]

\* What goQuick's caller sees of a buffer: its first size units.
Effective(heap, p, size) == IF p = Null THEN <<>> ELSE SubSeq(heap[p], 1, size)

IsBufReady(content) == content # <<>> /\ content[Len(content)].end

\* processRequest tells a request from anything else.
ProcessRequest(kind) == kind = "request"

\* gunzip: one block with what was unpacked, or none when the memory does not
\* suffice or the data cannot be read.  It returns: the data is complete (of a
\* truncated stream inflate asks for more, and the code's loop goes on).
Gunzip(heap, failed) ==
    IF failed THEN [heap |-> heap, html |-> Null]
    ELSE [heap |-> WithBlock(heap, FreshBlock(heap), <<>>), html |-> FreshBlock(heap)]

\* allocResponseData: the block of the content, unpacked or copied.
AllocResponseData(heap, kind, failed) ==
    IF kind = "gzip" THEN Gunzip(heap, failed)
    ELSE IF kind = "identity" /\ ~failed
    THEN [heap |-> WithBlock(heap, FreshBlock(heap), <<>>), html |-> FreshBlock(heap)]
    ELSE [heap |-> heap, html |-> Null]

\* Mutant: the content is not freed.
ProcessResponseLeaks(heap, kind, failed) == AllocResponseData(heap, kind, failed).heap

ProcessResponse(heap, kind, failed) ==
    LET r == AllocResponseData(heap, kind, failed)
    IN Freed(r.heap, {r.html})

\* The end of goQuick: a buffer that is ready is parsed and let go of.
ParseIfReady(m, failed) ==
    LET content == Effective(m.heap, m.qh.data, m.qh.size)
        kind == content[1].kind
        heap == IF ProcessRequest(kind) THEN m.heap ELSE ProcessResponse(m.heap, kind, failed)
    IN IF ~IsBufReady(content) THEN m
       ELSE [heap |-> Freed(heap, {m.qh.data}), qh |-> NoData]

\* goQuick on the block p, of which `size` units count.  It owns p from here.
GoQuick(m, p, size, nomem, failed) ==
    IF p = Null \/ size = 0 THEN m
    ELSE IF m.qh = NoData
    THEN ParseIfReady([m EXCEPT !.qh = [data |-> p, size |-> size]], failed)
    ELSE IF nomem
    THEN [m EXCEPT !.heap = Freed(m.heap, {p, m.qh.data}), !.qh = NoData]
    ELSE LET joined == Effective(m.heap, m.qh.data, m.qh.size)
                           \o Effective(m.heap, p, size)
         IN ParseIfReady([m EXCEPT !.heap = WithBlock(Freed(m.heap, {p}), m.qh.data, joined)],
                         failed)

=============================================================================
