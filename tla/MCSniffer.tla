----------------------------- MODULE MCSniffer -----------------------------
(* Sniffer with the payloads and the symmetry of its runs. *)
EXTENDS Sniffer, TLC

Unit(kind, end) == [kind |-> kind, end |-> end]

\* no data; a request in one unit; a response of two units; the beginning of a
\* packed response, which any other ends
MCPayload == {<<>>, <<Unit("request", TRUE)>>,
              <<Unit("identity", FALSE), Unit("text", TRUE)>>, <<Unit("gzip", FALSE)>>}

MCSymmetry == Permutations(Conn)

=============================================================================
