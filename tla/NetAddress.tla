----------------------------- MODULE NetAddress -----------------------------
(***************************************************************************)
(* Class netaddress: what getaddrinfo returned for a name, and the one     *)
(* address of it that is active.  An address is the family it belongs to;  *)
(* a position in the list is an addrinfo*, and Null is nullptr.            *)
(*   info     mpInfo        active   mpActive        idx   mActiveIdx      *)
(***************************************************************************)
EXTENDS Naturals, Sequences

Null == 0
NoInfo == [info |-> <<>>, active |-> Null, idx |-> 0]

\* newinfo: what was known is forgotten, and `list` is what getaddrinfo
\* returns (empty when it fails).  The first address is active.
NewInfo(list) ==
    [info |-> list, active |-> IF list = <<>> THEN Null ELSE 1, idx |-> 0]

DelInfo(a) == IF a.info = <<>> THEN a ELSE NoInfo

\* selectInfo(addrinfo**): an address that is not in the list changes nothing.
SelectInfo(a, p) ==
    IF p \in DOMAIN a.info THEN [a EXCEPT !.active = p, !.idx = p - 1] ELSE a

\* operator*, and the family of the active address.
Active(a) == a.info[a.active]

\* address(): the text of the active address.  Only IPv4 and IPv6 have one.
Text(a) ==
    IF a.active # Null /\ Active(a) \in {"ipv4", "ipv6"} THEN Active(a) ELSE ""

=============================================================================
