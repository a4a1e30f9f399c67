----------------------------- MODULE ByteFifo ------------------------------
(***************************************************************************)
(* What a cyclic buffer promises: a bounded first-in first-out queue of    *)
(* bytes.  q is what the buffer holds; out is what the last call moved.    *)
(* A bulk write may stop short only when the queue has come within one     *)
(* byte of its capacity (the code keeps a second cell free when its data   *)
(* wraps); a bulk read stops short only when it emptied the queue.         *)
(***************************************************************************)
EXTENDS Naturals, Sequences

CONSTANTS
    Byte,
    Capacity,       \* the most the queue holds
    MaxRequest      \* the longest block one call moves

VARIABLES q, out

Blocks == UNION {[1 .. n -> Byte] : n \in 0 .. MaxRequest}
Smaller(x, y) == IF x <= y THEN x ELSE y

Quiet == [op |-> "none", want |-> 0, moved |-> << >>]
Moved(op, want, bs) == [op |-> op, want |-> want, moved |-> bs]

Init == q = << >> /\ out = Quiet

\* Bulk write of bs: a prefix is stored.
Write(bs) ==
    \E k \in 0 .. Len(bs) :
        /\ q' = q \o SubSeq(bs, 1, k)
        /\ Len(q) + k <= Capacity
        /\ k < Len(bs) => Len(q) + k >= Capacity - 1
        /\ out' = Moved("write", Len(bs), SubSeq(bs, 1, k))

\* Bulk read of n bytes.
Read(n) ==
    LET k == Smaller(n, Len(q))
    IN  /\ q' = SubSeq(q, k + 1, Len(q))
        /\ out' = Moved("read", n, SubSeq(q, 1, k))

\* Bytes placed in, or consumed from, the region a direct access handed out.
Commit(bs) ==
    /\ Len(q) + Len(bs) <= Capacity
    /\ q' = q \o bs
    /\ out' = Moved("commit", Len(bs), bs)
Release(n) ==
    /\ n <= Len(q)
    /\ q' = SubSeq(q, n + 1, Len(q))
    /\ out' = Moved("release", n, SubSeq(q, 1, n))

Forget == q' = << >> /\ out' = Quiet
Look == out' = Quiet /\ UNCHANGED q

Next ==
    \/ \E bs \in Blocks : Write(bs) \/ Commit(bs)
    \/ \E n \in 0 .. MaxRequest : Read(n) \/ Release(n)
    \/ Forget
    \/ Look

Spec == Init /\ [][Next]_<<q, out>>
=============================================================================
