---------------------------- MODULE MCAlgorithms ----------------------------
(* Algorithms with small primes and the limits of the select loops. *)
EXTENDS Algorithms

Key(p, g, private) == [p |-> p, g |-> g, private |-> private]
Limit(sec, usec) == [sec |-> sec, usec |-> usec]

MCKeys == {Key(11, 2, 4), Key(13, 6, 65535), Key(29, 5, 12), Key(7, 1, 0)}
MCLimits == {Limit(0, 0), Limit(30, 0), Limit(1, 0), Limit(3, 0), Limit(0, 1000),
             Limit(0, 999999), Limit(0, 1500000), Limit(5, 10)}

=============================================================================
