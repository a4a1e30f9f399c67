----------------------------- MODULE Algorithms -----------------------------
(***************************************************************************)
(* The pure algorithms of the library on a range of inputs: becode's       *)
(* floats, CElGamal's messages and doubletime's timeouts.                  *)
(*                                                                         *)
(* task   which of them         number  a float, or a message              *)
(* key    CElGamal's key        tv, limit   a select loop's timeout        *)
(***************************************************************************)
EXTENDS BeCode, ElGamal, DoubleTime

CONSTANTS
    MaxNumber,      \* largest float, in units of 2^-Fraction
    Keys,           \* CElGamal's keys
    Limits          \* what select loops pass for maxsec and maxusec

ASSUME AlgorithmsAssumption ==
    /\ Limits \subseteq [sec : Nat, usec : Nat]
    /\ \A k \in Keys : k.g \in 1 .. k.p - 2

VARIABLES task, number, key, tv, limit

vars == <<task, number, key, tv, limit>>

AnyKey == CHOOSE k \in Keys : TRUE
AnyLimit == CHOOSE l \in Limits : TRUE

Init ==
    /\ number = 0 /\ tv = Zero
    /\ \/ task = "float" /\ key = AnyKey /\ limit = AnyLimit
       \/ task = "message" /\ key \in Keys /\ limit = AnyLimit
       \/ task = "timeout" /\ key = AnyKey /\ limit \in Limits

NextFloat ==
    /\ task = "float"
    /\ number' \in {n \in {number + 1, 2 * number} : n <= MaxNumber}
    /\ UNCHANGED <<task, key, tv, limit>>

NextMessage ==
    /\ task = "message" /\ number < key.p - 1
    /\ number' = number + 1
    /\ UNCHANGED <<task, key, tv, limit>>

\* select() of a loop times out, or returns with something to do.
Timeout ==
    /\ task = "timeout" /\ tv.sec < 1000
    /\ tv' = Doubletime(tv, limit.sec, limit.usec)
    /\ UNCHANGED <<task, number, key, limit>>

Busy ==
    /\ task = "timeout"
    /\ tv' = Zero
    /\ UNCHANGED <<task, number, key, limit>>

Next == NextFloat \/ NextMessage \/ Timeout \/ Busy

Spec == Init /\ [][Next]_vars

-----------------------------------------------------------------------------
\* What must hold.

\* Zero and the numbers from 1 on are encoded to the same bytes by every
\* machine, single and double, with either sign, and decoded from them by every
\* machine whose char is unsigned; where char is signed only when the first bit
\* of the second byte, which belongs to the exponent, is 0 (of 1.0 it is 1, and
\* another number comes back).
FloatsSurvive ==
    task = "float" /\ (number = 0 \/ number >= 2 ^ Fraction) =>
        \A neg, bigEndian \in BOOLEAN :
            LET single == SingleEnc(neg, number, bigEndian)
                double == DoubleEnc(neg, number, bigEndian)
                value == [neg |-> neg /\ number # 0, n |-> number]
            IN /\ single = SingleEnc(neg, number, ~bigEndian)
               /\ double = DoubleEnc(neg, number, ~bigEndian)
               /\ \A charSigned \in BOOLEAN :
                    /\ ~charSigned \/ single[2][1] = 0 => SingleDec(single, charSigned) = value
                    /\ ~charSigned \/ double[2][1] = 0 => DoubleDec(double, charSigned) = value

\* What was encoded with a prime below 10000 and any random number is decoded,
\* for every type that has the value; a negative value comes back as the
\* remainder of its unsigned form, which is another one.
CipherIsInverted ==
    task = "message" =>
        \A k \in 1 .. key.p - 2, t \in ValueTypes :
            /\ number \in Values(t) => Decode(key, Encode(key, number, k), t) = number
            /\ -number \in Values(t) /\ number > 0 =>
                 Decode(key, Encode(key, -number, k), t) = Cast((65536 - number) % key.p, t)

\* A loop whose limit is in seconds, or in microseconds and less than a second,
\* and that stays idle, waits longer every time until it has come to the limit,
\* which it never passes and then keeps; without limits it waits longer for
\* ever.  What it waits is a proper timeval.
WaitGrowsToTheLimit ==
    task = "timeout" /\ limit.usec < Second /\ (limit.sec = 0 \/ limit.usec = 0) =>
        LET next == Doubletime(tv, limit.sec, limit.usec)
        IN /\ next.usec \in 0 .. Second - 1
           /\ \/ Shorter(tv, next) /\ (limit # Zero => ~Shorter(limit, next))
              \/ tv = limit /\ next = tv /\ limit # Zero

=============================================================================
