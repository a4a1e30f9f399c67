------------------------------ MODULE ElGamal -------------------------------
(***************************************************************************)
(* Class CElGamal<T>.  A key is [p, g, private]; a type T is its bits and  *)
(* whether it is signed.  rand() is a parameter.                           *)
(***************************************************************************)
EXTENDS Integers

ValueTypes == [bits : {8, 16}, signed : BOOLEAN]

\* The values of T, and the conversion to T of a number.
Values(t) == IF t.signed THEN -(2 ^ (t.bits - 1)) .. 2 ^ (t.bits - 1) - 1 ELSE 0 .. 2 ^ t.bits - 1
Cast(n, t) ==
    LET m == n % 2 ^ t.bits
    IN IF t.signed /\ m >= 2 ^ (t.bits - 1) THEN m - 2 ^ t.bits ELSE m

\* doModulo: the loop goes by the bits of l and runs once at least.
DoModulo(p, g, l) ==
    LET loop[ly \in Nat, lu \in Nat, rest \in Nat] ==
            LET y == IF rest % 2 = 1 THEN (ly * lu) % p ELSE ly
            IN IF rest \div 2 = 0 THEN y ELSE loop[y, (lu * lu) % p, rest \div 2]
    IN loop[1, g % p, l]

\* SetKeyPrivate
Public(key) == DoModulo(key.p, key.g, key.private)

\* Mutant: the random number is not applied to the public key.
EncodeWithoutRandom(key, value, k) ==
    [msg |-> (Cast(value, [bits |-> 16, signed |-> FALSE]) * Public(key)) % key.p,
     ret |-> DoModulo(key.p, key.g, k)]

\* encode with the random number k; the value becomes an unsigned one.  (The
\* caller sees to it that the value is below p, which encode asserts.)
Encode(key, value, k) ==
    [msg |-> (Cast(value, [bits |-> 16, signed |-> FALSE])
                * DoModulo(key.p, Public(key), k)) % key.p,
     ret |-> DoModulo(key.p, key.g, k)]

\* decode looks for the number that gives the message; 0 is what it returns
\* when there is none.
Decode(key, el, t) ==
    LET multiplier == DoModulo(key.p, el.ret, key.private)
        found == {n \in 1 .. key.p - 1 : (multiplier * n) % key.p = el.msg}
    IN IF found = {} THEN 0 ELSE Cast(CHOOSE n \in found : \A m \in found : n <= m, t)

=============================================================================
