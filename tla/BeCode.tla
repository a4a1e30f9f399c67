------------------------------- MODULE BeCode -------------------------------
(***************************************************************************)
(* Class becode: numbers as IEEE 754 bytes in network order.  A format is  *)
(* the bytes it has, the bits of the exponent that are in the second byte, *)
(* and the width of the integer the decoder keeps the exponent in.  A      *)
(* number is its sign and a natural number n < 2^30, for n / 2^Fraction.   *)
(* A word is the sequence of its bits, the highest one first.              *)
(***************************************************************************)
EXTENDS Integers, FiniteSets, Sequences, SequencesExt, FiniteSetsExt

Fraction == 4

Single == [bytes |-> 4, low |-> 1, width |-> 8]
Double == [bytes |-> 8, low |-> 4, width |-> 16]

ExpBits(fmt) == 7 + fmt.low
Mantissa(fmt) == 8 * fmt.bytes - 1 - ExpBits(fmt)
Bias(fmt) == 2 ^ (ExpBits(fmt) - 1) - 1

Bit(n, k) == (n \div 2 ^ k) % 2

\* The memory of a word on a machine, lowest address first, and the word
\* after swap16, swap32 or swap64.
Octets(word) == [i \in 1 .. Len(word) \div 8 |-> SubSeq(word, 8 * i - 7, 8 * i)]
Memory(word, bigEndian) == IF bigEndian THEN Octets(word) ELSE Reverse(Octets(word))
SwapBytes(word) == FlattenSeq(Reverse(Octets(word)))

\* Mutant: what is swapped is not what has to be.
SwapOnBig(word, bigEndian) == IF bigEndian THEN SwapBytes(word) ELSE word

\* swap: a machine that is not big endian turns the bytes around.
Swap(word, bigEndian) == IF bigEndian THEN word ELSE SwapBytes(word)

\* What ieee754singleEnc and ieee754doubleEnc share: the number is halved until it is
\* below 2; one that was below 1 is not doubled.  What is left after the
\* leading 1, if there is one, gives the mantissa bit by bit.  (The buffer is
\* there and large enough; otherwise both return false.)
Enc(fmt, neg, n, bigEndian) ==
    LET halvings == Cardinality({k \in 1 .. 30 - Fraction : n \div 2 ^ (Fraction + k) > 0})
        scale == Fraction + halvings
        rest == n % 2 ^ scale
        exponent == Bias(fmt) + halvings
        word == <<IF neg THEN 1 ELSE 0>>
                \o [i \in 1 .. ExpBits(fmt) |-> Bit(exponent, ExpBits(fmt) - i)]
                \o [i \in 1 .. Mantissa(fmt) |-> IF i > scale THEN 0 ELSE Bit(rest, scale - i)]
        zero == [i \in 1 .. 8 * fmt.bytes |-> 0]
    IN IF n = 0 THEN Octets(zero) ELSE Memory(Swap(word, bigEndian), bigEndian)

SingleEnc(neg, n, bigEndian) == Enc(Single, neg, n, bigEndian)
DoubleEnc(neg, n, bigEndian) == Enc(Double, neg, n, bigEndian)

Number(bits) == FoldLeft(LAMBDA a, b : 2 * a + b, 0, bits)

\* An int8_t or int16_t.
Wrapped(e, width) == ((e + 2 ^ (width - 1)) % 2 ^ width) - 2 ^ (width - 1)

\* The exponent ieee754singleDec and ieee754doubleDec read: the low bits come
\* from a char that is shifted to the right.  When char is signed and its
\* first bit is set, ones are shifted in.
ReadExponent(fmt, in, charSigned) ==
    LET high == Number(SubSeq(in[1], 2, 8)) * 2 ^ fmt.low
        low == Number(SubSeq(in[2], 1, fmt.low))
    IN IF charSigned /\ in[2][1] = 1 THEN 2 ^ fmt.width - 2 ^ fmt.low + low ELSE high + low

\* A number that is no multiple of 2^-Fraction.
Finer == -1

\* What the two decoders share: 0 is told from the first byte alone.
Dec(fmt, in, charSigned) ==
    LET start == ReadExponent(fmt, in, charSigned) - Bias(fmt)
        fraction == <<1>> \o SubSeq(FlattenSeq(Tail(in)), fmt.low + 1, 8 * (fmt.bytes - 1))
        powers == {Wrapped(start - i + 1, fmt.width) + Fraction :
                     i \in {j \in DOMAIN fraction : fraction[j] = 1}}
    IN IF Number(in[1]) = 0 THEN [neg |-> FALSE, n |-> 0]
       ELSE [neg |-> in[1][1] = 1,
             n |-> IF \E p \in powers : p < 0 THEN Finer
                   ELSE FoldSet(LAMBDA p, sum : 2 ^ p + sum, 0, powers)]

SingleDec(in, charSigned) == Dec(Single, in, charSigned)
DoubleDec(in, charSigned) == Dec(Double, in, charSigned)

=============================================================================
