------------------------------ MODULE SeqArith ------------------------------
(***************************************************************************)
(* Sequence-number arithmetic of datatypes.c over a SeqBits-wide unsigned  *)
(* space.  The C type SEQNO is uint32_t; the model keeps the width as a    *)
(* constant so that wrap-around is reachable with small values.  Every     *)
(* subtraction and addition on a SEQNO is taken modulo 2^SeqBits, as the   *)
(* C unsigned arithmetic does.                                             *)
(***************************************************************************)
EXTENDS Integers

CONSTANT SeqBits

ASSUME SeqBits \in 2..16

Modulus == 2 ^ SeqBits
SEQNO   == 0 .. (Modulus - 1)
Half    == Modulus \div 2          \* upper = 1 << (bits - 1)

\* Unsigned SEQNO arithmetic.
SeqAdd(a, b) == (a + b) % Modulus
SeqSub(a, b) == (a - b) % Modulus

\* seqcmp(s, t): -1 if t is "after" s by less than half the space,
\* 0 if equal, +1 otherwise (including the exact half-way point).
seqcmp(s, t) ==
    LET diff == SeqSub(t, s)
    IN  IF diff > 0 /\ diff < Half THEN -1
        ELSE IF s = t THEN 0
        ELSE 1

\* modular_distance(s, t): t - s when t >= s, otherwise t - s + (SEQNO)-1,
\* i.e. one less than the distance modulo 2^SeqBits.
modular_distance(s, t) ==
    IF t >= s THEN t - s
    ELSE SeqAdd(SeqSub(t, s), Modulus - 1)

\* The qsort comparator rangecmp returns (int)(rx->low - ry->low): the
\* unsigned difference read as a two's-complement int of the same width.
SignedDiff(a, b) ==
    LET d == SeqSub(a, b)
    IN  IF d >= Half THEN d - Modulus ELSE d

=============================================================================
