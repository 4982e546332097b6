------------------------------- MODULE ToyFp12 ------------------------------
(***************************************************************************)
(* The multiplicative structure of a quadratic field with the three nested *)
(* groups of Fp12: the field of 169 = 13^2 elements.  Its 168 units are    *)
(* cyclic, those of norm 1 (where conjugation, the power 13, inverts) are  *)
(* 14, and the group of order 7 is the image of the power 24 = 168 / 7.    *)
(*                                                                         *)
(* A unit is represented by its discrete logarithm in two digits base 13,  *)
(* so that a unit has two halves; the digits left over stand for zero.     *)
(***************************************************************************)
EXTENDS Integers

ToyHalf == 0 .. 12
ToyHalfWords == 0 .. 13            \* 13 is no digit
ToyFZero == <<12, 12>>
Unit(n) == <<(n % 168) \div 13, (n % 168) % 13>>
Exponent(x) == 13 * x[1] + x[2]
ToyFOne == Unit(0)

ToyFMul(x, y) == IF ToyFZero \in {x, y} THEN ToyFZero
                 ELSE Unit(Exponent(x) + Exponent(y))
ToyPow(x, n) == IF x = ToyFZero THEN ToyFZero ELSE Unit(n * Exponent(x))
ToyFConj(x) == ToyPow(x, 13)
ToyFinalExp(x) == ToyPow(x, 24)

ToyCyclotomic == {Unit(12 * n) : n \in 0 .. 13}
ToyGtGroup == {Unit(24 * n) : n \in 0 .. 6}
ToyGtGen == Unit(24)
=============================================================================
