------------------------------ MODULE MCTarget ------------------------------
(* Target on the toy field.                                                *)
EXTENDS Target, ToyFp12

(* A unit outside the cyclotomic group, one in it but not in GtGroup, and  *)
(* one; and, as archives, also zero, a Gt element and a non-canonical half.*)
ToyMillerOutputs == {Unit(5), Unit(36), ToyFOne}
ToyArchived == ToyMillerOutputs \cup {ToyFZero, ToyGtGen, <<13, 1>>}

(* For the liveness of mul_scalar, which neither depends on: one Miller    *)
(* loop result and no archive.                                             *)
OneMillerOutput == {Unit(5)}
NoArchive == {}

(* `op` labels the step just taken and no action reads it.                 *)
ToyView == <<m, g, h, call>>
=============================================================================
