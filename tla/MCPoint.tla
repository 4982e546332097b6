------------------------------- MODULE MCPoint ------------------------------
(* Point on the toy curve of G1.                                                *)
EXTENDS Point, ToyGroup

Malformed == [comp |-> TRUE, inf |-> FALSE, sort |-> FALSE, x |-> ToyPrime]

(* A subgroup point, a point that generates the whole curve, a point with  *)
(* x = 0, infinity, and an encoding that names no point.                   *)
ToyInputs ==
  {ToBytes(P) : P \in {ToyGen, <<0, 2>>, ToyInf, ToyPlus(ToyGen, <<0, 2>>)}}
    \cup {Malformed}

(* `op` labels the step just taken and no action reads it.                 *)
ToyView == <<a, p, q, ua, up, uq>>
=============================================================================
