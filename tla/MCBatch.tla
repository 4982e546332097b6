------------------------------- MODULE MCBatch ------------------------------
(* Batch on the toy curve of G1, with bytes of two bits.                   *)
EXTENDS Batch, ToyGroup

(* Infinity, a point with two triples, and one outside the subgroup.       *)
ToyPoints == UNION {ToyJacReps(P) : P \in {ToyInf, ToyGen, <<0, 2>>}}
ToyMultipliers == {0, 3, 6}
=============================================================================
