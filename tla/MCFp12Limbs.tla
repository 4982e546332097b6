----------------------------- MODULE MCFp12Limbs ----------------------------
(* Fp12Limbs with limbs of two bits, field elements of two limbs and the   *)
(* code's tower of twelve of them; the prime 9 has limbs <<1, 2>>.         *)
EXTENDS Fp12Limbs

ToyModulus == <<1, 2>>

LeBytes(v) == [b \in 1 .. FieldBytes |-> (v \div 2^(b - 1)) % 2]
Joined(elements) == FoldLeft(LAMBDA s, v : s \o LeBytes(v), <<>>, elements)

(* Twelve elements of which eleven are their own position modulo the prime *)
(* or all zero, and one is anything that two limbs can hold.               *)
Positions == [c \in 1 .. FpCount |-> (2 * c) % 9]
Zeros == [c \in 1 .. FpCount |-> 0]
ToyArchives ==
  {Joined([base EXCEPT ![c] = v]) :
     base \in {Positions, Zeros}, c \in 1 .. FpCount, v \in 0 .. 15}
=============================================================================
