------------------------------ MODULE ToyGroup ------------------------------
(***************************************************************************)
(* Curves small enough for TLC with the shape of the BLS12-381 ones:       *)
(* y^2 = x^3 + ToyB over the field of ToyPrime elements, cyclic of order   *)
(* ToyOrder, which the prime R divides.  In the configurations:            *)
(*   G1  y^2 = x^3 + 4 mod 19, 21 = 3 * 7 points, two of them with x = 0   *)
(*       and outside the subgroup of order 7;                              *)
(*   G2  y^2 = x^3 + 3 mod 29, 30 = 6 * 5 points, none with x = 0.         *)
(* HEff clears the cofactor, and would not without its top bit.            *)
(***************************************************************************)
EXTENDS CurveGroup

CONSTANTS ToyPrime, ToyB, ToyOrder,
          ToyRootX, ToyRootY   \* a point that generates the curve

ToyField == 0 .. (ToyPrime - 1)
ToyWords == 0 .. ToyPrime          \* ToyPrime spells 0 a second time
ToyRoots(x) == {y \in ToyField : (y * y) % ToyPrime = (x^3 + ToyB) % ToyPrime}
CurvePoints == UNION {{<<x, y>> : y \in ToyRoots(x)} : x \in ToyField}
ToyCurve == CurvePoints   \* TLC keeps the value of a definition it calls by name
ToyInf == <<0, 0>>
ToyE == ToyCurve \cup {ToyInf}

Reciprocal ==
  [x \in ToyField |-> IF x = 0 THEN 0
                      ELSE CHOOSE y \in ToyField : (x * y) % ToyPrime = 1]

(* The chord-and-tangent law, for points that are not opposite.            *)
Slope(P, Q) ==
  IF P = Q THEN (3 * P[1]^2 * Reciprocal[(2 * P[2]) % ToyPrime]) % ToyPrime
           ELSE ((P[2] - Q[2]) * Reciprocal[(P[1] - Q[1]) % ToyPrime]) % ToyPrime

Chord(P, Q) ==
  LET s == Slope(P, Q)
      x == (s^2 - P[1] - Q[1]) % ToyPrime
  IN  <<x, (s * (P[1] - x) - P[2]) % ToyPrime>>

(* Multiple[k] is k times the root, and IndexTable[x][y] the k of (x, y).  *)
Multiple ==
  LET G == <<ToyRootX, ToyRootY>>
      m[k \in 1 .. (ToyOrder - 1)] ==
        IF k = 1 THEN G ELSE LET previous == m[k - 1] IN Chord(previous, G)
  IN  [k \in 0 .. (ToyOrder - 1) |-> IF k = 0 THEN ToyInf ELSE m[k]]
IndexTable ==
  [x \in ToyField |-> [y \in ToyField |->
     IF <<x, y>> \in ToyE
     THEN CHOOSE k \in 0 .. (ToyOrder - 1) : Multiple[k] = <<x, y>> ELSE 0]]
Index(P) == IndexTable[P[1]][P[2]]

ToyPlus(P, Q) == Multiple[(Index(P) + Index(Q)) % ToyOrder]
ToyMinus(P) == <<P[1], (ToyPrime - P[2]) % ToyPrime>>
ToyTimes(k, P) == Multiple[(k * Index(P)) % ToyOrder]

SubgroupPoints == {P \in ToyE : ToyTimes(R, P) = ToyInf}
ToySubgroup == SubgroupPoints
ToyGen == Multiple[ToyOrder \div R]
ToyLarger(y) == y > ToyPrime \div 2

(* The table is the group of the curve, not just a cyclic group.           *)
ASSUME ToyIsTheCurve ==
  /\ {Multiple[k] : k \in 0 .. (ToyOrder - 1)} = ToyE
  /\ \A P, Q \in ToyCurve : Q # ToyMinus(P) => ToyPlus(P, Q) = Chord(P, Q)

(* Jacobian triples: (x z^2, y z^3, z), and z = 0 at infinity.             *)
Scaled(P, z) == <<(P[1] * z^2) % ToyPrime, (P[2] * z^3) % ToyPrime, z>>
ToyJacReps(P) ==
  IF P = ToyInf THEN {<<0, 0, 0>>, <<1, 1, 0>>}
  ELSE {Scaled(P, z) :
          z \in IF P \in {Multiple[1], Multiple[3], ToyGen} THEN {1, 2} ELSE {3}}

ToyToAffine(j) ==
  LET i == Reciprocal[j[3]]
  IN  <<(j[1] * i^2) % ToyPrime, (j[2] * i^3) % ToyPrime>>
=============================================================================
