--------------------------- MODULE MCPairingSession -------------------------
(* PairingSession on the toy field of order 7 and a curve with a subgroup  *)
(* of that order: y^2 = x^3 + 3 mod 41, 42 = 6 * 7 points, none with x = 0.*)
(* A G1 point is its scalar; the two are opposite.                         *)
EXTENDS PairingSession, ToyGroup, ToyFp12

ToyReduced(w) == w % ToyPrime
ToyFlags == {0, 1}
ToyG1Points == {3, 4}
ToyDlog1(P) == P
ToyDlog2(Q) == Index(Q) \div 6

(* A unit far from the group for points of the subgroup; for the others    *)
(* zero, or a unit that has nothing to do with the pairing.                *)
ToyMillerTerm(P, Q) ==
  LET k == Index(Q)
  IN  CASE k % 6 = 0 -> Unit(P * (k \div 6) + 7 * (P + 2 * (k \div 6)))
        [] k % 6 = 2 -> ToyFZero
        [] OTHER -> Unit(5 + P)

(* The generator and a point outside the subgroup; the archives of others  *)
(* hold another such point, of which the Miller loop makes zero.           *)
ToyInputs == {ToBytes(Multiple[k]) : k \in {6, 1}}

ToyForeign ==
  {<<"prepared", b>> : b \in {ToRawBytes(Multiple[6]), ToRawBytes(Multiple[2]),
                              [x |-> 41, y |-> 0, flag |-> 0],
                              [x |-> 0, y |-> 0, flag |-> 0]}}
  \cup {<<t, ToBytes(Multiple[k])>> :
           t \in {"affine", "prepared serde"}, k \in {6, 1}}
  \cup {<<t, u>> : t \in {"miller", "gt"},
                   u \in {ToyFZero, Unit(36), ToyGtGen, <<13, 1>>}}
=============================================================================
