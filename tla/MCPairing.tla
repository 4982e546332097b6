------------------------------ MODULE MCPairing -----------------------------
(* Pairing on the toy field: a point is its scalar, and the Miller loop of *)
(* a pair is a unit far from the group its final exponentiation is in.     *)
EXTENDS Pairing, ToyFp12

ToyG1Points == {0, 1, 3, 6}
ToyG2Points == {0, 1, 2}
ToyDlog(P) == P
ToyMillerTerm(P, Q) == Unit(P * Q + 7 * (P + 2 * Q))
=============================================================================
