----------------------------- MODULE CurveGroup -----------------------------
(***************************************************************************)
(* The elliptic-curve group that the `blst` library computes in, as the    *)
(* wrappers of backend_blst/g1.rs and g2.rs see it.  `blst` is an external *)
(* crate: this module names what the wrappers rely on and nothing else, so *)
(* that every theorem built on it holds for any curve with these facts.    *)
(*                                                                         *)
(* A point is the pair of its affine coordinates.  `blst` has no flag for  *)
(* the point at infinity: it is the all-zero pair (derive(Default) on      *)
(* G1Affine), which is not on the curve y^2 = x^3 + 4.                     *)
(***************************************************************************)
EXTENDS Integers

CONSTANTS
  Field,       \* canonical base-field elements (Fp for G1, Fp2 for G2)
  Words,       \* what the bytes of one coordinate can spell, canonical or not
  Zero, One,   \* of Field
  Curve,       \* the points with affine coordinates
  Subgroup,    \* the prime-order subgroup, infinity included
  Gen,         \* its standard generator
  Larger(_),   \* "y is the lexicographically larger of y and -y"
  Plus(_, _), Minus(_), Times(_, _),   \* the group law and k.P
  R,           \* the order of Subgroup; scalars are 0 .. R-1
  HEff,        \* the effective cofactor H_EFF_G1 / H_EFF_G2
  JacReps(_),  \* the projective triples (X, Y, Z) that stand for a point
  ToAffine(_)  \* the point a triple stands for (blst_p1_to_affine)

Inf == <<Zero, Zero>>
E == Curve \cup {Inf}
Scalars == 0 .. (R - 1)
Jacobians == UNION {JacReps(P) : P \in E}

-----------------------------------------------------------------------------

ASSUME FieldAssumption ==
  /\ Zero \in Field /\ One \in Field
  /\ Field \subseteq Words
  /\ Curve \subseteq Field \X Field
  /\ Inf \notin Curve

(* Of the points with one x-coordinate at most one has the larger y.       *)
ASSUME SignAssumption ==
  /\ \A y \in Field : Larger(y) \in BOOLEAN
  /\ \A P, Q \in Curve :
       P[1] = Q[1] /\ (Larger(P[2]) <=> Larger(Q[2])) => P = Q

ASSUME GroupAssumption ==
  /\ \A P, Q \in E : Plus(P, Q) \in E
  /\ \A P \in E : Minus(P) \in E
  /\ \A P \in E : Plus(P, Inf) = P /\ Plus(Inf, P) = P
  /\ \A P \in E : Plus(P, Minus(P)) = Inf

ASSUME SubgroupAssumption ==
  /\ Subgroup \subseteq E
  /\ Inf \in Subgroup /\ Gen \in Subgroup
  /\ \A P, Q \in Subgroup : Plus(P, Q) \in Subgroup
  /\ \A P \in Subgroup : Minus(P) \in Subgroup
  /\ \A P \in Subgroup : P # Inf => P[1] # Zero   \* x = 0 has order 3

ASSUME ScalarAssumption ==
  /\ R \in Nat \ {0}
  /\ HEff \in Nat
  /\ \A k \in Scalars, P \in E : Times(k, P) \in E
  /\ \A k \in Scalars, P \in Subgroup : Times(k, P) \in Subgroup

(* Multiplying by the effective cofactor lands in the subgroup.            *)
ASSUME CofactorAssumption ==
  \A P \in E : Times(HEff, P) \in Subgroup

(* Every point has a triple, and a triple stands for one point.            *)
ASSUME JacobianAssumption == \A P \in E :
  /\ JacReps(P) # {}
  /\ JacReps(P) \subseteq Field \X Field \X Field
  /\ \A j \in JacReps(P) : ToAffine(j) = P
=============================================================================
