-------------------------------- MODULE Point -------------------------------
(***************************************************************************)
(* A program using G1Affine and G1Projective of backend_blst/g1.rs (and,   *)
(* with Name = "G2", the same operations of g2.rs).  It holds one affine   *)
(* and two projective values and may call any operation at any time; the   *)
(* projective values are triples (X, Y, Z), of which a point has many.     *)
(***************************************************************************)
EXTENDS AffinePoint

CONSTANTS
  ScalarBits,  \* how many bits `Mul` passes to blst_p1_mult (255)
  HEffBits,    \* how many clear_cofactor passes (64 for G1, 636 for G2)
  Inputs       \* the compressed encodings that callers decode

ASSUME BitsAssumption ==
  /\ 2^ScalarBits \in Nat /\ R <= 2^ScalarBits
  /\ 2^HEffBits \in Nat /\ HEff < 2^HEffBits

ASSUME InputsAssumption == Inputs \subseteq CompressedBytes

-----------------------------------------------------------------------------
(* The operations of the projective type.  Each that computes in `blst`    *)
(* gives the set of triples it may return.                                 *)

ProjIdentity == FromAffine(Inf)
ProjGenerator == FromAffine(Gen)

ProjDouble(j) == Triples(Plus(ToAffine(j), ToAffine(j)))
ProjAdd(j, k) == Triples(Plus(ToAffine(j), ToAffine(k)))
AddMixed(j, P) == Triples(Plus(ToAffine(j), P))
ProjNeg(j) == Triples(Minus(ToAffine(j)))
ProjSub(j, k) == UNION {ProjAdd(j, n) : n \in ProjNeg(k)}

(* An operand of affine type is converted first.                           *)
ProjSubAffine(j, P) == UNION {ProjSub(j, k) : k \in FromAffine(P)}
AffineAdd(P, Q) ==
  UNION {ProjAdd(j, k) : j \in FromAffine(P), k \in FromAffine(Q)}
AffineAddProj(P, k) == UNION {ProjAdd(j, k) : j \in FromAffine(P)}
AffineSubProj(P, k) == UNION {ProjSub(j, k) : j \in FromAffine(P)}
AffineSub(P, Q) == UNION {AffineSubProj(P, k) : k \in FromAffine(Q)}

(* Sum folds from the identity.                                            *)
SumOfTwo(j, k) ==
  UNION {ProjAdd(s, k) : s \in UNION {ProjAdd(i, j) : i \in ProjIdentity}}

MulMissingTopBit(j, k) == Triples(Mult(ToAffine(j), k, ScalarBits - 1))
ProjMul(j, k) == Triples(Mult(ToAffine(j), k, ScalarBits))
AffineMul(P, k) == UNION {ProjMul(j, k) : j \in FromAffine(P)}
ClearMissingTopBit(j) == Triples(Mult(ToAffine(j), HEff, HEffBits - 1))
ProjClearCofactor(j) == Triples(Mult(ToAffine(j), HEff, HEffBits))

SelectForgettingZ(j, k, c) ==
  <<IF c THEN k[1] ELSE j[1], IF c THEN k[2] ELSE j[2], j[3]>>

(* Selection is by limb, on all three coordinates.                         *)
ProjSelect(j, k, c) ==
  <<IF c THEN k[1] ELSE j[1], IF c THEN k[2] ELSE j[2], IF c THEN k[3] ELSE j[3]>>

EqByLimbs(j, k) == j = k
ProjEq(j, k) == JacIsEqual(j, k)
ProjCtEq(j, k) == AffineCtEq(FromProjective(j), FromProjective(k))
ProjIsIdentity(j) == JacIsInf(j)
ProjToBytes(j) == ToBytes(FromProjective(j))

(* CtOption::map converts the default value when there is none.            *)
MapToProj(o) ==
  [is_some |-> o.is_some, value |-> FromAffine(IF o.is_some THEN o.value ELSE Inf)]

ProjFromBytesUnchecked(b) == MapToProj(FromBytesUnchecked(b))
ProjFromBytes(b) == MapToProj(FromBytes(b))

-----------------------------------------------------------------------------
VARIABLES
  a,           \* an affine value
  p, q,        \* projective values
  ua, up, uq,  \* ghosts: whether each derives from an unchecked decoding
  op           \* ghost: the operation called last, with its scalar or choice

vars == <<a, p, q, ua, up, uq, op>>

Init ==
  /\ a = Inf /\ p \in ProjIdentity /\ q \in ProjIdentity
  /\ ua = FALSE /\ up = FALSE /\ uq = FALSE
  /\ op = <<"default">>

SetA(S, u, o) == a' \in S /\ ua' = u /\ op' = o /\ UNCHANGED <<p, q, up, uq>>
SetP(S, u, o) == p' \in S /\ up' = u /\ op' = o /\ UNCHANGED <<a, q, ua, uq>>
SetQ(S, u, o) == q' \in S /\ uq' = u /\ op' = o /\ UNCHANGED <<a, p, ua, up>>

(* Identity, Default and zeroize; the generators.                          *)
Constants ==
  \/ SetA({Inf}, FALSE, <<"identity">>)
  \/ SetA({Gen}, FALSE, <<"generator">>)
  \/ SetP(ProjIdentity, FALSE, <<"identity">>)
  \/ SetP(ProjGenerator, FALSE, <<"generator">>)

(* hash_to_g1 and Group::random: a point of the subgroup, by the contract  *)
(* of blst_hash_to_g1.                                                     *)
Random == \E e \in Subgroup : SetP(Triples(e), FALSE, <<"random">>)
HashToCurve == \E e \in Subgroup : SetP(Triples(e), FALSE, <<"hash">>)

(* What decoding the inputs gives, when there is something; a caller keeps *)
(* its value when there is not.                                            *)
Values(Decode(_)) == {Decode(b).value : b \in {i \in Inputs : Decode(i).is_some}}
CheckedAffines == Values(FromBytes)
UncheckedAffines == Values(FromBytesUnchecked)
CheckedProjs == UNION Values(ProjFromBytes)
UncheckedProjs == UNION Values(ProjFromBytesUnchecked)

DecodeAffine == SetA(CheckedAffines, FALSE, <<"from_bytes">>)
DecodeProj == SetP(CheckedProjs, FALSE, <<"from_bytes">>)
DecodeAffineUnchecked ==
  SetA(UncheckedAffines, TRUE, <<"from_bytes_unchecked">>)
DecodeProjUnchecked ==
  SetP(UncheckedProjs, TRUE, <<"from_bytes_unchecked">>)

ToAffineForm == SetA({FromProjective(p)}, up, <<"to_affine">>)
ToProjForm == SetP(FromAffine(a), ua, <<"to_curve">>)
Copy == SetQ({p}, up, <<"copy">>)

SelectAffine == \E c \in BOOLEAN :
  SetA({AffineSelect(a, FromProjective(p), c)}, IF c THEN up ELSE ua,
       <<"select", c>>)
SelectProj == \E c \in BOOLEAN :
  SetP({ProjSelect(p, q, c)}, IF c THEN uq ELSE up, <<"select", c>>)

NegateAffine == SetA(AffineNeg(a), ua, <<"neg">>)
NegateProj == SetP(ProjNeg(p), up, <<"neg">>)
Double == SetP(ProjDouble(p), up, <<"double">>)

AddProj == SetP(ProjAdd(p, q), up \/ uq, <<"add">>)
AddAffine ==
  \/ SetP(AddMixed(p, a), up \/ ua, <<"add_mixed">>)
  \/ SetP(AffineAddProj(a, p), ua \/ up, <<"affine add projective">>)
AddAffines == SetP(AffineAdd(a, FromProjective(p)), ua \/ up, <<"affine add">>)
CallSum == SetP(SumOfTwo(p, q), up \/ uq, <<"sum">>)

Subtract == \/ SetP(ProjSub(p, q), up \/ uq, <<"sub">>)
            \/ SetP(ProjSubAffine(p, a), up \/ ua, <<"sub affine">>)
            \/ SetP(AffineSub(a, FromProjective(p)), ua \/ up, <<"affine sub">>)
            \/ SetP(AffineSubProj(a, p), ua \/ up, <<"affine sub projective">>)

MultiplyAffine == \E k \in Scalars :
  SetP(AffineMul(a, k), ua, <<"affine mul", k>>)
MultiplyProj == \E k \in Scalars : SetP(ProjMul(p, k), up, <<"mul", k>>)
ClearCofactor == SetP(ProjClearCofactor(p), FALSE, <<"clear_cofactor">>)

Next ==
  \/ Constants \/ Random \/ HashToCurve
  \/ DecodeAffine \/ DecodeProj \/ DecodeAffineUnchecked \/ DecodeProjUnchecked
  \/ ToAffineForm \/ ToProjForm \/ Copy \/ SelectAffine \/ SelectProj
  \/ NegateAffine \/ NegateProj \/ Double
  \/ AddProj \/ AddAffine \/ AddAffines \/ CallSum \/ Subtract
  \/ MultiplyAffine \/ MultiplyProj \/ ClearCofactor

Spec == Init /\ [][Next]_vars

-----------------------------------------------------------------------------
(* Properties.                                                             *)

TypeOK ==
  /\ a \in E
  /\ p \in Jacobians /\ q \in Jacobians
  /\ ua \in BOOLEAN /\ up \in BOOLEAN /\ uq \in BOOLEAN

(* A value no unchecked decoding contributed to is in the prime-order      *)
(* subgroup, after any sequence of calls; clearing the cofactor brings any *)
(* value into it, whatever its history.                                    *)
SubgroupSafety ==
  /\ ~ua => a \in Subgroup
  /\ ~up => ToAffine(p) \in Subgroup
  /\ ~uq => ToAffine(q) \in Subgroup

(* The five notions of equality agree: PartialEq and ct_eq on either type  *)
(* and equality of encodings.  Triples of one point may differ, so none of *)
(* the projective ones can compare limbs.                                  *)
EqualityAgrees ==
  /\ ProjEq(p, q) <=> ProjCtEq(p, q)
  /\ ProjEq(p, q) <=> ProjToBytes(p) = ProjToBytes(q)
  /\ ProjEq(p, q) <=> AffineEq(FromProjective(p), FromProjective(q))
  /\ AffineEq(a, FromProjective(p)) <=> AffineCtEq(a, FromProjective(p))
  /\ \A j \in FromAffine(a) : ProjEq(j, p) <=> AffineEq(a, FromProjective(p))
  /\ \A j \in ProjIdentity : ProjIsIdentity(p) <=> ProjEq(p, j)

(* What a safe program holds can be sent and read back: its encoding is    *)
(* accepted by the checked decoder and gives an equal value.  Of any other *)
(* value the decoder's verdict is is_torsion_free.                         *)
SafeValuesReencode ==
  LET o == ProjFromBytes(ProjToBytes(p))
  IN  /\ ~up => o.is_some
      /\ o.is_some <=> AffineInGroup(FromProjective(p))
      /\ o.is_some => \A j \in o.value : ProjEq(j, p)

(* Each limb-level operation implements the group operation of its name,   *)
(* on the scalar it was given: see PointGroup.                             *)
Group == INSTANCE PointGroup
           WITH eA <- a, eP <- ToAffine(p), eQ <- ToAffine(q),
                uA <- ua, uP <- up, uQ <- uq, op <- op
ImplementsGroup == Group!Spec
=============================================================================
