----------------------------- MODULE PointProofs ----------------------------
(***************************************************************************)
(* The properties of Point, for every curve, every set of decoded inputs   *)
(* and every number of scalar bits that fits the group order.              *)
(*                                                                         *)
(* The argument: every operation on triples is a group operation on the    *)
(* points they stand for (SimulationStep), group operations keep untainted *)
(* elements in the subgroup (AbstractStep), hence so do the operations on  *)
(* triples.                                                                *)
(***************************************************************************)
EXTENDS Point, OperatorProofs

(* Every triple blst may return is one of the point it stands for.         *)
LEMMA JacobiansStand ==
  ASSUME NEW j \in Jacobians
  PROVE  /\ ToAffine(j) \in E
         /\ j = <<j[1], j[2], j[3]>>
         /\ j \in Triples(ToAffine(j))
<1>1. PICK P \in E : j \in JacReps(P)
  BY DEF Jacobians
<1>2. ToAffine(j) = P /\ j \in Field \X Field \X Field
  BY <1>1, JacobianAssumption
<1> QED
  BY <1>1, <1>2 DEF Triples

(* 255 bits are all the bits of a scalar, and the cofactor fits as well.   *)
LEMMA MultReadsWholeScalar ==
  /\ \A k \in Scalars, P \in E : Mult(P, k, ScalarBits) = Times(k, P)
  /\ \A P \in E : Mult(P, HEff, HEffBits) = Times(HEff, P)
<1>1. ASSUME NEW n \in Nat, NEW k \in Nat, k < n
      PROVE  k % n = k
  BY <1>1
<1>2. ASSUME NEW k \in Scalars
      PROVE  k % 2^ScalarBits = k
  <2>1. k \in Nat /\ k < 2^ScalarBits /\ 2^ScalarBits \in Nat
    BY BitsAssumption, ScalarAssumption DEF Scalars
  <2> QED
    BY <1>1, <2>1
<1>3. HEff % 2^HEffBits = HEff
  BY <1>1, BitsAssumption, ScalarAssumption
<1> QED
  BY <1>2, <1>3 DEF Mult

(* Selecting limb by limb selects one of the two values.                   *)
LEMMA SelectIsEither ==
  /\ \A j, k \in Jacobians, c \in BOOLEAN : ProjSelect(j, k, c) = IF c THEN k ELSE j
  /\ \A P, Q \in E, c \in BOOLEAN : AffineSelect(P, Q, c) = IF c THEN Q ELSE P
BY JacobiansStand, PointsArePairs DEF ProjSelect, AffineSelect

(* What the decoders hand to a caller.                                     *)
LEMMA DecodedValues ==
  /\ CheckedAffines \subseteq Subgroup
  /\ UncheckedAffines \subseteq E
  /\ \A j \in CheckedProjs : j \in Jacobians /\ ToAffine(j) \in Subgroup
  /\ \A j \in UncheckedProjs : j \in Jacobians /\ ToAffine(j) \in E
<1>1. \A b \in Inputs : FromBytes(b).is_some => FromBytes(b).value \in Subgroup
  BY InputsAssumption, CheckedCompressedExact
<1>2. \A b \in Inputs : FromBytesUnchecked(b).is_some => FromBytesUnchecked(b).value \in E
  BY InputsAssumption, UncheckedCompressedExact
<1>3. CheckedAffines \subseteq Subgroup
  BY <1>1 DEF CheckedAffines, Values
<1>4. UncheckedAffines \subseteq E
  BY <1>2 DEF UncheckedAffines, Values
<1>5. ASSUME NEW j \in CheckedProjs
      PROVE  j \in Jacobians /\ ToAffine(j) \in Subgroup
  <2>1. PICK b \in Inputs : FromBytes(b).is_some /\ j \in Triples(FromBytes(b).value)
    BY <1>5 DEF CheckedProjs, Values, ProjFromBytes, MapToProj, FromAffine
  <2> QED
    BY <1>1, <2>1, SubgroupAssumption, TriplesStand
<1>6. ASSUME NEW j \in UncheckedProjs
      PROVE  j \in Jacobians /\ ToAffine(j) \in E
  <2>1. PICK b \in Inputs :
          FromBytesUnchecked(b).is_some /\ j \in Triples(FromBytesUnchecked(b).value)
    BY <1>6 DEF UncheckedProjs, Values, ProjFromBytesUnchecked, MapToProj, FromAffine
  <2> QED
    BY <1>2, <2>1, TriplesStand
<1> QED
  BY <1>3, <1>4, <1>5, <1>6

-----------------------------------------------------------------------------
(* Each operation on triples against the group operation of its name.      *)

(* The triples in S all stand for the point e.                             *)
Represents(S, e) == \A j \in S : j \in Jacobians /\ ToAffine(j) = e

(* What blst writes for a point, and what From makes of one.               *)
LEMMA TriplesRepresent ==
  ASSUME NEW P \in E
  PROVE  Represents(Triples(P), P) /\ Represents(FromAffine(P), P)
BY TriplesStand DEF Represents, FromAffine

(* Doubling, both additions and negation of triples are those of points.   *)
LEMMA AdditionImplements ==
  ASSUME NEW j \in Jacobians, NEW k \in Jacobians, NEW P \in E
  PROVE  /\ Represents(ProjDouble(j), Plus(ToAffine(j), ToAffine(j)))
         /\ Represents(ProjAdd(j, k), Plus(ToAffine(j), ToAffine(k)))
         /\ Represents(AddMixed(j, P), Plus(ToAffine(j), P))
         /\ Represents(ProjNeg(j), Minus(ToAffine(j)))
BY JacobiansStand, GroupAssumption, TriplesRepresent
   DEF ProjDouble, ProjAdd, AddMixed, ProjNeg

(* Neg of an affine point comes back from its triple as the negation.      *)
LEMMA AffineNegImplements ==
  ASSUME NEW P \in E
  PROVE  AffineNeg(P) \subseteq {Minus(P)}
<1> SUFFICES ASSUME NEW Q \in AffineNeg(P)
             PROVE  Q = Minus(P)
  OBVIOUS
<1>1. PICK j \in FromAffine(P) : \E n \in Triples(Minus(ToAffine(j))) : Q = ToAffine(n)
  BY DEF AffineNeg, FromProjective
<1>2. ToAffine(j) = P /\ Minus(P) \in E
  BY <1>1, TriplesStand, GroupAssumption DEF FromAffine
<1> QED
  BY <1>1, <1>2, TriplesStand

(* Subtraction, which negates and adds, of either kind of operand.         *)
LEMMA SubtractionImplements ==
  ASSUME NEW j \in Jacobians, NEW k \in Jacobians, NEW P \in E, NEW Q \in E
  PROVE  /\ Represents(ProjSub(j, k), Plus(ToAffine(j), Minus(ToAffine(k))))
         /\ Represents(ProjSubAffine(j, P), Plus(ToAffine(j), Minus(P)))
         /\ Represents(AffineSubProj(P, k), Plus(P, Minus(ToAffine(k))))
         /\ Represents(AffineSub(P, Q), Plus(P, Minus(Q)))
<1>1. \A i, l \in Jacobians :
        Represents(ProjSub(i, l), Plus(ToAffine(i), Minus(ToAffine(l))))
  BY AdditionImplements DEF ProjSub, Represents
<1>2. Represents(FromAffine(P), P)
  BY TriplesRepresent
<1>3. Represents(ProjSubAffine(j, P), Plus(ToAffine(j), Minus(P)))
  BY <1>1, <1>2 DEF ProjSubAffine, Represents
<1>4. \A l \in Jacobians :
        Represents(AffineSubProj(P, l), Plus(P, Minus(ToAffine(l))))
  BY <1>1, <1>2 DEF AffineSubProj, Represents
<1>5. Represents(AffineSub(P, Q), Plus(P, Minus(Q)))
  BY <1>4, TriplesRepresent DEF AffineSub, Represents
<1> QED
  BY <1>1, <1>3, <1>4, <1>5

(* Sums that begin with an affine point, and Sum.                          *)
LEMMA MixedSumsImplement ==
  ASSUME NEW j \in Jacobians, NEW k \in Jacobians, NEW P \in E, NEW Q \in E
  PROVE  /\ Represents(AffineAdd(P, Q), Plus(P, Q))
         /\ Represents(AffineAddProj(P, k), Plus(P, ToAffine(k)))
         /\ Represents(SumOfTwo(j, k), Plus(ToAffine(j), ToAffine(k)))
<1>1. \A i, l \in Jacobians :
        Represents(ProjAdd(i, l), Plus(ToAffine(i), ToAffine(l)))
  BY AdditionImplements
<1>2. Represents(AffineAdd(P, Q), Plus(P, Q))
  BY <1>1, TriplesRepresent DEF AffineAdd, Represents
<1>3. Represents(AffineAddProj(P, k), Plus(P, ToAffine(k)))
  BY <1>1, TriplesRepresent DEF AffineAddProj, Represents
<1>4. Represents(ProjIdentity, Inf)
  BY TriplesRepresent DEF ProjIdentity, E
<1>5. \A i \in ProjIdentity : Represents(ProjAdd(i, j), ToAffine(j))
  BY <1>1, <1>4, JacobiansStand, GroupAssumption DEF Represents
<1>6. Represents(SumOfTwo(j, k), Plus(ToAffine(j), ToAffine(k)))
  BY <1>1, <1>5 DEF SumOfTwo, Represents
<1> QED
  BY <1>2, <1>3, <1>6

(* Scalar multiplication and cofactor clearing.                            *)
LEMMA MultiplicationImplements ==
  ASSUME NEW j \in Jacobians, NEW P \in E
  PROVE  /\ \A k \in Scalars : Represents(ProjMul(j, k), Times(k, ToAffine(j)))
         /\ \A k \in Scalars : Represents(AffineMul(P, k), Times(k, P))
         /\ Represents(ProjClearCofactor(j), Times(HEff, ToAffine(j)))
<1>1. \A i \in Jacobians, k \in Scalars :
        Represents(ProjMul(i, k), Times(k, ToAffine(i)))
  BY JacobiansStand, MultReadsWholeScalar, ScalarAssumption, TriplesRepresent
     DEF ProjMul
<1>2. \A k \in Scalars : Represents(AffineMul(P, k), Times(k, P))
  BY <1>1, TriplesRepresent DEF AffineMul, Represents
<1>3. Represents(ProjClearCofactor(j), Times(HEff, ToAffine(j)))
  BY JacobiansStand, MultReadsWholeScalar, CofactorAssumption,
     SubgroupAssumption, TriplesRepresent DEF ProjClearCofactor
<1> QED
  BY <1>1, <1>2, <1>3

-----------------------------------------------------------------------------
(* The refinement.                                                         *)

LEMMA SimulationInit == Init => TypeOK /\ Group!Init
<1>1. Inf \in E /\ Represents(ProjIdentity, Inf)
  BY TriplesRepresent DEF ProjIdentity, E
<1> QED
  BY <1>1 DEF Init, TypeOK, Group!Init, Represents, Group!Inf, Inf

(* Writing a triple that stands for e is setting the element to e.         *)
LEMMA SetImplements ==
  ASSUME TypeOK, NEW S, NEW e, NEW u \in BOOLEAN, NEW o
  PROVE  /\ Represents(S, e) /\ SetP(S, u, o) => TypeOK' /\ Group!SetP({e}, u, o)
         /\ S \subseteq {e} /\ e \in E /\ SetA(S, u, o)
              => TypeOK' /\ Group!SetA({e}, u, o)
BY DEF TypeOK, Represents, SetP, SetA, Group!SetP, Group!SetA

(* Every operation is the abstract one, and keeps the types.               *)
LEMMA SimulationStep == TypeOK /\ [Next]_vars => TypeOK' /\ [Group!Next]_(Group!vars)
<1> SUFFICES ASSUME TypeOK, [Next]_vars
             PROVE  TypeOK' /\ [Group!Next]_(Group!vars)
  OBVIOUS
<1>0. /\ a \in E /\ p \in Jacobians /\ q \in Jacobians
      /\ ToAffine(p) \in E /\ ToAffine(q) \in E
      /\ ua \in BOOLEAN /\ up \in BOOLEAN /\ uq \in BOOLEAN
      /\ Inf \in Subgroup /\ Gen \in Subgroup /\ Subgroup \subseteq E
      /\ Represents(FromAffine(Inf), Inf) /\ Represents(FromAffine(Gen), Gen)
      /\ Represents(FromAffine(a), a)
  BY JacobiansStand, SubgroupAssumption, TriplesRepresent DEF TypeOK
<1>1. ASSUME NEW o \in {"random", "hash", "from_bytes"},
             \/ \E S : SetA(S, FALSE, <<o>>) /\ S \subseteq Subgroup
             \/ \E S : SetP(S, FALSE, <<o>>)
                  /\ \A j \in S : j \in Jacobians /\ ToAffine(j) \in Subgroup
      PROVE  TypeOK' /\ Group!Obtain
  BY <1>0, <1>1
     DEF TypeOK, SetA, SetP, Group!Obtain, Group!SetA, Group!SetP
<1>2. CASE Constants
  BY <1>0, <1>2, SetImplements
     DEF Constants, ProjIdentity, ProjGenerator, Group!Next, Group!Constants,
         Group!Inf, Inf
<1>3. CASE Random
  <2>1. PICK e \in Subgroup : SetP(Triples(e), FALSE, <<"random">>)
    BY <1>3 DEF Random
  <2>2. \A j \in Triples(e) : j \in Jacobians /\ ToAffine(j) \in Subgroup
    BY <1>0, TriplesStand
  <2> QED
    BY <1>1, <2>1, <2>2 DEF Group!Next
<1>4. CASE HashToCurve
  <2>1. PICK e \in Subgroup : SetP(Triples(e), FALSE, <<"hash">>)
    BY <1>4 DEF HashToCurve
  <2>2. \A j \in Triples(e) : j \in Jacobians /\ ToAffine(j) \in Subgroup
    BY <1>0, TriplesStand
  <2> QED
    BY <1>1, <2>1, <2>2 DEF Group!Next
<1>5. CASE DecodeAffine
  BY <1>1, <1>5, DecodedValues DEF DecodeAffine, Group!Next
<1>6. CASE DecodeProj
  BY <1>1, <1>6, DecodedValues DEF DecodeProj, Group!Next
<1>7. CASE DecodeAffineUnchecked
  BY <1>7, DecodedValues
     DEF DecodeAffineUnchecked, TypeOK, SetA, Group!Next, Group!ObtainUnchecked,
         Group!SetA, Group!E, Group!Inf, E, Inf
<1>8. CASE DecodeProjUnchecked
  BY <1>8, DecodedValues
     DEF DecodeProjUnchecked, TypeOK, SetP, Group!Next, Group!ObtainUnchecked,
         Group!SetP, Group!E, Group!Inf, E, Inf
<1>9. CASE ToAffineForm
  <2>1. SetA({ToAffine(p)}, up, <<"to_affine">>)
    BY <1>9 DEF ToAffineForm, FromProjective
  <2>2. TypeOK' /\ Group!SetA({ToAffine(p)}, up, <<"to_affine">>)
    BY <1>0, <2>1, SetImplements
  <2> QED
    BY <2>2 DEF Group!Next, Group!Move
<1>10. CASE ToProjForm
  BY <1>0, <1>10, SetImplements DEF ToProjForm, Group!Next, Group!Move
<1>11. CASE Copy
  BY <1>0, <1>11 DEF Copy, SetQ, TypeOK, Group!Next, Group!Move, Group!SetQ
<1>12. CASE SelectAffine \/ SelectProj
  <2>1. ASSUME NEW c \in BOOLEAN
        PROVE  /\ ProjSelect(p, q, c) = IF c THEN q ELSE p
               /\ AffineSelect(a, ToAffine(p), c) = IF c THEN ToAffine(p) ELSE a
    BY <1>0, SelectIsEither
  <2>2. Represents({q}, ToAffine(q)) /\ Represents({p}, ToAffine(p))
    BY <1>0 DEF Represents
  <2>3. CASE SelectAffine
    <3>1. \/ SetA({ToAffine(p)}, up, <<"select", TRUE>>)
          \/ SetA({a}, ua, <<"select", FALSE>>)
      BY <2>1, <2>3 DEF SelectAffine, FromProjective
    <3> QED
      BY <1>0, <2>2, <3>1, SetImplements DEF Group!Next, Group!Select
  <2>4. CASE SelectProj
    <3>1. \/ SetP({q}, uq, <<"select", TRUE>>)
          \/ SetP({p}, up, <<"select", FALSE>>)
      BY <2>1, <2>4 DEF SelectProj
    <3>2. /\ \/ Group!SetP({ToAffine(q)}, uq, <<"select", TRUE>>)
             \/ Group!SetP({ToAffine(p)}, up, <<"select", FALSE>>)
          /\ TypeOK'
      BY <1>0, <2>2, <3>1, SetImplements
    <3> QED
      BY <3>2 DEF Group!Next, Group!Select
  <2> QED
    BY <1>12, <2>3, <2>4
<1>13. CASE NegateAffine \/ NegateProj
  <2>1. CASE NegateAffine
    <3>1. AffineNeg(a) \subseteq {Minus(a)} /\ Minus(a) \in E
      BY <1>0, AffineNegImplements, GroupAssumption
    <3>2. Group!SetA({Minus(a)}, ua, <<"neg">>) /\ TypeOK'
      BY <1>0, <2>1, <3>1, SetImplements DEF NegateAffine
    <3> QED
      BY <3>2 DEF Group!Next, Group!Negate
  <2>2. CASE NegateProj
    <3>1. Represents(ProjNeg(p), Minus(ToAffine(p)))
      BY <1>0, AdditionImplements
    <3>2. Group!SetP({Minus(ToAffine(p))}, up, <<"neg">>) /\ TypeOK'
      BY <1>0, <2>2, <3>1, SetImplements DEF NegateProj
    <3> QED
      BY <3>2 DEF Group!Next, Group!Negate
  <2> QED
    BY <1>13, <2>1, <2>2
<1>14. CASE Double
  <2>1. Represents(ProjDouble(p), Plus(ToAffine(p), ToAffine(p)))
    BY <1>0, AdditionImplements
  <2>2. Group!SetP({Plus(ToAffine(p), ToAffine(p))}, up, <<"double">>) /\ TypeOK'
    BY <1>0, <1>14, <2>1, SetImplements DEF Double
  <2> QED
    BY <2>2 DEF Group!Next, Group!Double
<1>15. CASE AddProj \/ AddAffine \/ AddAffines \/ CallSum
  <2>1. /\ Represents(ProjAdd(p, q), Plus(ToAffine(p), ToAffine(q)))
        /\ Represents(SumOfTwo(p, q), Plus(ToAffine(p), ToAffine(q)))
        /\ Represents(AddMixed(p, a), Plus(ToAffine(p), a))
        /\ Represents(AffineAdd(a, FromProjective(p)), Plus(a, ToAffine(p)))
        /\ Represents(AffineAddProj(a, p), Plus(a, ToAffine(p)))
    BY <1>0, JacobiansStand, AdditionImplements, MixedSumsImplement DEF FromProjective
  <2>2. CASE AddProj
    <3>1. Group!SetP({Plus(ToAffine(p), ToAffine(q))}, up \/ uq, <<"add">>) /\ TypeOK'
      BY <1>0, <2>1, <2>2, SetImplements DEF AddProj
    <3> QED
      BY <3>1 DEF Group!Next, Group!Add
  <2>3. CASE AddAffine
    <3>1. CASE SetP(AddMixed(p, a), up \/ ua, <<"add_mixed">>)
      <4>1. Group!SetP({Plus(ToAffine(p), a)}, up \/ ua, <<"add_mixed">>) /\ TypeOK'
        BY <1>0, <2>1, <3>1, SetImplements
      <4> QED
        BY <4>1 DEF Group!Next, Group!Add
    <3>2. CASE SetP(AffineAddProj(a, p), ua \/ up, <<"affine add projective">>)
      <4>1. Group!SetP({Plus(a, ToAffine(p))}, ua \/ up, <<"affine add projective">>) /\ TypeOK'
        BY <1>0, <2>1, <3>2, SetImplements
      <4> QED
        BY <4>1 DEF Group!Next, Group!Add
    <3> QED
      BY <2>3, <3>1, <3>2 DEF AddAffine
  <2>4. CASE AddAffines
    <3>1. Group!SetP({Plus(a, ToAffine(p))}, ua \/ up, <<"affine add">>) /\ TypeOK'
      BY <1>0, <2>1, <2>4, SetImplements DEF AddAffines
    <3> QED
      BY <3>1 DEF Group!Next, Group!Add
  <2>5. CASE CallSum
    <3>1. Group!SetP({Plus(ToAffine(p), ToAffine(q))}, up \/ uq, <<"sum">>) /\ TypeOK'
      BY <1>0, <2>1, <2>5, SetImplements DEF CallSum
    <3> QED
      BY <3>1 DEF Group!Next, Group!Add
  <2> QED
    BY <1>15, <2>2, <2>3, <2>4, <2>5
<1>16. CASE Subtract
  <2>1. /\ Represents(ProjSub(p, q), Plus(ToAffine(p), Minus(ToAffine(q))))
        /\ Represents(ProjSubAffine(p, a), Plus(ToAffine(p), Minus(a)))
        /\ Represents(AffineSubProj(a, p), Plus(a, Minus(ToAffine(p))))
        /\ Represents(AffineSub(a, FromProjective(p)), Plus(a, Minus(ToAffine(p))))
    BY <1>0, JacobiansStand, SubtractionImplements DEF FromProjective
  <2>2. CASE SetP(ProjSub(p, q), up \/ uq, <<"sub">>)
    <3>1. Group!SetP({Plus(ToAffine(p), Minus(ToAffine(q)))}, up \/ uq, <<"sub">>) /\ TypeOK'
      BY <1>0, <2>1, <2>2, SetImplements
    <3> QED
      BY <3>1 DEF Group!Next, Group!Subtract
  <2>3. CASE SetP(ProjSubAffine(p, a), up \/ ua, <<"sub affine">>)
    <3>1. Group!SetP({Plus(ToAffine(p), Minus(a))}, up \/ ua, <<"sub affine">>) /\ TypeOK'
      BY <1>0, <2>1, <2>3, SetImplements
    <3> QED
      BY <3>1 DEF Group!Next, Group!Subtract
  <2>4. CASE SetP(AffineSubProj(a, p), ua \/ up, <<"affine sub projective">>)
    <3>1. Group!SetP({Plus(a, Minus(ToAffine(p)))}, ua \/ up, <<"affine sub projective">>) /\ TypeOK'
      BY <1>0, <2>1, <2>4, SetImplements
    <3> QED
      BY <3>1 DEF Group!Next, Group!Subtract
  <2>5. CASE SetP(AffineSub(a, FromProjective(p)), ua \/ up, <<"affine sub">>)
    <3>1. Group!SetP({Plus(a, Minus(ToAffine(p)))}, ua \/ up, <<"affine sub">>) /\ TypeOK'
      BY <1>0, <2>1, <2>5, SetImplements
    <3> QED
      BY <3>1 DEF Group!Next, Group!Subtract
  <2> QED
    BY <1>16, <2>2, <2>3, <2>4, <2>5 DEF Subtract
<1>17. CASE MultiplyAffine \/ MultiplyProj
  <2>1. ASSUME NEW k \in Scalars
        PROVE  /\ Represents(ProjMul(p, k), Times(k, ToAffine(p)))
               /\ Represents(AffineMul(a, k), Times(k, a))
    BY <1>0, MultiplicationImplements
  <2>2. CASE MultiplyProj
    <3>1. PICK k \in Scalars : SetP(ProjMul(p, k), up, <<"mul", k>>)
      BY <2>2 DEF MultiplyProj
    <3>2. TypeOK' /\ Group!SetP({Times(k, ToAffine(p))}, up, <<"mul", k>>)
      BY <1>0, <2>1, <3>1, SetImplements
    <3> QED
      BY <3>2 DEF Group!Next, Group!Multiply, Group!Scalars, Scalars
  <2>3. CASE MultiplyAffine
    <3>1. PICK k \in Scalars : SetP(AffineMul(a, k), ua, <<"affine mul", k>>)
      BY <2>3 DEF MultiplyAffine
    <3>2. TypeOK' /\ Group!SetP({Times(k, a)}, ua, <<"affine mul", k>>)
      BY <1>0, <2>1, <3>1, SetImplements
    <3> QED
      BY <3>2 DEF Group!Next, Group!Multiply, Group!Scalars, Scalars
  <2> QED
    BY <1>17, <2>2, <2>3
<1>18. CASE ClearCofactor
  BY <1>0, <1>18, SetImplements, MultiplicationImplements
     DEF ClearCofactor, Group!Next, Group!ClearCofactor
<1>19. CASE UNCHANGED vars
  BY <1>19 DEF vars, TypeOK, Group!vars
<1> QED
  BY <1>2, <1>3, <1>4, <1>5, <1>6, <1>7, <1>8, <1>9, <1>10, <1>11, <1>12, <1>13,
     <1>14, <1>15, <1>16, <1>17, <1>18, <1>19 DEF Next

-----------------------------------------------------------------------------
(* Group operations keep untainted elements in the subgroup.               *)
LEMMA AbstractStep ==
  Group!TypeOK /\ Group!Safe /\ [Group!Next]_(Group!vars) => Group!Safe'
<1> SUFFICES ASSUME Group!TypeOK, Group!Safe, [Group!Next]_(Group!vars)
             PROVE  Group!Safe'
  OBVIOUS
<1> USE DEF Group!SetA, Group!SetP, Group!SetQ
<1>1. CASE Group!Constants \/ Group!Obtain
  BY <1>1, SubgroupAssumption
     DEF Group!Constants, Group!Obtain, Group!Safe, Group!Inf, Inf
<1>2. CASE Group!ObtainUnchecked
  BY <1>2 DEF Group!ObtainUnchecked, Group!Safe
<1>3. CASE Group!Move \/ Group!Select
  BY <1>3 DEF Group!Move, Group!Select, Group!Safe, Group!TypeOK
<1>4. CASE Group!Negate
  BY <1>4, SubgroupAssumption DEF Group!Negate, Group!Safe, Group!TypeOK
<1>5. CASE Group!Double
  BY <1>5, SubgroupAssumption DEF Group!Double, Group!Safe, Group!TypeOK
<1>6. CASE Group!Add
  BY <1>6, SubgroupAssumption DEF Group!Add, Group!Safe, Group!TypeOK
<1>7. CASE Group!Subtract
  BY <1>7, SubgroupAssumption DEF Group!Subtract, Group!Safe, Group!TypeOK
<1>8. CASE Group!Multiply
  <2>1. PICK k \in Scalars : \/ Group!SetP({Times(k, ToAffine(p))}, up, <<"mul", k>>)
                            \/ Group!SetP({Times(k, a)}, ua, <<"affine mul", k>>)
    BY <1>8 DEF Group!Multiply, Group!Scalars, Scalars
  <2>2. \A P \in Subgroup : Times(k, P) \in Subgroup
    BY ScalarAssumption
  <2>3. CASE Group!SetP({Times(k, ToAffine(p))}, up, <<"mul", k>>)
    BY <2>2, <2>3 DEF Group!Safe, Group!TypeOK
  <2>4. CASE Group!SetP({Times(k, a)}, ua, <<"affine mul", k>>)
    BY <2>2, <2>4 DEF Group!Safe, Group!TypeOK
  <2> QED
    BY <2>1, <2>3, <2>4
<1>9. CASE Group!ClearCofactor
  BY <1>9, CofactorAssumption
     DEF Group!ClearCofactor, Group!Safe, Group!TypeOK, Group!E, Group!Inf, E, Inf
<1>10. CASE UNCHANGED Group!vars
  BY <1>10 DEF Group!vars, Group!Safe
<1> QED
  BY <1>1, <1>2, <1>3, <1>4, <1>5, <1>6, <1>7, <1>8, <1>9, <1>10 DEF Group!Next

(* Triples of points of the curve map to points of the curve.              *)
LEMMA TypeOKMaps == TypeOK => Group!TypeOK
BY JacobiansStand DEF TypeOK, Group!TypeOK, Group!E, Group!Inf, E, Inf

-----------------------------------------------------------------------------
(* Whatever is called, the affine value is a point or infinity and the     *)
(* projective values are triples of one.                                   *)
THEOREM PointTypeOK == Spec => []TypeOK
<1>1. Init => TypeOK
  BY SimulationInit
<1>2. TypeOK /\ [Next]_vars => TypeOK'
  BY SimulationStep
<1> QED
  BY <1>1, <1>2, PTL DEF Spec

(* The operations on limbs implement the operations of the group.          *)
THEOREM PointImplementsGroup == Spec => ImplementsGroup
<1>1. Init => Group!Init
  BY SimulationInit
<1>2. TypeOK /\ [Next]_vars => [Group!Next]_(Group!vars)
  BY SimulationStep
<1> QED
  BY <1>1, <1>2, PointTypeOK, PTL DEF Spec, ImplementsGroup, Group!Spec

(* A value that no unchecked decoding contributed to is in the prime-order *)
(* subgroup after any sequence of calls.                                   *)
THEOREM PointSubgroupSafety == Spec => []SubgroupSafety
<1>1. Init => TypeOK /\ Group!Safe
  BY SimulationInit, SubgroupAssumption
     DEF Group!Init, Group!Safe, Group!Inf, Inf
<1>2. TypeOK /\ Group!Safe /\ [Next]_vars => TypeOK' /\ Group!Safe'
  BY SimulationStep, AbstractStep, TypeOKMaps
<1>3. Group!Safe => SubgroupSafety
  BY DEF Group!Safe, SubgroupSafety
<1> QED
  BY <1>1, <1>2, <1>3, PTL DEF Spec

(* All notions of equality of points are equality of the points.           *)
THEOREM PointEqualityAgrees == Spec => []EqualityAgrees
<1>1. TypeOK => EqualityAgrees
  <2> SUFFICES ASSUME TypeOK
               PROVE  EqualityAgrees
    OBVIOUS
  <2>1. ToAffine(p) \in E /\ ToAffine(q) \in E /\ a \in E
    BY JacobiansStand DEF TypeOK
  <2>2. \A P, Q \in E : ToBytes(P) = ToBytes(Q) <=> P = Q
    BY CompressInjective DEF ToBytes
  <2>3. \A j \in FromAffine(a) : ToAffine(j) = a
    BY <2>1, TriplesStand DEF FromAffine
  <2>4. \A j \in ProjIdentity : ToAffine(j) = Inf
    BY TriplesStand DEF ProjIdentity, FromAffine, E
  <2> QED
    BY <2>1, <2>2, <2>3, <2>4
       DEF EqualityAgrees, ProjEq, ProjCtEq, ProjToBytes, ProjIsIdentity, AffineEq,
           AffineCtEq, FromProjective, JacIsEqual, JacIsInf
<1> QED
  BY <1>1, PointTypeOK, PTL

(* What a safe program computes can be encoded and decoded again by the    *)
(* checked decoder, and only a subgroup point can.                         *)
THEOREM PointSafeValuesReencode == Spec => []SafeValuesReencode
<1>1. TypeOK /\ SubgroupSafety => SafeValuesReencode
  <2> SUFFICES ASSUME TypeOK, SubgroupSafety
               PROVE  SafeValuesReencode
    OBVIOUS
  <2> DEFINE P == ToAffine(p)
             b == Compress(P)
             o == FromBytes(b)
  <2>1. P \in E /\ b \in CompressedBytes /\ (~up => P \in Subgroup)
    BY JacobiansStand, UncompressComplete DEF TypeOK, SubgroupSafety
  <2>2. o.is_some \in BOOLEAN /\ (o.is_some <=> P \in Subgroup)
    <3>1. /\ o.is_some \in BOOLEAN
          /\ o.is_some <=> \E Q \in Subgroup : Compress(Q) = b
      BY <2>1, CheckedCompressedExact
    <3> QED
      BY <2>1, <3>1, CompressInjective, SubgroupAssumption
  <2>3. o.is_some => o.value = P
    <3>1. o.is_some => o.value \in Subgroup /\ Compress(o.value) = b
      BY <2>1, CheckedCompressedExact
    <3> QED
      BY <2>1, <3>1, CompressInjective, SubgroupAssumption
  <2>4. ProjToBytes(p) = b
    BY DEF ProjToBytes, ToBytes, FromProjective
  <2>5. /\ ProjFromBytes(b).is_some = o.is_some
        /\ o.is_some => ProjFromBytes(b).value = FromAffine(P)
    BY <2>3 DEF ProjFromBytes, MapToProj
  <2>6. \A j \in FromAffine(P) : ProjEq(j, p)
    BY <2>1, TriplesStand DEF FromAffine, ProjEq, JacIsEqual
  <2> HIDE DEF o, b
  <2> QED
    BY <2>1, <2>2, <2>4, <2>5, <2>6
       DEF SafeValuesReencode, AffineInGroup, FromProjective
<1> QED
  BY <1>1, PointTypeOK, PointSubgroupSafety, PTL
=============================================================================
