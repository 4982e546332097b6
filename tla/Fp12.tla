-------------------------------- MODULE Fp12 --------------------------------
(***************************************************************************)
(* The field the pairing lands in, as backend_blst/pairings.rs uses it     *)
(* through `blst` (external).  An element is a pair of halves (Fp6); the   *)
(* raw form of a half may spell a value that is not canonical.             *)
(*                                                                         *)
(* Three nested groups of non-zero elements matter: Units, where Miller    *)
(* loop results live; Cyclotomic, where conjugation is inversion; and      *)
(* GtGroup, the image of the final exponentiation, cyclic of prime order.  *)
(***************************************************************************)
EXTENDS Integers

CONSTANTS
  Half,         \* canonical values of a half
  HalfWords,    \* what the bytes of a half can spell
  FZero, FOne,  \* of the field
  FMul(_, _),   \* blst_fp12_mul; blst_fp12_sqr squares with it
  FConj(_),     \* blst_fp12_conjugate
  FinalExp(_),  \* final_exp
  Cyclotomic,
  GtGroup,
  GtGen,        \* GT_GENERATOR
  GtOrder,      \* the order of GtGroup; scalars are 0 .. GtOrder - 1
  Pow(_, _),    \* g^n, of an element of GtGroup
  WalkBits      \* how many bits of a scalar mul_scalar walks (256)

Fp12 == Half \X Half
RawFp12 == HalfWords \X HalfWords
Units == Fp12 \ {FZero}
GtScalars == 0 .. (GtOrder - 1)

(* in_group: of order GtOrder, which zero is not.                          *)
InGroup(x) == x \in GtGroup

(* The exponent of an element of GtGroup to the base of the generator.     *)
Log(x) == CHOOSE e \in GtScalars : Pow(GtGen, e) = x

-----------------------------------------------------------------------------

ASSUME TowerAssumption ==
  /\ Half \subseteq HalfWords
  /\ FZero \in Fp12 /\ FOne \in GtGroup
  /\ GtGroup \subseteq Cyclotomic /\ Cyclotomic \subseteq Units
  /\ \A x, y \in Units : FMul(x, y) \in Units

(* Outside Cyclotomic the conjugate of an element is not its inverse.      *)
ASSUME ConjugateAssumption ==
  \A x \in Cyclotomic : FMul(x, FConj(x)) = FOne

ASSUME FinalExpAssumption ==
  /\ \A x \in Units : FinalExp(x) \in GtGroup
  /\ FinalExp(FOne) = FOne

ASSUME GtAssumption ==
  /\ \A x, y \in GtGroup : FMul(x, y) \in GtGroup
  /\ \A x \in GtGroup : FConj(x) \in GtGroup
  /\ GtGen \in GtGroup

(* The laws of exponents, below the order.                                 *)
ASSUME PowAssumption ==
  /\ GtOrder \in Nat \ {0}
  /\ \A x \in GtGroup :
       /\ Pow(x, 0) = FOne
       /\ \A n \in GtScalars :
            /\ Pow(x, n) \in GtGroup
            /\ n + 1 \in GtScalars => Pow(x, n + 1) = FMul(Pow(x, n), x)
            /\ 2 * n \in GtScalars => Pow(x, 2 * n) = FMul(Pow(x, n), Pow(x, n))

ASSUME WalkAssumption ==
  /\ WalkBits \in Nat /\ GtOrder <= 2^WalkBits
  /\ 2^0 = 1
  /\ \A j \in 0 .. WalkBits : 2^j \in Nat \ {0} /\ 2^(j + 1) = 2 * 2^j

(* GtGroup is cyclic of order GtOrder.                                     *)
ASSUME LogAssumption ==
  /\ \A x \in GtGroup : \E e \in GtScalars : Pow(GtGen, e) = x
  /\ \A d, e \in GtScalars :
       /\ Pow(GtGen, d) = Pow(GtGen, e) => d = e
       /\ FMul(Pow(GtGen, d), Pow(GtGen, e)) = Pow(GtGen, (d + e) % GtOrder)
       /\ Pow(Pow(GtGen, d), e) = Pow(GtGen, (d * e) % GtOrder)
=============================================================================
