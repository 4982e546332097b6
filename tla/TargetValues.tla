----------------------------- MODULE TargetValues ---------------------------
(***************************************************************************)
(* Gt and MillerLoopResult of backend_blst/pairings.rs: each operator is   *)
(* one method.  The group is written additively and computed               *)
(* multiplicatively.                                                       *)
(***************************************************************************)
EXTENDS Fp12

GtIdentity == FOne
GtGenerator == GtGen
GtDouble(x) == FMul(x, x)
GtAdd(x, y) == FMul(x, y)

NegUnchanged(x) == x
GtNeg(x) == FConj(x)
GtSub(x, y) == GtAdd(x, GtNeg(y))
GtSumOfTwo(x, y) == GtAdd(GtAdd(GtIdentity, x), y)

(* conditional_select_fp12, by limb down the tower.                        *)
SelectFp12(x, y, c) ==
  <<IF c THEN y[1] ELSE x[1], IF c THEN y[2] ELSE x[2]>>

(* The bit that mul_scalar reads when `left` bits are still to be read.    *)
BitLeastFirst(k, left) == (k \div 2^(WalkBits - left)) % 2 = 1
BitAt(k, left) == (k \div 2^(left - 1)) % 2 = 1

MulStep(x, sum, bit) ==
  LET doubled == GtDouble(sum)
  IN  SelectFp12(doubled, GtAdd(doubled, x), bit)

(* What restores an archived value; `ok` is the check of its type.         *)
Fp12Unchecked(b, ok) == [is_some |-> ok, value |-> b]
Fp12Checked(b, ok) == [is_some |-> b \in Fp12 /\ ok, value |-> b]
GtFromRawBytesChecked(b) == Fp12Checked(b, InGroup(b))
CanonicalOnly(b) == Fp12Checked(b, TRUE)
CanonicalInGroup(b) == Fp12Checked(b, InGroup(b))
MillerFromRawBytesChecked(b) == Fp12Checked(b, b # FZero)
=============================================================================
