------------------------------- MODULE Target -------------------------------
(***************************************************************************)
(* A program using Gt and MillerLoopResult of backend_blst/pairings.rs.    *)
(* It holds one Miller loop result and two Gt values.  Scalar              *)
(* multiplication is the code's own double-and-add, one bit a step;        *)
(* everything else is one step.                                            *)
(***************************************************************************)
EXTENDS TargetValues

CONSTANTS
  MillerOutputs,  \* what multi_miller_loop may return
  Archived        \* the raw bytes that archives of either type may hold

ASSUME MillerAssumption == MillerOutputs \subseteq Units
ASSUME ArchivedAssumption == Archived \subseteq RawFp12

-----------------------------------------------------------------------------
VARIABLES
  m,      \* a MillerLoopResult
  g, h,   \* Gt values
  op,     \* ghost: the operation completed last, with its scalar or choice
  left,   \* mul_scalar: bits still to be read, -1 when no call is running
  k, x,   \*   its scalar and the value it multiplies
  acc     \*   its accumulator

vars == <<m, g, h, op, left, k, x, acc>>
call == <<left, k, x, acc>>

Idle == left = -1

Init ==
  /\ m = FOne /\ g = GtIdentity /\ h = GtIdentity /\ op = <<"default">>
  /\ left = -1 /\ k = 0 /\ x = GtIdentity /\ acc = GtIdentity

SetM(v, o) == Idle /\ m' = v /\ op' = o /\ UNCHANGED <<g, h>> /\ UNCHANGED call
SetG(v, o) == Idle /\ g' = v /\ op' = o /\ UNCHANGED <<m, h>> /\ UNCHANGED call
SetH(v, o) == Idle /\ h' = v /\ op' = o /\ UNCHANGED <<m, g>> /\ UNCHANGED call

(* Identity, Default and zeroize are one, not zero.                        *)
Constants == \/ SetG(GtIdentity, <<"identity">>)
             \/ SetG(GtGenerator, <<"generator">>)
             \/ SetM(FOne, <<"identity">>)

CallMillerLoop == \E v \in MillerOutputs : SetM(v, <<"miller loop">>)
FinalExponentiation == SetG(FinalExp(m), <<"final exponentiation">>)

ReadMiller == \E b \in Archived :
  /\ MillerFromRawBytesChecked(b).is_some
  /\ SetM(MillerFromRawBytesChecked(b).value, <<"archive">>)
ReadGt == \E b \in Archived :
  /\ GtFromRawBytesChecked(b).is_some
  /\ SetG(GtFromRawBytesChecked(b).value, <<"archive">>)

Copy == SetH(g, <<"copy">>)
Select == \E c \in BOOLEAN :
  \/ SetG(SelectFp12(g, h, c), <<"select", c>>)
  \/ \E v \in MillerOutputs : SetM(SelectFp12(m, v, c), <<"select", c>>)

Double == SetG(GtDouble(g), <<"double">>)
Add == SetG(GtAdd(g, h), <<"add">>) \/ SetG(GtSumOfTwo(g, h), <<"sum">>)
Negate == SetG(GtNeg(g), <<"neg">>)
Subtract == SetG(GtSub(g, h), <<"sub">>)

(* mul_scalar of g, or of the generator by a random scalar.                *)
MulCall == \E s \in GtScalars, v \in {g, GtGenerator} :
  /\ Idle
  /\ left' = WalkBits /\ k' = s /\ x' = v /\ acc' = GtIdentity
  /\ UNCHANGED <<m, g, h, op>>

MulBit ==
  /\ left > 0
  /\ acc' = MulStep(x, acc, BitAt(k, left)) /\ left' = left - 1
  /\ UNCHANGED <<m, g, h, op, k, x>>

MulReturn ==
  /\ left = 0
  /\ g' = acc /\ op' = IF x = g THEN <<"mul", k>> ELSE <<"random">>
  /\ left' = -1 /\ k' = 0 /\ x' = GtIdentity /\ acc' = GtIdentity
  /\ UNCHANGED <<m, h>>

Next ==
  \/ Constants \/ CallMillerLoop \/ FinalExponentiation \/ ReadMiller \/ ReadGt
  \/ Copy \/ Select \/ Double \/ Add \/ Negate \/ Subtract
  \/ MulCall \/ MulBit \/ MulReturn

Spec == Init /\ [][Next]_vars

(* mul_scalar is a loop over a fixed number of bits: a call that runs goes *)
(* on to its return.  Nothing obliges a program to call anything.          *)
FairSpec == Spec /\ WF_vars(MulBit) /\ WF_vars(MulReturn)

-----------------------------------------------------------------------------
(* Properties.                                                             *)

TypeOK ==
  /\ m \in Fp12 /\ g \in Fp12 /\ h \in Fp12 /\ x \in Fp12 /\ acc \in Fp12
  /\ left \in -1 .. WalkBits /\ k \in GtScalars

(* Every Gt value is in the group of prime order, whatever it was computed *)
(* from: that is what makes conjugation a negation.  It needs Miller loop  *)
(* results to be non-zero, so their archive check is part of it.           *)
GtSafety ==
  /\ m \in Units
  /\ g \in GtGroup /\ h \in GtGroup /\ x \in GtGroup /\ acc \in GtGroup

(* What a program holds can be archived and restored as it was: the checks *)
(* on archives refuse nothing that a computation produces.  A Miller loop  *)
(* result is not in GtGroup, so its check may not ask for that.            *)
ArchivesRestore ==
  /\ MillerFromRawBytesChecked(m) = [is_some |-> TRUE, value |-> m]
  /\ GtFromRawBytesChecked(g) = [is_some |-> TRUE, value |-> g]
  /\ GtFromRawBytesChecked(h) = [is_some |-> TRUE, value |-> h]

(* Halfway through mul_scalar the accumulator is the multiple by the bits  *)
(* read so far.                                                            *)
PrefixMultiple == left >= 0 => acc = Pow(x, k \div 2^left)

(* A call of mul_scalar returns, and what it returns is the multiple it    *)
(* was asked for.                                                          *)
MulDelivers ==
  \A s \in GtScalars, v \in GtGroup :
    (left = WalkBits /\ k = s /\ x = v) ~> (Idle /\ g = Pow(v, s))

(* The loop and the multiplicative operations implement the additive group *)
(* of integers modulo GtOrder; mul_scalar takes effect as it returns.      *)
Cyclic == INSTANCE CyclicGroup
            WITH N <- GtOrder, eM <- Log(FinalExp(m)), eG <- Log(g), eH <- Log(h)
ImplementsCyclicGroup == Cyclic!Spec
=============================================================================
