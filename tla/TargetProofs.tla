---------------------------- MODULE TargetProofs ----------------------------
(***************************************************************************)
(* Proofs about Target and, at the end, about Pairing, whose results are   *)
(* in the same group; for every field that satisfies the assumptions of    *)
(* Fp12.  That values stay in the group and that the accumulator of        *)
(* mul_scalar is a power need each other: a power of x is in the group     *)
(* because x is, and the accumulator can only be squared inside it.        *)
(***************************************************************************)
EXTENDS Target, Pairing, OperatorProofs

-----------------------------------------------------------------------------
(* Arithmetic of the bits that are read.                                   *)

(* Reading one more bit of n doubles what has been read and adds the bit.  *)
LEMMA OneMoreBit ==
  ASSUME NEW n \in Nat, NEW d \in Nat \ {0}
  PROVE  n \div d = 2 * (n \div (2 * d)) + (IF (n \div d) % 2 = 1 THEN 1 ELSE 0)
<1> DEFINE q == n \div (2 * d)
<1>1. q \in Nat /\ 2 * d \in Nat \ {0}
  OBVIOUS
<1>2. (2 * d) * q <= n /\ n < (2 * d) * q + 2 * d
  BY <1>1, QuotientBounds
<1> HIDE DEF q
<1>3. (2 * d) * q = d * (2 * q) /\ d * (2 * q + 1) = d * (2 * q) + d
  BY <1>1
<1>4. n \div d \in {2 * q, 2 * q + 1}
  <2>1. CASE n < d * (2 * q) + d
    <3>1. n \div d = 2 * q
      BY <1>1, <1>2, <1>3, <2>1, QuotientIsUnique
    <3> QED
      BY <3>1
  <2>2. CASE ~(n < d * (2 * q) + d)
    <3>1. d * (2 * q + 1) <= n /\ n < d * (2 * q + 1) + d
      BY <1>1, <1>2, <1>3, <2>2
    <3>2. n \div d = 2 * q + 1
      BY <1>1, <3>1, QuotientIsUnique
    <3> QED
      BY <3>2
  <2> QED
    BY <2>1, <2>2
<1> QED
  BY <1>1, <1>4 DEF q

(* What has been read of a scalar is a scalar.                             *)
LEMMA PrefixIsScalar ==
  ASSUME NEW n \in GtScalars, NEW d \in Nat \ {0}
  PROVE  n \div d \in GtScalars
<1>1. n \in Nat /\ n < GtOrder /\ GtOrder \in Nat
  BY PowAssumption DEF GtScalars
<1> DEFINE q == n \div d
<1>2. q \in Nat
  BY <1>1
<1> HIDE DEF q
<1>3. d * q <= n
  BY <1>1, <1>2, QuotientBounds DEF q
<1>4. q <= d * q /\ d * q \in Nat
  BY <1>2
<1>5. q < GtOrder
  BY <1>1, <1>2, <1>3, <1>4
<1> QED
  BY <1>1, <1>2, <1>5 DEF q, GtScalars

-----------------------------------------------------------------------------
(* Operators.                                                              *)

(* A selection by limb returns one of the two values, whole.               *)
LEMMA SelectReturns ==
  ASSUME NEW v \in Fp12, NEW w \in Fp12, NEW c \in BOOLEAN
  PROVE  SelectFp12(v, w, c) = IF c THEN w ELSE v
BY DEF SelectFp12, Fp12

(* The operations of Gt stay in the group.                                 *)
LEMMA OperationsStay ==
  ASSUME NEW v \in GtGroup, NEW w \in GtGroup
  PROVE  /\ GtIdentity \in GtGroup /\ GtGenerator \in GtGroup
         /\ GtDouble(v) \in GtGroup /\ GtAdd(v, w) \in GtGroup
         /\ GtNeg(v) \in GtGroup /\ GtSub(v, w) \in GtGroup
         /\ GtSumOfTwo(v, w) \in GtGroup
BY TowerAssumption, GtAssumption
   DEF GtIdentity, GtGenerator, GtDouble, GtAdd, GtNeg, GtSub, GtSumOfTwo

(* One bit of mul_scalar takes one power of v to the next.                 *)
LEMMA StepIsNextPower ==
  ASSUME NEW v \in GtGroup, NEW n \in GtScalars, NEW l \in 1 .. WalkBits,
         NEW a, a = Pow(v, n \div 2^l)
  PROVE  MulStep(v, a, BitAt(n, l)) = Pow(v, n \div 2^(l - 1))
<1> DEFINE d == 2^(l - 1)
           half == n \div (2 * d)
           whole == n \div d
           bit == BitAt(n, l)
<1>1. d \in Nat \ {0} /\ 2^l = 2 * d
  <2>1. l - 1 \in 0 .. WalkBits /\ (l - 1) + 1 = l
    BY WalkAssumption
  <2>2. 2^(l - 1) \in Nat \ {0} /\ 2^((l - 1) + 1) = 2 * 2^(l - 1)
    BY <2>1, WalkAssumption
  <2> QED
    BY <2>1, <2>2
<1>2. n \in Nat
  BY PowAssumption DEF GtScalars
<1>3. bit = (whole % 2 = 1)
  BY DEF BitAt
<1> HIDE DEF d
<1>4. 2 * d \in Nat \ {0}
  BY <1>1
<1>5. half \in GtScalars /\ whole \in GtScalars
  BY <1>1, <1>4, PrefixIsScalar
<1>6. whole = 2 * half + (IF bit THEN 1 ELSE 0)
  BY <1>1, <1>2, <1>3, OneMoreBit
<1>7. a = Pow(v, half)
  BY <1>1
<1> HIDE DEF half, whole, bit
<1>8. half \in Nat /\ whole \in Nat /\ GtOrder \in Nat /\ whole < GtOrder
  BY <1>5, PowAssumption DEF GtScalars
<1>9. 2 * half \in GtScalars
  BY <1>6, <1>8 DEF GtScalars
<1>10. GtDouble(a) = Pow(v, 2 * half)
  BY <1>5, <1>7, <1>9, PowAssumption DEF GtDouble
<1>11. a \in GtGroup /\ GtDouble(a) \in GtGroup /\ GtAdd(GtDouble(a), v) \in GtGroup
  BY <1>5, <1>7, PowAssumption, OperationsStay
<1>12. bit \in BOOLEAN
  BY DEF bit, BitAt
<1>13. MulStep(v, a, bit) = IF bit THEN GtAdd(GtDouble(a), v) ELSE GtDouble(a)
  BY <1>11, <1>12, SelectReturns, GroupInUnits DEF MulStep
<1>14. MulStep(v, a, bit) = Pow(v, whole)
  <2>1. CASE bit
    <3>1. whole = 2 * half + 1
      BY <1>6, <2>1
    <3>2. Pow(v, whole) = FMul(Pow(v, 2 * half), v)
      BY <3>1, <1>5, <1>9, PowAssumption
    <3> QED
      BY <3>2, <1>10, <1>13, <2>1 DEF GtAdd
  <2>2. CASE ~bit
    <3>1. whole = 2 * half
      BY <1>6, <1>8, <2>2
    <3> QED
      BY <3>1, <1>10, <1>13, <2>2
  <2> QED
    BY <2>1, <2>2
<1> QED
  BY <1>14 DEF bit, whole, d

(* Before the first bit nothing has been read.                             *)
LEMMA NothingRead ==
  ASSUME NEW n \in GtScalars
  PROVE  n \div 2^WalkBits = 0
<1> DEFINE d == 2^WalkBits
<1>1. d \in Nat \ {0} /\ n \in Nat /\ n < d
  BY WalkAssumption, PowAssumption DEF GtScalars
<1> HIDE DEF d
<1>2. d * 0 <= n /\ n < d * 0 + d
  BY <1>1
<1>3. n \div d = 0
  BY <1>1, <1>2, QuotientIsUnique
<1> QED
  BY <1>3 DEF d

(* After the last one all of it has.                                       *)
LEMMA AllRead ==
  ASSUME NEW n \in GtScalars
  PROVE  n \div 2^0 = n
<1>1. n \in Nat /\ 2^0 = 1
  BY WalkAssumption, PowAssumption DEF GtScalars
<1>2. 1 * n <= n /\ n < 1 * n + 1
  BY <1>1
<1>3. n \div 1 = n
  BY <1>1, <1>2, QuotientIsUnique
<1> QED
  BY <1>1, <1>3

-----------------------------------------------------------------------------
(* The inductive invariant.                                                *)

IInv == TypeOK /\ GtSafety /\ PrefixMultiple

(* The group gives the type of every variable that holds a field element.  *)
LEMMA SafetyGivesTypes ==
  ASSUME GtSafety, left \in -1 .. WalkBits, k \in GtScalars
  PROVE  TypeOK
BY GroupInUnits DEF GtSafety, TypeOK

(* A program starts with identities.                                       *)
LEMMA InitEstablishes == Init => IInv
<1> SUFFICES ASSUME Init PROVE IInv
  OBVIOUS
<1>1. GtSafety
  BY OperationsStay, GroupInUnits, TowerAssumption
     DEF Init, GtSafety, GtIdentity
<1>2. left \in -1 .. WalkBits /\ k \in GtScalars
  BY WalkAssumption, PowAssumption DEF Init, GtScalars
<1>3. PrefixMultiple
  BY DEF Init, PrefixMultiple
<1> QED
  BY <1>1, <1>2, <1>3, SafetyGivesTypes DEF IInv

(* Setting one program variable to a value of its group keeps all of it:   *)
(* no call of mul_scalar is running then.                                  *)
LEMMA SettingKeeps ==
  ASSUME IInv, NEW v, NEW o,
         \/ v \in Units /\ SetM(v, o)
         \/ v \in GtGroup /\ (SetG(v, o) \/ SetH(v, o))
  PROVE  IInv'
<1>1. GtSafety'
  BY DEF IInv, GtSafety, SetM, SetG, SetH, call
<1>2. (left \in -1 .. WalkBits /\ k \in GtScalars)'
  BY DEF IInv, TypeOK, SetM, SetG, SetH, call
<1>3. PrefixMultiple'
  BY DEF Idle, PrefixMultiple, SetM, SetG, SetH, call
<1>4. TypeOK'
  BY <1>1, <1>2, GroupInUnits DEF GtSafety, TypeOK
<1> QED
  BY <1>1, <1>3, <1>4 DEF IInv

(* Every step of a program keeps it.                                       *)
LEMMA NextKeeps == IInv /\ [Next]_vars => IInv'
<1> SUFFICES ASSUME IInv, [Next]_vars PROVE IInv'
  OBVIOUS
<1> USE DEF IInv
<1>0. /\ m \in Units /\ g \in GtGroup /\ h \in GtGroup
      /\ m \in Fp12 /\ g \in Fp12 /\ h \in Fp12
  BY DEF GtSafety, TypeOK
<1>1. CASE Constants
  <2>1. GtIdentity \in GtGroup /\ GtGenerator \in GtGroup /\ FOne \in Units
    BY OperationsStay, GroupInUnits, TowerAssumption, <1>0
  <2> QED
    BY <1>1, <2>1, SettingKeeps DEF Constants
<1>2. CASE CallMillerLoop
  BY <1>2, MillerAssumption, SettingKeeps DEF CallMillerLoop
<1>3. CASE FinalExponentiation
  BY <1>0, <1>3, FinalExpAssumption, SettingKeeps DEF FinalExponentiation
<1>4. CASE ReadMiller
  <2>1. PICK b \in Archived :
          /\ MillerFromRawBytesChecked(b).is_some
          /\ SetM(MillerFromRawBytesChecked(b).value, <<"archive">>)
    BY <1>4 DEF ReadMiller
  <2>2. b \in Units /\ SetM(b, <<"archive">>)
    BY <2>1 DEF MillerFromRawBytesChecked, Fp12Checked, Units
  <2> QED
    BY <2>2, SettingKeeps
<1>5. CASE ReadGt
  <2>1. PICK b \in Archived :
          /\ GtFromRawBytesChecked(b).is_some
          /\ SetG(GtFromRawBytesChecked(b).value, <<"archive">>)
    BY <1>5 DEF ReadGt
  <2>2. b \in GtGroup /\ SetG(b, <<"archive">>)
    BY <2>1 DEF GtFromRawBytesChecked, Fp12Checked, InGroup
  <2> QED
    BY <2>2, SettingKeeps
<1>6. CASE Copy
  BY <1>0, <1>6, SettingKeeps DEF Copy
<1>7. CASE Select
  <2>1. ASSUME NEW c \in BOOLEAN, SetG(SelectFp12(g, h, c), <<"select", c>>)
        PROVE  IInv'
    <3>1. SelectFp12(g, h, c) \in GtGroup
      BY <1>0, SelectReturns
    <3> QED
      BY <2>1, <3>1, SettingKeeps
  <2>2. ASSUME NEW c \in BOOLEAN, NEW v \in MillerOutputs,
               SetM(SelectFp12(m, v, c), <<"select", c>>)
        PROVE  IInv'
    <3>1. v \in Units /\ v \in Fp12
      BY MillerAssumption, GroupInUnits
    <3>2. SelectFp12(m, v, c) \in Units
      BY <1>0, <3>1, SelectReturns
    <3> QED
      BY <2>2, <3>2, SettingKeeps
  <2> QED
    BY <1>7, <2>1, <2>2 DEF Select
<1>8. CASE Double \/ Add \/ Negate \/ Subtract
  <2>1. /\ GtDouble(g) \in GtGroup /\ GtAdd(g, h) \in GtGroup
        /\ GtSumOfTwo(g, h) \in GtGroup
        /\ GtNeg(g) \in GtGroup /\ GtSub(g, h) \in GtGroup
    BY <1>0, OperationsStay
  <2> QED
    BY <1>8, <2>1, SettingKeeps DEF Double, Add, Negate, Subtract
<1>9. CASE MulCall
  <2>1. PICK s \in GtScalars, v \in {g, GtGenerator} :
          /\ left' = WalkBits /\ k' = s /\ x' = v /\ acc' = GtIdentity
          /\ m' = m /\ g' = g /\ h' = h
    BY <1>9 DEF MulCall
  <2>2. v \in GtGroup /\ GtIdentity \in GtGroup
    BY <1>0, OperationsStay
  <2>3. GtSafety'
    BY <1>0, <2>1, <2>2 DEF GtSafety
  <2>4. TypeOK'
    BY <2>1, <2>3, GroupInUnits, WalkAssumption DEF GtSafety, TypeOK
  <2>5. PrefixMultiple'
    <3>1. acc' = Pow(v, 0)
      BY <2>1, <2>2, PowAssumption DEF GtIdentity
    <3>2. s \div 2^WalkBits = 0
      BY NothingRead
    <3> QED
      BY <2>1, <3>1, <3>2 DEF PrefixMultiple
  <2> QED
    BY <2>3, <2>4, <2>5
<1>10. CASE MulBit
  <2>1. /\ left \in 1 .. WalkBits /\ k \in GtScalars /\ x \in GtGroup
        /\ acc = Pow(x, k \div 2^left)
    BY <1>10, WalkAssumption DEF MulBit, TypeOK, GtSafety, PrefixMultiple
  <2>2. /\ acc' = MulStep(x, acc, BitAt(k, left)) /\ left' = left - 1
        /\ m' = m /\ g' = g /\ h' = h /\ k' = k /\ x' = x
    BY <1>10 DEF MulBit
  <2>3. acc' = Pow(x, k \div 2^(left - 1))
    BY <2>1, <2>2, StepIsNextPower
  <2>4. acc' \in GtGroup
    <3>1. left - 1 \in 0 .. WalkBits
      BY <2>1, WalkAssumption
    <3>2. k \div 2^(left - 1) \in GtScalars
      BY <2>1, <3>1, WalkAssumption, PrefixIsScalar
    <3> QED
      BY <2>1, <2>3, <3>2, PowAssumption
  <2>5. GtSafety'
    BY <2>2, <2>4 DEF GtSafety
  <2>6. TypeOK'
    <3>1. left' \in -1 .. WalkBits
      BY <2>1, <2>2, WalkAssumption
    <3> QED
      BY <2>1, <2>2, <2>5, <3>1, GroupInUnits DEF GtSafety, TypeOK
  <2>7. PrefixMultiple'
    BY <2>2, <2>3 DEF PrefixMultiple
  <2> QED
    BY <2>5, <2>6, <2>7
<1>11. CASE MulReturn
  <2>1. /\ g' = acc /\ left' = -1 /\ k' = 0
        /\ x' = GtIdentity /\ acc' = GtIdentity /\ m' = m /\ h' = h
    BY <1>11 DEF MulReturn
  <2>2. GtSafety'
    BY <2>1, OperationsStay DEF GtSafety
  <2>3. TypeOK'
    BY <2>1, <2>2, GroupInUnits, WalkAssumption, PowAssumption
       DEF GtSafety, TypeOK, GtScalars
  <2>4. PrefixMultiple'
    BY <2>1 DEF PrefixMultiple
  <2> QED
    BY <2>2, <2>3, <2>4
<1>12. CASE UNCHANGED vars
  BY <1>12 DEF vars, TypeOK, GtSafety, PrefixMultiple
<1> QED
  BY <1>1, <1>2, <1>3, <1>4, <1>5, <1>6, <1>7, <1>8, <1>9, <1>10, <1>11, <1>12
     DEF Next

(* The invariant holds in every state of every program.                    *)
LEMMA Inductive == Spec => []IInv
BY InitEstablishes, NextKeeps, PTL DEF Spec

-----------------------------------------------------------------------------
(* Theorems.                                                               *)

(* Every value is of its type, whatever is archived or computed.           *)
THEOREM TargetTypeOK == Spec => []TypeOK
<1>1. IInv => TypeOK
  BY DEF IInv
<1> QED
  BY <1>1, Inductive, PTL

(* Every Gt value is in the group of prime order (pairings.rs: the final   *)
(* exponentiation, the operators and the archive check together), which is *)
(* what lets Neg conjugate instead of invert.                              *)
THEOREM TargetGtSafety == Spec => []GtSafety
<1>1. IInv => GtSafety
  BY DEF IInv
<1> QED
  BY <1>1, Inductive, PTL

(* At every bit of mul_scalar the accumulator is the multiple by the bits  *)
(* read so far, for scalars and walks of any length.                       *)
THEOREM TargetPrefixMultiple == Spec => []PrefixMultiple
<1>1. IInv => PrefixMultiple
  BY DEF IInv
<1> QED
  BY <1>1, Inductive, PTL

(* When mul_scalar returns, its result is the multiple by the scalar.      *)
THEOREM TargetMulReturns == Spec => [][MulReturn => g' = Pow(x, k)]_vars
<1>1. IInv /\ [Next]_vars => [MulReturn => g' = Pow(x, k)]_vars
  <2> SUFFICES ASSUME IInv, MulReturn PROVE g' = Pow(x, k)
    OBVIOUS
  <2>1. left = 0 /\ g' = acc /\ k \in GtScalars
    BY DEF IInv, TypeOK, MulReturn
  <2>2. acc = Pow(x, k \div 2^0)
    BY <2>1 DEF IInv, PrefixMultiple
  <2> QED
    BY <2>1, <2>2, AllRead
<1> QED
  BY <1>1, Inductive, PTL DEF Spec

(* What a program holds can be archived and restored as it was.            *)
THEOREM TargetArchivesRestore == Spec => []ArchivesRestore
<1>1. IInv => ArchivesRestore
  <2> SUFFICES ASSUME IInv PROVE ArchivesRestore
    OBVIOUS
  <2>1. m \in Fp12 /\ m # FZero
    BY DEF IInv, GtSafety, Units
  <2>2. /\ g \in Fp12 /\ h \in Fp12 /\ g \in GtGroup /\ h \in GtGroup
    BY DEF IInv, GtSafety, TypeOK
  <2> QED
    BY <2>1, <2>2
       DEF ArchivesRestore, MillerFromRawBytesChecked, GtFromRawBytesChecked,
           Fp12Checked, InGroup
<1> QED
  BY <1>1, Inductive, PTL

-----------------------------------------------------------------------------
(* The refinement: exponents to the base of the generator turn the         *)
(* multiplicative operations into additions modulo GtOrder.                *)

(* Subtracting is adding the negative, modulo the order.                   *)
LEMMA LogOfQuotient ==
  ASSUME NEW v \in GtGroup, NEW w \in GtGroup
  PROVE  Log(GtSub(v, w)) = (Log(v) - Log(w)) % GtOrder
<1> DEFINE a == Log(v)
           b == Log(w)
           c == (GtOrder - b) % GtOrder
<1>1. Log(GtSub(v, w)) = (a + c) % GtOrder
  BY LogOfProduct, LogOfConjugate, GtAssumption DEF GtSub, GtAdd, GtNeg
<1>2. a \in GtScalars /\ b \in GtScalars
  BY LogIsExponent
<1> HIDE DEF a, b
<1>3. GtOrder \in Nat \ {0} /\ a \in Nat /\ b \in Nat /\ a < GtOrder /\ b < GtOrder
  BY <1>2, PowAssumption DEF GtScalars
<1>4. c = IF b = 0 THEN 0 ELSE GtOrder - b
  BY <1>3, NegativeRemainder
<1> HIDE DEF c
<1>5. (a + c) % GtOrder = (a - b) % GtOrder
  BY <1>3, <1>4
<1> QED
  BY <1>1, <1>5 DEF a, b

(* A program starts where the abstract one does.                           *)
LEMMA RefinementInit == Init => Cyclic!Init
BY LogOfConstants DEF Init, Cyclic!Init, GtIdentity

(* Setting a variable of the loop is setting its exponent.                 *)
LEMMA SettingMaps ==
  ASSUME NEW v, NEW o
  PROVE  /\ SetM(v, o) => Cyclic!SetM(Log(FinalExp(v)), o)
         /\ SetG(v, o) => Cyclic!SetG(Log(v), o)
         /\ SetH(v, o) => Cyclic!SetH(Log(v), o)
BY DEF SetM, SetG, SetH, Cyclic!SetM, Cyclic!SetG, Cyclic!SetH, Log

(* What exponents there are.                                               *)
LEMMA ElementsAreScalars == Cyclic!Elements = GtScalars
BY DEF Cyclic!Elements, GtScalars

(* Every operation that is one step here is the operation of its name on   *)
(* exponents; of mul_scalar, which is many, only the return is a step.     *)
LEMMA RefinementStep == IInv /\ [Next]_vars => [Cyclic!Next]_(Cyclic!vars)
<1> SUFFICES ASSUME IInv, [Next]_vars
             PROVE  [Cyclic!Next]_(Cyclic!vars)
  OBVIOUS
<1>1. /\ m \in Units /\ g \in GtGroup /\ h \in GtGroup
      /\ m \in Fp12 /\ g \in Fp12 /\ h \in Fp12
  BY DEF IInv, GtSafety, TypeOK
<1>2. /\ \A v \in GtGroup : Log(v) \in Cyclic!Elements
      /\ \A v \in Units : Log(FinalExp(v)) \in Cyclic!Elements
  BY LogIsExponent, FinalExpAssumption, ElementsAreScalars
<1>3. CASE Constants
  BY <1>3, SettingMaps, LogOfConstants DEF Constants, Cyclic!Next, Cyclic!Obtain
<1>4. CASE CallMillerLoop
  BY <1>2, <1>4, SettingMaps, MillerAssumption
     DEF CallMillerLoop, Cyclic!Next, Cyclic!Obtain
<1>5. CASE FinalExponentiation
  BY <1>5, SettingMaps
     DEF FinalExponentiation, Cyclic!Next, Cyclic!FinalExponentiation
<1>6. CASE ReadMiller
  <2>1. PICK b \in Archived : b \in Units /\ SetM(b, <<"archive">>)
    BY <1>6 DEF ReadMiller, MillerFromRawBytesChecked, Fp12Checked, Units
  <2> QED
    BY <1>2, <2>1, SettingMaps DEF Cyclic!Next, Cyclic!Obtain
<1>7. CASE ReadGt
  <2>1. PICK b \in Archived : b \in GtGroup /\ SetG(b, <<"archive">>)
    BY <1>7 DEF ReadGt, GtFromRawBytesChecked, Fp12Checked, InGroup
  <2> QED
    BY <1>2, <2>1, SettingMaps DEF Cyclic!Next, Cyclic!Obtain
<1>8. CASE Copy
  BY <1>8, SettingMaps DEF Copy, Cyclic!Next, Cyclic!Move
<1>9. CASE Select
  <2>1. PICK c \in BOOLEAN :
          \/ SetG(SelectFp12(g, h, c), <<"select", c>>)
          \/ \E v \in MillerOutputs : SetM(SelectFp12(m, v, c), <<"select", c>>)
    BY <1>9 DEF Select
  <2>2. CASE SetG(SelectFp12(g, h, c), <<"select", c>>)
    <3>1. SetG(IF c THEN h ELSE g, <<"select", c>>)
      BY <1>1, <2>2, SelectReturns
    <3> QED
      BY <3>1, SettingMaps DEF Cyclic!Next, Cyclic!Move
  <2>3. ASSUME NEW v \in MillerOutputs, SetM(SelectFp12(m, v, c), <<"select", c>>)
        PROVE  Cyclic!Next
    <3>1. v \in Units /\ v \in Fp12
      BY MillerAssumption, GroupInUnits
    <3>2. SetM(IF c THEN v ELSE m, <<"select", c>>)
      BY <1>1, <2>3, <3>1, SelectReturns
    <3> QED
      BY <1>2, <3>1, <3>2, SettingMaps DEF Cyclic!Next, Cyclic!Move
  <2> QED
    BY <2>1, <2>2, <2>3
<1>10. CASE Double
  <2>1. Log(GtDouble(g)) = (2 * Log(g)) % GtOrder
    <3>1. Log(g) + Log(g) = 2 * Log(g)
      BY <1>1, LogIsExponent, PowAssumption DEF GtScalars
    <3> QED
      BY <1>1, <3>1, LogOfProduct DEF GtDouble
  <2> QED
    BY <1>10, <2>1, SettingMaps DEF Double, Cyclic!Next, Cyclic!Double
<1>11. CASE Add
  <2>1. Log(GtAdd(g, h)) = (Log(g) + Log(h)) % GtOrder
    BY <1>1, LogOfProduct DEF GtAdd
  <2>2. Log(GtSumOfTwo(g, h)) = (Log(g) + Log(h)) % GtOrder
    <3>1. FOne \in GtGroup /\ FMul(FOne, g) \in GtGroup
      BY <1>1, TowerAssumption, GtAssumption
    <3>2. Log(FMul(FOne, g)) = (0 + Log(g)) % GtOrder
      BY <1>1, <3>1, LogOfProduct, LogOfConstants DEF GtIdentity
    <3>3. (0 + Log(g)) % GtOrder = Log(g)
      <4>1. Log(g) \in Nat /\ Log(g) < GtOrder /\ GtOrder \in Nat \ {0}
        BY <1>1, LogIsExponent, PowAssumption DEF GtScalars
      <4>2. Log(g) < 2 * GtOrder /\ 0 + Log(g) = Log(g)
        BY <4>1
      <4> QED
        BY <4>1, <4>2, SmallRemainders
    <3> QED
      BY <1>1, <3>1, <3>2, <3>3, LogOfProduct DEF GtSumOfTwo, GtAdd, GtIdentity
  <2> QED
    BY <1>11, <2>1, <2>2, SettingMaps DEF Add, Cyclic!Next, Cyclic!Add
<1>12. CASE Negate
  BY <1>1, <1>12, LogOfConjugate, SettingMaps
     DEF Negate, GtNeg, Cyclic!Next, Cyclic!Negate
<1>13. CASE Subtract
  BY <1>1, <1>13, LogOfQuotient, SettingMaps DEF Subtract, Cyclic!Next, Cyclic!Subtract
<1>14. CASE MulCall
  BY <1>14 DEF MulCall, Cyclic!vars, Log
<1>15. CASE MulBit
  BY <1>15 DEF MulBit, Cyclic!vars, Log
<1>16. CASE MulReturn
  <2>1. /\ left = 0 /\ k \in GtScalars /\ x \in GtGroup /\ acc \in GtGroup
        /\ acc = Pow(x, k \div 2^0)
    BY <1>16 DEF MulReturn, IInv, TypeOK, GtSafety, PrefixMultiple
  <2>2. /\ g' = acc /\ m' = m /\ h' = h
        /\ op' = IF x = g THEN <<"mul", k>> ELSE <<"random">>
    BY <1>16 DEF MulReturn
  <2>3. Cyclic!SetG(Log(acc), op')
    BY <2>2 DEF Cyclic!SetG, Log
  <2>4. CASE x = g
    <3>1. acc = Pow(Pow(GtGen, Log(g)), k) /\ Log(g) \in GtScalars
      BY <1>1, <2>1, <2>4, AllRead, LogIsExponent
    <3>2. acc = Pow(GtGen, (Log(g) * k) % GtOrder)
      BY <2>1, <3>1, LogAssumption
    <3>3. (Log(g) * k) % GtOrder \in GtScalars
      BY <2>1, <3>1, ReducedIsScalar DEF GtScalars
    <3>4. Log(acc) = (Log(g) * k) % GtOrder
      BY <2>1, <3>2, <3>3, LogIsExponent
    <3>5. Cyclic!Multiply
      BY <2>1, <2>2, <2>3, <2>4, <3>4, ElementsAreScalars DEF Cyclic!Multiply
    <3> QED
      BY <3>5 DEF Cyclic!Next
  <2>5. CASE x # g
    BY <1>2, <2>1, <2>2, <2>3, <2>5 DEF Cyclic!Next, Cyclic!Obtain
  <2> QED
    BY <2>4, <2>5
<1>17. CASE UNCHANGED vars
  BY <1>17 DEF vars, Cyclic!vars, Log
<1> QED
  BY <1>3, <1>4, <1>5, <1>6, <1>7, <1>8, <1>9, <1>10, <1>11, <1>12, <1>13, <1>14,
     <1>15, <1>16, <1>17 DEF Next

(* The loop of doublings and additions, and the multiplicative operations, *)
(* implement the additive group of integers modulo GtOrder: from outside,  *)
(* mul_scalar is one multiplication, by the scalar it was called with.     *)
THEOREM TargetImplementsCyclicGroup == Spec => ImplementsCyclicGroup
<1>1. Init => Cyclic!Init
  BY RefinementInit
<1>2. IInv /\ [Next]_vars => [Cyclic!Next]_(Cyclic!vars)
  BY RefinementStep
<1> QED
  BY <1>1, <1>2, Inductive, PTL DEF Spec, ImplementsCyclicGroup, Cyclic!Spec

-----------------------------------------------------------------------------
(* Pairing.  What the two functions return is proved in OperatorProofs, by *)
(* induction over the terms; here it is carried through the behaviours.    *)

(* What a caller has collected are pairs of subgroup points, and the two   *)
(* results are those of the terms they were asked of.                      *)
CallerInv ==
  /\ terms \in Seq(Pairable)
  /\ ResultIsProduct
  /\ CheckIsExact

(* No term and no result.                                                  *)
LEMMA CallerInitEstablishes == CallerInit => CallerInv
BY DEF CallerInit, CallerInv, ResultIsProduct, CheckIsExact

(* Every step keeps the invariant.                                         *)
LEMMA CallerNextKeeps == CallerInv /\ [CallerNext]_callerVars => CallerInv'
<1> SUFFICES ASSUME CallerInv, [CallerNext]_callerVars PROVE CallerInv'
  OBVIOUS
<1>1. CASE Push
  <2>1. PICK t \in Pairable : terms' = Append(terms, t) /\ asked' = "none"
    BY <1>1 DEF Push, Terms, Pairable
  <2>2. terms' \in Seq(Pairable)
    BY <2>1 DEF CallerInv
  <2> QED
    BY <2>1, <2>2 DEF CallerInv, ResultIsProduct, CheckIsExact
<1>2. CASE CallResult
  <2>1. terms' = terms /\ terms \in Seq(Pairable)
    BY <1>2 DEF CallResult, CallerInv
  <2>2. gt' = Pow(GtGen, Exponents(terms))
    BY <1>2, <2>1, ProductOfPairings DEF CallResult, MultiMillerLoopResult
  <2>3. asked' = "multi_miller_loop_result"
    BY <1>2 DEF CallResult
  <2> QED
    BY <2>1, <2>2, <2>3 DEF CallerInv, ResultIsProduct, CheckIsExact
<1>3. CASE CallCheck
  <2>1. terms' = terms /\ terms \in Seq(Pairable)
    BY <1>3 DEF CallCheck, CallerInv
  <2>2. /\ is_identity' <=> Exponents(terms) = 0
        /\ is_identity' <=> DuskProductIsIdentity(terms)
    BY <1>3, <2>1, VerdictIsExact DEF CallCheck
  <2>3. asked' = "pairing_product_is_identity"
    BY <1>3 DEF CallCheck
  <2> QED
    BY <2>1, <2>2, <2>3 DEF CallerInv, ResultIsProduct, CheckIsExact
<1>4. CASE UNCHANGED callerVars
  BY <1>4 DEF callerVars, CallerInv, ResultIsProduct, CheckIsExact
<1> QED
  BY <1>1, <1>2, <1>3, <1>4 DEF CallerNext

(* So it always holds.                                                     *)
LEMMA CallerInductive == CallerSpec => []CallerInv
BY CallerInitEstablishes, CallerNextKeeps, PTL DEF CallerSpec

(* multi_miller_loop_result returns the product of the pairings of the     *)
(* terms, for every number of terms and wherever infinity is among them.   *)
THEOREM PairingResultIsProduct == CallerSpec => []ResultIsProduct
<1>1. CallerInv => ResultIsProduct
  BY DEF CallerInv
<1> QED
  BY <1>1, CallerInductive, PTL

(* pairing_product_is_identity says that a product is one exactly when it  *)
(* is, although finalverify exponentiates once more what has been through  *)
(* the final exponentiation already; and the dusk backend says the same.   *)
THEOREM PairingCheckIsExact == CallerSpec => []CheckIsExact
<1>1. CallerInv => CheckIsExact
  BY DEF CallerInv
<1> QED
  BY <1>1, CallerInductive, PTL
=============================================================================
