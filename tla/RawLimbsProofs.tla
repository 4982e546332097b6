---------------------------- MODULE RawLimbsProofs ----------------------------
(***************************************************************************)
(* Reading, testing and writing limbs are right whatever the base and the  *)
(* width of a limb, the number of limbs and the prime: no slice is read    *)
(* out of bounds, a limb that is read is the integer of its bytes, the     *)
(* test compares with the prime, and what was read is written back.        *)
(*                                                                         *)
(* The second half is about the archives of Gt and MillerLoopResult, built *)
(* from the same elements: their test accepts exactly the integers below   *)
(* the prime, the nested loops put every element where it belongs, and     *)
(* writing undoes reading, whatever the size of the tower.                 *)
(***************************************************************************)
EXTENDS RawLimbs, Fp12Limbs, OperatorProofs, SequenceTheorems

-----------------------------------------------------------------------------
(* The integers of Limbs are numerals.                                     *)

(* Bytes are a numeral to the base of bytes, limbs one to that of limbs.   *)
LimbBase == ByteBase^LimbBytes

(* A limb is part of an element.                                           *)
LEMMA FieldHoldsLimbs ==
  /\ ByteBase \in Nat \ {0, 1}
  /\ LimbBytes \in Nat \ {0} /\ LimbsPerField \in Nat \ {0}
  /\ FieldBytes \in Nat \ {0} /\ LimbBytes \in 0 .. FieldBytes
<1>1. LimbBytes \in Nat \ {0} /\ LimbsPerField \in Nat \ {0}
  BY LimbsAssumption
<1>2. LimbBytes <= LimbBytes * LimbsPerField /\ LimbBytes * LimbsPerField \in Nat
  BY <1>1
<1> QED
  BY <1>1, <1>2, LimbsAssumption DEF FieldBytes

(* The powers of the base of bytes, as many as an element's bytes need.    *)
LEMMA PowersOfByteBase ==
  ASSUME NEW m \in 0 .. FieldBytes
  PROVE  ArePowers([n \in 0 .. m |-> ByteBase^n], ByteBase, m)
<1> DEFINE p == [n \in 0 .. m |-> ByteBase^n]
<1>1. FieldBytes \in Nat /\ m \in Nat /\ \A n \in 0 .. m : n \in 0 .. FieldBytes
  BY FieldHoldsLimbs
<1>2. \A n \in 0 .. m : p[n] = ByteBase^n
  OBVIOUS
<1>3. p[0] = 1
  BY <1>1, <1>2, PowersAssumption
<1>4. \A n \in 0 .. m : p[n] \in Nat \ {0}
  BY <1>1, <1>2, PowersAssumption
<1>5. ASSUME NEW n \in 0 .. m - 1 PROVE p[n + 1] = ByteBase * p[n]
  <2>1. n \in 0 .. m /\ n + 1 \in 0 .. m
    BY <1>1
  <2> QED
    BY <1>1, <1>2, <2>1, PowersAssumption
<1> HIDE DEF p
<1>6. ArePowers(p, ByteBase, m)
  BY <1>3, <1>4, <1>5 DEF ArePowers
<1> QED
  BY <1>6 DEF p

(* The constants as numerals need them.                                    *)
LEMMA BasesAreBases ==
  /\ ByteBase \in Nat \ {0} /\ LimbBase \in Nat \ {0}
  /\ LimbBytes \in Nat \ {0} /\ LimbsPerField \in Nat \ {0}
  /\ Bytes \subseteq Nat /\ 0 \in Bytes /\ LimbValues = 0 .. LimbBase - 1
  /\ 0 \in LimbValues
  /\ ArePowers([n \in 0 .. LimbBytes |-> ByteBase^n], ByteBase, LimbBytes)
<1>1. LimbBase \in Nat \ {0}
  BY FieldHoldsLimbs, PowersAssumption DEF LimbBase
<1>2. LimbValues = 0 .. LimbBase - 1
  BY DEF LimbValues, LimbBase
<1>3. Bytes \subseteq Nat /\ 0 \in Bytes /\ 0 \in LimbValues
  BY <1>1, <1>2, FieldHoldsLimbs DEF Bytes
<1> QED
  BY <1>1, <1>2, <1>3, FieldHoldsLimbs, PowersOfByteBase

(* from_le_bytes reads a numeral by Horner's rule,                         *)
LEMMA FromLeBytesIsHorner ==
  ASSUME NEW m \in Nat, NEW w \in [1 .. m -> Nat]
  PROVE  \E h : IsHorner(h, w, ByteBase, m) /\ h[1] = FromLeBytes(w)
<1> DEFINE g == CHOOSE f : HornerFold(f, w, ByteBase)
<1>1. FromLeBytes(w) = g[DOMAIN w]
  BY DEF FromLeBytes, FoldRight, MapThenFoldSet, HornerFold
<1>2. ByteBase \in Nat
  BY BasesAreBases
<1>3. HornerFold(g, w, ByteBase)
  BY <1>2, HornerFoldExists
<1> HIDE DEF g
<1>4. \E h : IsHorner(h, w, ByteBase, m) /\ h[1] = g[DOMAIN w]
  BY <1>2, <1>3, HornerFoldIsHorner
<1> QED
  BY <1>1, <1>4

(* and so does the integer of an element's limbs.                          *)
LEMMA IntegerOfIsHorner ==
  ASSUME NEW m \in Nat, NEW w \in [1 .. m -> Nat]
  PROVE  \E h : IsHorner(h, w, LimbBase, m) /\ h[1] = IntegerOf(w)
<1> DEFINE g == CHOOSE f : HornerFold(f, w, LimbBase)
<1>1. IntegerOf(w) = g[DOMAIN w]
  BY DEF IntegerOf, FoldRight, MapThenFoldSet, HornerFold, LimbBase
<1>2. LimbBase \in Nat
  BY BasesAreBases
<1>3. HornerFold(g, w, LimbBase)
  BY <1>2, HornerFoldExists
<1> HIDE DEF g
<1>4. \E h : IsHorner(h, w, LimbBase, m) /\ h[1] = g[DOMAIN w]
  BY <1>2, <1>3, HornerFoldIsHorner
<1> QED
  BY <1>1, <1>4

-----------------------------------------------------------------------------
(* The sum that IntegerOfBytes folds, in whatever order.                   *)

(* The equation that the definition of FoldFunction chooses a solution of. *)
SumFold(g, f) ==
  g = [t \in SUBSET DOMAIN f |->
         IF t = {} THEN 0
         ELSE f[CHOOSE x \in t : TRUE] + g[t \ {CHOOSE x \in t : TRUE}]]

(* The fold that adds up a function is a function that exists.             *)
LEMMA SumFoldExists ==
  ASSUME NEW m \in Nat, NEW f \in [1 .. m -> Nat]
  PROVE  \E g : SumFold(g, f)
<1> DEFINE F == [x \in Nat \X Nat |-> x[2] + x[1]]
           pick == [t \in SUBSET (1 .. m) |-> CHOOSE x \in t : TRUE]
<1>1. F \in [Nat \X Nat -> Nat] /\ \A x \in Nat, y \in Nat : F[<<x, y>>] = y + x
  OBVIOUS
<1>2. \A t \in SUBSET (1 .. m) : /\ t # {} => pick[t] \in t
                                 /\ pick[t] = CHOOSE x \in t : TRUE
  OBVIOUS
<1>3. IsFiniteSet(1 .. m)
  BY FS_Interval
<1> HIDE DEF F, pick
<1>4. PICK g : IsFold(g, Nat, F, 0, f, 1 .. m, pick)
  BY <1>1, <1>2, <1>3, FoldExists
<1>5. ASSUME NEW t \in SUBSET (1 .. m), t # {}
      PROVE  g[t] = f[pick[t]] + g[t \ {pick[t]}]
  <2>1. g[t \ {pick[t]}] \in Nat /\ f[pick[t]] \in Nat
    BY <1>2, <1>4, <1>5 DEF IsFold
  <2>2. g[t] = F[<<g[t \ {pick[t]}], f[pick[t]]>>]
    BY <1>4, <1>5 DEF IsFold
  <2> QED
    BY <1>1, <2>1, <2>2
<1>6. \A t \in SUBSET (1 .. m) :
        g[t] = IF t = {} THEN 0
               ELSE f[CHOOSE x \in t : TRUE] + g[t \ {CHOOSE x \in t : TRUE}]
  BY <1>2, <1>4, <1>5 DEF IsFold
<1>7. g = [t \in SUBSET (1 .. m) |-> g[t]] /\ DOMAIN f = 1 .. m
  BY <1>4 DEF IsFold
<1>8. SumFold(g, f)
  BY <1>6, <1>7 DEF SumFold
<1> QED
  BY <1>8

(* Any summand can be taken out first.                                     *)
TakesOutAny(g, f, t) == g[t] \in Nat /\ \A y \in t : f[y] + g[t \ {y}] = g[t]

(* A sum of naturals does not depend on which was taken out first.         *)
LEMMA AnySummandFirst ==
  ASSUME NEW m \in Nat, NEW f \in [1 .. m -> Nat],
         NEW t \in SUBSET (1 .. m), NEW g, SumFold(g, f)
  PROVE  TakesOutAny(g, f, t)
<1> DEFINE D == 1 .. m
           T == {n \in Nat : \A u \in SUBSET D : Cardinality(u) <= n =>
                               /\ g[u] \in Nat
                               /\ \A z \in u : f[z] + g[u \ {z}] = g[u]}
<1>1. \A u \in SUBSET D : IsFiniteSet(u) /\ Cardinality(u) \in Nat
                          /\ (Cardinality(u) = 0 <=> u = {})
                          /\ \A x \in u : Cardinality(u \ {x}) = Cardinality(u) - 1
  <2>1. IsFiniteSet(D)
    BY FS_Interval
  <2> HIDE DEF D
  <2> SUFFICES ASSUME NEW u \in SUBSET D
               PROVE  IsFiniteSet(u) /\ Cardinality(u) \in Nat
                      /\ (Cardinality(u) = 0 <=> u = {})
                      /\ \A x \in u : Cardinality(u \ {x}) = Cardinality(u) - 1
    OBVIOUS
  <2>2. IsFiniteSet(u)
    BY <2>1, FS_Subset
  <2> QED
    BY <2>2, FS_CardinalityType, FS_EmptySet, FS_RemoveElement
<1>2. ASSUME NEW u \in SUBSET D, u # {}
      PROVE  \E x \in u : g[u] = f[x] + g[u \ {x}]
  <2>1. (CHOOSE x \in u : TRUE) \in u
    BY <1>2
  <2> QED
    BY <1>2, <2>1 DEF SumFold
<1>3. /\ \A u \in SUBSET D : \A x : u \ {x} \in SUBSET D
      /\ \A x \in D : f[x] \in Nat
  OBVIOUS
<1>4. 0 \in T
  <2>1. g[{}] = 0
    BY DEF SumFold
  <2>2. \A u \in SUBSET D : Cardinality(u) <= 0 => u = {}
    BY <1>1
  <2>3. ASSUME NEW u \in SUBSET D, Cardinality(u) <= 0
        PROVE  g[u] \in Nat /\ \A z \in u : f[z] + g[u \ {z}] = g[u]
    <3>1. u = {}
      BY <2>2, <2>3
    <3> QED
      BY <2>1, <3>1
  <2>4. 0 \in Nat
    OBVIOUS
  <2> QED
    BY <2>3, <2>4
<1> HIDE DEF D
<1>5. ASSUME NEW n \in T PROVE n + 1 \in T
  <2>0. ASSUME NEW u \in SUBSET D, u = {}
        PROVE  g[u] \in Nat /\ \A z \in u : f[z] + g[u \ {z}] = g[u]
    BY <1>1, <1>4, <2>0
  <2> SUFFICES ASSUME NEW u \in SUBSET D, Cardinality(u) <= n + 1, u # {}
               PROVE  g[u] \in Nat /\ \A z \in u : f[z] + g[u \ {z}] = g[u]
    BY <2>0
  <2>1. n \in Nat
    OBVIOUS
  <2>2. ASSUME NEW v \in SUBSET u, NEW x \in u, x \notin v
        PROVE  g[v] \in Nat /\ \A z \in v : f[z] + g[v \ {z}] = g[v]
    <3>1. u \ {x} \in SUBSET D /\ v \in SUBSET (u \ {x}) /\ v \in SUBSET D
      BY <2>2
    <3>2. Cardinality(u \ {x}) <= n
      BY <1>1, <2>1
    <3>3. Cardinality(v) <= Cardinality(u \ {x})
      BY <1>1, <3>1, FS_Subset
    <3>4. Cardinality(v) <= n
      BY <1>1, <2>1, <3>1, <3>2, <3>3
    <3> QED
      BY <1>5, <3>1, <3>4
  <2> HIDE DEF T
  <2>3. PICK x \in u : g[u] = f[x] + g[u \ {x}]
    BY <1>2
  <2>4. x \notin u \ {x} /\ u \ {x} \in SUBSET u
    OBVIOUS
  <2>5. g[u] \in Nat
    BY <1>3, <2>2, <2>3, <2>4
  <2>6. ASSUME NEW z \in u, x # z PROVE f[z] + g[u \ {z}] = g[u]
    <3> DEFINE v == (u \ {x}) \ {z}
    <3>1. z \in u \ {x} /\ x \in u \ {z} /\ v = (u \ {z}) \ {x}
          /\ u \ {z} \in SUBSET u /\ z \notin u \ {z} /\ v \in SUBSET u /\ x \notin v
      BY <2>6
    <3>2. g[u \ {x}] = f[z] + g[v] /\ g[u \ {z}] = f[x] + g[v]
      BY <2>2, <2>4, <3>1
    <3>3. f[x] \in Nat /\ f[z] \in Nat /\ g[v] \in Nat
      BY <1>3, <2>2, <3>1
    <3> HIDE DEF v
    <3> QED
      BY <2>3, <3>2, <3>3
  <2> QED
    BY <2>3, <2>5, <2>6
<1>6. T \in SUBSET Nat
  OBVIOUS
<1>7. t \in SUBSET D
  BY DEF D
<1> HIDE DEF T
<1>8. Cardinality(t) \in T
  BY <1>1, <1>4, <1>5, <1>6, <1>7, NumbersByInduction
<1>9. Cardinality(t) <= Cardinality(t)
  BY <1>1, <1>7
<1>10. \A u \in SUBSET D : Cardinality(u) <= Cardinality(t) =>
         /\ g[u] \in Nat
         /\ \A z \in u : f[z] + g[u \ {z}] = g[u]
  BY <1>8 DEF T
<1> QED
  BY <1>7, <1>9, <1>10 DEF TakesOutAny

(* The sum of every digit times its power is what Horner's rule reads.     *)
AreSummands(f, w, p, m) == \A b \in 1 .. m : f[b] = Summand(w, p, b)

(* A sum of digits times powers is what Horner's rule reads.               *)
IsSumOf(n, g, m) == n = g[1 .. m]

(* The sum over the digits and the nested reading agree.                   *)
LEMMA SumIsHorner ==
  ASSUME NEW m \in Nat, NEW q \in Nat \ {0}, NEW w, AreDigits(w, q, m),
         NEW h, IsHorner(h, w, q, m), NEW p, ArePowers(p, q, m),
         NEW f \in [1 .. m -> Nat], NEW g, SumFold(g, f),
         AreSummands(f, w, p, m)
  PROVE  IsSumOf(h[1], g, m)
<1>1. ASSUME NEW t \in SUBSET (1 .. m), NEW y \in t
      PROVE  f[y] + g[t \ {y}] = g[t]
  <2>1. TakesOutAny(g, f, t)
    BY AnySummandFirst
  <2> QED
    BY <2>1 DEF TakesOutAny
<1>2. ASSUME NEW e \in 0 .. m
      PROVE  /\ LowPart(h, p, e) \in Nat
             /\ e < m => LowPart(h, p, e) + Summand(w, p, e + 1) = LowPart(h, p, e + 1)
  BY HornerSplits
<1>3. h[1] \in Nat
  <2>1. w \in [1 .. m -> Nat] /\ 1 \in 1 .. m + 1
    BY DEF AreDigits
  <2> QED
    BY <2>1, HornerIsNat
<1> DEFINE S(k) == g[1 .. k]
           H(k) == LowPart(h, p, k)
           T == {k \in 0 .. m : S(k) = H(k)}
<1>4. 0 \in T
  <2>1. g[{}] = 0
    BY DEF SumFold
  <2>2. 1 .. 0 = {} /\ 0 \in 0 .. m /\ p[0] = 1
    BY DEF ArePowers
  <2> QED
    BY <1>3, <2>1, <2>2 DEF LowPart
<1>5. ASSUME NEW k \in 0 .. m - 1, k \in T PROVE k + 1 \in T
  <2>1. k \in 0 .. m /\ k + 1 \in 0 .. m /\ k < m /\ k + 1 \in 1 .. m
        /\ (k + 1) + 1 = k + 2 /\ (k + 1) - 1 = k
    OBVIOUS
  <2> DEFINE K == 1 .. k + 1
  <2>2. K \in SUBSET (1 .. m) /\ K \ {k + 1} = 1 .. k /\ k + 1 \in K
    <3>1. K \in SUBSET (1 .. m) /\ K \ {k + 1} = 1 .. k
      BY PrefixIndices
    <3>2. k + 1 \in K
      OBVIOUS
    <3> QED
      BY <3>1, <3>2
  <2> HIDE DEF K
  <2>3. g[K] = f[k + 1] + g[1 .. k]
    BY <1>1, <2>2
  <2>4. S(k + 1) = f[k + 1] + S(k)
    BY <2>3 DEF K
  <2>5. H(k + 1) = H(k) + Summand(w, p, k + 1) /\ H(k) \in Nat
    BY <1>2, <2>1
  <2>6. f[k + 1] = Summand(w, p, k + 1) /\ f[k + 1] \in Nat
    BY <2>1 DEF AreSummands
  <2>7. S(k) = H(k)
    BY <1>5
  <2> HIDE DEF S, H
  <2> QED
    BY <2>1, <2>4, <2>5, <2>6, <2>7
<1> HIDE DEF T
<1>6. m \in T
  BY <1>4, <1>5, InductionUpTo
<1>7. g[1 .. m] = h[1] - p[m] * h[m + 1]
  BY <1>6 DEF T, LowPart
<1>8. h[m + 1] = 0 /\ p[m] \in Nat
  BY DEF IsHorner, ArePowers
<1> QED
  BY <1>3, <1>7, <1>8 DEF IsSumOf

(* The integer of the bytes of a limb or an element is what is read from   *)
(* them.                                                                   *)
LEMMA IntegerOfBytesIsFromLeBytes ==
  ASSUME NEW m \in 0 .. FieldBytes, NEW w \in [1 .. m -> Bytes]
  PROVE  IntegerOfBytes(w) = FromLeBytes(w)
<1> DEFINE p == [n \in 0 .. m |-> ByteBase^n]
           f == [b \in DOMAIN w |-> w[b] * ByteBase^(b - 1)]
           g == CHOOSE e : SumFold(e, f)
<1>1. m \in Nat /\ w \in [1 .. m -> Nat] /\ AreDigits(w, ByteBase, m)
      /\ ArePowers(p, ByteBase, m) /\ ByteBase \in Nat \ {0}
  BY FieldHoldsLimbs, PowersOfByteBase DEF Bytes, AreDigits
<1>2. IntegerOfBytes(w) = g[DOMAIN f]
  BY DEF IntegerOfBytes, FoldFunction, FoldFunctionOnSet, MapThenFoldSet, SumFold
<1>3. DOMAIN f = 1 .. m /\ DOMAIN w = 1 .. m
  OBVIOUS
<1>4. ASSUME NEW b \in 1 .. m
      PROVE  f[b] = w[b] * p[b - 1] /\ f[b] \in Nat
  <2>1. b - 1 \in 0 .. m
    BY <1>1
  <2>2. f[b] = w[b] * p[b - 1]
    BY <2>1
  <2>3. p[b - 1] \in Nat /\ w[b] \in Nat
    BY <1>1, <2>1 DEF ArePowers
  <2> HIDE DEF f, p
  <2> QED
    BY <2>2, <2>3
<1>5. f \in [1 .. m -> Nat]
  BY <1>4
<1>6. AreSummands(f, w, p, m)
  BY <1>4 DEF AreSummands, Summand
<1> HIDE DEF f, p
<1>7. PICK h : IsHorner(h, w, ByteBase, m) /\ h[1] = FromLeBytes(w)
  BY <1>1, FromLeBytesIsHorner
<1>8. SumFold(g, f)
  BY <1>1, <1>5, SumFoldExists
<1> HIDE DEF g
<1>9. IsSumOf(h[1], g, m)
  BY <1>1, <1>5, <1>6, <1>7, <1>8, SumIsHorner
<1> QED
  BY <1>2, <1>3, <1>7, <1>9 DEF IsSumOf

-----------------------------------------------------------------------------
(* A limb and its bytes.                                                   *)

(* Reading bytes gives a limb, and writing it gives them back.             *)
LEMMA ReadLimbIsLimb ==
  ASSUME NEW w \in [1 .. LimbBytes -> Bytes]
  PROVE  FromLeBytes(w) \in LimbValues /\ ToLeBytes(FromLeBytes(w)) = w
<1> DEFINE m == LimbBytes
           p == [n \in 0 .. m |-> ByteBase^n]
<1>1. m \in Nat /\ w \in [1 .. m -> Nat] /\ AreDigits(w, ByteBase, m)
      /\ ArePowers(p, ByteBase, m) /\ ByteBase \in Nat \ {0} /\ m \in 0 .. m
      /\ LimbValues = 0 .. LimbBase - 1
  BY BasesAreBases DEF Bytes, AreDigits
<1>2. p[m] = LimbBase /\ \A k \in 1 .. m : p[k - 1] = ByteBase^(k - 1)
  <2>1. \A k \in 1 .. m : k - 1 \in 0 .. m
    BY <1>1
  <2> QED
    BY <1>1, <2>1 DEF LimbBase
<1> HIDE DEF p, m
<1>3. PICK h : IsHorner(h, w, ByteBase, m) /\ h[1] = FromLeBytes(w)
  BY <1>1, FromLeBytesIsHorner
<1>4. h[1] \in Nat /\ h[1] < p[m]
  BY <1>1, <1>3, HornerBelow
<1>5. FromLeBytes(w) \in LimbValues
  <2>1. LimbBase \in Nat
    BY BasesAreBases
  <2> QED
    BY <1>1, <1>2, <1>3, <1>4, <2>1
<1>6. HasDigits(h[1], w, p, ByteBase, m)
  BY <1>1, <1>3, DigitsOfHorner
<1>7. ToLeBytes(FromLeBytes(w)) = [k \in 1 .. m |-> w[k]]
  BY <1>2, <1>3, <1>6 DEF ToLeBytes, HasDigits, m
<1> QED
  BY <1>1, <1>5, <1>7

(* A limb is written as bytes.                                             *)
LEMMA WrittenLimbIsBytes ==
  ASSUME NEW limb \in LimbValues
  PROVE  ToLeBytes(limb) \in [1 .. LimbBytes -> Bytes]
<1>1. /\ ByteBase \in Nat \ {0} /\ LimbBytes \in Nat /\ limb \in Nat
  BY BasesAreBases
<1>2. ASSUME NEW k \in 1 .. LimbBytes
      PROVE  (limb \div ByteBase^(k - 1)) % ByteBase \in Bytes
  <2> DEFINE d == ByteBase^(k - 1)
             x == limb \div d
  <2>1. k - 1 \in 0 .. FieldBytes
    BY <1>1, FieldHoldsLimbs
  <2>2. d \in Nat \ {0}
    BY <2>1, PowersAssumption
  <2> HIDE DEF d
  <2>3. x \in Nat
    BY <1>1, <2>2
  <2> HIDE DEF x
  <2>4. x % ByteBase \in 0 .. ByteBase - 1
    BY <1>1, <2>3
  <2> QED
    BY <2>4 DEF Bytes, x, d
<1> QED
  BY <1>2 DEF ToLeBytes

(* Limbs compare as the integers they stand for, from the most significant *)
(* that differs.                                                           *)
LEMMA LimbsCompare ==
  ASSUME NEW m \in Nat, NEW v \in [1 .. m -> LimbValues],
         NEW w \in [1 .. m -> LimbValues],
         NEW k \in 0 .. m, \A j \in k + 1 .. m : v[j] = w[j]
  PROVE  /\ IntegerOf(v) \in Nat /\ IntegerOf(w) \in Nat
         /\ k = 0 => IntegerOf(v) = IntegerOf(w)
         /\ k > 0 /\ v[k] < w[k] => IntegerOf(v) < IntegerOf(w)
<1>1. LimbValues = 0 .. LimbBase - 1 /\ LimbBase \in Nat \ {0}
  BY BasesAreBases
<1>2. /\ AreDigits(v, LimbBase, m) /\ AreDigits(w, LimbBase, m)
      /\ v \in [1 .. m -> Nat] /\ w \in [1 .. m -> Nat]
  BY <1>1 DEF AreDigits
<1>3. PICK g : IsHorner(g, v, LimbBase, m) /\ g[1] = IntegerOf(v)
  BY <1>2, IntegerOfIsHorner
<1>4. PICK h : IsHorner(h, w, LimbBase, m) /\ h[1] = IntegerOf(w)
  BY <1>2, IntegerOfIsHorner
<1>5. g[1] \in Nat /\ h[1] \in Nat
  <2>1. 1 \in 1 .. m + 1 /\ LimbBase \in Nat
    BY <1>1
  <2> QED
    BY <1>2, <1>3, <1>4, <2>1, HornerIsNat
<1>6. /\ k = 0 => g[1] = h[1]
      /\ k > 0 /\ v[k] < w[k] => g[1] < h[1]
  BY <1>1, <1>2, <1>3, <1>4, HornerCompares
<1> QED
  BY <1>3, <1>4, <1>5, <1>6

-----------------------------------------------------------------------------
(* Writing: the limbs' bytes one after another.                            *)

(* `s` holds the bytes of the first n of some limbs.                       *)
HoldsLimbs(s, limbs, n) ==
  /\ s \in Seq(Bytes) /\ Len(s) = n * LimbBytes
  /\ \A j \in 1 .. n, b \in 1 .. LimbBytes :
       s[(j - 1) * LimbBytes + b] = ToLeBytes(limbs[j])[b]

(* write_raw_limbs writes each limb at its place.                          *)
LEMMA WritesEveryLimb ==
  ASSUME NEW n \in Nat, NEW limbs \in [1 .. n -> LimbValues]
  PROVE  HoldsLimbs(WriteRawLimbs(limbs), limbs, n)
<1> DEFINE L == LimbBytes
           v == [j \in 1 .. n |-> ToLeBytes(limbs[j])]
           joined(f) == [t \in SUBSET (1 .. n) |->
                           IF t = {} THEN <<>> ELSE f[t \ {Max(t)}] \o v[Max(t)]]
           writes(f) ==
             [t \in SUBSET DOMAIN limbs |->
                IF t = {} THEN <<>> ELSE f[t \ {Max(t)}] \o ToLeBytes(limbs[Max(t)])]
           g == CHOOSE f : JoinFold(f, v)
<1>1. L \in Nat \ {0}
  BY BasesAreBases
<1>2. v \in [1 .. n -> [1 .. L -> Bytes]]
  BY WrittenLimbIsBytes
<1>3. JoinFold(g, v)
  <2> HIDE DEF v, L
  <2> QED
    BY <1>1, <1>2, JoinFoldExists
<1>4. WriteRawLimbs(limbs) = g[1 .. n]
  <2>1. \A t \in SUBSET (1 .. n) : t # {} => v[Max(t)] = ToLeBytes(limbs[Max(t)])
    BY MaxInRange
  <2>2. \A f : writes(f) = joined(f)
    <3> HIDE DEF v
    <3> QED
      BY <2>1
  <2>3. g = CHOOSE f : f = joined(f)
    BY DEF JoinFold
  <2>4. WriteRawLimbs(limbs) = (CHOOSE f : f = writes(f))[DOMAIN limbs]
    BY DEF WriteRawLimbs, FoldLeft, MapThenFoldSet
  <2> HIDE DEF g, writes, joined
  <2> QED
    BY <2>2, <2>3, <2>4
<1> HIDE DEF g, L
<1>5. HoldsParts(g[1 .. n], v, n, L, Bytes)
  <2> HIDE DEF v
  <2> QED
    BY <1>1, <1>2, <1>3, JoinsEveryPart
<1> QED
  BY <1>4, <1>5 DEF HoldsParts, HoldsLimbs, L

-----------------------------------------------------------------------------
(* Reading: where limbs and their bytes are.                               *)

(* Whole chunks, counted and multiplied.                                   *)
LEMMA AtMostQuotient ==
  ASSUME NEW a \in Nat, NEW d \in Nat \ {0}, NEW k \in Nat
  PROVE  k <= a \div d <=> d * k <= a
<1> DEFINE q == a \div d
<1>1. q \in Nat
  OBVIOUS
<1> HIDE DEF q
<1>2. d * q <= a /\ a < d * q + d
  BY <1>1, QuotientBounds DEF q
<1>3. d * q \in Nat /\ d * k \in Nat
  BY <1>1
<1>4. k < q => d * k + d <= d * q
  BY <1>1, ProductsAreSpaced
<1>5. q < k => d * q + d <= d * k
  BY <1>1, ProductsAreSpaced
<1>6. k = q => d * k = d * q
  OBVIOUS
<1> DEFINE dk == d * k
           dq == d * q
<1>7. k <= q <=> dk <= a
  <2> HIDE DEF dk, dq
  <2>1. dq <= a /\ a < dq + d /\ dq \in Nat /\ dk \in Nat
        /\ (k < q => dk + d <= dq) /\ (q < k => dq + d <= dk) /\ (k = q => dk = dq)
    BY <1>2, <1>3, <1>4, <1>5, <1>6 DEF dk, dq
  <2> QED
    BY <1>1, <2>1
<1> QED
  BY <1>7 DEF q

(* The sizes of the raw form of either curve.                              *)
LEMMA Sizes ==
  ASSUME NEW c \in Curves
  PROVE  /\ LimbCount(c) \in Nat \ {0}
         /\ RawSize(c) = LimbCount(c) * LimbBytes + 1
         /\ FieldCount[c] \in Nat \ {0} /\ LimbCount(c) = FieldCount[c] * LimbsPerField
         /\ Pieces(c) \in Nat \ {0} /\ Pieces(c) * PieceBytes(c) = RawSize(c) - 1
         /\ \E P \in Nat \ {0} : PieceBytes(c) = P * LimbBytes
<1> DEFINE F == FieldCount[c]
           M == LimbsPerField
           L == LimbBytes
<1>1. F \in Nat \ {0} /\ M \in Nat \ {0} /\ L \in Nat \ {0}
  BY RawAssumption, BasesAreBases
<1>2. LimbCount(c) = F * M /\ FieldBytes = L * M /\ RawSize(c) - 1 = F * FieldBytes
      /\ RawSize(c) = F * FieldBytes + 1
  <2>1. LimbCount(c) = F * M /\ FieldBytes = L * M /\ RawSize(c) = F * FieldBytes + 1
    BY DEF LimbCount, FieldBytes, RawSize
  <2>2. F * FieldBytes \in Nat
    BY <1>1, <2>1
  <2> QED
    BY <2>1, <2>2
<1> DEFINE FB == FieldBytes
           P == PieceBytes(c)
<1> HIDE DEF F, M, L, FB, P
<1>3. F * M \in Nat \ {0} /\ FB \in Nat \ {0} /\ FB = M * L /\ F * FB \in Nat \ {0}
      /\ F * FB = (F * M) * L
  <2>1. FB = L * M
    BY <1>2 DEF FB
  <2>2. FB \in Nat \ {0} /\ F * M \in Nat \ {0}
    BY <1>1, <2>1
  <2>3. F * FB \in Nat \ {0}
    BY <1>1, <2>2
  <2>4. FB = M * L /\ F * (M * L) = (F * M) * L
    BY <1>1, <2>1
  <2> QED
    BY <2>2, <2>3, <2>4
<1>4. CASE c = "G2"
  <2>1. P = FB
    BY <1>4 DEF PieceBytes, P, FB
  <2>2. Pieces(c) = (F * FB) \div FB
    BY <1>2, <2>1 DEF Pieces, P, FB
  <2>3. (F * FB) \div FB = F
    <3> DEFINE n == F * FB
    <3>1. FB * F = n /\ n \in Nat
      BY <1>1, <1>3
    <3> HIDE DEF n
    <3>2. FB * F <= n /\ n < FB * F + FB
      BY <1>3, <3>1
    <3>3. n \div FB = F
      BY <1>1, <1>3, <3>1, <3>2, QuotientIsUnique
    <3> QED
      BY <3>3 DEF n
  <2> QED
    BY <1>1, <1>2, <1>3, <2>1, <2>2, <2>3 DEF F, M, L, FB, P
<1>5. CASE c # "G2"
  <2>1. P = F * FB
    BY <1>2, <1>5 DEF PieceBytes, P, FB
  <2>2. Pieces(c) = P \div P
    BY <1>2, <2>1 DEF Pieces, P, FB
  <2>3. P \div P = 1
    <3>1. P \in Nat \ {0}
      BY <1>3, <2>1
    <3>2. P * 1 <= P /\ P < P * 1 + P /\ 1 \in Nat /\ P \in Nat
      BY <3>1
    <3> QED
      BY <3>1, <3>2, QuotientIsUnique
  <2>4. 1 * P = P
    BY <1>3, <2>1
  <2>5. LimbCount(c) \in Nat \ {0} /\ RawSize(c) = LimbCount(c) * LimbBytes + 1
        /\ PieceBytes(c) = LimbCount(c) * LimbBytes
    BY <1>2, <1>3, <2>1 DEF L, FB, P
  <2>6. Pieces(c) = 1 /\ Pieces(c) * PieceBytes(c) = RawSize(c) - 1
    BY <1>2, <2>1, <2>2, <2>3, <2>4 DEF P, FB
  <2>7. FieldCount[c] \in Nat \ {0} /\ LimbCount(c) = FieldCount[c] * LimbsPerField
    BY <1>1, <1>2 DEF F, M
  <2> QED
    BY <2>5, <2>6, <2>7
<1> QED
  BY <1>4, <1>5

(* What a slicing expression in bounds gives.                              *)
LEMMA PartOfSlice ==
  ASSUME NEW s \in Seq(Bytes), NEW a \in Nat, NEW b \in Nat, a <= b, b <= Len(s)
  PROVE  /\ SubSeq(s, a + 1, b) \in Seq(Bytes) /\ Len(SubSeq(s, a + 1, b)) = b - a
         /\ \A x \in 1 .. b - a : SubSeq(s, a + 1, b)[x] = s[a + x]
OBVIOUS

(* The bytes of the j-th limb.                                             *)
LimbIn(s, j) == FromLeBytes(SubSeq(s, (j - 1) * LimbBytes + 1, j * LimbBytes))

(* Where the bytes of the j-th limb begin and end.                         *)
LEMMA PlaceOfLimb ==
  ASSUME NEW j \in Nat \ {0}
  PROVE  /\ (j - 1) * LimbBytes \in Nat /\ j * LimbBytes \in Nat
         /\ j * LimbBytes = (j - 1) * LimbBytes + LimbBytes
<1> DEFINE L == LimbBytes
           k == j - 1
<1>1. L \in Nat \ {0} /\ k \in Nat /\ j = k + 1
  BY BasesAreBases
<1> HIDE DEF L, k
<1>2. (k + 1) * L = k * L + L /\ k * L \in Nat /\ (k + 1) * L \in Nat
  BY <1>1
<1> QED
  BY <1>1, <1>2 DEF L, k

(* A limb that a slice holds whole.                                        *)
LEMMA LimbInSlice ==
  ASSUME NEW s \in Seq(Bytes), NEW j \in Nat \ {0}, j * LimbBytes <= Len(s)
  PROVE  /\ SubSeq(s, (j - 1) * LimbBytes + 1, j * LimbBytes) \in [1 .. LimbBytes -> Bytes]
         /\ \A b \in 1 .. LimbBytes :
              SubSeq(s, (j - 1) * LimbBytes + 1, j * LimbBytes)[b] =
              s[(j - 1) * LimbBytes + b]
         /\ LimbIn(s, j) \in LimbValues
<1> DEFINE L == LimbBytes
           a == (j - 1) * L
           z == j * L
           w == SubSeq(s, a + 1, z)
<1>1. L \in Nat \ {0} /\ a \in Nat /\ z \in Nat /\ z = a + L /\ z <= Len(s)
  BY BasesAreBases, PlaceOfLimb
<1> HIDE DEF L, a, z
<1>2. z - a = L /\ a <= z
  BY <1>1
<1>3. w \in Seq(Bytes) /\ Len(w) = L /\ \A b \in 1 .. L : w[b] = s[a + b]
  BY <1>1, <1>2, PartOfSlice
<1> HIDE DEF w
<1>4. w \in [1 .. L -> Bytes]
  BY <1>3
<1>5. FromLeBytes(w) \in LimbValues
  BY <1>4, ReadLimbIsLimb DEF L
<1> QED
  BY <1>3, <1>4, <1>5 DEF LimbIn, w, a, z, L

(* A chunk of a part of a slice is a limb of the slice.                    *)
LEMMA ChunkIsLimbIn ==
  ASSUME NEW s \in Seq(Bytes), NEW skip \in Nat, NEW to \in Nat,
         skip * LimbBytes <= to, to <= Len(s),
         NEW k \in Nat \ {0}, k * LimbBytes <= to - skip * LimbBytes
  PROVE  FromLeBytes(Chunk(SubSeq(s, skip * LimbBytes + 1, to), k)) = LimbIn(s, skip + k)
<1> DEFINE L == LimbBytes
           a == skip * L
           t == SubSeq(s, a + 1, to)
           x == (k - 1) * L
           z == k * L
           j == skip + k
<1>1. L \in Nat \ {0} /\ a \in Nat /\ x \in Nat /\ z \in Nat /\ z = x + L /\ j \in Nat \ {0}
      /\ a <= to /\ to <= Len(s) /\ z <= to - a
  <2>1. L \in Nat \ {0} /\ x \in Nat /\ z \in Nat /\ z = x + L
    BY BasesAreBases, PlaceOfLimb
  <2> HIDE DEF L, x, z
  <2>2. a \in Nat /\ j \in Nat \ {0}
    BY <2>1
  <2> QED
    BY <2>1, <2>2 DEF L, z
<1>2. (j - 1) * L = a + x /\ j * L = a + z
  <2>1. j - 1 = skip + (k - 1) /\ k - 1 \in Nat
    OBVIOUS
  <2>2. L \in Nat
    BY <1>1
  <2> HIDE DEF L
  <2>3. (skip + (k - 1)) * L = skip * L + (k - 1) * L
    BY <2>1, <2>2
  <2>4. (skip + k) * L = skip * L + k * L
    BY <2>2
  <2> QED
    BY <2>1, <2>3, <2>4
<1> HIDE DEF L, a, x, z, j
<1>3. t \in Seq(Bytes) /\ Len(t) = to - a /\ \A b \in 1 .. to - a : t[b] = s[a + b]
  BY <1>1, PartOfSlice
<1> HIDE DEF t
<1>4. Chunk(t, k) = SubSeq(t, x + 1, z)
  <2>1. z \in Nat /\ Len(t) \in Nat /\ z <= Len(t)
    BY <1>1, <1>3
  <2>2. Lesser(z, Len(t)) = z
    BY <2>1 DEF Lesser
  <2> QED
    BY <2>2 DEF Chunk, x, z, L
<1> DEFINE u == SubSeq(t, x + 1, z)
           v == SubSeq(s, (j - 1) * L + 1, j * L)
<1>5. u \in Seq(Bytes) /\ Len(u) = L /\ \A b \in 1 .. L : u[b] = t[x + b]
  <2>1. x <= z /\ z <= Len(t) /\ z - x = L
    BY <1>1, <1>3
  <2> QED
    BY <1>1, <1>3, <2>1, PartOfSlice
<1>6. v \in [1 .. L -> Bytes] /\ \A b \in 1 .. L : v[b] = s[(j - 1) * L + b]
  <2>1. j * L <= Len(s)
    BY <1>1, <1>2
  <2> QED
    BY <1>1, <2>1, LimbInSlice DEF L
<1> HIDE DEF u, v
<1>7. \A b \in 1 .. L : u[b] = v[b]
  <2> SUFFICES ASSUME NEW b \in 1 .. L PROVE u[b] = v[b]
    OBVIOUS
  <2>1. x + b \in 1 .. to - a /\ a + (x + b) = (a + x) + b
    BY <1>1
  <2>2. u[b] = s[(a + x) + b]
    BY <1>3, <1>5, <2>1
  <2> QED
    BY <1>2, <1>6, <2>2
<1>8. u = v
  <2>1. u \in [1 .. L -> Bytes]
    BY <1>5
  <2>2. u = [b \in 1 .. L |-> u[b]] /\ v = [b \in 1 .. L |-> v[b]]
    BY <1>6, <2>1
  <2> QED
    BY <1>7, <2>2
<1> QED
  BY <1>4, <1>8 DEF LimbIn, u, v, t, a, j, L

(* What one call of read_raw_limbs changes.                                *)
LEMMA ReadsChunks ==
  ASSUME NEW s \in Seq(Bytes), NEW n \in Nat, NEW limbs \in [1 .. n -> LimbValues],
         NEW skip \in Nat, NEW to \in Nat, skip * LimbBytes <= to, to <= Len(s)
  PROVE  LET read == ReadRawLimbs(SubSeq(s, skip * LimbBytes + 1, to), limbs, skip)
         IN  /\ read \in [1 .. n -> LimbValues]
             /\ \A j \in 1 .. n :
                  read[j] = IF skip < j /\ j * LimbBytes <= to THEN LimbIn(s, j)
                                                               ELSE limbs[j]
<1> DEFINE L == LimbBytes
           a == skip * L
           t == SubSeq(s, a + 1, to)
           read == ReadRawLimbs(t, limbs, skip)
<1>1. L \in Nat \ {0} /\ a \in Nat /\ a <= to /\ to <= Len(s) /\ to - a \in Nat
  BY BasesAreBases
<1>2. Len(t) = to - a
  <2> HIDE DEF L, a
  <2> QED
    BY <1>1, PartOfSlice
<1>3. ASSUME NEW j \in 1 .. n
      PROVE  read[j] = IF skip < j /\ j * L <= to THEN LimbIn(s, j) ELSE limbs[j]
  <2>1. read[j] = IF j - skip \in 1 .. FullChunks(t) THEN FromLeBytes(Chunk(t, j - skip))
                                                      ELSE limbs[j]
    BY DEF ReadRawLimbs
  <2>2. FullChunks(t) = (to - a) \div L
    BY <1>2 DEF FullChunks
  <2>3. CASE skip < j
    <3> DEFINE k == j - skip
    <3>1. k \in Nat \ {0} /\ skip + k = j /\ j \in Nat
      BY <2>3
    <3>2. j * L = a + k * L /\ k * L \in Nat /\ k * L = L * k
      <4>1. (skip + k) * L = a + k * L /\ k * L \in Nat /\ k * L = L * k
        BY <1>1, <3>1
      <4> QED
        BY <3>1, <4>1
    <3>3. k <= (to - a) \div L <=> L * k <= to - a
      BY <1>1, <3>1, AtMostQuotient
    <3>4. j * L <= to <=> L * k <= to - a
      <4> DEFINE kL == k * L
                 jL == j * L
      <4>1. jL = a + kL /\ kL \in Nat /\ kL = L * k
        BY <3>2
      <4> HIDE DEF kL, jL, a, L, k
      <4>2. jL <= to <=> kL <= to - a
        BY <1>1, <4>1
      <4> QED
        BY <4>1, <4>2 DEF jL
    <3>5. k \in 1 .. FullChunks(t) <=> j * L <= to
      <4>1. (to - a) \div L \in Nat
        BY <1>1
      <4> HIDE DEF k, a, L, t
      <4> QED
        BY <2>2, <3>1, <3>3, <3>4, <4>1
    <3>6. j * L <= to => FromLeBytes(Chunk(t, k)) = LimbIn(s, j)
      <4>1. j * L <= to => k * LimbBytes <= to - skip * LimbBytes
        BY <3>2, <3>4
      <4>2. k * LimbBytes <= to - skip * LimbBytes =>
              FromLeBytes(Chunk(SubSeq(s, skip * LimbBytes + 1, to), k)) = LimbIn(s, skip + k)
        BY <3>1, ChunkIsLimbIn
      <4> QED
        BY <3>1, <4>1, <4>2
    <3> QED
      BY <2>1, <2>3, <3>5, <3>6
  <2>4. CASE ~(skip < j)
    <3>1. ~(j - skip \in 1 .. FullChunks(t))
      <4>1. (to - a) \div L \in Nat /\ j - skip <= 0
        BY <1>1, <2>4
      <4> QED
        BY <2>2, <4>1
    <3> QED
      BY <2>1, <2>4, <3>1
  <2> QED
    BY <2>3, <2>4
<1>4. ASSUME NEW j \in 1 .. n PROVE read[j] \in LimbValues
  <2>1. CASE skip < j /\ j * L <= to
    <3>1. j \in Nat \ {0} /\ j * L \in Nat
      BY <1>1
    <3>2. j * L <= Len(s)
      BY <1>1, <2>1, <3>1
    <3>3. LimbIn(s, j) \in LimbValues
      BY <3>1, <3>2, LimbInSlice
    <3> QED
      BY <1>3, <2>1, <3>3
  <2>2. CASE ~(skip < j /\ j * L <= to)
    BY <1>3, <2>2
  <2> QED
    BY <2>1, <2>2
<1>5. read = [j \in 1 .. n |-> read[j]]
  BY DEF ReadRawLimbs
<1> HIDE DEF read
<1>6. read \in [1 .. n -> LimbValues]
  BY <1>4, <1>5
<1> QED
  BY <1>3, <1>6 DEF read, t, a, L

-----------------------------------------------------------------------------
(* The invariant.  Each part but the last speaks of one state of `pc` or   *)
(* two; what a state leaves to the next is what the next one's part needs. *)

(* The limbs of the first n bytes are read, and the others still zero.     *)
ReadUpTo(n) ==
  \A j \in 1 .. LimbCount(curve) :
    out[j] = IF j * LimbBytes <= n THEN LimbIn(slice, j) ELSE 0

BelowModulus(c) == IntegerOf(Element(c)) < IntegerOf(Modulus)

Shape ==
  /\ curve \in Curves /\ slice \in Seq(Bytes)
  /\ pc \in {"idle", "reading", "testing", "done"}
  /\ out \in [1 .. LimbCount(curve) -> LimbValues]
  /\ piece \in 1 .. Pieces(curve) + 1 /\ range \in Nat \X Nat
  /\ element \in 1 .. FieldCount[curve] /\ i \in 1 .. LimbsPerField
  /\ canonical \in {"unknown", "yes", "no"}

Untouched == pc = "idle" => range = <<0, 0>> /\ piece = 1
Untested ==
  pc \in {"idle", "reading"} =>
    element = 1 /\ i = LimbsPerField /\ canonical = "unknown"

(* While it reads, the pieces before `piece` are read.                     *)
ReadSoFar ==
  pc = "reading" =>
    /\ ~SaysIdentity(curve, slice)
    /\ ReadUpTo(Lesser(RawLength(curve, slice), From(curve, piece)))
AllRead ==
  pc \in {"testing", "done"} =>
    IF SaysIdentity(curve, slice) THEN out = ZeroLimbs(curve)
                                  ELSE ReadUpTo(Len(slice))

(* While it tests, the elements before `element` are below the modulus and *)
(* the limbs of `element` above `i` are the modulus's.                     *)
TestedSoFar ==
  pc = "testing" =>
    /\ Len(slice) = RawSize(curve) /\ ~SaysIdentity(curve, slice)
    /\ canonical = "unknown"
    /\ \A c \in 1 .. element - 1 : BelowModulus(c)
    /\ \A j \in i + 1 .. LimbsPerField : Element(element)[j] = Modulus[j]

IInv ==
  /\ Shape /\ SlicesInBounds /\ Untouched /\ Untested
  /\ ReadSoFar /\ AllRead /\ TestedSoFar /\ CanonicalIsExact

(* The values a call starts from.                                          *)
LEMMA FreshIsShaped ==
  ASSUME NEW c \in Curves
  PROVE  /\ ZeroLimbs(c) \in [1 .. LimbCount(c) -> LimbValues]
         /\ 1 \in 1 .. Pieces(c) + 1 /\ 1 \in 1 .. FieldCount[c]
         /\ LimbsPerField \in 1 .. LimbsPerField /\ <<0, 0>> \in Nat \X Nat
<1>1. Pieces(c) \in Nat \ {0} /\ FieldCount[c] \in Nat \ {0}
      /\ LimbsPerField \in Nat \ {0} /\ 0 \in LimbValues
  BY Sizes, BasesAreBases
<1> QED
  BY <1>1 DEF ZeroLimbs

(* The invariant holds at first, and every action keeps it.                *)
LEMMA InitialState ==
  ASSUME Init PROVE IInv
<1>1. curve = "G1" /\ "G1" \in Curves /\ slice = <<>> /\ pc = "idle"
      /\ out = ZeroLimbs("G1") /\ piece = 1 /\ range = <<0, 0>> /\ element = 1
      /\ i = LimbsPerField /\ canonical = "unknown"
  BY DEF Init, Curves
<1>2. Shape
  <2>1. <<>> \in Seq(Bytes)
    OBVIOUS
  <2> QED
    BY <1>1, <2>1, FreshIsShaped DEF Shape
<1>3. SlicesInBounds
  BY <1>1 DEF SlicesInBounds
<1> QED
  BY <1>1, <1>2, <1>3 DEF IInv, Untouched, Untested, ReadSoFar, AllRead, TestedSoFar,
                          CanonicalIsExact

(* Nothing is read when a call begins; the identity needs no reading.      *)
LEMMA CallKeepsInvariant ==
  ASSUME IInv, Call PROVE IInv'
<1>1. PICK c \in Curves : \E s \in Slices[c] :
        /\ pc = "idle" /\ curve' = c /\ slice' = s /\ out' = ZeroLimbs(c)
        /\ pc' = IF SaysIdentity(c, s) THEN "done" ELSE "reading"
        /\ UNCHANGED <<piece, range, element, i, canonical>>
  BY DEF Call
<1>2. PICK s \in Slices[c] :
        /\ pc = "idle" /\ curve' = c /\ slice' = s /\ out' = ZeroLimbs(c)
        /\ pc' = IF SaysIdentity(c, s) THEN "done" ELSE "reading"
        /\ UNCHANGED <<piece, range, element, i, canonical>>
  BY <1>1
<1>3. s \in Seq(Bytes)
  BY RawAssumption
<1>4. range = <<0, 0>> /\ piece = 1 /\ element = 1 /\ i = LimbsPerField
      /\ canonical = "unknown"
  BY <1>2 DEF IInv, Untouched, Untested
<1>5. Shape'
  BY <1>2, <1>3, <1>4, FreshIsShaped DEF Shape
<1>6. SlicesInBounds'
  <2>1. Len(slice') \in Nat
    BY <1>2, <1>3
  <2> QED
    BY <1>2, <1>4, <2>1 DEF SlicesInBounds
<1>7. ReadSoFar'
  <2>1. From(c, 1) = 0 /\ RawLength(c, s) \in Nat
    <3>1. (1 - 1) * PieceBytes(c) = 0 /\ Len(s) \in Nat /\ RawSize(c) - 1 \in Nat
      <4>1. PICK P \in Nat \ {0} : PieceBytes(c) = P * LimbBytes
        BY Sizes
      <4>2. PieceBytes(c) \in Nat
        BY <4>1, BasesAreBases
      <4>3. LimbCount(c) * LimbBytes \in Nat
        BY Sizes, BasesAreBases
      <4>4. RawSize(c) = LimbCount(c) * LimbBytes + 1
        BY Sizes
      <4> QED
        BY <1>3, <4>2, <4>3, <4>4
    <3> QED
      BY <3>1 DEF From, RawLength, Lesser
  <2>2. Lesser(RawLength(c, s), From(c, 1)) = 0
    BY <2>1 DEF Lesser
  <2>3. ASSUME NEW j \in 1 .. LimbCount(c)
        PROVE  ~(j * LimbBytes <= 0) /\ ZeroLimbs(c)[j] = 0
    <3>1. j \in Nat \ {0} /\ LimbBytes \in Nat \ {0}
      BY BasesAreBases
    <3>2. j * LimbBytes \in Nat \ {0}
      BY <3>1
    <3> QED
      BY <3>2 DEF ZeroLimbs
  <2> QED
    BY <1>2, <1>4, <2>2, <2>3 DEF ReadSoFar, ReadUpTo
<1>8. AllRead'
  BY <1>2 DEF AllRead
<1> QED
  BY <1>2, <1>4, <1>5, <1>6, <1>7, <1>8
  DEF IInv, Untouched, Untested, TestedSoFar, CanonicalIsExact

(* Nothing is left of a call that returned.                                *)
LEMMA ReturnKeepsInvariant ==
  ASSUME IInv, Return PROVE IInv'
<1>1. curve' = "G1" /\ "G1" \in Curves /\ slice' = <<>> /\ pc' = "idle"
      /\ out' = ZeroLimbs("G1") /\ piece' = 1 /\ range' = <<0, 0>> /\ element' = 1
      /\ i' = LimbsPerField /\ canonical' = "unknown"
  BY DEF Return, Curves
<1>2. Shape'
  <2>1. <<>> \in Seq(Bytes)
    OBVIOUS
  <2> QED
    BY <1>1, <2>1, FreshIsShaped DEF Shape
<1>3. SlicesInBounds'
  BY <1>1 DEF SlicesInBounds
<1> QED
  BY <1>1, <1>2, <1>3 DEF IInv, Untouched, Untested, ReadSoFar, AllRead, TestedSoFar,
                          CanonicalIsExact

(* Where the n-th piece begins and ends.                                   *)
LEMMA PieceBounds ==
  ASSUME NEW c \in Curves, NEW n \in 1 .. Pieces(c), NEW s \in Seq(Bytes)
  PROVE  /\ RawLength(c, s) \in Nat /\ RawLength(c, s) <= Len(s)
         /\ To(c, s, n) \in Nat /\ To(c, s, n) <= Len(s)
         /\ From(c, n) \in Nat /\ From(c, n + 1) \in Nat
         /\ From(c, n) <= From(c, n + 1) /\ (n = 1 => From(c, n) = 0)
         /\ To(c, s, n) = Lesser(RawLength(c, s), From(c, n + 1))
         /\ From(c, n) \div LimbBytes \in Nat
         /\ (From(c, n) \div LimbBytes) * LimbBytes = From(c, n)
<1> DEFINE L == LimbBytes
           PB == PieceBytes(c)
           from == From(c, n)
           next == From(c, n + 1)
<1>1. L \in Nat \ {0} /\ n \in Nat \ {0} /\ n - 1 \in Nat
  BY BasesAreBases, Sizes
<1>2. PICK P \in Nat \ {0} : PB = P * L
  BY Sizes
<1> DEFINE skip == (n - 1) * P
<1>3. PB \in Nat /\ skip \in Nat
  BY <1>1, <1>2
<1>4. from = skip * L /\ next = from + PB /\ from = L * skip /\ (n = 1 => from = 0)
      /\ next = n * PB
  <2>1. from = (n - 1) * PB /\ next = n * PB
    <3>1. (n + 1) - 1 = n
      BY <1>1
    <3> QED
      BY <3>1 DEF From
  <2> HIDE DEF PB, from, next, L
  <2>2. (n - 1) * (P * L) = ((n - 1) * P) * L
    BY <1>1
  <2>3. skip * L = L * skip
    BY <1>1, <1>3
  <2>4. n * PB = (n - 1) * PB + PB /\ (n = 1 => (n - 1) * PB = 0)
    BY <1>1, <1>3
  <2> QED
    BY <1>2, <2>1, <2>2, <2>3, <2>4
<1> HIDE DEF L, PB, from, next, skip
<1>5. from \in Nat /\ next \in Nat /\ from <= next
  <2>1. from \in Nat
    BY <1>1, <1>3, <1>4
  <2> QED
    BY <1>3, <1>4, <2>1
<1>6. from \div L = skip
  <2>1. L * skip <= from /\ from < L * skip + L
    <3>1. L * skip = from
      BY <1>4
    <3> QED
      BY <1>1, <1>5, <3>1
  <2> QED
    BY <1>1, <1>3, <1>5, <2>1, QuotientIsUnique
<1>7. RawLength(c, s) \in Nat /\ RawLength(c, s) <= Len(s)
  <2>1. LimbCount(c) * LimbBytes \in Nat /\ RawSize(c) = LimbCount(c) * LimbBytes + 1
    BY <1>1, Sizes DEF L
  <2>2. RawSize(c) - 1 \in Nat /\ Len(s) \in Nat
    BY <2>1
  <2> QED
    BY <2>2 DEF RawLength, Lesser
<1>8. To(c, s, n) = Lesser(RawLength(c, s), next)
  BY <1>4 DEF To, PB
<1>9. To(c, s, n) \in Nat /\ To(c, s, n) <= Len(s)
  <2>1. Len(s) \in Nat
    OBVIOUS
  <2> QED
    BY <1>5, <1>7, <1>8, <2>1 DEF Lesser
<1> QED
  BY <1>3, <1>4, <1>5, <1>6, <1>7, <1>8, <1>9 DEF from, next, L

(* What is read up to one piece, and the piece, are read up to the next.   *)
LEMMA ReadPieceReads ==
  ASSUME Shape, ReadSoFar, pc = "reading", piece <= Pieces(curve), ReadPiece
  PROVE  /\ out' \in [1 .. LimbCount(curve) -> LimbValues]
         /\ \A j \in 1 .. LimbCount(curve) :
              out'[j] = IF j * LimbBytes <= To(curve, slice, piece)
                        THEN LimbIn(slice, j) ELSE 0
         /\ range' = range \/ /\ range' \in Nat \X Nat /\ range'[1] <= range'[2]
                              /\ range'[2] <= Len(slice)
<1> DEFINE L == LimbBytes
           n == LimbCount(curve)
           RL == RawLength(curve, slice)
           from == From(curve, piece)
           to == To(curve, slice, piece)
           skip == from \div L
<1>1. curve \in Curves /\ slice \in Seq(Bytes) /\ piece \in 1 .. Pieces(curve)
      /\ n \in Nat /\ L \in Nat \ {0} /\ out \in [1 .. n -> LimbValues]
      /\ curve' = curve /\ slice' = slice
  BY Sizes, BasesAreBases DEF Shape, ReadPiece
<1>2. /\ RL \in Nat /\ RL <= Len(slice) /\ to \in Nat /\ to <= Len(slice)
      /\ from \in Nat /\ From(curve, piece + 1) \in Nat
      /\ from <= From(curve, piece + 1) /\ (piece = 1 => from = 0)
      /\ to = Lesser(RL, From(curve, piece + 1))
      /\ skip \in Nat /\ skip * L = from
  BY <1>1, PieceBounds
<1>3. \A j \in 1 .. n : out[j] = IF j * L <= Lesser(RL, from) THEN LimbIn(slice, j) ELSE 0
  BY DEF ReadSoFar, ReadUpTo
<1>4. \A j \in 1 .. n : j * L \in Nat /\ (j <= skip <=> j * L <= from)
  <2> SUFFICES ASSUME NEW j \in 1 .. n
               PROVE  j * L \in Nat /\ (j <= skip <=> j * L <= from)
    OBVIOUS
  <2>1. j \in Nat /\ j * L = L * j /\ j * L \in Nat
    BY <1>1
  <2> QED
    BY <1>1, <1>2, <2>1, AtMostQuotient
<1>5. \/ /\ PieceIsRead(curve, slice, piece) /\ range' = <<from, to>>
         /\ out' = ReadRawLimbs(Slice(slice, from, to), out, skip)
      \/ /\ ~PieceIsRead(curve, slice, piece) /\ range' = range /\ out' = out
  BY DEF ReadPiece
<1> HIDE DEF L, n, RL, from, to, skip
<1>6. CASE PieceIsRead(curve, slice, piece)
  <2>1. from <= to
    <3>1. piece = 1 \/ RL > from
      BY <1>6 DEF PieceIsRead, RL, from
    <3> QED
      BY <1>2, <3>1 DEF Lesser
  <2>2. Slice(slice, from, to) = SubSeq(slice, from + 1, to)
    <3>1. Lesser(to, Len(slice)) = to
      BY <1>1, <1>2 DEF Lesser
    <3> QED
      BY <3>1 DEF Slice
  <2>3. out' = ReadRawLimbs(SubSeq(slice, skip * L + 1, to), out, skip)
    BY <1>2, <1>5, <1>6, <2>2
  <2>4. skip * LimbBytes <= to
    BY <1>2, <2>1 DEF L
  <2>5. /\ out' \in [1 .. n -> LimbValues]
        /\ \A j \in 1 .. n : out'[j] = IF skip < j /\ j * L <= to THEN LimbIn(slice, j)
                                                                 ELSE out[j]
    <3> DEFINE read == ReadRawLimbs(SubSeq(slice, skip * LimbBytes + 1, to), out, skip)
    <3>1. /\ read \in [1 .. n -> LimbValues]
          /\ \A j \in 1 .. n : read[j] = IF skip < j /\ j * LimbBytes <= to
                                         THEN LimbIn(slice, j) ELSE out[j]
      BY <1>1, <1>2, <2>4, ReadsChunks
    <3>2. out' = read
      BY <2>3 DEF L
    <3> HIDE DEF read
    <3> QED
      BY <3>1, <3>2 DEF L
  <2>6. ASSUME NEW j \in 1 .. n
        PROVE  out'[j] = IF j * L <= to THEN LimbIn(slice, j) ELSE 0
    <3> DEFINE jL == j * L
    <3>1. jL \in Nat /\ (j <= skip <=> jL <= from) /\ j \in Nat
      BY <1>4
    <3>2. out'[j] = IF skip < j /\ jL <= to THEN LimbIn(slice, j) ELSE out[j]
      BY <2>5
    <3>3. out[j] = IF jL <= Lesser(RL, from) THEN LimbIn(slice, j) ELSE 0
      BY <1>3
    <3> HIDE DEF jL
    <3>4. to <= RL
      BY <1>2 DEF Lesser
    <3>5. CASE jL <= to
      <4>1. ~(skip < j) => jL <= Lesser(RL, from)
        BY <1>2, <3>1, <3>4, <3>5 DEF Lesser
      <4> QED
        BY <3>2, <3>3, <3>5, <4>1 DEF jL
    <3>6. CASE ~(jL <= to)
      <4>1. ~(jL <= Lesser(RL, from))
        BY <1>2, <2>1, <3>1, <3>6 DEF Lesser
      <4> QED
        BY <3>2, <3>3, <3>6, <4>1 DEF jL
    <3> QED
      BY <3>5, <3>6
  <2>7. range' \in Nat \X Nat /\ range'[1] <= range'[2] /\ range'[2] <= Len(slice)
    BY <1>2, <1>5, <1>6, <2>1
  <2> QED
    BY <2>5, <2>6, <2>7 DEF n, L, to
<1>7. CASE ~PieceIsRead(curve, slice, piece)
  <2>1. RL <= from
    BY <1>2, <1>7 DEF PieceIsRead, RL, from
  <2>2. to = RL /\ Lesser(RL, from) = RL
    BY <1>2, <2>1 DEF Lesser
  <2>3. out' = out /\ range' = range
    BY <1>5, <1>7
  <2> QED
    BY <1>1, <1>3, <2>2, <2>3 DEF n, L, to
<1> QED
  BY <1>6, <1>7

(* The places read up to one piece become those read up to the next.       *)
LEMMA ReadPieceKeepsInvariant ==
  ASSUME IInv, ReadPiece PROVE IInv'
<1>1. Shape /\ ReadSoFar /\ pc = "reading" /\ piece <= Pieces(curve)
      /\ piece \in 1 .. Pieces(curve) /\ curve \in Curves /\ slice \in Seq(Bytes)
      /\ Pieces(curve) \in Nat
  BY Sizes DEF IInv, ReadPiece, Shape
<1>2. piece' = piece + 1 /\ UNCHANGED <<curve, slice, pc, element, i, canonical>>
  BY DEF ReadPiece
<1>3. /\ out' \in [1 .. LimbCount(curve) -> LimbValues]
      /\ \A j \in 1 .. LimbCount(curve) :
           out'[j] = IF j * LimbBytes <= To(curve, slice, piece)
                     THEN LimbIn(slice, j) ELSE 0
      /\ range' = range \/ /\ range' \in Nat \X Nat /\ range'[1] <= range'[2]
                           /\ range'[2] <= Len(slice)
  BY <1>1, ReadPieceReads
<1>4. Shape'
  <2>1. piece' \in 1 .. Pieces(curve) + 1
    BY <1>1, <1>2
  <2> QED
    BY <1>1, <1>2, <1>3, <2>1 DEF Shape
<1>5. SlicesInBounds'
  BY <1>2, <1>3 DEF IInv, SlicesInBounds
<1>6. ReadSoFar'
  <2>1. To(curve, slice, piece) = Lesser(RawLength(curve, slice), From(curve, piece + 1))
    BY <1>1, PieceBounds
  <2>2. ~SaysIdentity(curve, slice)
    BY <1>1 DEF ReadSoFar
  <2> QED
    BY <1>2, <1>3, <2>1, <2>2 DEF ReadSoFar, ReadUpTo
<1>7. Untested' /\ Untouched' /\ AllRead' /\ TestedSoFar' /\ CanonicalIsExact'
  BY <1>1, <1>2 DEF IInv, Untested, Untouched, AllRead, TestedSoFar, CanonicalIsExact
<1> QED
  BY <1>4, <1>5, <1>6, <1>7 DEF IInv

(* After the last piece all of the slice is read.                          *)
LEMMA EndOfReadKeepsInvariant ==
  ASSUME IInv, EndOfRead PROVE IInv'
<1>1. /\ Shape /\ ReadSoFar /\ pc = "reading" /\ piece > Pieces(curve)
      /\ piece \in 1 .. Pieces(curve) + 1 /\ curve \in Curves /\ slice \in Seq(Bytes)
      /\ Pieces(curve) \in Nat \ {0}
      /\ UNCHANGED <<curve, slice, out, piece, range, element, i, canonical>>
      /\ pc' = IF curve = "G2" /\ Len(slice) = RawSize(curve) THEN "testing" ELSE "done"
  BY Sizes DEF IInv, EndOfRead, Shape
<1>2. Untested /\ element = 1 /\ i = LimbsPerField /\ canonical = "unknown"
  BY <1>1 DEF IInv, Untested
<1>3. Shape' /\ SlicesInBounds'
  BY <1>1 DEF IInv, Shape, SlicesInBounds
<1>4. ~SaysIdentity(curve, slice)
  BY <1>1 DEF ReadSoFar
<1>5. ReadUpTo(Len(slice))
  <2> DEFINE n == LimbCount(curve)
             L == LimbBytes
  <2>1. piece = Pieces(curve) + 1
    BY <1>1
  <2>2. From(curve, piece) = n * L
    <3>1. RawSize(curve) = n * L + 1 /\ Pieces(curve) * PieceBytes(curve) = RawSize(curve) - 1
          /\ n \in Nat /\ L \in Nat
      BY <1>1, Sizes, BasesAreBases
    <3>2. n * L \in Nat
      BY <3>1
    <3>3. (Pieces(curve) + 1) - 1 = Pieces(curve)
      BY <1>1
    <3> HIDE DEF n, L
    <3>4. Pieces(curve) * PieceBytes(curve) = n * L
      BY <3>1, <3>2
    <3> QED
      BY <2>1, <3>3, <3>4 DEF From
  <2>3. RawLength(curve, slice) = Lesser(Len(slice), n * L)
    <3>1. RawSize(curve) = n * L + 1 /\ n \in Nat /\ L \in Nat
      BY <1>1, Sizes, BasesAreBases
    <3>2. n * L \in Nat
      BY <3>1
    <3> HIDE DEF n, L
    <3>3. RawSize(curve) - 1 = n * L
      BY <3>1, <3>2
    <3> QED
      BY <3>3 DEF RawLength
  <2>4. ASSUME NEW j \in 1 .. n
        PROVE  j * L <= Lesser(RawLength(curve, slice), n * L) <=> j * L <= Len(slice)
    <3> DEFINE jL == j * L
               nL == n * L
    <3>1. jL \in Nat /\ nL \in Nat /\ jL <= nL
      <4>1. n \in Nat /\ L \in Nat \ {0} /\ j \in Nat /\ j <= n
        BY <1>1, Sizes, BasesAreBases
      <4> HIDE DEF n, L
      <4> QED
        BY <4>1
    <3>2. Len(slice) \in Nat
      BY <1>1
    <3> HIDE DEF jL, nL
    <3>3. jL <= Lesser(Lesser(Len(slice), nL), nL) <=> jL <= Len(slice)
      BY <3>1, <3>2 DEF Lesser
    <3> QED
      BY <2>3, <3>3 DEF jL, nL
  <2> QED
    BY <1>1, <2>2, <2>4 DEF ReadSoFar, ReadUpTo
<1>6. AllRead'
  <2>1. ReadUpTo(Len(slice))'
    BY <1>1, <1>5 DEF ReadUpTo
  <2> QED
    BY <1>1, <1>4, <2>1 DEF AllRead
<1>7. TestedSoFar'
  <2>1. 1 .. element' - 1 = {} /\ i' + 1 .. LimbsPerField = {}
    BY <1>1, <1>2, BasesAreBases
  <2>2. pc' = "testing" => Len(slice') = RawSize(curve')
    BY <1>1
  <2> QED
    BY <1>1, <1>2, <1>4, <2>1, <2>2 DEF TestedSoFar
<1>8. Untested' /\ Untouched' /\ ReadSoFar' /\ CanonicalIsExact'
  BY <1>1, <1>2 DEF Untested, Untouched, ReadSoFar, CanonicalIsExact
<1> QED
  BY <1>3, <1>6, <1>7, <1>8 DEF IInv

(* The limbs of the e-th field element.                                    *)
LEMMA ElementLimbs ==
  ASSUME Shape, NEW e \in 1 .. FieldCount[curve]
  PROVE  /\ Element(e) \in [1 .. LimbsPerField -> LimbValues]
         /\ \A x \in 1 .. LimbsPerField :
              /\ (e - 1) * LimbsPerField + x \in 1 .. LimbCount(curve)
              /\ Element(e)[x] = out[(e - 1) * LimbsPerField + x]
<1> DEFINE m == LimbsPerField
           n == LimbCount(curve)
           F == FieldCount[curve]
           a == (e - 1) * m
           z == e * m
<1>1. m \in Nat \ {0} /\ n \in Nat /\ F \in Nat /\ n = F * m /\ out \in [1 .. n -> LimbValues]
  BY Sizes, BasesAreBases DEF Shape
<1>2. a \in Nat /\ z \in Nat /\ z = a + m /\ z <= n
  <2>1. e \in Nat /\ e - 1 \in Nat /\ e <= F /\ (e - 1) + 1 = e
    BY <1>1
  <2> HIDE DEF m, n, F
  <2>2. a \in Nat /\ ((e - 1) + 1) * m = a + m /\ e * m <= F * m /\ e * m \in Nat
    BY <1>1, <2>1
  <2> QED
    BY <1>1, <2>1, <2>2
<1> HIDE DEF a, z, m, n
<1> DEFINE w == SubSeq(out, a + 1, z)
<1>3. Element(e) = w
  BY DEF Element, a, z, m
<1>4. \A x \in 1 .. m : a + x \in 1 .. n
  BY <1>1, <1>2
<1>5. w = [x \in 1 .. m |-> out[a + x]]
  <2>1. w = [x \in 1 .. z - (a + 1) + 1 |-> out[(a + 1) + x - 1]]
    BY <1>2
  <2>2. z - (a + 1) + 1 = m /\ \A x \in 1 .. m : (a + 1) + x - 1 = a + x
    BY <1>1, <1>2
  <2> QED
    BY <2>1, <2>2
<1>6. \A x \in 1 .. m : w[x] = out[a + x] /\ w[x] \in LimbValues
  BY <1>1, <1>4, <1>5
<1> QED
  BY <1>3, <1>4, <1>5, <1>6 DEF a, z, m, n

(* The test looks at the limbs that were read.                             *)
LEMMA TestedLimb ==
  ASSUME Shape, Len(slice) = RawSize(curve), ReadUpTo(Len(slice))
  PROVE  LimbOf(slice, element, i) = Element(element)[i]
<1> DEFINE L == LimbBytes
           j == (element - 1) * LimbsPerField + i
           n == LimbCount(curve)
           jL == j * L
           nL == n * L
<1>1. curve \in Curves /\ slice \in Seq(Bytes) /\ element \in 1 .. FieldCount[curve]
      /\ i \in 1 .. LimbsPerField
  BY DEF Shape
<1>2. j \in 1 .. n /\ Element(element)[i] = out[j]
  BY <1>1, ElementLimbs
<1>3. L \in Nat \ {0} /\ n \in Nat /\ Len(slice) = nL + 1
  BY <1>1, Sizes, BasesAreBases
<1> HIDE DEF j, L, n
<1>4. jL \in Nat /\ nL \in Nat /\ jL <= nL
  BY <1>2, <1>3
<1> HIDE DEF jL, nL
<1>5. jL <= Len(slice) /\ Lesser(jL, Len(slice)) = jL
  BY <1>3, <1>4 DEF Lesser
<1>6. out[j] = LimbIn(slice, j)
  BY <1>2, <1>5 DEF ReadUpTo, n, jL, L
<1>7. LimbOf(slice, element, i) = FromLeBytes(Chunk(slice, j))
  BY DEF LimbOf, j
<1>8. Chunk(slice, j) = SubSeq(slice, (j - 1) * L + 1, jL)
  BY <1>5 DEF Chunk, jL, L
<1> QED
  BY <1>2, <1>6, <1>7, <1>8 DEF LimbIn, jL, L

(* A verdict says how a limb compares with the modulus's.                  *)
LEMMA VerdictByOrder ==
  ASSUME NEW limb \in Nat, NEW x, NEW b \in Nat, b = Modulus[x]
  PROVE  /\ limb < b => LimbVerdict(limb, x) = "less"
         /\ b < limb => LimbVerdict(limb, x) = "not less"
         /\ limb = b => LimbVerdict(limb, x) = IF x = 1 THEN "not less" ELSE "go on"
         /\ limb < b \/ b < limb \/ limb = b
<1>1. LimbVerdict(limb, x) = CASE limb < b -> "less"
                               [] limb > b -> "not less"
                               [] limb = b -> IF x = 1 THEN "not less" ELSE "go on"
  BY DEF LimbVerdict
<1>2. ASSUME limb < b PROVE LimbVerdict(limb, x) = "less"
  <2>1. ~(limb > b) /\ limb # b
    BY <1>2
  <2> QED
    BY <1>1, <1>2, <2>1
<1>3. ASSUME b < limb PROVE LimbVerdict(limb, x) = "not less"
  <2>1. limb > b /\ ~(limb < b) /\ limb # b
    BY <1>3
  <2> QED
    BY <1>1, <2>1
<1>4. ASSUME limb = b PROVE LimbVerdict(limb, x) = IF x = 1 THEN "not less" ELSE "go on"
  <2>1. ~(limb > b) /\ ~(limb < b)
    BY <1>4
  <2> QED
    BY <1>1, <1>4, <2>1
<1>5. limb < b \/ b < limb \/ limb = b
  OBVIOUS
<1> QED
  BY <1>2, <1>3, <1>4, <1>5

(* A verdict that is not to go on is that of the whole field element.      *)
LEMMA VerdictOfElement ==
  ASSUME Shape, TestedSoFar, AllRead, pc = "testing",
         NEW STATE verdict, verdict = LimbVerdict(LimbOf(slice, element, i), i)
  PROVE  /\ verdict \in {"less", "not less", "go on"}
         /\ verdict = "less" => BelowModulus(element)
         /\ verdict = "not less" => ~BelowModulus(element)
         /\ verdict = "go on" => i > 1 /\ Element(element)[i] = Modulus[i]
<1> DEFINE m == LimbsPerField
           w == Element(element)
           limb == w[i]
           b == Modulus[i]
<1>1. Len(slice) = RawSize(curve) /\ ReadUpTo(Len(slice))
      /\ \A j \in i + 1 .. m : w[j] = Modulus[j]
  BY DEF TestedSoFar, AllRead
<1>2. /\ m \in Nat \ {0} /\ i \in 1 .. m /\ i \in Nat
      /\ Modulus \in [1 .. m -> LimbValues] /\ w \in [1 .. m -> LimbValues]
  <2>1. m \in Nat \ {0} /\ i \in 1 .. m /\ Modulus \in [1 .. m -> LimbValues]
        /\ element \in 1 .. FieldCount[curve]
    BY BasesAreBases, LimbsAssumption DEF Shape
  <2>2. w \in [1 .. m -> LimbValues]
    BY <2>1, ElementLimbs
  <2> QED
    BY <2>1, <2>2
<1>3. LimbOf(slice, element, i) = limb
  BY <1>1, TestedLimb
<1>4. limb \in Nat /\ b \in Nat
  <2>1. limb \in LimbValues /\ b \in LimbValues
    BY <1>2
  <2>2. LimbValues \subseteq Nat
    BY BasesAreBases
  <2> QED
    BY <2>1, <2>2
<1>5. b = Modulus[i] /\ limb = w[i]
  OBVIOUS
<1>6. Element(element) = w
  OBVIOUS
<1> HIDE DEF w, limb, m, b
<1>7. /\ limb < b => verdict = "less"
      /\ b < limb => verdict = "not less"
      /\ limb = b => verdict = IF i = 1 THEN "not less" ELSE "go on"
      /\ limb < b \/ b < limb \/ limb = b
  <2>1. verdict = LimbVerdict(limb, i)
    BY <1>3
  <2> HIDE DEF b, limb
  <2>2. /\ limb < b => LimbVerdict(limb, i) = "less"
        /\ b < limb => LimbVerdict(limb, i) = "not less"
        /\ limb = b => LimbVerdict(limb, i) = IF i = 1 THEN "not less" ELSE "go on"
        /\ limb < b \/ b < limb \/ limb = b
    BY <1>4, <1>5, VerdictByOrder
  <2> QED
    BY <2>1, <2>2
<1>8. ASSUME limb < b PROVE IntegerOf(w) < IntegerOf(Modulus)
  <2>1. i \in 0 .. m /\ i > 0 /\ m \in Nat /\ w[i] < Modulus[i]
    BY <1>2, <1>5, <1>8
  <2> QED
    BY <1>1, <1>2, <2>1, LimbsCompare
<1>9. ASSUME b < limb PROVE ~(IntegerOf(w) < IntegerOf(Modulus))
  <2>1. i \in 0 .. m /\ i > 0 /\ m \in Nat /\ Modulus[i] < w[i]
        /\ \A j \in i + 1 .. m : Modulus[j] = w[j]
    BY <1>1, <1>2, <1>5, <1>9
  <2>2. IntegerOf(Modulus) < IntegerOf(w) /\ IntegerOf(Modulus) \in Nat
        /\ IntegerOf(w) \in Nat
    BY <1>2, <2>1, LimbsCompare
  <2> QED
    BY <2>2
<1>10. ASSUME limb = b, i = 1 PROVE ~(IntegerOf(w) < IntegerOf(Modulus))
  <2>1. 0 \in 0 .. m /\ m \in Nat /\ \A j \in 0 + 1 .. m : w[j] = Modulus[j]
    <3>1. 0 \in 0 .. m /\ m \in Nat
      BY <1>2
    <3>2. ASSUME NEW j \in 0 + 1 .. m PROVE w[j] = Modulus[j]
      <4>1. j = i \/ j \in i + 1 .. m
        BY <1>2, <1>10
      <4> QED
        BY <1>1, <1>5, <1>10, <4>1
    <3> QED
      BY <3>1, <3>2
  <2>2. IntegerOf(w) = IntegerOf(Modulus) /\ IntegerOf(w) \in Nat
    BY <1>2, <2>1, LimbsCompare
  <2> QED
    BY <2>2
<1>11. i # 1 => i > 1
  BY <1>2
<1> QED
  <2>1. BelowModulus(element) <=> IntegerOf(w) < IntegerOf(Modulus)
    BY <1>6 DEF BelowModulus
  <2> QED
    BY <1>5, <1>6, <1>7, <1>8, <1>9, <1>10, <1>11, <2>1

(* The order of the limbs is that of the elements: a test that goes on has *)
(* seen limbs equal to the modulus's, and one that ends has decided.       *)
LEMMA TestLimbKeepsInvariant ==
  ASSUME IInv, TestLimb PROVE IInv'
<1> DEFINE verdict == LimbVerdict(LimbOf(slice, element, i), i)
           last == element = FieldCount[curve]
           F == FieldCount[curve]
           m == LimbsPerField
<1>1. /\ Shape /\ pc = "testing" /\ TestedSoFar /\ AllRead
      /\ UNCHANGED <<curve, slice, out, piece, range>>
      /\ i' = IF verdict = "go on" THEN i - 1 ELSE m
      /\ element' = IF verdict = "less" /\ ~last THEN element + 1 ELSE element
      /\ pc' = IF verdict = "not less" \/ (verdict = "less" /\ last)
               THEN "done" ELSE "testing"
      /\ canonical' = CASE verdict = "not less" -> "no"
                        [] verdict = "less" /\ last -> "yes"
                        [] OTHER -> "unknown"
  BY DEF IInv, TestLimb
<1>2. /\ verdict \in {"less", "not less", "go on"}
      /\ verdict = "less" => BelowModulus(element)
      /\ verdict = "not less" => ~BelowModulus(element)
      /\ verdict = "go on" => i > 1 /\ Element(element)[i] = Modulus[i]
  BY <1>1, VerdictOfElement
<1>3. /\ element \in 1 .. F /\ F \in Nat \ {0} /\ i \in 1 .. m /\ m \in Nat \ {0}
      /\ curve \in Curves
  BY <1>1, Sizes, BasesAreBases DEF Shape
<1>4. /\ Len(slice) = RawSize(curve) /\ ~SaysIdentity(curve, slice)
      /\ \A c \in 1 .. element - 1 : BelowModulus(c)
      /\ \A j \in i + 1 .. m : Element(element)[j] = Modulus[j]
  BY <1>1 DEF TestedSoFar
<1> HIDE DEF verdict, F, m
<1>5. /\ Element(element)' = Element(element') /\ curve' = curve
      /\ \A c : Element(c)' = Element(c) /\ (BelowModulus(c)' <=> BelowModulus(c))
  BY <1>1 DEF BelowModulus, Element
<1>6. SlicesInBounds' /\ AllRead' /\ Untouched' /\ Untested' /\ ReadSoFar'
  <2>1. pc' \in {"testing", "done"}
    BY <1>1
  <2> QED
    BY <1>1, <2>1 DEF IInv, SlicesInBounds, AllRead, Untouched, Untested, ReadSoFar,
                      ReadUpTo
<1>7. ASSUME element' \in 1 .. F, i' \in 1 .. m,
             canonical' \in {"unknown", "yes", "no"}, pc' \in {"testing", "done"}
      PROVE  Shape'
  BY <1>1, <1>7 DEF Shape, F, m
<1>8. ASSUME pc' = "done",
             canonical' = "yes" <=> \A c \in 1 .. F : BelowModulus(c)
      PROVE  TestedSoFar' /\ CanonicalIsExact'
  <2>1. canonical' = "yes" <=> \A c \in 1 .. FieldCount[curve'] : BelowModulus(c)'
    BY <1>1, <1>5, <1>8 DEF F
  <2> QED
    BY <1>8, <2>1 DEF TestedSoFar, CanonicalIsExact, BelowModulus
<1>9. ASSUME pc' = "testing", canonical' = "unknown",
             \A c \in 1 .. element' - 1 : BelowModulus(c),
             \A j \in i' + 1 .. m : Element(element')[j] = Modulus[j]
      PROVE  TestedSoFar' /\ CanonicalIsExact'
  BY <1>1, <1>4, <1>5, <1>9 DEF TestedSoFar, CanonicalIsExact, m
<1>10. CASE verdict = "go on"
  <2>1. /\ i' = i - 1 /\ element' = element /\ pc' = "testing" /\ canonical' = "unknown"
        /\ i > 1 /\ Element(element)[i] = Modulus[i]
    BY <1>1, <1>2, <1>10
  <2>2. i' \in 1 .. m
    BY <1>3, <2>1
  <2>3. ASSUME NEW j \in i' + 1 .. m PROVE Element(element)[j] = Modulus[j]
    <3>1. j = i \/ j \in i + 1 .. m
      BY <1>3, <2>1
    <3> QED
      BY <1>4, <2>1, <3>1
  <2> QED
    BY <1>3, <1>4, <1>6, <1>7, <1>9, <2>1, <2>2, <2>3 DEF IInv
<1>11. CASE verdict = "less" /\ ~last
  <2>1. i' = m /\ element' = element + 1 /\ pc' = "testing" /\ canonical' = "unknown"
    BY <1>1, <1>11
  <2>2. i' \in 1 .. m /\ i' + 1 .. m = {} /\ element' \in 1 .. F
    BY <1>3, <1>11, <2>1 DEF F
  <2>3. ASSUME NEW c \in 1 .. element' - 1 PROVE BelowModulus(c)
    <3>1. c = element \/ c \in 1 .. element - 1
      BY <1>3, <2>1
    <3> QED
      BY <1>2, <1>4, <1>11, <3>1
  <2> QED
    BY <1>6, <1>7, <1>9, <2>1, <2>2, <2>3 DEF IInv
<1>12. CASE verdict = "less" /\ last
  <2>1. i' = m /\ element' = element /\ pc' = "done" /\ canonical' = "yes"
    BY <1>1, <1>12
  <2>2. ASSUME NEW c \in 1 .. F PROVE BelowModulus(c)
    <3>1. c = element \/ c \in 1 .. element - 1
      BY <1>3, <1>12 DEF F
    <3> QED
      BY <1>2, <1>4, <1>12, <3>1
  <2>3. i' \in 1 .. m
    BY <1>3, <2>1
  <2> QED
    BY <1>3, <1>6, <1>7, <1>8, <2>1, <2>2, <2>3 DEF IInv
<1>13. CASE verdict = "not less"
  <2>1. i' = m /\ element' = element /\ pc' = "done" /\ canonical' = "no"
    BY <1>1, <1>13
  <2>2. ~BelowModulus(element) /\ element \in 1 .. F
    BY <1>2, <1>3, <1>13
  <2>3. i' \in 1 .. m
    BY <1>3, <2>1
  <2> QED
    BY <1>3, <1>6, <1>7, <1>8, <2>1, <2>2, <2>3 DEF IInv
<1> QED
  BY <1>2, <1>10, <1>11, <1>12, <1>13

(* A step that changes nothing changes no part of the invariant.           *)
LEMMA StutteringKeepsInvariant ==
  ASSUME IInv, UNCHANGED vars PROVE IInv'
BY DEF IInv, vars, Shape, SlicesInBounds, Untouched, Untested, ReadSoFar, ReadUpTo,
       AllRead, TestedSoFar, BelowModulus, Element, CanonicalIsExact

(* The invariant holds: what is read so far and what is tested so far are  *)
(* as the code's loops leave them at every step.                           *)
THEOREM RawInvariant == Spec => []IInv
<1>1. Init => IInv
  BY InitialState
<1>2. IInv /\ [Next]_vars => IInv'
  <2> SUFFICES ASSUME IInv, [Next]_vars PROVE IInv'
    OBVIOUS
  <2>1. CASE Call
    BY <2>1, CallKeepsInvariant
  <2>2. CASE ReadPiece
    BY <2>2, ReadPieceKeepsInvariant
  <2>3. CASE EndOfRead
    BY <2>3, EndOfReadKeepsInvariant
  <2>4. CASE TestLimb
    BY <2>4, TestLimbKeepsInvariant
  <2>5. CASE Return
    BY <2>5, ReturnKeepsInvariant
  <2>6. CASE UNCHANGED vars
    BY <2>6, StutteringKeepsInvariant
  <2> QED
    BY <2>1, <2>2, <2>3, <2>4, <2>5, <2>6 DEF Next
<1> QED
  BY <1>1, <1>2, PTL DEF Spec

(* No slicing expression of from_slice_unchecked is out of bounds, for     *)
(* slices of every length: it does not panic.                              *)
THEOREM RawSlicesInBounds == Spec => []SlicesInBounds
<1>1. IInv => SlicesInBounds
  BY DEF IInv
<1> QED
  BY <1>1, RawInvariant, PTL

(* The test of an archive's limbs says exactly whether every field element *)
(* is below the prime, although it looks at as few limbs as it can.        *)
THEOREM RawCanonicalIsExact == Spec => []CanonicalIsExact
<1>1. IInv => CanonicalIsExact
  BY DEF IInv
<1> QED
  BY <1>1, RawInvariant, PTL

(* What is read, as an integer: bytes times powers.                        *)
LEMMA ReadLimbs ==
  ASSUME IInv PROVE ReadsWhatIsThere
<1> SUFFICES ASSUME pc \in {"testing", "done"}, NEW j \in 1 .. LimbCount(curve)
             PROVE  out[j] = IF SaysIdentity(curve, slice) \/ j * LimbBytes > Len(slice)
                             THEN 0
                             ELSE IntegerOfBytes(SubSeq(slice, (j - 1) * LimbBytes + 1,
                                                        j * LimbBytes))
  BY DEF ReadsWhatIsThere
<1> DEFINE jL == j * LimbBytes
           w == SubSeq(slice, (j - 1) * LimbBytes + 1, jL)
<1>1. slice \in Seq(Bytes) /\ curve \in Curves /\ Len(slice) \in Nat
  BY DEF IInv, Shape
<1>2. j \in Nat \ {0} /\ jL \in Nat
  <2>1. j \in Nat \ {0}
    BY <1>1, Sizes
  <2> QED
    BY <2>1, PlaceOfLimb
<1>3. /\ SaysIdentity(curve, slice) => out = ZeroLimbs(curve)
      /\ ~SaysIdentity(curve, slice) => out[j] = IF jL <= Len(slice) THEN FromLeBytes(w)
                                                                   ELSE 0
  <2>1. ~SaysIdentity(curve, slice) => ReadUpTo(Len(slice))
    BY DEF IInv, AllRead
  <2> QED
    BY <2>1 DEF IInv, AllRead, ReadUpTo, LimbIn
<1>4. ZeroLimbs(curve)[j] = 0
  BY DEF ZeroLimbs
<1>5. ASSUME jL <= Len(slice) PROVE IntegerOfBytes(w) = FromLeBytes(w)
  <2>1. w \in [1 .. LimbBytes -> Bytes]
    BY <1>1, <1>2, <1>5, LimbInSlice
  <2> QED
    BY <2>1, FieldHoldsLimbs, IntegerOfBytesIsFromLeBytes
<1> HIDE DEF jL, w
<1>6. jL > Len(slice) <=> ~(jL <= Len(slice))
  BY <1>1, <1>2
<1>7. out[j] = IF SaysIdentity(curve, slice) \/ jL > Len(slice) THEN 0
                                                          ELSE IntegerOfBytes(w)
  BY <1>3, <1>4, <1>5, <1>6
<1> QED
  BY <1>7 DEF jL, w

(* The limbs of a whole slice, written, are its bytes but the last.        *)
LEMMA WrittenIsRead ==
  ASSUME Shape, Len(slice) = RawSize(curve), ReadUpTo(Len(slice)),
         NEW x \in 1 .. LimbCount(curve) * LimbBytes
  PROVE  WriteRawLimbs(out)[x] = slice[x]
<1> DEFINE L == LimbBytes
           n == LimbCount(curve)
           nL == n * L
           k == (x - 1) \div L
           kL == k * L
           b == x - kL
           j == k + 1
           w == SubSeq(slice, (j - 1) * L + 1, j * L)
           W == WriteRawLimbs(out)
<1>1. /\ L \in Nat \ {0} /\ n \in Nat /\ slice \in Seq(Bytes) /\ Len(slice) = nL + 1
      /\ out \in [1 .. n -> LimbValues]
  BY Sizes, BasesAreBases DEF Shape
<1> HIDE DEF L, n
<1>2. nL \in Nat /\ x \in 1 .. nL
  BY <1>1 DEF L, n
<1> HIDE DEF nL
<1>3. x - 1 \in Nat
  BY <1>2
<1>4. k \in Nat /\ kL = L * k /\ kL \in Nat /\ L * k <= x - 1 /\ x - 1 < L * k + L
  <2>1. k \in Nat
    BY <1>1, <1>3
  <2>2. L * k <= x - 1 /\ x - 1 < L * k + L
    BY <1>1, <1>3, QuotientBounds
  <2> HIDE DEF k
  <2>3. kL = L * k /\ kL \in Nat
    BY <1>1, <2>1
  <2> QED
    BY <2>1, <2>2, <2>3
<1> HIDE DEF k, kL
<1>5. b \in 1 .. L /\ kL + b = x /\ j - 1 = k /\ j \in Nat \ {0}
  BY <1>1, <1>2, <1>4
<1>6. j <= n /\ j * L \in Nat /\ j * L <= nL
  <2>1. L * k < L * n
    <3>1. nL = L * n /\ nL \in Nat
      BY <1>1 DEF nL
    <3> QED
      BY <1>2, <1>4, <3>1
  <2>2. ~(n <= k)
    <3> SUFFICES ASSUME n <= k PROVE L * n <= L * k
      BY <1>1, <1>4, <2>1
    <3> QED
      BY <1>1, <1>4
  <2>3. j <= n
    BY <1>1, <1>4, <2>2
  <2> QED
    BY <1>1, <1>5, <2>3 DEF nL
<1>7. j \in 1 .. n /\ j * L <= Len(slice)
  BY <1>1, <1>2, <1>5, <1>6
<1> HIDE DEF b, j
<1>8. out[j] = FromLeBytes(w)
  <2>1. out[j] = LimbIn(slice, j)
    BY <1>7 DEF ReadUpTo, n, L
  <2> QED
    BY <2>1 DEF LimbIn, L
<1>9. w \in [1 .. L -> Bytes] /\ w[b] = slice[(j - 1) * L + b]
  BY <1>1, <1>5, <1>7, LimbInSlice DEF L
<1> HIDE DEF w, W
<1>10. W[(j - 1) * L + b] = ToLeBytes(out[j])[b]
  <2>1. HoldsLimbs(W, out, n)
    BY <1>1, WritesEveryLimb DEF W
  <2> QED
    BY <1>5, <1>7, <2>1 DEF HoldsLimbs, L
<1>11. ToLeBytes(FromLeBytes(w)) = w
  BY <1>9, ReadLimbIsLimb DEF L
<1>12. (j - 1) * L + b = x
  BY <1>5 DEF kL
<1> QED
  BY <1>8, <1>9, <1>10, <1>11, <1>12 DEF W

(* Limbs and flag together are the slice.                                  *)
LEMMA WrittenBytes ==
  ASSUME IInv PROVE WritesWhatItRead
<1> SUFFICES ASSUME pc = "done", Len(slice) = RawSize(curve)
             PROVE  \/ RawBytesOf(curve, out) = slice
                    \/ /\ RawBytesOf(curve, out) = IdentityBytes[curve]
                       /\ out = ZeroLimbs(curve)
  BY DEF WritesWhatItRead
<1>1. Shape /\ curve \in Curves /\ slice \in Seq(Bytes)
      /\ (SaysIdentity(curve, slice) => out = ZeroLimbs(curve))
      /\ (~SaysIdentity(curve, slice) => ReadUpTo(Len(slice)))
  BY DEF IInv, Shape, AllRead
<1>2. CASE out = ZeroLimbs(curve)
  BY <1>2 DEF RawBytesOf
<1>3. CASE out # ZeroLimbs(curve)
  <2> DEFINE n == LimbCount(curve)
             nL == n * LimbBytes
             W == WriteRawLimbs(out)
             u == W \o <<0>>
  <2>1. ReadUpTo(Len(slice)) /\ slice[RawSize(curve)] = 0
    <3>1. ~SaysIdentity(curve, slice)
      BY <1>1, <1>3
    <3>2. Len(slice) \in Nat /\ Len(slice) >= RawSize(curve)
      BY <1>1
    <3> QED
      BY <1>1, <3>1, <3>2 DEF SaysIdentity
  <2>2. n \in Nat /\ out \in [1 .. n -> LimbValues] /\ nL \in Nat /\ RawSize(curve) = nL + 1
    <3>1. n \in Nat /\ LimbBytes \in Nat /\ RawSize(curve) = nL + 1
      BY <1>1, Sizes, BasesAreBases
    <3>2. out \in [1 .. n -> LimbValues]
      BY <1>1 DEF Shape
    <3> HIDE DEF n
    <3> QED
      BY <3>1, <3>2
  <2>3. W \in Seq(Bytes) /\ Len(W) = nL
    <3>1. HoldsLimbs(W, out, n)
      BY <2>2, WritesEveryLimb
    <3> HIDE DEF W
    <3> QED
      BY <3>1 DEF HoldsLimbs
  <2>4. \A x \in 1 .. nL : W[x] = slice[x]
    BY <1>1, <2>1, WrittenIsRead
  <2> HIDE DEF W, nL
  <2>5. <<0>> \in Seq(Bytes) /\ Len(<<0>>) = 1 /\ <<0>>[1] = 0
    BY BasesAreBases
  <2>6. u \in Seq(Bytes) /\ Len(u) = nL + 1 /\ (\A x \in 1 .. nL : u[x] = W[x])
        /\ u[nL + 1] = 0
    BY <2>2, <2>3, <2>5
  <2> HIDE DEF u
  <2>7. \A x \in 1 .. nL + 1 : u[x] = slice[x]
    <3>1. slice[nL + 1] = 0
      BY <2>1, <2>2
    <3>2. \A x \in 1 .. nL + 1 : x \in 1 .. nL \/ x = nL + 1
      BY <2>2
    <3> QED
      BY <2>4, <2>6, <3>1, <3>2
  <2>8. u = slice
    BY <1>1, <2>2, <2>6, <2>7, SeqEqual
  <2> QED
    BY <1>3, <2>8 DEF RawBytesOf, u, W
<1> QED
  BY <1>2, <1>3

(* Read in one go as for G1 or an element at a time as for G2, each limb   *)
(* is the integer of its own bytes, or zero beyond the end of the slice.   *)
THEOREM RawReadsWhatIsThere == Spec => []ReadsWhatIsThere
<1>1. IInv => ReadsWhatIsThere
  BY ReadLimbs
<1> QED
  BY <1>1, RawInvariant, PTL

(* The raw form round-trips: what from_slice_unchecked reads from a full   *)
(* slice, to_raw_bytes writes back, or it is the identity.                 *)
THEOREM RawWritesWhatItRead == Spec => []WritesWhatItRead
<1>1. IInv => WritesWhatItRead
  BY WrittenBytes
<1> QED
  BY <1>1, RawInvariant, PTL

-----------------------------------------------------------------------------
(* The archives of Gt and MillerLoopResult (Fp12Limbs).                    *)

(* The m digits from place x + 1 on.                                       *)
IsPart(v, w, x, m) == \A b \in 1 .. m : v[b] = w[x + b]

(* The numeral of m digits from place x + 1 on contributes its own value   *)
(* below what the digits from x + m + 1 on do.                             *)
LEMMA HornerOfPart ==
  ASSUME NEW n \in Nat, NEW q \in Nat \ {0}, NEW w, AreDigits(w, q, n),
         NEW h, IsHorner(h, w, q, n),
         NEW x \in Nat, NEW m \in Nat, x + m <= n,
         NEW v, AreDigits(v, q, m), IsPart(v, w, x, m),
         NEW u, IsHorner(u, v, q, m), NEW p, ArePowers(p, q, m)
  PROVE  h[x + 1] = u[1] + p[m] * h[x + m + 1]
<1>0. /\ w \in [1 .. n -> Nat] /\ v \in [1 .. m -> Nat]
      /\ \A b \in 1 .. m : v[b] = w[x + b]
  BY DEF AreDigits, IsPart
<1> DEFINE z == h[x + m + 1]
           T == {d \in 0 .. m : h[x + m + 1 - d] = u[m + 1 - d] + p[d] * z}
<1>1. /\ \A k \in 1 .. n + 1 : h[k] \in Nat
      /\ \A k \in 1 .. m + 1 : u[k] \in Nat
      /\ x + m + 1 \in 1 .. n + 1
  <2>1. \A k \in 1 .. n + 1 : h[k] \in Nat
    BY <1>0, HornerIsNat
  <2>2. \A k \in 1 .. m + 1 : u[k] \in Nat
    BY <1>0, HornerIsNat
  <2>3. x + m + 1 \in 1 .. n + 1
    OBVIOUS
  <2> QED
    BY <2>1, <2>2, <2>3
<1>2. 0 \in T
  <2>1. p[0] = 1 /\ u[m + 1] = 0 /\ z \in Nat
    BY <1>1 DEF ArePowers, IsHorner
  <2>2. x + m + 1 - 0 = x + m + 1 /\ m + 1 - 0 = m + 1
    OBVIOUS
  <2> QED
    BY <2>1, <2>2
<1>3. ASSUME NEW d \in 0 .. m - 1, d \in T PROVE d + 1 \in T
  <2> DEFINE k == m - d
             a == h[x + k + 1]
             c == u[k + 1]
             e == p[d]
  <2>1. /\ k \in 1 .. m /\ k + 1 \in 1 .. m + 1
        /\ x + k \in 1 .. n /\ x + k + 1 \in 1 .. n + 1
        /\ x + m + 1 - d = x + k + 1 /\ m + 1 - d = k + 1
        /\ x + m + 1 - (d + 1) = x + k /\ m + 1 - (d + 1) = k
        /\ d \in 0 .. m /\ d + 1 \in 0 .. m
    OBVIOUS
  <2>2. a = c + e * z
    BY <1>3, <2>1
  <2>3. /\ h[x + k] = w[x + k] + q * a /\ u[k] = v[k] + q * c
        /\ v[k] = w[x + k] /\ v[k] \in Nat /\ p[d + 1] = q * e
    BY <1>0, <2>1 DEF IsHorner, ArePowers
  <2>4. a \in Nat /\ c \in Nat /\ e \in Nat /\ z \in Nat
    BY <1>1, <2>1 DEF ArePowers
  <2> HIDE DEF k, a, c, e, z
  <2>5. q * a = q * c + (q * e) * z
    BY <2>2, <2>4
  <2>6. q * a \in Nat /\ q * c \in Nat /\ (q * e) * z \in Nat
    BY <2>4
  <2>7. h[x + k] = u[k] + p[d + 1] * z
    <3> DEFINE qa == q * a
               qc == q * c
               qz == (q * e) * z
               pz == p[d + 1] * z
    <3> HIDE DEF qa, qc, qz, pz
    <3>1. qa = qc + qz /\ qa \in Nat /\ qc \in Nat /\ qz \in Nat
      BY <2>5, <2>6 DEF qa, qc, qz
    <3>2. h[x + k] = v[k] + qa /\ u[k] = v[k] + qc /\ pz = qz
      BY <2>3 DEF qa, qc, qz, pz
    <3>3. v[k] \in Nat
      BY <2>3
    <3>4. h[x + k] = u[k] + pz
      BY <3>1, <3>2, <3>3
    <3> QED
      BY <3>4 DEF pz
  <2> QED
    BY <2>1, <2>7
<1> HIDE DEF T
<1>4. m \in T
  BY <1>2, <1>3, InductionUpTo
<1>5. x + m + 1 - m = x + 1 /\ m + 1 - m = 1
  OBVIOUS
<1> QED
  BY <1>4, <1>5 DEF T

(* The limbs of an element's bytes.                                        *)
LimbsOf(w) ==
  [j \in 1 .. LimbsPerField |->
     FromLeBytes(SubSeq(w, (j - 1) * LimbBytes + 1, j * LimbBytes))]

(* An integer written to the base of bytes is the same integer written to  *)
(* the base of limbs.                                                      *)
LEMMA BytesAreLimbs ==
  ASSUME NEW w \in [1 .. FieldBytes -> Bytes]
  PROVE  /\ LimbsOf(w) \in [1 .. LimbsPerField -> LimbValues]
         /\ IntegerOf(LimbsOf(w)) = FromLeBytes(w)
<1> DEFINE L == LimbBytes
           M == LimbsPerField
           n == FieldBytes
           limbs == LimbsOf(w)
           p == [j \in 0 .. L |-> ByteBase^j]
<1>1. L \in Nat \ {0} /\ M \in Nat \ {0} /\ n = L * M /\ n \in Nat
      /\ ByteBase \in Nat \ {0} /\ ArePowers(p, ByteBase, L) /\ p[L] = LimbBase
      /\ LimbBase \in Nat \ {0}
  BY BasesAreBases DEF FieldBytes, LimbBase
<1>2. w \in Seq(Bytes) /\ Len(w) = n /\ w \in [1 .. n -> Nat]
      /\ AreDigits(w, ByteBase, n)
  BY FieldHoldsLimbs DEF Bytes, AreDigits
<1>3. PICK h : IsHorner(h, w, ByteBase, n) /\ h[1] = FromLeBytes(w)
  BY <1>1, <1>2, FromLeBytesIsHorner
<1>4. ASSUME NEW j \in 1 .. M
      PROVE  /\ j * L <= n /\ (j - 1) * L \in Nat /\ j * L = (j - 1) * L + L
             /\ limbs[j] = LimbIn(w, j) /\ limbs[j] \in LimbValues
             /\ j \in Nat \ {0} /\ j * LimbBytes <= Len(w)
  <2>1. j \in Nat \ {0} /\ j * L <= L * M
    BY <1>1
  <2>2. (j - 1) * L \in Nat /\ j * L = (j - 1) * L + L
    BY <2>1, PlaceOfLimb
  <2>3. limbs[j] = LimbIn(w, j)
    BY DEF LimbsOf, LimbIn
  <2>4. j * LimbBytes <= Len(w)
    BY <1>1, <1>2, <2>1
  <2>5. LimbIn(w, j) \in LimbValues
    BY <1>2, <2>1, <2>4, LimbInSlice
  <2> QED
    BY <1>1, <2>1, <2>2, <2>3, <2>4, <2>5
<1>5. limbs \in [1 .. M -> LimbValues]
  <2>1. limbs = [j \in 1 .. M |-> limbs[j]]
    BY DEF LimbsOf
  <2> HIDE DEF limbs
  <2> QED
    BY <1>4, <2>1
<1> HIDE DEF limbs, n
<1>6. limbs \in [1 .. M -> Nat]
  BY <1>5, BasesAreBases
<1>7. PICK g : IsHorner(g, limbs, LimbBase, M) /\ g[1] = IntegerOf(limbs)
  BY <1>1, <1>6, IntegerOfIsHorner
<1> DEFINE T == {d \in 0 .. M : h[(M - d) * L + 1] = g[M - d + 1]}
<1>8. 0 \in T
  <2>1. (M - 0) * L = n /\ M - 0 + 1 = M + 1
    BY <1>1
  <2>2. h[n + 1] = 0 /\ g[M + 1] = 0
    BY <1>3, <1>7 DEF IsHorner
  <2> QED
    BY <1>1, <2>1, <2>2
<1>9. ASSUME NEW d \in 0 .. M - 1, d \in T PROVE d + 1 \in T
  <2> DEFINE j == M - d
             x == (j - 1) * L
             jL == j * L
             v == SubSeq(w, x + 1, jL)
  <2>1. j \in 1 .. M /\ M - (d + 1) = j - 1 /\ M - (d + 1) + 1 = j /\ d + 1 \in 0 .. M
    BY <1>1
  <2>2. h[jL + 1] = g[j + 1]
    BY <1>9
  <2> HIDE DEF j
  <2>3. x \in Nat /\ jL <= n /\ jL = x + L /\ limbs[j] = LimbIn(w, j)
    BY <1>4, <2>1
  <2>4. v \in [1 .. L -> Bytes] /\ \A b \in 1 .. L : v[b] = w[x + b]
    BY <1>2, <1>4, <2>1, LimbInSlice
  <2>5. FromLeBytes(v) = limbs[j]
    BY <2>3 DEF LimbIn
  <2> HIDE DEF v, x, jL
  <2>6. v \in [1 .. L -> Nat] /\ AreDigits(v, ByteBase, L) /\ IsPart(v, w, x, L)
    BY <2>4, FieldHoldsLimbs DEF Bytes, AreDigits, IsPart
  <2>7. PICK u : IsHorner(u, v, ByteBase, L) /\ u[1] = FromLeBytes(v)
    BY <1>1, <2>6, FromLeBytesIsHorner
  <2>8. h[x + 1] = u[1] + p[L] * h[x + L + 1]
    <3>1. x + L <= n
      BY <1>1, <2>3
    <3> HIDE DEF p
    <3> QED
      BY <1>1, <1>2, <1>3, <2>3, <2>4, <2>6, <2>7, <3>1, HornerOfPart
  <2>9. g[j] = limbs[j] + LimbBase * g[j + 1]
    BY <1>7, <2>1 DEF IsHorner
  <2>10. h[x + 1] = g[j]
    BY <1>1, <2>2, <2>3, <2>5, <2>7, <2>8, <2>9
  <2> QED
    BY <2>1, <2>10 DEF x
<1> HIDE DEF T
<1>10. M \in T
  BY <1>1, <1>8, <1>9, InductionUpTo
<1>11. (M - M) * L + 1 = 1 /\ M - M + 1 = 1
  BY <1>1
<1>12. h[1] = g[1]
  BY <1>10, <1>11 DEF T
<1> QED
  BY <1>3, <1>5, <1>7, <1>12 DEF limbs

-----------------------------------------------------------------------------
(* The field elements of an archive.                                       *)

ElementOf(b, c) == SubSeq(b, (c - 1) * FieldBytes + 1, c * FieldBytes)
LimbsAt(b, c) ==
  [j \in 1 .. LimbsPerField |-> LimbIn(b, (c - 1) * LimbsPerField + j)]

(* There are elements, and an archive is as long as they are.              *)
LEMMA TowerSizes ==
  /\ Fp6s \in Nat \ {0} /\ Fp2s \in Nat \ {0} /\ Fps \in Nat \ {0}
  /\ FpCount \in Nat \ {0} /\ Fp12Size \in Nat /\ Fp12Size = FpCount * FieldBytes
  /\ \A b \in [1 .. Fp12Size -> Bytes] : b \in Seq(Bytes) /\ Len(b) = Fp12Size
<1>1. Fp6s \in Nat \ {0} /\ Fp2s \in Nat \ {0} /\ Fps \in Nat \ {0}
  BY Fp12LimbsAssumption
<1>2. Fp6s * Fp2s \in Nat \ {0}
  BY <1>1
<1>3. FpCount \in Nat \ {0}
  BY <1>1, <1>2 DEF FpCount
<1>4. Fp12Size \in Nat
  BY <1>3, FieldHoldsLimbs DEF Fp12Size
<1>5. \A b \in [1 .. Fp12Size -> Bytes] : b \in Seq(Bytes) /\ Len(b) = Fp12Size
  BY <1>4
<1> QED
  BY <1>1, <1>3, <1>4, <1>5 DEF Fp12Size

(* Where the bytes of an element are.                                      *)
LEMMA PlaceOfElement ==
  ASSUME NEW c \in 1 .. FpCount
  PROVE  /\ (c - 1) * FieldBytes \in Nat /\ c * FieldBytes \in Nat
         /\ c * FieldBytes = (c - 1) * FieldBytes + FieldBytes
         /\ c * FieldBytes <= Fp12Size
<1> DEFINE F == FieldBytes
           N == FpCount
           k == c - 1
<1>1. F \in Nat \ {0} /\ N \in Nat \ {0} /\ k \in Nat /\ c = k + 1 /\ c \in Nat /\ c <= N
  BY FieldHoldsLimbs, TowerSizes
<1> HIDE DEF F, N, k
<1>2. k * F \in Nat /\ (k + 1) * F = k * F + F
  BY <1>1
<1>3. c * F <= N * F
  BY <1>1
<1> QED
  BY <1>1, <1>2, <1>3, TowerSizes DEF F, N, k

(* They are bytes of the archive.                                          *)
LEMMA ElementInArchive ==
  ASSUME NEW b \in [1 .. Fp12Size -> Bytes], NEW c \in 1 .. FpCount
  PROVE  /\ ElementOf(b, c) \in [1 .. FieldBytes -> Bytes]
         /\ IsPart(ElementOf(b, c), b, (c - 1) * FieldBytes, FieldBytes)
<1> DEFINE a == (c - 1) * FieldBytes
           z == c * FieldBytes
<1>1. a \in Nat /\ z \in Nat /\ z = a + FieldBytes /\ z <= Fp12Size
  BY PlaceOfElement
<1>2. FieldBytes \in Nat /\ b \in Seq(Bytes) /\ Len(b) = Fp12Size
  BY FieldHoldsLimbs, TowerSizes
<1> HIDE DEF a, z
<1>3. /\ SubSeq(b, a + 1, z) \in Seq(Bytes) /\ Len(SubSeq(b, a + 1, z)) = z - a
      /\ \A x \in 1 .. z - a : SubSeq(b, a + 1, z)[x] = b[a + x]
  <2>1. a <= z /\ z <= Len(b)
    BY <1>1, <1>2
  <2> QED
    BY <1>1, <1>2, <2>1, PartOfSlice
<1>4. z - a = FieldBytes /\ ElementOf(b, c) = SubSeq(b, a + 1, z)
  BY <1>1, <1>2 DEF ElementOf, a, z
<1> DEFINE q == ElementOf(b, c)
<1>6. q \in Seq(Bytes) /\ Len(q) = FieldBytes /\ \A x \in 1 .. FieldBytes : q[x] = b[a + x]
  BY <1>3, <1>4
<1> HIDE DEF q
<1>5. q \in [1 .. FieldBytes -> Bytes]
  BY <1>2, <1>6
<1> QED
  BY <1>5, <1>6 DEF IsPart, a, q

(* The limbs of an element, counted in the archive.                        *)
LEMMA PlaceInElement ==
  ASSUME NEW c \in 1 .. FpCount, NEW j \in 1 .. LimbsPerField,
         NEW y, y = (c - 1) * LimbsPerField + j
  PROVE  /\ y \in Nat \ {0}
         /\ (y - 1) * LimbBytes = (c - 1) * FieldBytes + (j - 1) * LimbBytes
         /\ y * LimbBytes <= Fp12Size
         /\ j * LimbBytes <= FieldBytes /\ (j - 1) * LimbBytes \in Nat
         /\ j * LimbBytes = (j - 1) * LimbBytes + LimbBytes
<1> DEFINE L == LimbBytes
           M == LimbsPerField
           k == c - 1
           e == j - 1
           kM == k * M
<1>1. /\ L \in Nat \ {0} /\ M \in Nat \ {0} /\ k \in Nat /\ c = k + 1
      /\ e \in Nat /\ j = e + 1 /\ j <= M /\ FieldBytes = L * M
  BY FieldHoldsLimbs DEF FieldBytes
<1>2. kM \in Nat
  BY <1>1
<1>3. /\ (c - 1) * FieldBytes \in Nat /\ c * FieldBytes = (c - 1) * FieldBytes + FieldBytes
      /\ c * FieldBytes <= Fp12Size /\ FieldBytes \in Nat /\ Fp12Size \in Nat
  BY PlaceOfElement, FieldHoldsLimbs, TowerSizes
<1>4. k * FieldBytes = kM * L
  BY <1>1
<1>5. (kM + j) - 1 = kM + e /\ (kM + e) * L = kM * L + e * L
      /\ (kM + j) * L = kM * L + j * L /\ kM * L \in Nat /\ e * L \in Nat /\ j * L \in Nat
  BY <1>1, <1>2
<1>6. j * L <= M * L /\ M * L = FieldBytes /\ j * L = e * L + L
  BY <1>1
<1>7. (kM + j) * L <= Fp12Size
  <2> DEFINE kF == kM * L
             jL == j * L
             cF == c * FieldBytes
  <2>1. cF = kF + FieldBytes /\ cF <= Fp12Size /\ jL <= FieldBytes
    BY <1>3, <1>4, <1>6
  <2>2. (kM + j) * L = kF + jL /\ kF \in Nat /\ jL \in Nat /\ cF \in Nat
    BY <1>1, <1>3, <1>5
  <2> HIDE DEF kF, jL, cF, kM
  <2> QED
    BY <1>3, <2>1, <2>2
<1> HIDE DEF kM
<1>8. /\ y = kM + j /\ y \in Nat \ {0}
      /\ (y - 1) * L = k * FieldBytes + e * L
      /\ j * L <= FieldBytes /\ e * L \in Nat
  BY <1>1, <1>2, <1>4, <1>5, <1>6 DEF kM
<1> QED
  BY <1>6, <1>7, <1>8

(* A limb of an element is a limb of the archive.                          *)
LEMMA LimbOfElement ==
  ASSUME NEW b \in [1 .. Fp12Size -> Bytes], NEW c \in 1 .. FpCount,
         NEW j \in 1 .. LimbsPerField
  PROVE  /\ LimbIn(ElementOf(b, c), j) = LimbIn(b, (c - 1) * LimbsPerField + j)
         /\ LimbIn(b, (c - 1) * LimbsPerField + j) \in LimbValues
         /\ LimbOf(b, c, j) = LimbIn(b, (c - 1) * LimbsPerField + j)
<1> DEFINE w == ElementOf(b, c)
           y == (c - 1) * LimbsPerField + j
           yL == y * LimbBytes
           v == SubSeq(w, (j - 1) * LimbBytes + 1, j * LimbBytes)
           u == SubSeq(b, (y - 1) * LimbBytes + 1, y * LimbBytes)
           a == (c - 1) * FieldBytes
           e == (j - 1) * LimbBytes
<1>1. /\ y \in Nat \ {0} /\ (y - 1) * LimbBytes = a + e /\ yL <= Fp12Size
      /\ j * LimbBytes <= FieldBytes /\ e \in Nat /\ j * LimbBytes = e + LimbBytes
      /\ j \in Nat \ {0}
  <2>1. j \in Nat \ {0}
    BY FieldHoldsLimbs
  <2>2. y = (c - 1) * LimbsPerField + j
    OBVIOUS
  <2> HIDE DEF y
  <2>3. /\ y \in Nat \ {0} /\ (y - 1) * LimbBytes = a + e /\ yL <= Fp12Size
        /\ j * LimbBytes <= FieldBytes /\ e \in Nat /\ j * LimbBytes = e + LimbBytes
    BY <2>2, PlaceInElement
  <2> QED
    BY <2>1, <2>3
<1>2. b \in Seq(Bytes) /\ Len(b) = Fp12Size /\ FieldBytes \in Nat /\ LimbBytes \in Nat
      /\ a \in Nat
  BY TowerSizes, FieldHoldsLimbs, PlaceOfElement
<1>3. w \in [1 .. FieldBytes -> Bytes] /\ \A x \in 1 .. FieldBytes : w[x] = b[a + x]
  BY ElementInArchive DEF IsPart
<1>4. w \in Seq(Bytes) /\ Len(w) = FieldBytes
  BY <1>2, <1>3
<1> HIDE DEF w, y
<1>5. v \in [1 .. LimbBytes -> Bytes] /\ \A x \in 1 .. LimbBytes : v[x] = w[e + x]
  BY <1>1, <1>4, LimbInSlice
<1>6. /\ u \in [1 .. LimbBytes -> Bytes]
      /\ \A x \in 1 .. LimbBytes : u[x] = b[(y - 1) * LimbBytes + x]
      /\ LimbIn(b, y) \in LimbValues
  <2>1. y * LimbBytes <= Len(b)
    BY <1>1, <1>2
  <2> QED
    BY <1>1, <1>2, <2>1, LimbInSlice
<1>7. ASSUME NEW x \in 1 .. LimbBytes PROVE v[x] = u[x]
  <2> HIDE DEF a, e, u, v
  <2>1. e + x \in 1 .. FieldBytes
    BY <1>1, <1>2
  <2>2. (a + e) + x = a + (e + x)
    BY <1>1, <1>2
  <2> QED
    BY <1>1, <1>3, <1>5, <1>6, <2>1, <2>2
<1>8. v = u
  <2>1. v \in [1 .. LimbBytes -> Bytes] /\ u \in [1 .. LimbBytes -> Bytes]
    BY <1>5, <1>6
  <2>2. \A x \in 1 .. LimbBytes : v[x] = u[x]
    BY <1>7
  <2> HIDE DEF u, v
  <2>3. v = [x \in 1 .. LimbBytes |-> v[x]] /\ u = [x \in 1 .. LimbBytes |-> u[x]]
    BY <2>1
  <2> QED
    BY <2>2, <2>3
<1>9. LimbIn(w, j) = LimbIn(b, y)
  BY <1>8 DEF LimbIn
<1>10. LimbOf(b, c, j) = LimbIn(b, y)
  <2>1. yL \in Nat
    BY <1>1, <1>2
  <2> HIDE DEF yL
  <2>2. Lesser(yL, Len(b)) = yL
    BY <1>1, <1>2, <2>1, TowerSizes DEF Lesser
  <2>3. Chunk(b, y) = u
    BY <2>2 DEF Chunk, yL
  <2> QED
    BY <2>3 DEF LimbOf, LimbIn, y
<1> QED
  BY <1>6, <1>9, <1>10 DEF w, y

(* So are all of them.                                                     *)
LEMMA LimbsOfElement ==
  ASSUME NEW b \in [1 .. Fp12Size -> Bytes], NEW c \in 1 .. FpCount
  PROVE  LimbsOf(ElementOf(b, c)) = LimbsAt(b, c)
<1>1. \A j \in 1 .. LimbsPerField :
        LimbIn(ElementOf(b, c), j) = LimbIn(b, (c - 1) * LimbsPerField + j)
  BY LimbOfElement
<1> QED
  BY <1>1 DEF LimbsOf, LimbsAt, LimbIn

(* The integer of an element's bytes is that of its limbs.                 *)
LEMMA HeldIsInteger ==
  ASSUME NEW b \in [1 .. Fp12Size -> Bytes], NEW c \in 1 .. FpCount
  PROVE  /\ LimbsAt(b, c) \in [1 .. LimbsPerField -> LimbValues]
         /\ IntegerOf(LimbsAt(b, c)) = HeldAt(b, c)
<1>1. ElementOf(b, c) \in [1 .. FieldBytes -> Bytes]
  BY ElementInArchive
<1>2. LimbsOf(ElementOf(b, c)) = LimbsAt(b, c)
  BY LimbsOfElement
<1>3. IntegerOfBytes(ElementOf(b, c)) = FromLeBytes(ElementOf(b, c))
  BY <1>1, FieldHoldsLimbs, IntegerOfBytesIsFromLeBytes
<1> QED
  BY <1>1, <1>2, <1>3, BytesAreLimbs DEF HeldAt, ElementOf

-----------------------------------------------------------------------------
(* The test of an element.                                                 *)

(* The first verdict that decides, from the last one down: v is a verdict  *)
(* for each limb, and f the answer for the limbs up to each.               *)
Answers(f, v, m, z) ==
  f = [j \in 1 .. m |-> IF v[j] = z THEN f[j - 1] ELSE v[j]]

(* There is an answer when the least significant limb always decides.      *)
LEMMA AnswerExists ==
  ASSUME NEW m \in Nat, NEW v, NEW z, v[1] # z
  PROVE  \E f : Answers(f, v, m, z)
<1> DEFINE D(j) == {k \in 1 .. j : v[k] # z}
           f == [j \in 1 .. m |-> v[Max(D(j))]]
           g == [j \in 1 .. m |-> IF v[j] = z THEN f[j - 1] ELSE v[j]]
<1>1. ASSUME NEW j \in 1 .. m
      PROVE  v[Max(D(j))] = IF v[j] = z THEN f[j - 1] ELSE v[j]
  <2>1. CASE v[j] = z
    <3>1. j # 1 /\ j - 1 \in 1 .. m
      BY <2>1
    <3>2. D(j) = D(j - 1)
      BY <2>1, <3>1
    <3>3. f[j - 1] = v[Max(D(j - 1))]
      BY <3>1
    <3> HIDE DEF f, D
    <3> QED
      BY <2>1, <3>2, <3>3
  <2>2. CASE v[j] # z
    <3>1. j - 1 \in Nat /\ (j - 1) + 1 = j
      OBVIOUS
    <3>2. D(j) \in SUBSET (1 .. (j - 1) + 1) /\ (j - 1) + 1 \in D(j)
      BY <2>2
    <3> HIDE DEF D
    <3>3. Max(D(j)) = (j - 1) + 1
      BY <3>1, <3>2, MaxOfPrefix
    <3> QED
      BY <2>2, <3>1, <3>3
  <2> QED
    BY <2>1, <2>2
<1>2. f = g
  <2> HIDE DEF D
  <2>1. \A j \in 1 .. m : f[j] = g[j]
    BY <1>1
  <2> QED
    BY <2>1
<1> HIDE DEF f
<1> QED
  BY <1>2 DEF Answers

DecidedBy(f, v, m, z) ==
  \E k \in 1 .. m : /\ f[m] = v[k] /\ v[k] # z
                    /\ \A j \in k + 1 .. m : v[j] = z

(* The answer is the verdict of the most significant limb that decides.    *)
LEMMA AnswerIsDecided ==
  ASSUME NEW m \in Nat \ {0}, NEW v, NEW z, v[1] # z, NEW f, Answers(f, v, m, z)
  PROVE  DecidedBy(f, v, m, z)
<1> DEFINE T == {d \in 0 .. m - 1 :
                   \E k \in 1 .. d + 1 :
                     /\ f[d + 1] = v[k] /\ v[k] # z
                     /\ \A j \in k + 1 .. d + 1 : v[j] = z}
<1>1. \A j \in 1 .. m : f[j] = IF v[j] = z THEN f[j - 1] ELSE v[j]
  BY DEF Answers
<1>2. 0 \in T
  <2>1. f[1] = v[1]
    BY <1>1
  <2>2. 0 \in 0 .. m - 1 /\ 0 + 1 = 1 /\ 1 \in 1 .. 1 /\ \A j \in 1 + 1 .. 1 : FALSE
    OBVIOUS
  <2> QED
    BY <2>1, <2>2
<1>3. ASSUME NEW d \in 0 .. (m - 1) - 1, d \in T PROVE d + 1 \in T
  <2>1. d + 1 \in 0 .. m - 1 /\ d + 1 \in 1 .. m /\ (d + 1) + 1 \in 1 .. m
        /\ (d + 1) + 1 - 1 = d + 1
    OBVIOUS
  <2>2. CASE v[(d + 1) + 1] = z
    <3>1. PICK k \in 1 .. d + 1 : /\ f[d + 1] = v[k] /\ v[k] # z
                                  /\ \A j \in k + 1 .. d + 1 : v[j] = z
      BY <1>3
    <3>2. f[(d + 1) + 1] = f[d + 1]
      BY <1>1, <2>1, <2>2
    <3>3. k \in 1 .. (d + 1) + 1
      OBVIOUS
    <3>4. \A j \in k + 1 .. (d + 1) + 1 : v[j] = z
      <4> TAKE j \in k + 1 .. (d + 1) + 1
      <4>1. j \in k + 1 .. d + 1 \/ j = (d + 1) + 1
        OBVIOUS
      <4> QED
        BY <4>1, <2>2, <3>1
    <3> QED
      BY <2>1, <3>1, <3>2, <3>3, <3>4
  <2>3. CASE v[(d + 1) + 1] # z
    <3>1. f[(d + 1) + 1] = v[(d + 1) + 1]
      BY <1>1, <2>1, <2>3
    <3>2. (d + 1) + 1 \in 1 .. (d + 1) + 1
          /\ \A j \in ((d + 1) + 1) + 1 .. (d + 1) + 1 : FALSE
      OBVIOUS
    <3> QED
      BY <2>1, <2>3, <3>1, <3>2
  <2> QED
    BY <2>2, <2>3
<1> HIDE DEF T
<1>4. m - 1 \in T
  <2>1. m - 1 \in Nat
    OBVIOUS
  <2> QED
    BY <1>2, <1>3, <2>1, InductionUpTo
<1>5. (m - 1) + 1 = m
  OBVIOUS
<1> QED
  BY <1>4, <1>5 DEF T, DecidedBy

(* The test says whether the integer of an element's bytes is below the    *)
(* prime.                                                                  *)
LEMMA CanonicalIsBelow ==
  ASSUME NEW b \in [1 .. Fp12Size -> Bytes], NEW c \in 1 .. FpCount
  PROVE  FpIsCanonical(b, c) <=> HeldAt(b, c) < IntegerOf(Modulus)
<1> DEFINE m == LimbsPerField
           w == LimbsAt(b, c)
           v == [j \in 1 .. m |-> LimbVerdict(LimbOf(b, c, j), j)]
           f == CHOOSE e : Answers(e, v, m, "go on")
<1>1. m \in Nat \ {0} /\ w \in [1 .. m -> LimbValues] /\ IntegerOf(w) = HeldAt(b, c)
      /\ Modulus \in [1 .. m -> LimbValues] /\ LimbValues \subseteq Nat
  <2>1. w \in [1 .. m -> LimbValues] /\ IntegerOf(w) = HeldAt(b, c)
    BY HeldIsInteger
  <2>2. Modulus \in [1 .. m -> LimbValues]
    BY LimbsAssumption
  <2>3. m \in Nat \ {0} /\ LimbValues \subseteq Nat
    BY BasesAreBases
  <2> QED
    BY <2>1, <2>2, <2>3
<1>2. ASSUME NEW j \in 1 .. m
      PROVE  /\ v[j] = LimbVerdict(w[j], j)
             /\ w[j] < Modulus[j] => v[j] = "less"
             /\ Modulus[j] < w[j] => v[j] = "not less"
             /\ w[j] = Modulus[j] => v[j] = IF j = 1 THEN "not less" ELSE "go on"
             /\ w[j] < Modulus[j] \/ Modulus[j] < w[j] \/ w[j] = Modulus[j]
  <2>1. LimbOf(b, c, j) = w[j]
    BY LimbOfElement DEF LimbsAt
  <2>2. v[j] = LimbVerdict(w[j], j)
    BY <2>1
  <2>3. w[j] \in Nat /\ Modulus[j] \in Nat
    BY <1>1
  <2> DEFINE x == w[j]
             y == Modulus[j]
  <2>4. x \in Nat /\ y \in Nat /\ y = Modulus[j] /\ v[j] = LimbVerdict(x, j)
    BY <2>2, <2>3
  <2> HIDE DEF v, w, m, x, y
  <2>5. /\ x < y => LimbVerdict(x, j) = "less"
        /\ y < x => LimbVerdict(x, j) = "not less"
        /\ x = y => LimbVerdict(x, j) = IF j = 1 THEN "not less" ELSE "go on"
        /\ x < y \/ y < x \/ x = y
    BY <2>4, VerdictByOrder
  <2> QED
    BY <2>2, <2>4, <2>5 DEF x, y
<1>3. FpIsCanonical(b, c) <=> f[m] = "less"
  <2>1. f = CHOOSE e : e = [j \in 1 .. m |->
                              IF LimbVerdict(LimbOf(b, c, j), j) = "go on"
                              THEN e[j - 1] ELSE LimbVerdict(LimbOf(b, c, j), j)]
    <3>1. \A e : [j \in 1 .. m |-> IF v[j] = "go on" THEN e[j - 1] ELSE v[j]] =
                 [j \in 1 .. m |-> IF LimbVerdict(LimbOf(b, c, j), j) = "go on"
                                   THEN e[j - 1] ELSE LimbVerdict(LimbOf(b, c, j), j)]
      OBVIOUS
    <3> QED
      BY <3>1 DEF Answers
  <2> QED
    BY <2>1 DEF FpIsCanonical
<1> HIDE DEF v, w, m
<1>4. v[1] # "go on"
  <2>1. 1 \in 1 .. m
    BY <1>1
  <2> QED
    BY <1>2, <2>1
<1>5. Answers(f, v, m, "go on")
  BY <1>1, <1>4, AnswerExists
<1> HIDE DEF f
<1>6. PICK k \in 1 .. m : /\ f[m] = v[k] /\ v[k] # "go on"
                          /\ \A j \in k + 1 .. m : v[j] = "go on"
  <2> DEFINE z == "go on"
  <2>1. v[1] # z /\ Answers(f, v, m, z) /\ m \in Nat \ {0}
    BY <1>1, <1>4, <1>5
  <2> HIDE DEF z
  <2>2. DecidedBy(f, v, m, z)
    BY <2>1, AnswerIsDecided
  <2> QED
    BY <2>2 DEF z, DecidedBy
<1>7. k \in 0 .. m /\ \A j \in k + 1 .. m : j \in 1 .. m
  BY <1>1
<1>8. \A j \in k + 1 .. m : w[j] = Modulus[j]
  BY <1>2, <1>6, <1>7
<1>9. /\ IntegerOf(w) \in Nat /\ IntegerOf(Modulus) \in Nat
      /\ w[k] < Modulus[k] => IntegerOf(w) < IntegerOf(Modulus)
      /\ Modulus[k] < w[k] => IntegerOf(Modulus) < IntegerOf(w)
  BY <1>1, <1>7, <1>8, LimbsCompare
<1>10. w[k] = Modulus[k] /\ k = 1 => IntegerOf(w) = IntegerOf(Modulus)
  <2> SUFFICES ASSUME w[k] = Modulus[k], k = 1 PROVE IntegerOf(w) = IntegerOf(Modulus)
    OBVIOUS
  <2>1. 0 \in 0 .. m /\ \A j \in 0 + 1 .. m : w[j] = Modulus[j]
    BY <1>1, <1>8
  <2> QED
    BY <1>1, <2>1, LimbsCompare
<1>11. CASE w[k] < Modulus[k]
  BY <1>1, <1>2, <1>3, <1>6, <1>9, <1>11
<1>12. CASE Modulus[k] < w[k]
  <2>1. f[m] = "not less"
    BY <1>2, <1>6, <1>12
  <2>2. IntegerOf(Modulus) < IntegerOf(w)
    BY <1>7, <1>9, <1>12
  <2>3. ~(IntegerOf(w) < IntegerOf(Modulus))
    BY <1>9, <2>2
  <2> QED
    BY <1>1, <1>3, <2>1, <2>3
<1>13. CASE w[k] = Modulus[k]
  <2>1. k = 1 /\ f[m] = "not less"
    BY <1>2, <1>6, <1>13
  <2>3. IntegerOf(w) = IntegerOf(Modulus)
    BY <1>10, <1>13, <2>1
  <2>4. IntegerOf(w) \in Nat /\ IntegerOf(Modulus) \in Nat
    BY <1>9
  <2>2. ~(IntegerOf(w) < IntegerOf(Modulus))
    BY <2>3, <2>4
  <2> QED
    BY <1>1, <1>3, <2>1, <2>2
<1> QED
  BY <1>2, <1>11, <1>12, <1>13
-----------------------------------------------------------------------------
(* The test that not all bytes are zero.                                   *)

(* No digit but zeros.                                                     *)
AllZero(w, m) == \A k \in 1 .. m : w[k] = 0

(* A numeral is zero when all its digits are,                              *)
LEMMA HornerOfZeros ==
  ASSUME NEW m \in Nat, NEW q \in Nat \ {0}, NEW w, AreDigits(w, q, m), AllZero(w, m),
         NEW h, IsHorner(h, w, q, m)
  PROVE  h[1] = 0
<1> DEFINE T == {d \in 0 .. m : h[m + 1 - d] = 0}
<1>1. 0 \in T
  BY DEF IsHorner
<1>2. ASSUME NEW d \in 0 .. m - 1, d \in T PROVE d + 1 \in T
  <2> DEFINE k == m - d
  <2>1. k \in 1 .. m /\ m + 1 - d = k + 1 /\ m + 1 - (d + 1) = k /\ d + 1 \in 0 .. m
    OBVIOUS
  <2>2. h[k + 1] = 0 /\ h[k] = w[k] + q * h[k + 1] /\ w[k] = 0
    BY <1>2, <2>1 DEF IsHorner, AllZero
  <2> HIDE DEF k
  <2>3. q * 0 = 0
    OBVIOUS
  <2>4. h[k] = 0
    BY <2>2, <2>3
  <2> QED
    BY <2>1, <2>4
<1> HIDE DEF T
<1>3. m \in T
  BY <1>1, <1>2, InductionUpTo
<1>4. m + 1 - m = 1
  OBVIOUS
<1> QED
  BY <1>3, <1>4 DEF T

(* and it is only then.                                                    *)
LEMMA ZerosOfHorner ==
  ASSUME NEW m \in Nat, NEW q \in Nat \ {0}, NEW w, AreDigits(w, q, m),
         NEW h, IsHorner(h, w, q, m), h[1] = 0
  PROVE  AllZero(w, m)
<1> DEFINE T == {d \in 0 .. m : h[d + 1] = 0}
<1>1. 0 \in T
  OBVIOUS
<1>2. w \in [1 .. m -> Nat]
  BY DEF AreDigits
<1>3. \A k \in 1 .. m + 1 : h[k] \in Nat
  BY <1>2, HornerIsNat
<1>4. ASSUME NEW k \in 1 .. m, h[k] = 0 PROVE h[k + 1] = 0 /\ w[k] = 0
  <2> DEFINE x == h[k + 1]
             y == w[k]
  <2>1. k + 1 \in 1 .. m + 1
    OBVIOUS
  <2>2. x \in Nat /\ y \in Nat /\ y + q * x = 0
    BY <1>2, <1>3, <1>4, <2>1 DEF IsHorner
  <2> HIDE DEF x, y
  <2>3. q * x \in Nat
    BY <2>2
  <2>4. y = 0 /\ q * x = 0
    BY <2>2, <2>3
  <2>5. x = 0
    BY <2>2, <2>4
  <2> QED
    BY <2>4, <2>5 DEF x, y
<1>5. ASSUME NEW d \in 0 .. m - 1, d \in T PROVE d + 1 \in T
  <2>1. d + 1 \in 1 .. m /\ d + 1 \in 0 .. m
    OBVIOUS
  <2> QED
    BY <1>4, <1>5, <2>1
<1>6. ASSUME NEW k \in 1 .. m PROVE h[k] = 0
  <2>1. k - 1 \in Nat /\ \A d \in 0 .. (k - 1) - 1 : d \in 0 .. m - 1
    OBVIOUS
  <2> HIDE DEF T
  <2>2. k - 1 \in T
    BY <1>1, <1>5, <2>1, InductionUpTo
  <2>3. (k - 1) + 1 = k
    OBVIOUS
  <2> QED
    BY <2>2, <2>3 DEF T
<1> QED
  BY <1>4, <1>6 DEF AllZero

(* Every byte of an archive is a byte of one of its elements.              *)
LEMMA ByteIsInElement ==
  ASSUME NEW n \in 1 .. Fp12Size
  PROVE  \E c \in 1 .. FpCount, x \in 1 .. FieldBytes : n = (c - 1) * FieldBytes + x
<1> DEFINE F == FieldBytes
           N == FpCount
           d == (n - 1) \div F
           x == (n - 1) % F
<1>1. F \in Nat \ {0} /\ N \in Nat \ {0} /\ n \in Nat /\ n - 1 \in Nat
      /\ Fp12Size \in Nat /\ n <= Fp12Size /\ Fp12Size = N * F
  BY FieldHoldsLimbs, TowerSizes
<1> HIDE DEF F, N
<1>2. d \in Nat /\ x \in 0 .. F - 1
  BY <1>1
<1>3. n - 1 = F * d + x
  BY <1>1, <1>2, DivisionRule
<1> HIDE DEF d, x
<1>4. F * d \in Nat /\ F * d = d * F /\ (d + 1) - 1 = d
  BY <1>1, <1>2
<1>5. d < N
  <2> SUFFICES ASSUME N <= d PROVE FALSE
    BY <1>1, <1>2
  <2>1. N * F <= d * F
    BY <1>1, <1>2
  <2> QED
    BY <1>1, <1>2, <1>3, <1>4, <2>1
<1>6. d + 1 \in 1 .. N /\ x + 1 \in 1 .. F /\ n = ((d + 1) - 1) * F + (x + 1)
  BY <1>1, <1>2, <1>3, <1>4, <1>5
<1> QED
  BY <1>6 DEF F, N

(* An archive has a byte that is not zero when one of its integers is not. *)
LEMMA NonzeroElement ==
  ASSUME NEW b \in [1 .. Fp12Size -> Bytes]
  PROVE  IsNonzero(b) <=> \E c \in 1 .. FpCount : HeldAt(b, c) # 0
<1>1. ASSUME NEW c \in 1 .. FpCount
      PROVE  HeldAt(b, c) = 0 <=> AllZero(ElementOf(b, c), FieldBytes)
  <2> DEFINE w == ElementOf(b, c)
             F == FieldBytes
  <2>1. w \in [1 .. F -> Bytes] /\ F \in Nat /\ ByteBase \in Nat \ {0}
    BY ElementInArchive, FieldHoldsLimbs, BasesAreBases
  <2>2. AreDigits(w, ByteBase, F) /\ w \in [1 .. F -> Nat]
    BY <2>1 DEF AreDigits, Bytes
  <2>7. IntegerOfBytes(w) = FromLeBytes(w)
    BY <2>1, FieldHoldsLimbs, IntegerOfBytesIsFromLeBytes
  <2>3. HeldAt(b, c) = FromLeBytes(w)
    BY <2>7 DEF HeldAt, ElementOf
  <2> HIDE DEF w, F
  <2>4. PICK h : IsHorner(h, w, ByteBase, F) /\ h[1] = FromLeBytes(w)
    BY <2>1, <2>2, FromLeBytesIsHorner
  <2>5. AllZero(w, F) => h[1] = 0
    BY <2>1, <2>2, <2>4, HornerOfZeros
  <2>6. h[1] = 0 => AllZero(w, F)
    BY <2>1, <2>2, <2>4, ZerosOfHorner
  <2> QED
    BY <2>3, <2>4, <2>5, <2>6 DEF w, F
<1>2. ASSUME NEW c \in 1 .. FpCount, NEW x \in 1 .. FieldBytes
      PROVE  ElementOf(b, c)[x] = b[(c - 1) * FieldBytes + x]
  BY ElementInArchive DEF IsPart
<1>3. ASSUME NEW c \in 1 .. FpCount, NEW x \in 1 .. FieldBytes
      PROVE  (c - 1) * FieldBytes + x \in 1 .. Fp12Size
  <2> DEFINE a == (c - 1) * FieldBytes
             e == c * FieldBytes
  <2>1. a \in Nat /\ e \in Nat /\ e = a + FieldBytes /\ e <= Fp12Size
        /\ Fp12Size \in Nat /\ FieldBytes \in Nat
    BY PlaceOfElement, TowerSizes, FieldHoldsLimbs
  <2> HIDE DEF a, e
  <2>2. a + x \in 1 .. Fp12Size
    BY <2>1
  <2> QED
    BY <2>2 DEF a
<1>4. ASSUME NEW n \in 1 .. Fp12Size, b[n] # 0
      PROVE  \E c \in 1 .. FpCount : HeldAt(b, c) # 0
  <2>1. PICK c \in 1 .. FpCount, x \in 1 .. FieldBytes : n = (c - 1) * FieldBytes + x
    BY ByteIsInElement
  <2>2. ElementOf(b, c)[x] # 0
    BY <1>2, <1>4, <2>1
  <2> QED
    BY <1>1, <2>2 DEF AllZero
<1>5. ASSUME NEW c \in 1 .. FpCount, HeldAt(b, c) # 0
      PROVE  \E n \in 1 .. Fp12Size : b[n] # 0
  <2>1. PICK x \in 1 .. FieldBytes : ElementOf(b, c)[x] # 0
    BY <1>1, <1>5 DEF AllZero
  <2> QED
    BY <1>2, <1>3, <2>1
<1>6. IsNonzero(b) <=> \E n \in 1 .. Fp12Size : b[n] # 0
  BY DEF IsNonzero
<1> QED
  BY <1>4, <1>5, <1>6
-----------------------------------------------------------------------------
(* The places of the tower, in the order in which the loops visit them.    *)

(* Rows of d each: a row and a place in it say which it is,                *)
LEMMA RowsAreDistinct ==
  ASSUME NEW d \in Nat \ {0}, NEW x \in Nat, NEW y \in Nat,
         NEW r \in 1 .. d, NEW s \in 1 .. d, x * d + r = y * d + s
  PROVE  x = y /\ r = s
<1>1. d * x \in Nat /\ d * y \in Nat /\ x * d = d * x /\ y * d = d * y
  OBVIOUS
<1>2. ~(x < y)
  BY <1>1, ProductsAreSpaced
<1>3. ~(y < x)
  BY <1>1, ProductsAreSpaced
<1>4. x = y
  BY <1>2, <1>3
<1> QED
  BY <1>1, <1>4

(* and what number it has is within what n rows hold.                      *)
LEMMA RowsHold ==
  ASSUME NEW d \in Nat \ {0}, NEW n \in Nat, NEW x \in 0 .. n - 1, NEW r \in 1 .. d
  PROVE  x * d + r \in 1 .. n * d
<1>1. d * x \in Nat /\ d * n \in Nat /\ x * d = d * x /\ n * d = d * n
  OBVIOUS
<1>2. d * x + d <= d * n
  BY ProductsAreSpaced
<1> QED
  BY <1>1, <1>2

(* Every number within what n rows hold is one.                            *)
LEMMA RowsCover ==
  ASSUME NEW d \in Nat \ {0}, NEW n \in Nat, NEW k \in 1 .. n * d
  PROVE  \E x \in 0 .. n - 1, r \in 1 .. d : k = x * d + r
<1> DEFINE x == (k - 1) \div d
           r == (k - 1) % d
           nd == n * d
<1>1. nd \in Nat /\ k \in 1 .. nd /\ k - 1 \in Nat
  OBVIOUS
<1>2. x \in Nat /\ r \in 0 .. d - 1
  BY <1>1
<1>3. k - 1 = d * x + r
  BY <1>1, <1>2, DivisionRule
<1> HIDE DEF x, r, nd
<1>4. d * x \in Nat /\ x * d = d * x
  BY <1>2
<1>5. x < n
  <2> SUFFICES ASSUME n <= x PROVE FALSE
    BY <1>2
  <2>1. nd <= x * d
    BY <1>2 DEF nd
  <2> QED
    BY <1>1, <1>2, <1>3, <1>4, <2>1
<1>6. x \in 0 .. n - 1 /\ r + 1 \in 1 .. d /\ k = x * d + (r + 1)
  BY <1>1, <1>2, <1>3, <1>4, <1>5
<1> QED
  BY <1>6

(* A place is three numbers.                                               *)
LEMMA PlacesAreTriples ==
  /\ \A a \in 1 .. Fp6s, b \in 1 .. Fp2s, c \in 1 .. Fps : <<a, b, c>> \in Places
  /\ \A p \in Places : /\ p[1] \in 1 .. Fp6s /\ p[2] \in 1 .. Fp2s /\ p[3] \in 1 .. Fps
                       /\ p = <<p[1], p[2], p[3]>>
  /\ FirstPlace \in Places /\ LastPlace \in Places
<1>1. \A a \in 1 .. Fp6s, b \in 1 .. Fp2s, c \in 1 .. Fps : <<a, b, c>> \in Places
  BY DEF Places
<1>2. \A p \in Places : /\ p[1] \in 1 .. Fp6s /\ p[2] \in 1 .. Fp2s /\ p[3] \in 1 .. Fps
                        /\ p = <<p[1], p[2], p[3]>>
  BY DEF Places
<1>3. /\ 1 \in 1 .. Fp6s /\ Fp6s \in 1 .. Fp6s /\ 1 \in 1 .. Fp2s /\ Fp2s \in 1 .. Fp2s
      /\ 1 \in 1 .. Fps /\ Fps \in 1 .. Fps
  BY TowerSizes
<1> QED
  BY <1>1, <1>2, <1>3 DEF FirstPlace, LastPlace

(* The number of the Fp2 that a place is in.                               *)
RowOf(p) == (p[1] - 1) * Fp2s + p[2]

(* It is one of them, and a place has its number in it.                    *)
LEMMA RowsAndPlaces ==
  /\ \A p \in Places : /\ RowOf(p) \in 1 .. Fp6s * Fp2s
                       /\ IndexOf(p) = (RowOf(p) - 1) * Fps + p[3]
                       /\ IndexOf(p) \in 1 .. FpCount
<1> SUFFICES ASSUME NEW p \in Places
             PROVE  /\ RowOf(p) \in 1 .. Fp6s * Fp2s
                    /\ IndexOf(p) = (RowOf(p) - 1) * Fps + p[3]
                    /\ IndexOf(p) \in 1 .. FpCount
  OBVIOUS
<1> DEFINE a == p[1] - 1
           n == Fp6s * Fp2s
           r == RowOf(p)
<1>1. /\ a \in 0 .. Fp6s - 1 /\ p[2] \in 1 .. Fp2s /\ p[3] \in 1 .. Fps
      /\ Fp6s \in Nat /\ Fp2s \in Nat \ {0} /\ Fps \in Nat \ {0} /\ n \in Nat
  <2>1. Fp6s \in Nat /\ Fp2s \in Nat \ {0} /\ Fps \in Nat \ {0}
    BY TowerSizes
  <2>2. n \in Nat
    BY <2>1
  <2>3. p[1] \in 1 .. Fp6s /\ p[2] \in 1 .. Fp2s /\ p[3] \in 1 .. Fps
    BY PlacesAreTriples
  <2>4. a \in 0 .. Fp6s - 1
    BY <2>1, <2>3
  <2> QED
    BY <2>1, <2>2, <2>3, <2>4
<1>2. r = a * Fp2s + p[2]
  BY DEF RowOf
<1>3. a * Fp2s + p[2] \in 1 .. n
  BY <1>1, RowsHold
<1>4. a * Fp2s \in Nat /\ r \in 1 .. n
  BY <1>1, <1>2, <1>3
<1>5. IndexOf(p) = (r - 1) * Fps + p[3]
  <2> DEFINE x == a * Fp2s
  <2>1. x + p[2] - 1 = r - 1
    BY <1>1, <1>2, <1>4
  <2> QED
    BY <2>1 DEF IndexOf
<1> HIDE DEF r, n
<1>6. r - 1 \in 0 .. n - 1
  BY <1>1, <1>4
<1>7. (r - 1) * Fps + p[3] \in 1 .. n * Fps
  BY <1>1, <1>6, RowsHold
<1>8. n * Fps = FpCount
  BY DEF n, FpCount
<1> QED
  BY <1>4, <1>5, <1>7, <1>8 DEF r, n

(* Different places have different numbers,                                *)
LEMMA PlacesAreDistinct ==
  ASSUME NEW p \in Places, NEW q \in Places, IndexOf(p) = IndexOf(q)
  PROVE  p = q
<1> DEFINE n == Fp6s * Fp2s
           x == RowOf(p) - 1
           y == RowOf(q) - 1
           a == p[1] - 1
           b == q[1] - 1
           c == p[2]
           d == q[2]
           r == p[3]
           s == q[3]
<1>1. /\ Fp6s \in Nat /\ Fp2s \in Nat \ {0} /\ Fps \in Nat \ {0}
      /\ p[1] \in 1 .. Fp6s /\ c \in 1 .. Fp2s /\ r \in 1 .. Fps
      /\ q[1] \in 1 .. Fp6s /\ d \in 1 .. Fp2s /\ s \in 1 .. Fps
  BY PlacesAreTriples, TowerSizes
<1>2. n \in Nat /\ RowOf(p) \in 1 .. n /\ RowOf(q) \in 1 .. n
  BY <1>1, RowsAndPlaces
<1>3. x * Fps + r = y * Fps + s
  BY RowsAndPlaces
<1>4. a \in Nat /\ b \in Nat /\ p[1] = a + 1 /\ q[1] = b + 1
  BY <1>1
<1> HIDE DEF n
<1>5. x \in Nat /\ y \in Nat /\ RowOf(p) = x + 1 /\ RowOf(q) = y + 1
  BY <1>2
<1>6. RowOf(p) = a * Fp2s + c /\ RowOf(q) = b * Fp2s + d
  BY DEF RowOf
<1> HIDE DEF x, y, a, b, c, d, r, s
<1>7. x = y /\ r = s
  BY <1>1, <1>3, <1>5, RowsAreDistinct
<1>8. a * Fp2s + c = b * Fp2s + d
  BY <1>5, <1>6, <1>7
<1>9. a = b /\ c = d
  BY <1>1, <1>4, <1>8, RowsAreDistinct
<1>10. p[1] = q[1] /\ p[2] = q[2] /\ p[3] = q[3]
  BY <1>4, <1>7, <1>9 DEF c, d, r, s
<1> QED
  BY <1>10, PlacesAreTriples

(* and every element has a place.                                          *)
LEMMA EveryElementHasPlace ==
  ASSUME NEW c \in 1 .. FpCount
  PROVE  \E p \in Places : IndexOf(p) = c
<1> DEFINE n == Fp6s * Fp2s
<1>1. n \in Nat /\ Fp6s \in Nat /\ Fp2s \in Nat \ {0} /\ Fps \in Nat \ {0}
      /\ FpCount = n * Fps
  BY TowerSizes DEF FpCount
<1> HIDE DEF n
<1>2. PICK x \in 0 .. n - 1, e \in 1 .. Fps : c = x * Fps + e
  <2>1. c \in 1 .. n * Fps
    BY <1>1
  <2> QED
    BY <1>1, <2>1, RowsCover
<1>3. x + 1 \in 1 .. Fp6s * Fp2s
  BY <1>1 DEF n
<1>4. PICK y \in 0 .. Fp6s - 1, d \in 1 .. Fp2s : x + 1 = y * Fp2s + d
  BY <1>1, <1>3, RowsCover
<1> DEFINE p == <<y + 1, d, e>>
<1>5. p \in Places /\ p[1] = y + 1 /\ p[2] = d /\ p[3] = e
  BY <1>1, PlacesAreTriples
<1> HIDE DEF p
<1>6. RowOf(p) = x + 1
  <2>1. (y + 1) - 1 = y
    BY <1>1
  <2> QED
    BY <1>4, <1>5, <2>1 DEF RowOf
<1>7. (x + 1) - 1 = x
  BY <1>1
<1>8. IndexOf(p) = c
  BY <1>2, <1>5, <1>6, <1>7, RowsAndPlaces
<1> QED
  BY <1>5, <1>8

(* The loops begin at the first element, and end at the last.              *)
LEMMA FirstAndLast ==
  IndexOf(FirstPlace) = 1 /\ IndexOf(LastPlace) = FpCount
<1>1. Fp6s \in Nat /\ Fp2s \in Nat \ {0} /\ Fps \in Nat \ {0}
  BY TowerSizes
<1>2. IndexOf(FirstPlace) = 1
  BY <1>1 DEF IndexOf, FirstPlace
<1>3. IndexOf(LastPlace) = ((Fp6s - 1) * Fp2s + Fp2s - 1) * Fps + Fps
  BY DEF IndexOf, LastPlace
<1> DEFINE n == Fp6s * Fp2s
<1>4. n \in Nat /\ (Fp6s - 1) * Fp2s = n - Fp2s
  BY <1>1
<1> HIDE DEF n
<1>5. (Fp6s - 1) * Fp2s + Fp2s - 1 = n - 1
  BY <1>1, <1>4
<1>6. (n - 1) * Fps + Fps = n * Fps
  BY <1>1, <1>4
<1>7. IndexOf(LastPlace) = n * Fps
  BY <1>3, <1>5, <1>6
<1> QED
  BY <1>2, <1>7 DEF n, FpCount

(* From any other place they go on to the next element's.                  *)
LEMMA NextIsNext ==
  ASSUME NEW p \in Places, p # LastPlace
  PROVE  NextPlace(p) \in Places /\ IndexOf(NextPlace(p)) = IndexOf(p) + 1
<1> DEFINE a == p[1]
           b == p[2]
           c == p[3]
<1>1. /\ a \in 1 .. Fp6s /\ b \in 1 .. Fp2s /\ c \in 1 .. Fps /\ p = <<a, b, c>>
      /\ Fp6s \in Nat /\ Fp2s \in Nat \ {0} /\ Fps \in Nat \ {0}
  BY PlacesAreTriples, TowerSizes
<1>2. IndexOf(p) = ((a - 1) * Fp2s + b - 1) * Fps + c
  BY DEF IndexOf
<1>3. (a - 1) * Fp2s \in Nat
  BY <1>1
<1>4. CASE c < Fps
  <2> DEFINE q == <<a, b, c + 1>>
  <2>1. NextPlace(p) = q
    BY <1>1, <1>4 DEF NextPlace
  <2>2. q \in Places
    BY <1>1, <1>4, PlacesAreTriples
  <2>3. IndexOf(q) = ((a - 1) * Fp2s + b - 1) * Fps + (c + 1)
    BY DEF IndexOf
  <2>4. ((a - 1) * Fp2s + b - 1) * Fps \in Nat
    BY <1>1, <1>3
  <2> QED
    BY <1>1, <1>2, <2>1, <2>2, <2>3, <2>4
<1>5. CASE c = Fps /\ b < Fp2s
  <2> DEFINE q == <<a, b + 1, 1>>
             x == (a - 1) * Fp2s
  <2>1. NextPlace(p) = q
    BY <1>1, <1>5 DEF NextPlace
  <2>2. q \in Places
    BY <1>1, <1>5, PlacesAreTriples
  <2>3. IndexOf(q) = (x + (b + 1) - 1) * Fps + 1
    BY DEF IndexOf
  <2> HIDE DEF x, q
  <2>4. x \in Nat /\ x + (b + 1) - 1 = x + b /\ x + b - 1 \in Nat
    BY <1>1, <1>3 DEF x
  <2>5. (x + b) * Fps = (x + b - 1) * Fps + Fps /\ (x + b - 1) * Fps \in Nat
    BY <1>1, <2>4
  <2>6. IndexOf(q) = IndexOf(p) + 1
    BY <1>1, <1>2, <1>5, <2>3, <2>4, <2>5 DEF x
  <2> QED
    BY <2>1, <2>2, <2>6
<1>6. CASE c = Fps /\ b = Fp2s
  <2> DEFINE q == <<a + 1, 1, 1>>
             x == (a - 1) * Fp2s
             y == a * Fp2s
  <2>1. NextPlace(p) = q
    BY <1>1, <1>6 DEF NextPlace
  <2>2. a < Fp6s
    BY <1>1, <1>6 DEF LastPlace
  <2>3. q \in Places
    BY <1>1, <2>2, PlacesAreTriples
  <2>4. q[1] - 1 = a /\ q[2] = 1 /\ q[3] = 1
    BY <1>1
  <2>5. y \in Nat /\ y + 1 - 1 = y /\ y = x + Fp2s /\ x \in Nat
    BY <1>1
  <2> HIDE DEF q
  <2>6. IndexOf(q) = y * Fps + 1
    BY <2>4, <2>5 DEF IndexOf
  <2> HIDE DEF x, y
  <2>7. x + b - 1 = y - 1 /\ y - 1 \in Nat
    BY <1>1, <1>6, <2>5
  <2>8. y * Fps = (y - 1) * Fps + Fps /\ (y - 1) * Fps \in Nat
    BY <1>1, <2>5, <2>7
  <2>9. IndexOf(p) = (y - 1) * Fps + Fps
    BY <1>2, <1>6, <2>7 DEF x
  <2>10. IndexOf(q) = IndexOf(p) + 1
    BY <2>6, <2>8, <2>9
  <2> QED
    BY <2>1, <2>3, <2>10
<1> QED
  BY <1>1, <1>4, <1>5, <1>6
-----------------------------------------------------------------------------
(* Reading an element and writing it back.                                 *)

(* What the running offset selects is an element.                          *)
LEMMA SelectsElement ==
  ASSUME NEW b \in [1 .. Fp12Size -> Bytes], NEW c \in 1 .. FpCount
  PROVE  ElementBytes(b, (c - 1) * FieldBytes) = ElementOf(b, c)
<1> DEFINE a == (c - 1) * FieldBytes
           z == c * FieldBytes
<1>1. a \in Nat /\ z \in Nat /\ z = a + FieldBytes /\ z <= Fp12Size
      /\ Fp12Size \in Nat /\ Len(b) = Fp12Size
  BY PlaceOfElement, TowerSizes
<1> HIDE DEF a, z
<1>2. Lesser(a + FieldBytes, Len(b)) = z
  BY <1>1 DEF Lesser
<1>3. ElementBytes(b, a) = SubSeq(b, a + 1, z)
  BY <1>2 DEF ElementBytes
<1> QED
  BY <1>3 DEF ElementOf, a, z

(* read_raw_limbs reads every limb of an element.                          *)
LEMMA ReadsElement ==
  ASSUME NEW w \in [1 .. FieldBytes -> Bytes],
         NEW limbs \in [1 .. LimbsPerField -> LimbValues]
  PROVE  ReadRawLimbs(w, limbs, 0) = LimbsOf(w)
<1> DEFINE n == LimbsPerField
           read == ReadRawLimbs(SubSeq(w, 0 * LimbBytes + 1, FieldBytes), limbs, 0)
<1>1. /\ FieldBytes \in Nat /\ LimbBytes \in Nat \ {0} /\ n \in Nat \ {0}
      /\ FieldBytes = LimbBytes * n
  BY FieldHoldsLimbs DEF FieldBytes
<1>2. w \in Seq(Bytes) /\ Len(w) = FieldBytes
  BY <1>1
<1>3. 0 * LimbBytes = 0 /\ 0 * LimbBytes <= FieldBytes /\ FieldBytes <= Len(w)
      /\ 0 \in Nat
  BY <1>1, <1>2
<1>4. SubSeq(w, 0 * LimbBytes + 1, FieldBytes) = w
  BY <1>2, <1>3
<1>5. /\ read \in [1 .. n -> LimbValues]
      /\ \A j \in 1 .. n :
           read[j] = IF 0 < j /\ j * LimbBytes <= FieldBytes THEN LimbIn(w, j)
                                                           ELSE limbs[j]
  <2> HIDE DEF n
  <2>1. limbs \in [1 .. n -> LimbValues]
    BY DEF n
  <2> QED
    BY <1>1, <1>2, <1>3, <2>1, ReadsChunks
<1>6. \A j \in 1 .. n : 0 < j /\ j * LimbBytes <= FieldBytes
  BY <1>1
<1> HIDE DEF read
<1>7. \A j \in 1 .. n : read[j] = LimbIn(w, j)
  BY <1>5, <1>6
<1>8. read = [j \in 1 .. n |-> LimbIn(w, j)]
  <2>1. read = [j \in 1 .. n |-> read[j]]
    BY <1>5
  <2> QED
    BY <1>7, <2>1
<1>9. read = LimbsOf(w)
  BY <1>8 DEF LimbsOf, LimbIn
<1> QED
  BY <1>4, <1>9 DEF read

(* write_raw_limbs writes the bytes that they were read from.              *)
LEMMA WritesElement ==
  ASSUME NEW w \in [1 .. FieldBytes -> Bytes]
  PROVE  WriteRawLimbs(LimbsOf(w)) = w
<1> DEFINE L == LimbBytes
           n == LimbsPerField
           limbs == LimbsOf(w)
           W == WriteRawLimbs(limbs)
<1>1. /\ FieldBytes \in Nat /\ L \in Nat \ {0} /\ n \in Nat \ {0} /\ FieldBytes = n * L
      /\ limbs \in [1 .. n -> LimbValues]
  BY FieldHoldsLimbs, BytesAreLimbs DEF FieldBytes
<1>2. w \in Seq(Bytes) /\ Len(w) = FieldBytes
  BY <1>1
<1>3. HoldsLimbs(W, limbs, n)
  BY <1>1, WritesEveryLimb
<1>4. \A j \in 1 .. n : limbs[j] = FromLeBytes(SubSeq(w, (j - 1) * L + 1, j * L))
  BY DEF LimbsOf
<1> HIDE DEF W, limbs, L, n
<1>5. /\ W \in Seq(Bytes) /\ Len(W) = FieldBytes
      /\ \A j \in 1 .. n, b \in 1 .. L : W[(j - 1) * L + b] = ToLeBytes(limbs[j])[b]
  BY <1>1, <1>3 DEF HoldsLimbs, L
<1>6. ASSUME NEW x \in 1 .. FieldBytes PROVE W[x] = w[x]
  <2>1. PICK k \in 0 .. n - 1, b \in 1 .. L : x = k * L + b
    BY <1>1, RowsCover
  <2> DEFINE j == k + 1
             u == SubSeq(w, (j - 1) * L + 1, j * L)
  <2>2. j \in 1 .. n /\ j - 1 = k /\ j \in Nat \ {0}
    BY <1>1
  <2>3. j * L <= Len(w)
    <3> HIDE DEF j
    <3>1. j * L <= n * L
      BY <1>1, <2>2
    <3> QED
      BY <1>1, <1>2, <3>1
  <2> HIDE DEF j
  <2>4. u \in [1 .. L -> Bytes] /\ u[b] = w[(j - 1) * L + b]
    BY <1>2, <2>2, <2>3, LimbInSlice DEF L
  <2>5. limbs[j] = FromLeBytes(u)
    BY <1>4, <2>2
  <2> HIDE DEF u
  <2>6. ToLeBytes(FromLeBytes(u)) = u
    BY <2>4, ReadLimbIsLimb DEF L
  <2>7. W[(j - 1) * L + b] = u[b]
    BY <1>5, <2>2, <2>5, <2>6
  <2> QED
    BY <2>1, <2>2, <2>4, <2>7
<1>7. W = w
  BY <1>1, <1>2, <1>5, <1>6, SeqEqual
<1> QED
  BY <1>7 DEF W, limbs

(* The first n bytes are the same.                                         *)
Matches(s, b, n) == \A k \in 1 .. n : s[k] = b[k]

(* What has been written once an element has been.                         *)
LEMMA OneMoreElement ==
  ASSUME NEW b \in [1 .. Fp12Size -> Bytes], NEW s \in [1 .. Fp12Size -> Bytes],
         NEW c \in 1 .. FpCount, Matches(s, b, (c - 1) * FieldBytes)
  PROVE  /\ Overwrite(s, (c - 1) * FieldBytes, ElementOf(b, c)) \in [1 .. Fp12Size -> Bytes]
         /\ Matches(Overwrite(s, (c - 1) * FieldBytes, ElementOf(b, c)), b, c * FieldBytes)
<1> DEFINE a == (c - 1) * FieldBytes
           z == c * FieldBytes
           w == ElementOf(b, c)
           t == Overwrite(s, a, w)
<1>1. a \in Nat /\ z \in Nat /\ z = a + FieldBytes /\ z <= Fp12Size
      /\ Fp12Size \in Nat /\ FieldBytes \in Nat
  BY PlaceOfElement, TowerSizes, FieldHoldsLimbs
<1>2. w \in [1 .. FieldBytes -> Bytes] /\ \A x \in 1 .. FieldBytes : w[x] = b[a + x]
  BY ElementInArchive DEF IsPart
<1>3. \A k \in 1 .. a : s[k] = b[k]
  BY DEF Matches
<1> HIDE DEF a, z, w
<1>4. t = [k \in 1 .. Fp12Size |-> IF k - a \in 1 .. FieldBytes THEN w[k - a] ELSE s[k]]
  BY <1>2 DEF Overwrite
<1>5. t \in [1 .. Fp12Size -> Bytes]
  BY <1>2, <1>4
<1>6. ASSUME NEW k \in 1 .. z PROVE t[k] = b[k]
  <2>1. k \in 1 .. Fp12Size
    BY <1>1
  <2>2. CASE k <= a
    <3>1. k \in 1 .. a /\ ~(k - a \in 1 .. FieldBytes)
      BY <1>1, <2>2
    <3> QED
      BY <1>3, <1>4, <2>1, <3>1
  <2>3. CASE ~(k <= a)
    <3>1. k - a \in 1 .. FieldBytes /\ a + (k - a) = k
      BY <1>1, <2>3
    <3> HIDE DEF t
    <3>2. t[k] = w[k - a]
      BY <1>4, <2>1, <3>1
    <3>3. w[k - a] = b[a + (k - a)]
      BY <1>2, <3>1
    <3> QED
      BY <3>1, <3>2, <3>3
  <2> QED
    BY <2>2, <2>3
<1> HIDE DEF t
<1>7. Matches(t, b, z)
  BY <1>6 DEF Matches
<1> QED
  BY <1>5, <1>7 DEF t, a, z, w
-----------------------------------------------------------------------------
(* The inductive invariant of a restored and archived tower.               *)

TowerShape ==
  /\ kind \in Kinds /\ bytes \in [1 .. Fp12Size -> Bytes]
  /\ phase \in {"idle", "testing", "reading", "restored", "writing", "written",
                "refused"}
  /\ tested \in 1 .. FpCount
  /\ place \in Places /\ offset = (IndexOf(place) - 1) * FieldBytes
  /\ value \in [Places -> [1 .. LimbsPerField -> LimbValues]]
  /\ written \in [1 .. Fp12Size -> Bytes]

(* The loops are back at the first element whenever none is running, and a *)
(* test that is over has reset what it counts.                             *)
LoopsAtRest ==
  /\ phase \notin {"reading", "writing"} => place = FirstPlace
  /\ phase = "idle" => tested = 1

(* The elements tested so far are below the prime.                         *)
CanonicalUpTo(c) == \A k \in 1 .. c : HeldAt(bytes, k) < IntegerOf(Modulus)

(* The places before the k-th element hold the limbs of their own bytes.   *)
ElementsHeld(v, b, k) ==
  \A p \in Places : IndexOf(p) <= k => v[p] = LimbsAt(b, IndexOf(p))

TowerInv ==
  /\ TowerShape /\ LoopsAtRest
  /\ phase = "testing" => CanonicalUpTo(tested - 1)
  /\ AcceptsExactly
  /\ phase = "reading" => ElementsHeld(value, bytes, IndexOf(place) - 1)
  /\ phase \in {"restored", "writing", "written"} => ElementsHeld(value, bytes, FpCount)
  /\ phase = "writing" => Matches(written, bytes, offset)
  /\ phase = "written" => written = bytes

(* The state between calls is shaped as it should.                         *)
LEMMA EmptyTower ==
  /\ "gt" \in Kinds /\ NoBytes \in [1 .. Fp12Size -> Bytes] /\ 1 \in 1 .. FpCount
  /\ NoValue \in [Places -> [1 .. LimbsPerField -> LimbValues]]
  /\ FirstPlace \in Places /\ (IndexOf(FirstPlace) - 1) * FieldBytes = 0
<1>1. 0 \in Bytes /\ 0 \in LimbValues
  BY BasesAreBases, LimbsAssumption DEF Bytes
<1>2. NoBytes \in [1 .. Fp12Size -> Bytes]
  BY <1>1 DEF NoBytes
<1>3. NoValue \in [Places -> [1 .. LimbsPerField -> LimbValues]]
  BY <1>1 DEF NoValue, ZeroFp
<1>4. IndexOf(FirstPlace) - 1 = 0
  BY FirstAndLast
<1>5. (IndexOf(FirstPlace) - 1) * FieldBytes = 0
  BY <1>4, FieldHoldsLimbs
<1>6. 1 \in 1 .. FpCount
  BY TowerSizes
<1> QED
  BY <1>2, <1>3, <1>5, <1>6, PlacesAreTriples DEF Kinds

(* It is where the machine starts.                                         *)
LEMMA TowerInitHolds == TowerInit => TowerInv
<1> SUFFICES ASSUME TowerInit PROVE TowerInv
  OBVIOUS
<1>1. TowerShape
  BY EmptyTower DEF TowerInit, TowerShape
<1> QED
  BY <1>1 DEF TowerInit, TowerInv, LoopsAtRest, AcceptsExactly

(* No element is as large as the prime.                                    *)
AllBelow(b) == \A c \in 1 .. FpCount : HeldAt(b, c) < IntegerOf(Modulus)

(* What is valid, asked of the elements in the order of the test.          *)
LEMMA ValidByElements ==
  ASSUME NEW b \in [1 .. Fp12Size -> Bytes], NEW k
  PROVE  Valid(k, b) <=> AllBelow(b) /\ (k = "miller" => IsNonzero(b))
<1>1. \A p \in Places : IndexOf(p) \in 1 .. FpCount
  BY RowsAndPlaces
<1>2. \A c \in 1 .. FpCount : \E p \in Places : IndexOf(p) = c
  BY EveryElementHasPlace
<1>3. (\A p \in Places : Held(b, p) < IntegerOf(Modulus)) <=> AllBelow(b)
  BY <1>1, <1>2 DEF Held, AllBelow
<1>4. (\E p \in Places : Held(b, p) # 0) <=> \E c \in 1 .. FpCount : HeldAt(b, c) # 0
  BY <1>1, <1>2 DEF Held
<1>5. (\E p \in Places : Held(b, p) # 0) <=> IsNonzero(b)
  BY <1>4, NonzeroElement
<1> QED
  BY <1>3, <1>5 DEF Valid

(* A call of the test finds nothing tested yet.                            *)
LEMMA RestoreKeeps == TowerInv /\ Restore => TowerInv'
<1> SUFFICES ASSUME TowerInv, Restore PROVE TowerInv'
  OBVIOUS
<1>1. phase = "idle" /\ phase' = "testing" /\ TowerShape /\ place = FirstPlace /\ tested = 1
      /\ kind' \in Kinds /\ bytes' \in [1 .. Fp12Size -> Bytes]
      /\ UNCHANGED <<tested, place, offset, value, written>>
  BY Fp12LimbsAssumption DEF TowerInv, LoopsAtRest, Restore
<1>2. TowerShape'
  BY <1>1 DEF TowerShape
<1>3. CanonicalUpTo(tested - 1)'
  <2>1. tested' - 1 = 0
    BY <1>1
  <2>2. 1 .. 0 = {}
    OBVIOUS
  <2> QED
    BY <2>1, <2>2 DEF CanonicalUpTo
<1> QED
  BY <1>1, <1>2, <1>3 DEF TowerInv, LoopsAtRest, AcceptsExactly

(* The test refuses at an element that is not below the prime, and accepts *)
(* when none is left.                                                      *)
LEMMA TestElementKeeps == TowerInv /\ TestElement => TowerInv'
<1> SUFFICES ASSUME TowerInv, TestElement PROVE TowerInv'
  OBVIOUS
<1>1. /\ phase = "testing" /\ TowerShape /\ place = FirstPlace
      /\ CanonicalUpTo(tested - 1) /\ tested \in 1 .. FpCount /\ FpCount \in Nat
      /\ bytes \in [1 .. Fp12Size -> Bytes]
      /\ UNCHANGED <<kind, bytes, place, offset, value, written>>
  BY TowerSizes DEF TowerInv, LoopsAtRest, TestElement, TowerShape
<1>2. FpIsCanonical(bytes, tested) <=> HeldAt(bytes, tested) < IntegerOf(Modulus)
  BY <1>1, CanonicalIsBelow
<1>3. Valid(kind, bytes) <=> AllBelow(bytes) /\ (kind = "miller" => IsNonzero(bytes))
  BY <1>1, ValidByElements
<1>4. FpIsCanonical(bytes, tested) => CanonicalUpTo(tested)
  <2> SUFFICES ASSUME FpIsCanonical(bytes, tested), NEW k \in 1 .. tested
               PROVE  HeldAt(bytes, k) < IntegerOf(Modulus)
    BY DEF CanonicalUpTo
  <2>1. k \in 1 .. tested - 1 \/ k = tested
    BY <1>1
  <2> QED
    BY <1>1, <1>2, <2>1 DEF CanonicalUpTo
<1>5. CASE FpIsCanonical(bytes, tested) /\ tested < FpCount
  <2>1. tested' = tested + 1 /\ phase' = phase
    BY <1>5 DEF TestElement
  <2>2. tested' \in 1 .. FpCount /\ tested' - 1 = tested
    BY <1>1, <1>5, <2>1
  <2>3. TowerShape'
    BY <1>1, <2>1, <2>2 DEF TowerShape
  <2>4. CanonicalUpTo(tested - 1)'
    BY <1>1, <1>4, <1>5, <2>2 DEF CanonicalUpTo
  <2> QED
    BY <1>1, <2>1, <2>3, <2>4 DEF TowerInv, LoopsAtRest, AcceptsExactly
<1>6. CASE FpIsCanonical(bytes, tested) /\ ~(tested < FpCount)
  <2>1. /\ phase' = IF kind = "miller" /\ ~IsNonzero(bytes) THEN "refused" ELSE "reading"
        /\ tested' = tested
    BY <1>6 DEF TestElement
  <2>2. tested = FpCount
    BY <1>1, <1>6
  <2>3. AllBelow(bytes)
    BY <1>4, <1>6, <2>2 DEF CanonicalUpTo, AllBelow
  <2>4. phase' = IF Valid(kind, bytes) THEN "reading" ELSE "refused"
    BY <1>3, <2>1, <2>3
  <2>5. TowerShape'
    BY <1>1, <2>1, <2>4 DEF TowerShape
  <2>6. AcceptsExactly'
    <3>1. kind' = kind /\ bytes' = bytes /\ (Valid(kind, bytes))' = Valid(kind, bytes)
      BY <1>1 DEF Valid, Held, HeldAt
    <3> QED
      BY <2>4, <3>1 DEF AcceptsExactly
  <2>7. ElementsHeld(value, bytes, IndexOf(place) - 1)'
    <3>1. place' = FirstPlace /\ IndexOf(FirstPlace) - 1 = 0
      BY <1>1, FirstAndLast
    <3>2. \A p \in Places : IndexOf(p) \in 1 .. FpCount
      BY RowsAndPlaces
    <3>3. \A p \in Places : ~(IndexOf(p) <= 0)
      BY <3>2
    <3> QED
      BY <3>1, <3>3 DEF ElementsHeld
  <2>8. place' = FirstPlace /\ phase' \in {"reading", "refused"}
    BY <1>1, <2>4
  <2> QED
    BY <2>5, <2>6, <2>7, <2>8 DEF TowerInv, LoopsAtRest
<1>7. CASE ~FpIsCanonical(bytes, tested)
  <2>1. phase' = "refused" /\ tested' = tested
    BY <1>7 DEF TestElement
  <2>2. ~AllBelow(bytes)
    BY <1>1, <1>2, <1>7 DEF AllBelow
  <2>3. ~Valid(kind, bytes)'
    <3>1. kind' = kind /\ bytes' = bytes /\ (Valid(kind, bytes))' = Valid(kind, bytes)
      BY <1>1 DEF Valid, Held, HeldAt
    <3> QED
      BY <1>3, <2>2, <3>1
  <2>4. TowerShape'
    BY <1>1, <2>1 DEF TowerShape
  <2> QED
    BY <1>1, <2>1, <2>3, <2>4 DEF TowerInv, LoopsAtRest, AcceptsExactly
<1> QED
  BY <1>5, <1>6, <1>7

(* What a step of the loops does to the place and the offset.              *)
LEMMA AdvanceMoves ==
  ASSUME TowerShape, NEW end, Advance(end)
  PROVE  /\ place' \in Places /\ offset' = (IndexOf(place') - 1) * FieldBytes
         /\ place = LastPlace => phase' = end /\ place' = FirstPlace /\ IndexOf(place) = FpCount
         /\ place # LastPlace => /\ phase' = phase /\ IndexOf(place') = IndexOf(place) + 1
                                 /\ offset' = IndexOf(place) * FieldBytes
<1>1. place \in Places /\ offset = (IndexOf(place) - 1) * FieldBytes
      /\ IndexOf(place) \in 1 .. FpCount
  BY RowsAndPlaces DEF TowerShape
<1>2. CASE place = LastPlace
  BY <1>2, EmptyTower, FirstAndLast DEF Advance
<1>3. CASE place # LastPlace
  <2>1. place' = NextPlace(place) /\ offset' = offset + FieldBytes /\ phase' = phase
    BY <1>3 DEF Advance, NextOffset
  <2>2. place' \in Places /\ IndexOf(place') = IndexOf(place) + 1
    BY <1>1, <1>3, <2>1, NextIsNext
  <2> DEFINE c == IndexOf(place)
             a == (c - 1) * FieldBytes
             z == c * FieldBytes
  <2>3. z = a + FieldBytes
    BY <1>1, PlaceOfElement
  <2>4. offset' = z
    BY <1>1, <2>1, <2>3
  <2>5. (c + 1) - 1 = c
    BY <1>1
  <2> HIDE DEF c, a
  <2>6. (IndexOf(place') - 1) * FieldBytes = z
    BY <2>2, <2>5 DEF c
  <2> QED
    BY <1>3, <2>1, <2>2, <2>4, <2>6 DEF c
<1> QED
  BY <1>2, <1>3

(* Reading an element fills its place from its own bytes and leaves the    *)
(* others alone.                                                           *)
LEMMA ReadElementKeeps == TowerInv /\ ReadElement => TowerInv'
<1> SUFFICES ASSUME TowerInv, ReadElement PROVE TowerInv'
  OBVIOUS
<1> DEFINE c == IndexOf(place)
           v == LimbsAt(bytes, c)
<1>1. /\ phase = "reading" /\ TowerShape /\ Advance("restored")
      /\ place \in Places /\ offset = (c - 1) * FieldBytes
      /\ bytes \in [1 .. Fp12Size -> Bytes]
      /\ value \in [Places -> [1 .. LimbsPerField -> LimbValues]]
      /\ ElementsHeld(value, bytes, c - 1)
      /\ UNCHANGED <<kind, bytes, tested, written>>
  BY DEF TowerInv, TowerShape, ReadElement
<1>2. c \in 1 .. FpCount /\ FpCount \in Nat
  BY <1>1, RowsAndPlaces, TowerSizes
<1>3. ReadRawLimbs(ElementBytes(bytes, offset), value[place], 0) = v
  <2> HIDE DEF c
  <2>1. ElementBytes(bytes, offset) = ElementOf(bytes, c)
    BY <1>1, <1>2, SelectsElement
  <2>2. ElementOf(bytes, c) \in [1 .. FieldBytes -> Bytes]
    BY <1>1, <1>2, ElementInArchive
  <2>3. value[place] \in [1 .. LimbsPerField -> LimbValues]
    BY <1>1
  <2>4. ReadRawLimbs(ElementOf(bytes, c), value[place], 0) = LimbsOf(ElementOf(bytes, c))
    BY <2>2, <2>3, ReadsElement
  <2> QED
    BY <1>1, <1>2, <2>1, <2>4, LimbsOfElement
<1>4. v \in [1 .. LimbsPerField -> LimbValues]
  <2> HIDE DEF c
  <2> QED
    BY <1>1, <1>2, HeldIsInteger
<1>5. value' = [value EXCEPT ![place] = v]
  BY <1>3 DEF ReadElement
<1>6. value' \in [Places -> [1 .. LimbsPerField -> LimbValues]]
  <2> HIDE DEF v
  <2> QED
    BY <1>1, <1>4, <1>5
<1>7. ElementsHeld(value', bytes', c)
  <2> SUFFICES ASSUME NEW p \in Places, IndexOf(p) <= c
               PROVE  value'[p] = LimbsAt(bytes, IndexOf(p))
    BY <1>1 DEF ElementsHeld
  <2>1. CASE p = place
    BY <1>1, <1>5, <2>1
  <2>2. CASE p # place
    <3>1. IndexOf(p) \in 1 .. FpCount /\ IndexOf(p) # c
      BY <1>1, <2>2, RowsAndPlaces, PlacesAreDistinct
    <3>2. IndexOf(p) <= c - 1
      BY <1>2, <3>1
    <3>3. value'[p] = value[p]
      BY <1>1, <1>5, <2>2
    <3> QED
      BY <1>1, <3>2, <3>3 DEF ElementsHeld
  <2> QED
    BY <2>1, <2>2
<1>8. /\ place' \in Places /\ offset' = (IndexOf(place') - 1) * FieldBytes
      /\ place = LastPlace => phase' = "restored" /\ place' = FirstPlace /\ c = FpCount
      /\ place # LastPlace => phase' = "reading" /\ IndexOf(place') = c + 1
  BY <1>1, AdvanceMoves
<1>9. TowerShape'
  BY <1>1, <1>6, <1>8 DEF TowerShape
<1>10. AcceptsExactly'
  <2>1. (Valid(kind, bytes))' = Valid(kind, bytes)
    BY <1>1 DEF Valid, Held, HeldAt
  <2>2. Valid(kind, bytes)
    BY <1>1 DEF TowerInv, AcceptsExactly
  <2>3. phase' # "refused"
    BY <1>8
  <2> QED
    BY <2>1, <2>2, <2>3 DEF AcceptsExactly
<1> HIDE DEF c, v
<1>11. CASE place = LastPlace
  <2>1. phase' = "restored" /\ place' = FirstPlace /\ c = FpCount
    BY <1>8, <1>11
  <2>2. ElementsHeld(value', bytes', FpCount)
    BY <1>7, <2>1
  <2> QED
    BY <1>9, <1>10, <2>1, <2>2 DEF TowerInv, LoopsAtRest
<1>12. CASE place # LastPlace
  <2>1. phase' = "reading" /\ IndexOf(place') = c + 1
    BY <1>8, <1>12
  <2>2. (c + 1) - 1 = c
    BY <1>2
  <2>3. ElementsHeld(value', bytes', IndexOf(place') - 1)
    BY <1>7, <2>1, <2>2
  <2> QED
    BY <1>9, <1>10, <2>1, <2>3 DEF TowerInv, LoopsAtRest
<1> QED
  BY <1>11, <1>12

(* Writing begins with no byte written.                                    *)
LEMMA ArchiveKeeps == TowerInv /\ Archive => TowerInv'
<1> SUFFICES ASSUME TowerInv, Archive PROVE TowerInv'
  OBVIOUS
<1>1. /\ phase = "restored" /\ phase' = "writing" /\ TowerShape /\ place = FirstPlace
      /\ ElementsHeld(value, bytes, FpCount)
      /\ UNCHANGED <<kind, bytes, tested, place, offset, value, written>>
  BY DEF TowerInv, LoopsAtRest, Archive
<1>2. TowerShape'
  BY <1>1 DEF TowerShape
<1>3. AcceptsExactly'
  <2>1. (Valid(kind, bytes))' = Valid(kind, bytes)
    BY <1>1 DEF Valid, Held, HeldAt
  <2>2. Valid(kind, bytes)
    BY <1>1 DEF TowerInv, AcceptsExactly
  <2> QED
    BY <1>1, <2>1, <2>2 DEF AcceptsExactly
<1>4. Matches(written', bytes', offset')
  <2>1. offset' = 0
    BY <1>1, EmptyTower DEF TowerShape
  <2>2. 1 .. 0 = {}
    OBVIOUS
  <2> QED
    BY <2>1, <2>2 DEF Matches
<1>5. ElementsHeld(value', bytes', FpCount)
  BY <1>1
<1> QED
  BY <1>1, <1>2, <1>3, <1>4, <1>5 DEF TowerInv, LoopsAtRest

(* Writing an element adds its bytes to what is written.                   *)
LEMMA WriteElementKeeps == TowerInv /\ WriteElement => TowerInv'
<1> SUFFICES ASSUME TowerInv, WriteElement PROVE TowerInv'
  OBVIOUS
<1> DEFINE c == IndexOf(place)
<1>1. /\ phase = "writing" /\ TowerShape /\ Advance("written")
      /\ place \in Places /\ offset = (c - 1) * FieldBytes
      /\ bytes \in [1 .. Fp12Size -> Bytes] /\ written \in [1 .. Fp12Size -> Bytes]
      /\ ElementsHeld(value, bytes, FpCount) /\ Matches(written, bytes, offset)
      /\ UNCHANGED <<kind, bytes, tested, value>>
  BY DEF TowerInv, TowerShape, WriteElement
<1>2. c \in 1 .. FpCount /\ FpCount \in Nat /\ c <= FpCount
  BY <1>1, RowsAndPlaces, TowerSizes
<1>3. /\ place' \in Places /\ offset' = (IndexOf(place') - 1) * FieldBytes
      /\ place = LastPlace => phase' = "written" /\ place' = FirstPlace /\ c = FpCount
      /\ place # LastPlace => phase' = "writing" /\ offset' = c * FieldBytes
  BY <1>1, AdvanceMoves
<1>4. value[place] = LimbsAt(bytes, c)
  BY <1>1, <1>2 DEF ElementsHeld
<1> HIDE DEF c
<1>5. WriteRawLimbs(value[place]) = ElementOf(bytes, c)
  <2>1. ElementOf(bytes, c) \in [1 .. FieldBytes -> Bytes]
    BY <1>1, <1>2, ElementInArchive
  <2>2. LimbsAt(bytes, c) = LimbsOf(ElementOf(bytes, c))
    BY <1>1, <1>2, LimbsOfElement
  <2> QED
    BY <1>4, <2>1, <2>2, WritesElement
<1>6. written' \in [1 .. Fp12Size -> Bytes] /\ Matches(written', bytes, c * FieldBytes)
  <2>1. written' = Overwrite(written, (c - 1) * FieldBytes, ElementOf(bytes, c))
    BY <1>1, <1>5 DEF WriteElement
  <2>2. Matches(written, bytes, (c - 1) * FieldBytes)
    BY <1>1
  <2> QED
    BY <1>1, <1>2, <2>1, <2>2, OneMoreElement
<1>7. TowerShape'
  BY <1>1, <1>3, <1>6 DEF TowerShape
<1>8. AcceptsExactly'
  <2>1. (Valid(kind, bytes))' = Valid(kind, bytes)
    BY <1>1 DEF Valid, Held, HeldAt
  <2>2. Valid(kind, bytes)
    BY <1>1 DEF TowerInv, AcceptsExactly
  <2>3. phase' # "refused"
    BY <1>3
  <2> QED
    BY <2>1, <2>2, <2>3 DEF AcceptsExactly
<1>9. ElementsHeld(value', bytes', FpCount)
  BY <1>1
<1>10. CASE place = LastPlace
  <2>1. phase' = "written" /\ place' = FirstPlace /\ c = FpCount
    BY <1>3, <1>10
  <2>2. Matches(written', bytes, Fp12Size)
    BY <1>6, <2>1, TowerSizes
  <2>3. \A k \in 1 .. Fp12Size : written'[k] = bytes[k]
    BY <2>2 DEF Matches
  <2>4. /\ written' = [k \in 1 .. Fp12Size |-> written'[k]]
        /\ bytes = [k \in 1 .. Fp12Size |-> bytes[k]]
    BY <1>1, <1>6
  <2>5. written' = bytes
    BY <2>3, <2>4
  <2> QED
    BY <1>1, <1>7, <1>8, <1>9, <2>1, <2>5 DEF TowerInv, LoopsAtRest
<1>11. CASE place # LastPlace
  <2>1. phase' = "writing" /\ offset' = c * FieldBytes
    BY <1>3, <1>11
  <2>2. Matches(written', bytes', offset')
    BY <1>1, <1>6, <2>1
  <2> QED
    BY <1>7, <1>8, <1>9, <2>1, <2>2 DEF TowerInv, LoopsAtRest
<1> QED
  BY <1>10, <1>11

(* A call that ends leaves no trace.                                       *)
LEMMA FinishKeeps == TowerInv /\ Finish => TowerInv'
<1> SUFFICES ASSUME TowerInv, Finish PROVE TowerInv'
  OBVIOUS
<1>1. /\ kind' = "gt" /\ bytes' = NoBytes /\ phase' = "idle" /\ tested' = 1
      /\ value' = NoValue /\ written' = NoBytes /\ place' = place /\ offset' = offset
      /\ TowerShape /\ place = FirstPlace
  BY DEF TowerInv, LoopsAtRest, Finish
<1>2. TowerShape'
  BY <1>1, EmptyTower DEF TowerShape
<1> QED
  BY <1>1, <1>2 DEF TowerInv, LoopsAtRest, AcceptsExactly

(* Nothing changes when nothing happens.                                   *)
LEMMA TowerStutters == TowerInv /\ UNCHANGED towerVars => TowerInv'
<1> SUFFICES ASSUME TowerInv, UNCHANGED towerVars PROVE TowerInv'
  OBVIOUS
<1>1. UNCHANGED <<kind, bytes, phase, tested, place, offset, value, written>>
  BY DEF towerVars
<1>2. AcceptsExactly'
  <2>1. (Valid(kind, bytes))' = Valid(kind, bytes)
    BY <1>1 DEF Valid, Held, HeldAt
  <2> QED
    BY <1>1, <2>1 DEF TowerInv, AcceptsExactly
<1>3. TowerShape'
  BY <1>1 DEF TowerInv, TowerShape
<1>4. CanonicalUpTo(tested - 1)' <=> CanonicalUpTo(tested - 1)
  BY <1>1 DEF CanonicalUpTo
<1> QED
  BY <1>1, <1>2, <1>3, <1>4 DEF TowerInv, LoopsAtRest

(* The tests and the loops of a restored and archived tower keep their     *)
(* invariant.                                                              *)
THEOREM TowerInvariant == TowerSpec => []TowerInv
<1>1. TowerInv /\ [TowerNext]_towerVars => TowerInv'
  BY RestoreKeeps, TestElementKeeps, ReadElementKeeps, ArchiveKeeps, WriteElementKeeps,
     FinishKeeps, TowerStutters DEF TowerNext
<1> QED
  BY <1>1, TowerInitHolds, PTL DEF TowerSpec

(* Exactly the archives whose integers are below the prime are read, and   *)
(* of a Miller loop result only those that are not zero, whatever the      *)
(* sizes of limbs, elements and towers.                                    *)
THEOREM TowerAcceptsExactly == TowerSpec => []AcceptsExactly
<1>1. TowerInv => AcceptsExactly
  BY DEF TowerInv
<1> QED
  BY <1>1, TowerInvariant, PTL

(* The nested loops with their one running offset put every element where  *)
(* it belongs.                                                             *)
THEOREM TowerRestoresEachElement == TowerSpec => []RestoresEachElement
<1>1. TowerInv => RestoresEachElement
  <2> SUFFICES ASSUME TowerInv, phase \in {"restored", "writing", "written"},
                      NEW p \in Places
               PROVE  IntegerOf(value[p]) = Held(bytes, p)
    BY DEF RestoresEachElement
  <2>1. bytes \in [1 .. Fp12Size -> Bytes] /\ ElementsHeld(value, bytes, FpCount)
    BY DEF TowerInv, TowerShape
  <2>2. IndexOf(p) \in 1 .. FpCount /\ FpCount \in Nat
    BY RowsAndPlaces, TowerSizes
  <2>3. value[p] = LimbsAt(bytes, IndexOf(p))
    BY <2>1, <2>2 DEF ElementsHeld
  <2> QED
    BY <2>1, <2>2, <2>3, HeldIsInteger DEF Held
<1> QED
  BY <1>1, TowerInvariant, PTL

(* A value is archived as the bytes it was restored from.                  *)
THEOREM TowerRewritesTheSame == TowerSpec => []RewritesTheSame
<1>1. TowerInv => RewritesTheSame
  BY DEF TowerInv, RewritesTheSame
<1> QED
  BY <1>1, TowerInvariant, PTL
=============================================================================
