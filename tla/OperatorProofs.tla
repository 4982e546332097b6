---------------------------- MODULE OperatorProofs ----------------------------
(***************************************************************************)
(* Facts about the operators that the state machines are built from, for   *)
(* every curve and every field: the encoders and decoders of AffinePoint   *)
(* and the stored forms of PreparedPoint are exact inverses, exponents in  *)
(* Fp12 add up, and the pairing functions return what the exponents say.   *)
(*                                                                         *)
(* The pairing functions fold over their terms.  That a fold over one term *)
(* more is one step more is an induction, for which a set of numbers takes *)
(* the place of the property: see NumbersByInduction and FoldExists.       *)
(***************************************************************************)
EXTENDS PreparedPoint, TargetValues, PairingFunctions,
        FiniteSetTheorems, SequenceTheorems, WellFoundedInduction, TLAPS

-----------------------------------------------------------------------------
(* Induction, and the folds of SequencesExt.                               *)

(* A set of numbers with zero, closed under successor, is all of them: a   *)
(* least number outside would have a predecessor inside.                   *)
LEMMA NumbersByInduction ==
  ASSUME NEW T \in SUBSET Nat, 0 \in T, \A n \in T : n + 1 \in T
  PROVE  T = Nat
<1> DEFINE U == Nat \ T
<1> SUFFICES ASSUME U # {} PROVE FALSE
  OBVIOUS
<1>1. IsWellFoundedOn(OpToRel(<, Nat), Nat)
  BY NatLessThanWellFounded
<1>2. U \subseteq Nat
  OBVIOUS
<1> HIDE DEF U
<1>3. PICK x \in U : \A y \in U : ~(<<y, x>> \in OpToRel(<, Nat))
  BY <1>1, <1>2, WFMin
<1>4. \A y \in U : ~(y < x)
  BY <1>2, <1>3 DEF OpToRel
<1>5. x \in Nat /\ x # 0
  BY <1>2 DEF U
<1>6. x - 1 \in Nat /\ x - 1 < x /\ (x - 1) + 1 = x
  BY <1>5
<1>7. x - 1 \in T
  BY <1>4, <1>6 DEF U
<1> QED
  BY <1>6, <1>7 DEF U

(* The same up to a bound.                                                 *)
LEMMA InductionUpTo ==
  ASSUME NEW n \in Nat, NEW T, 0 \in T, \A k \in 0 .. n - 1 : k \in T => k + 1 \in T
  PROVE  n \in T
<1> DEFINE U == {k \in Nat : k <= n => k \in T}
<1>1. 0 \in U
  OBVIOUS
<1>2. \A k \in U : k + 1 \in U
  OBVIOUS
<1>3. U \in SUBSET Nat
  OBVIOUS
<1> HIDE DEF U
<1>4. n \in U
  BY <1>1, <1>2, <1>3, NumbersByInduction
<1> QED
  BY <1>4 DEF U

(* A set of numbers up to n + 1 that contains n + 1.                       *)
LEMMA MaxOfPrefix ==
  ASSUME NEW n \in Nat, NEW t \in SUBSET (1 .. n + 1), n + 1 \in t
  PROVE  Max(t) = n + 1
<1>1. \A y \in t : n + 1 >= y
  OBVIOUS
<1>2. \A x \in t : (\A y \in t : x >= y) => x = n + 1
  OBVIOUS
<1> QED
  BY <1>1, <1>2 DEF Max

(* A set of numbers that is not empty has a maximum.                       *)
LEMMA MaxInRange ==
  ASSUME NEW n \in Nat, NEW t \in SUBSET (1 .. n), t # {}
  PROVE  Max(t) \in t
<1> DEFINE T == {k \in Nat : \A u \in SUBSET (1 .. k) : u # {} => Max(u) \in u}
<1>1. 0 \in T
  <2>1. 1 .. 0 = {}
    OBVIOUS
  <2> QED
    BY <2>1
<1>2. ASSUME NEW k \in T
      PROVE  k + 1 \in T
  <2> SUFFICES ASSUME NEW u \in SUBSET (1 .. k + 1), u # {}
               PROVE  Max(u) \in u
    OBVIOUS
  <2>1. CASE k + 1 \in u
    BY <2>1, MaxOfPrefix
  <2>2. CASE k + 1 \notin u
    <3>1. u \in SUBSET (1 .. k)
      BY <2>2
    <3> QED
      BY <3>1
  <2> QED
    BY <2>1, <2>2
<1>3. T \in SUBSET Nat
  OBVIOUS
<1> HIDE DEF T
<1>4. n \in T
  BY <1>1, <1>2, <1>3, NumbersByInduction
<1> QED
  BY <1>4 DEF T

(* The sets of indices that a fold over a sequence goes through.           *)
LEMMA PrefixIndices ==
  ASSUME NEW n \in Nat, NEW k \in 0 .. n - 1
  PROVE  /\ 1 .. k \in SUBSET (1 .. n) /\ 1 .. k + 1 \in SUBSET (1 .. n)
         /\ 1 .. k + 1 # {} /\ Max(1 .. k + 1) = k + 1
         /\ (1 .. k + 1) \ {k + 1} = 1 .. k
<1>1. 1 .. k \in SUBSET (1 .. n) /\ 1 .. k + 1 \in SUBSET (1 .. n) /\ k + 1 \in 1 .. k + 1
  OBVIOUS
<1>2. (1 .. k + 1) \ {k + 1} = 1 .. k
  OBVIOUS
<1>3. k \in Nat
  OBVIOUS
<1>4. Max(1 .. k + 1) = k + 1
  BY <1>1, <1>3, MaxOfPrefix
<1> QED
  BY <1>1, <1>2, <1>4

(* The community modules define a fold over a function f on D by choosing  *)
(* a function g on the subsets of D that satisfies a recursive equation;   *)
(* `pick` says which element goes first: the greatest, the least, any.     *)
(* For a binary operation F on a set V it is this equation.                *)
IsFold(g, V, F, b, f, D, pick) ==
  /\ g \in [SUBSET D -> V]
  /\ \A t \in SUBSET D :
       g[t] = IF t = {} THEN b ELSE F[<<g[t \ {pick[t]}], f[pick[t]]>>]

(* The equation has a solution, from the smaller sets to the larger.       *)
LEMMA FoldExists ==
  ASSUME NEW V, NEW W, NEW F \in [V \X W -> V], NEW b \in V,
         NEW D, IsFiniteSet(D), NEW f \in [D -> W],
         NEW pick, \A t \in SUBSET D : t # {} => pick[t] \in t
  PROVE  \E g : IsFold(g, V, F, b, f, D, pick)
<1> DEFINE Upto(n) == {t \in SUBSET D : Cardinality(t) <= n}
           Solves(g, n) ==
             /\ g \in [SUBSET D -> V]
             /\ \A t \in Upto(n) :
                  g[t] = IF t = {} THEN b ELSE F[<<g[t \ {pick[t]}], f[pick[t]]>>]
           T == {n \in Nat : \E g : Solves(g, n)}
<1>1. \A t \in SUBSET D :
        /\ Cardinality(t) \in Nat /\ (Cardinality(t) = 0 <=> t = {})
        /\ t # {} => Cardinality(t \ {pick[t]}) = Cardinality(t) - 1
  BY FS_Subset, FS_CardinalityType, FS_EmptySet, FS_RemoveElement
<1>2. 0 \in T
  <2> DEFINE g == [t \in SUBSET D |-> b]
  <2>1. g \in [SUBSET D -> V]
    OBVIOUS
  <2>2. ASSUME NEW t \in Upto(0)
        PROVE  t = {} /\ g[t] = b
    <3>1. t \in SUBSET D /\ Cardinality(t) <= 0
      OBVIOUS
    <3>2. Cardinality(t) \in Nat /\ (Cardinality(t) = 0 => t = {})
      BY <1>1, <3>1
    <3> HIDE DEF Upto
    <3>3. t = {}
      BY <3>1, <3>2
    <3> QED
      BY <3>1, <3>3
  <2> HIDE DEF g, Upto
  <2>3. Solves(g, 0)
    BY <2>1, <2>2
  <2> QED
    BY <2>3
<1>3. ASSUME NEW n \in T PROVE n + 1 \in T
  <2>1. n \in Nat
    OBVIOUS
  <2>2. PICK h : Solves(h, n)
    OBVIOUS
  <2> DEFINE g == [t \in SUBSET D |->
                     IF t \in Upto(n) \/ t = {} THEN h[t]
                     ELSE F[<<h[t \ {pick[t]}], f[pick[t]]>>]]
  <2>3. \A t \in SUBSET D : t # {} => /\ f[pick[t]] \in W /\ t \ {pick[t]} \in SUBSET D
                                      /\ h[t \ {pick[t]}] \in V
    BY <2>2
  <2>4. g \in [SUBSET D -> V]
    BY <2>2, <2>3
  <2>5. \A t \in Upto(n) : g[t] = h[t]
    OBVIOUS
  <2>6. ASSUME NEW t \in Upto(n + 1)
        PROVE  g[t] = IF t = {} THEN b ELSE F[<<g[t \ {pick[t]}], f[pick[t]]>>]
    <3>1. t # {} => t \ {pick[t]} \in Upto(n)
      BY <1>1, <2>1
    <3>2. {} \in Upto(n)
      BY <1>1, <2>1
    <3> HIDE DEF g
    <3>3. CASE t \in Upto(n)
      BY <2>2, <2>5, <3>1, <3>3
    <3>4. CASE t \notin Upto(n)
      <4>1. t # {} /\ t \in SUBSET D
        BY <3>2, <3>4
      <4>2. g[t] = F[<<h[t \ {pick[t]}], f[pick[t]]>>]
        BY <3>4, <4>1 DEF g
      <4> QED
        BY <2>5, <3>1, <4>1, <4>2
    <3> QED
      BY <3>3, <3>4
  <2> HIDE DEF g, Upto
  <2>7. Solves(g, n + 1)
    BY <2>4, <2>6
  <2>8. n + 1 \in Nat
    BY <2>1
  <2> HIDE DEF Solves
  <2> QED
    BY <2>7, <2>8
<1>4. T \in SUBSET Nat
  OBVIOUS
<1> HIDE DEF T
<1>5. T = Nat
  BY <1>2, <1>3, <1>4, NumbersByInduction
<1>6. Cardinality(D) \in T
  BY <1>5, FS_CardinalityType
<1>7. PICK g : Solves(g, Cardinality(D))
  BY <1>6 DEF T
<1>8. \A t \in SUBSET D : t \in Upto(Cardinality(D))
  BY FS_Subset
<1> HIDE DEF Upto
<1>9. IsFold(g, V, F, b, f, D, pick)
  BY <1>7, <1>8 DEF IsFold
<1> QED
  BY <1>9

-----------------------------------------------------------------------------
(* Quotients and remainders.                                               *)

(* A quotient times the divisor is at most n, by less than the divisor.   *)
LEMMA QuotientBounds ==
  ASSUME NEW n \in Nat, NEW d \in Nat \ {0}, NEW q \in Nat, q = n \div d
  PROVE  d * q <= n /\ n < d * q + d
<1>1. d * q <= n
  BY SMT
<1>2. n < d * q + d
  BY SMT
<1> QED
  BY <1>1, <1>2

(* Multiples of d are at least d apart.                                    *)
LEMMA ProductsAreSpaced ==
  ASSUME NEW p \in Nat, NEW q \in Nat, NEW d \in Nat \ {0}, p < q
  PROVE  d * p + d <= d * q
OBVIOUS

(* Nothing else has those bounds.                                          *)
LEMMA QuotientIsUnique ==
  ASSUME NEW n \in Nat, NEW d \in Nat \ {0}, NEW q \in Nat,
         d * q <= n, n < d * q + d
  PROVE  n \div d = q
<1> DEFINE p == n \div d
<1>1. p \in Nat
  OBVIOUS
<1> HIDE DEF p
<1>2. d * p <= n /\ n < d * p + d
  BY <1>1, QuotientBounds DEF p
<1>3. d * p \in Nat /\ d * q \in Nat
  BY <1>1
<1>4. ~(p < q)
  BY <1>1, <1>2, <1>3, ProductsAreSpaced
<1>5. ~(q < p)
  BY <1>1, <1>2, <1>3, ProductsAreSpaced
<1> QED
  BY <1>1, <1>4, <1>5 DEF p

(* Remainders of what two scalars add up to.                               *)
LEMMA SmallRemainders ==
  ASSUME NEW n \in Nat, NEW d \in Nat \ {0}, n < 2 * d
  PROVE  n % d = IF n < d THEN n ELSE n - d
<1>1. CASE n < d
  BY <1>1
<1>2. CASE ~(n < d)
  BY <1>2
<1> QED
  BY <1>1, <1>2

(* The remainder of a negative.                                            *)
LEMMA NegativeRemainder ==
  ASSUME NEW b \in Nat, NEW d \in Nat \ {0}, b < d
  PROVE  (d - b) % d = IF b = 0 THEN 0 ELSE d - b
<1> DEFINE n == d - b
<1>1. n \in Nat /\ n <= d /\ n < 2 * d /\ (n < d <=> b # 0)
  OBVIOUS
<1> HIDE DEF n
<1>2. n % d = IF n < d THEN n ELSE n - d
  BY <1>1, SmallRemainders
<1>3. n % d = IF b = 0 THEN 0 ELSE n
  BY <1>1, <1>2
<1> QED
  BY <1>3 DEF n

(* The rule of division, and its uniqueness.                               *)
LEMMA DivisionRule ==
  ASSUME NEW n \in Nat, NEW d \in Nat \ {0}, NEW q \in Nat, NEW r \in Nat,
         q = n \div d, r = n % d
  PROVE  n = d * q + r
BY SMT

(* Quotient and remainder are determined by their bounds.                  *)
LEMMA RemainderIsUnique ==
  ASSUME NEW n \in Nat, NEW d \in Nat \ {0}, NEW q \in Nat, NEW r \in 0 .. d - 1,
         n = d * q + r
  PROVE  n % d = r
BY SMT

(* Reducing a summand does not change what the sum is reduced to.          *)
LEMMA ReducedSummand ==
  ASSUME NEW a \in Nat, NEW n \in Nat, NEW d \in Nat \ {0}
  PROVE  (a + (n % d)) % d = (a + n) % d
<1> DEFINE q == n \div d
           r == n % d
           p == (a + r) \div d
           s == (a + r) % d
<1>1. q \in Nat /\ r \in Nat /\ p \in Nat /\ s \in 0 .. d - 1
  OBVIOUS
<1>2. n = d * q + r
  BY <1>1, DivisionRule
<1>3. a + r = d * p + s
  <2>1. a + r \in Nat /\ s \in Nat
    BY <1>1
  <2> QED
    BY <1>1, <2>1, DivisionRule
<1>4. (a + r) % d = s
  OBVIOUS
<1> HIDE DEF q, r, p, s
<1>5. a + n = d * (q + p) + s
  <2>1. d * (q + p) = d * q + d * p
    BY <1>1
  <2>2. d * q \in Nat /\ d * p \in Nat
    BY <1>1
  <2> QED
    BY <1>1, <1>2, <1>3, <2>1, <2>2
<1>6. (a + n) % d = s
  <2>1. a + n \in Nat /\ q + p \in Nat
    BY <1>1
  <2> QED
    BY <1>1, <1>5, <2>1, RemainderIsUnique
<1> QED
  BY <1>4, <1>6 DEF r

-----------------------------------------------------------------------------
(* Numerals: digits w[1], w[2], ... to the base q, least significant first,*)
(* as what they are read by (Horner's rule) and as sums over powers p[0],  *)
(* p[1], ... of the base.                                                  *)

IsHorner(h, w, q, m) ==
  h[m + 1] = 0 /\ \A k \in 1 .. m : h[k] = w[k] + q * h[k + 1]

AreDigits(w, q, m) == w \in [1 .. m -> 0 .. q - 1]
ArePowers(p, q, m) ==
  /\ p[0] = 1 /\ \A k \in 0 .. m : p[k] \in Nat \ {0}
  /\ \A k \in 0 .. m - 1 : p[k + 1] = q * p[k]

(* What Horner's rule reads is a natural number at every digit.            *)
LEMMA HornerIsNat ==
  ASSUME NEW m \in Nat, NEW q \in Nat, NEW w \in [1 .. m -> Nat],
         NEW h, IsHorner(h, w, q, m)
  PROVE  \A k \in 1 .. m + 1 : h[k] \in Nat
<1> DEFINE T == {d \in 0 .. m : h[m + 1 - d] \in Nat}
<1>1. 0 \in T
  BY DEF IsHorner
<1>2. ASSUME NEW d \in 0 .. m - 1, d \in T PROVE d + 1 \in T
  <2> DEFINE k == m - d
  <2>1. k \in 1 .. m /\ m + 1 - (d + 1) = k /\ m + 1 - d = k + 1 /\ d + 1 \in 0 .. m
    OBVIOUS
  <2>2. h[k + 1] \in Nat
    BY <1>2, <2>1
  <2>3. h[k] = w[k] + q * h[k + 1] /\ w[k] \in Nat
    BY <2>1 DEF IsHorner
  <2> HIDE DEF k
  <2>4. h[k] \in Nat
    BY <2>2, <2>3
  <2> QED
    BY <2>1, <2>4
<1> HIDE DEF T
<1>3. \A d \in 0 .. m : d \in T
  <2> SUFFICES ASSUME NEW d \in 0 .. m PROVE d \in T
    OBVIOUS
  <2>1. d \in Nat /\ \A k \in 0 .. d - 1 : k \in 0 .. m - 1
    OBVIOUS
  <2>2. \A k \in 0 .. d - 1 : k \in T => k + 1 \in T
    BY <1>2, <2>1
  <2> QED
    BY <1>1, <2>1, <2>2, InductionUpTo
<1> SUFFICES ASSUME NEW k \in 1 .. m + 1 PROVE h[k] \in Nat
  OBVIOUS
<1>4. m + 1 - k \in T
  BY <1>3
<1>5. m + 1 - (m + 1 - k) = k
  OBVIOUS
<1> QED
  BY <1>4, <1>5 DEF T

(* The numeral splits into what is below a place and what is from it on.   *)
LowPart(h, p, k) == h[1] - p[k] * h[k + 1]
Summand(w, p, k) == w[k] * p[k - 1]

(* The low part of a numeral: what its first digits contribute.            *)
LEMMA HornerSplits ==
  ASSUME NEW m \in Nat, NEW q \in Nat \ {0}, NEW w, AreDigits(w, q, m),
         NEW h, IsHorner(h, w, q, m), NEW p, ArePowers(p, q, m),
         NEW k \in 0 .. m
  PROVE  /\ LowPart(h, p, k) \in Nat /\ LowPart(h, p, k) < p[k]
         /\ k < m => LowPart(h, p, k) + Summand(w, p, k + 1) = LowPart(h, p, k + 1)
<1> USE DEF AreDigits
<1> DEFINE g(i) == h[1] - p[i] * h[i + 1]
           T == {i \in 0 .. m : g(i) \in Nat /\ g(i) < p[i]}
<1>1. \A i \in 1 .. m + 1 : h[i] \in Nat
  BY HornerIsNat
<1>2. 0 \in T
  <2>1. h[1] \in Nat /\ h[0 + 1] = h[1] /\ p[0] = 1
    BY <1>1 DEF ArePowers
  <2> QED
    BY <2>1
<1>3. ASSUME NEW i \in 0 .. m - 1
      PROVE  /\ g(i) + w[i + 1] * p[i] = g(i + 1)
             /\ i \in T => i + 1 \in T
  <2> DEFINE a == p[i]
             b == w[i + 1]
             x == h[i + 1]
             y == h[i + 2]
             z == h[1]
  <2>1. i + 1 \in 1 .. m /\ i + 2 \in 1 .. m + 1 /\ (i + 1) + 1 = i + 2 /\ i \in 0 .. m
        /\ i + 1 \in 0 .. m
    OBVIOUS
  <2>2. x = b + q * y /\ p[i + 1] = q * a
    BY <2>1 DEF IsHorner, ArePowers
  <2>3. a \in Nat \ {0} /\ b \in 0 .. q - 1 /\ x \in Nat /\ y \in Nat /\ z \in Nat
    BY <1>1, <2>1 DEF ArePowers
  <2>4. g(i + 1) = z - (q * a) * y /\ g(i) = z - a * x
    BY <2>1, <2>2
  <2> HIDE DEF a, b, x, y, z
  <2>5. a * x = a * b + (q * a) * y /\ a * b = b * a /\ a * b \in Nat /\ (q * a) * y \in Nat
    <3>1. a * (b + q * y) = a * b + a * (q * y)
      BY <2>3
    <3>2. a * (q * y) = (q * a) * y
      BY <2>3
    <3> QED
      BY <2>2, <2>3, <3>1, <3>2
  <2>6. g(i + 1) = g(i) + b * a /\ a * x \in Nat
    <3> DEFINE ax == a * x
               ab == a * b
               qy == (q * a) * y
    <3>1. ax \in Nat
      BY <2>3
    <3>2. ax = ab + qy /\ ab \in Nat /\ qy \in Nat
      BY <2>5
    <3>3. g(i + 1) = z - qy /\ g(i) = z - ax /\ b * a = ab
      BY <2>4, <2>5
    <3> HIDE DEF ax, ab, qy, g
    <3>4. g(i + 1) = g(i) + ab
      BY <2>3, <3>1, <3>2, <3>3
    <3> QED
      BY <3>1, <3>3, <3>4 DEF ax
  <2>7. ASSUME i \in T PROVE i + 1 \in T
    <3>1. g(i) \in Nat /\ g(i) < a
      BY <2>7 DEF a
    <3> HIDE DEF g
    <3>2. b * a + a <= q * a
      <4>1. b + 1 <= q /\ b + 1 \in Nat
        BY <2>3
      <4>2. (b + 1) * a <= q * a
        BY <2>3, <4>1
      <4> QED
        BY <2>3, <4>2
    <3>3. g(i + 1) \in Nat /\ g(i + 1) < q * a
      <4> DEFINE ba == b * a
                 qa == q * a
      <4>1. ba \in Nat /\ qa \in Nat
        BY <2>3
      <4>2. g(i + 1) = g(i) + ba /\ ba + a <= qa
        BY <2>6, <3>2
      <4> HIDE DEF ba, qa
      <4>3. g(i + 1) \in Nat /\ g(i + 1) < qa
        BY <2>3, <3>1, <4>1, <4>2
      <4> QED
        BY <4>3 DEF qa
    <3> QED
      BY <2>1, <2>2, <3>3 DEF g
  <2> QED
    BY <2>6, <2>7 DEF a, b
<1> HIDE DEF T
<1>4. k \in T
  <2>1. k \in Nat /\ \A i \in 0 .. k - 1 : i \in 0 .. m - 1
    OBVIOUS
  <2> QED
    BY <1>2, <1>3, <2>1, InductionUpTo
<1>5. k < m => k \in 0 .. m - 1
  OBVIOUS
<1>6. (k + 1) + 1 = k + 2 /\ (k + 1) - 1 = k
  OBVIOUS
<1> QED
  BY <1>3, <1>4, <1>5, <1>6 DEF T, LowPart, Summand

(* A numeral of m digits is below the m-th power of the base.              *)
LEMMA HornerBelow ==
  ASSUME NEW m \in Nat, NEW q \in Nat \ {0}, NEW w, AreDigits(w, q, m),
         NEW h, IsHorner(h, w, q, m), NEW p, ArePowers(p, q, m)
  PROVE  h[1] \in Nat /\ h[1] < p[m]
<1> USE DEF AreDigits
<1>1. m \in 0 .. m
  OBVIOUS
<1>2. h[1] - p[m] * h[m + 1] \in Nat /\ h[1] - p[m] * h[m + 1] < p[m]
  BY <1>1, HornerSplits DEF LowPart
<1>3. h[m + 1] = 0 /\ p[m] \in Nat
  BY <1>1 DEF IsHorner, ArePowers
<1>4. w \in [1 .. m -> Nat] /\ 1 \in 1 .. m + 1
  OBVIOUS
<1>5. h[1] \in Nat
  BY <1>4, HornerIsNat
<1> QED
  BY <1>2, <1>3, <1>5

(* The digits can be read off again.                                       *)
HasDigits(n, w, p, q, m) == \A k \in 1 .. m : (n \div p[k - 1]) % q = w[k]

(* Division and remainder give the digits of a numeral back.               *)
LEMMA DigitsOfHorner ==
  ASSUME NEW m \in Nat, NEW q \in Nat \ {0}, NEW w, AreDigits(w, q, m),
         NEW h, IsHorner(h, w, q, m), NEW p, ArePowers(p, q, m)
  PROVE  HasDigits(h[1], w, p, q, m)
<1> USE DEF AreDigits
<1> SUFFICES ASSUME NEW k \in 1 .. m PROVE (h[1] \div p[k - 1]) % q = w[k]
  BY DEF HasDigits
<1> DEFINE d == p[k - 1]
           g == h[1] - d * h[k]
           x == h[k]
           y == h[k + 1]
           z == h[1]
           b == w[k]
<1>1. k - 1 \in 0 .. m /\ (k - 1) + 1 = k /\ k + 1 \in 1 .. m + 1 /\ 1 \in 1 .. m + 1
      /\ k \in 1 .. m + 1
  OBVIOUS
<1>2. g \in Nat /\ g < d /\ d \in Nat \ {0}
  <2>1. \A e \in 0 .. m : h[1] - p[e] * h[e + 1] \in Nat /\ h[1] - p[e] * h[e + 1] < p[e]
    BY HornerSplits DEF LowPart
  <2>2. /\ h[1] - p[k - 1] * h[(k - 1) + 1] \in Nat
        /\ h[1] - p[k - 1] * h[(k - 1) + 1] < p[k - 1]
    BY <1>1, <2>1
  <2>3. p[k - 1] \in Nat \ {0}
    BY <1>1 DEF ArePowers
  <2> QED
    BY <1>1, <2>2, <2>3
<1>3. x \in Nat /\ y \in Nat /\ z \in Nat
  <2>1. w \in [1 .. m -> Nat]
    OBVIOUS
  <2> QED
    BY <1>1, <2>1, HornerIsNat
<1>4. x = b + q * y /\ b \in 0 .. q - 1
  BY DEF IsHorner
<1>5. g = z - d * x
  OBVIOUS
<1> HIDE DEF d, g, x, y, z, b
<1>6. d * x \in Nat
  BY <1>2, <1>3
<1>7. d * x <= z /\ z < d * x + d
  BY <1>2, <1>3, <1>5, <1>6
<1>8. z \div d = x
  BY <1>2, <1>3, <1>7, QuotientIsUnique
<1>9. x % q = b
  <2>1. x = q * y + b
    <3>1. q * y \in Nat /\ b \in Nat
      BY <1>3, <1>4
    <3> QED
      BY <1>4, <3>1
  <2> QED
    BY <1>3, <1>4, <2>1, RemainderIsUnique
<1> QED
  BY <1>8, <1>9 DEF z, d, b

(* Numerals compare as their most significant different digits do.         *)
LEMMA HornerCompares ==
  ASSUME NEW m \in Nat, NEW q \in Nat \ {0},
         NEW v, AreDigits(v, q, m), NEW w, AreDigits(w, q, m),
         NEW g, IsHorner(g, v, q, m), NEW h, IsHorner(h, w, q, m),
         NEW i \in 0 .. m, \A j \in i + 1 .. m : v[j] = w[j]
  PROVE  /\ i = 0 => g[1] = h[1]
         /\ i > 0 /\ v[i] < w[i] => g[1] < h[1]
<1> USE DEF AreDigits
<1>1. /\ \A k \in 1 .. m + 1 : g[k] \in Nat /\ h[k] \in Nat
      /\ g[m + 1] = h[m + 1]
      /\ \A k \in 1 .. m : /\ g[k] = v[k] + q * g[k + 1] /\ h[k] = w[k] + q * h[k + 1]
                           /\ v[k] \in 0 .. q - 1 /\ w[k] \in 0 .. q - 1
  <2>1. v \in [1 .. m -> Nat] /\ w \in [1 .. m -> Nat]
    OBVIOUS
  <2> QED
    BY <2>1, HornerIsNat DEF IsHorner
<1> DEFINE T == {d \in 0 .. m - i : g[m + 1 - d] = h[m + 1 - d]}
<1>2. g[i + 1] = h[i + 1]
  <2>1. 0 \in T
    BY <1>1
  <2>2. ASSUME NEW d \in 0 .. (m - i) - 1, d \in T PROVE d + 1 \in T
    <3> DEFINE k == m - d
    <3>1. k \in 1 .. m /\ k \in i + 1 .. m /\ m + 1 - (d + 1) = k /\ m + 1 - d = k + 1
          /\ d + 1 \in 0 .. m - i
      OBVIOUS
    <3>2. g[k + 1] = h[k + 1]
      BY <2>2, <3>1
    <3> HIDE DEF k
    <3>3. g[k] = h[k]
      BY <1>1, <3>1, <3>2
    <3> QED
      BY <3>1, <3>3
  <2> HIDE DEF T
  <2>3. m - i \in Nat
    OBVIOUS
  <2>4. m - i \in T
    BY <2>1, <2>2, <2>3, InductionUpTo
  <2>5. m + 1 - (m - i) = i + 1
    OBVIOUS
  <2> QED
    BY <2>4, <2>5 DEF T
<1>3. ASSUME i > 0, v[i] < w[i] PROVE g[1] < h[1]
  <2> DEFINE U == {d \in 0 .. i - 1 : g[i - d] < h[i - d]}
  <2>1. 0 \in U
    <3>1. i \in 1 .. m /\ i + 1 \in 1 .. m + 1 /\ i - 0 = i /\ 0 \in 0 .. i - 1
      BY <1>3
    <3>2. /\ g[i] = v[i] + q * g[i + 1] /\ h[i] = w[i] + q * h[i + 1]
          /\ v[i] \in Int /\ w[i] \in Int /\ h[i + 1] \in Nat
      BY <1>1, <3>1
    <3>3. q * h[i + 1] \in Int
      BY <3>2
    <3>4. g[i] < h[i]
      BY <1>2, <1>3, <3>2, <3>3
    <3> QED
      BY <3>1, <3>4
  <2>2. ASSUME NEW d \in 0 .. (i - 1) - 1, d \in U PROVE d + 1 \in U
    <3> DEFINE k == i - d - 1
               x == g[k + 1]
               y == h[k + 1]
    <3>1. k \in 1 .. m /\ k + 1 \in 1 .. m + 1 /\ i - d = k + 1 /\ i - (d + 1) = k
          /\ d + 1 \in 0 .. i - 1
      OBVIOUS
    <3>2. x < y
      BY <2>2, <3>1
    <3>3. x \in Nat /\ y \in Nat
      BY <1>1, <3>1
    <3>4. /\ g[k] = v[k] + q * x /\ h[k] = w[k] + q * y
          /\ v[k] \in 0 .. q - 1 /\ w[k] \in 0 .. q - 1
      BY <1>1, <3>1
    <3> HIDE DEF k, x, y
    <3>5. q * x + q <= q * y /\ q * x \in Nat /\ q * y \in Nat
      <4>1. x + 1 <= y
        BY <3>2, <3>3
      <4>2. q * (x + 1) <= q * y
        BY <3>3, <4>1
      <4> QED
        BY <3>3, <4>2
    <3>6. g[k] < h[k]
      BY <3>4, <3>5
    <3> QED
      BY <3>1, <3>6
  <2> HIDE DEF U
  <2>3. i - 1 \in Nat
    BY <1>3
  <2>4. i - 1 \in U
    BY <2>1, <2>2, <2>3, InductionUpTo
  <2>5. i - (i - 1) = 1
    OBVIOUS
  <2> QED
    BY <2>4, <2>5 DEF U
<1>4. i = 0 => i + 1 = 1
  OBVIOUS
<1> QED
  BY <1>2, <1>3, <1>4

-----------------------------------------------------------------------------
(* Folds that read a numeral from its digits.                              *)

(* A set of numbers that is not empty has a minimum.                       *)
LEMMA MinInSet ==
  ASSUME NEW t \in SUBSET Nat, t # {}
  PROVE  Min(t) \in t
<1>1. IsWellFoundedOn(OpToRel(<, Nat), Nat)
  BY NatLessThanWellFounded
<1>2. PICK x \in t : \A y \in t : ~(<<y, x>> \in OpToRel(<, Nat))
  BY <1>1, WFMin
<1>3. \A y \in t : ~(y < x)
  BY <1>2 DEF OpToRel
<1>4. x \in Nat /\ \A y \in t : y \in Nat
  OBVIOUS
<1>5. \A y \in t : x <= y
  BY <1>3, <1>4
<1> QED
  BY <1>5 DEF Min

(* The sets of indices that a fold from the right goes through.            *)
LEMMA SuffixIndices ==
  ASSUME NEW m \in Nat, NEW k \in 1 .. m
  PROVE  /\ k .. m \in SUBSET (1 .. m) /\ k .. m # {}
         /\ Min(k .. m) = k /\ (k .. m) \ {k} = k + 1 .. m
<1>1. k \in k .. m /\ \A y \in k .. m : k <= y
  OBVIOUS
<1>2. \A x \in k .. m : (\A y \in k .. m : x <= y) => x = k
  BY <1>1
<1>3. Min(k .. m) = k
  BY <1>1, <1>2 DEF Min
<1> QED
  BY <1>1, <1>3

(* The equation that the definition of FoldRight chooses a solution of,    *)
(* when what it folds is Horner's rule.                                    *)
HornerFold(g, w, q) ==
  g = [t \in SUBSET DOMAIN w |->
         IF t = {} THEN 0 ELSE w[Min(t)] + q * g[t \ {Min(t)}]]

(* The community module's fold from the right is a function that exists.   *)
LEMMA HornerFoldExists ==
  ASSUME NEW m \in Nat, NEW q \in Nat, NEW w \in [1 .. m -> Nat]
  PROVE  \E g : HornerFold(g, w, q)
<1> DEFINE F == [x \in Nat \X Nat |-> x[2] + q * x[1]]
           pick == [t \in SUBSET (1 .. m) |-> Min(t)]
<1>1. \A x \in Nat, y \in Nat : F[<<x, y>>] = y + q * x
  OBVIOUS
<1>2. F \in [Nat \X Nat -> Nat]
  <2>1. ASSUME NEW x \in Nat \X Nat PROVE x[2] + q * x[1] \in Nat
    <3> DEFINE c == x[1]
               d == x[2]
    <3>1. c \in Nat /\ d \in Nat
      OBVIOUS
    <3> HIDE DEF c, d
    <3>2. d + q * c \in Nat
      BY <3>1
    <3> QED
      BY <3>2 DEF c, d
  <2> QED
    BY <2>1
<1> HIDE DEF F
<1>3. \A t \in SUBSET (1 .. m) : t # {} => pick[t] \in t /\ pick[t] = Min(t)
  BY MinInSet
<1>4. IsFiniteSet(1 .. m)
  BY FS_Interval
<1> HIDE DEF pick
<1>5. PICK g : IsFold(g, Nat, F, 0, w, 1 .. m, pick)
  BY <1>2, <1>3, <1>4, FoldExists
<1>6. \A t \in SUBSET (1 .. m) :
        g[t] = IF t = {} THEN 0 ELSE w[Min(t)] + q * g[t \ {Min(t)}]
  <2> SUFFICES ASSUME NEW t \in SUBSET (1 .. m), t # {}
               PROVE  g[t] = w[Min(t)] + q * g[t \ {Min(t)}]
    BY <1>5 DEF IsFold
  <2>1. g[t \ {Min(t)}] \in Nat /\ w[Min(t)] \in Nat
    BY <1>3, <1>5 DEF IsFold
  <2>2. g[t] = F[<<g[t \ {Min(t)}], w[Min(t)]>>]
    BY <1>3, <1>5 DEF IsFold
  <2> QED
    BY <1>1, <2>1, <2>2
<1>7. g = [t \in SUBSET (1 .. m) |-> g[t]] /\ DOMAIN w = 1 .. m
  BY <1>5 DEF IsFold
<1>8. HornerFold(g, w, q)
  BY <1>6, <1>7 DEF HornerFold
<1> QED
  BY <1>8

(* Its value on the indices from k on is what Horner's rule has reached.   *)
LEMMA HornerFoldIsHorner ==
  ASSUME NEW m \in Nat, NEW q \in Nat, NEW w \in [1 .. m -> Nat],
         NEW g, HornerFold(g, w, q)
  PROVE  \E h : IsHorner(h, w, q, m) /\ h[1] = g[DOMAIN w]
<1> DEFINE h == [k \in 1 .. m + 1 |-> g[k .. m]]
<1>1. \A t \in SUBSET (1 .. m) :
        g[t] = IF t = {} THEN 0 ELSE w[Min(t)] + q * g[t \ {Min(t)}]
  BY DEF HornerFold
<1>2. ASSUME NEW k \in 1 .. m PROVE h[k] = w[k] + q * h[k + 1]
  <2> DEFINE K == k .. m
  <2>1. /\ K \in SUBSET (1 .. m) /\ K # {} /\ Min(K) = k /\ K \ {k} = k + 1 .. m
    BY SuffixIndices
  <2>2. h[k] = g[K] /\ h[k + 1] = g[k + 1 .. m]
    OBVIOUS
  <2> HIDE DEF K, h
  <2>3. g[K] = w[k] + q * g[K \ {k}]
    BY <1>1, <2>1
  <2> QED
    BY <2>1, <2>2, <2>3
<1>3. h[m + 1] = 0
  <2>1. m + 1 .. m = {} /\ h[m + 1] = g[m + 1 .. m]
    OBVIOUS
  <2> QED
    BY <1>1, <2>1
<1>4. h[1] = g[DOMAIN w]
  OBVIOUS
<1> HIDE DEF h
<1>5. IsHorner(h, w, q, m)
  BY <1>2, <1>3 DEF IsHorner
<1> QED
  BY <1>4, <1>5

(* Named, for the sake of the lemma's citation.                            *)
IsQuotient(x, n, d) == x = n \div d

(* Dividing by the base as well divides the quotient.                      *)
LEMMA QuotientOfQuotient ==
  ASSUME NEW n \in Nat, NEW d \in Nat \ {0}, NEW q \in Nat \ {0},
         NEW x \in Nat, IsQuotient(x, n, d), NEW y \in Nat, IsQuotient(y, x, q),
         NEW e, e = q * d
  PROVE  IsQuotient(y, n, e)
<1>1. d * x <= n /\ n < d * x + d
  BY QuotientBounds DEF IsQuotient
<1>2. q * y <= x /\ x < q * y + q
  BY QuotientBounds DEF IsQuotient
<1> DEFINE qy == q * y
           qd == q * d
<1>3. qy \in Nat /\ qd \in Nat \ {0} /\ qd * y = d * qy
  BY SMT
<1>4. qd * y \in Nat /\ d * x \in Nat /\ qd * y + qd = d * (qy + q)
  BY <1>3
<1>5. qd * y <= d * x
  <2> HIDE DEF qy, qd
  <2>1. d * qy <= d * x
    BY <1>2, <1>3 DEF qy
  <2> QED
    BY <1>3, <2>1
<1>6. d * x + d <= qd * y + qd
  <2> HIDE DEF qd
  <2>1. x + 1 <= qy + q
    BY <1>2, <1>3
  <2> HIDE DEF qy
  <2>2. d * (x + 1) <= d * (qy + q)
    BY <1>3, <2>1
  <2>3. d * (x + 1) = d * x + d
    OBVIOUS
  <2> QED
    BY <1>4, <2>2, <2>3
<1> HIDE DEF qy, qd
<1>7. qd * y <= n /\ n < qd * y + qd
  BY <1>1, <1>3, <1>4, <1>5, <1>6
<1>8. n \div qd = y
  BY <1>3, <1>7, QuotientIsUnique
<1> QED
  BY <1>8 DEF qd, IsQuotient

(* The digits that division and remainder give are those of the number     *)
(* they are taken of.                                                      *)
LEMMA HornerOfDigits ==
  ASSUME NEW m \in Nat, NEW q \in Nat \ {0}, NEW p, ArePowers(p, q, m),
         NEW n \in Nat, n < p[m], NEW w, HasDigits(n, w, p, q, m),
         NEW h, IsHorner(h, w, q, m)
  PROVE  h[1] = n
<1> DEFINE T == {d \in 0 .. m : h[m + 1 - d] = n \div p[m - d]}
<1>1. \A k \in 0 .. m : p[k] \in Nat \ {0}
  BY DEF ArePowers
<1>2. 0 \in T
  <2>1. p[m] \in Nat \ {0}
    BY <1>1
  <2>2. n \div p[m] = 0
    <3> DEFINE d == p[m]
    <3>1. d \in Nat \ {0} /\ n < d /\ d * 0 = 0
      BY <2>1
    <3> HIDE DEF d
    <3>2. n \div d = 0
      BY <3>1, QuotientIsUnique
    <3> QED
      BY <3>2 DEF d
  <2>3. h[m + 1] = 0 /\ m + 1 - 0 = m + 1 /\ m - 0 = m
    BY DEF IsHorner
  <2> QED
    BY <2>2, <2>3
<1>3. ASSUME NEW e \in 0 .. m - 1, e \in T PROVE e + 1 \in T
  <2> DEFINE k == m - e
             d == p[k - 1]
             x == n \div d
             y == x \div q
  <2>1. /\ k \in 1 .. m /\ k - 1 \in 0 .. m /\ k - 1 \in 0 .. m - 1 /\ (k - 1) + 1 = k
        /\ m + 1 - e = k + 1 /\ m - e = k /\ m + 1 - (e + 1) = k /\ m - (e + 1) = k - 1
        /\ e + 1 \in 0 .. m
    OBVIOUS
  <2>2. h[k + 1] = n \div p[k] /\ h[k] = w[k] + q * h[k + 1] /\ w[k] = x % q
        /\ p[k] = q * d /\ d \in Nat \ {0}
    BY <1>1, <1>3, <2>1 DEF IsHorner, HasDigits, ArePowers
  <2> HIDE DEF k, d
  <2>3. x \in Nat
    BY <2>2
  <2> HIDE DEF x
  <2>4. y \in Nat
    BY <2>3
  <2>12. IsQuotient(x, n, d) /\ IsQuotient(y, x, q)
    BY DEF x, IsQuotient
  <2> HIDE DEF y
  <2>5. n \div p[k] = y
    <3> DEFINE z == p[k]
    <3>1. z = q * d /\ d \in Nat \ {0}
      BY <2>2
    <3> HIDE DEF z
    <3>2. IsQuotient(y, n, z)
      BY <2>3, <2>4, <2>12, <3>1, QuotientOfQuotient
    <3> QED
      BY <3>2 DEF z, IsQuotient
  <2> DEFINE r == x % q
  <2>6. r \in Nat
    BY <2>3
  <2>7. x = q * y + r
    BY <2>3, <2>4, <2>6, DivisionRule DEF y
  <2> HIDE DEF r
  <2>8. q * y \in Nat
    BY <2>4
  <2>9. h[k] = r + q * y
    BY <2>2, <2>5 DEF r
  <2>10. h[k] = x
    BY <2>3, <2>6, <2>7, <2>8, <2>9
  <2>11. h[m + 1 - (e + 1)] = n \div p[m - (e + 1)]
    BY <2>1, <2>10 DEF x, d
  <2> QED
    BY <2>1, <2>11
<1> HIDE DEF T
<1>4. m \in T
  BY <1>2, <1>3, InductionUpTo
<1>5. m + 1 - m = 1 /\ m - m = 0
  OBVIOUS
<1>6. h[1] = n \div p[0]
  BY <1>4, <1>5 DEF T
<1>7. p[0] = 1 /\ n \div 1 = n
  BY DEF ArePowers
<1> QED
  BY <1>6, <1>7

-----------------------------------------------------------------------------
(* Folds that join sequences of one length.                                *)

(* Where the elements of two sequences are once they are joined.           *)
LEMMA JoinedPlaces ==
  ASSUME NEW B, NEW s \in Seq(B), NEW w \in Seq(B)
  PROVE  /\ s \o w \in Seq(B) /\ Len(s \o w) = Len(s) + Len(w)
         /\ \A a \in 1 .. Len(s) : (s \o w)[a] = s[a]
         /\ \A b \in 1 .. Len(w) : (s \o w)[Len(s) + b] = w[b]
OBVIOUS

(* The equation that the definition of FoldLeft chooses a solution of,     *)
(* when what it folds joins sequences.                                     *)
JoinFold(g, v) ==
  g = [t \in SUBSET DOMAIN v |-> IF t = {} THEN <<>> ELSE g[t \ {Max(t)}] \o v[Max(t)]]

(* That fold is a function that exists.                                    *)
LEMMA JoinFoldExists ==
  ASSUME NEW B, NEW L \in Nat, NEW n \in Nat, NEW v \in [1 .. n -> [1 .. L -> B]]
  PROVE  \E g : JoinFold(g, v)
<1> DEFINE W == [1 .. L -> B]
           F == [x \in Seq(B) \X W |-> x[1] \o x[2]]
           pick == [t \in SUBSET (1 .. n) |-> Max(t)]
<1>1. \A s \in Seq(B), w \in W : F[<<s, w>>] = s \o w
  OBVIOUS
<1>2. F \in [Seq(B) \X W -> Seq(B)]
  <2>1. ASSUME NEW s \in Seq(B), NEW w \in W PROVE s \o w \in Seq(B)
    <3>1. w \in Seq(B)
      BY SeqDef
    <3> QED
      BY <3>1
  <2> QED
    BY <2>1
<1> HIDE DEF F
<1>3. \A t \in SUBSET (1 .. n) : t # {} => pick[t] \in t /\ pick[t] = Max(t)
  BY MaxInRange
<1>4. IsFiniteSet(1 .. n)
  BY FS_Interval
<1> HIDE DEF pick
<1>5. <<>> \in Seq(B)
  OBVIOUS
<1>6. v \in [1 .. n -> W]
  OBVIOUS
<1> HIDE DEF W
<1>7. PICK g : IsFold(g, Seq(B), F, <<>>, v, 1 .. n, pick)
  BY <1>2, <1>3, <1>4, <1>5, <1>6, FoldExists
<1>8. ASSUME NEW t \in SUBSET (1 .. n), t # {}
      PROVE  g[t] = g[t \ {Max(t)}] \o v[Max(t)]
  <2>1. g[t \ {Max(t)}] \in Seq(B) /\ v[Max(t)] \in W
    BY <1>3, <1>6, <1>7, <1>8 DEF IsFold
  <2>2. g[t] = F[<<g[t \ {Max(t)}], v[Max(t)]>>]
    BY <1>3, <1>7, <1>8 DEF IsFold
  <2> QED
    BY <1>1, <2>1, <2>2
<1>9. g[{}] = <<>>
  BY <1>7 DEF IsFold
<1>10. g = [t \in SUBSET (1 .. n) |-> g[t]] /\ DOMAIN v = 1 .. n
  BY <1>6, <1>7 DEF IsFold
<1>11. JoinFold(g, v)
  BY <1>8, <1>9, <1>10 DEF JoinFold
<1> QED
  BY <1>11

(* `s` is made of the first n parts of v, each of length L.                *)
HoldsParts(s, v, n, L, B) ==
  /\ s \in Seq(B) /\ Len(s) = n * L
  /\ \A j \in 1 .. n, b \in 1 .. L : s[(j - 1) * L + b] = v[j][b]

(* One part more.                                                          *)
LEMMA OneMorePart ==
  ASSUME NEW B, NEW L \in Nat \ {0}, NEW n \in Nat, NEW v \in [1 .. n -> [1 .. L -> B]],
         NEW k \in 0 .. n - 1, NEW s, HoldsParts(s, v, k, L, B)
  PROVE  HoldsParts(s \o v[k + 1], v, k + 1, L, B)
<1> DEFINE w == v[k + 1]
           u == s \o w
           kL == k * L
<1>1. kL \in Nat /\ (k + 1) * L = kL + L
  OBVIOUS
<1>2. w \in [1 .. L -> B]
  <2>1. k + 1 \in 1 .. n
    OBVIOUS
  <2> QED
    BY <2>1
<1> HIDE DEF w, kL
<1>3. w \in Seq(B) /\ Len(w) = L
  BY <1>2, SeqDef
<1>4. s \in Seq(B) /\ Len(s) = kL
  BY DEF HoldsParts, kL
<1>5. /\ u \in Seq(B) /\ Len(u) = kL + L
      /\ \A a \in 1 .. kL : u[a] = s[a]
      /\ \A b \in 1 .. L : u[kL + b] = w[b]
  <2>1. /\ u \in Seq(B) /\ Len(u) = Len(s) + Len(w)
        /\ \A a \in 1 .. Len(s) : u[a] = s[a]
        /\ \A b \in 1 .. Len(w) : u[Len(s) + b] = w[b]
    <3>1. s \in Seq(B) /\ w \in Seq(B)
      BY <1>3, <1>4
    <3> QED
      BY <3>1, JoinedPlaces
  <2> HIDE DEF u
  <2> QED
    BY <1>3, <1>4, <2>1
<1> HIDE DEF u
<1>6. ASSUME NEW j \in 1 .. k + 1, NEW b \in 1 .. L
      PROVE  u[(j - 1) * L + b] = v[j][b]
  <2>1. CASE j = k + 1
    <3>1. (j - 1) * L = kL
      BY <1>1, <2>1 DEF kL
    <3> QED
      BY <1>5, <2>1, <3>1 DEF w
  <2>2. CASE j # k + 1
    <3> DEFINE c == (j - 1) * L
    <3>1. j \in 1 .. k /\ c \in Nat /\ c + L <= kL
      <4>1. j \in 1 .. k /\ j - 1 \in Nat /\ (j - 1) + 1 <= k
        BY <2>2
      <4>2. c \in Nat /\ ((j - 1) + 1) * L = c + L
        BY <4>1
      <4>3. ((j - 1) + 1) * L <= kL
        BY <1>1, <4>1 DEF kL
      <4> QED
        BY <4>1, <4>2, <4>3
    <3>2. s[c + b] = v[j][b]
      BY <3>1 DEF HoldsParts
    <3> HIDE DEF c
    <3>3. c + b \in 1 .. kL
      BY <1>1, <3>1
    <3>4. u[c + b] = v[j][b]
      BY <1>5, <3>2, <3>3
    <3> QED
      BY <3>4 DEF c
  <2> QED
    BY <2>1, <2>2
<1> QED
  BY <1>1, <1>5, <1>6 DEF HoldsParts, u, w

(* All of them.                                                            *)
LEMMA JoinsEveryPart ==
  ASSUME NEW B, NEW L \in Nat \ {0}, NEW n \in Nat, NEW v \in [1 .. n -> [1 .. L -> B]],
         NEW g, JoinFold(g, v)
  PROVE  HoldsParts(g[1 .. n], v, n, L, B)
<1> DEFINE T == {k \in 0 .. n : HoldsParts(g[1 .. k], v, k, L, B)}
<1>1. \A t \in SUBSET (1 .. n) :
        g[t] = IF t = {} THEN <<>> ELSE g[t \ {Max(t)}] \o v[Max(t)]
  BY DEF JoinFold
<1>2. 0 \in T
  <2>1. 1 .. 0 = {} /\ {} \in SUBSET (1 .. n) /\ 0 \in 0 .. n /\ 0 * L = 0
    OBVIOUS
  <2>2. g[{}] = <<>>
    BY <1>1, <2>1
  <2>3. HoldsParts(<<>>, v, 0, L, B)
    BY <2>1 DEF HoldsParts
  <2> QED
    BY <2>1, <2>2, <2>3
<1>3. ASSUME NEW k \in 0 .. n - 1, k \in T PROVE k + 1 \in T
  <2> DEFINE K == 1 .. k + 1
  <2>1. K \in SUBSET (1 .. n) /\ K # {} /\ Max(K) = k + 1 /\ K \ {k + 1} = 1 .. k
    BY PrefixIndices
  <2> HIDE DEF K
  <2>2. g[K] = g[1 .. k] \o v[k + 1]
    BY <1>1, <2>1
  <2>3. HoldsParts(g[1 .. k], v, k, L, B) /\ k + 1 \in 0 .. n
    BY <1>3
  <2> HIDE DEF T
  <2>4. HoldsParts(g[1 .. k] \o v[k + 1], v, k + 1, L, B)
    BY <2>3, OneMorePart
  <2> QED
    BY <2>2, <2>3, <2>4 DEF T, K
<1> HIDE DEF T
<1>4. n \in T
  BY <1>2, <1>3, InductionUpTo
<1> QED
  BY <1>4 DEF T

PartAt(s, j, L) == SubSeq(s, (j - 1) * L + 1, j * L)

(* Each part is where it was put.                                          *)
LEMMA PartIsThere ==
  ASSUME NEW B, NEW L \in Nat \ {0}, NEW n \in Nat, NEW v \in [1 .. n -> [1 .. L -> B]],
         NEW s, HoldsParts(s, v, n, L, B), NEW j \in 1 .. n
  PROVE  PartAt(s, j, L) = v[j]
<1> DEFINE a == (j - 1) * L
           z == j * L
           t == SubSeq(s, a + 1, z)
           w == v[j]
<1>1. a \in Nat /\ z = a + L
  OBVIOUS
<1>2. z <= n * L
  <2>1. n - j \in Nat /\ (n - j) * L = n * L - z
    OBVIOUS
  <2>2. (n - j) * L \in Nat
    BY <2>1
  <2> DEFINE nL == n * L
             rL == (n - j) * L
  <2>3. nL \in Nat /\ rL = nL - z /\ rL \in Nat
    BY <2>1, <2>2
  <2> HIDE DEF nL, rL, z, a
  <2>4. z <= nL
    BY <1>1, <2>3
  <2> QED
    BY <2>4 DEF nL
<1>3. s \in Seq(B) /\ Len(s) = n * L
  BY DEF HoldsParts
<1>4. \A b \in 1 .. L : s[a + b] = w[b]
  BY DEF HoldsParts
<1>5. w = [b \in 1 .. L |-> w[b]]
  OBVIOUS
<1> DEFINE nL == n * L
<1>6. nL \in Nat /\ Len(s) = nL /\ z <= nL
  BY <1>2, <1>3
<1> HIDE DEF a, z, w, nL
<1>7. t = [b \in 1 .. L |-> s[a + b]]
  <2>1. t \in Seq(B) /\ Len(t) = L /\ \A b \in 1 .. L : t[b] = s[a + b]
    BY <1>1, <1>3, <1>6
  <2> HIDE DEF t
  <2>2. t \in [1 .. L -> B]
    BY <2>1
  <2>3. t = [b \in 1 .. L |-> t[b]]
    BY <2>2
  <2> QED
    BY <2>1, <2>3
<1> HIDE DEF t
<1>8. t = w
  BY <1>4, <1>5, <1>7
<1> QED
  BY <1>8 DEF PartAt, t, w, a, z

-----------------------------------------------------------------------------
(* Encoders and decoders of points.                                        *)

(* A triple of a point of the curve stands for it and no other.            *)
LEMMA TriplesStand ==
  ASSUME NEW P \in E, NEW j \in Triples(P)
  PROVE  j \in Jacobians /\ ToAffine(j) = P
BY JacobianAssumption DEF Triples, Jacobians

(* Points are pairs of field elements, and infinity has no curve           *)
(* coordinates.                                                            *)
LEMMA PointsArePairs ==
  ASSUME NEW P \in E
  PROVE  /\ P[1] \in Field /\ P[2] \in Field /\ P = <<P[1], P[2]>>
         /\ P[1] \in Words /\ P[2] \in Words
         /\ P # Inf => P \in Curve
BY FieldAssumption DEF E, Inf

(* Distinct points have distinct compressed encodings: the sort bit tells  *)
(* the two points with one x-coordinate apart.                             *)
LEMMA CompressInjective ==
  ASSUME NEW P \in E, NEW Q \in E, Compress(P) = Compress(Q)
  PROVE  P = Q
<1>1. /\ (P = Inf) <=> (Q = Inf)
      /\ (P # Inf /\ Larger(P[2])) <=> (Q # Inf /\ Larger(Q[2]))
      /\ P[1] = Q[1]
  BY DEF Compress
<1>2. CASE P = Inf
  BY <1>1, <1>2
<1>3. CASE P # Inf
  <2>1. P \in Curve /\ Q \in Curve
    BY <1>1, <1>3, PointsArePairs
  <2> QED
    BY <1>1, <1>3, <2>1, SignAssumption
<1> QED
  BY <1>2, <1>3

(* The choice among the points that an encoding names is no choice.        *)
LEMMA NamedIsUnique ==
  ASSUME NEW b, NEW P \in Named(b)
  PROVE  (CHOOSE Q \in Named(b) : TRUE) = P
<1>1. \A Q \in Named(b) : Q = P
  BY SignAssumption DEF Named
<1> QED
  BY <1>1

(* What blst_p1_uncompress decodes is a point, and its compressed encoding *)
(* is the input.                                                           *)
LEMMA UncompressSound ==
  ASSUME NEW b \in CompressedBytes,
         Uncompress(b).err \in {"SUCCESS", "POINT_NOT_IN_GROUP"}
  PROVE  /\ Uncompress(b).out \in E
         /\ Uncompress(b) = Decoded(Uncompress(b).out)
         /\ Compress(Uncompress(b).out) = b
<1>1. b = [comp |-> b.comp, inf |-> b.inf, sort |-> b.sort, x |-> b.x]
      /\ b.comp \in BOOLEAN /\ b.inf \in BOOLEAN /\ b.sort \in BOOLEAN
  BY DEF CompressedBytes
<1>2. b.comp
  BY <1>1 DEF Uncompress, Failed
<1>3. CASE b.inf
  <2>1. ~b.sort /\ b.x = Zero /\ Uncompress(b) = Decoded(Inf)
    BY <1>1, <1>2, <1>3 DEF Uncompress, Failed
  <2>2. Compress(Inf) = [comp |-> TRUE, inf |-> TRUE, sort |-> FALSE, x |-> Zero]
    BY DEF Compress, Inf
  <2>3. Compress(Inf) = b
    BY <1>1, <1>2, <1>3, <2>1, <2>2
  <2> QED
    BY <2>1, <2>3 DEF Decoded, E
<1>4. CASE ~b.inf
  <2>1. b.x \in Field /\ Named(b) # {}
    BY <1>1, <1>2, <1>4 DEF Uncompress, Failed
  <2>2. PICK P \in Named(b) : TRUE
    BY <2>1
  <2>3. Uncompress(b) = Decoded(P)
    BY <1>1, <1>2, <1>4, <2>1, <2>2, NamedIsUnique DEF Uncompress
  <2>4. P \in Curve /\ P[1] = b.x /\ (Larger(P[2]) <=> b.sort) /\ P # Inf
    BY <2>2, FieldAssumption DEF Named
  <2>5. P[2] \in Field /\ Larger(P[2]) \in BOOLEAN
    BY <2>4, PointsArePairs, SignAssumption DEF E
  <2>6. Compress(P) = [comp |-> TRUE, inf |-> FALSE, sort |-> b.sort, x |-> b.x]
    BY <1>1, <2>4, <2>5 DEF Compress
  <2>7. b.comp = TRUE /\ b.inf = FALSE
    BY <1>1, <1>2, <1>4
  <2>8. Compress(P) = b
    BY <1>1, <2>6, <2>7
  <2>9. Uncompress(b).out = P
    BY <2>3 DEF Decoded
  <2> QED
    BY <2>3, <2>4, <2>8, <2>9 DEF E
<1> QED
  BY <1>1, <1>3, <1>4

(* Every point is decoded from its compressed encoding.                    *)
LEMMA UncompressComplete ==
  ASSUME NEW P \in E
  PROVE  /\ Compress(P) \in CompressedBytes
         /\ Uncompress(Compress(P)) = Decoded(P)
<1>1. P[1] \in Field /\ P[1] \in Words /\ Larger(P[2]) \in BOOLEAN
  BY PointsArePairs, SignAssumption
<1>2. Compress(P) \in CompressedBytes
  BY <1>1 DEF Compress, CompressedBytes
<1>3. CASE P = Inf
  <2>1. Compress(P) =
          [comp |-> TRUE, inf |-> TRUE, sort |-> FALSE, x |-> Zero]
    BY <1>3 DEF Compress, Inf
  <2>2. Uncompress(Compress(P)) = Decoded(Inf)
    BY <2>1 DEF Uncompress
  <2> QED
    BY <1>2, <1>3, <2>2
<1>4. CASE P # Inf
  <2>1. P \in Named(Compress(P))
    BY <1>1, <1>4, PointsArePairs DEF Named, Compress
  <2>2. (CHOOSE Q \in Named(Compress(P)) : TRUE) = P
    BY <2>1, NamedIsUnique
  <2>3. /\ Compress(P).comp = TRUE /\ Compress(P).inf = FALSE
        /\ Compress(P).x = P[1]
    BY <1>4 DEF Compress
  <2> QED
    BY <1>1, <1>2, <2>1, <2>2, <2>3 DEF Uncompress
<1> QED
  BY <1>2, <1>3, <1>4

(* What gets through the flag guard and blst_p1_deserialize is a point     *)
(* whose uncompressed encoding is the input.                               *)
LEMMA DeserializeSound ==
  ASSUME NEW b \in UncompressedBytes,
         GuardedDeserialize(b).err \in {"SUCCESS", "POINT_NOT_IN_GROUP"}
  PROVE  /\ GuardedDeserialize(b).out \in E
         /\ GuardedDeserialize(b) = Decoded(GuardedDeserialize(b).out)
         /\ Serialize(GuardedDeserialize(b).out) = b
<1>1. /\ b = [comp |-> b.comp, inf |-> b.inf, sort |-> b.sort,
              x |-> b.x, y |-> b.y]
      /\ b.comp \in BOOLEAN /\ b.inf \in BOOLEAN /\ b.sort \in BOOLEAN
  BY DEF UncompressedBytes
<1>2. ~b.comp /\ ~b.sort /\ GuardedDeserialize(b) = Deserialize(b)
  BY <1>1 DEF GuardedDeserialize, HasValidUncompressedFlags, Failed
<1>3. CASE b.inf
  <2>1. b.x = Zero /\ b.y = Zero /\ Deserialize(b) = Decoded(Inf)
    BY <1>1, <1>2, <1>3 DEF Deserialize, Failed
  <2>2. b.comp = FALSE /\ b.inf = TRUE /\ b.sort = FALSE
    BY <1>1, <1>2, <1>3
  <2>3. Serialize(Inf) = b
    BY <1>1, <2>1, <2>2 DEF Serialize, Inf
  <2> QED
    BY <1>2, <2>1, <2>3 DEF Decoded, E
<1>4. CASE ~b.inf
  <2>1. <<b.x, b.y>> \in Curve /\ Deserialize(b) = Decoded(<<b.x, b.y>>)
    BY <1>1, <1>2, <1>4 DEF Deserialize, Failed
  <2>2. <<b.x, b.y>> # Inf
    BY <2>1, FieldAssumption
  <2> QED
    BY <1>1, <1>2, <1>4, <2>1, <2>2 DEF Decoded, Serialize, E
<1> QED
  BY <1>1, <1>3, <1>4

(* Every point is decoded from its uncompressed encoding.                  *)
LEMMA DeserializeComplete ==
  ASSUME NEW P \in E
  PROVE  /\ Serialize(P) \in UncompressedBytes
         /\ GuardedDeserialize(Serialize(P)) = Decoded(P)
<1>1. /\ P[1] \in Field /\ P[1] \in Words /\ P[2] \in Field /\ P[2] \in Words
      /\ P = <<P[1], P[2]>>
  BY PointsArePairs
<1>2. Serialize(P) \in UncompressedBytes
  BY <1>1 DEF Serialize, UncompressedBytes
<1>3. GuardedDeserialize(Serialize(P)) = Deserialize(Serialize(P))
  BY DEF GuardedDeserialize, HasValidUncompressedFlags, Serialize
<1>4. CASE P = Inf
  BY <1>2, <1>3, <1>4 DEF Serialize, Deserialize, Inf
<1>5. CASE P # Inf
  <2>1. P \in Curve
    BY <1>5, PointsArePairs
  <2>2. Deserialize(Serialize(P)) = Decoded(<<P[1], P[2]>>)
    BY <1>1, <1>5, <2>1 DEF Serialize, Deserialize
  <2> QED
    BY <1>1, <1>2, <1>3, <2>2
<1> QED
  BY <1>4, <1>5

-----------------------------------------------------------------------------
(* The decoders.                                                           *)

(* A decoded point has a result code both kinds of decoder understand: a   *)
(* subgroup point with x = 0 cannot be reported, as the checked decoders   *)
(* need, and the unchecked ones accept every code a point may have.        *)
LEMMA DecodedCodes ==
  ASSUME NEW P \in E
  PROVE  /\ Decoded(P).out = P
         /\ Decoded(P).err \in {"SUCCESS", "POINT_NOT_IN_GROUP"}
         /\ UncheckedDecodeSucceeded(Decoded(P).err)
         /\ P \in Subgroup => Decoded(P).err = "SUCCESS"
BY NameAssumption, PointsArePairs, SubgroupAssumption
   DEF Decoded, UncheckedDecodeSucceeded

(* The two checked decoders of compressed bytes accept the encodings of    *)
(* subgroup points and nothing else, and return the point encoded.         *)
LEMMA CheckedCompressedExact ==
  ASSUME NEW b \in CompressedBytes,
         NEW o \in {FromBytes(b), SerializableFromBytes(b)}
  PROVE  /\ o.is_some \in BOOLEAN
         /\ o.is_some <=> \E P \in Subgroup : Compress(P) = b
         /\ o.is_some => o.value \in Subgroup /\ Compress(o.value) = b
<1> DEFINE d == Uncompress(b)
<1>1. /\ o.is_some \in BOOLEAN
      /\ o.is_some <=> d.err = "SUCCESS" /\ d.out \in Subgroup
      /\ o.is_some => o.value = d.out
  <2>1. CASE o = FromBytes(b)
    BY <2>1 DEF FromBytes, CtOption, AffineInGroup
  <2>2. CASE o = SerializableFromBytes(b)
    <3>1. CASE d.err = "SUCCESS" /\ d.out \in Subgroup
      BY <2>2, <3>1 DEF SerializableFromBytes, CtOption, AffineInGroup
    <3>2. CASE ~(d.err = "SUCCESS" /\ d.out \in Subgroup)
      <4>1. o = Err
        BY <2>2, <3>2 DEF SerializableFromBytes, AffineInGroup
      <4> QED
        BY <3>2, <4>1 DEF Err, CtOption
    <3> QED
      BY <3>1, <3>2
  <2> QED
    BY <2>1, <2>2
<1>2. o.is_some => d.out \in Subgroup /\ Compress(d.out) = b
  BY <1>1, UncompressSound
<1>3. ASSUME NEW P \in Subgroup, Compress(P) = b
      PROVE  o.is_some
  BY <1>1, <1>3, UncompressComplete, DecodedCodes, SubgroupAssumption
<1> QED
  BY <1>1, <1>2, <1>3

(* The unchecked decoder of compressed bytes: the same for the whole curve.*)
LEMMA UncheckedCompressedExact ==
  ASSUME NEW b \in CompressedBytes
  PROVE  LET o == FromBytesUnchecked(b)
         IN  /\ o.is_some \in BOOLEAN
             /\ o.is_some <=> \E P \in E : Compress(P) = b
             /\ o.is_some => o.value \in E /\ Compress(o.value) = b
<1> DEFINE d == Uncompress(b)
           o == FromBytesUnchecked(b)
<1>1. /\ o.is_some <=> UncheckedDecodeSucceeded(d.err)
      /\ o.value = d.out
      /\ o.is_some \in BOOLEAN
  BY DEF FromBytesUnchecked, CtOption, UncheckedDecodeSucceeded
<1>2. o.is_some => d.out \in E /\ Compress(d.out) = b
  BY <1>1, UncompressSound DEF UncheckedDecodeSucceeded
<1>3. ASSUME NEW P \in E, Compress(P) = b
      PROVE  o.is_some
  BY <1>1, <1>3, UncompressComplete, DecodedCodes
<1> QED
  BY <1>1, <1>2, <1>3

(* The checked decoder of uncompressed bytes.                              *)
LEMMA CheckedUncompressedExact ==
  ASSUME NEW b \in UncompressedBytes
  PROVE  LET o == FromUncompressed(b)
         IN  /\ o.is_some \in BOOLEAN
             /\ o.is_some <=> \E P \in Subgroup : Serialize(P) = b
             /\ o.is_some => o.value \in Subgroup /\ Serialize(o.value) = b
<1> DEFINE d == GuardedDeserialize(b)
           o == FromUncompressed(b)
<1>1. /\ o.is_some <=> d.err = "SUCCESS" /\ d.out \in Subgroup
      /\ o.value = d.out
      /\ o.is_some \in BOOLEAN
  BY DEF FromUncompressed, CtOption, AffineInGroup
<1>2. o.is_some => d.out \in Subgroup /\ Serialize(d.out) = b
  BY <1>1, DeserializeSound
<1>3. ASSUME NEW P \in Subgroup, Serialize(P) = b
      PROVE  o.is_some
  BY <1>1, <1>3, DeserializeComplete, DecodedCodes, SubgroupAssumption
<1> QED
  BY <1>1, <1>2, <1>3

(* The unchecked decoder of uncompressed bytes.                            *)
LEMMA UncheckedUncompressedExact ==
  ASSUME NEW b \in UncompressedBytes
  PROVE  LET o == FromUncompressedUnchecked(b)
         IN  /\ o.is_some \in BOOLEAN
             /\ o.is_some <=> \E P \in E : Serialize(P) = b
             /\ o.is_some => o.value \in E /\ Serialize(o.value) = b
<1> DEFINE d == GuardedDeserialize(b)
           o == FromUncompressedUnchecked(b)
<1>1. /\ o.is_some <=> UncheckedDecodeSucceeded(d.err)
      /\ o.value = d.out
      /\ o.is_some \in BOOLEAN
  BY DEF FromUncompressedUnchecked, CtOption, UncheckedDecodeSucceeded
<1>2. o.is_some => d.out \in E /\ Serialize(d.out) = b
  BY <1>1, DeserializeSound DEF UncheckedDecodeSucceeded
<1>3. ASSUME NEW P \in E, Serialize(P) = b
      PROVE  o.is_some
  BY <1>1, <1>3, DeserializeComplete, DecodedCodes
<1> QED
  BY <1>1, <1>2, <1>3

(* The raw form, infinity's flag included, gives every point back.         *)
LEMMA RawRoundTrip ==
  ASSUME NEW P \in E
  PROVE  /\ ToRawBytes(P) \in RawBytes
         /\ FromSliceUnchecked(ToRawBytes(P)) = P
BY PointsArePairs, FieldAssumption
   DEF ToRawBytes, RawBytes, FromSliceUnchecked, AffineIsInf

(* Distinct points have distinct uncompressed encodings.                   *)
LEMMA SerializeInjective ==
  ASSUME NEW P \in E, NEW Q \in E, Serialize(P) = Serialize(Q)
  PROVE  P = Q
<1>1. P[1] = Q[1] /\ P[2] = Q[2]
  BY DEF Serialize
<1> QED
  BY <1>1, PointsArePairs

-----------------------------------------------------------------------------
(* G2Prepared and the stored forms.                                        *)

(* The check of a G2Prepared, with its flag, canonicity, curve and identity*)
(* conditions, holds of the raw bytes of points and of no others.          *)
LEMMA PreparedCheckExact ==
  ASSUME NEW b \in ArchivedPrepared
  PROVE  LET o == PreparedFromBytesChecked(b)
         IN  /\ o.is_some \in BOOLEAN
             /\ o.is_some <=> \E P \in E : ToRawBytes(P) = b
             /\ o.is_some => o.value \in E /\ ToRawBytes(o.value) = b
<1> DEFINE o == PreparedFromBytesChecked(b)
<1>1. /\ o.is_some = PreparedBytesAreValid(b)
      /\ o.value = FromSliceUnchecked(b)
      /\ o.is_some \in BOOLEAN
  BY DEF PreparedFromBytesChecked, CtOption, PreparedBytesAreValid, IsCanonical,
         OnCurve, AffineIsInf
<1>2. b = [x |-> b.x, y |-> b.y, flag |-> b.flag]
  BY DEF ArchivedPrepared
<1>3. ASSUME PreparedBytesAreValid(b)
      PROVE  FromSliceUnchecked(b) \in E /\ ToRawBytes(FromSliceUnchecked(b)) = b
  <2>1. CASE b.flag # 0
    <3>1. b = ToRawBytes(Inf) /\ Inf \in E
      BY <1>3, <2>1 DEF PreparedBytesAreValid, E
    <3> QED
      BY <3>1, RawRoundTrip
  <2>2. CASE b.flag = 0
    <3>1. /\ FromSliceUnchecked(b) = <<b.x, b.y>>
          /\ b.x \in Field /\ b.y \in Field
          /\ OnCurve(<<b.x, b.y>>) /\ <<b.x, b.y>> # Inf
      BY <1>3, <2>2
         DEF PreparedBytesAreValid, FromSliceUnchecked, IsCanonical, AffineIsInf
    <3>2. <<b.x, b.y>> \in Curve
      BY <3>1, ReducedAssumption DEF OnCurve
    <3>3. ToRawBytes(<<b.x, b.y>>) = [x |-> b.x, y |-> b.y, flag |-> 0]
      BY <3>1 DEF ToRawBytes, AffineIsInf
    <3> QED
      BY <1>2, <2>2, <3>1, <3>2, <3>3 DEF E
  <2> QED
    BY <2>1, <2>2
<1>4. ASSUME NEW P \in E, ToRawBytes(P) = b
      PROVE  PreparedBytesAreValid(b)
  <2>1. FromSliceUnchecked(b) = P
    BY <1>4, RawRoundTrip
  <2>2. CASE P = Inf
    BY <1>4, <2>2 DEF PreparedBytesAreValid, ToRawBytes, AffineIsInf
  <2>3. CASE P # Inf
    <3>1. b.flag = 0 /\ b.x = P[1] /\ b.y = P[2]
      BY <1>4, <2>3 DEF ToRawBytes, AffineIsInf
    <3>2. P \in Curve /\ P[1] \in Field /\ P[2] \in Field /\ P = <<P[1], P[2]>>
      BY <2>3, PointsArePairs
    <3>3. OnCurve(P)
      BY <3>2, ReducedAssumption DEF OnCurve
    <3> QED
      BY <2>1, <2>3, <3>1, <3>2, <3>3
         DEF PreparedBytesAreValid, IsCanonical, AffineIsInf
  <2> QED
    BY <2>2, <2>3
<1> QED
  BY <1>1, <1>3, <1>4

(* What has the type of the bytes of each stored form.                     *)
StoredBytes(t) == IF t = "prepared" THEN ArchivedPrepared ELSE CompressedBytes

(* Every point can be stored in every form, no two of them as the same     *)
(* bytes.                                                                  *)
LEMMA StoredFormsAreInjective ==
  ASSUME NEW t, NEW P \in E
  PROVE  /\ ToStored(t, P) \in StoredBytes(t)
         /\ \A Q \in E : ToStored(t, P) = ToStored(t, Q) => P = Q
<1>1. CASE t = "prepared"
  <2>1. RawBytes \subseteq ArchivedPrepared
    BY FieldAssumption, FlagsAssumption DEF RawBytes, ArchivedPrepared
  <2>2. \A Q \in E : ToStored(t, Q) = ToRawBytes(Q)
    BY <1>1 DEF ToStored
  <2> QED
    BY <1>1, <2>1, <2>2, RawRoundTrip DEF StoredBytes
<1>2. CASE t # "prepared"
  BY <1>2, UncompressComplete, CompressInjective DEF ToStored, ToBytes, StoredBytes
<1> QED
  BY <1>1, <1>2

(* Reading a stored form accepts what was stored for a point that the form *)
(* vouches for and nothing else, and gives that point back.                *)
LEMMA FromStoredExact ==
  ASSUME NEW t \in {"affine", "prepared", "prepared serde"},
         NEW b \in StoredBytes(t)
  PROVE  LET o == FromStored(t, b)
         IN  /\ o.is_some \in BOOLEAN
             /\ o.is_some <=> \E P \in Vouched(t) : b = ToStored(t, P)
             /\ o.is_some => o.value \in E /\ ToStored(t, o.value) = b
<1>1. CASE t = "prepared"
  <2>1. FromStored(t, b) = PreparedFromBytesChecked(b)
    BY <1>1 DEF FromStored
  <2> QED
    BY <1>1, <2>1, PreparedCheckExact DEF Vouched, ToStored, StoredBytes
<1>2. CASE t # "prepared"
  <2>1. FromStored(t, b) \in {FromBytes(b), SerializableFromBytes(b)}
    BY <1>2 DEF FromStored
  <2>2. b \in CompressedBytes
    BY <1>2 DEF StoredBytes
  <2> DEFINE o == FromStored(t, b)
  <2>3. /\ o.is_some \in BOOLEAN
        /\ o.is_some <=> \E P \in Subgroup : Compress(P) = b
        /\ o.is_some => o.value \in Subgroup /\ Compress(o.value) = b
    BY <2>1, <2>2, CheckedCompressedExact
  <2> HIDE DEF o
  <2>4. \A P \in E : ToStored(t, P) = Compress(P)
    BY <1>2 DEF ToStored, ToBytes
  <2>5. Vouched(t) = Subgroup /\ Subgroup \subseteq E
    BY <1>2, SubgroupAssumption DEF Vouched
  <2>6. o.is_some <=> \E P \in Vouched(t) : b = ToStored(t, P)
    BY <2>3, <2>4, <2>5
  <2> QED
    BY <2>3, <2>4, <2>5, <2>6 DEF o
<1> QED
  BY <1>1, <1>2

-----------------------------------------------------------------------------
(* Exponents of elements of GtGroup, to the base of the generator.         *)

(* Elements of the group are non-zero elements of the field.               *)
LEMMA GroupInUnits == GtGroup \subseteq Units /\ Units \subseteq Fp12
BY TowerAssumption DEF Units

(* Every element has one exponent.                                         *)
LEMMA LogIsExponent ==
  ASSUME NEW v \in GtGroup
  PROVE  /\ Log(v) \in GtScalars /\ Pow(GtGen, Log(v)) = v
         /\ \A e \in GtScalars : Pow(GtGen, e) = v => Log(v) = e
BY LogAssumption DEF Log

(* Sums of scalars, reduced, are scalars.                                  *)
LEMMA ReducedIsScalar ==
  ASSUME NEW n \in Int
  PROVE  n % GtOrder \in GtScalars
BY PowAssumption DEF GtScalars

(* The exponent of a product is the sum of the exponents.                  *)
LEMMA LogOfProduct ==
  ASSUME NEW v \in GtGroup, NEW w \in GtGroup
  PROVE  Log(FMul(v, w)) = (Log(v) + Log(w)) % GtOrder
<1> DEFINE e == (Log(v) + Log(w)) % GtOrder
<1>1. /\ Log(v) \in GtScalars /\ Pow(GtGen, Log(v)) = v
      /\ Log(w) \in GtScalars /\ Pow(GtGen, Log(w)) = w
  BY LogIsExponent
<1>2. e \in GtScalars
  BY <1>1, ReducedIsScalar DEF GtScalars
<1>3. Pow(GtGen, e) = FMul(v, w)
  BY <1>1, LogAssumption
<1>4. FMul(v, w) \in GtGroup
  BY GtAssumption
<1> HIDE DEF e
<1>5. Log(FMul(v, w)) = e
  BY <1>2, <1>3, <1>4, LogIsExponent
<1> QED
  BY <1>5 DEF e

(* One has exponent zero, the generator one; of a group of one element     *)
(* they are the same.                                                      *)
LEMMA LogOfConstants ==
  Log(GtIdentity) = 0 /\ Log(FinalExp(FOne)) = 0 /\ Log(GtGenerator) = 1 % GtOrder
<1>1. GtOrder \in Nat \ {0} /\ 0 \in GtScalars
  BY PowAssumption DEF GtScalars
<1>2. Pow(GtGen, 0) = FOne /\ FOne \in GtGroup /\ GtGen \in GtGroup
  BY PowAssumption, GtAssumption, TowerAssumption
<1>3. Log(FOne) = 0
  BY <1>1, <1>2, LogIsExponent
<1>4. Log(GtGen) = 1 % GtOrder
  <2>1. CASE GtOrder = 1
    <3>1. Log(GtGen) \in GtScalars /\ 1 % GtOrder = 0
      BY <1>2, <2>1, LogIsExponent
    <3> QED
      BY <2>1, <3>1 DEF GtScalars
  <2>2. CASE GtOrder # 1
    <3>1. 1 \in GtScalars /\ 0 + 1 \in GtScalars /\ 1 % GtOrder = 1
      BY <1>1, <2>2 DEF GtScalars
    <3>2. Log(GtGen) \in GtScalars /\ Pow(GtGen, Log(GtGen)) = GtGen
      BY <1>2, LogIsExponent
    <3>3. (0 + Log(GtGen)) % GtOrder = Log(GtGen)
      BY <1>1, <3>2 DEF GtScalars
    <3>4. FMul(FOne, GtGen) = GtGen
      BY <1>1, <1>2, <3>2, <3>3, LogAssumption
    <3>5. Pow(GtGen, 0 + 1) = FMul(Pow(GtGen, 0), GtGen)
      BY <1>1, <1>2, <3>1, PowAssumption
    <3>6. Pow(GtGen, 1) = GtGen
      BY <1>2, <3>4, <3>5
    <3> QED
      BY <1>2, <3>1, <3>6, LogIsExponent
  <2> QED
    BY <2>1, <2>2
<1> QED
  BY <1>3, <1>4, FinalExpAssumption DEF GtIdentity, GtGenerator

(* Conjugation negates the exponent.                                       *)
LEMMA LogOfConjugate ==
  ASSUME NEW v \in GtGroup
  PROVE  Log(FConj(v)) = (GtOrder - Log(v)) % GtOrder
<1> DEFINE a == Log(v)
           b == Log(FConj(v))
<1>1. FConj(v) \in GtGroup /\ FMul(v, FConj(v)) = FOne
  BY GtAssumption, ConjugateAssumption, TowerAssumption
<1>2. a \in GtScalars /\ b \in GtScalars
  BY <1>1, LogIsExponent
<1>3. (a + b) % GtOrder = 0
  BY <1>1, LogOfProduct, LogOfConstants DEF GtIdentity
<1> HIDE DEF a, b
<1>4. GtOrder \in Nat \ {0} /\ a \in Nat /\ b \in Nat /\ a < GtOrder /\ b < GtOrder
  BY <1>2, PowAssumption DEF GtScalars
<1>5. CASE a = 0
  <2>1. b = 0
    BY <1>3, <1>4, <1>5, SmallRemainders
  <2>2. GtOrder % GtOrder = 0
    BY <1>4, SmallRemainders
  <2> QED
    BY <1>4, <1>5, <2>1, <2>2 DEF a, b
<1>6. CASE a # 0
  <2>1. a + b \in Nat /\ a + b < 2 * GtOrder
    BY <1>4
  <2>2. a + b = GtOrder
    BY <1>3, <1>4, <1>6, <2>1, SmallRemainders
  <2>3. (GtOrder - a) % GtOrder = GtOrder - a
    BY <1>4, <1>6, NegativeRemainder
  <2> QED
    BY <1>4, <2>2, <2>3 DEF a, b
<1> QED
  BY <1>5, <1>6

-----------------------------------------------------------------------------
(* The pairing functions, over terms of points of the two subgroups.       *)

Pairable == G1Points \X G2Points

(* Two folds over terms, the one of Exponents and the one of MillerLoopN:  *)
(* `m` says which.                                                         *)
TermStep(m, v, t) ==
  IF m = "loop" THEN FMul(v, MillerTerm(t[1], t[2]))
                ELSE (v + Dlog1(t[1]) * Dlog2(t[2])) % GtOrder
TermBase(m) == IF m = "loop" THEN FOne ELSE 0
TermValues(m) == IF m = "loop" THEN Units ELSE GtScalars

(* The equation that the definition of FoldLeft chooses a solution of.     *)
TermFold(m, g, s) ==
  g = [t \in SUBSET DOMAIN s |->
         IF t = {} THEN TermBase(m)
                   ELSE TermStep(m, g[t \ {Max(t)}], s[Max(t)])]

(* MillerLoopN folds over the indices of its two slices instead.           *)
Indices(s) == [i \in DOMAIN G1Side(s) |-> i]
MillerFold(g, s) ==
  g = [t \in SUBSET DOMAIN Indices(s) |->
         IF t = {} THEN FOne
         ELSE FMul(g[t \ {Max(t)}], MillerTerm(G1Side(s)[Indices(s)[Max(t)]],
                                               G2Side(s)[Indices(s)[Max(t)]]))]

(* The sum of exponents is what some fold over the terms gives.            *)
LEMMA ExponentsIsFold ==
  ASSUME NEW s
  PROVE  Exponents(s) = (CHOOSE g : TermFold("exponent", g, s))[DOMAIN s]
BY DEF Exponents, FoldLeft, MapThenFoldSet, TermFold, TermStep, TermBase

(* A Miller loop over some terms is what such a fold gives.                *)
LEMMA MillerIsFold ==
  ASSUME NEW s \in Seq(Pairable), s # <<>>
  PROVE  /\ MultiMillerLoop(s) = MillerLoopN(G2Side(s), G1Side(s))
         /\ MultiMillerLoop(s) = (CHOOSE g : MillerFold(g, s))[DOMAIN Indices(s)]
<1>1. G1Side(s) # <<>>
  <2>1. DOMAIN G1Side(s) = DOMAIN s
    BY DEF G1Side
  <2>2. Len(s) \in Nat /\ Len(s) # 0 /\ DOMAIN s = 1 .. Len(s)
    OBVIOUS
  <2>3. 1 \in DOMAIN G1Side(s)
    BY <2>1, <2>2
  <2>4. 1 \notin DOMAIN <<>>
    OBVIOUS
  <2> QED
    BY <2>3, <2>4
<1>2. MultiMillerLoop(s) = MillerLoopN(G2Side(s), G1Side(s))
  BY DEF MultiMillerLoop
<1>3. MillerLoopN(G2Side(s), G1Side(s)) =
        FoldLeftDomain(LAMBDA v, i : FMul(v, MillerTerm(G1Side(s)[i], G2Side(s)[i])),
                       FOne, G1Side(s))
  BY <1>1 DEF MillerLoopN
<1> QED
  BY <1>2, <1>3 DEF FoldLeftDomain, FoldLeft, MapThenFoldSet, MillerFold, Indices

(* Each step of the fold stays in its set.                                 *)
LEMMA StepTypes ==
  ASSUME NEW m \in {"loop", "exponent"}, NEW t \in Pairable
  PROVE  /\ TermBase(m) \in TermValues(m)
         /\ \A v \in TermValues(m) : TermStep(m, v, t) \in TermValues(m)
<1> DEFINE a == Dlog1(t[1])
           b == Dlog2(t[2])
<1>1. a \in GtScalars /\ b \in GtScalars /\ MillerTerm(t[1], t[2]) \in Units
  BY PairingAssumption DEF Pairable
<1>2. CASE m = "exponent"
  <2>1. TermValues(m) = GtScalars /\ TermBase(m) = 0
    BY <1>2 DEF TermValues, TermBase
  <2>2. 0 \in GtScalars
    BY PowAssumption DEF GtScalars
  <2>3. ASSUME NEW v \in GtScalars
        PROVE  TermStep(m, v, t) \in GtScalars
    <3>1. TermStep(m, v, t) = (v + a * b) % GtOrder
      BY <1>2 DEF TermStep
    <3> HIDE DEF a, b
    <3>2. v \in Int /\ a \in Int /\ b \in Int
      BY <1>1, PowAssumption DEF GtScalars
    <3>3. a * b \in Int
      BY <3>2
    <3> QED
      BY <3>1, <3>2, <3>3, ReducedIsScalar
  <2> QED
    BY <2>1, <2>2, <2>3
<1>3. CASE m = "loop"
  BY <1>1, <1>3, TowerAssumption, GroupInUnits DEF TermValues, TermBase, TermStep
<1> QED
  BY <1>2, <1>3

(* The fold over the terms is a function that exists.                      *)
LEMMA TermFoldExists ==
  ASSUME NEW m \in {"loop", "exponent"}, NEW s \in Seq(Pairable)
  PROVE  \E g : TermFold(m, g, s)
<1> DEFINE V == TermValues(m)
           F == [x \in V \X Pairable |-> TermStep(m, x[1], x[2])]
           n == Len(s)
           b == TermBase(m)
           pick == [t \in SUBSET (1 .. n) |-> Max(t)]
<1>1. F \in [V \X Pairable -> V]
  BY StepTypes
<1>2. n \in Nat /\ s \in [1 .. n -> Pairable] /\ DOMAIN s = 1 .. n
  OBVIOUS
<1>3. \A x \in V, t \in Pairable : F[<<x, t>>] = TermStep(m, x, t)
  OBVIOUS
<1>4. b \in V
  BY PowAssumption, TowerAssumption, GroupInUnits DEF TermBase, TermValues, GtScalars
<1> HIDE DEF F, V, n, b
<1>5. /\ \A t \in SUBSET (1 .. n) : t # {} => Max(t) \in t /\ Max(t) \in 1 .. n
      /\ IsFiniteSet(1 .. n)
  <2>1. n \in Int /\ 1 \in Int
    BY <1>2
  <2> QED
    BY <1>2, <2>1, MaxInRange, FS_Interval
<1>6. PICK g : IsFold(g, V, F, b, s, 1 .. n, pick)
  BY <1>1, <1>2, <1>4, <1>5, FoldExists
<1>7. \A t \in SUBSET (1 .. n) :
        g[t] = IF t = {} THEN b ELSE TermStep(m, g[t \ {Max(t)}], s[Max(t)])
  BY <1>2, <1>3, <1>5, <1>6 DEF IsFold
<1>8. g = [t \in SUBSET (1 .. n) |-> g[t]]
  BY <1>6 DEF IsFold
<1>9. TermFold(m, g, s)
  BY <1>2, <1>7, <1>8 DEF TermFold, b
<1> QED
  BY <1>9

(* One term more is one step more.                                         *)
LEMMA OneMoreTerm ==
  ASSUME NEW m \in {"loop", "exponent"}, NEW s \in Seq(Pairable), NEW t \in Pairable,
         NEW g, TermFold(m, g, s), NEW h, TermFold(m, h, Append(s, t))
  PROVE  h[DOMAIN Append(s, t)] = TermStep(m, g[DOMAIN s], t)
<1> DEFINE n == Len(s)
           u == Append(s, t)
           T == {k \in 0 .. n : g[1 .. k] = h[1 .. k]}
<1>1. /\ n \in Nat /\ n + 1 \in Nat
      /\ DOMAIN s = 1 .. n /\ DOMAIN u = 1 .. n + 1
      /\ u[n + 1] = t /\ \A k \in 1 .. n : u[k] = s[k]
  OBVIOUS
<1>2. TermFold(m, h, u)
  OBVIOUS
<1> HIDE DEF n, u
<1>3. /\ \A k \in SUBSET (1 .. n) :
           g[k] = IF k = {} THEN TermBase(m)
                            ELSE TermStep(m, g[k \ {Max(k)}], s[Max(k)])
      /\ \A k \in SUBSET (1 .. n + 1) :
           h[k] = IF k = {} THEN TermBase(m)
                            ELSE TermStep(m, h[k \ {Max(k)}], u[Max(k)])
  BY <1>1, <1>2 DEF TermFold
<1>4. ASSUME NEW k \in 0 .. n - 1
      PROVE  g[1 .. k + 1] = TermStep(m, g[1 .. k], s[k + 1])
  <2> DEFINE K == 1 .. k + 1
  <2>1. K \in SUBSET (1 .. n) /\ K # {} /\ Max(K) = k + 1 /\ K \ {k + 1} = 1 .. k
    BY <1>1, PrefixIndices
  <2> HIDE DEF K
  <2>2. g[K] = TermStep(m, g[K \ {Max(K)}], s[Max(K)])
    BY <1>3, <2>1
  <2> QED
    BY <2>1, <2>2 DEF K
<1>5. ASSUME NEW k \in 0 .. n
      PROVE  h[1 .. k + 1] = TermStep(m, h[1 .. k], u[k + 1])
  <2> DEFINE K == 1 .. k + 1
  <2>1. n + 1 \in Nat /\ k \in 0 .. (n + 1) - 1
    BY <1>1
  <2>2. K \in SUBSET (1 .. n + 1) /\ K # {} /\ Max(K) = k + 1 /\ K \ {k + 1} = 1 .. k
    BY <2>1, PrefixIndices
  <2> HIDE DEF K
  <2>3. h[K] = TermStep(m, h[K \ {Max(K)}], u[Max(K)])
    BY <1>3, <2>2
  <2> QED
    BY <2>2, <2>3 DEF K
<1>6. 0 \in T
  <2>1. 1 .. 0 = {} /\ {} \in SUBSET (1 .. n) /\ {} \in SUBSET (1 .. n + 1)
    OBVIOUS
  <2>2. g[{}] = TermBase(m) /\ h[{}] = TermBase(m)
    BY <1>3, <2>1
  <2> QED
    BY <1>1, <2>1, <2>2
<1>7. \A k \in 0 .. n - 1 : k \in T => k + 1 \in T
  <2> SUFFICES ASSUME NEW k \in 0 .. n - 1, k \in T PROVE k + 1 \in T
    OBVIOUS
  <2>1. k \in 0 .. n /\ k + 1 \in 0 .. n /\ k + 1 \in 1 .. n
    BY <1>1
  <2>2. u[k + 1] = s[k + 1] /\ g[1 .. k] = h[1 .. k]
    BY <1>1, <2>1
  <2>3. g[1 .. k + 1] = h[1 .. k + 1]
    BY <1>4, <1>5, <2>1, <2>2
  <2> QED
    BY <2>1, <2>3
<1> HIDE DEF T
<1>8. n \in T
  BY <1>1, <1>6, <1>7, InductionUpTo
<1>9. g[1 .. n] = h[1 .. n] /\ n \in 0 .. n
  BY <1>1, <1>8 DEF T
<1>10. h[1 .. n + 1] = TermStep(m, h[1 .. n], t)
  BY <1>1, <1>5, <1>9
<1> QED
  BY <1>1, <1>9, <1>10 DEF u

(* What the folds are of no terms and of one term more.                    *)
LEMMA ExponentsUnfold ==
  /\ Exponents(<<>>) = 0
  /\ \A s \in Seq(Pairable), t \in Pairable :
       Exponents(Append(s, t)) = TermStep("exponent", Exponents(s), t)
<1>1. Exponents(<<>>) = 0
  <2>1. DOMAIN <<>> = {} /\ <<>> \in Seq(Pairable)
    OBVIOUS
  <2>2. TermFold("exponent", CHOOSE g : TermFold("exponent", g, <<>>), <<>>)
    BY <2>1, TermFoldExists
  <2>3. (CHOOSE g : TermFold("exponent", g, <<>>))[{}] = 0
    BY <2>1, <2>2 DEF TermFold, TermBase
  <2> QED
    BY <2>1, <2>3, ExponentsIsFold
<1>2. ASSUME NEW s \in Seq(Pairable), NEW t \in Pairable
      PROVE  Exponents(Append(s, t)) = TermStep("exponent", Exponents(s), t)
  <2> DEFINE u == Append(s, t)
             g == CHOOSE f : TermFold("exponent", f, s)
             h == CHOOSE f : TermFold("exponent", f, u)
  <2>1. u \in Seq(Pairable)
    OBVIOUS
  <2>2. TermFold("exponent", g, s) /\ TermFold("exponent", h, u)
    BY <2>1, TermFoldExists
  <2>3. Exponents(s) = g[DOMAIN s] /\ Exponents(u) = h[DOMAIN u]
    BY ExponentsIsFold
  <2> HIDE DEF g, h
  <2> QED
    BY <2>2, <2>3, OneMoreTerm
<1> QED
  BY <1>1, <1>2

(* The slices that MillerLoopN is given are those of the terms.            *)
LEMMA MillerFoldsTerms ==
  ASSUME NEW s \in Seq(Pairable), NEW g
  PROVE  /\ DOMAIN Indices(s) = DOMAIN s
         /\ MillerFold(g, s) <=> TermFold("loop", g, s)
<1> DEFINE n == Len(s)
<1>1. n \in Nat /\ DOMAIN s = 1 .. n
  OBVIOUS
<1>2. /\ DOMAIN Indices(s) = 1 .. n
      /\ \A i \in 1 .. n : /\ Indices(s)[i] = i
                           /\ G1Side(s)[i] = s[i][1] /\ G2Side(s)[i] = s[i][2]
  BY <1>1 DEF Indices, G1Side, G2Side
<1> HIDE DEF n
<1>3. \A t \in SUBSET (1 .. n) : t # {} => Max(t) \in 1 .. n
  BY <1>1, MaxInRange
<1> DEFINE a == [t \in SUBSET (1 .. n) |->
                   IF t = {} THEN FOne
                   ELSE FMul(g[t \ {Max(t)}], MillerTerm(G1Side(s)[Indices(s)[Max(t)]],
                                                         G2Side(s)[Indices(s)[Max(t)]]))]
           b == [t \in SUBSET (1 .. n) |->
                   IF t = {} THEN FOne
                   ELSE FMul(g[t \ {Max(t)}], MillerTerm(s[Max(t)][1], s[Max(t)][2]))]
<1>4. a = b
  BY <1>2, <1>3
<1>5. MillerFold(g, s) <=> g = a
  BY <1>2 DEF MillerFold
<1>6. TermFold("loop", g, s) <=> g = b
  BY <1>1 DEF TermFold, TermStep, TermBase
<1> QED
  BY <1>1, <1>2, <1>4, <1>5, <1>6

(* One more term multiplies by its Miller value.                           *)
LEMMA MillerUnfold ==
  /\ MultiMillerLoop(<<>>) = FOne
  /\ \A s \in Seq(Pairable), t \in Pairable :
       MultiMillerLoop(Append(s, t)) = TermStep("loop", MultiMillerLoop(s), t)
<1>1. MultiMillerLoop(<<>>) = FOne
  BY DEF MultiMillerLoop
<1>2. ASSUME NEW s \in Seq(Pairable)
      PROVE  \E g : TermFold("loop", g, s) /\ MultiMillerLoop(s) = g[DOMAIN s]
  <2>1. PICK e : TermFold("loop", e, s)
    BY TermFoldExists
  <2>2. CASE s = <<>>
    <3>1. DOMAIN s = {}
      BY <2>2
    <3>2. e[{}] = FOne
      BY <2>1, <3>1 DEF TermFold, TermBase
    <3> QED
      BY <1>1, <2>1, <2>2, <3>1, <3>2
  <2>3. CASE s # <<>>
    <3> DEFINE g == CHOOSE f : MillerFold(f, s)
    <3>1. MillerFold(e, s)
      BY <2>1, MillerFoldsTerms
    <3>2. MillerFold(g, s)
      BY <3>1
    <3>3. MultiMillerLoop(s) = g[DOMAIN Indices(s)]
      BY <2>3, MillerIsFold
    <3> HIDE DEF g
    <3> QED
      BY <3>2, <3>3, MillerFoldsTerms
  <2> QED
    BY <2>2, <2>3
<1>3. ASSUME NEW s \in Seq(Pairable), NEW t \in Pairable
      PROVE  MultiMillerLoop(Append(s, t)) = TermStep("loop", MultiMillerLoop(s), t)
  <2>1. Append(s, t) \in Seq(Pairable)
    OBVIOUS
  <2>2. PICK g : TermFold("loop", g, s) /\ MultiMillerLoop(s) = g[DOMAIN s]
    BY <1>2
  <2>3. PICK h : /\ TermFold("loop", h, Append(s, t))
                 /\ MultiMillerLoop(Append(s, t)) = h[DOMAIN Append(s, t)]
    BY <1>2, <2>1
  <2> QED
    BY <2>2, <2>3, OneMoreTerm
<1> QED
  BY <1>1, <1>3

(* What holds of no terms, and of one term more, holds of any terms: `T`   *)
(* is the set of the sequences of which it holds.                          *)
LEMMA TermsByInduction ==
  ASSUME NEW T, <<>> \in T,
         \A s \in Seq(Pairable), t \in Pairable : s \in T => Append(s, t) \in T
  PROVE  Seq(Pairable) \subseteq T
<1> DEFINE U == {n \in Nat : \A s \in Seq(Pairable) : Len(s) = n => s \in T}
<1>1. 0 \in U
  OBVIOUS
<1>2. ASSUME NEW n \in U PROVE n + 1 \in U
  <2> SUFFICES ASSUME NEW s \in Seq(Pairable), Len(s) = n + 1 PROVE s \in T
    OBVIOUS
  <2> DEFINE front == SubSeq(s, 1, n)
  <2>1. n \in Nat /\ n + 1 \in 1 .. Len(s)
    OBVIOUS
  <2>2. front \in Seq(Pairable) /\ Len(front) = n /\ s[n + 1] \in Pairable
    BY <2>1
  <2>3. s = Append(front, s[n + 1])
    BY <2>1, <2>2
  <2>4. front \in T
    BY <2>1, <2>2
  <2> QED
    BY <2>2, <2>3, <2>4
<1>3. U \in SUBSET Nat
  OBVIOUS
<1> HIDE DEF U
<1>4. U = Nat
  BY <1>1, <1>2, <1>3, NumbersByInduction
<1> QED
  BY <1>4 DEF U

(* The final exponentiation of the product of Miller loops is the product  *)
(* of the pairings, which the sum of products of scalars is the exponent   *)
(* of.                                                                     *)
LEMMA ProductOfPairings ==
  ASSUME NEW s \in Seq(Pairable)
  PROVE  /\ MultiMillerLoop(s) \in Units
         /\ Exponents(s) \in GtScalars
         /\ FinalExp(MultiMillerLoop(s)) = Pow(GtGen, Exponents(s))
<1> DEFINE T == {u \in Seq(Pairable) :
                   /\ MultiMillerLoop(u) \in Units
                   /\ Exponents(u) \in GtScalars
                   /\ FinalExp(MultiMillerLoop(u)) = Pow(GtGen, Exponents(u))}
<1>1. <<>> \in T
  <2>1. MultiMillerLoop(<<>>) = FOne /\ Exponents(<<>>) = 0
    BY MillerUnfold, ExponentsUnfold
  <2>2. FOne \in GtGroup /\ FOne \in Units /\ 0 \in GtScalars
    BY TowerAssumption, GroupInUnits, PowAssumption DEF GtScalars
  <2>3. FinalExp(FOne) = FOne /\ Pow(GtGen, 0) = FOne
    BY FinalExpAssumption, GtAssumption, PowAssumption
  <2> QED
    BY <2>1, <2>2, <2>3
<1>2. ASSUME NEW u \in Seq(Pairable), NEW t \in Pairable, u \in T
      PROVE  Append(u, t) \in T
  <2> DEFINE v == MultiMillerLoop(u)
             n == Exponents(u)
             w == MillerTerm(t[1], t[2])
             d == Dlog1(t[1]) * Dlog2(t[2])
  <2>1. v \in Units /\ n \in GtScalars /\ FinalExp(v) = Pow(GtGen, n)
    BY <1>2
  <2>2. /\ Dlog1(t[1]) \in GtScalars /\ Dlog2(t[2]) \in GtScalars
        /\ w \in Units /\ FinalExp(w) = Pow(GtGen, d % GtOrder)
    BY PairingAssumption DEF Pairable
  <2>3. d \in Nat
    <3>1. Dlog1(t[1]) \in Nat /\ Dlog2(t[2]) \in Nat
      BY <2>2, PowAssumption DEF GtScalars
    <3> QED
      BY <3>1
  <2>4. /\ MultiMillerLoop(Append(u, t)) = FMul(v, w)
        /\ Exponents(Append(u, t)) = (n + d) % GtOrder
    BY MillerUnfold, ExponentsUnfold DEF TermStep
  <2> HIDE DEF v, n, w, d
  <2>5. n \in Nat /\ GtOrder \in Nat \ {0}
    BY <2>1, PowAssumption DEF GtScalars
  <2>6. d \in Int /\ n + d \in Int
    BY <2>3, <2>5
  <2> DEFINE e == d % GtOrder
             f == (n + d) % GtOrder
  <2>7. e \in GtScalars /\ f \in GtScalars
    BY <2>6, ReducedIsScalar
  <2>8. (n + e) % GtOrder = f
    <3>1. n \in Nat /\ GtOrder \in Nat \ {0}
      BY <2>5
    <3> HIDE DEF e, f
    <3>2. (n + (d % GtOrder)) % GtOrder = (n + d) % GtOrder
      BY <2>3, <3>1, ReducedSummand, Zenon
    <3> QED
      BY <3>2, Zenon DEF e, f
  <2> HIDE DEF e
  <2>9. FMul(v, w) \in Units
    BY <2>1, <2>2, TowerAssumption
  <2>10. FinalExp(FMul(v, w)) = FMul(Pow(GtGen, n), Pow(GtGen, e))
    BY <2>1, <2>2, PairingAssumption DEF e
  <2>11. FMul(Pow(GtGen, n), Pow(GtGen, e)) = Pow(GtGen, (n + e) % GtOrder)
    BY <2>1, <2>7, LogAssumption
  <2>12. Append(u, t) \in Seq(Pairable)
    OBVIOUS
  <2> QED
    BY <2>4, <2>7, <2>8, <2>9, <2>10, <2>11, <2>12
<1> HIDE DEF T
<1>3. Seq(Pairable) \subseteq T
  BY <1>1, <1>2, TermsByInduction
<1>4. s \in T
  BY <1>3
<1> QED
  BY <1>4 DEF T

(* finalverify sees one exactly in one: the second exponentiation that it  *)
(* makes of an element of the group loses nothing.                         *)
LEMMA VerifyIsExact ==
  ASSUME NEW v \in GtGroup
  PROVE  FinalVerify(v, FOne) <=> v = FOne
<1>1. FConj(v) \in GtGroup /\ FOne \in GtGroup
  BY GtAssumption, TowerAssumption
<1>2. FMul(FConj(v), FOne) = FConj(v)
  <2>1. /\ Log(FConj(v)) \in GtScalars /\ Pow(GtGen, Log(FConj(v))) = FConj(v)
        /\ 0 \in GtScalars /\ Pow(GtGen, 0) = FOne
    BY <1>1, LogIsExponent, PowAssumption, GtAssumption DEF GtScalars
  <2>2. (Log(FConj(v)) + 0) % GtOrder = Log(FConj(v))
    <3> DEFINE a == Log(FConj(v))
    <3>1. a \in Nat /\ a < GtOrder /\ GtOrder \in Nat \ {0}
      BY <2>1, PowAssumption DEF GtScalars
    <3> HIDE DEF a
    <3> QED
      BY <3>1, SmallRemainders DEF a
  <2> QED
    BY <2>1, <2>2, LogAssumption
<1>3. FinalVerify(v, FOne) <=> FConj(v) = FOne
  <2>1. FinalExp(FConj(v)) = FOne <=> FConj(v) = FOne
    BY <1>1, FinalExpAssumption, PairingAssumption
  <2> QED
    BY <1>2, <2>1 DEF FinalVerify
<1>4. Log(FConj(v)) = (GtOrder - Log(v)) % GtOrder
  BY LogOfConjugate
<1>5. \A w \in GtGroup : w = FOne <=> Log(w) = 0
  BY LogIsExponent, LogOfConstants, PowAssumption, GtAssumption DEF GtIdentity
<1>6. Log(v) \in GtScalars
  BY LogIsExponent
<1>7. Log(FConj(v)) = 0 <=> Log(v) = 0
  <2> DEFINE a == Log(v)
  <2>1. a \in Nat /\ a < GtOrder /\ GtOrder \in Nat \ {0}
    BY <1>6, PowAssumption DEF GtScalars
  <2> HIDE DEF a
  <2>2. CASE a = 0
    BY <2>1, <2>2, SmallRemainders, <1>4 DEF a
  <2>3. CASE a # 0
    <3>1. (GtOrder - a) % GtOrder = GtOrder - a
      BY <2>1, <2>3, NegativeRemainder
    <3>2. GtOrder - a # 0
      BY <2>1
    <3> QED
      BY <2>3, <3>1, <3>2, <1>4 DEF a
  <2> QED
    BY <2>2, <2>3 DEF a
<1> QED
  BY <1>1, <1>3, <1>5, <1>7

(* Either backend's verdict is whether the exponent is zero.               *)
LEMMA VerdictIsExact ==
  ASSUME NEW s \in Seq(Pairable)
  PROVE  /\ PairingProductIsIdentity(s) \in BOOLEAN
         /\ PairingProductIsIdentity(s) <=> Exponents(s) = 0
         /\ DuskProductIsIdentity(s) <=> Exponents(s) = 0
<1> DEFINE v == FinalExp(MultiMillerLoop(s))
           n == Exponents(s)
<1>1. n \in GtScalars /\ v = Pow(GtGen, n) /\ v \in GtGroup
  BY ProductOfPairings, FinalExpAssumption
<1>2. 0 \in GtScalars /\ Pow(GtGen, 0) = FOne
  BY PowAssumption, GtAssumption DEF GtScalars
<1>3. v = FOne <=> n = 0
  BY <1>1, <1>2, LogAssumption
<1>4. DuskProductIsIdentity(s) <=> v = FOne
  BY DEF DuskProductIsIdentity
<1>5. PairingProductIsIdentity(s) <=> v = FOne
  <2>1. CASE s = <<>>
    BY <1>3, <2>1, ExponentsUnfold DEF PairingProductIsIdentity
  <2>2. CASE s # <<>>
    <3>1. v = FinalExp(MillerLoopN(G2Side(s), G1Side(s)))
      BY <2>2, MillerIsFold
    <3> HIDE DEF v
    <3>2. FinalVerify(v, FOne) <=> v = FOne
      BY <1>1, VerifyIsExact
    <3> QED
      BY <2>2, <3>1, <3>2 DEF PairingProductIsIdentity
  <2> QED
    BY <2>1, <2>2
<1>6. PairingProductIsIdentity(s) \in BOOLEAN
  BY DEF PairingProductIsIdentity, FinalVerify
<1> QED
  BY <1>3, <1>4, <1>5, <1>6
=============================================================================
