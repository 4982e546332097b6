-------------------------------- MODULE Batch -------------------------------
(***************************************************************************)
(* The functions over slices of backend_blst/g1.rs (g2.rs has the first    *)
(* two as well): batch_normalize turns projective points into affine ones  *)
(* in a slice of the caller's, sum adds projective points, and             *)
(* msm_variable_base adds multiples of affine ones.  A caller grows its    *)
(* slices at will, so that their lengths differ, and multiplies what it    *)
(* normalized.                                                             *)
(***************************************************************************)
EXTENDS AffinePoint, SequencesExt

CONSTANTS
  ByteBase,     \* values of a byte (256)
  ByteBits,     \* its bits (8)
  ScalarBytes,  \* bytes of a scalar (32)
  ScalarBits,   \* bits that msm_variable_base tells blst to use (255)
  Points,       \* the projective values a caller pushes
  Multipliers,  \* the scalars it pushes
  MaxLength     \* bound: how long its slices get

ASSUME BatchAssumption ==
  /\ Points \subseteq Jacobians /\ Multipliers \subseteq Scalars
  /\ {ByteBase, ByteBits, ScalarBytes} \subseteq Nat \ {0} /\ ScalarBits \in Nat
  /\ R > 1 /\ \A P \in E : Times(1, P) = P

(* What powers are; said because the prover's arithmetic has none.         *)
ASSUME BytePowersAssumption ==
  /\ 2^ScalarBits \in Nat
  /\ ByteBase^0 = 1
  /\ \A n \in 0 .. ScalarBytes :
       /\ ByteBase^n \in Nat \ {0}
       /\ ByteBase^(n + 1) = ByteBase * ByteBase^n

Shorter(s, t) == IF Len(s) < Len(t) THEN Len(s) ELSE Len(t)

-----------------------------------------------------------------------------
(* External: blst's slices of points.                                      *)

(* blst_p1s_to_affine shares one inversion between all the points; that it *)
(* gives each what it would be given alone, infinity included, is assumed. *)
P1sToAffine(js) == [i \in DOMAIN js |-> ToAffine(js[i])]

FromLeBytes(w) == FoldRight(LAMBDA byte, n : byte + ByteBase * n, w, 0)
ToLeBytes(k) == [i \in 1 .. ScalarBytes |-> (k \div ByteBase^(i - 1)) % ByteBase]

(* blst_p1s_mult_pippenger finds scalar i by the number of bytes that the  *)
(* given number of bits takes.  Without points, or with too few bytes, it  *)
(* must not be called: there is no telling what it returns.                *)
Stride(nbits) == (nbits + ByteBits - 1) \div ByteBits
ScalarAt(bytes, i, nbits) ==
  FromLeBytes(SubSeq(bytes, (i - 1) * Stride(nbits) + 1, i * Stride(nbits)))

(* 255 bits are enough for a scalar, and take its 32 bytes.                *)
ASSUME ScalarSizeAssumption ==
  /\ Stride(ScalarBits) = ScalarBytes
  /\ R <= 2^ScalarBits /\ R <= ByteBase^ScalarBytes

P1sMult(ps, bytes, nbits) ==
  IF ps = <<>> \/ Len(bytes) < Len(ps) * Stride(nbits) THEN Jacobians
  ELSE LET term(i) == Mult(ps[i], ScalarAt(bytes, i, nbits), nbits)
       IN  Triples(FoldLeftDomain(LAMBDA sum, i : Plus(sum, term(i)), Inf, ps))

-----------------------------------------------------------------------------
(* The code.                                                               *)

(* Not the code: a rewrite that also fills the rest.                       *)
NormalizeAndFill(js, out) ==
  [i \in DOMAIN out |-> IF i \in DOMAIN js THEN P1sToAffine(js)[i] ELSE Inf]

BatchNormalize(js, out) ==
  LET n == Shorter(js, out)
      affines == P1sToAffine(SubSeq(js, 1, n))
  IN  IF n = 0 THEN out
      ELSE [i \in DOMAIN out |-> IF i <= n THEN affines[i] ELSE out[i]]

(* Not the code: the slices taken to be of one length, and not empty.      *)
MsmOfAllPoints(ps, ks) ==
  P1sMult(ps, FoldLeft(LAMBDA s, k : s \o ToLeBytes(k), <<>>, ks), ScalarBits)

MsmVariableBase(ps, ks) ==
  LET n == Shorter(ps, ks)
      scalar_bytes ==
        FoldLeft(LAMBDA s, k : s \o ToLeBytes(k), <<>>, SubSeq(ks, 1, n))
  IN  IF n = 0 THEN FromAffine(Inf)
      ELSE P1sMult(SubSeq(ps, 1, n), scalar_bytes, ScalarBits)

(* `add` is blst_p1_add_or_double: blst_p1_add, which is not the code,     *)
(* gives infinity for two equal points.                                    *)
AddWithoutDoubling(j, k) ==
  IF ToAffine(j) = ToAffine(k) THEN Triples(Inf)
  ELSE Triples(Plus(ToAffine(j), ToAffine(k)))
ProjAdd(j, k) == Triples(Plus(ToAffine(j), ToAffine(k)))

SumOf(js) ==
  FoldLeft(LAMBDA sums, j : UNION {ProjAdd(sum, j) : sum \in sums},
           FromAffine(Inf), js)

-----------------------------------------------------------------------------
VARIABLES
  points,   \* a slice of projective points
  affines,  \* the slice that batch_normalize writes to
  scalars,
  called,   \* the function called last, "none" since a slice changed
  product   \* what sum or msm_variable_base returned

batchVars == <<points, affines, scalars, called, product>>

BatchInit ==
  /\ points = <<>> /\ affines = <<>> /\ scalars = <<>>
  /\ called = "none" /\ product \in FromAffine(Inf)

PushPoint == \E j \in Points :
  /\ Len(points) < MaxLength
  /\ points' = Append(points, j) /\ called' = "none"
  /\ UNCHANGED <<affines, scalars, product>>

(* A caller makes room for one more affine point.                          *)
PushRoom ==
  /\ Len(affines) < MaxLength
  /\ affines' = Append(affines, Gen) /\ called' = "none"
  /\ UNCHANGED <<points, scalars, product>>

PushScalar == \E k \in Multipliers :
  /\ Len(scalars) < MaxLength
  /\ scalars' = Append(scalars, k) /\ called' = "none"
  /\ UNCHANGED <<points, affines, product>>

CallBatchNormalize ==
  /\ affines' = BatchNormalize(points, affines) /\ called' = "batch_normalize"
  /\ UNCHANGED <<points, scalars, product>>

CallMsm ==
  /\ product' \in MsmVariableBase(affines, scalars) /\ called' = "msm"
  /\ UNCHANGED <<points, affines, scalars>>

CallSum ==
  /\ product' \in SumOf(points) /\ called' = "sum"
  /\ UNCHANGED <<points, affines, scalars>>

BatchNext ==
  \/ PushPoint \/ PushRoom \/ PushScalar
  \/ CallBatchNormalize \/ CallMsm \/ CallSum

BatchSpec == BatchInit /\ [][BatchNext]_batchVars

-----------------------------------------------------------------------------
(* Properties.                                                             *)

(* A batch does what converting the points one at a time would, and leaves *)
(* the part of the caller's slice it has no points for as it was.          *)
BatchIsPointwise ==
  [][called' = "batch_normalize" =>
       /\ Len(affines') = Len(affines)
       /\ \A i \in DOMAIN affines :
            affines'[i] = IF i \in DOMAIN points THEN FromProjective(points[i])
                                                 ELSE affines[i]]_batchVars

(* Two ways to add up a slice agree: sum, one triple at a time, and        *)
(* normalizing it and multiplying each point by one.  Equal, opposite and  *)
(* infinite points meet in the first.                                      *)
SumIsMsmOfOnes ==
  called = "sum" =>
    LET ones == [i \in DOMAIN points |-> 1]
    IN  \A j \in MsmVariableBase(P1sToAffine(points), ones) :
          ToAffine(j) = ToAffine(product)

(* The product is the sum of the multiples, over as many pairs as there    *)
(* are; that many may be none.                                             *)
MsmIsSum ==
  called = "msm" =>
    ToAffine(product) =
      FoldLeftDomain(LAMBDA sum, i : Plus(sum, Times(scalars[i], affines[i])),
                     Inf, SubSeq(affines, 1, Shorter(affines, scalars)))
=============================================================================
