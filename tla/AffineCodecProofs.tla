-------------------------- MODULE AffineCodecProofs -------------------------
(***************************************************************************)
(* The properties of AffineCodec, for every curve and every input; and     *)
(* those of Batch, for slices of any lengths.                              *)
(***************************************************************************)
EXTENDS AffineCodec, Batch, OperatorProofs

(* What the properties need to be inductive: a verdict belongs to a        *)
(* decoder of the form on the wire, and an encoder's bytes stay the        *)
(* encoding of the point it was given.                                     *)
CallFitsForm ==
  /\ call = "none" => is_some = FALSE
  /\ form = "none" => call = "none" /\ sent = {}
  /\ call \in CheckedCompressed \cup {"from_bytes_unchecked"} => form = "compressed"
  /\ call \in {"from_uncompressed", "from_uncompressed_unchecked"} => form = "uncompressed"
  /\ call = "from_slice_unchecked" => form = "raw" /\ is_some

SentIsEncoded ==
  /\ form = "raw" => \E P \in E : sent = {P} /\ wire = ToRawBytes(P)
  /\ \A P \in sent : EncodedIn({P}) = {P}

SerdeIsExact ==
  call = "serde" => (is_some <=> form = "compressed" /\ EncodedIn(Subgroup) # {})

IInv ==
  /\ TypeOK /\ CallFitsForm /\ SentIsEncoded
  /\ Canonical /\ CheckedIsExact /\ UncheckedIsExact /\ SerdeIsExact

(* One encoding has one point.                                             *)
LEMMA EncodingsAreInjective ==
  ASSUME NEW P \in E, NEW Q \in E,
         EncodedIn({P}) = {P}, EncodedIn({Q}) = {Q}
  PROVE  P = Q
<1>1. P \in EncodedIn({P}) /\ Q \in EncodedIn({Q})
  OBVIOUS
<1>2. CASE form = "compressed"
  BY <1>1, <1>2, CompressInjective DEF EncodedIn, ToBytes
<1>3. CASE form = "uncompressed"
  BY <1>1, <1>3, SerializeInjective DEF EncodedIn, ToUncompressed
<1>4. CASE form = "raw"
  <2>1. ToRawBytes(P) = ToRawBytes(Q)
    BY <1>1, <1>4 DEF EncodedIn
  <2> QED
    BY <2>1, RawRoundTrip
<1> QED
  BY <1>1, <1>2, <1>3, <1>4 DEF EncodedIn

(* The round trip follows from the rest of the invariant.                  *)
LEMMA RoundTripFollows == IInv => RoundTrip
<1> SUFFICES ASSUME IInv, NEW P \in sent
             PROVE  /\ is_some => got = P
                    /\ call \in Unchecked \cup {"from_slice_unchecked"} => is_some
                    /\ call \in Checked => (is_some <=> P \in Subgroup)
                    /\ call = "serde" =>
                         (is_some <=> form = "compressed" /\ P \in Subgroup)
  BY DEF RoundTrip
<1>1. P \in E /\ got \in E /\ EncodedIn({P}) = {P} /\ Subgroup \subseteq E
  BY SubgroupAssumption DEF IInv, TypeOK, SentIsEncoded
<1>2. is_some => got = P
  BY <1>1, EncodingsAreInjective DEF IInv, Canonical
<1>3. P \in EncodedIn(E)
  BY <1>1 DEF EncodedIn
<1>4. EncodedIn(Subgroup) # {} <=> P \in Subgroup
  <2>1. ASSUME NEW Q \in EncodedIn(Subgroup)
        PROVE  Q = P
    <3>1. Q \in E /\ EncodedIn({Q}) = {Q}
      BY <1>1, <2>1 DEF EncodedIn
    <3> QED
      BY <1>1, <3>1, EncodingsAreInjective
  <2>2. P \in Subgroup => P \in EncodedIn(Subgroup)
    BY <1>1 DEF EncodedIn
  <2>3. EncodedIn(Subgroup) \subseteq Subgroup
    BY DEF EncodedIn
  <2> QED
    BY <2>1, <2>2, <2>3
<1> QED
  BY <1>2, <1>3, <1>4
     DEF IInv, CallFitsForm, CheckedIsExact, UncheckedIsExact, SerdeIsExact, Unchecked

-----------------------------------------------------------------------------
(* The inductive step, one lemma for the encoders and the environment and  *)
(* one for the decoders.                                                   *)

LEMMA PutPreserves ==
  ASSUME IInv,
         NEW f, NEW b, NEW s \in SUBSET E,
         Put(f, b, s),
         \/ f = "compressed" /\ b \in CompressedBytes
              /\ \A P \in s : ToBytes(P) = b
         \/ f = "uncompressed" /\ b \in UncompressedBytes
              /\ \A P \in s : ToUncompressed(P) = b
         \/ f = "raw" /\ b \in RawBytes
              /\ \E P \in E : s = {P} /\ ToRawBytes(P) = b
  PROVE  IInv'
<1>1. /\ call = "none" /\ is_some = FALSE /\ got \in E
      /\ form' = f /\ wire' = b /\ sent' = s
      /\ call' = call /\ is_some' = is_some /\ got' = got
  BY DEF IInv, TypeOK, CallFitsForm, Put
<1>2. TypeOK'
  BY <1>1 DEF TypeOK, Decoders
<1>3. CallFitsForm'
  BY <1>1 DEF CallFitsForm, CheckedCompressed
<1>4. SentIsEncoded'
  <2>1. f = "raw" => \E P \in E : s = {P} /\ b = ToRawBytes(P)
    OBVIOUS
  <2>2. \A P \in s : EncodedIn({P})' = {P}
    BY <1>1 DEF EncodedIn
  <2> QED
    BY <1>1, <2>1, <2>2 DEF SentIsEncoded
<1>5. Canonical' /\ CheckedIsExact' /\ UncheckedIsExact' /\ SerdeIsExact'
  BY <1>1 DEF Canonical, CheckedIsExact, UncheckedIsExact, SerdeIsExact,
              Checked, CheckedCompressed, Unchecked
<1> QED
  BY <1>2, <1>3, <1>4, <1>5 DEF IInv

(* A decoder that answers exactly for the encodings of the points of S.    *)
LEMMA ReturnPreserves ==
  ASSUME IInv,
         NEW f \in {"compressed", "uncompressed", "raw"},
         NEW entry \in Decoders, NEW opt, NEW S \in SUBSET E,
         Return(f, entry, opt),
         opt.is_some \in BOOLEAN,
         opt.is_some <=> EncodedIn(S) # {},
         opt.is_some => opt.value \in E /\ EncodedIn({opt.value}) = {opt.value},
         entry \in CheckedCompressed \cup {"from_bytes_unchecked"} => f = "compressed",
         entry \in {"from_uncompressed", "from_uncompressed_unchecked"} => f = "uncompressed",
         entry = "from_slice_unchecked" => f = "raw" /\ opt.is_some,
         entry \in Checked => S = Subgroup,
         entry \in Unchecked => S = E,
         entry = "serde" =>
           (opt.is_some <=> f = "compressed" /\ EncodedIn(Subgroup) # {})
  PROVE  IInv'
<1>1. /\ form = f /\ form' = form /\ wire' = wire /\ sent' = sent
      /\ call' = entry /\ is_some' = opt.is_some
      /\ got' = IF opt.is_some THEN opt.value ELSE got
  BY DEF Return
<1>2. TypeOK'
  BY <1>1 DEF IInv, TypeOK
<1>3. CallFitsForm'
  <2>1. entry # "none"
    BY DEF Decoders, Checked, CheckedCompressed, Unchecked
  <2> QED
    BY <1>1, <2>1 DEF CallFitsForm, CheckedCompressed
<1>4. SentIsEncoded'
  <2>1. \A P \in sent : EncodedIn({P})' = EncodedIn({P})
    BY <1>1 DEF EncodedIn
  <2> QED
    BY <1>1, <2>1 DEF IInv, SentIsEncoded
<1>5. Canonical'
  <2> SUFFICES ASSUME is_some'
               PROVE  EncodedIn({got})' = {got'}
    BY DEF Canonical
  <2>1. got' = opt.value /\ EncodedIn({opt.value}) = {opt.value}
    BY <1>1
  <2> QED
    BY <1>1, <2>1 DEF EncodedIn
<1>6. EncodedIn(Subgroup)' = EncodedIn(Subgroup) /\ EncodedIn(E)' = EncodedIn(E)
  BY <1>1 DEF EncodedIn
<1>7. CheckedIsExact' /\ UncheckedIsExact' /\ SerdeIsExact'
  BY <1>1, <1>6 DEF CheckedIsExact, UncheckedIsExact, SerdeIsExact
<1> QED
  BY <1>2, <1>3, <1>4, <1>5, <1>7 DEF IInv

(* No bytes, no verdict.                                                   *)
LEMMA InitEstablishes == Init => IInv
BY SubgroupAssumption
   DEF Init, IInv, TypeOK, CallFitsForm, SentIsEncoded, Canonical, CheckedIsExact,
       UncheckedIsExact, SerdeIsExact, Checked, CheckedCompressed, Unchecked,
       Decoders, E

(* Every call leaves the verdict of its own decoder.                       *)
LEMMA StepPreserves == IInv /\ [Next]_vars => IInv'
<1> SUFFICES ASSUME IInv, [Next]_vars
             PROVE  IInv'
  OBVIOUS
<1> USE DEF ToBytes, ToUncompressed
<1>1. CASE SendCompressed
  BY <1>1, PutPreserves, UncompressComplete DEF SendCompressed
<1>2. CASE SendUncompressed
  BY <1>2, PutPreserves, DeserializeComplete DEF SendUncompressed
<1>3. CASE SendRaw
  BY <1>3, PutPreserves, RawRoundTrip DEF SendRaw
<1>4. CASE ArriveCompressed
  BY <1>4, PutPreserves DEF ArriveCompressed
<1>5. CASE ArriveUncompressed
  BY <1>5, PutPreserves DEF ArriveUncompressed
<1>6. ASSUME form = "compressed"
      PROVE  /\ wire \in CompressedBytes
             /\ \A P \in E : EncodedIn({P}) = {P} <=> Compress(P) = wire
             /\ EncodedIn(E) # {} <=> \E P \in E : Compress(P) = wire
             /\ EncodedIn(Subgroup) # {} <=> \E P \in Subgroup : Compress(P) = wire
  BY <1>6 DEF IInv, TypeOK, EncodedIn
<1>7. ASSUME form = "uncompressed"
      PROVE  /\ wire \in UncompressedBytes
             /\ \A P \in E : EncodedIn({P}) = {P} <=> Serialize(P) = wire
             /\ EncodedIn(E) # {} <=> \E P \in E : Serialize(P) = wire
             /\ EncodedIn(Subgroup) # {} <=> \E P \in Subgroup : Serialize(P) = wire
  BY <1>7 DEF IInv, TypeOK, EncodedIn
<1> USE DEF Decoders, Checked, CheckedCompressed, Unchecked
<1>8. CASE CallSerializable
  <2> DEFINE opt == SerializableFromBytes(wire)
  <2>1. form = "compressed" /\ Return("compressed", "Serializable::from_bytes", opt)
    BY <1>8 DEF CallSerializable, Return
  <2>2. /\ opt.is_some \in BOOLEAN
        /\ opt.is_some <=> \E P \in Subgroup : Compress(P) = wire
        /\ opt.is_some => opt.value \in Subgroup /\ Compress(opt.value) = wire
    BY <1>6, <2>1, CheckedCompressedExact
  <2> HIDE DEF opt
  <2>3. opt.is_some => opt.value \in E /\ EncodedIn({opt.value}) = {opt.value}
    BY <1>6, <2>1, <2>2, SubgroupAssumption
  <2> QED
    BY <1>6, <2>1, <2>2, <2>3, SubgroupAssumption, ReturnPreserves
<1>9. CASE CallFromBytes
  <2> DEFINE opt == FromBytes(wire)
  <2>1. form = "compressed" /\ Return("compressed", "GroupEncoding::from_bytes", opt)
    BY <1>9 DEF CallFromBytes, Return
  <2>2. /\ opt.is_some \in BOOLEAN
        /\ opt.is_some <=> \E P \in Subgroup : Compress(P) = wire
        /\ opt.is_some => opt.value \in Subgroup /\ Compress(opt.value) = wire
    BY <1>6, <2>1, CheckedCompressedExact
  <2> HIDE DEF opt
  <2>3. opt.is_some => opt.value \in E /\ EncodedIn({opt.value}) = {opt.value}
    BY <1>6, <2>1, <2>2, SubgroupAssumption
  <2> QED
    BY <1>6, <2>1, <2>2, <2>3, SubgroupAssumption, ReturnPreserves
<1>10. CASE CallFromBytesUnchecked
  <2>1. form = "compressed"
    BY <1>10 DEF CallFromBytesUnchecked, Return
  <2> QED
    BY <1>6, <1>10, <2>1, UncheckedCompressedExact, ReturnPreserves
       DEF CallFromBytesUnchecked
<1>11. CASE CallFromUncompressed
  <2> DEFINE opt == FromUncompressed(wire)
  <2>1. form = "uncompressed" /\ Return("uncompressed", "from_uncompressed", opt)
    BY <1>11 DEF CallFromUncompressed, Return
  <2>2. /\ opt.is_some \in BOOLEAN
        /\ opt.is_some <=> \E P \in Subgroup : Serialize(P) = wire
        /\ opt.is_some => opt.value \in Subgroup /\ Serialize(opt.value) = wire
    BY <1>7, <2>1, CheckedUncompressedExact
  <2> HIDE DEF opt
  <2>3. opt.is_some => opt.value \in E /\ EncodedIn({opt.value}) = {opt.value}
    BY <1>7, <2>1, <2>2, SubgroupAssumption
  <2> QED
    BY <1>7, <2>1, <2>2, <2>3, SubgroupAssumption, ReturnPreserves
<1>12. CASE CallFromUncompressedUnchecked
  <2>1. form = "uncompressed"
    BY <1>12 DEF CallFromUncompressedUnchecked, Return
  <2> QED
    BY <1>7, <1>12, <2>1, UncheckedUncompressedExact, ReturnPreserves
       DEF CallFromUncompressedUnchecked
<1>13. CASE CallFromSliceUnchecked
  <2> DEFINE opt == CtOption(FromSliceUnchecked(wire), TRUE)
  <2>1. form = "raw" /\ Return("raw", "from_slice_unchecked", opt)
    BY <1>13 DEF CallFromSliceUnchecked, Return
  <2>2. PICK P \in E : wire = ToRawBytes(P)
    BY <2>1 DEF IInv, SentIsEncoded
  <2>3. opt.is_some = TRUE /\ opt.value = P
    BY <2>2, RawRoundTrip DEF CtOption
  <2>4. EncodedIn({P}) = {P} /\ EncodedIn(E) # {}
    BY <2>1, <2>2 DEF EncodedIn
  <2> HIDE DEF opt
  <2> QED
    BY <2>1, <2>3, <2>4, ReturnPreserves
<1>14. CASE CallSerde
  <2>1. CASE form = "compressed"
    BY <1>6, <1>14, <2>1, CheckedCompressedExact, SubgroupAssumption, ReturnPreserves
       DEF CallSerde, DeserializeHex
  <2>2. CASE form = "uncompressed"
    <3>1. Return("uncompressed", "serde", Err) /\ Err.is_some = FALSE
      BY <1>14, <2>2 DEF CallSerde, DeserializeHex, Err, CtOption
    <3>2. EncodedIn({}) = {}
      BY DEF EncodedIn
    <3> QED
      BY <2>2, <3>1, <3>2, ReturnPreserves
  <2> QED
    BY <1>14, <2>1, <2>2 DEF CallSerde
<1>15. CASE Drop
  BY <1>15, InitEstablishes
     DEF Drop, Init, IInv, TypeOK, CallFitsForm, SentIsEncoded, Canonical,
         CheckedIsExact, UncheckedIsExact, SerdeIsExact, E
<1>16. CASE UNCHANGED vars
  BY <1>16
     DEF vars, IInv, TypeOK, CallFitsForm, SentIsEncoded, Canonical, CheckedIsExact,
         UncheckedIsExact, SerdeIsExact, EncodedIn
<1> QED
  BY <1>1, <1>2, <1>3, <1>4, <1>5, <1>8, <1>9, <1>10, <1>11, <1>12, <1>13, <1>14,
     <1>15, <1>16 DEF Next

-----------------------------------------------------------------------------
(* After any sequence of encodings, arrivals and decodings the codec       *)
(* satisfies its inductive invariant.                                      *)
THEOREM CodecInvariant == Spec => []IInv
<1> QED
  BY InitEstablishes, StepPreserves, PTL DEF Spec

(* Every value keeps its type: above all, what a receiver holds is a point *)
(* of the curve or infinity.                                               *)
THEOREM CodecTypeOK == Spec => []TypeOK
<1>1. IInv => TypeOK
  BY DEF IInv
<1> QED
  BY <1>1, CodecInvariant, PTL

(* No decoder of g1.rs accepts two spellings of one point.                 *)
THEOREM CodecCanonical == Spec => []Canonical
<1>1. IInv => Canonical
  BY DEF IInv
<1> QED
  BY <1>1, CodecInvariant, PTL

(* The checked decoders accept the encodings of subgroup points and        *)
(* nothing else.                                                           *)
THEOREM CodecCheckedIsExact == Spec => []CheckedIsExact
<1>1. IInv => CheckedIsExact
  BY DEF IInv
<1> QED
  BY <1>1, CodecInvariant, PTL

(* The unchecked decoders accept the encodings of curve points and nothing *)
(* else, those that blst calls POINT_NOT_IN_GROUP included.                *)
THEOREM CodecUncheckedIsExact == Spec => []UncheckedIsExact
<1>1. IInv => UncheckedIsExact
  BY DEF IInv
<1> QED
  BY <1>1, CodecInvariant, PTL

(* What an encoder wrote for a point comes back as that point.             *)
THEOREM CodecRoundTrip == Spec => []RoundTrip
<1> QED
  BY CodecInvariant, RoundTripFollows, PTL

-----------------------------------------------------------------------------
(* Batch: batch_normalize, sum and msm_variable_base.                      *)

BatchBytes == 0 .. ByteBase - 1

(* The base of bytes, its powers, and scalars that fit.                    *)
LEMMA ScalarSizes ==
  /\ ByteBase \in Nat \ {0} /\ ScalarBytes \in Nat \ {0} /\ 2^ScalarBits \in Nat \ {0}
  /\ R \in Nat /\ 1 \in Scalars /\ ScalarBytes \in 0 .. ScalarBytes
  /\ \A k \in Scalars : /\ k \in Nat /\ k < ByteBase^ScalarBytes
                        /\ k % 2^ScalarBits = k
<1>1. ByteBase \in Nat \ {0} /\ ScalarBytes \in Nat \ {0} /\ R \in Nat /\ R > 1
      /\ R <= 2^ScalarBits /\ R <= ByteBase^ScalarBytes /\ 2^ScalarBits \in Nat
  BY BatchAssumption, ScalarAssumption, BytePowersAssumption, ScalarSizeAssumption
<1>2. ScalarBytes \in 0 .. ScalarBytes
  BY <1>1
<1>3. ByteBase^ScalarBytes \in Nat
  BY <1>2, BytePowersAssumption
<1> DEFINE a == 2^ScalarBits
           b == ByteBase^ScalarBytes
<1>4. a \in Nat /\ b \in Nat /\ R <= a /\ R <= b
  BY <1>1, <1>3
<1> HIDE DEF a, b
<1>5. a # 0 /\ 1 \in Scalars
  BY <1>1, <1>4 DEF Scalars
<1>6. ASSUME NEW k \in Scalars PROVE k \in Nat /\ k < b /\ k % a = k
  <2>1. k \in Nat /\ k < R
    BY <1>1 DEF Scalars
  <2>2. k < a /\ k < b /\ a \in Nat \ {0}
    BY <1>1, <1>4, <1>5, <2>1
  <2>3. k % a = k
    BY <2>1, <2>2
  <2> QED
    BY <2>1, <2>2, <2>3
<1> QED
  BY <1>1, <1>2, <1>4, <1>5, <1>6 DEF a, b

(* BlsScalar::to_bytes and what reads it are inverse.                      *)
LEMMA ScalarRoundTrip ==
  ASSUME NEW k \in Scalars
  PROVE  /\ ToLeBytes(k) \in [1 .. ScalarBytes -> BatchBytes]
         /\ FromLeBytes(ToLeBytes(k)) = k
<1> DEFINE m == ScalarBytes
           q == ByteBase
           w == ToLeBytes(k)
           p == [n \in 0 .. m |-> ByteBase^n]
<1>1. q \in Nat \ {0} /\ m \in Nat /\ k \in Nat /\ k < ByteBase^m /\ m \in 0 .. m
  BY ScalarSizes
<1>2. ArePowers(p, q, m)
  <2>1. p[0] = 1 /\ \A n \in 0 .. m : p[n] \in Nat \ {0}
    BY <1>1, BytePowersAssumption
  <2>2. \A n \in 0 .. m - 1 : n \in 0 .. m /\ n + 1 \in 0 .. m
    BY <1>1
  <2>3. \A n \in 0 .. m - 1 : p[n + 1] = q * p[n]
    BY <2>2, BytePowersAssumption
  <2> QED
    BY <2>1, <2>3 DEF ArePowers
<1>3. \A x \in 1 .. m : p[x - 1] = ByteBase^(x - 1)
  BY <1>1
<1>4. p[m] = ByteBase^m
  BY <1>1
<1> HIDE DEF p
<1>5. \A x \in 1 .. m : w[x] = (k \div p[x - 1]) % q
  BY <1>3 DEF ToLeBytes
<1>6. \A x \in 1 .. m : w[x] \in BatchBytes
  <2> SUFFICES ASSUME NEW x \in 1 .. m PROVE w[x] \in BatchBytes
    OBVIOUS
  <2> DEFINE d == p[x - 1]
             r == k \div d
  <2>1. d \in Nat \ {0}
    <3>1. x - 1 \in 0 .. m
      BY <1>1
    <3> QED
      BY <1>2, <3>1 DEF ArePowers
  <2> HIDE DEF d
  <2>2. r \in Nat
    BY <1>1, <2>1
  <2>3. w[x] = r % q
    BY <1>5 DEF d
  <2> HIDE DEF r, w
  <2>4. r % q \in 0 .. q - 1
    BY <1>1, <2>2
  <2> QED
    BY <2>3, <2>4 DEF BatchBytes
<1>7. w = [x \in 1 .. m |-> w[x]]
  BY DEF ToLeBytes
<1> HIDE DEF w
<1>8. w \in [1 .. m -> BatchBytes]
  BY <1>6, <1>7
<1>9. w \in [1 .. m -> Nat]
  BY <1>1, <1>8 DEF BatchBytes
<1> DEFINE g == CHOOSE f : HornerFold(f, w, q)
<1>10. FromLeBytes(w) = g[DOMAIN w]
  BY DEF FromLeBytes, FoldRight, MapThenFoldSet, HornerFold
<1>11. HornerFold(g, w, q)
  <2> HIDE DEF q, m
  <2> QED
    BY <1>1, <1>9, HornerFoldExists
<1> HIDE DEF g
<1>12. PICK h : IsHorner(h, w, q, m) /\ h[1] = g[DOMAIN w]
  BY <1>1, <1>9, <1>11, HornerFoldIsHorner
<1>13. HasDigits(k, w, p, q, m)
  BY <1>5 DEF HasDigits
<1>14. h[1] = k
  <2> HIDE DEF m, q
  <2>1. k < p[m]
    BY <1>1, <1>4
  <2> QED
    BY <1>1, <1>2, <1>12, <1>13, <2>1, HornerOfDigits
<1> QED
  BY <1>8, <1>10, <1>12, <1>14 DEF w

-----------------------------------------------------------------------------
(* The scalars that msm_variable_base hands over, one after another.       *)

JoinedScalars(ks) == FoldLeft(LAMBDA s, k : s \o ToLeBytes(k), <<>>, ks)

(* Each is where blst looks for it.                                        *)
LEMMA ScalarsAreFound ==
  ASSUME NEW n \in Nat, NEW ks \in [1 .. n -> Scalars]
  PROVE  /\ Len(JoinedScalars(ks)) = n * ScalarBytes
         /\ \A i \in 1 .. n : ScalarAt(JoinedScalars(ks), i, ScalarBits) = ks[i]
<1> DEFINE L == ScalarBytes
           v == [j \in 1 .. n |-> ToLeBytes(ks[j])]
           joined(f) == [t \in SUBSET (1 .. n) |->
                           IF t = {} THEN <<>> ELSE f[t \ {Max(t)}] \o v[Max(t)]]
           joins(f) == [t \in SUBSET DOMAIN ks |->
                          IF t = {} THEN <<>>
                          ELSE f[t \ {Max(t)}] \o ToLeBytes(ks[Max(t)])]
           g == CHOOSE f : JoinFold(f, v)
           s == JoinedScalars(ks)
<1>1. L \in Nat \ {0}
  BY ScalarSizes
<1>2. v \in [1 .. n -> [1 .. L -> BatchBytes]]
  BY ScalarRoundTrip
<1>3. JoinFold(g, v)
  <2> HIDE DEF v, L
  <2> QED
    BY <1>1, <1>2, JoinFoldExists
<1>4. s = g[1 .. n]
  <2>1. \A t \in SUBSET (1 .. n) : t # {} => v[Max(t)] = ToLeBytes(ks[Max(t)])
    BY MaxInRange
  <2>2. \A f : joins(f) = joined(f)
    <3> HIDE DEF v
    <3> QED
      BY <2>1
  <2>3. g = CHOOSE f : f = joined(f)
    BY DEF JoinFold
  <2>4. s = (CHOOSE f : f = joins(f))[DOMAIN ks]
    BY DEF JoinedScalars, FoldLeft, MapThenFoldSet
  <2> HIDE DEF g, joins, joined, s
  <2> QED
    BY <2>2, <2>3, <2>4
<1> HIDE DEF g, L
<1>5. HoldsParts(s, v, n, L, BatchBytes)
  <2> HIDE DEF v, s
  <2> QED
    BY <1>1, <1>2, <1>3, <1>4, JoinsEveryPart
<1>6. ASSUME NEW i \in 1 .. n PROVE ScalarAt(s, i, ScalarBits) = ks[i]
  <2>1. v[i] = ToLeBytes(ks[i])
    OBVIOUS
  <2> HIDE DEF s, v
  <2>2. PartAt(s, i, L) = v[i]
    BY <1>1, <1>2, <1>5, PartIsThere
  <2>3. Stride(ScalarBits) = L
    BY ScalarSizeAssumption DEF L
  <2>4. ScalarAt(s, i, ScalarBits) = FromLeBytes(v[i])
    BY <2>2, <2>3 DEF ScalarAt, PartAt
  <2> QED
    BY <2>1, <2>4, ScalarRoundTrip
<1>7. Len(s) = n * ScalarBytes
  <2> HIDE DEF s, v
  <2> QED
    BY <1>5 DEF HoldsParts, L
<1> QED
  BY <1>6, <1>7

-----------------------------------------------------------------------------
(* Sums of points.                                                         *)

(* The equation that the definition of FoldLeft chooses a solution of,     *)
(* when what it folds adds points.                                         *)
AddFold(g, v) ==
  g = [t \in SUBSET DOMAIN v |-> IF t = {} THEN Inf ELSE Plus(g[t \ {Max(t)}], v[Max(t)])]
Total(v) == (CHOOSE g : AddFold(g, v))[DOMAIN v]

(* That fold is a function that exists, and its values are points.         *)
LEMMA AddFoldExists ==
  ASSUME NEW n \in Nat, NEW v \in [1 .. n -> E]
  PROVE  \E g : AddFold(g, v) /\ g \in [SUBSET (1 .. n) -> E]
<1> DEFINE F == [x \in E \X E |-> Plus(x[1], x[2])]
           pick == [t \in SUBSET (1 .. n) |-> Max(t)]
<1>1. F \in [E \X E -> E] /\ \A P, Q \in E : F[<<P, Q>>] = Plus(P, Q)
  BY GroupAssumption
<1> HIDE DEF F
<1>2. \A t \in SUBSET (1 .. n) : t # {} => pick[t] \in t /\ pick[t] = Max(t)
  BY MaxInRange
<1>3. IsFiniteSet(1 .. n)
  BY FS_Interval
<1> HIDE DEF pick
<1>4. Inf \in E
  BY DEF E
<1>5. PICK g : IsFold(g, E, F, Inf, v, 1 .. n, pick)
  BY <1>1, <1>2, <1>3, <1>4, FoldExists
<1>6. ASSUME NEW t \in SUBSET (1 .. n), t # {}
      PROVE  g[t] = Plus(g[t \ {Max(t)}], v[Max(t)])
  <2>1. g[t \ {Max(t)}] \in E /\ v[Max(t)] \in E
    BY <1>2, <1>5, <1>6 DEF IsFold
  <2>2. g[t] = F[<<g[t \ {Max(t)}], v[Max(t)]>>]
    BY <1>2, <1>5, <1>6 DEF IsFold
  <2> QED
    BY <1>1, <2>1, <2>2
<1>7. g[{}] = Inf
  BY <1>5 DEF IsFold
<1>8. g = [t \in SUBSET (1 .. n) |-> g[t]] /\ DOMAIN v = 1 .. n
  BY <1>5 DEF IsFold
<1>9. AddFold(g, v)
  BY <1>6, <1>7, <1>8 DEF AddFold
<1> QED
  BY <1>5, <1>9 DEF IsFold

(* The solution that Total takes.                                          *)
LEMMA TotalIsFold ==
  ASSUME NEW n \in Nat, NEW v \in [1 .. n -> E]
  PROVE  \E g : AddFold(g, v) /\ Total(v) = g[1 .. n] /\ Total(v) \in E
<1> DEFINE g == CHOOSE f : AddFold(f, v)
<1>1. AddFold(g, v)
  BY AddFoldExists
<1>2. DOMAIN v = 1 .. n
  OBVIOUS
<1>3. Total(v) = g[1 .. n]
  BY <1>2 DEF Total
<1>4. Total(v) \in E
  <2> DEFINE T == {k \in 0 .. n : g[1 .. k] \in E}
  <2> HIDE DEF g
  <2>1. \A t \in SUBSET (1 .. n) :
          g[t] = IF t = {} THEN Inf ELSE Plus(g[t \ {Max(t)}], v[Max(t)])
    BY <1>1, <1>2 DEF AddFold
  <2>2. 0 \in T
    <3>1. 1 .. 0 = {} /\ {} \in SUBSET (1 .. n) /\ 0 \in 0 .. n
      OBVIOUS
    <3>2. g[{}] = Inf /\ Inf \in E
      BY <2>1, <3>1 DEF E
    <3> QED
      BY <3>1, <3>2
  <2>3. ASSUME NEW k \in 0 .. n - 1, k \in T PROVE k + 1 \in T
    <3> DEFINE K == 1 .. k + 1
    <3>1. K \in SUBSET (1 .. n) /\ K # {} /\ Max(K) = k + 1 /\ K \ {k + 1} = 1 .. k
      BY PrefixIndices
    <3> HIDE DEF K
    <3>2. g[K] = Plus(g[1 .. k], v[k + 1])
      BY <2>1, <3>1
    <3>3. g[1 .. k] \in E /\ k + 1 \in 0 .. n /\ v[k + 1] \in E
      BY <2>3
    <3> HIDE DEF T
    <3>4. g[K] \in E
      BY <3>2, <3>3, GroupAssumption
    <3> QED
      BY <3>3, <3>4 DEF T, K
  <2> HIDE DEF T
  <2>4. n \in T
    BY <2>2, <2>3, InductionUpTo
  <2> QED
    BY <1>3, <2>4 DEF T
<1> QED
  BY <1>1, <1>3, <1>4

AddMultiples(s, k, a) ==
  FoldLeftDomain(LAMBDA sum, i : Plus(sum, Times(k[i], a[i])), Inf, s)

(* A fold over indices that adds multiples gives their total.              *)
LEMMA MultiplesAddUp ==
  ASSUME NEW n \in Nat, NEW s, DOMAIN s = 1 .. n, NEW a, NEW k
  PROVE  AddMultiples(s, k, a) = Total([i \in 1 .. n |-> Times(k[i], a[i])])
<1> DEFINE v == [i \in 1 .. n |-> Times(k[i], a[i])]
           x == [i \in DOMAIN s |-> i]
           adds(f) ==
             [t \in SUBSET DOMAIN x |->
                IF t = {} THEN Inf
                ELSE Plus(f[t \ {Max(t)}], Times(k[x[Max(t)]], a[x[Max(t)]]))]
           added(f) ==
             [t \in SUBSET (1 .. n) |-> IF t = {} THEN Inf ELSE Plus(f[t \ {Max(t)}], v[Max(t)])]
<1>1. /\ DOMAIN x = 1 .. n
      /\ \A t \in SUBSET (1 .. n) :
           t # {} => v[Max(t)] = Times(k[x[Max(t)]], a[x[Max(t)]])
  BY MaxInRange
<1>2. \A f : adds(f) = added(f)
  <2> HIDE DEF v, x
  <2> QED
    BY <1>1
<1>3. Total(v) = (CHOOSE f : f = added(f))[1 .. n]
  BY DEF Total, AddFold
<1>4. AddMultiples(s, k, a) = (CHOOSE f : f = adds(f))[DOMAIN x]
  BY DEF AddMultiples, FoldLeftDomain, FoldLeft, MapThenFoldSet
<1> HIDE DEF adds, added, x
<1> QED
  BY <1>1, <1>2, <1>3, <1>4

EnoughBytes(ps, bytes, nbits) == ~(Len(bytes) < Len(ps) * Stride(nbits))
PippengerTerms(ps, bytes, nbits, n) ==
  [i \in 1 .. n |-> Mult(ps[i], ScalarAt(bytes, i, nbits), nbits)]

(* So does blst's, when it has points and enough bytes of scalars.         *)
LEMMA PippengerAddsUp ==
  ASSUME NEW n \in Nat \ {0}, NEW ps \in [1 .. n -> E], NEW bytes, NEW nbits,
         ps \in Seq(E), EnoughBytes(ps, bytes, nbits)
  PROVE  P1sMult(ps, bytes, nbits) = Triples(Total(PippengerTerms(ps, bytes, nbits, n)))
<1> DEFINE term(i) == Mult(ps[i], ScalarAt(bytes, i, nbits), nbits)
           v == [i \in 1 .. n |-> term(i)]
           x == [i \in DOMAIN ps |-> i]
           adds(f) ==
             [t \in SUBSET DOMAIN x |->
                IF t = {} THEN Inf ELSE Plus(f[t \ {Max(t)}], term(x[Max(t)]))]
           added(f) ==
             [t \in SUBSET (1 .. n) |-> IF t = {} THEN Inf ELSE Plus(f[t \ {Max(t)}], v[Max(t)])]
<1>1. ps # <<>>
  <2>1. 1 \in DOMAIN ps /\ 1 \notin DOMAIN <<>>
    OBVIOUS
  <2> QED
    BY <2>1
<1>2. P1sMult(ps, bytes, nbits) =
        Triples(FoldLeftDomain(LAMBDA sum, i : Plus(sum, term(i)), Inf, ps))
  BY <1>1, Zenon DEF P1sMult, EnoughBytes
<1>3. FoldLeftDomain(LAMBDA sum, i : Plus(sum, term(i)), Inf, ps) =
        (CHOOSE f : f = adds(f))[DOMAIN x]
  BY DEF FoldLeftDomain, FoldLeft, MapThenFoldSet
<1> HIDE DEF term
<1>4. /\ DOMAIN x = 1 .. n
      /\ \A t \in SUBSET (1 .. n) : t # {} => v[Max(t)] = term(x[Max(t)])
  BY MaxInRange
<1>5. \A f : adds(f) = added(f)
  <2> HIDE DEF v, x
  <2> QED
    BY <1>4
<1>6. Total(v) = (CHOOSE f : f = added(f))[1 .. n]
  BY DEF Total, AddFold
<1> HIDE DEF adds, added, x
<1>7. P1sMult(ps, bytes, nbits) = Triples(Total(v))
  BY <1>2, <1>3, <1>4, <1>5, <1>6
<1> QED
  BY <1>7 DEF term, PippengerTerms

(* No points add up to infinity.                                           *)
LEMMA TotalOfNone ==
  ASSUME NEW v \in [1 .. 0 -> E]
  PROVE  Total(v) = Inf
<1>1. PICK g : AddFold(g, v) /\ Total(v) = g[1 .. 0]
  BY TotalIsFold
<1>2. 1 .. 0 = {} /\ {} \in SUBSET DOMAIN v
  OBVIOUS
<1>3. g[{}] = Inf
  BY <1>1, <1>2 DEF AddFold
<1> QED
  BY <1>1, <1>2, <1>3

(* The first elements of a sequence.                                       *)
LEMMA PrefixOfSequence ==
  ASSUME NEW A, NEW s \in Seq(A), NEW n \in Nat, n <= Len(s)
  PROVE  /\ SubSeq(s, 1, n) \in Seq(A) /\ Len(SubSeq(s, 1, n)) = n
         /\ SubSeq(s, 1, n) \in [1 .. n -> A]
         /\ \A i \in 1 .. n : SubSeq(s, 1, n)[i] = s[i]
<1> DEFINE t == SubSeq(s, 1, n)
<1>1. t \in Seq(A) /\ Len(t) = n /\ \A i \in 1 .. n : t[i] = s[i]
  OBVIOUS
<1> HIDE DEF t
<1>2. t \in [1 .. n -> A]
  BY <1>1
<1> QED
  BY <1>1, <1>2 DEF t

(* What the shorter of two slices cuts off them.                           *)
LEMMA ShorterPart ==
  ASSUME NEW A, NEW B, NEW s \in Seq(A), NEW t \in Seq(B), NEW n, n = Shorter(s, t)
  PROVE  /\ n \in Nat /\ n <= Len(s) /\ n <= Len(t)
         /\ SubSeq(s, 1, n) \in Seq(A) /\ SubSeq(s, 1, n) \in [1 .. n -> A]
         /\ Len(SubSeq(s, 1, n)) = n /\ \A i \in 1 .. n : SubSeq(s, 1, n)[i] = s[i]
         /\ SubSeq(t, 1, n) \in [1 .. n -> B]
         /\ \A i \in 1 .. n : SubSeq(t, 1, n)[i] = t[i]
<1>1. n \in Nat /\ n <= Len(s) /\ n <= Len(t)
  BY DEF Shorter
<1> QED
  BY <1>1, PrefixOfSequence

(* msm_variable_base returns the total of the multiples.                   *)
LEMMA MsmIsTotal ==
  ASSUME NEW ps \in Seq(E), NEW ks \in Seq(Scalars), NEW n, n = Shorter(ps, ks),
         NEW j \in MsmVariableBase(ps, ks)
  PROVE  /\ j \in Jacobians
         /\ ToAffine(j) = Total([i \in 1 .. n |-> Times(ks[i], ps[i])])
<1> DEFINE v == [i \in 1 .. n |-> Times(ks[i], ps[i])]
           qs == SubSeq(ps, 1, n)
           cs == SubSeq(ks, 1, n)
           bytes == JoinedScalars(cs)
           w == PippengerTerms(qs, bytes, ScalarBits, n)
<1>1. /\ n \in Nat /\ n <= Len(ps) /\ n <= Len(ks)
      /\ qs \in Seq(E) /\ qs \in [1 .. n -> E] /\ Len(qs) = n /\ \A i \in 1 .. n : qs[i] = ps[i]
      /\ cs \in [1 .. n -> Scalars] /\ \A i \in 1 .. n : cs[i] = ks[i]
  BY ShorterPart
<1>2. v \in [1 .. n -> E]
  <2>1. \A i \in 1 .. n : ps[i] \in E /\ ks[i] \in Scalars
    BY <1>1
  <2> QED
    BY <2>1, ScalarAssumption
<1>3. Total(v) \in E
  BY <1>1, <1>2, TotalIsFold
<1>4. MsmVariableBase(ps, ks) = IF n = 0 THEN FromAffine(Inf) ELSE P1sMult(qs, bytes, ScalarBits)
  BY DEF MsmVariableBase, JoinedScalars
<1>5. MsmVariableBase(ps, ks) = Triples(Total(v))
  <2>1. CASE n = 0
    <3>1. v \in [1 .. 0 -> E]
      BY <1>2, <2>1
    <3> HIDE DEF v
    <3>2. Total(v) = Inf
      BY <3>1, TotalOfNone
    <3> QED
      BY <1>4, <2>1, <3>2 DEF FromAffine
  <2>2. CASE n # 0
    <3>1. /\ Len(bytes) = n * ScalarBytes
          /\ \A i \in 1 .. n : ScalarAt(bytes, i, ScalarBits) = cs[i]
      <4> HIDE DEF cs
      <4> QED
        BY <1>1, ScalarsAreFound
    <3> DEFINE len == Len(qs) * Stride(ScalarBits)
    <3>2. EnoughBytes(qs, bytes, ScalarBits)
      <4>1. len = n * ScalarBytes /\ len \in Nat
        BY <1>1, ScalarSizes, ScalarSizeAssumption
      <4> HIDE DEF len, bytes
      <4>2. ~(Len(bytes) < len)
        BY <3>1, <4>1
      <4> QED
        BY <4>2 DEF EnoughBytes, len
    <3>3. P1sMult(qs, bytes, ScalarBits) = Triples(Total(w))
      <4>1. n \in Nat \ {0}
        BY <1>1, <2>2
      <4> HIDE DEF qs, bytes
      <4> QED
        BY <1>1, <3>2, <4>1, PippengerAddsUp
    <3>4. w = v
      <4> HIDE DEF qs, cs, bytes
      <4>1. ASSUME NEW i \in 1 .. n
            PROVE  Mult(qs[i], ScalarAt(bytes, i, ScalarBits), ScalarBits) = Times(ks[i], ps[i])
        <5>1. cs[i] \in Scalars
          BY <1>1
        <5>2. cs[i] % 2^ScalarBits = cs[i]
          BY <5>1, ScalarSizes
        <5> QED
          BY <1>1, <3>1, <5>2 DEF Mult
      <4> QED
        BY <4>1 DEF PippengerTerms
    <3> HIDE DEF w, v, qs, bytes
    <3> QED
      BY <1>4, <2>2, <3>3, <3>4
  <2> QED
    BY <2>1, <2>2
<1> HIDE DEF v
<1>6. j \in Jacobians /\ ToAffine(j) = Total(v)
  BY <1>3, <1>5, TriplesStand
<1> QED
  BY <1>6 DEF v

(* sum folds over sets of triples: each of what it has so far, and the     *)
(* next point.                                                             *)
SumsOf(sums, j) == UNION {ProjAdd(sum, j) : sum \in sums}
SumFold(g, js) ==
  g = [t \in SUBSET DOMAIN js |->
         IF t = {} THEN FromAffine(Inf) ELSE SumsOf(g[t \ {Max(t)}], js[Max(t)])]

(* Triples stand for points of the curve, and a sum has triples.           *)
LEMMA SumTypes ==
  /\ FromAffine(Inf) \subseteq Jacobians /\ \A j \in FromAffine(Inf) : ToAffine(j) = Inf
  /\ \A j \in Jacobians : ToAffine(j) \in E
  /\ \A sums \in SUBSET Jacobians, j \in Jacobians : SumsOf(sums, j) \in SUBSET Jacobians
<1>1. \A P \in E : JacReps(P) \subseteq Jacobians /\ \A j \in JacReps(P) : ToAffine(j) = P
  BY JacobianAssumption DEF Jacobians
<1>2. \A j \in Jacobians : ToAffine(j) \in E
  BY <1>1 DEF Jacobians
<1>3. ASSUME NEW sums \in SUBSET Jacobians, NEW j \in Jacobians
      PROVE  SumsOf(sums, j) \in SUBSET Jacobians
  <2>1. \A sum \in sums : ProjAdd(sum, j) \subseteq Jacobians
    BY <1>1, <1>2, GroupAssumption DEF ProjAdd, Triples
  <2> QED
    BY <2>1 DEF SumsOf
<1>4. Inf \in E
  BY DEF E
<1> QED
  BY <1>1, <1>2, <1>3, <1>4 DEF FromAffine, Triples

(* That fold is a function that exists.                                    *)
LEMMA SumFoldExists ==
  ASSUME NEW n \in Nat, NEW js \in [1 .. n -> Jacobians]
  PROVE  \E g : SumFold(g, js)
<1> DEFINE V == SUBSET Jacobians
           F == [x \in V \X Jacobians |-> SumsOf(x[1], x[2])]
           pick == [t \in SUBSET (1 .. n) |-> Max(t)]
<1>1. /\ F \in [V \X Jacobians -> V]
      /\ \A sums \in V, j \in Jacobians : F[<<sums, j>>] = SumsOf(sums, j)
  BY SumTypes
<1> HIDE DEF F
<1>2. \A t \in SUBSET (1 .. n) : t # {} => pick[t] \in t /\ pick[t] = Max(t)
  BY MaxInRange
<1>3. IsFiniteSet(1 .. n)
  BY FS_Interval
<1> HIDE DEF pick
<1>4. FromAffine(Inf) \in V
  BY SumTypes
<1> HIDE DEF V
<1>5. PICK g : IsFold(g, V, F, FromAffine(Inf), js, 1 .. n, pick)
  BY <1>1, <1>2, <1>3, <1>4, FoldExists
<1>6. ASSUME NEW t \in SUBSET (1 .. n), t # {}
      PROVE  g[t] = SumsOf(g[t \ {Max(t)}], js[Max(t)])
  <2>1. g[t \ {Max(t)}] \in V /\ js[Max(t)] \in Jacobians
    BY <1>2, <1>5, <1>6 DEF IsFold
  <2>2. g[t] = F[<<g[t \ {Max(t)}], js[Max(t)]>>]
    BY <1>2, <1>5, <1>6 DEF IsFold
  <2> QED
    BY <1>1, <2>1, <2>2
<1>7. g[{}] = FromAffine(Inf)
  BY <1>5 DEF IsFold
<1>8. g = [t \in SUBSET (1 .. n) |-> g[t]] /\ DOMAIN js = 1 .. n
  BY <1>5 DEF IsFold
<1>9. SumFold(g, js)
  BY <1>6, <1>7, <1>8 DEF SumFold
<1> QED
  BY <1>9

(* sum returns the total of the points.                                    *)
LEMMA SumIsTotal ==
  ASSUME NEW n \in Nat, NEW js \in [1 .. n -> Jacobians], NEW j \in SumOf(js)
  PROVE  j \in Jacobians /\ ToAffine(j) = Total([i \in 1 .. n |-> ToAffine(js[i])])
<1> DEFINE v == [i \in 1 .. n |-> ToAffine(js[i])]
           g == CHOOSE f : SumFold(f, js)
<1>1. v \in [1 .. n -> E] /\ \A i \in 1 .. n : v[i] = ToAffine(js[i])
  BY SumTypes
<1> HIDE DEF v
<1>2. PICK h : AddFold(h, v) /\ Total(v) = h[1 .. n]
  BY <1>1, TotalIsFold
<1>3. SumFold(g, js)
  BY SumFoldExists
<1>4. SumOf(js) = g[1 .. n]
  <2>1. DOMAIN js = 1 .. n
    OBVIOUS
  <2> QED
    BY <2>1 DEF SumOf, FoldLeft, MapThenFoldSet, SumFold, SumsOf
<1> HIDE DEF g
<1>5. /\ \A t \in SUBSET (1 .. n) :
           h[t] = IF t = {} THEN Inf ELSE Plus(h[t \ {Max(t)}], v[Max(t)])
      /\ \A t \in SUBSET (1 .. n) :
           g[t] = IF t = {} THEN FromAffine(Inf) ELSE SumsOf(g[t \ {Max(t)}], js[Max(t)])
  BY <1>1, <1>2, <1>3 DEF AddFold, SumFold
<1> DEFINE S == {k \in 0 .. n : \A x \in g[1 .. k] : x \in Jacobians /\ ToAffine(x) = h[1 .. k]}
<1>6. 0 \in S
  <2>1. 1 .. 0 = {} /\ {} \in SUBSET (1 .. n) /\ 0 \in 0 .. n
    OBVIOUS
  <2>2. h[{}] = Inf /\ g[{}] = FromAffine(Inf)
    BY <1>5, <2>1
  <2> QED
    BY <2>1, <2>2, SumTypes
<1>7. ASSUME NEW k \in 0 .. n - 1, k \in S PROVE k + 1 \in S
  <2> DEFINE K == 1 .. k + 1
  <2>1. K \in SUBSET (1 .. n) /\ K # {} /\ Max(K) = k + 1 /\ K \ {k + 1} = 1 .. k
    BY PrefixIndices
  <2> HIDE DEF K
  <2>2. h[K] = Plus(h[1 .. k], v[k + 1]) /\ g[K] = SumsOf(g[1 .. k], js[k + 1])
    BY <1>5, <2>1
  <2>3. \A x \in g[1 .. k] : x \in Jacobians /\ ToAffine(x) = h[1 .. k]
    BY <1>7
  <2>4. k + 1 \in 0 .. n /\ js[k + 1] \in Jacobians /\ v[k + 1] = ToAffine(js[k + 1])
    BY <1>1
  <2>5. ASSUME NEW x \in g[K] PROVE x \in Jacobians /\ ToAffine(x) = h[K]
    <3>1. PICK y \in g[1 .. k] : x \in ProjAdd(y, js[k + 1])
      BY <2>2 DEF SumsOf
    <3>2. y \in Jacobians /\ ToAffine(y) = h[1 .. k]
      BY <2>3
    <3>3. Plus(ToAffine(y), ToAffine(js[k + 1])) \in E
      BY <2>4, <3>2, SumTypes, GroupAssumption
    <3>4. x \in Jacobians /\ ToAffine(x) = Plus(ToAffine(y), ToAffine(js[k + 1]))
      BY <3>1, <3>3, TriplesStand DEF ProjAdd
    <3> QED
      BY <2>2, <2>4, <3>2, <3>4
  <2> QED
    BY <2>4, <2>5 DEF K
<1> HIDE DEF S
<1>8. n \in S
  BY <1>6, <1>7, InductionUpTo
<1>9. j \in g[1 .. n]
  BY <1>4
<1> QED
  BY <1>2, <1>8, <1>9 DEF S, v

-----------------------------------------------------------------------------
(* The functions over slices in use.                                       *)

(* A caller's slices hold points and scalars, and the two results are      *)
(* those of the slices they were asked of.                                 *)
BatchInv ==
  /\ points \in Seq(Jacobians) /\ affines \in Seq(E) /\ scalars \in Seq(Scalars)
  /\ called = "sum" => product \in SumOf(points)
  /\ called = "msm" => product \in MsmVariableBase(affines, scalars)

WritesPointwise ==
  called' = "batch_normalize" =>
    /\ Len(affines') = Len(affines)
    /\ \A i \in DOMAIN affines :
         affines'[i] = IF i \in DOMAIN points THEN FromProjective(points[i]) ELSE affines[i]

(* batch_normalize converts the points that both slices have.              *)
LEMMA BatchNormalizes ==
  ASSUME NEW js \in Seq(Jacobians), NEW out \in Seq(E)
  PROVE  BatchNormalize(js, out) =
           [i \in DOMAIN out |-> IF i \in DOMAIN js THEN ToAffine(js[i]) ELSE out[i]]
<1> DEFINE n == Shorter(js, out)
           part == SubSeq(js, 1, n)
           a == P1sToAffine(part)
           u == BatchNormalize(js, out)
<1>1. n \in Nat /\ n <= Len(js) /\ n <= Len(out)
  BY DEF Shorter
<1>2. /\ DOMAIN part = 1 .. n
      /\ \A i \in 1 .. n : part[i] = js[i]
  BY <1>1, PrefixOfSequence
<1>3. u = IF n = 0 THEN out ELSE [i \in DOMAIN out |-> IF i <= n THEN a[i] ELSE out[i]]
  BY DEF BatchNormalize
<1> HIDE DEF n, part, u
<1>4. \A i \in 1 .. n : a[i] = ToAffine(js[i])
  BY <1>2 DEF P1sToAffine
<1> HIDE DEF a
<1>5. \A i \in DOMAIN out : /\ i \in DOMAIN js <=> i <= n
                            /\ i <= n => i \in 1 .. n
  <2> DEFINE p == Len(js)
             q == Len(out)
  <2>1. p \in Nat /\ q \in Nat
    OBVIOUS
  <2>2. DOMAIN js = 1 .. p /\ DOMAIN out = 1 .. q
    OBVIOUS
  <2>3. n = IF p < q THEN p ELSE q
    BY DEF n, Shorter
  <2> HIDE DEF p, q
  <2>4. \A i \in 1 .. q : (i \in 1 .. p <=> i <= n) /\ (i <= n => i \in 1 .. n)
    BY <2>1, <2>3
  <2> QED
    BY <2>2, <2>4
<1>6. CASE n = 0
  <2>1. \A i \in DOMAIN out : i \notin DOMAIN js
    <3>1. \A i \in DOMAIN out : i \in Nat \ {0}
      OBVIOUS
    <3> QED
      BY <1>5, <1>6, <3>1
  <2>2. out = [i \in DOMAIN out |-> out[i]]
    OBVIOUS
  <2> QED
    BY <1>3, <1>6, <2>1, <2>2 DEF u
<1>7. CASE n # 0
  BY <1>3, <1>4, <1>5, <1>7 DEF u
<1> QED
  BY <1>6, <1>7

(* Hence points of the curve, as many as there were.                       *)
LEMMA NormalizedSlice ==
  ASSUME NEW js \in Seq(Jacobians), NEW out \in Seq(E)
  PROVE  /\ BatchNormalize(js, out) \in Seq(E)
         /\ Len(BatchNormalize(js, out)) = Len(out)
         /\ \A i \in DOMAIN out :
              BatchNormalize(js, out)[i] =
                IF i \in DOMAIN js THEN FromProjective(js[i]) ELSE out[i]
<1> DEFINE u == BatchNormalize(js, out)
           n == Len(out)
<1>1. u = [i \in DOMAIN out |-> IF i \in DOMAIN js THEN ToAffine(js[i]) ELSE out[i]]
  BY BatchNormalizes
<1>2. /\ n \in Nat /\ DOMAIN out = 1 .. n
      /\ \A i \in DOMAIN out : out[i] \in E
      /\ \A i \in DOMAIN js : js[i] \in Jacobians
  OBVIOUS
<1> HIDE DEF u, n
<1>3. u \in [1 .. n -> E]
  BY <1>1, <1>2, SumTypes
<1>4. u \in Seq(E) /\ Len(u) = n
  BY <1>2, <1>3, SeqDef
<1> QED
  BY <1>1, <1>4 DEF FromProjective, u, n

(* Every step keeps it, and writes point by point.                         *)
LEMMA BatchStep == BatchInv /\ [BatchNext]_batchVars => BatchInv' /\ [WritesPointwise]_batchVars
<1> SUFFICES ASSUME BatchInv, [BatchNext]_batchVars
             PROVE  BatchInv' /\ [WritesPointwise]_batchVars
  OBVIOUS
<1>1. points \in Seq(Jacobians) /\ affines \in Seq(E) /\ scalars \in Seq(Scalars)
  BY DEF BatchInv
<1>2. CASE PushPoint
  <2>1. PICK j \in Points : points' = Append(points, j)
    BY <1>2 DEF PushPoint
  <2>2. points' \in Seq(Jacobians)
    BY <1>1, <2>1, BatchAssumption
  <2> QED
    BY <1>1, <1>2, <2>2 DEF PushPoint, BatchInv, WritesPointwise
<1>3. CASE PushRoom
  <2>1. affines' = Append(affines, Gen) /\ Gen \in E
    BY <1>3, SubgroupAssumption DEF PushRoom
  <2>2. affines' \in Seq(E)
    BY <1>1, <2>1
  <2> QED
    BY <1>1, <1>3, <2>2 DEF PushRoom, BatchInv, WritesPointwise
<1>4. CASE PushScalar
  <2>1. PICK k \in Multipliers : scalars' = Append(scalars, k)
    BY <1>4 DEF PushScalar
  <2>2. scalars' \in Seq(Scalars)
    BY <1>1, <2>1, BatchAssumption
  <2> QED
    BY <1>1, <1>4, <2>2 DEF PushScalar, BatchInv, WritesPointwise
<1>5. CASE CallBatchNormalize
  BY <1>1, <1>5, NormalizedSlice DEF CallBatchNormalize, BatchInv, WritesPointwise
<1>6. CASE CallMsm
  BY <1>1, <1>6 DEF CallMsm, BatchInv, WritesPointwise
<1>7. CASE CallSum
  BY <1>1, <1>7 DEF CallSum, BatchInv, WritesPointwise
<1>8. CASE UNCHANGED batchVars
  BY <1>8 DEF batchVars, BatchInv
<1> QED
  BY <1>2, <1>3, <1>4, <1>5, <1>6, <1>7, <1>8 DEF BatchNext

(* After any sequence of pushes and calls the slices and the results are   *)
(* what BatchInv says.                                                     *)
THEOREM BatchInductive == BatchSpec => []BatchInv
<1>1. BatchInit => BatchInv
  <2> SUFFICES ASSUME BatchInit PROVE BatchInv
    OBVIOUS
  <2>1. <<>> \in Seq(Jacobians) /\ <<>> \in Seq(E) /\ <<>> \in Seq(Scalars)
    OBVIOUS
  <2> QED
    BY <2>1 DEF BatchInit, BatchInv
<1>2. BatchInv /\ [BatchNext]_batchVars => BatchInv'
  BY BatchStep
<1> QED
  BY <1>1, <1>2, PTL DEF BatchSpec

(* batch_normalize writes what converting one point at a time would, and   *)
(* nothing where it has no points.                                         *)
THEOREM BatchNormalizesPointwise == BatchSpec => BatchIsPointwise
<1>1. BatchInv /\ [BatchNext]_batchVars => [WritesPointwise]_batchVars
  BY BatchStep
<1> QED
  BY <1>1, BatchInductive, PTL DEF BatchSpec, BatchIsPointwise, WritesPointwise

(* msm_variable_base adds the multiples of as many points as have scalars. *)
THEOREM MsmAddsMultiples == BatchSpec => []MsmIsSum
<1>1. BatchInv => MsmIsSum
  <2> SUFFICES ASSUME BatchInv, called = "msm"
               PROVE  ToAffine(product) =
                        AddMultiples(SubSeq(affines, 1, Shorter(affines, scalars)), scalars, affines)
    BY DEF MsmIsSum, AddMultiples
  <2> DEFINE n == Shorter(affines, scalars)
             s == SubSeq(affines, 1, n)
  <2>1. affines \in Seq(E) /\ scalars \in Seq(Scalars)
        /\ product \in MsmVariableBase(affines, scalars)
    BY DEF BatchInv
  <2>2. ToAffine(product) = Total([i \in 1 .. n |-> Times(scalars[i], affines[i])])
    BY <2>1, MsmIsTotal
  <2>3. n \in Nat /\ DOMAIN s = 1 .. n
    BY <2>1, ShorterPart
  <2> HIDE DEF n, s
  <2>4. AddMultiples(s, scalars, affines) =
          Total([i \in 1 .. n |-> Times(scalars[i], affines[i])])
    BY <2>3, MultiplesAddUp
  <2> QED
    BY <2>2, <2>4 DEF n, s
<1> QED
  BY <1>1, BatchInductive, PTL

(* sum, one triple at a time, and a multi-scalar multiplication of the     *)
(* normalized points by ones, through a buffer of bytes, give one point.   *)
THEOREM SumAgreesWithMsm == BatchSpec => []SumIsMsmOfOnes
<1>1. BatchInv => SumIsMsmOfOnes
  <2> DEFINE ones == [i \in DOMAIN points |-> 1]
             ps == P1sToAffine(points)
             n == Len(points)
             v == [i \in 1 .. n |-> ToAffine(points[i])]
  <2> SUFFICES ASSUME BatchInv, called = "sum", NEW j \in MsmVariableBase(ps, ones)
               PROVE  ToAffine(j) = ToAffine(product)
    BY DEF SumIsMsmOfOnes
  <2>1. points \in Seq(Jacobians) /\ product \in SumOf(points)
    BY DEF BatchInv
  <2>2. n \in Nat /\ DOMAIN points = 1 .. n /\ points \in [1 .. n -> Jacobians]
    BY <2>1
  <2> HIDE DEF n
  <2>3. ToAffine(product) = Total(v)
    BY <2>1, <2>2, SumIsTotal
  <2>4. ps \in [1 .. n -> E] /\ ones \in [1 .. n -> Scalars]
    BY <2>2, SumTypes, ScalarSizes DEF P1sToAffine
  <2>5. \A i \in 1 .. n : ps[i] = ToAffine(points[i]) /\ ones[i] = 1 /\ ps[i] \in E
    BY <2>2, <2>4 DEF P1sToAffine
  <2> HIDE DEF ps, ones
  <2>6. /\ ps \in Seq(E) /\ ones \in Seq(Scalars)
        /\ Len(ps) = n /\ Len(ones) = n
    BY <2>2, <2>4, SeqDef
  <2>7. Shorter(ps, ones) = n
    BY <2>2, <2>6 DEF Shorter
  <2>8. ToAffine(j) = Total([i \in 1 .. n |-> Times(ones[i], ps[i])])
    BY <2>6, <2>7, MsmIsTotal
  <2>9. [i \in 1 .. n |-> Times(ones[i], ps[i])] = v
    BY <2>5, BatchAssumption
  <2> HIDE DEF v
  <2> QED
    BY <2>3, <2>8, <2>9
<1> QED
  BY <1>1, BatchInductive, PTL
=============================================================================
