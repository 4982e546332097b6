----------------------------- MODULE AffinePoint ----------------------------
(***************************************************************************)
(* The affine point type: G1Affine of backend_blst/g1.rs and, with         *)
(* Name = "G2", G2Affine of g2.rs, which differs only in the error codes   *)
(* its unchecked decoders accept.  Each operator is one method.            *)
(***************************************************************************)
EXTENDS Blst

CONSTANT Name     \* which of the two source files: "G1" or "G2"

(* A curve whose decoders refuse POINT_NOT_IN_GROUP has no point with      *)
(* x = 0 (on the G2 twist x = 0 would need a root of the non-residue       *)
(* 4(1 + i)).                                                              *)
ASSUME NameAssumption ==
  /\ Name \in {"G1", "G2"}
  /\ Name = "G2" => \A P \in Curve : P[1] # Zero

-----------------------------------------------------------------------------
(* Encoders.                                                               *)

RawBytes == [x : Field, y : Field, flag : {0, 1}]

(* The raw layout is dusk's, whose identity is (0, 1) with the flag set.   *)
ToRawBytes(P) ==
  IF AffineIsInf(P) THEN [x |-> Zero, y |-> One, flag |-> 1]
                    ELSE [x |-> P[1], y |-> P[2], flag |-> 0]

ToBytes(P) == Compress(P)
ToUncompressed(P) == Serialize(P)

-----------------------------------------------------------------------------
(* Decoders.  A Result or a CtOption is the pair of a verdict and a value; *)
(* the value counts only under a true verdict.                             *)

CtOption(v, c) == [is_some |-> c, value |-> v]
Err == CtOption(Inf, FALSE)

(* Operators whose name says what they leave out are not the code: they    *)
(* stand in for the definition below them when the properties are tested   *)
(* against a plausible mistake.                                            *)
FlagsIgnoringCompression(b) == ~b.sort

HasValidUncompressedFlags(b) == ~(b.comp \/ b.sort)

SuccessOnly(err) == err = "SUCCESS"

UncheckedDecodeSucceeded(err) ==
  err = "SUCCESS" \/ (Name = "G1" /\ err = "POINT_NOT_IN_GROUP")

FromBytesUnchecked(b) ==
  LET d == Uncompress(b)
  IN  CtOption(d.out, UncheckedDecodeSucceeded(d.err))

(* Serializable::from_bytes: two early returns.                            *)
SerializableFromBytes(b) ==
  LET d == Uncompress(b)
  IN  IF d.err # "SUCCESS" THEN Err
      ELSE IF ~AffineInGroup(d.out) THEN Err
      ELSE CtOption(d.out, TRUE)

(* GroupEncoding::from_bytes, behind from_compressed.                      *)
FromBytes(b) ==
  LET d == Uncompress(b)
      on_curve == d.err = "SUCCESS"
  IN  CtOption(d.out, on_curve /\ AffineInGroup(d.out))

(* The guard both uncompressed decoders put before blst_p1_deserialize.    *)
GuardedDeserialize(b) ==
  IF HasValidUncompressedFlags(b) THEN Deserialize(b) ELSE Failed("BAD_ENCODING")

FromUncompressed(b) ==
  LET d == GuardedDeserialize(b)
  IN  CtOption(d.out, d.err = "SUCCESS" /\ AffineInGroup(d.out))

FromUncompressedUnchecked(b) ==
  LET d == GuardedDeserialize(b)
  IN  CtOption(d.out, UncheckedDecodeSucceeded(d.err))

FromSliceIgnoringFlag(b) == <<b.x, b.y>>

FromSliceUnchecked(b) == IF b.flag # 0 THEN Inf ELSE <<b.x, b.y>>

(* serde: the hex text must spell exactly as many bytes as a compressed    *)
(* point has.                                                              *)
DeserializeHex(f, b) ==
  IF f = "compressed" THEN SerializableFromBytes(b) ELSE Err

-----------------------------------------------------------------------------
(* Equality, selection and conversion.                                     *)

(* derive(PartialEq) is blst's equality of affine points; ct_eq compares   *)
(* compressed bytes.                                                       *)
AffineEq(P, Q) == P = Q
AffineCtEq(P, Q) == ToBytes(P) = ToBytes(Q)

AffineSelect(P, Q, c) ==
  <<IF c THEN Q[1] ELSE P[1], IF c THEN Q[2] ELSE P[2]>>

(* From<G1Affine> for G1Projective, and back.                              *)
FromAffine(P) == Triples(P)
FromProjective(j) == ToAffine(j)

(* Neg goes through a projective triple and back.                          *)
AffineNeg(P) ==
  {FromProjective(n) : n \in UNION {Triples(Minus(ToAffine(j))) : j \in FromAffine(P)}}
=============================================================================
