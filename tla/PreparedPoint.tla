---------------------------- MODULE PreparedPoint ---------------------------
(***************************************************************************)
(* G2Prepared of backend_blst/pairings.rs, which is a G2Affine under       *)
(* another name, and the stored forms of the two types: g1/rkyv.rs and     *)
(* g2/rkyv.rs archive an affine point as its compressed bytes,             *)
(* pairings/rkyv.rs archives a G2Prepared as its raw bytes, and serde      *)
(* writes a G2Prepared compressed.                                         *)
(***************************************************************************)
EXTENDS AffinePoint

CONSTANTS
  Reduced(_),  \* the field element that arithmetic takes a word for
  Flags        \* what the last byte of a raw archive can be, 0 and 1 among it

ASSUME ReducedAssumption ==
  /\ \A w \in Words : Reduced(w) \in Field
  /\ \A w \in Field : Reduced(w) = w

ASSUME FlagsAssumption == {0, 1} \subseteq Flags

-----------------------------------------------------------------------------
(* blst_p2_affine_on_curve reduces as it computes, so it may accept        *)
(* coordinates that are not canonical; infinity is recognised by limbs.    *)
OnCurve(P) == P = Inf \/ <<Reduced(P[1]), Reduced(P[2])>> \in Curve

ArchivedPrepared == [x : Words, y : Words, flag : Flags]

IsCanonical(w) == w \in Field

(* Without the identity test, the limbs of infinity pass under flag 0.     *)
ValidWithoutIdentityTest(b) ==
  IF b.flag # 0 THEN b = ToRawBytes(Inf)
  ELSE IsCanonical(b.x) /\ IsCanonical(b.y) /\ OnCurve(FromSliceUnchecked(b))

(* Any flag but 0 means infinity: only its own encoding may say so.        *)
ValidForAnyFlag(b) ==
  \/ b.flag # 0
  \/ IsCanonical(b.x) /\ IsCanonical(b.y)
       /\ OnCurve(FromSliceUnchecked(b)) /\ ~AffineIsInf(FromSliceUnchecked(b))

ValidOnCurveOnly(b) ==
  IF b.flag # 0 THEN b = ToRawBytes(Inf)
  ELSE OnCurve(FromSliceUnchecked(b)) /\ ~AffineIsInf(FromSliceUnchecked(b))

(* g2_prepared_raw_bytes_are_valid                                         *)
PreparedBytesAreValid(b) ==
  IF b.flag # 0 THEN b = ToRawBytes(Inf)
  ELSE /\ IsCanonical(b.x) /\ IsCanonical(b.y)
       /\ OnCurve(FromSliceUnchecked(b))
       /\ ~AffineIsInf(FromSliceUnchecked(b))

PreparedFromBytesChecked(b) ==
  CtOption(FromSliceUnchecked(b), PreparedBytesAreValid(b))

(* What each stored form of a value is, and what reading it back gives.    *)
ToStored(t, P) == IF t = "prepared" THEN ToRawBytes(P) ELSE ToBytes(P)
FromStored(t, b) ==
  CASE t = "affine" -> FromBytes(b)
    [] t = "prepared" -> PreparedFromBytesChecked(b)
    [] t = "prepared serde" -> SerializableFromBytes(b)

(* The points a form vouches for: the archive of a G2Prepared is not       *)
(* checked for the subgroup, its serde form and archived points are.       *)
Vouched(t) == IF t = "prepared" THEN E ELSE Subgroup
=============================================================================
