------------------------------- MODULE RawLimbs -----------------------------
(***************************************************************************)
(* The raw form of a value, byte by byte: the limb helpers of              *)
(* backend_blst/mod.rs, from_slice_unchecked and to_raw_bytes of g1.rs and *)
(* g2.rs, and the canonicity test of pairings/rkyv.rs.  A slice of any     *)
(* length is read into the limbs of a point of either curve, tested limb   *)
(* by limb, and written back.                                              *)
(***************************************************************************)
EXTENDS Limbs

CONSTANTS
  FieldCount,     \* for each curve, the field elements of a point: 2 and 4
  IdentityBytes,  \* dusk's raw identities, whose last byte is not zero
  Slices          \* the slices that callers pass

Curves == {"G1", "G2"}
RawSize(c) == FieldCount[c] * FieldBytes + 1
LimbCount(c) == FieldCount[c] * LimbsPerField

ASSUME RawAssumption ==
  /\ FieldCount \in [Curves -> Nat \ {0}]
  /\ \A c \in Curves : /\ IdentityBytes[c] \in [1 .. RawSize(c) -> Bytes]
                       /\ IdentityBytes[c][RawSize(c)] # 0
                       /\ Slices[c] \subseteq Seq(Bytes)

-----------------------------------------------------------------------------
(* EveryPiece and FlagOfLongerSlices are not the code: each stands in for  *)
(* the definition below it when a property is tested for what it sees.     *)

ZeroLimbs(c) == [j \in 1 .. LimbCount(c) |-> 0]

(* One slicing expression of from_slice_unchecked: bytes[from .. to], read *)
(* only when the slice goes beyond `from`, which the first need not ask.   *)
(* G2 reads one field element at a time, G1 all in one go.                 *)
RawLength(c, s) == Lesser(Len(s), RawSize(c) - 1)
PieceBytes(c) == IF c = "G2" THEN FieldBytes ELSE RawSize(c) - 1
Pieces(c) == (RawSize(c) - 1) \div PieceBytes(c)
From(c, n) == (n - 1) * PieceBytes(c)
To(c, s, n) == Lesser(RawLength(c, s), n * PieceBytes(c))
EveryPiece(c, s, n) == TRUE
PieceIsRead(c, s, n) == n = 1 \/ RawLength(c, s) > From(c, n)

(* &s[from .. to].  Out of bounds it is a panic; the step that takes it    *)
(* records the bounds for SlicesInBounds, and goes on with what there is.  *)
Slice(s, from, to) == SubSeq(s, from + 1, Lesser(to, Len(s)))

FlagOfLongerSlices(c, s) == Len(s) > RawSize(c) /\ s[RawSize(c)] # 0
SaysIdentity(c, s) == Len(s) >= RawSize(c) /\ s[RawSize(c)] # 0

(* to_raw_bytes, for limbs that are not all zero and for the identity.     *)
RawBytesOf(c, limbs) ==
  IF limbs = ZeroLimbs(c) THEN IdentityBytes[c]
                          ELSE WriteRawLimbs(limbs) \o <<0>>

-----------------------------------------------------------------------------
VARIABLES
  curve, slice, \* what is read, and from which bytes
  pc,         \* "idle", "reading", "testing" or "done"
  out,        \* the limbs read
  piece,      \* the piece read next
  range,      \* ghost: the bounds <<from, to>> of the last slicing expression
  element, i, \* the field element and limb tested next
  canonical   \* the test's answer, "unknown" before

vars == <<curve, slice, pc, out, piece, range, element, i, canonical>>

Init ==
  /\ curve = "G1" /\ slice = <<>> /\ pc = "idle" /\ out = ZeroLimbs("G1")
  /\ piece = 1 /\ range = <<0, 0>> /\ element = 1 /\ i = LimbsPerField
  /\ canonical = "unknown"

Call == \E c \in Curves : \E s \in Slices[c] :
  /\ pc = "idle"
  /\ curve' = c /\ slice' = s /\ out' = ZeroLimbs(c)
  /\ pc' = IF SaysIdentity(c, s) THEN "done" ELSE "reading"
  /\ UNCHANGED <<piece, range, element, i, canonical>>

ReadPiece ==
  /\ pc = "reading" /\ piece <= Pieces(curve)
  /\ LET from == From(curve, piece)
         to == To(curve, slice, piece)
     IN  IF PieceIsRead(curve, slice, piece)
         THEN /\ range' = <<from, to>>
              /\ out' = ReadRawLimbs(Slice(slice, from, to), out,
                                     from \div LimbBytes)
         ELSE UNCHANGED <<range, out>>
  /\ piece' = piece + 1
  /\ UNCHANGED <<curve, slice, pc, element, i, canonical>>

(* The archive of a G2Prepared has exactly RawSize bytes, and is tested.   *)
EndOfRead ==
  /\ pc = "reading" /\ piece > Pieces(curve)
  /\ pc' = IF curve = "G2" /\ Len(slice) = RawSize(curve) THEN "testing" ELSE "done"
  /\ UNCHANGED <<curve, slice, out, piece, range, element, i, canonical>>

(* `all` goes to the next field element while the test holds.              *)
TestLimb ==
  /\ pc = "testing"
  /\ LET verdict == LimbVerdict(LimbOf(slice, element, i), i)
         last == element = FieldCount[curve]
     IN  /\ i' = IF verdict = "go on" THEN i - 1 ELSE LimbsPerField
         /\ element' = IF verdict = "less" /\ ~last THEN element + 1 ELSE element
         /\ pc' = IF verdict = "not less" \/ (verdict = "less" /\ last)
                  THEN "done" ELSE "testing"
         /\ canonical' = CASE verdict = "not less" -> "no"
                           [] verdict = "less" /\ last -> "yes"
                           [] OTHER -> "unknown"
  /\ UNCHANGED <<curve, slice, out, piece, range>>

Return ==
  /\ pc = "done"
  /\ curve' = "G1" /\ slice' = <<>> /\ pc' = "idle" /\ out' = ZeroLimbs("G1")
  /\ piece' = 1
  /\ range' = <<0, 0>> /\ element' = 1 /\ i' = LimbsPerField
  /\ canonical' = "unknown"

Next == Call \/ ReadPiece \/ EndOfRead \/ TestLimb \/ Return

Spec == Init /\ [][Next]_vars

-----------------------------------------------------------------------------
(* Properties.                                                             *)

(* No slicing expression goes out of bounds, which would be a panic, even  *)
(* when the slice ends before or inside a field element.                   *)
SlicesInBounds == range[1] <= range[2] /\ range[2] <= Len(slice)

(* Read in one go or in pieces, a limb is the integer of its own bytes, or *)
(* zero where the slice does not hold all of them.                         *)
ReadsWhatIsThere ==
  pc \in {"testing", "done"} =>
    \A j \in 1 .. LimbCount(curve) :
      out[j] = IF SaysIdentity(curve, slice) \/ j * LimbBytes > Len(slice) THEN 0
               ELSE IntegerOfBytes(SubSeq(slice, (j - 1) * LimbBytes + 1,
                                          j * LimbBytes))

Element(c) ==
  SubSeq(out, (c - 1) * LimbsPerField + 1, c * LimbsPerField)

(* The test says whether every field element is below the prime.           *)
CanonicalIsExact ==
  canonical # "unknown" =>
    (canonical = "yes" <=>
       \A c \in 1 .. FieldCount[curve] : IntegerOf(Element(c)) < IntegerOf(Modulus))

(* What was read from a full slice is written back as the same bytes,      *)
(* unless it is the identity, of which there is only one encoding.         *)
WritesWhatItRead ==
  pc = "done" /\ Len(slice) = RawSize(curve) =>
    \/ RawBytesOf(curve, out) = slice
    \/ /\ RawBytesOf(curve, out) = IdentityBytes[curve]
       /\ out = ZeroLimbs(curve)
=============================================================================
