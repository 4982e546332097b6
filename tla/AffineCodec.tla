----------------------------- MODULE AffineCodec ----------------------------
(***************************************************************************)
(* The decoders of an affine point in use: bytes appear, written by an     *)
(* encoder of the library or coming from anywhere, and a receiver decodes  *)
(* them through any of the entry points, one after another.                *)
(***************************************************************************)
EXTENDS AffinePoint

VARIABLES
  form,     \* which encoding `wire` holds, "none" when nothing is there
  wire,     \* the bytes
  sent,     \* ghost: {P} when a library encoder wrote them for P, else {}
  got,      \* the point the receiver holds
  call,     \* the decoder called last on these bytes, "none" before any
  is_some   \* its verdict

vars == <<form, wire, sent, got, call, is_some>>

NoBytes == "no bytes"

CheckedCompressed == {"Serializable::from_bytes", "GroupEncoding::from_bytes"}
Checked == CheckedCompressed \cup {"from_uncompressed"}
Unchecked == {"from_bytes_unchecked", "from_uncompressed_unchecked"}
Decoders == Checked \cup Unchecked \cup {"serde", "from_slice_unchecked"}

Init ==
  /\ form = "none" /\ wire = NoBytes /\ sent = {}
  /\ got = Inf                           \* Default
  /\ call = "none" /\ is_some = FALSE

Put(f, b, s) ==
  /\ form = "none"
  /\ form' = f /\ wire' = b /\ sent' = s
  /\ UNCHANGED <<got, call, is_some>>

SendCompressed == \E P \in E : Put("compressed", ToBytes(P), {P})
SendUncompressed == \E P \in E : Put("uncompressed", ToUncompressed(P), {P})
SendRaw == \E P \in E : Put("raw", ToRawBytes(P), {P})

(* Bytes from anywhere.  Raw bytes only ever come from to_raw_bytes: that  *)
(* is the contract of from_slice_unchecked.                                *)
ArriveCompressed == \E b \in CompressedBytes : Put("compressed", b, {})
ArriveUncompressed == \E b \in UncompressedBytes : Put("uncompressed", b, {})

Return(f, entry, opt) ==
  /\ form = f
  /\ call' = entry /\ is_some' = opt.is_some
  /\ got' = IF opt.is_some THEN opt.value ELSE got
  /\ UNCHANGED <<form, wire, sent>>

CallSerializable ==
  Return("compressed", "Serializable::from_bytes", SerializableFromBytes(wire))
CallFromBytes ==
  Return("compressed", "GroupEncoding::from_bytes", FromBytes(wire))
CallFromBytesUnchecked ==
  Return("compressed", "from_bytes_unchecked", FromBytesUnchecked(wire))
CallFromUncompressed ==
  Return("uncompressed", "from_uncompressed", FromUncompressed(wire))
CallFromUncompressedUnchecked ==
  Return("uncompressed", "from_uncompressed_unchecked",
         FromUncompressedUnchecked(wire))
CallFromSliceUnchecked ==
  Return("raw", "from_slice_unchecked", CtOption(FromSliceUnchecked(wire), TRUE))
CallSerde ==
  /\ form \in {"compressed", "uncompressed"}
  /\ Return(form, "serde", DeserializeHex(form, wire))

Drop ==
  /\ form # "none"
  /\ form' = "none" /\ wire' = NoBytes /\ sent' = {}
  /\ got' = Inf /\ call' = "none" /\ is_some' = FALSE

Next ==
  \/ SendCompressed \/ SendUncompressed \/ SendRaw
  \/ ArriveCompressed \/ ArriveUncompressed
  \/ CallSerializable \/ CallFromBytes \/ CallFromBytesUnchecked
  \/ CallFromUncompressed \/ CallFromUncompressedUnchecked
  \/ CallFromSliceUnchecked \/ CallSerde
  \/ Drop

Spec == Init /\ [][Next]_vars

-----------------------------------------------------------------------------
(* Properties.                                                             *)

TypeOK ==
  /\ \/ form = "none" /\ wire = NoBytes
     \/ form = "compressed" /\ wire \in CompressedBytes
     \/ form = "uncompressed" /\ wire \in UncompressedBytes
     \/ form = "raw" /\ wire \in RawBytes
  /\ sent \in SUBSET E
  /\ got \in E
  /\ call \in Decoders \cup {"none"}
  /\ is_some \in BOOLEAN

(* The points that `wire` is the encoding of.                              *)
EncodedIn(S) ==
  {P \in S : \/ form = "compressed" /\ ToBytes(P) = wire
             \/ form = "uncompressed" /\ ToUncompressed(P) = wire
             \/ form = "raw" /\ ToRawBytes(P) = wire}

(* No decoder, checked or not, accepts a second spelling of a point: what  *)
(* was accepted is byte for byte what encoding the result gives.  This is  *)
(* where the flag guard of the uncompressed decoders, the canonicity of    *)
(* the coordinates and the sort bit all have to work together.             *)
Canonical == is_some => EncodedIn({got}) = {got}

(* The checked decoders accept exactly the encodings of subgroup points,   *)
(* whichever of the three code paths is taken.                             *)
CheckedIsExact ==
  call \in Checked => (is_some <=> EncodedIn(Subgroup) # {})

(* The unchecked decoders accept exactly the encodings of curve points,    *)
(* those with x = 0 that `blst` reports as POINT_NOT_IN_GROUP included.    *)
UncheckedIsExact ==
  call \in Unchecked => (is_some <=> EncodedIn(E) # {})

(* A point that an encoder wrote comes back as itself from every decoder   *)
(* of that encoding, unless it is outside the subgroup and the decoder     *)
(* checks; only serde may refuse for the length of the text.               *)
RoundTrip ==
  \A P \in sent :
    /\ is_some => got = P
    /\ call \in Unchecked \cup {"from_slice_unchecked"} => is_some
    /\ call \in Checked => (is_some <=> P \in Subgroup)
    /\ call = "serde" => (is_some <=> form = "compressed" /\ P \in Subgroup)
=============================================================================
