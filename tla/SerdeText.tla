------------------------------ MODULE SerdeText -----------------------------
(***************************************************************************)
(* The serde form of G1Affine, G2Affine and G2Prepared: the serde_support  *)
(* modules of g1.rs, g2.rs and pairings.rs.  A value travels as the text   *)
(* of its compressed encoding in hexadecimal digits; the text says neither *)
(* which type it is of nor in which case its digits are.  A program reads  *)
(* texts of its own and of others as any of the three types, converts and  *)
(* writes them again.                                                      *)
(*                                                                         *)
(* Which byte strings encode a point is AffineCodec's subject; here a      *)
(* value is known by its encoding, which it has only one of.               *)
(***************************************************************************)
EXTENDS Integers, SequencesExt

CONSTANTS
  HexBase,    \* values of a digit (16)
  Characters, \* what a text is made of
  LowerDigit, \* the digit that hex::encode writes for each value
  UpperDigit, \* the other form of the same digit, which may be the same
  Size,       \* bytes of an encoding in each curve: 48 and 96
  Encodings,  \* for each curve, the byte strings that from_bytes accepts
  Texts       \* the texts that reach a program from elsewhere

Types == {"G1Affine", "G2Affine", "G2Prepared"}
CurveOf(t) == IF t = "G1Affine" THEN "G1" ELSE "G2"

DigitValues == 0 .. (HexBase - 1)
Bytes == 0 .. (HexBase * HexBase - 1)

ASSUME SerdeAssumption ==
  /\ HexBase \in Nat \ {0, 1}
  /\ IsInjective(LowerDigit) /\ IsInjective(UpperDigit)
  /\ LowerDigit \in [DigitValues -> Characters]
  /\ UpperDigit \in [DigitValues -> Characters]
  /\ \A m, n \in DigitValues : LowerDigit[m] = UpperDigit[n] => m = n
  /\ Size \in [{"G1", "G2"} -> Nat \ {0}] /\ Size["G1"] # Size["G2"]
  /\ \A c \in {"G1", "G2"} : Encodings[c] \subseteq [1 .. Size[c] -> Bytes]
  /\ Texts \subseteq Seq(Characters)

-----------------------------------------------------------------------------
(* Digits: the hex crate.                                                  *)
HexEncode(b) ==
  [i \in 1 .. 2 * Len(b) |->
     LET byte == b[(i + 1) \div 2]
     IN  LowerDigit[IF i % 2 = 1 THEN byte \div HexBase ELSE byte % HexBase]]

IsDigit(d) == \E n \in DigitValues : d \in {LowerDigit[n], UpperDigit[n]}
ValueOf(d) == CHOOSE n \in DigitValues : d \in {LowerDigit[n], UpperDigit[n]}

Ok(v) == [error |-> "none", value |-> v]
Error(e) == [error |-> e, value |-> <<>>]

HexDecode(s) ==
  IF Len(s) % 2 = 1 THEN Error("odd length")
  ELSE IF \E i \in DOMAIN s : ~IsDigit(s[i]) THEN Error("not a digit")
  ELSE Ok([i \in 1 .. Len(s) \div 2 |->
             HexBase * ValueOf(s[2 * i - 1]) + ValueOf(s[2 * i])])

-----------------------------------------------------------------------------
(* The code.  UpToSize and PreparedAsRaw are not the code: each stands in  *)
(* for the definition below it when a property is tested for what it sees. *)

(* decode_hex::<D, N>: as many bytes as the type's encoding has.           *)
UpToSize(b, n) ==
  IF Len(b) < n THEN Error("invalid length") ELSE Ok(SubSeq(b, 1, n))
TryInto(b, n) ==
  IF Len(b) = n THEN Ok(b) ELSE Error("invalid length")

(* Serializable::from_bytes, by what AffineCodec shows of it.              *)
FromBytes(c, b) == IF b \in Encodings[c] THEN Ok(b) ELSE Error("InvalidData")

DecodeHex(s, n) ==
  LET decoded == HexDecode(s)
  IN  IF decoded.error # "none" THEN decoded ELSE TryInto(decoded.value, n)

Deserialized(t, s) ==
  LET b == DecodeHex(s, Size[CurveOf(t)])
  IN  IF b.error # "none" THEN b ELSE FromBytes(CurveOf(t), b.value)

(* A G2Prepared is written as the G2Affine it wraps, not in its raw form,  *)
(* which has a flag at the end.                                            *)
PreparedAsRaw(t, v) ==
  HexEncode(IF t = "G2Prepared" THEN Append(v, 0) ELSE v)
Serialized(t, v) == HexEncode(v)

-----------------------------------------------------------------------------
VARIABLES
  type, value,  \* what the program holds
  text,         \* the text at hand
  asked, error, \* how the text was read last, "nothing" before
  written       \* ghost: <<type, value>> when this program wrote the text

vars == <<type, value, text, asked, error, written>>

Init ==
  /\ type \in Types /\ value \in Encodings[CurveOf(type)]
  /\ text = <<>> /\ asked = "nothing" /\ error = "none" /\ written = <<>>

Serialize ==
  /\ text' = Serialized(type, value) /\ written' = <<type, value>>
  /\ asked' = "nothing" /\ error' = "none"
  /\ UNCHANGED <<type, value>>

Receive == \E s \in Texts :
  /\ text' = s /\ written' = <<>>
  /\ asked' = "nothing" /\ error' = "none"
  /\ UNCHANGED <<type, value>>

(* A program that gets an error keeps what it holds.                       *)
Deserialize == \E t \in Types :
  LET o == Deserialized(t, text)
  IN  /\ asked' = t /\ error' = o.error
      /\ IF o.error = "none" THEN type' = t /\ value' = o.value
                             ELSE UNCHANGED <<type, value>>
      /\ UNCHANGED <<text, written>>

(* G2Prepared::from(G2Affine).                                             *)
Prepare ==
  /\ type = "G2Affine"
  /\ type' = "G2Prepared" /\ asked' = "nothing" /\ error' = "none"
  /\ UNCHANGED <<value, text, written>>

Next == Serialize \/ Receive \/ Deserialize \/ Prepare

Spec == Init /\ [][Next]_vars

-----------------------------------------------------------------------------
(* Properties.                                                             *)

SameButForCase(d, e) ==
  d = e \/ \E n \in DigitValues : {d, e} = {LowerDigit[n], UpperDigit[n]}
SameText(s, w) ==
  DOMAIN s = DOMAIN w /\ \A i \in DOMAIN s : SameButForCase(s[i], w[i])

(* A text is read as a type exactly when, but for the case of its digits,  *)
(* it is the text of a value of that type, and as that value: no prefix,   *)
(* no padding, no separators, and nothing that is not in the subgroup.     *)
ReadsExactly ==
  asked # "nothing" =>
    /\ error = "none" <=> \E v \in Encodings[CurveOf(asked)] :
                            SameText(text, HexEncode(v))
    /\ error = "none" => SameText(text, HexEncode(value))

(* What a program wrote is read back as the value it was, as either of the *)
(* types of its curve, and never as a type of the other curve.             *)
TextIsFaithful ==
  written # <<>> =>
    \A t \in Types :
      IF CurveOf(t) = CurveOf(written[1])
      THEN Deserialized(t, text) = Ok(written[2])
      ELSE Deserialized(t, text).error = "invalid length"
=============================================================================
