---------------------------- MODULE PairingSession --------------------------
(***************************************************************************)
(* From bytes to a pairing: a program decodes G2 points and prepares them, *)
(* keeps either in storage, pairs them with G1 points, keeps the results   *)
(* in storage too, and goes on with whatever storage gives back.  It holds *)
(* one value at a time, of any of the types, beside the terms collected.   *)
(*                                                                         *)
(* Each type makes its own checks when it is decoded or restored, and they *)
(* differ.  The ghost `trust` says what the checks made so far let the     *)
(* program conclude of the value it holds:                                 *)
(*   sound      a subgroup point, or a result of sound terms;              *)
(*   checked    some element of the group that the type stands for;        *)
(*   unchecked  for a point, only that it is on the curve.                 *)
(***************************************************************************)
EXTENDS PreparedPoint, TargetValues, PairingFunctions

CONSTANTS
  Inputs,   \* the compressed encodings that a caller decodes
  Foreign,  \* pairs <<kind, bytes>> in storage that this program did not write
  MaxTerms  \* bound: how many terms a caller collects

PointTypes == {"affine", "prepared"}
PreparedKinds == {"raw", "prepared", "prepared serde"}
DiskKinds == {"affine", "miller", "gt"} \cup PreparedKinds

(* What pairing with a point outside the subgroup gives is not known: the  *)
(* loop may even meet the point's order, and give zero.                    *)
ASSUME SessionAssumption ==
  /\ Inputs \subseteq CompressedBytes
  /\ \A f \in Foreign :
       \/ f[1] = "prepared" /\ f[2] \in ArchivedPrepared
       \/ f[1] \in {"affine", "prepared serde"} /\ f[2] \in CompressedBytes
       \/ f[1] \in {"miller", "gt"} /\ f[2] \in RawFp12
  /\ G2Points = Subgroup
  /\ \A P \in G1Points, Q \in E : MillerTerm(P, Q) \in Fp12
  /\ \A u \in Fp12 : FinalExp(u) \in Fp12
  /\ \A u, w \in Fp12 : FMul(u, w) \in Fp12

-----------------------------------------------------------------------------
(* What storage holds for a value, and what restores it.  The raw bytes of *)
(* a G2Prepared have no check: from_slice_unchecked takes them as they are.*)
(* Those of a field element are its halves.                                *)
ToDisk(t, u) ==
  CASE t = "raw" -> ToRawBytes(u)
    [] t \in {"affine", "prepared", "prepared serde"} -> ToStored(t, u)
    [] t \in {"miller", "gt"} -> u

FromDisk(t, b) ==
  CASE t = "raw" -> CtOption(FromSliceUnchecked(b), TRUE)
    [] t \in {"affine", "prepared", "prepared serde"} -> FromStored(t, b)
    [] t = "miller" -> MillerFromRawBytesChecked(b)
    [] t = "gt" -> GtFromRawBytesChecked(b)

TypeOf(t) == IF t \in PreparedKinds THEN "prepared" ELSE t

-----------------------------------------------------------------------------
VARIABLES
  type, value,  \* of what the program holds
  trust,        \* ghost, see above
  exponent,     \* ghost: of a sound result, the scalar it stands for
  terms,        \* the terms collected: points, and the ghost `sound`
  disk,         \* <<kind, bytes>>, <<>> when there is nothing
  stored        \* ghost: <<value, trust, exponent>> when this program wrote it

vars == <<type, value, trust, exponent, terms, disk, stored>>

Init ==
  /\ type = "affine" /\ value = Inf      \* Default
  /\ trust = "sound" /\ exponent = 0
  /\ terms = <<>> /\ disk = <<>> /\ stored = <<>>

Hold(t, u, how, n) == type' = t /\ value' = u /\ trust' = how /\ exponent' = n

(* from_bytes or from_bytes_unchecked of G2Affine.                         *)
Decode == \E b \in Inputs :
  /\ \/ FromBytes(b).is_some /\ Hold("affine", FromBytes(b).value, "sound", 0)
     \/ /\ FromBytesUnchecked(b).is_some
        /\ Hold("affine", FromBytesUnchecked(b).value, "unchecked", 0)
  /\ UNCHANGED <<terms, disk, stored>>

(* G2Prepared::from(G2Affine), of which there is no inverse.               *)
Prepare ==
  /\ type = "affine" /\ Hold("prepared", value, trust, 0)
  /\ UNCHANGED <<terms, disk, stored>>

(* zeroize leaves the default: infinity, or one.                           *)
Zeroize ==
  /\ type # "verdict"
  /\ Hold(type, IF type \in PointTypes THEN Inf ELSE FOne, "sound", 0)
  /\ UNCHANGED <<terms, disk, stored>>

Store == \E t \in DiskKinds :
  /\ disk = <<>> /\ type = TypeOf(t)
  /\ disk' = <<t, ToDisk(t, value)>> /\ stored' = <<value, trust, exponent>>
  /\ UNCHANGED <<type, value, trust, exponent, terms>>

Load == \E f \in Foreign :
  /\ disk = <<>>
  /\ disk' = f /\ stored' = <<>>
  /\ UNCHANGED <<type, value, trust, exponent, terms>>

(* What the program concludes when storage gives a value back.             *)
Conclusion(t) ==
  CASE t \in {"affine", "prepared serde"} -> "sound"
    [] t \in {"miller", "gt"} -> "checked"
    [] t \in {"raw", "prepared"} -> "unchecked"

Restore ==
  /\ disk # <<>>
  /\ LET o == FromDisk(disk[1], disk[2])
         kept == stored # <<>> /\ stored[2] = "sound"
     IN  IF o.is_some
         THEN Hold(TypeOf(disk[1]), o.value,
                   IF kept THEN "sound" ELSE Conclusion(disk[1]),
                   IF kept THEN stored[3] ELSE 0)
         ELSE UNCHANGED <<type, value, trust, exponent>>
  /\ disk' = <<>> /\ stored' = <<>>
  /\ UNCHANGED terms

(* A slice of terms has points of one type.                                *)
TermsAre(t) == \A i \in DOMAIN terms : terms[i].type = t

Push == \E P \in G1Points :
  /\ type \in PointTypes /\ Len(terms) < MaxTerms
  /\ TermsAre(type)
  /\ terms' = Append(terms, [type |-> type, p |-> P, q |-> value,
                             sound |-> trust = "sound"])
  /\ UNCHANGED <<type, value, trust, exponent, disk, stored>>

Pairs == [i \in DOMAIN terms |-> <<terms[i].p, terms[i].q>>]
AllSound == \A i \in DOMAIN terms : terms[i].sound

(* A function of the terms, which are then dropped.  Only code of the crate*)
(* can call multi_miller_loop, as its tests do; a MillerLoopResult outside *)
(* is the default or comes from an archive.                                *)
Return(t, u) ==
  /\ IF AllSound THEN Hold(t, u, "sound", Exponents(Pairs))
                 ELSE Hold(t, u, "unchecked", 0)
  /\ terms' = <<>>
  /\ UNCHANGED <<disk, stored>>

(* The first two take prepared points; the check prepares affine ones.     *)
CallMillerLoop ==
  TermsAre("prepared") /\ Return("miller", MultiMillerLoop(Pairs))
CallResult ==
  TermsAre("prepared") /\ Return("gt", MultiMillerLoopResult(Pairs))
CallCheck ==
  TermsAre("affine") /\ Return("verdict", PairingProductIsIdentity(Pairs))

CallFinalExponentiation ==
  /\ type = "miller"
  /\ Hold("gt", FinalExp(value), trust, exponent)
  /\ UNCHANGED <<terms, disk, stored>>

Next ==
  \/ Decode \/ Prepare \/ Zeroize \/ Store \/ Load \/ Restore \/ Push
  \/ CallMillerLoop \/ CallResult \/ CallCheck \/ CallFinalExponentiation

Spec == Init /\ [][Next]_vars

-----------------------------------------------------------------------------
(* Properties.                                                             *)

(* A point is in the subgroup whenever the checks it went through are said *)
(* to show that: decoded checked, read from serde or the archive of an     *)
(* affine point, or stored in any form by a program that knew it.  The     *)
(* archive of a G2Prepared proves nothing of the kind about bytes from     *)
(* elsewhere; but no way of making a point, however unchecked, gives one   *)
(* that is not on the curve.                                               *)
PointsAreAsChecked ==
  /\ type \in PointTypes =>
       value \in IF trust = "sound" THEN Subgroup ELSE E
  /\ \A i \in DOMAIN terms :
       terms[i].q \in IF terms[i].sound THEN Subgroup ELSE E

(* A result of sound terms is the product of their pairings, before or     *)
(* after the final exponentiation, and after any stay in storage.          *)
SoundResultsAreProducts ==
  trust = "sound" =>
    /\ type = "miller" =>
         value \in Units /\ FinalExp(value) = Pow(GtGen, exponent)
    /\ type = "gt" => value = Pow(GtGen, exponent)
    /\ type = "verdict" => (value <=> exponent = 0)

(* A Gt out of storage, or exponentiated from a Miller loop result out of  *)
(* storage, is in the group of prime order, wherever the bytes came from   *)
(* and whatever was paired.  Only a result never stored, of terms that     *)
(* were never checked, may be outside.                                     *)
CheckedResultsInGroup ==
  trust = "checked" /\ type = "gt" => value \in GtGroup

(* Storage gives back the value it was given, and refuses none that the    *)
(* program had reason to believe in.                                       *)
StorageIsFaithful ==
  stored # <<>> =>
    LET o == FromDisk(disk[1], disk[2])
    IN  /\ o.is_some => o.value = stored[1]
        /\ stored[2] # "unchecked" \/ disk[1] \in {"raw", "prepared"} => o.is_some
=============================================================================
