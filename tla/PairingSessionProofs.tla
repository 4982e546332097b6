------------------------- MODULE PairingSessionProofs -------------------------
(***************************************************************************)
(* Proofs about PairingSession, for every curve, every field and whatever  *)
(* storage holds.  The invariant says what each of the three words of the  *)
(* ghost `trust` is worth for a value of each type, of the value that the  *)
(* program holds and of the one that it has in storage alike.              *)
(***************************************************************************)
EXTENDS PairingSession, OperatorProofs

Trusts == {"sound", "checked", "unchecked"}

(* What is known of a value of type t.                                     *)
Held(t, u, how, n) ==
  /\ t \in PointTypes =>
       how # "checked" /\ u \in IF how = "sound" THEN Subgroup ELSE E
  /\ t = "miller" =>
       /\ how = "sound" => u \in Units /\ n \in GtScalars /\ FinalExp(u) = Pow(GtGen, n)
       /\ how = "checked" => u \in Units
  /\ t = "gt" =>
       /\ how = "sound" => n \in GtScalars /\ u = Pow(GtGen, n)
       /\ how = "checked" => u \in GtGroup
  /\ t = "verdict" => (how = "sound" => (u <=> n = 0))

Collected ==
  {r \in [type : PointTypes, p : G1Points, q : E, sound : BOOLEAN] :
     r.sound => r.q \in Subgroup}

(* In storage is a foreign pair, or the form of a value of which the same  *)
(* is still known.                                                         *)
OnDisk ==
  /\ stored = <<>> => disk = <<>> \/ disk \in Foreign
  /\ stored # <<>> =>
       /\ disk[1] \in DiskKinds /\ disk[2] = ToDisk(disk[1], stored[1])
       /\ stored[2] \in Trusts
       /\ Held(TypeOf(disk[1]), stored[1], stored[2], stored[3])

IInv ==
  /\ type \in {"affine", "prepared", "miller", "gt", "verdict"}
  /\ trust \in Trusts
  /\ Held(type, value, trust, exponent)
  /\ terms \in Seq(Collected)
  /\ OnDisk

-----------------------------------------------------------------------------
(* Storage.                                                                *)

(* What the invariant needs of the group assumptions.                      *)
LEMMA GroupFacts ==
  /\ Subgroup \subseteq E /\ Inf \in Subgroup
  /\ FOne \in Units /\ FinalExp(FOne) = FOne
  /\ 0 \in GtScalars /\ FOne = Pow(GtGen, 0)
  /\ GtGroup \subseteq Units /\ Units \subseteq Fp12 /\ Units = Fp12 \ {FZero}
  /\ \A n \in GtScalars : Pow(GtGen, n) \in GtGroup
BY SubgroupAssumption, GroupInUnits, TowerAssumption, GtAssumption,
   FinalExpAssumption, PowAssumption
   DEF GtScalars, Units

(* What each stored form holds.                                            *)
LEMMA KindsOfTypes ==
  ASSUME NEW t \in DiskKinds
  PROVE  /\ t \in {"raw", "affine", "prepared", "prepared serde", "miller", "gt"}
         /\ TypeOf(t) \in {"affine", "prepared", "miller", "gt"}
         /\ t = "affine" <=> TypeOf(t) = "affine"
         /\ t = "miller" <=> TypeOf(t) = "miller"
         /\ t = "gt" <=> TypeOf(t) = "gt"
         /\ t \in {"raw", "prepared", "prepared serde"} <=> TypeOf(t) = "prepared"
BY DEF DiskKinds, PreparedKinds, TypeOf

(* A value that storage gives back is the one that it was given, and those *)
(* that the program believes in are given back.                            *)
LEMMA ReadsBack ==
  ASSUME NEW t \in DiskKinds, NEW u, NEW how \in Trusts, NEW n,
         Held(TypeOf(t), u, how, n)
  PROVE  LET o == FromDisk(t, ToDisk(t, u))
         IN  /\ o.is_some => o.value = u
             /\ how # "unchecked" \/ t \in {"raw", "prepared"} => o.is_some
<1> DEFINE b == ToDisk(t, u)
           o == FromDisk(t, b)
<1> SUFFICES /\ o.is_some => o.value = u
             /\ how # "unchecked" \/ t \in {"raw", "prepared"} => o.is_some
  OBVIOUS
<1>1. CASE t = "raw"
  <2>1. u \in E
    BY <1>1, GroupFacts, KindsOfTypes DEF Held, PointTypes
  <2>2. o = CtOption(FromSliceUnchecked(ToRawBytes(u)), TRUE)
    BY <1>1 DEF FromDisk, ToDisk
  <2> QED
    BY <2>1, <2>2, RawRoundTrip DEF CtOption
<1>2. CASE t \in {"affine", "prepared", "prepared serde"}
  <2>1. /\ u \in E /\ how # "checked"
        /\ how = "sound" => u \in Subgroup
    BY <1>2, GroupFacts, KindsOfTypes DEF Held, PointTypes
  <2>2. b = ToStored(t, u) /\ o = FromStored(t, b)
    BY <1>2 DEF FromDisk, ToDisk
  <2> HIDE DEF b, o
  <2>3. b \in StoredBytes(t) /\ \A Q \in E : b = ToStored(t, Q) => Q = u
    BY <2>1, <2>2, StoredFormsAreInjective
  <2>4. /\ o.is_some <=> \E P \in Vouched(t) : b = ToStored(t, P)
        /\ o.is_some => o.value \in E /\ ToStored(t, o.value) = b
    BY <1>2, <2>2, <2>3, FromStoredExact
  <2>5. how # "unchecked" \/ t = "prepared" => u \in Vouched(t)
    BY <2>1 DEF Vouched, Trusts
  <2> QED
    BY <1>2, <2>2, <2>3, <2>4, <2>5
<1>3. CASE t = "miller"
  <2>1. o.value = u /\ (o.is_some <=> u \in Fp12 /\ u # FZero)
    BY <1>3 DEF FromDisk, ToDisk, MillerFromRawBytesChecked, Fp12Checked
  <2>2. how # "unchecked" => u \in Units
    BY <1>3, KindsOfTypes DEF Held, Trusts
  <2> HIDE DEF o
  <2> QED
    BY <1>3, <2>1, <2>2, GroupFacts
<1>4. CASE t = "gt"
  <2>1. o.value = u /\ (o.is_some <=> u \in Fp12 /\ u \in GtGroup)
    BY <1>4 DEF FromDisk, ToDisk, GtFromRawBytesChecked, Fp12Checked, InGroup
  <2>2. how # "unchecked" => u \in GtGroup
    <3>1. TypeOf(t) = "gt"
      BY <1>4, KindsOfTypes
    <3> QED
      BY <3>1, GroupFacts DEF Held, Trusts
  <2> HIDE DEF o
  <2> QED
    BY <1>4, <2>1, <2>2, GroupFacts
<1> QED
  BY <1>1, <1>2, <1>3, <1>4, KindsOfTypes

(* What the checks of each form need the bytes to be.                      *)
Readable(t, b) ==
  /\ t \in DiskKinds
  /\ t = "raw" => \E P \in E : b = ToRawBytes(P)
  /\ t \in {"affine", "prepared", "prepared serde"} => b \in StoredBytes(t)

(* Bytes from elsewhere are of the form they are stored as.                *)
LEMMA ForeignIsReadable ==
  ASSUME NEW f \in Foreign
  PROVE  Readable(f[1], f[2])
BY SessionAssumption DEF Readable, DiskKinds, PreparedKinds, StoredBytes

(* Bytes of a value held are readable as that value.                       *)
LEMMA OwnIsReadable ==
  ASSUME NEW t \in DiskKinds, NEW u, NEW how \in Trusts, NEW n,
         Held(TypeOf(t), u, how, n)
  PROVE  Readable(t, ToDisk(t, u))
<1>1. CASE TypeOf(t) \in PointTypes
  <2>1. u \in E
    BY <1>1, GroupFacts DEF Held
  <2> QED
    BY <2>1, StoredFormsAreInjective DEF Readable, ToDisk
<1>2. CASE TypeOf(t) \notin PointTypes
  <2>1. t \in {"miller", "gt"}
    BY <1>2, KindsOfTypes DEF PointTypes
  <2> QED
    BY <2>1 DEF Readable
<1> QED
  BY <1>1, <1>2

(* The checks of each form show what the program concludes from them.      *)
LEMMA ConclusionsHold ==
  ASSUME NEW t, NEW b, Readable(t, b), FromDisk(t, b).is_some
  PROVE  Held(TypeOf(t), FromDisk(t, b).value, Conclusion(t), 0)
<1> DEFINE o == FromDisk(t, b)
<1>1. t \in DiskKinds
  BY DEF Readable
<1>2. CASE t = "raw"
  <2>1. PICK P \in E : b = ToRawBytes(P)
    BY <1>2 DEF Readable
  <2>2. o = CtOption(FromSliceUnchecked(ToRawBytes(P)), TRUE)
    BY <1>2, <2>1 DEF FromDisk
  <2>3. o.value \in E
    BY <2>2, RawRoundTrip DEF CtOption
  <2>4. TypeOf(t) = "prepared" /\ Conclusion(t) = "unchecked"
    BY <1>2 DEF TypeOf, PreparedKinds, Conclusion
  <2> QED
    BY <2>3, <2>4 DEF Held
<1>3. CASE t \in {"affine", "prepared", "prepared serde"}
  <2>1. b \in StoredBytes(t) /\ o = FromStored(t, b)
    BY <1>3 DEF Readable, FromDisk
  <2>2. /\ o.is_some <=> \E P \in Vouched(t) : b = ToStored(t, P)
        /\ o.is_some => o.value \in E /\ ToStored(t, o.value) = b
    BY <1>3, <2>1, FromStoredExact
  <2>3. PICK P \in Vouched(t) : b = ToStored(t, P)
    BY <2>2
  <2>4. P \in E
    BY GroupFacts DEF Vouched
  <2>5. o.value = P
    BY <2>2, <2>3, <2>4, StoredFormsAreInjective
  <2> HIDE DEF o
  <2>6. CASE t = "prepared"
    <3>1. TypeOf(t) = "prepared" /\ Conclusion(t) = "unchecked"
      BY <2>6 DEF TypeOf, PreparedKinds, Conclusion
    <3> QED
      BY <2>4, <2>5, <3>1 DEF Held, o
  <2>7. CASE t # "prepared"
    <3>1. TypeOf(t) \in {"affine", "prepared"} /\ Conclusion(t) = "sound"
      BY <1>3, <2>7 DEF TypeOf, PreparedKinds, Conclusion
    <3>2. P \in Subgroup
      BY <2>7 DEF Vouched
    <3> QED
      BY <2>5, <3>1, <3>2 DEF Held, o
  <2> QED
    BY <2>6, <2>7
<1>4. CASE t = "miller"
  <2>1. o.value = b /\ (o.is_some <=> b \in Fp12 /\ b # FZero)
    BY <1>4 DEF FromDisk, MillerFromRawBytesChecked, Fp12Checked
  <2>2. TypeOf(t) = "miller" /\ Conclusion(t) = "checked"
    BY <1>4 DEF TypeOf, PreparedKinds, Conclusion
  <2>3. o.is_some
    OBVIOUS
  <2> HIDE DEF o
  <2>4. o.value \in Units
    BY <2>1, <2>3, GroupFacts
  <2> QED
    BY <2>2, <2>4 DEF Held, PointTypes, o
<1>5. CASE t = "gt"
  <2>1. o.value = b /\ (o.is_some <=> b \in Fp12 /\ b \in GtGroup)
    BY <1>5 DEF FromDisk, GtFromRawBytesChecked, Fp12Checked, InGroup
  <2>2. TypeOf(t) = "gt" /\ Conclusion(t) = "checked"
    BY <1>5 DEF TypeOf, PreparedKinds, Conclusion
  <2>3. o.is_some
    OBVIOUS
  <2> HIDE DEF o
  <2>4. o.value \in GtGroup
    BY <2>1, <2>3
  <2> QED
    BY <2>2, <2>4 DEF Held, PointTypes, o
<1> QED
  BY <1>1, <1>2, <1>3, <1>4, <1>5, KindsOfTypes

-----------------------------------------------------------------------------
(* The invariant.                                                          *)

(* Terms that are all sound have points of the two subgroups.              *)
LEMMA SoundTermsArePairable ==
  ASSUME terms \in Seq(Collected), AllSound
  PROVE  Pairs \in Seq(Pairable)
<1>1. ASSUME NEW i \in DOMAIN terms
      PROVE  <<terms[i].p, terms[i].q>> \in Pairable
  <2>1. terms[i] \in Collected /\ terms[i].sound
    BY DEF AllSound
  <2>2. terms[i].p \in G1Points /\ terms[i].q \in Subgroup
    BY <2>1 DEF Collected
  <2> QED
    BY <2>2, SessionAssumption DEF Pairable
<1>2. Len(terms) \in Nat /\ DOMAIN terms = 1 .. Len(terms)
  OBVIOUS
<1>3. Pairs \in [1 .. Len(terms) -> Pairable]
  BY <1>1, <1>2 DEF Pairs
<1> QED
  BY <1>2, <1>3

(* Nothing is held, stored or collected.                                   *)
LEMMA IInvInit == Init => IInv
BY GroupFacts DEF Init, IInv, Held, OnDisk, PointTypes, Trusts

(* To hold another value is all that most steps do.                        *)
LEMMA HoldPreserves ==
  ASSUME IInv, NEW t \in {"affine", "prepared", "miller", "gt", "verdict"},
         NEW u, NEW how \in Trusts, NEW n, Held(t, u, how, n), Hold(t, u, how, n),
         terms' \in Seq(Collected), UNCHANGED <<disk, stored>>
  PROVE  IInv'
BY DEF IInv, Hold, OnDisk

(* A function of the terms returns what its terms are worth.               *)
LEMMA ReturnPreserves ==
  ASSUME IInv, NEW t \in {"miller", "gt", "verdict"}, NEW u, Return(t, u),
         Pairs \in Seq(Pairable) => Held(t, u, "sound", Exponents(Pairs))
  PROVE  IInv'
<1>1. terms' \in Seq(Collected) /\ UNCHANGED <<disk, stored>>
  BY DEF Return
<1>2. CASE AllSound
  <2>1. Held(t, u, "sound", Exponents(Pairs))
    BY <1>2, SoundTermsArePairable DEF IInv
  <2>2. Hold(t, u, "sound", Exponents(Pairs))
    BY <1>2 DEF Return
  <2> QED
    BY <1>1, <2>1, <2>2, HoldPreserves DEF Trusts
<1>3. CASE ~AllSound
  <2>1. Held(t, u, "unchecked", 0)
    BY DEF Held, PointTypes
  <2>2. Hold(t, u, "unchecked", 0)
    BY <1>3 DEF Return
  <2> QED
    BY <1>1, <2>1, <2>2, HoldPreserves DEF Trusts
<1> QED
  BY <1>2, <1>3

(* Decoding makes a value as good as its check.                            *)
LEMMA DecodePreserves == IInv /\ Decode => IInv'
<1> SUFFICES ASSUME IInv, Decode PROVE IInv'
  OBVIOUS
<1>1. PICK b \in Inputs :
        \/ FromBytes(b).is_some /\ Hold("affine", FromBytes(b).value, "sound", 0)
        \/ /\ FromBytesUnchecked(b).is_some
           /\ Hold("affine", FromBytesUnchecked(b).value, "unchecked", 0)
  BY DEF Decode
<1>2. terms' \in Seq(Collected) /\ UNCHANGED <<disk, stored>>
  BY DEF Decode, IInv
<1>3. b \in CompressedBytes
  BY SessionAssumption
<1>4. CASE FromBytes(b).is_some /\ Hold("affine", FromBytes(b).value, "sound", 0)
  <2>1. FromBytes(b).value \in Subgroup
    BY <1>3, <1>4, CheckedCompressedExact
  <2>2. Held("affine", FromBytes(b).value, "sound", 0)
    BY <2>1 DEF Held
  <2> QED
    BY <1>2, <1>4, <2>2, HoldPreserves DEF Trusts
<1>5. CASE /\ FromBytesUnchecked(b).is_some
           /\ Hold("affine", FromBytesUnchecked(b).value, "unchecked", 0)
  <2>1. FromBytesUnchecked(b).value \in E
    BY <1>3, <1>5, UncheckedCompressedExact
  <2>2. Held("affine", FromBytesUnchecked(b).value, "unchecked", 0)
    BY <2>1 DEF Held
  <2> QED
    BY <1>2, <1>5, <2>2, HoldPreserves DEF Trusts
<1> QED
  BY <1>1, <1>4, <1>5

(* prepare, zeroize and final_exponentiation make one value of another.    *)
LEMMA ConversionsPreserve ==
  IInv /\ (Prepare \/ Zeroize \/ CallFinalExponentiation) => IInv'
<1> SUFFICES ASSUME IInv, Prepare \/ Zeroize \/ CallFinalExponentiation PROVE IInv'
  OBVIOUS
<1>1. terms' \in Seq(Collected) /\ UNCHANGED <<disk, stored>>
  BY DEF Prepare, Zeroize, CallFinalExponentiation, IInv
<1>2. Held(type, value, trust, exponent) /\ trust \in Trusts
  BY DEF IInv
<1>3. CASE Prepare
  <2>1. Hold("prepared", value, trust, 0) /\ Held("prepared", value, trust, 0)
    BY <1>2, <1>3 DEF Prepare, Held, PointTypes
  <2> QED
    BY <1>1, <1>2, <2>1, HoldPreserves
<1>4. CASE Zeroize
  <2> DEFINE u == IF type \in PointTypes THEN Inf ELSE FOne
  <2>1. type \in {"affine", "prepared", "miller", "gt"} /\ Hold(type, u, "sound", 0)
    BY <1>4 DEF Zeroize, IInv
  <2>2. Held(type, u, "sound", 0)
    BY <2>1, GroupFacts DEF Held, PointTypes
  <2> HIDE DEF u
  <2> QED
    BY <1>1, <2>1, <2>2, HoldPreserves DEF Trusts
<1>5. CASE CallFinalExponentiation
  <2>1. type = "miller" /\ Hold("gt", FinalExp(value), trust, exponent)
    BY <1>5 DEF CallFinalExponentiation
  <2>2. /\ trust = "sound" => exponent \in GtScalars
                              /\ FinalExp(value) = Pow(GtGen, exponent)
        /\ trust = "checked" => FinalExp(value) \in GtGroup
    BY <1>2, <2>1, FinalExpAssumption DEF Held
  <2>3. Held("gt", FinalExp(value), trust, exponent)
    BY <2>2 DEF Held, PointTypes
  <2> QED
    BY <1>1, <1>2, <2>1, <2>3, HoldPreserves
<1> QED
  BY <1>3, <1>4, <1>5

(* Storing and restoring keep what is known of a value.                    *)
LEMMA StoragePreserves == IInv /\ (Store \/ Load \/ Restore) => IInv'
<1> SUFFICES ASSUME IInv, Store \/ Load \/ Restore PROVE IInv'
  OBVIOUS
<1>1. CASE Store
  <2>1. PICK t \in DiskKinds :
          /\ type = TypeOf(t)
          /\ disk' = <<t, ToDisk(t, value)>> /\ stored' = <<value, trust, exponent>>
          /\ UNCHANGED <<type, value, trust, exponent, terms>>
    BY <1>1 DEF Store
  <2>2. /\ disk'[1] = t /\ disk'[2] = ToDisk(t, value) /\ stored' # <<>>
        /\ stored'[1] = value /\ stored'[2] = trust /\ stored'[3] = exponent
    BY <2>1
  <2>3. OnDisk'
    BY <2>1, <2>2 DEF IInv, OnDisk
  <2> QED
    BY <2>1, <2>3 DEF IInv
<1>2. CASE Load
  BY <1>2 DEF Load, IInv, OnDisk
<1>3. CASE Restore
  <2> DEFINE t == disk[1]
             b == disk[2]
             o == FromDisk(t, b)
             kept == stored # <<>> /\ stored[2] = "sound"
             how == IF kept THEN "sound" ELSE Conclusion(t)
             n == IF kept THEN stored[3] ELSE 0
  <2>1. disk # <<>> /\ disk' = <<>> /\ stored' = <<>> /\ terms' = terms
    BY <1>3 DEF Restore
  <2>2. OnDisk' /\ terms' \in Seq(Collected)
    BY <2>1 DEF IInv, OnDisk
  <2>3. CASE ~o.is_some
    <3>1. UNCHANGED <<type, value, trust, exponent>>
      BY <1>3, <2>3 DEF Restore
    <3> QED
      BY <2>2, <3>1 DEF IInv
  <2>4. CASE o.is_some
    <3>1. Hold(TypeOf(t), o.value, how, n)
      BY <1>3, <2>4 DEF Restore
    <3>2. Readable(t, b)
      <4>1. CASE stored = <<>>
        BY <4>1, <2>1, ForeignIsReadable DEF IInv, OnDisk
      <4>2. CASE stored # <<>>
        BY <4>2, OwnIsReadable DEF IInv, OnDisk
      <4> QED
        BY <4>1, <4>2
    <3>3. Held(TypeOf(t), o.value, how, n)
      <4>1. CASE kept
        <5>1. /\ t \in DiskKinds /\ b = ToDisk(t, stored[1])
              /\ Held(TypeOf(t), stored[1], "sound", stored[3])
          BY <4>1 DEF IInv, OnDisk
        <5>2. o.value = stored[1]
          BY <2>4, <5>1, ReadsBack DEF Trusts
        <5> QED
          BY <4>1, <5>1, <5>2
      <4>2. CASE ~kept
        <5>1. Held(TypeOf(t), o.value, Conclusion(t), 0)
          BY <2>4, <3>2, ConclusionsHold
        <5> QED
          BY <4>2, <5>1
      <4> QED
        BY <4>1, <4>2
    <3>4. t \in DiskKinds
      BY <3>2 DEF Readable
    <3>5. how \in Trusts
      BY <3>4 DEF Conclusion, Trusts, DiskKinds, PreparedKinds
    <3>6. TypeOf(t) \in {"affine", "prepared", "miller", "gt"}
      BY <3>4, KindsOfTypes
    <3> HIDE DEF t, o, how, n
    <3> QED
      BY <2>2, <3>1, <3>3, <3>5, <3>6 DEF IInv, Hold
  <2> QED
    BY <2>3, <2>4
<1> QED
  BY <1>1, <1>2, <1>3

(* A term is as good as its two points.                                    *)
LEMMA PushPreserves == IInv /\ Push => IInv'
<1> SUFFICES ASSUME IInv, Push PROVE IInv'
  OBVIOUS
<1>1. PICK P \in G1Points :
        /\ type \in PointTypes
        /\ terms' = Append(terms, [type |-> type, p |-> P, q |-> value,
                                   sound |-> trust = "sound"])
        /\ UNCHANGED <<type, value, trust, exponent, disk, stored>>
  BY DEF Push
<1> DEFINE r == [type |-> type, p |-> P, q |-> value, sound |-> trust = "sound"]
<1>2. value \in E /\ (trust = "sound" => value \in Subgroup)
  BY <1>1, GroupFacts DEF IInv, Held
<1>3. r \in Collected
  BY <1>1, <1>2 DEF Collected
<1> HIDE DEF r
<1>4. terms' \in Seq(Collected)
  BY <1>1, <1>3 DEF IInv, r
<1> QED
  BY <1>1, <1>4 DEF IInv, OnDisk

(* Results are as good as the terms.                                       *)
LEMMA CallsPreserve == IInv /\ (CallMillerLoop \/ CallResult \/ CallCheck) => IInv'
<1> SUFFICES ASSUME IInv, CallMillerLoop \/ CallResult \/ CallCheck PROVE IInv'
  OBVIOUS
<1>1. CASE CallMillerLoop
  <2>1. Pairs \in Seq(Pairable) =>
          Held("miller", MultiMillerLoop(Pairs), "sound", Exponents(Pairs))
    BY ProductOfPairings DEF Held, PointTypes
  <2> QED
    BY <1>1, <2>1, ReturnPreserves DEF CallMillerLoop
<1>2. CASE CallResult
  <2>1. Pairs \in Seq(Pairable) =>
          Held("gt", MultiMillerLoopResult(Pairs), "sound", Exponents(Pairs))
    BY ProductOfPairings DEF Held, PointTypes, MultiMillerLoopResult
  <2> QED
    BY <1>2, <2>1, ReturnPreserves DEF CallResult
<1>3. CASE CallCheck
  <2>1. Pairs \in Seq(Pairable) =>
          Held("verdict", PairingProductIsIdentity(Pairs), "sound", Exponents(Pairs))
    BY VerdictIsExact DEF Held, PointTypes
  <2> QED
    BY <1>3, <2>1, ReturnPreserves DEF CallCheck
<1> QED
  BY <1>1, <1>2, <1>3

(* So the invariant always holds.                                          *)
LEMMA SpecIInv == Spec => []IInv
<1>1. IInv /\ UNCHANGED vars => IInv'
  BY DEF vars, IInv, OnDisk
<1>2. IInv /\ [Next]_vars => IInv'
  BY <1>1, DecodePreserves, ConversionsPreserve, StoragePreserves, PushPreserves,
     CallsPreserve
     DEF Next
<1> QED
  BY <1>2, IInvInit, PTL DEF Spec

-----------------------------------------------------------------------------
(* The theorems.                                                           *)

(* A point is in the subgroup whenever the checks that it went through, in *)
(* decoding or out of storage, are said to show that, and on the curve     *)
(* however unchecked: both what the program holds and what it has          *)
(* collected for a pairing.                                                *)
THEOREM SessionPointsAreAsChecked == Spec => []PointsAreAsChecked
<1>1. IInv => PointsAreAsChecked
  <2> SUFFICES ASSUME IInv PROVE PointsAreAsChecked
    OBVIOUS
  <2>1. type \in PointTypes => value \in IF trust = "sound" THEN Subgroup ELSE E
    BY DEF IInv, Held
  <2>2. ASSUME NEW i \in DOMAIN terms
        PROVE  terms[i].q \in IF terms[i].sound THEN Subgroup ELSE E
    <3>1. terms[i] \in Collected
      BY DEF IInv
    <3> QED
      BY <3>1 DEF Collected
  <2> QED
    BY <2>1, <2>2 DEF PointsAreAsChecked
<1> QED
  BY <1>1, SpecIInv, PTL

(* What multi_miller_loop, multi_miller_loop_result, final_exponentiation  *)
(* and pairing_product_is_identity return for sound terms is the product   *)
(* of their pairings, and stays so through storage.                        *)
THEOREM SessionSoundResultsAreProducts == Spec => []SoundResultsAreProducts
<1>1. IInv => SoundResultsAreProducts
  BY DEF IInv, Held, SoundResultsAreProducts
<1> QED
  BY <1>1, SpecIInv, PTL

(* A Gt that came out of storage, or of the final exponentiation of what   *)
(* came out of storage, is in the group of prime order.                    *)
THEOREM SessionCheckedResultsInGroup == Spec => []CheckedResultsInGroup
<1>1. IInv => CheckedResultsInGroup
  BY DEF IInv, Held, CheckedResultsInGroup
<1> QED
  BY <1>1, SpecIInv, PTL

(* Every stored form gives back the value that it was made of, and none    *)
(* that the program believed in is refused.                                *)
THEOREM SessionStorageIsFaithful == Spec => []StorageIsFaithful
<1>1. IInv => StorageIsFaithful
  BY ReadsBack DEF IInv, OnDisk, StorageIsFaithful
<1> QED
  BY <1>1, SpecIInv, PTL
=============================================================================
