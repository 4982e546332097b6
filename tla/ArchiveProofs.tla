----------------------------- MODULE ArchiveProofs ----------------------------
(***************************************************************************)
(* The properties of Archive, for every curve and whatever storage holds:  *)
(* the checks on archived points accept exactly what the library writes.   *)
(***************************************************************************)
EXTENDS Archive, OperatorProofs

(* The inductive invariant: beside the properties, the bytes keep being    *)
(* those of the point they were written for.                               *)
SourceIsStored == \A P \in source : ToStored(kind, P) = bytes

IInv == TypeOK /\ SourceIsStored /\ AcceptsExactly /\ RestoresOriginal

(* Storing a value forgets what was asked of the one before.               *)
LEMMA PutEstablishes ==
  ASSUME NEW t \in Kinds, NEW b \in StoredBytes(t), NEW s \in SUBSET E,
         \A P \in s : ToStored(t, P) = b,
         Put(t, b, s)
  PROVE  IInv'
<1>1. /\ kind' = t /\ bytes' = b /\ source' = s
      /\ valid' = "not asked" /\ restored' = "not asked" /\ value' = Inf
  BY DEF Put
<1>2. TypeOK'
  BY <1>1 DEF TypeOK, StoredBytes, Answers, E
<1>3. SourceIsStored'
  BY <1>1 DEF SourceIsStored
<1>4. AcceptsExactly' /\ RestoresOriginal'
  BY <1>1 DEF AcceptsExactly, RestoresOriginal
<1> QED
  BY <1>2, <1>3, <1>4 DEF IInv

(* There is nothing to begin with.                                         *)
LEMMA InitEstablishes == Init => IInv
BY DEF Init, IInv, TypeOK, SourceIsStored, AcceptsExactly, RestoresOriginal,
       Answers, E

(* Every step keeps the invariant.                                         *)
LEMMA StepPreserves == IInv /\ [Next]_vars => IInv'
<1> SUFFICES ASSUME IInv, [Next]_vars
             PROVE  IInv'
  OBVIOUS
<1> USE DEF IInv
<1>1. CASE Resolve
  <2>1. PICK t \in Kinds, P \in E : Put(t, ToStored(t, P), {P})
    BY <1>1 DEF Resolve
  <2> QED
    BY <2>1, PutEstablishes, StoredFormsAreInjective
<1>2. CASE Load
  BY <1>2, PutEstablishes DEF Load, StoredBytes
<1>3. kind # "none" => /\ kind \in {"affine", "prepared", "prepared serde"}
                       /\ bytes \in StoredBytes(kind)
  BY KindsAssumption DEF TypeOK, StoredBytes
<1>4. CASE CheckBytes
  <2> DEFINE o == FromStored(kind, bytes)
  <2>1. /\ o.is_some \in BOOLEAN
        /\ o.is_some <=> \E P \in Vouched(kind) : bytes = ToStored(kind, P)
    BY <1>3, <1>4, FromStoredExact DEF CheckBytes
  <2>2. /\ valid' = Answer(o)
        /\ UNCHANGED <<kind, bytes, source, restored, value>>
    BY <1>4 DEF CheckBytes
  <2>3. valid' \in {"ok", "invalid"} /\ (valid' = "ok" <=> o.is_some)
    BY <2>1, <2>2 DEF Answer
  <2> HIDE DEF o
  <2>4. TypeOK' /\ SourceIsStored' /\ RestoresOriginal'
    BY <2>2, <2>3 DEF TypeOK, SourceIsStored, RestoresOriginal, Answers
  <2>5. AcceptsExactly'
    BY <2>1, <2>2, <2>3 DEF AcceptsExactly
  <2> QED
    BY <2>4, <2>5
<1>5. CASE Restore
  <2> DEFINE o == FromStored(kind, bytes)
  <2>1. /\ o.is_some \in BOOLEAN
        /\ o.is_some <=> \E P \in Vouched(kind) : bytes = ToStored(kind, P)
        /\ o.is_some => o.value \in E /\ ToStored(kind, o.value) = bytes
    BY <1>3, <1>5, FromStoredExact DEF Restore
  <2>2. /\ restored' = Answer(o)
        /\ value' = IF o.is_some THEN o.value ELSE Inf
        /\ UNCHANGED <<kind, bytes, source, valid>>
    BY <1>5 DEF Restore
  <2>3. restored' \in {"ok", "invalid"} /\ (restored' = "ok" <=> o.is_some)
    BY <2>1, <2>2 DEF Answer
  <2>4. o.is_some => source \subseteq {o.value}
    BY <2>1, StoredFormsAreInjective DEF TypeOK, SourceIsStored
  <2> HIDE DEF o
  <2>5. TypeOK'
    BY <2>1, <2>2, <2>3 DEF TypeOK, Answers, E
  <2>6. SourceIsStored' /\ RestoresOriginal'
    BY <2>1, <2>2, <2>3, <2>4 DEF SourceIsStored, RestoresOriginal
  <2>7. AcceptsExactly'
    BY <2>1, <2>2, <2>3 DEF AcceptsExactly
  <2> QED
    BY <2>5, <2>6, <2>7
<1>6. CASE StoreAgain
  <2>1. PICK t \in Kinds : Put(t, ToStored(t, value), {value})
    BY <1>6 DEF StoreAgain
  <2>2. value \in E
    BY DEF TypeOK
  <2> QED
    BY <2>1, <2>2, PutEstablishes, StoredFormsAreInjective
<1>7. CASE UNCHANGED vars
  BY <1>7 DEF vars, TypeOK, SourceIsStored, AcceptsExactly, RestoresOriginal
<1> QED
  BY <1>1, <1>2, <1>4, <1>5, <1>6, <1>7 DEF Next

(* The invariant holds in every state of every behaviour.                  *)
LEMMA Inductive == Spec => []IInv
BY InitEstablishes, StepPreserves, PTL DEF Spec

-----------------------------------------------------------------------------
(* Every value keeps its type: above all, what deserialize hands out is a  *)
(* point of the curve or infinity, whatever bytes storage held.            *)
THEOREM ArchiveTypeOK == Spec => []TypeOK
<1>1. IInv => TypeOK
  BY DEF IInv
<1> QED
  BY <1>1, Inductive, PTL

(* check_bytes and deserialize of g1/rkyv.rs, g2/rkyv.rs, pairings/rkyv.rs *)
(* and serde accept exactly what the library writes for the points each    *)
(* form vouches for.                                                       *)
THEOREM ArchiveAcceptsExactly == Spec => []AcceptsExactly
<1>1. IInv => AcceptsExactly
  BY DEF IInv
<1> QED
  BY <1>1, Inductive, PTL

(* A restored point is the one stored, and is stored as the same bytes.    *)
THEOREM ArchiveRestoresOriginal == Spec => []RestoresOriginal
<1>1. IInv => RestoresOriginal
  BY DEF IInv
<1> QED
  BY <1>1, Inductive, PTL
=============================================================================
