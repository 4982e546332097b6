------------------------------- MODULE Archive ------------------------------
(***************************************************************************)
(* The archives of points in use.  A value is stored, or bytes come from   *)
(* storage; a reader may validate an archive with check_bytes, and may     *)
(* deserialize it whether or not it did.                                   *)
(***************************************************************************)
EXTENDS PreparedPoint

CONSTANT Kinds  \* the stored forms in use

ASSUME KindsAssumption == Kinds \subseteq {"affine", "prepared", "prepared serde"}

-----------------------------------------------------------------------------
VARIABLES
  kind,      \* what `bytes` is the stored form of, "none" when there is nothing
  bytes,
  source,    \* ghost: {P} when the library wrote them for P, else {}
  valid,     \* the answer of check_bytes, "not asked" before
  restored,  \* whether deserialize gave a value, "not asked" before
  value      \* that value

vars == <<kind, bytes, source, valid, restored, value>>

Init ==
  /\ kind = "none" /\ bytes = "none" /\ source = {}
  /\ valid = "not asked" /\ restored = "not asked" /\ value = Inf

Put(t, b, s) ==
  /\ kind' = t /\ bytes' = b /\ source' = s
  /\ valid' = "not asked" /\ restored' = "not asked" /\ value' = Inf

(* Archive::resolve, and serde's serialize.  Neither type checks the point *)
(* it stores, and a G2Prepared is made from any G2Affine.                  *)
Resolve == \E t \in Kinds, P \in E : kind = "none" /\ Put(t, ToStored(t, P), {P})

Load ==
  /\ kind = "none"
  /\ \/ \E t \in Kinds \ {"prepared"}, b \in CompressedBytes : Put(t, b, {})
     \/ \E b \in ArchivedPrepared : "prepared" \in Kinds /\ Put("prepared", b, {})

Answer(o) == IF o.is_some THEN "ok" ELSE "invalid"

CheckBytes ==
  /\ kind \in {"affine", "prepared"}
  /\ valid' = Answer(FromStored(kind, bytes))
  /\ UNCHANGED <<kind, bytes, source, restored, value>>

(* deserialize does not rely on check_bytes having been called.            *)
Restore ==
  /\ kind # "none"
  /\ LET o == FromStored(kind, bytes)
     IN  /\ restored' = Answer(o)
         /\ value' = IF o.is_some THEN o.value ELSE Inf
  /\ UNCHANGED <<kind, bytes, source, valid>>

(* The restored value is stored once more: an affine point in any form,    *)
(* a G2Prepared in its own two.                                            *)
StoreAgain == \E t \in Kinds :
  /\ restored = "ok"
  /\ kind # "affine" => t # "affine"
  /\ Put(t, ToStored(t, value), {value})

Next == Resolve \/ Load \/ CheckBytes \/ Restore \/ StoreAgain

Spec == Init /\ [][Next]_vars

-----------------------------------------------------------------------------
(* Properties.                                                             *)

Answers == {"not asked", "ok", "invalid"}

TypeOK ==
  /\ \/ kind = "none" /\ bytes = "none"
     \/ kind \in Kinds \ {"prepared"} /\ bytes \in CompressedBytes
     \/ kind = "prepared" /\ bytes \in ArchivedPrepared
  /\ source \in SUBSET E
  /\ valid \in Answers /\ restored \in Answers
  /\ value \in E

(* Both check_bytes and deserialize accept exactly the bytes that the      *)
(* library writes for a point the form vouches for: no non-canonical       *)
(* limbs, no identity under the wrong flag, no refusal of what it wrote.   *)
AcceptsExactly ==
  LET genuine == \E P \in Vouched(kind) : bytes = ToStored(kind, P)
  IN  /\ valid # "not asked" => (valid = "ok" <=> genuine)
      /\ restored # "not asked" => (restored = "ok" <=> genuine)

(* A restored value is the one stored, and storing it gives the same bytes.*)
RestoresOriginal ==
  restored = "ok" => source \subseteq {value} /\ ToStored(kind, value) = bytes
=============================================================================
