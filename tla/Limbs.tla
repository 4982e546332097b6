-------------------------------- MODULE Limbs -------------------------------
(***************************************************************************)
(* Little-endian limbs and the bytes they are kept in: read_raw_limbs and  *)
(* write_raw_limbs of backend_blst/mod.rs, and the comparison of a field   *)
(* element's limbs with the modulus in pairings/rkyv.rs.                   *)
(*                                                                         *)
(* A limb is LimbBytes bytes and a field element LimbsPerField limbs, both *)
(* least significant first.  In the code they are 8 and 6, and bytes have  *)
(* base 256.                                                               *)
(***************************************************************************)
EXTENDS Integers, SequencesExt

CONSTANTS
  ByteBase, LimbBytes, LimbsPerField,
  Modulus         \* FP_MODULUS: limbs of the field's prime

Bytes == 0 .. (ByteBase - 1)
FieldBytes == LimbBytes * LimbsPerField
LimbValues == 0 .. (ByteBase^LimbBytes - 1)

ASSUME LimbsAssumption ==
  /\ ByteBase \in Nat \ {0, 1}
  /\ {LimbBytes, LimbsPerField} \subseteq Nat \ {0}
  /\ Modulus \in [1 .. LimbsPerField -> LimbValues]

(* What powers are; said because the prover's arithmetic has none.         *)
ASSUME PowersAssumption ==
  /\ ByteBase^0 = 1
  /\ \A n \in 0 .. FieldBytes :
       /\ ByteBase^n \in Nat \ {0}
       /\ ByteBase^(n + 1) = ByteBase * ByteBase^n

Lesser(m, n) == IF m < n THEN m ELSE n

-----------------------------------------------------------------------------
(* ReadFromFirstLimb, WriteBigEndian, EqualIsCanonical and TopLimbDecides  *)
(* are not the code: each stands in for the definition below it when a     *)
(* property is tested for what it sees.                                    *)

(* u64::from_le_bytes and to_le_bytes.                                     *)
FromLeBytes(w) == FoldRight(LAMBDA byte, n : byte + ByteBase * n, w, 0)
ToLeBytes(limb) ==
  [i \in 1 .. LimbBytes |-> (limb \div ByteBase^(i - 1)) % ByteBase]

(* chunks_exact leaves out an incomplete last chunk.                       *)
FullChunks(s) == Len(s) \div LimbBytes
Chunk(s, j) ==
  SubSeq(s, (j - 1) * LimbBytes + 1, Lesser(j * LimbBytes, Len(s)))

ReadFromFirstLimb(s, out, skip) ==
  [j \in DOMAIN out |->
     IF j \in 1 .. FullChunks(s) THEN FromLeBytes(Chunk(s, j)) ELSE out[j]]

(* read_raw_limbs into the limbs of `out` after the first `skip`.          *)
ReadRawLimbs(s, out, skip) ==
  [j \in DOMAIN out |->
     IF j - skip \in 1 .. FullChunks(s) THEN FromLeBytes(Chunk(s, j - skip))
                                        ELSE out[j]]

WriteBigEndian(limbs) ==
  FoldLeft(LAMBDA s, limb : s \o Reverse(ToLeBytes(limb)), <<>>, limbs)
WriteRawLimbs(limbs) ==
  FoldLeft(LAMBDA s, limb : s \o ToLeBytes(limb), <<>>, limbs)

(* fp_raw_bytes_are_canonical decides at the first limb, from the most     *)
(* significant one down, that differs from the modulus.                    *)
LimbOf(s, c, i) == FromLeBytes(Chunk(s, (c - 1) * LimbsPerField + i))
EqualIsCanonical(limb, i) ==
  CASE limb < Modulus[i] -> "less"
    [] limb > Modulus[i] -> "not less"
    [] limb = Modulus[i] -> IF i = 1 THEN "less" ELSE "go on"
TopLimbDecides(limb, i) == IF limb < Modulus[i] THEN "less" ELSE "not less"
LimbVerdict(limb, i) ==
  CASE limb < Modulus[i] -> "less"
    [] limb > Modulus[i] -> "not less"
    [] limb = Modulus[i] -> IF i = 1 THEN "not less" ELSE "go on"

-----------------------------------------------------------------------------
(* What the properties compare with: the integers that limbs and bytes     *)
(* stand for.                                                              *)
IntegerOf(limbs) ==
  FoldRight(LAMBDA limb, n : limb + ByteBase^LimbBytes * n, limbs, 0)
IntegerOfBytes(s) ==
  FoldFunction(+, 0, [b \in DOMAIN s |-> s[b] * ByteBase^(b - 1)])
=============================================================================
