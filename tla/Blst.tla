-------------------------------- MODULE Blst --------------------------------
(***************************************************************************)
(* The functions of the external `blst` crate that the point wrappers      *)
(* call, by what they return.  An encoding is a record: three flag bits    *)
(* (comp = 0x80, inf = 0x40, sort = 0x20 of the first byte) and one word   *)
(* per coordinate, which may spell a value that is not a field element.    *)
(***************************************************************************)
EXTENDS CurveGroup

CompressedBytes == [comp : BOOLEAN, inf : BOOLEAN, sort : BOOLEAN, x : Words]

UncompressedBytes ==
  [comp : BOOLEAN, inf : BOOLEAN, sort : BOOLEAN, x : Words, y : Words]

(* The result code, and the value written through the out pointer.  A      *)
(* failing call leaves a value no wrapper hands out; the default stands    *)
(* for it.                                                                 *)
Failed(err) == [err |-> err, out |-> Inf]

(* A decoded point: `blst` already knows that no point with x = 0 is in    *)
(* the G1 subgroup, and says so after writing it.                          *)
Decoded(P) ==
  [err |-> IF P[1] = Zero /\ P # Inf THEN "POINT_NOT_IN_GROUP" ELSE "SUCCESS",
   out |-> P]

(* The curve points that x and the sort bit of a compressed encoding name. *)
Named(b) == {P \in Curve : P[1] = b.x /\ (Larger(P[2]) <=> b.sort)}

(* blst_p1_uncompress *)
Uncompress(b) ==
  CASE ~b.comp -> Failed("BAD_ENCODING")
    [] b.comp /\ b.inf -> IF ~b.sort /\ b.x = Zero THEN Decoded(Inf)
                                                   ELSE Failed("BAD_ENCODING")
    [] b.comp /\ ~b.inf /\ b.x \notin Field -> Failed("BAD_ENCODING")
    [] b.comp /\ ~b.inf /\ b.x \in Field ->
         IF Named(b) = {} THEN Failed("POINT_NOT_ON_CURVE")
                          ELSE Decoded(CHOOSE P \in Named(b) : TRUE)

FirstHalf(b) == [comp |-> b.comp, inf |-> b.inf, sort |-> b.sort, x |-> b.x]

(* blst_p1_deserialize: an encoding with the compression bit is decoded    *)
(* from its first half.                                                    *)
Deserialize(b) ==
  CASE b.comp -> Uncompress(FirstHalf(b))
    [] ~b.comp /\ b.inf ->
         IF ~b.sort /\ b.x = Zero /\ b.y = Zero THEN Decoded(Inf)
                                                ELSE Failed("BAD_ENCODING")
    [] ~b.comp /\ ~b.inf /\ (b.sort \/ b.x \notin Field \/ b.y \notin Field) ->
         Failed("BAD_ENCODING")
    [] ~b.comp /\ ~b.inf /\ ~b.sort /\ b.x \in Field /\ b.y \in Field ->
         IF <<b.x, b.y>> \in Curve THEN Decoded(<<b.x, b.y>>)
                                   ELSE Failed("POINT_NOT_ON_CURVE")

(* blst_p1_affine_compress *)
Compress(P) ==
  [comp |-> TRUE, inf |-> P = Inf, sort |-> P # Inf /\ Larger(P[2]), x |-> P[1]]

(* blst_p1_affine_serialize *)
Serialize(P) ==
  [comp |-> FALSE, inf |-> P = Inf, sort |-> FALSE, x |-> P[1], y |-> P[2]]

(* blst_p1_affine_in_g1 and _is_inf: infinity passes both.                 *)
AffineInGroup(P) == P \in Subgroup
AffineIsInf(P) == P = Inf

(* What every blst_p1_* arithmetic call writes: some triple of the right   *)
(* point.  Which one depends on the formulas used.                         *)
Triples(P) == JacReps(P)

(* blst_p1_is_equal, blst_p1_is_inf *)
JacIsEqual(j, k) == ToAffine(j) = ToAffine(k)
JacIsInf(j) == ToAffine(j) = Inf

(* blst_p1_mult reads the low nbits bits of the scalar and no others.      *)
Mult(P, k, nbits) == Times(k % 2^nbits, P)
=============================================================================
