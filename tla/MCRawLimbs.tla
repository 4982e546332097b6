------------------------------ MODULE MCRawLimbs ----------------------------
(* RawLimbs with limbs of two bits and field elements of two limbs; the    *)
(* prime 9 has limbs <<1, 2>>.                                             *)
EXTENDS RawLimbs

ToyModulus == <<1, 2>>
ToyFieldCount == ("G1" :> 2) @@ ("G2" :> 4)
ToyIdentityBytes ==
  [c \in Curves |->
     [b \in 1 .. RawSize(c) |-> IF b \in {FieldBytes + 1, RawSize(c)} THEN 1 ELSE 0]]

LeBytes(v) == [b \in 1 .. FieldBytes |-> (v \div 2^(b - 1)) % 2]
Joined(elements) == FoldLeft(LAMBDA s, v : s \o LeBytes(v), <<>>, elements)

(* For G1 every pair of field elements; for G2 every choice of: a high     *)
(* limb below and a low limb above the prime's, only the low limb below,   *)
(* the prime itself, a high limb above and a low limb below.               *)
ToyElements == ("G1" :> 0 .. 15) @@ ("G2" :> {7, 8, 9, 12})
Full(c) == {Joined(e) \o <<f>> :
              e \in [1 .. FieldCount[c] -> ToyElements[c]], f \in {0, 1}}

(* Slices that end early, and one that goes on beyond the flag.            *)
Ones(c) == [b \in 1 .. RawSize(c) + 2 |-> 1]
ToySlices ==
  [c \in Curves |-> Full(c) \cup {IdentityBytes[c]}
                    \cup {SubSeq(Ones(c), 1, n) : n \in 0 .. RawSize(c) + 2}]
=============================================================================
