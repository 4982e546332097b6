----------------------------- MODULE MCSerdeText ----------------------------
(* SerdeText with two digits, of which the second has two forms, and       *)
(* encodings of one byte and of two.                                       *)
EXTENDS SerdeText

ToyCharacters == {"0", "a", "A", "g"}
ToyLowerDigit == (0 :> "0") @@ (1 :> "a")
ToyUpperDigit == (0 :> "0") @@ (1 :> "A")
ToySize == ("G1" :> 1) @@ ("G2" :> 2)

(* A G2 encoding that starts with a G1 encoding, and one that is a G1      *)
(* encoding and a zero byte.                                               *)
ToyEncodings ==
  ("G1" :> {<<1>>, <<2>>}) @@ ("G2" :> {<<1, 3>>, <<2, 0>>, <<3, 2>>})

(* All texts of digits and of one character that is not, as long as the    *)
(* longest encoding, and some that are longer.                             *)
ToyTexts ==
  UNION {[1 .. n -> ToyCharacters] : n \in 0 .. 4}
  \cup UNION {[1 .. n -> {"0", "A"}] : n \in 5 .. 6}
=============================================================================
