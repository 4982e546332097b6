------------------------------ MODULE MCArchive -----------------------------
(* Archive on the toy curve of G2, where 2 stands for any other last byte. *)
EXTENDS Archive, ToyGroup

ToyReduced(w) == w % ToyPrime
ToyFlags == {0, 1, 2}
ToyKinds == {"affine", "prepared", "prepared serde"}
=============================================================================
