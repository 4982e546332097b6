---------------------------- MODULE MCAffineCodec ---------------------------
(* AffineCodec on the toy curves.                                          *)
EXTENDS AffineCodec, ToyGroup
=============================================================================
