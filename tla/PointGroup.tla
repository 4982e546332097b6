----------------------------- MODULE PointGroup -----------------------------
(***************************************************************************)
(* What the affine and projective point types promise a caller: the        *)
(* variables of a program hold group elements, each operation is the group *)
(* operation its name says, and an element that never went through an      *)
(* unchecked decoder is in the prime-order subgroup.  Coordinates,         *)
(* encodings and projective triples do not appear.                         *)
(***************************************************************************)
EXTENDS CurveGroup

VARIABLES eA, eP, eQ,  \* the elements that three program variables hold
          uA, uP, uQ,  \* whether each derives from an unchecked decoding
          op           \* the operation called last, with its scalar or choice

vars == <<eA, eP, eQ, uA, uP, uQ, op>>

Init ==
  /\ eA = Inf /\ eP = Inf /\ eQ = Inf
  /\ uA = FALSE /\ uP = FALSE /\ uQ = FALSE
  /\ op = <<"default">>

SetA(S, u, o) == eA' \in S /\ uA' = u /\ op' = o /\ UNCHANGED <<eP, eQ, uP, uQ>>
SetP(S, u, o) == eP' \in S /\ uP' = u /\ op' = o /\ UNCHANGED <<eA, eQ, uA, uQ>>
SetQ(S, u, o) == eQ' \in S /\ uQ' = u /\ op' = o /\ UNCHANGED <<eA, eP, uA, uP>>

Constants ==
  \/ SetA({Inf}, FALSE, <<"identity">>) \/ SetP({Inf}, FALSE, <<"identity">>)
  \/ SetA({Gen}, FALSE, <<"generator">>) \/ SetP({Gen}, FALSE, <<"generator">>)

(* A value from a safe source is in the subgroup; an unchecked decoder     *)
(* promises a point of the curve and no more.                              *)
Obtain == \E source \in {"random", "hash", "from_bytes"} :
  SetA(Subgroup, FALSE, <<source>>) \/ SetP(Subgroup, FALSE, <<source>>)
ObtainUnchecked ==
  \/ SetA(E, TRUE, <<"from_bytes_unchecked">>)
  \/ SetP(E, TRUE, <<"from_bytes_unchecked">>)

(* A conversion or a copy moves an element; a selection takes one of two.  *)
Move == \/ SetA({eP}, uP, <<"to_affine">>)
        \/ SetP({eA}, uA, <<"to_curve">>)
        \/ SetQ({eP}, uP, <<"copy">>)
Select == \/ SetP({eP}, uP, <<"select", FALSE>>)
          \/ SetP({eQ}, uQ, <<"select", TRUE>>)
          \/ SetA({eA}, uA, <<"select", FALSE>>)
          \/ SetA({eP}, uP, <<"select", TRUE>>)

Negate == \/ SetA({Minus(eA)}, uA, <<"neg">>)
          \/ SetP({Minus(eP)}, uP, <<"neg">>)
Double == SetP({Plus(eP, eP)}, uP, <<"double">>)
Add == \/ SetP({Plus(eP, eQ)}, uP \/ uQ, <<"add">>)
       \/ SetP({Plus(eP, eQ)}, uP \/ uQ, <<"sum">>)
       \/ SetP({Plus(eP, eA)}, uP \/ uA, <<"add_mixed">>)
       \/ SetP({Plus(eA, eP)}, uA \/ uP, <<"affine add">>)
       \/ SetP({Plus(eA, eP)}, uA \/ uP, <<"affine add projective">>)
Subtract == \/ SetP({Plus(eP, Minus(eQ))}, uP \/ uQ, <<"sub">>)
            \/ SetP({Plus(eP, Minus(eA))}, uP \/ uA, <<"sub affine">>)
            \/ SetP({Plus(eA, Minus(eP))}, uA \/ uP, <<"affine sub">>)
            \/ SetP({Plus(eA, Minus(eP))}, uA \/ uP, <<"affine sub projective">>)
Multiply == \E k \in Scalars : \/ SetP({Times(k, eP)}, uP, <<"mul", k>>)
                              \/ SetP({Times(k, eA)}, uA, <<"affine mul", k>>)
ClearCofactor == SetP({Times(HEff, eP)}, FALSE, <<"clear_cofactor">>)

Next ==
  \/ Constants \/ Obtain \/ ObtainUnchecked \/ Move \/ Select
  \/ Negate \/ Double \/ Add \/ Subtract \/ Multiply \/ ClearCofactor

Spec == Init /\ [][Next]_vars

TypeOK ==
  /\ eA \in E /\ eP \in E /\ eQ \in E
  /\ uA \in BOOLEAN /\ uP \in BOOLEAN /\ uQ \in BOOLEAN

(* An element that no unchecked decoding contributed to is in the subgroup.*)
Safe ==
  /\ ~uA => eA \in Subgroup
  /\ ~uP => eP \in Subgroup
  /\ ~uQ => eQ \in Subgroup
=============================================================================
