----------------------------- MODULE CyclicGroup ----------------------------
(***************************************************************************)
(* What Gt promises a caller: a cyclic group of order N in additive        *)
(* notation, here the integers modulo N.  eM is the element that a Miller  *)
(* loop result will become; how it is represented does not appear.         *)
(***************************************************************************)
EXTENDS Integers

CONSTANT N  \* the order, positive

VARIABLES eM, eG, eH,  \* the elements that three program variables hold
          op           \* the operation completed last, with its scalar or choice

vars == <<eM, eG, eH, op>>

Elements == 0 .. (N - 1)

Init == eM = 0 /\ eG = 0 /\ eH = 0 /\ op = <<"default">>

SetM(e, o) == eM' = e /\ op' = o /\ UNCHANGED <<eG, eH>>
SetG(e, o) == eG' = e /\ op' = o /\ UNCHANGED <<eM, eH>>
SetH(e, o) == eH' = e /\ op' = o /\ UNCHANGED <<eM, eG>>

Obtain ==
  \/ SetG(0, <<"identity">>) \/ SetG(1 % N, <<"generator">>)
  \/ SetM(0, <<"identity">>)
  \/ \E e \in Elements :
       \/ SetG(e, <<"random">>) \/ SetG(e, <<"archive">>)
       \/ SetM(e, <<"miller loop">>) \/ SetM(e, <<"archive">>)
FinalExponentiation == SetG(eM, <<"final exponentiation">>)

Move == \/ SetH(eG, <<"copy">>)
        \/ SetG(eG, <<"select", FALSE>>) \/ SetG(eH, <<"select", TRUE>>)
        \/ SetM(eM, <<"select", FALSE>>)
        \/ \E e \in Elements : SetM(e, <<"select", TRUE>>)

Double == SetG((2 * eG) % N, <<"double">>)
Add == \/ SetG((eG + eH) % N, <<"add">>)
       \/ SetG((eG + eH) % N, <<"sum">>)
Negate == SetG((N - eG) % N, <<"neg">>)
Subtract == SetG((eG - eH) % N, <<"sub">>)
Multiply == \E k \in Elements : SetG((eG * k) % N, <<"mul", k>>)

Next == \/ Obtain \/ FinalExponentiation \/ Move
        \/ Double \/ Add \/ Negate \/ Subtract \/ Multiply

Spec == Init /\ [][Next]_vars

TypeOK == eM \in Elements /\ eG \in Elements /\ eH \in Elements
=============================================================================
