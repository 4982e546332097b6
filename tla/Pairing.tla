------------------------------- MODULE Pairing ------------------------------
(***************************************************************************)
(* The pairing functions in use: a caller collects terms and asks for      *)
(* their product or whether it is one.                                     *)
(***************************************************************************)
EXTENDS PairingFunctions

CONSTANT MaxTerms  \* bound: how many terms a caller collects

Terms == G1Points \X G2Points

-----------------------------------------------------------------------------
VARIABLES
  terms,      \* what the caller has collected
  asked,      \* the function called last on them, "none" before any
  gt,         \* the result of multi_miller_loop_result
  is_identity \* the verdict of pairing_product_is_identity

callerVars == <<terms, asked, gt, is_identity>>

CallerInit == terms = <<>> /\ asked = "none" /\ gt = FOne /\ is_identity = FALSE

Push == \E t \in Terms :
  /\ Len(terms) < MaxTerms
  /\ terms' = Append(terms, t) /\ asked' = "none"
  /\ UNCHANGED <<gt, is_identity>>

CallResult ==
  /\ asked' = "multi_miller_loop_result" /\ gt' = MultiMillerLoopResult(terms)
  /\ UNCHANGED <<terms, is_identity>>

CallCheck ==
  /\ asked' = "pairing_product_is_identity"
  /\ is_identity' = PairingProductIsIdentity(terms)
  /\ UNCHANGED <<terms, gt>>

CallerNext == Push \/ CallResult \/ CallCheck

CallerSpec == CallerInit /\ [][CallerNext]_callerVars

-----------------------------------------------------------------------------
(* Properties.                                                             *)

(* The result is the product of the pairings of the terms, however many    *)
(* there are and whichever of them hold infinity.                          *)
ResultIsProduct ==
  asked = "multi_miller_loop_result" => gt = Pow(GtGen, Exponents(terms))

(* The verdict is right, although the value it is given has already been   *)
(* through one final exponentiation, and the dusk backend's is the same.   *)
CheckIsExact ==
  asked = "pairing_product_is_identity" =>
    /\ is_identity <=> Exponents(terms) = 0
    /\ is_identity <=> DuskProductIsIdentity(terms)
=============================================================================
