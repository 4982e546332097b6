--------------------------- MODULE PairingFunctions -------------------------
(***************************************************************************)
(* The pairing functions of backend_blst/pairings.rs, and the functions of *)
(* the same name in backend_dusk.rs, over terms that are pairs of a G1 and *)
(* a G2 point.                                                             *)
(***************************************************************************)
EXTENDS Fp12, SequencesExt

CONSTANTS
  G1Points, G2Points,  \* points of the two subgroups, infinity included
  Dlog1(_), Dlog2(_),  \* the scalar that takes the generator to a point
  MillerTerm(_, _),    \* the Miller loop of one pair (external)
  EmptyLoop            \* what miller_loop_n makes of no terms at all

(* The final exponentiation turns Miller values into pairings, which are   *)
(* bilinear, is multiplicative, and can be applied once more to an element *)
(* of GtGroup without sending it to one: its exponent is prime to GtOrder. *)
ASSUME PairingAssumption ==
  /\ \A P \in G1Points, Q \in G2Points :
       /\ Dlog1(P) \in GtScalars /\ Dlog2(Q) \in GtScalars
       /\ MillerTerm(P, Q) \in Units
       /\ FinalExp(MillerTerm(P, Q)) = Pow(GtGen, (Dlog1(P) * Dlog2(Q)) % GtOrder)
  /\ EmptyLoop \in Fp12
  /\ \A x, y \in Units : FinalExp(FMul(x, y)) = FMul(FinalExp(x), FinalExp(y))
  /\ \A x \in GtGroup : FinalExp(x) = FOne => x = FOne

(* blst_fp12::miller_loop_n(qs, ps)                                        *)
MillerLoopN(qs, ps) ==
  IF ps = <<>> THEN EmptyLoop
  ELSE FoldLeftDomain(LAMBDA v, i : FMul(v, MillerTerm(ps[i], qs[i])), FOne, ps)

(* blst_fp12::finalverify                                                  *)
FinalVerify(x, y) == FinalExp(FMul(FConj(x), y)) = FOne

(* The sum of products of scalars that a product of pairings stands for.   *)
Exponents(s) ==
  FoldLeft(LAMBDA n, t : (n + Dlog1(t[1]) * Dlog2(t[2])) % GtOrder, 0, s)

-----------------------------------------------------------------------------
(* backend_blst/pairings.rs                                                *)

G1Side(terms) == [i \in DOMAIN terms |-> terms[i][1]]
G2Side(terms) == [i \in DOMAIN terms |-> terms[i][2]]

LoopOfAll(terms) == MillerLoopN(G2Side(terms), G1Side(terms))

MultiMillerLoop(terms) ==
  IF terms = <<>> THEN FOne ELSE MillerLoopN(G2Side(terms), G1Side(terms))

MultiMillerLoopResult(terms) == FinalExp(MultiMillerLoop(terms))

(* The comparison forgets that finalverify exponentiates by itself and     *)
(* compares the Miller value with what it should become.                   *)
ProductAgainstMillerValue(terms) ==
  \/ terms = <<>>
  \/ FMul(FConj(MillerLoopN(G2Side(terms), G1Side(terms))), FOne) = FOne

PairingProductIsIdentity(terms) ==
  \/ terms = <<>>
  \/ FinalVerify(FinalExp(MillerLoopN(G2Side(terms), G1Side(terms))), FOne)

-----------------------------------------------------------------------------
(* backend_dusk.rs, over an external multi_miller_loop that is one on no   *)
(* terms.                                                                  *)

DuskProductIsIdentity(terms) == FinalExp(MultiMillerLoop(terms)) = FOne
=============================================================================
