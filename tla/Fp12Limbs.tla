------------------------------ MODULE Fp12Limbs -----------------------------
(***************************************************************************)
(* The archives of Gt and MillerLoopResult, byte by byte: the fp12         *)
(* functions of pairings/rkyv.rs.  The bytes are tested one field element  *)
(* at a time, read into the tower Fp12 / Fp6 / Fp2 / Fp by three nested    *)
(* loops that share one running offset, and written back the same way.     *)
(* Unlike a point's raw form they have no flag, and are tested before they *)
(* are read.                                                               *)
(*                                                                         *)
(* Whether a Gt that was read is in the group is asked of blst afterwards; *)
(* TargetValues has that part.                                             *)
(***************************************************************************)
EXTENDS Limbs

CONSTANTS
  Fp6s, Fp2s, Fps,  \* 2 Fp6 in an Fp12, 3 Fp2 in an Fp6, 2 Fp in an Fp2
  Archives          \* the bytes that archives hold

Kinds == {"gt", "miller"}
FpCount == Fp6s * Fp2s * Fps
Fp12Size == FpCount * FieldBytes
Places == (1 .. Fp6s) \X (1 .. Fp2s) \X (1 .. Fps)
FirstPlace == <<1, 1, 1>>
LastPlace == <<Fp6s, Fp2s, Fps>>
ZeroFp == [j \in 1 .. LimbsPerField |-> 0]

ASSUME Fp12LimbsAssumption ==
  /\ {Fp6s, Fp2s, Fps} \subseteq Nat \ {0}
  /\ Archives \subseteq [1 .. Fp12Size -> Bytes]

-----------------------------------------------------------------------------
(* AnyBytes and OuterLoopFastest are not the code: each stands in for the  *)
(* definition below it when a property is tested for what it sees.         *)

(* fp_raw_bytes_are_canonical of the c-th 48 bytes.                        *)
FpIsCanonical(b, c) ==
  LET verdict[i \in 1 .. LimbsPerField] ==
        LET v == LimbVerdict(LimbOf(b, c, i), i)
        IN  IF v = "go on" THEN verdict[i - 1] ELSE v
  IN  verdict[LimbsPerField] = "less"

AnyBytes(b) == TRUE
IsNonzero(b) == \E n \in DOMAIN b : b[n] # 0

(* The three loops: Fp within Fp2 within Fp6.                              *)
OuterLoopFastest(p) ==
  CASE p[1] < Fp6s -> <<p[1] + 1, p[2], p[3]>>
    [] p[1] = Fp6s /\ p[2] < Fp2s -> <<1, p[2] + 1, p[3]>>
    [] OTHER -> <<1, 1, p[3] + 1>>
NextPlace(p) ==
  CASE p[3] < Fps -> <<p[1], p[2], p[3] + 1>>
    [] p[3] = Fps /\ p[2] < Fp2s -> <<p[1], p[2] + 1, 1>>
    [] OTHER -> <<p[1] + 1, 1, 1>>
NextOffset(n) == n + FieldBytes

(* &b[n .. n + 48], or what there is of it.                                *)
ElementBytes(b, n) == SubSeq(b, n + 1, Lesser(n + FieldBytes, Len(b)))
Overwrite(b, n, s) ==
  [k \in DOMAIN b |-> IF k - n \in DOMAIN s THEN s[k - n] ELSE b[k]]

-----------------------------------------------------------------------------
VARIABLES
  kind, bytes,    \* what is restored, and its archive
  phase,          \* "idle", "testing", "reading", "restored", "writing",
                  \* "written" or "refused"
  tested,         \* the field element tested next
  place, offset,  \* of the nested loops
  value,          \* the tower's limbs
  written         \* fp12_to_raw_bytes's output

towerVars == <<kind, bytes, phase, tested, place, offset, value, written>>

NoBytes == [n \in 1 .. Fp12Size |-> 0]
NoValue == [p \in Places |-> ZeroFp]

TowerInit ==
  /\ kind = "gt" /\ bytes = NoBytes /\ phase = "idle" /\ tested = 1
  /\ place = FirstPlace /\ offset = 0 /\ value = NoValue /\ written = NoBytes

Restore == \E k \in Kinds, b \in Archives :
  /\ phase = "idle"
  /\ kind' = k /\ bytes' = b /\ phase' = "testing"
  /\ UNCHANGED <<tested, place, offset, value, written>>

(* fp12_raw_bytes_are_canonical stops at the first element that is not; a  *)
(* Miller loop result must also be nonzero.                                *)
TestElement ==
  /\ phase = "testing"
  /\ IF FpIsCanonical(bytes, tested)
     THEN IF tested < FpCount
          THEN tested' = tested + 1 /\ phase' = phase
          ELSE /\ phase' = IF kind = "miller" /\ ~IsNonzero(bytes)
                        THEN "refused" ELSE "reading"
               /\ UNCHANGED tested
     ELSE phase' = "refused" /\ UNCHANGED tested
  /\ UNCHANGED <<kind, bytes, place, offset, value, written>>

Advance(end) ==
  IF place = LastPlace
  THEN place' = FirstPlace /\ offset' = 0 /\ phase' = end
  ELSE /\ place' = NextPlace(place) /\ offset' = NextOffset(offset)
       /\ phase' = phase

ReadElement ==
  /\ phase = "reading"
  /\ value' = [value EXCEPT
                  ![place] = ReadRawLimbs(ElementBytes(bytes, offset), @, 0)]
  /\ Advance("restored")
  /\ UNCHANGED <<kind, bytes, tested, written>>

Archive ==
  /\ phase = "restored"
  /\ phase' = "writing"
  /\ UNCHANGED <<kind, bytes, tested, place, offset, value, written>>

WriteElement ==
  /\ phase = "writing"
  /\ written' = Overwrite(written, offset, WriteRawLimbs(value[place]))
  /\ Advance("written")
  /\ UNCHANGED <<kind, bytes, tested, value>>

Finish ==
  /\ phase \in {"refused", "restored", "written"}
  /\ kind' = "gt" /\ bytes' = NoBytes /\ phase' = "idle" /\ tested' = 1
  /\ value' = NoValue /\ written' = NoBytes
  /\ UNCHANGED <<place, offset>>

TowerNext ==
  \/ Restore \/ TestElement \/ ReadElement \/ Archive \/ WriteElement \/ Finish

TowerSpec == TowerInit /\ [][TowerNext]_towerVars

(* A call that is running runs on; nobody has to make another.             *)
FairSpec ==
  /\ TowerSpec
  /\ WF_towerVars(TestElement)
  /\ WF_towerVars(ReadElement) /\ WF_towerVars(WriteElement)

-----------------------------------------------------------------------------
(* Properties.                                                             *)

(* The integer that an archive holds for each element of the tower, in the *)
(* order of dusk's and blst's memory layout.                               *)
IndexOf(p) == ((p[1] - 1) * Fp2s + p[2] - 1) * Fps + p[3]
HeldAt(b, c) ==
  IntegerOfBytes(SubSeq(b, (c - 1) * FieldBytes + 1, c * FieldBytes))
Held(b, p) == HeldAt(b, IndexOf(p))

Valid(k, b) ==
  /\ \A p \in Places : Held(b, p) < IntegerOf(Modulus)
  /\ k = "miller" => \E p \in Places : Held(b, p) # 0

(* Exactly the archives whose twelve integers are below the prime go on to *)
(* be read, and of a Miller loop result only those that are not zero.      *)
AcceptsExactly ==
  /\ phase = "refused" => ~Valid(kind, bytes)
  /\ phase \in {"reading", "restored", "writing", "written"} => Valid(kind, bytes)

(* The loops put each element where it belongs: the group test that        *)
(* follows for a Gt is asked of the value that was archived.               *)
RestoresEachElement ==
  phase \in {"restored", "writing", "written"} =>
    \A p \in Places : IntegerOf(value[p]) = Held(bytes, p)

(* A value is archived as the bytes it was restored from.                  *)
RewritesTheSame == phase = "written" => written = bytes

(* An archive that is valid is restored, and a value being archived gets   *)
(* to its last byte, however long the tests and the loops take.            *)
CallsComplete ==
  /\ (phase = "testing" /\ Valid(kind, bytes)) ~> (phase = "restored")
  /\ (phase = "writing") ~> (phase = "written")
=============================================================================
