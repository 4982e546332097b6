# A verification project for dusk-curves

`dusk-curves` is a Rust crate that puts one BLS12-381 API in front of two
interchangeable backends. The dusk backend re-exports another crate. The blst
backend (`src/bls12_381/backend_blst/`) has code of its own: wrappers that turn
the C functions of `blst` into types with the semantics of `dusk_bls12_381`.
That code is what this project models. `blst` and `dusk_bls12_381` are not in
the repository; what the wrappers rely on is stated as named assumptions on
constants, which TLC evaluates on every instance.

## 1. The system

| Component | Code | State | Operations |
|---|---|---|---|
| Facade | `lib.rs`, `bls12_381.rs` | none | feature guards, re-exports, delegation to one backend |
| G1 and G2 codecs | `g1.rs`, `g2.rs` | an affine point: two coordinates, all zero at infinity | compressed, uncompressed, raw and serde encoders and decoders, checked and unchecked |
| G1 and G2 arithmetic | `g1.rs`, `g2.rs` | projective triples (X, Y, Z), affine points | group law over both types, scalar multiplication, cofactor clearing, selection, equalities, conversion |
| Batches | `g1.rs`, `g2.rs` | slices of the caller | `batch_normalize`, `msm_variable_base` |
| Raw limbs | `mod.rs`, `g1.rs`, `g2.rs`, `pairings/rkyv.rs` | none | limb reads and writes, slicing, canonicity, the nested loops over an Fp12 element |
| Archives | `g1/rkyv.rs`, `g2/rkyv.rs`, `pairings/rkyv.rs` | archived bytes | `resolve`, `check_bytes`, `deserialize` |
| Serde text | `g1.rs`, `g2.rs`, `pairings.rs` | none | hexadecimal text of three types |
| Gt, MillerLoopResult | `pairings.rs` | an Fp12 element | additive group over a multiplicative one, double-and-add, final exponentiation |
| Pairing functions | `pairings.rs`, `backend_dusk.rs` | none | Miller loops over lists of terms, the product check |
| Hashing to curves | `mod.rs` | none | `hash_to_g1`, `hash_to_g2` |
| Scalars | `mod.rs` | none | re-exports of the dusk crate |

How they interact: all by direct calls. Archives and serde go through the
codecs; projective encodings through affine ones; affine arithmetic through
projective triples; pairings take affine and prepared points and return Miller
values that only the final exponentiation turns into `Gt`; Miller values and
`Gt` are archived too, so that a later program goes on from any of these types.

What is hard here. The crate is sequential, keeps no global state, does no
I/O and calls nothing back, so there is no interleaving, no crash and no
message. What must eventually happen is that the loops of a call reach its
return; nothing obliges a program to call. What is hard is that a value has several representations
(triples of one point, three encodings of infinity, canonical and other limbs),
that safe and unchecked ways of making one meet in the same type, that a
verdict and the value it is about travel separately through the C interface,
that each type makes checks of its own when it is decoded or restored and they
do not agree, and that sequences of calls mix all of these. The hazards, each at its line,
are in `PROJECT.json`.

What makes each component correct:

- codecs: one accepted spelling for each point; checked decoders accept exactly
  the subgroup's encodings, unchecked ones the curve's; encoders are inverted;
- arithmetic: every operation is the group operation of its name; safe values
  stay in the prime-order subgroup; all equalities agree; safe values reencode;
- batches: as one at a time, on the shorter of two lengths; the sum of a slice
  is the multi-scalar multiplication by ones;
- raw limbs: every slice in bounds, each limb from its own bytes, the canonicity
  test equal to comparison of integers;
- serde text: a text is read as a type exactly when it is the text of a value
  of that type, but for the case of its digits;
- archives: accepted bytes are exactly those the library writes, whether or not
  they were validated first;
- Gt: every value in the group of prime order, multiplication by a scalar right
  at every bit, archives that refuse nothing a computation produces;
- pairings: the product is the product, and the check says whether it is one;
- their composition: what a value is known to be follows from the checks its
  bytes went through, also after a stay in storage.

## 2. The modules

```
CurveGroup        curve, subgroup, triples: constants and assumptions (external)
  Blst            what blst's encoders and decoders do (external)
    AffinePoint   the methods of G1Affine / G2Affine, as operators
      AffineCodec     bytes and the decoders called on them
      Point           a program over affine and projective values
      PreparedPoint   the stored forms of points, as operators
        Archive       archived bytes, validated or not, and restored
      Batch           batch_normalize, msm_variable_base, sums
  PointGroup      abstract: group elements and a safe/unchecked mark
Fp12              the target field: constants and assumptions (external)
  TargetValues      the methods of Gt and MillerLoopResult, as operators
    Target          a program over Gt and MillerLoopResult
  PairingFunctions  Miller loops over a list of terms, the product check
    Pairing         the same over a growing list
CyclicGroup       abstract: integers modulo the order
PairingSession    PreparedPoint, TargetValues and PairingFunctions composed
Limbs             bytes, limbs and the canonicity test
  RawLimbs        the raw form of a point byte by byte
  Fp12Limbs       the archive of a target field element byte by byte
SerdeText         hexadecimal text of three types
OperatorProofs    lemmas on the operators of points, Gt and pairings; numerals
  AffineCodecProofs (and Batch), PointProofs, ArchiveProofs,
  TargetProofs (and Pairing), PairingSessionProofs,
  RawLimbsProofs (and Fp12Limbs)
SerdeTextProofs
ToyGroup, ToyFp12, MC*    small instances for TLC
```

**AffinePoint, AffineCodec.** An encoding is a record of its flags and of
words; a word may be non-canonical, and the top three bits of the first byte
are the fields `comp`, `inf`, `sort`. `Deserialize` and `Uncompress` return
blst's error code together with what it leaves in `out`, because the Rust code
sees both. The operators follow the source: three paths of checked decoding
with their early returns, the flag guard of the uncompressed decoders, the
extra result code that G1's unchecked decoders take for success, the raw form's
infinity flag. In AffineCodec bytes are written by an encoder or come from
anywhere (raw bytes from `to_raw_bytes` only: anything else breaks the contract
of an `unsafe` function) and are decoded by any entry point, one after another.

**Point, PointGroup.** Point has one affine and two projective variables and an
action for every operation. What blst computes is any triple of the right
point, so that nothing may depend on which one it is; selection, which the Rust
code does itself, works on coordinates. The ghosts `ua`, `up`, `uq` record
whether an unchecked decoder contributed to a value; no action reads them to
decide anything. PointGroup is what callers are promised; Point implements it
under the mapping of triples to points. Multiplication hands blst a number of
bits and `Mult` uses only those. Each operation that both types have is an
action for each type, and addition and subtraction one for each pair of operand
types, because each is a different route through conversions. The second
affine operand is the projective variable in affine form. Forms by reference, the assigning ones, and those with the scalar on the left call these.

**PreparedPoint, Archive.** The three stored forms with a flag byte of any
value for prepared points. `deserialize` may be called without `check_bytes`,
as rkyv allows. blst's on-curve test reduces its input, so the canonicity test
before it matters. A G2Prepared's archive is checked for the curve but not the
subgroup; the serde form is checked for both; AcceptsExactly says so.

**Limbs, RawLimbs.** Slices of every length, read in one go (G1) or one field
element at a time under the chained length tests (G2), tested limb by limb from
the most significant one, and written back. `range` records the bounds of each
slicing expression, an out-of-bounds one being a panic.

**Fp12Limbs.** The archive of a Gt or of a Miller loop result: twelve elements
tested one by one, then read into the tower by three nested loops that share
one running offset, then written back by three more. Each turn of a loop is a
step, so that the offset and the place in the tower are two pieces of state
that could part. Unlike a point's raw form there is no flag, the test comes
before the read, and a Miller loop result has to be nonzero.

**SerdeText.** The text of a compressed encoding in hexadecimal digits, read as
any of G1Affine, G2Affine and G2Prepared. The text names no type: only its
length tells the curves apart, and G2Prepared must write what G2Affine writes.
The hex crate, which writes one case and reads both, is external.

**Batch.** Slices of different lengths; points are normalized into the caller's
slice and then multiplied. blst converts all points with one shared inversion;
that this gives each point its affine form, and infinity to infinity, is
assumed of `P1sToAffine`. What is checked of `batch_normalize` is which points
it converts and where they go. Scalars are flattened to bytes and found again by
blst through the number of bits it is told. A sum over an iterator starts at
the identity and adds with the doubling case, and equals the multi-scalar
multiplication by ones.

**Target, CyclicGroup.** One Miller value and two Gt values. `mul_scalar` is
the code's own loop, so it is one action for the call, one for each bit and one
for the return; every other operation is one step. Selection is by halves of
the field element. The archives' checks are operators. Target implements
CyclicGroup under the discrete logarithm, multiplication taking effect when it
returns and stuttering before.

**PairingFunctions, Pairing.** A caller collects terms, with infinity on either side, and asks
for the product or the check. `miller_loop_n` of no terms is a constant the
code must not depend on. The product check passes its value through the final
exponentiation twice; the assumption that makes this right (the exponent is
prime to the order) is PairingAssumption's last conjunct. The dusk backend's
function is beside it and must give the same verdict.

**PairingSession.** One program takes a G2 point from bytes to a pairing and on
to storage and back, in every order of calls: decode with or without the check,
prepare, keep in storage in any form (raw bytes and three archives of points,
two of field elements), collect terms, call the pairing functions, exponentiate.
Bytes in storage may come from elsewhere. A ghost says what the checks made so
far let the program conclude: a `sound` value is a subgroup point or the
product of sound terms; a `checked` one was validated as a member of its type;
an `unchecked` one is a point on the curve or what was computed from one. The
assumptions leave open what a pairing with a point outside the subgroup gives,
which may be zero. So a Gt that was never in storage may be outside its group
when unchecked points were paired, and one that was in storage may not.
PairingProductIsIdentity takes affine points, the others prepared ones; a
slice has one type. `multi_miller_loop` is visible only inside the crate (its
tests call it); outside, a Miller loop result is the default or restored.

Definitions said in a comment not to be the code (`SelectForgettingZ`,
`FlagsIgnoringCompression`, ...) are plausible mistakes kept next to what they
would replace; no specification uses them. Each property of each run fails when
one of them is put in place: `PROJECT.json` pairs them under "mutants".

## 3. The runs

| Run | Instance | What it shows |
|---|---|---|
| `codec_g1` | G1 toy curve | all decoders on all encodings: canonical, exact, inverse to encoders |
| `codec_g2` | G2 toy curve | the unchecked decoders, which accept one code less: exact without a point at x = 0 |
| `point` | G1 toy curve, inputs in and out of the subgroup | subgroup safety, equality, reencoding, refinement of PointGroup |
| `archive` | G2 toy curve, three flag values | exact acceptance and restoration |
| `raw` | two field elements read in one go, four in pieces and tested | bounds, limb values, canonicity, writing back |
| `raw_fp12` | tower of 2·3·2 elements of two limbs, fair | exact acceptance, each element in its place, the same bytes written, loops that end |
| `serde` | three types, two digits, all texts up to 4 characters | a text is read exactly as what it is the text of |
| `batch` | G1 toy curve, slices up to 3 | pointwise normalization, sum of multiples, plain sums |
| `target` | toy field, order 7, 4-bit walk | group safety, every bit of a multiplication, archives, refinement of CyclicGroup |
| `target_live` | toy field, 3-bit walk, one Miller value, fair | a multiplication that was called returns the multiple |
| `pairing` | toy field, up to 3 terms | product and check, on both backends |
| `session` | G2 toy curve with the toy field's order, up to 2 terms | what the checks say is true of points and results, through storage |

All pass. A module that shares its proofs with another has names of its own for
its specification: `TowerSpec` (Fp12Limbs), `CallerSpec` (Pairing), `BatchSpec`.
A type invariant is among the properties of the runs where it is what
the theorems start from; the other inductive invariants say more than types and
are in the proof modules. The other runs are for what the values are, not for
their types. No deadlock check is switched off: a program may always call again.

Bounds, and why they are enough:

- *Curves.* G1: y² = x³ + 4 mod 19, 21 = 3·7 points, R = 7, HEff = 9. Like
  BLS12-381's G1 it has a prime-order subgroup, points outside it, and points of
  order 3 with x = 0, on which blst reports POINT_NOT_IN_GROUP. G2:
  y² = x³ + 3 mod 29, 30 points, R = 5, HEff = 6, no point with x = 0. Both
  effective cofactors need their top bit. The session's curve is
  y² = x³ + 3 mod 41, 42 = 6·7 points, so that subgroup and target group have
  the same order 7. The arithmetic of G2 is that of G1 with other constants, and
  both curves of BLS12-381 have odd order: one instance of Point does for both.
  ToyGroup computes the chord-and-tangent law and TLC checks that the tables
  agree with it. A word may also be the prime itself, a second spelling of
  zero. A point has one or two triples, infinity two: enough for equal points
  with unequal limbs.
- *Scalars* are all of 0 .. R - 1; ScalarBits is the least that holds them, so
  one bit less loses something, as with 255 bits in the code.
- *Field.* 169 elements as pairs over 13: the units have order 168, the
  cyclotomic subgroup order 14, the group order 7, so that each inclusion is
  strict. WalkBits = 4 has a leading bit that is always zero, as 256 has.
- *Limbs.* Two bytes of one bit to a limb, two limbs to an element, prime 9:
  verdicts at both limbs and equality with the prime occur, and slices end at,
  before and inside limbs and elements. The tower keeps the code's 2, 3 and 2,
  because an order of loops that is wrong may agree on a square one; at each of
  the twelve positions every value that two limbs hold is tried, among elements
  that differ by position and among zeros.
- *Texts.* Base 2 with one digit that has two cases, encodings of one and of two
  bytes of which some are prefixes of others: texts of odd length, of foreign
  characters, of the other curve, too long and too short all occur.
- *Liveness.* A walk of 3 bits holds all scalars of order 7; the loop is
  independent of the other operations, which are kept but over one Miller value.
- *Lengths.* MaxLength = 3 makes each of two slices longer, shorter, equal and
  empty, and has a first, middle and last entry, as MaxTerms = 3 has for terms.
  In the session two terms are enough for one sound and one not.
- *Storage.* One place, which holds a value of this program or one from
  elsewhere: an accepted and a refused one for each form that is checked.

Fairness. `FairSpec` of Target is weakly fair to MulBit and MulReturn, TowerSpec of
Fp12Limbs to TestElement, ReadElement and WriteElement. These are the turns and
the ends of loops over a fixed number of bits or elements inside one synchronous
call: once called, the code runs them without waiting for anybody. No operation
that a program chooses to call is fair, Call and Archive included.

`op` in Point and Target is a label of the step just taken. No action reads it,
and the refinements constrain it in the step that sets it, so the VIEW that
leaves it out of the state loses no successor.

## 4. The proofs

The theorems hold for every value of the constants that satisfies the named
assumptions: any curve, subgroup, cofactor, set of triples, target field,
scalar length, limb width, and slices, lists of terms and sequences of calls of
any length. The assumptions are

- the contract of `blst` and the mathematics of the groups: the field is a
  field's multiplicative monoid (its units closed under multiplication), the
  final exponentiation maps units into the group, is multiplicative, and takes no
  member of the group but one to one, a pairing's exponent is the product of its
  points' logarithms, powers are what they are in a cyclic group;
- facts about the code's own constants: the bit counts it passes to blst hold
  every scalar and the effective cofactor (BitsAssumption, WalkAssumption), and
  the curve whose decoders refuse POINT_NOT_IN_GROUP has no point with x = 0
  (NameAssumption); the kinds of archive a program keeps are those the crate
  has (KindsAssumption); dusk's raw identities end in a byte that is not zero
  (RawAssumption);
- the sizes of a scalar: 255 bits take the 32 bytes that it is written to, and
  both hold every scalar (ScalarSizeAssumption); one times a point is the point
  (BatchAssumption); a hexadecimal digit of either case has one value, and the
  encodings of the two curves differ in length (SerdeAssumption);
- what powers of two and of the base of bytes are (WalkAssumption,
  PowersAssumption, BytePowersAssumption), said because the provers' arithmetic
  has none.

TLC evaluates each on the small instances of the runs.

- **OperatorProofs** has the lemmas on operators that the others share: what
  each encoder gives and each decoder accepts, that equality of encodings is
  equality, the stored forms, Gt's operations, quotients and remainders,
  numerals, joined sequences, and the Miller loop over a list. It takes a curve and a pairing
  whose constants have nothing to do with each other until PairingSession
  relates them. The provers cannot instantiate the library's induction theorems,
  which take a predicate; `NumbersByInduction` says the same of a *set* of numbers
  and is proved from the well-foundedness of sets of naturals, so induction over
  the terms of a list or the limbs of an array is done by naming the set of
  lengths for which the claim holds. The community modules' folds choose a
  recursive function; such a function is shown to exist by that induction
  (`FoldExists`), and unfolds from then on.
- **AffineCodecProofs** proves type correctness, `Canonical`, `CheckedIsExact`,
  `UncheckedIsExact` and `RoundTrip`. They are not inductive alone: a state says only
  that a decoder was called and what came out. The invariant adds that the
  verdict and the value are those of that decoder on the bytes still present,
  and that bytes with a sender are the encoding of the sender's point. Each
  property then follows from a lemma about one decoder. For Batch it proves
  `BatchIsPointwise`, `MsmIsSum` and `SumIsMsmOfOnes`, for slices of any lengths.
  What msm_variable_base does is shown in three steps: the scalars' bytes lie one
  after another, each as long as the stride that blst works out from the number
  of bits; what is read at a stride is the scalar (a numeral and its digits);
  reducing it to that number of bits loses nothing. sum is a fold over triples;
  by induction over the slice each of its triples stands for the total of the
  points so far. Both are then the same total.
- **PointProofs** proves type correctness, `SubgroupSafety`, `EqualityAgrees`,
  `SafeValuesReencode` and that Point implements PointGroup. The type invariant
  is strengthened to "p and q are triples of some point of the curve", without
  which a triple has no point to refine to. Safety comes through the
  refinement: PointGroup keeps safe elements in the subgroup because the
  subgroup is closed and clearing the cofactor lands in it. That selection by
  coordinate returns one of its arguments whole, and that the given number of
  bits holds the whole scalar, are lemmas.
- **ArchiveProofs** proves `TypeOK`, `AcceptsExactly` and `RestoresOriginal`.
  The invariant adds to them that the bytes present stay those of the point they
  were written for (`SourceIsStored`). What each of the three stored forms
  accepts, and that it is injective, are lemmas.
- **TargetProofs** proves type correctness, `GtSafety`, `PrefixMultiple`,
  `ArchivesRestore`, and that `mul_scalar` returns the multiple. The invariant
  is the conjunction of the first three, which need each other: the accumulator
  is in the group because it is a power, and squaring and multiplying it gives
  the next power because it is in the group. The arithmetic of the bit walk
  (`n div d = 2 (n div 2d) + bit`) is proved from bounds of quotients, as the
  provers do not know it. It also proves that Target implements CyclicGroup,
  step by step: the logarithm of each result is the sum, negation or multiple
  of the logarithms, the bits of a multiplication in progress are stutters, and
  its return is the abstract multiplication.
  For Pairing it proves `ResultIsProduct` and `CheckIsExact` for lists of any
  length: the product of a list one term longer multiplies by that term's
  pairing, the exponentiation of a Miller product is a power of the generator
  by the sum of the exponents, and a second exponentiation of a member of the
  group is one only if the member is.
- **PairingSessionProofs** proves the four properties of the composed program.
  What a value, a term or a place in storage may be is said once for each
  trust (`Held`, `Collected`, `OnDisk`): a sound point is in the subgroup, an
  unchecked one on the curve, a sound result is the power its ghost exponent
  says, bytes from elsewhere are of the form they are stored as and nothing
  more. The invariant is the conjunction; decoding, storage, collecting and
  the calls each preserve it by one lemma.
- **SerdeTextProofs** proves `ReadsExactly` and `TextIsFaithful` for any number of
  digits and any sizes of encodings: a byte is determined by its two digits, so a
  text is determined by its bytes but for the case of its digits, and its length
  by the type. The decoder works on each pair by itself, so no induction is needed.
- **RawLimbsProofs** proves `SlicesInBounds`, `ReadsWhatIsThere`,
  `CanonicalIsExact` and `WritesWhatItRead` for limbs, elements and slices of
  any size. None is inductive: `out` is half read for most of a call, and a
  verdict comes from one limb. The invariant says which places are read before
  each piece (`ReadSoFar`, `AllRead`) and that while the test goes on, the elements
  before the present one are below the modulus and the present one's limbs above the
  present limb are the modulus's (`TestedSoFar`). The rest is arithmetic of numerals:
  the integer of an element's limbs is read by Horner's rule, two numerals
  compare as their most significant different digits do, division and
  remainder give the digits back, and a sum of digits times powers, in whatever
  order it is taken, is the same number. For Fp12Limbs it proves `AcceptsExactly`,
  `RestoresEachElement` and `RewritesTheSame`, for elements of any number of limbs.
  The invariant (`TowerInvariant`) says that the running offset is the number of
  the place in the tower times the size of an element, that all places before it
  hold their own element, and that what is written so far is the
  elements before it; the test is RawLimbs' and its lemmas apply.

Every invariant and every safety property of every run is a theorem. Only
model-checked are the two liveness properties, `MulDelivers` and
`CallsComplete`, because liveness under fairness is out of the prover's reach.
What the toy instances are computed by (the chord-and-tangent law, the tables of
ToyFp12) is evaluated by TLC and not proved; the theorems do not use it.

## 5. What is not modelled

- The facade and the dusk backend's re-exports: no logic in this repository.
  Its one function of its own, the product check, is in PairingFunctions.
- Interchange of bytes between the two backends: the dusk crate's encoders are
  not in the repository; `mod.rs` has tests that compare them.
- Scalars, `hash_to_scalar`, `scalar_from_wide`: functions of the dusk crate.
- The inversion that blst shares between the points of a batch, an infinity
  among them included: `P1sToAffine` is external and takes each point on its own.
- Hashing to curves beyond "a subgroup point comes back", and the formulas of
  curve and field arithmetic: blst's.
- Debug and Display, fixed-size encoding types, operator forms by reference and
  with the scalar on the left, window-size hints: each calls an operation that
  is modelled, or decides nothing that a property depends on.
- Constant-time behaviour, which is about time and not about values.

## 6. Plan

Written first because most depends on them: the codecs, then arithmetic with
its abstract specification, then Gt and pairings, then raw limbs, archives and
batches; then the archives of field elements byte by byte, serde's text, sums,
the composition from bytes to pairings, and the two liveness properties. Then
the proofs, in the order of section 4. The plan is carried out; what a change of
the code would need is a change of the operator that models the function, of its
mutant, and of the lemma about it, in that order.
