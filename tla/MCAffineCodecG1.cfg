SPECIFICATION Spec
CONSTANTS
  Name = "G1"
  ToyPrime = 19
  ToyB = 4
  ToyOrder = 21
  ToyRootX = 4
  ToyRootY = 7
  R = 7
  HEff = 9
  Zero = 0
  One = 1
  Field <- ToyField
  Words <- ToyWords
  Curve <- ToyCurve
  Subgroup <- ToySubgroup
  Gen <- ToyGen
  Larger <- ToyLarger
  Plus <- ToyPlus
  Minus <- ToyMinus
  Times <- ToyTimes
  JacReps <- ToyJacReps
  ToAffine <- ToyToAffine
INVARIANTS
  TypeOK
  Canonical
  CheckedIsExact
  UncheckedIsExact
  RoundTrip
