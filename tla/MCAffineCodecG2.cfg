SPECIFICATION Spec
CONSTANTS
  Name = "G2"
  ToyPrime = 29
  ToyB = 3
  ToyOrder = 30
  ToyRootX = 1
  ToyRootY = 2
  R = 5
  HEff = 6
  Zero = 0
  One = 1
  Field <- ToyField
  Words <- ToyWords
  Curve <- ToyCurve
  Subgroup <- ToySubgroup
  Gen <- ToyGen
  Larger <- ToyLarger
  Plus <- ToyPlus
  Minus <- ToyMinus
  Times <- ToyTimes
  JacReps <- ToyJacReps
  ToAffine <- ToyToAffine
INVARIANTS
  UncheckedIsExact
