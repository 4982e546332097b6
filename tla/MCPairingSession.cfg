SPECIFICATION Spec
CONSTANTS
  Name = "G2"
  ToyPrime = 41
  ToyB = 3
  ToyOrder = 42
  ToyRootX = 8
  ToyRootY = 8
  R = 7
  HEff = 6
  Zero = 0
  One = 1
  Field <- ToyField
  Words <- ToyWords
  Curve <- ToyCurve
  Subgroup <- ToySubgroup
  Gen <- ToyGen
  Larger <- ToyLarger
  Plus <- ToyPlus
  Minus <- ToyMinus
  Times <- ToyTimes
  JacReps <- ToyJacReps
  ToAffine <- ToyToAffine
  Reduced <- ToyReduced
  Flags <- ToyFlags
  Half <- ToyHalf
  HalfWords <- ToyHalfWords
  FZero <- ToyFZero
  FOne <- ToyFOne
  FMul <- ToyFMul
  FConj <- ToyFConj
  FinalExp <- ToyFinalExp
  Cyclotomic <- ToyCyclotomic
  GtGroup <- ToyGtGroup
  GtGen <- ToyGtGen
  Pow <- ToyPow
  GtOrder = 7
  WalkBits = 4
  G1Points <- ToyG1Points
  G2Points <- ToySubgroup
  Dlog1 <- ToyDlog1
  Dlog2 <- ToyDlog2
  MillerTerm <- ToyMillerTerm
  EmptyLoop <- ToyFZero
  Inputs <- ToyInputs
  Foreign <- ToyForeign
  MaxTerms = 2
INVARIANTS
  PointsAreAsChecked
  SoundResultsAreProducts
  CheckedResultsInGroup
  StorageIsFaithful
