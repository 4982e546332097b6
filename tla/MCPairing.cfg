SPECIFICATION CallerSpec
CONSTANTS
  Half <- ToyHalf
  HalfWords <- ToyHalfWords
  FZero <- ToyFZero
  FOne <- ToyFOne
  FMul <- ToyFMul
  FConj <- ToyFConj
  FinalExp <- ToyFinalExp
  Cyclotomic <- ToyCyclotomic
  GtGroup <- ToyGtGroup
  GtGen <- ToyGtGen
  Pow <- ToyPow
  GtOrder = 7
  WalkBits = 4
  G1Points <- ToyG1Points
  G2Points <- ToyG2Points
  Dlog1 <- ToyDlog
  Dlog2 <- ToyDlog
  MillerTerm <- ToyMillerTerm
  EmptyLoop <- ToyFZero
  MaxTerms = 3
INVARIANTS
  ResultIsProduct
  CheckIsExact
