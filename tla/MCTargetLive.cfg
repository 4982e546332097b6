SPECIFICATION FairSpec
CONSTANTS
  Half <- ToyHalf
  HalfWords <- ToyHalfWords
  FZero <- ToyFZero
  FOne <- ToyFOne
  FMul <- ToyFMul
  FConj <- ToyFConj
  FinalExp <- ToyFinalExp
  Cyclotomic <- ToyCyclotomic
  GtGroup <- ToyGtGroup
  GtGen <- ToyGtGen
  Pow <- ToyPow
  GtOrder = 7
  WalkBits = 3
  MillerOutputs <- OneMillerOutput
  Archived <- NoArchive
PROPERTY
  MulDelivers
