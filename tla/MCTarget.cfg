SPECIFICATION Spec
CONSTANTS
  Half <- ToyHalf
  HalfWords <- ToyHalfWords
  FZero <- ToyFZero
  FOne <- ToyFOne
  FMul <- ToyFMul
  FConj <- ToyFConj
  FinalExp <- ToyFinalExp
  Cyclotomic <- ToyCyclotomic
  GtGroup <- ToyGtGroup
  GtGen <- ToyGtGen
  Pow <- ToyPow
  GtOrder = 7
  WalkBits = 4
  MillerOutputs <- ToyMillerOutputs
  Archived <- ToyArchived
VIEW
  ToyView
INVARIANTS
  TypeOK
  GtSafety
  PrefixMultiple
  ArchivesRestore
PROPERTY
  ImplementsCyclicGroup
