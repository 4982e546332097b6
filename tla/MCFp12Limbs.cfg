SPECIFICATION FairSpec
CONSTANTS
  ByteBase = 2
  LimbBytes = 2
  LimbsPerField = 2
  Modulus <- ToyModulus
  Fp6s = 2
  Fp2s = 3
  Fps = 2
  Archives <- ToyArchives
INVARIANTS
  AcceptsExactly
  RestoresEachElement
  RewritesTheSame
PROPERTIES
  CallsComplete
