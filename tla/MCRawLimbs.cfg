SPECIFICATION Spec
CONSTANTS
  ByteBase = 2
  LimbBytes = 2
  LimbsPerField = 2
  Modulus <- ToyModulus
  FieldCount <- ToyFieldCount
  IdentityBytes <- ToyIdentityBytes
  Slices <- ToySlices
INVARIANTS
  SlicesInBounds
  ReadsWhatIsThere
  CanonicalIsExact
  WritesWhatItRead
