SPECIFICATION Spec
CONSTANTS
  HexBase = 2
  Characters <- ToyCharacters
  LowerDigit <- ToyLowerDigit
  UpperDigit <- ToyUpperDigit
  Size <- ToySize
  Encodings <- ToyEncodings
  Texts <- ToyTexts
INVARIANTS
  ReadsExactly
  TextIsFaithful
