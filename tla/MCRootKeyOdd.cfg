CONSTANTS
  None = None
  Alphabet <- MCAlphabet
  MaxLen = 3
  KeyLen = 1
SPECIFICATION Spec
INVARIANTS RootKeyWellFormed
