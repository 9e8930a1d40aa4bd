SPECIFICATION Spec
CONSTANTS
  Chars <- MCChars
  Alpha1 <- Letters
  Alpha2 <- WordChars
  Fold <- MCFold
  Keywords <- MCKeywords
  Operators <- MCOperators
  Sequences <- MCSequences
  Names <- MCNames
  Lines <- MCLines
  MaxLines = 2
INVARIANTS FilesIndependent
