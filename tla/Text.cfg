SPECIFICATION TextSpec
CONSTANTS
  Chars <- MCChars
  Alpha1 <- Letters
  Alpha2 <- WordChars
  Fold <- MCFold
  Keywords <- MCKeywords
  Operators <- MCOperators
  Sequences <- MCSequences
  Names <- MCNames
  Lines <- MCLines
  MaxLines = 2
  InputChars = {"a", "nl", "cr", "ff", "xff"}
  Sources = {"string", "stream", "stdin"}
  Eols = {"r", "n", "rn", "nr", "auto"}
  SampleSize = 2
  MaxLength = 4
  EngineFaces = {"Plain", "Symbol"}
  EngineEncodings = {"latin1", "euc"}
  Composite = {"euc"}
  LinesPerPage = 2
  COURIER_WX = 2
  Jobs <- MCJobs
  MaxPages = 3
  MaxWx = 15
INVARIANTS InputWhole LexerSound GlyphsPlaced
PROPERTIES CurrentLine LexerAdvances
