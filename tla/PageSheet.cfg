SPECIFICATION TitlesSpec
CONSTANTS
  Encodings = {latin1}
  Requested = latin1
  latin1 = latin1
  latin2 = latin2
  NULL = NULL
  Slots = 2
  Rank = 2
  FileAlign = "sheet"
  AlignTo = 2
  Duplex = TRUE
  Titles = TRUE
  VirtualForce = FALSE
  Intervals <- OneAndOn
  TocOnly = FALSE
  MaxPages = 7
  MaxFiles = 3
  SizeMax = 64
  Macros <- MCMacros
  Environ <- MCEnviron
  Argv <- MCArgv
  Flags = {"d"}
  Tags <- MCTags
  Selection <- MCSelection
  NameOrder <- MCOrder
  Marks <- MCMarks
INVARIANTS FilesApart
