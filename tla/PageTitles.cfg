SPECIFICATION TitlesSpec
CONSTANTS
  Encodings = {latin1, latin2}
  Requested = latin1
  latin1 = latin1
  latin2 = latin2
  NULL = NULL
  Slots = 4
  Rank = 2
  FileAlign = "rank"
  AlignTo = 2
  Duplex = TRUE
  Titles = TRUE
  VirtualForce = FALSE
  Intervals <- AllPages
  TocOnly = FALSE
  MaxPages = 9
  MaxFiles = 3
  SizeMax = 64
  Macros <- MCMacros
  Environ <- MCEnviron
  Argv <- MCArgv
  Flags = {"d"}
  Tags <- MCTags
  Selection <- MCSelection
  NameOrder <- MCOrder
  Marks <- MCMarks
INVARIANTS TypeOK PageStructure EncodingsSound CountersTrue TitlesTrue
