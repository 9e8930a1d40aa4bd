SPECIFICATION FairTitlesSpec
CONSTANTS
  Encodings = {latin1}
  Requested = latin1
  latin1 = latin1
  latin2 = latin2
  NULL = NULL
  Slots = 2
  Rank = 2
  FileAlign = "number"
  AlignTo = 3
  Duplex = FALSE
  Titles = TRUE
  VirtualForce = FALSE
  Intervals <- TwoThree
  TocOnly = FALSE
  MaxPages = 6
  MaxFiles = 3
  SizeMax = 64
  Macros <- MCMacros
  Environ <- MCEnviron
  Argv <- MCArgv
  Flags = {"d"}
  Tags <- MCTags
  Selection <- MCSelection
  NameOrder <- MCOrder
  Marks <- MCMarks
INVARIANTS AlignedStart RangeShifted
PROPERTIES AlignmentEnds
