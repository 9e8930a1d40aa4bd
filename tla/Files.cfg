SPECIFICATION TypingSpec
CONSTANTS
  WordCount = 4
  Initial <- MCInitial
  Upper <- MCUpper
  Names = {"c", "m", "l", "x"}
  Libraries <- MCLibraries
  Requests <- MCRequests
  Highlight = 2
  Strip = 1
  Version <- MCVersion
  MaxRequests = 3
  Scenarios <- MCScenarios
  Depth = 2
  LowerCase <- MCLowerCase
  Contracts = {"ps"}
  PrintBinaries = FALSE
  MaxDepth = 5
CHECK_DEADLOCK FALSE
INVARIANTS Inheritance SheetsReady MapAsWritten TypedAndPrinted
PROPERTIES FilesEnd
