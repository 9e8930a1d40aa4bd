\* Configuration files and command lines of a few lines and options.
CONSTANTS
  NULL = NULL
  Number <- MCNumber
  Definition <- MCDefinition
  PathOf <- MCPathOf
  Forbidden <- MCForbidden
  Papers <- MCPapers
  OptionOf <- MCOptionOf
  Dimensions <- MCDimensions
  Worlds <- MCWorlds
  Library <- MCLibrary
  SystemPaper <- MCSystemPaper
  Encodings <- MCEncodings
  WordMod = 4096
  MaxOpen = 3
  MaxDepth = 4
SPECIFICATION Spec
INVARIANTS ConfigTypeOK FirstLineIsFirst OptionsGovern DeclarationsGovern LayoutFits
PROPERTIES InPlace
