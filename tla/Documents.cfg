SPECIFICATION DocumentsSpec
CONSTANTS
  pro = pro
  base = base
  Files <- MCFiles
  Prologue = pro
  Length = 3
  Encodings = {"latin1", "latin2"}
  Requested = "latin2"
  Fonts <- MCFonts
  Existing = {"Courier", "Courier-Ogonki", "Symbol"}
  Known = {"Courier", "Symbol"}
  Faces = {"Plain", "Symbol"}
  Substitutes <- MCSubstitutes
  Default = "Courier"
  Slanted = {}
  Skips = TRUE
  MidLine = TRUE
  Delegates = TRUE
  Names <- MCNames
  Builtin = {"color"}
  MinContent = 4
  Margin = 3
  MaxLines = 2
  MaxEvents = 4
INVARIANTS FilesRead FontsReady DumpFaithful HeaderTrue
PROPERTIES ReadingEnds
