CONSTANTS
  DIRSIZ = 3
  Chars <- MCChars
  Paths <- MCPaths
  Targets = {3, 4}
  Self = 2
  Parent = 1
  MaxSlots = 4
SPECIFICATION Spec
INVARIANT TypeOK
INVARIANT ElemsAsSplit
INVARIANT EmptyMeansNoEntries
PROPERTY DirRefinement
