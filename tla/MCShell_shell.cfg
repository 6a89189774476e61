CONSTANTS
  Names <- MCNames
  JunkName = "junk"
  MaxDepth = 3
  MaxNodes = 7
  CdArgs <- MCCdArgs
  MkdirArgs <- MCMkdirArgs
  TouchArgs <- MCTouchArgs
  RmArgs <- MCRmArgs
  MvArgs <- MCMvArgs
  CpArgs <- MCCpArgs
  WriteArgs <- None
  AppendArgs <- None
  Bytes = {"x"}
  JunkByte = "?"
  MaxJunk = 0
  MaxLen = 0
  CpBufLen = 1

SPECIFICATION Spec

INVARIANT TypeOK
INVARIANT CwdIsDir
INVARIANT NoUninitFd
PROPERTY CpCopiesTree
