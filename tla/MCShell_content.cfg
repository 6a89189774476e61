CONSTANTS
  Names <- MCNames
  JunkName = "junk"
  MaxDepth = 2
  MaxNodes = 6
  CdArgs <- MCCtCdArgs
  MkdirArgs <- MCCtMkdirArgs
  TouchArgs <- None
  RmArgs <- MCCtRmArgs
  MvArgs <- MCCtMvArgs
  CpArgs <- MCCtCpArgs
  WriteArgs <- MCCtWriteArgs
  AppendArgs <- MCCtAppendArgs
  Bytes = {"x"}
  JunkByte = "?"
  MaxJunk = 1
  MaxLen = 2
  CpBufLen = 1

SPECIFICATION Spec

PROPERTY ContentFrame
PROPERTY CpCopiesTree
PROPERTY AppendAppends
