CONSTANTS
  W <- MC_W
  VM_USERLO <- MC_VM_USERLO
  VM_USERHI <- MC_VM_USERHI
  KBUF = 8
  STATSIZE = 4
  PAGESIZE = 16
  NOFILE = 1
  AddrArgs <- MCAddrArgs
  FdArgs <- MCFdArgs
  LenArgs <- MCLenArgs
  PutsLenArgs <- MCPutsLenArgs
SPECIFICATION Spec
INVARIANT TypeOK
INVARIANT PutsPrintsString
