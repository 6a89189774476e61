CONSTANTS
  Threads = {t1, t2}
  Inodes = {1, 2, 3}
  ROOTINO = 1
  Names = {"a", "b"}
  MkdirArgs <- RefMkdir
  OpenArgs <- RefOpen
  LinkArgs <- RefLink
  UnlinkArgs <- RefUnlink
  ChdirArgs <- RefChdir
  NOFILE = 1
  NFILE = 1
  WithPwd = FALSE
  WithRW = FALSE
  MaxRef = 4
  NoThread = NoThread
SPECIFICATION FairSpec
INVARIANT TypeOK
INVARIANT RefCountExact
PROPERTY SyscallsReturn
