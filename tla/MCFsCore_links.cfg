CONSTANTS
  Threads = {t1, t2}
  Inodes = {1, 2, 3}
  ROOTINO = 1
  Names = {"a", "b"}
  MkdirArgs <- AbsMkdir
  OpenArgs <- AbsOpen
  LinkArgs <- AbsLink
  UnlinkArgs <- AbsUnlink
  ChdirArgs <- AbsChdir
  NOFILE = 1
  NFILE = 2
  WithPwd = TRUE
  WithRW = TRUE
  MaxRef = 3
  NoThread = NoThread
SPECIFICATION Spec
SYMMETRY ThreadSymmetry
VIEW LiveBufView
INVARIANT NoDanglingHold
INVARIANT NoOrphan
INVARIANT NlinkExact
INVARIANT KernelBufIntact
