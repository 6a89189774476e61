CONSTANTS
  Threads = {t1, t2}
  Inodes = {1, 2, 3}
  ROOTINO = 1
  Names = {"a", "b"}
  MkdirArgs <- UpMkdir
  OpenArgs <- UpOpen
  LinkArgs <- None
  UnlinkArgs <- UpUnlink
  ChdirArgs <- UpChdir
  NOFILE = 1
  NFILE = 1
  WithPwd = FALSE
  WithRW = FALSE
  MaxRef = 4
  NoThread = NoThread
SPECIFICATION Spec
SYMMETRY ThreadSymmetry
INVARIANT NoDanglingHold
