------------------------------ MODULE MCFsCore ------------------------------
(***************************************************************************)
(* Instantiations of FsCore for TLC: the paths and argument sets that the  *)
(* configurations give to each system call.                                *)
(***************************************************************************)
EXTENDS FsCore, TLC

Abs(s) == [abs |-> TRUE,  elems |-> s]
Rel(s) == [abs |-> FALSE, elems |-> s]

RootA  == Abs(<<"a">>)
RootB  == Abs(<<"b">>)
RootAB == Abs(<<"a", "b">>)
RelB   == Rel(<<"b">>)
RelUp  == Rel(<<"..">>)
Root   == Abs(<<>>)

\* O_CREATE | O_RDWR
CreateRW == O_CREATE + O_RDWR

\* Reference counting and progress: every syscall, absolute and
\* cwd-relative paths, with the error exits of opening a directory for
\* writing and of chdir into a file (/a when open made it a file).
RefMkdir  == {RootA, RelB}
RefOpen   == {<<RootAB, CreateRW>>, <<RootA, CreateRW>>, <<RelUp, O_RDONLY>>,
              <<Root, O_WRONLY>>}
RefLink   == {<<RootAB, RootB>>}
RefUnlink == {RootA, RootAB}
RefChdir  == {RootA, RelUp}

\* Link accounting with absolute paths.
AbsMkdir  == {RootA, RootAB}
AbsOpen   == {<<RootAB, CreateRW>>, <<RootA, O_RDONLY>>}
AbsLink   == {<<RootAB, RootB>>, <<RootA, RootB>>}
AbsUnlink == {RootA, RootAB, RootB}
AbsChdir  == {RootA}

\* A thread whose cwd was unlinked resolves ".." after its parent went too.
UpMkdir  == {RootA, RootAB}
UpOpen   == {<<RelUp, O_RDONLY>>}
UpUnlink == {RootA, RootAB}
UpChdir  == {RootAB}

\* A thread leaves a cwd that was unlinked.
LeaveMkdir  == {RootA}
LeaveUnlink == {RootA}
LeaveChdir  == {RootA, Root}

None == {}

ThreadSymmetry == Permutations(Threads)

\* Every call that reads kernel_buf fills it first (sys_write's pt_copyin,
\* file_read's readi; a read of 0 bytes copies nothing out), so its bytes
\* are dead unless a sys_write is between its copy-in and file_write.
\* States that differ only in dead kernel_buf bytes are identified.
LiveBufView ==
  <<inode, ilock, txn, cwd, ofile, th, panicked, fslock,
    IF \E t \in Threads : th[t].pc = "write_lock" THEN kbuf ELSE NoData>>
=============================================================================
