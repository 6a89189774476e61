------------------------------- MODULE FsCore -------------------------------
(***************************************************************************)
(* The file-system system calls of src/kern/fs/sysfile.c, with the path    *)
(* resolver of src/kern/fs/path.c and the directory layer of               *)
(* src/kern/fs/dir.c, run concurrently by several kernel threads.          *)
(*                                                                         *)
(* A thread steps at the points where the code can block or where another  *)
(* thread can observe its state: begin_trans() (the single-writer log),    *)
(* inode_lock() of an inode that another thread may hold, and each         *)
(* iteration of the namex() loop (which holds one directory lock at a      *)
(* time and releases it before descending).  The code between two such     *)
(* points is one action.                                                   *)
(*                                                                         *)
(* The inode layer, the log and the file table (inode.c, log.c, file.c)    *)
(* are not in this source tree; their operations (inode_get, inode_put,    *)
(* inode_alloc, file_alloc, file_close, begin/commit) are modelled from    *)
(* the spec.  Directory contents are abstracted from byte offsets to a     *)
(* map from entry name to inode number (0 = no entry); "." and ".." are    *)
(* material entries as in the code.                                        *)
(***************************************************************************)
EXTENDS Naturals, Sequences, FiniteSets, Bitwise

CONSTANTS
  Threads,      \* kernel threads issuing file-system calls
  Inodes,       \* inode numbers on the disk (0 is the empty dirent)
  ROOTINO,      \* the inode of "/"
  Names,        \* path components other than "." and ".."
  MkdirArgs,    \* paths given to sys_mkdir
  OpenArgs,     \* <<path, omode>> pairs given to sys_open
  LinkArgs,     \* <<old, new>> path pairs given to sys_link
  UnlinkArgs,   \* paths given to sys_unlink
  ChdirArgs,    \* paths given to sys_chdir
  NOFILE,       \* open-file slots per thread (TCB openfiles[])
  NFILE,        \* file objects in the global file table
  WithPwd,      \* whether threads call sys_pwd (TSyscall.c)
  WithRW,       \* whether threads call sys_read and sys_write
  MaxRef,       \* bound on a cache entry's ref count for sys_pwd's leak
  NoThread      \* owner of a free lock or of an idle log

ASSUME /\ ROOTINO \in Inodes /\ 0 \notin Inodes
       /\ NoThread \notin Threads
       /\ NOFILE \in Nat \ {0} /\ NFILE \in Nat \ {0}
       /\ WithPwd \in BOOLEAN /\ WithRW \in BOOLEAN /\ MaxRef \in Nat

Dot    == "."
DotDot == ".."
DirNames == Names \cup {Dot, DotDot}

\* inode types (stat.h): 0 marks a free on-disk inode
T_FREE == 0
T_DIR  == 1
T_FILE == 2

\* fcntl.h
O_RDONLY == 0
O_WRONLY == 1
O_RDWR   == 2
O_CREATE == 512

FDs     == 0 .. NOFILE - 1
NoEnts  == [n \in DirNames |-> 0]
NoFile  == [ip |-> 0, readable |-> FALSE, writable |-> FALSE]
NoPath  == [abs |-> FALSE, elems |-> <<>>]

\* The contents of kernel_buf: a thread t stands for the bytes t passes
\* to sys_write, FileBytes for bytes readi copied out of an inode, and
\* NoData for the zeroed buffer.  File contents themselves are not kept.
NoData    == "zero"
FileBytes == "file"

\* Program counters; "idle" means in user mode, between system calls.
PCs == {"idle", "namex", "create", "create_lockip", "open_lock",
        "link_begin", "link_lock", "link_lockdp", "link_bad",
        "unlink_begin", "unlink_lockdp", "unlink_lockip", "chdir_lock",
        "read_lock", "write_lock"}

\* A thread's kernel-stack locals: ip and dp hold inode references,
\* cur is the inode namex() is standing on, rest the unparsed path.
IdleRec == [pc |-> "idle", op |-> "none", path2 |-> NoPath, mode |-> 0,
            want |-> FALSE, cur |-> 0, rest |-> <<>>, ret |-> "idle",
            ip |-> 0, dp |-> 0, name |-> Dot, fd |-> 0]

VARIABLES
  inode,     \* inode -> [type, nlink, ents, ref]: on-disk fields + cache ref
  ilock,     \* inode -> holder of its sleep lock, or NoThread
  txn,       \* holder of the log (begin_trans .. commit_trans), or NoThread
  cwd,       \* thread -> current working directory (TCB cwd)
  ofile,     \* thread -> fd -> open file (TCB openfiles[])
  th,        \* thread -> program counter and locals
  panicked,  \* "none", or the message of the KERN_PANIC that halted the kernel
  fslock,    \* holder of the fs_lock spinlock (sysfile.c), or NoThread
  kbuf       \* contents of the one global kernel_buf of sysfile.c

vars == <<inode, ilock, txn, cwd, ofile, th, panicked, fslock, kbuf>>

\* No KERN_PANIC has halted the kernel
NoPanic == panicked = "none"

-----------------------------------------------------------------------------
(* Inode layer (inode.c, not in this tree: modelled from spec 4.3).        *)

\* inode_get / inode_dup: one more reference to the cache entry
IGet(ino, i) == [ino EXCEPT ![i].ref = @ + 1]

\* inode_put: the last reference to an inode with no links truncates it
\* and frees its on-disk slot
IPut(ino, i) ==
  IF ino[i].ref = 1 /\ ino[i].nlink = 0
  THEN [ino EXCEPT ![i] = [type |-> T_FREE, nlink |-> 0, ents |-> NoEnts, ref |-> 0]]
  ELSE [ino EXCEPT ![i].ref = @ - 1]

\* inode_alloc scans the inode region for the first free slot
FreeInodes(ino) == {i \in Inodes : ino[i].type = T_FREE}
FirstFree(ino)  == CHOOSE i \in FreeInodes(ino) : \A j \in FreeInodes(ino) : i <= j

\* isdirempty: no live entry past "." and ".."
IsDirEmpty(ino, d) == \A n \in Names : ino[d].ents[n] = 0

-----------------------------------------------------------------------------
(* Directory layer: dir.c.  An entry's byte offset is abstracted away.     *)

\* dir_lookup: the inode named n in directory d, or 0; the caller gets
\* a reference (inode_get) when it is not 0
DirLookup(ino, d, n) == ino[d].ents[n]

\* dir_link writes (n, i) into d; callers have checked n is absent
DirLink(ino, d, n, i) == [ino EXCEPT ![d].ents[n] = i]

-----------------------------------------------------------------------------
(* Path resolution: namex() of path.c.                                     *)

\* namex entry: a reference to "/" (inode_get) or to the cwd (inode_dup)
NamexBase(t, p) == IF p.abs THEN ROOTINO ELSE cwd[t]

StartNamex(r, t, p, want, ret) ==
  [r EXCEPT !.pc = "namex", !.cur = NamexBase(t, p), !.rest = p.elems,
            !.want = want, !.ret = ret]

\* namex returns res to the caller: namei results go to ip,
\* nameiparent results to dp (with the last element in name)
Return(r, res) ==
  [r EXCEPT !.pc = r.ret, !.cur = 0, !.rest = <<>>,
            !.ip = IF r.want THEN r.ip ELSE res,
            !.dp = IF r.want THEN res ELSE r.dp]

\* (fault variant) a namex iteration that descends without keeping the
\* rest of the path skipelem returned
NamexStepNoAdvance(t) ==
  LET r  == th[t]
      ip == r.cur
      nm == Head(r.rest)
      c  == DirLookup(inode, ip, nm)
  IN /\ r.pc = "namex" /\ r.rest # <<>>
     /\ NoPanic
     /\ ilock[ip] = NoThread
     /\ CASE inode[ip].type # T_DIR ->
               /\ inode' = IPut(inode, ip)
               /\ th' = [th EXCEPT ![t] = Return(r, 0)]
          [] r.want /\ Len(r.rest) = 1 ->
               /\ UNCHANGED inode
               /\ th' = [th EXCEPT ![t] = [Return(r, ip) EXCEPT !.name = nm]]
          [] c = 0 ->
               /\ inode' = IPut(inode, ip)
               /\ th' = [th EXCEPT ![t] = Return(r, 0)]
          [] OTHER ->
               /\ inode' = IPut(IGet(inode, c), ip)
               /\ th' = [th EXCEPT ![t].cur = c]
     /\ UNCHANGED <<ilock, txn, cwd, ofile, panicked>>

\* One iteration of the namex loop: lock ip, reject a non-directory,
\* stop at the parent for nameiparent, else look up the element, release
\* ip and descend.  The lock is taken and dropped within the iteration.
NamexStep(t) ==
  LET r  == th[t]
      ip == r.cur
      nm == Head(r.rest)
      c  == DirLookup(inode, ip, nm)
  IN /\ r.pc = "namex" /\ r.rest # <<>>
     /\ NoPanic
     /\ ilock[ip] = NoThread
     /\ CASE inode[ip].type # T_DIR ->
               /\ inode' = IPut(inode, ip)
               /\ th' = [th EXCEPT ![t] = Return(r, 0)]
          [] r.want /\ Len(r.rest) = 1 ->
               /\ UNCHANGED inode
               /\ th' = [th EXCEPT ![t] = [Return(r, ip) EXCEPT !.name = nm]]
          [] c = 0 ->
               /\ inode' = IPut(inode, ip)
               /\ th' = [th EXCEPT ![t] = Return(r, 0)]
          [] OTHER ->
               /\ inode' = IPut(IGet(inode, c), ip)
               /\ th' = [th EXCEPT ![t].cur = c, ![t].rest = Tail(r.rest)]
     /\ UNCHANGED <<ilock, txn, cwd, ofile, panicked>>

\* The loop ends when skipelem finds no element: nameiparent fails,
\* namei returns the inode reached.
NamexEnd(t) ==
  LET r == th[t] IN
  /\ r.pc = "namex" /\ r.rest = <<>>
  /\ NoPanic
  /\ IF r.want
     THEN /\ inode' = IPut(inode, r.cur)
          /\ th' = [th EXCEPT ![t] = Return(r, 0)]
     ELSE /\ UNCHANGED inode
          /\ th' = [th EXCEPT ![t] = Return(r, r.cur)]
  /\ UNCHANGED <<ilock, txn, cwd, ofile, panicked>>

-----------------------------------------------------------------------------
(* Open files.                                                             *)

FileCount == Cardinality({<<u, fd>> \in Threads \X FDs : ofile[u][fd].ip # 0})
FreeFds(t) == {fd \in FDs : ofile[t][fd].ip = 0}
\* fdalloc: the first free slot of the current thread
FdAlloc(t) == CHOOSE fd \in FreeFds(t) : \A g \in FreeFds(t) : fd <= g

\* The tail of sys_open, entered with ip locked and referenced: allocate
\* a file object and a descriptor, or drop ip on failure.
OpenTail(t, ino, ip, m) ==
  IF FileCount = NFILE \/ FreeFds(t) = {}
  THEN /\ inode' = IPut(ino, ip)
       /\ UNCHANGED ofile
  ELSE /\ inode' = ino
       /\ ofile' = [ofile EXCEPT ![t][FdAlloc(t)] =
                      [ip |-> ip,
                       readable |-> (m & O_WRONLY) = 0,
                       writable |-> (m & O_WRONLY) # 0 \/ (m & O_RDWR) # 0]]

-----------------------------------------------------------------------------
(* System calls.  Each starts from "idle" with arguments from small sets.  *)

Idle(t) == th[t].pc = "idle"


\* Thread t is in user mode and may enter a system call
Ready(t) == NoPanic /\ Idle(t)

\* sys_mkdir and sys_open(O_CREATE): begin_trans, then create() starts
\* with nameiparent(path).
BeginCreate(t, op, p, m) ==
  /\ Ready(t) /\ txn = NoThread
  /\ txn' = t
  /\ inode' = IGet(inode, NamexBase(t, p))
  /\ th' = [th EXCEPT ![t] =
              StartNamex([IdleRec EXCEPT !.op = op, !.mode = m], t, p, TRUE, "create")]
  /\ UNCHANGED <<ilock, cwd, ofile, panicked>>

\* What sys_mkdir / sys_open do with the inode create() returned (0, or
\* a locked reference): commit, then release it or give it a descriptor.
CreateReturn(t, ino, ip) ==
  /\ txn' = NoThread
  /\ th' = [th EXCEPT ![t] = IdleRec]
  /\ IF th[t].op = "mkdir" \/ ip = 0
     THEN /\ inode' = IF ip = 0 THEN ino ELSE IPut(ino, ip)
          /\ UNCHANGED ofile
     ELSE OpenTail(t, ino, ip, th[t].mode)

\* create(): nameiparent failed
CreateNoParent(t) ==
  /\ th[t].pc = "create" /\ th[t].dp = 0
  /\ NoPanic
  /\ CreateReturn(t, inode, 0)
  /\ UNCHANGED <<ilock, cwd, panicked>>

\* create(): lock dp and look the name up.  An existing entry is
\* referenced and dp released before its inode is locked; otherwise a
\* fresh inode is allocated, initialised and linked under dp.
CreateInParent(t) ==
  LET r   == th[t]
      dp  == r.dp
      c   == DirLookup(inode, dp, r.name)
      typ == IF r.op = "mkdir" THEN T_DIR ELSE T_FILE
      \* inode_alloc returns inode_get of the slot it marks allocated
      ip  == FirstFree(inode)
      made == [inode EXCEPT
                 ![ip] = [type |-> typ, nlink |-> 1, ref |-> @.ref + 1,
                          ents |-> IF typ = T_DIR
                                   THEN [NoEnts EXCEPT ![Dot] = ip, ![DotDot] = dp]
                                   ELSE NoEnts],
                 ![dp].nlink = IF typ = T_DIR THEN @ + 1 ELSE @,
                 ![dp].ents[r.name] = ip]
  IN /\ r.pc = "create" /\ dp # 0
     /\ NoPanic
     /\ ilock[dp] = NoThread
     /\ CASE c # 0 ->
               /\ inode' = IPut(IGet(inode, c), dp)
               /\ th' = [th EXCEPT ![t].pc = "create_lockip", ![t].ip = c, ![t].dp = 0]
               /\ UNCHANGED <<txn, ofile, panicked>>
          [] FreeInodes(inode) = {} ->
               /\ panicked' = "create: ialloc"
               /\ UNCHANGED <<inode, txn, ofile, th>>
          [] OTHER ->
               /\ CreateReturn(t, IPut(made, dp), ip)
               /\ UNCHANGED panicked
     /\ UNCHANGED <<ilock, cwd>>

\* create(): lock the existing inode; only an existing file opened with
\* O_CREATE is returned, anything else is released and fails.
CreateLockIp(t) ==
  LET ip == th[t].ip IN
  /\ th[t].pc = "create_lockip"
  /\ NoPanic
  /\ ilock[ip] = NoThread
  /\ IF th[t].op = "open" /\ inode[ip].type = T_FILE
     THEN CreateReturn(t, inode, ip)
     ELSE CreateReturn(t, IPut(inode, ip), 0)
  /\ UNCHANGED <<ilock, cwd, panicked>>

\* sys_open without O_CREATE: namei(path)
BeginOpen(t, p, m) ==
  /\ Ready(t)
  /\ inode' = IGet(inode, NamexBase(t, p))
  /\ th' = [th EXCEPT ![t] =
              StartNamex([IdleRec EXCEPT !.op = "open", !.mode = m], t, p, FALSE, "open_lock")]
  /\ UNCHANGED <<ilock, txn, cwd, ofile, panicked>>

\* sys_open: E_NEXIST, a directory opened for writing, or the descriptor
OpenLock(t) ==
  LET r == th[t] IN
  /\ r.pc = "open_lock"
  /\ NoPanic
  /\ th' = [th EXCEPT ![t] = IdleRec]
  /\ IF r.ip = 0
     THEN UNCHANGED <<inode, ofile>>
     ELSE /\ ilock[r.ip] = NoThread
          /\ IF inode[r.ip].type = T_DIR /\ r.mode # O_RDONLY
             THEN /\ inode' = IPut(inode, r.ip)
                  /\ UNCHANGED ofile
             ELSE OpenTail(t, inode, r.ip, r.mode)
  /\ UNCHANGED <<ilock, txn, cwd, panicked>>

\* sys_link: namei(old) outside the transaction
BeginLink(t, a) ==
  /\ Ready(t)
  /\ inode' = IGet(inode, NamexBase(t, a[1]))
  /\ th' = [th EXCEPT ![t] =
              StartNamex([IdleRec EXCEPT !.op = "link", !.path2 = a[2]],
                         t, a[1], FALSE, "link_begin")]
  /\ UNCHANGED <<ilock, txn, cwd, ofile, panicked>>

\* sys_link: E_NEXIST, or begin_trans
LinkBegin(t) ==
  /\ th[t].pc = "link_begin"
  /\ NoPanic
  /\ IF th[t].ip = 0
     THEN /\ th' = [th EXCEPT ![t] = IdleRec]
          /\ UNCHANGED txn
     ELSE /\ txn = NoThread
          /\ txn' = t
          /\ th' = [th EXCEPT ![t].pc = "link_lock"]
  /\ UNCHANGED <<inode, ilock, cwd, ofile, panicked>>

\* sys_link: lock ip; a directory is refused, otherwise nlink++ is
\* written and nameiparent(new) starts
LinkLock(t) ==
  LET r == th[t]
      ip == r.ip
  IN /\ r.pc = "link_lock"
     /\ NoPanic
     /\ ilock[ip] = NoThread
     /\ IF inode[ip].type = T_DIR
        THEN /\ inode' = IPut(inode, ip)
             /\ txn' = NoThread
             /\ th' = [th EXCEPT ![t] = IdleRec]
        ELSE /\ inode' = IGet([inode EXCEPT ![ip].nlink = @ + 1], NamexBase(t, r.path2))
             /\ th' = [th EXCEPT ![t] = StartNamex(r, t, r.path2, TRUE, "link_lockdp")]
             /\ UNCHANGED txn
     /\ UNCHANGED <<ilock, cwd, ofile, panicked>>

\* (fault variant) sys_link success that keeps its reference to ip
LinkInParentNoPut(t) ==
  LET r == th[t] IN
  /\ r.pc = "link_lockdp" /\ r.dp # 0
  /\ NoPanic
  /\ ilock[r.dp] = NoThread
  /\ IF DirLookup(inode, r.dp, r.name) # 0
     THEN /\ inode' = IPut(inode, r.dp)
          /\ th' = [th EXCEPT ![t].pc = "link_bad", ![t].dp = 0]
          /\ UNCHANGED txn
     ELSE /\ inode' = IPut(DirLink(inode, r.dp, r.name, r.ip), r.dp)
          /\ txn' = NoThread
          /\ th' = [th EXCEPT ![t] = IdleRec]
  /\ UNCHANGED <<ilock, cwd, ofile, panicked>>

\* sys_link: lock dp and dir_link the name; dir_link fails if the name
\* is present
LinkInParent(t) ==
  LET r == th[t] IN
  /\ r.pc = "link_lockdp" /\ r.dp # 0
  /\ NoPanic
  /\ ilock[r.dp] = NoThread
  /\ IF DirLookup(inode, r.dp, r.name) # 0
     THEN /\ inode' = IPut(inode, r.dp)
          /\ th' = [th EXCEPT ![t].pc = "link_bad", ![t].dp = 0]
          /\ UNCHANGED txn
     ELSE /\ inode' = IPut(IPut(DirLink(inode, r.dp, r.name, r.ip), r.dp), r.ip)
          /\ txn' = NoThread
          /\ th' = [th EXCEPT ![t] = IdleRec]
  /\ UNCHANGED <<ilock, cwd, ofile, panicked>>

\* (fault variant) sys_link "bad:" that forgets to undo nlink++
LinkBadNoUndo(t) ==
  LET r == th[t] IN
  /\ \/ r.pc = "link_bad"
     \/ r.pc = "link_lockdp" /\ r.dp = 0
  /\ NoPanic
  /\ ilock[r.ip] = NoThread
  /\ inode' = IPut(inode, r.ip)
  /\ txn' = NoThread
  /\ th' = [th EXCEPT ![t] = IdleRec]
  /\ UNCHANGED <<ilock, cwd, ofile, panicked>>

\* sys_link "bad:": relock ip and undo the nlink increment
LinkBad(t) ==
  LET r == th[t] IN
  /\ \/ r.pc = "link_bad"
     \/ r.pc = "link_lockdp" /\ r.dp = 0
  /\ NoPanic
  /\ ilock[r.ip] = NoThread
  /\ inode' = IPut([inode EXCEPT ![r.ip].nlink = @ - 1], r.ip)
  /\ txn' = NoThread
  /\ th' = [th EXCEPT ![t] = IdleRec]
  /\ UNCHANGED <<ilock, cwd, ofile, panicked>>

\* sys_unlink: nameiparent(path) outside the transaction
BeginUnlink(t, p) ==
  /\ Ready(t)
  /\ inode' = IGet(inode, NamexBase(t, p))
  /\ th' = [th EXCEPT ![t] =
              StartNamex([IdleRec EXCEPT !.op = "unlink"], t, p, TRUE, "unlink_begin")]
  /\ UNCHANGED <<ilock, txn, cwd, ofile, panicked>>

\* sys_unlink: E_DISK_OP, or begin_trans
UnlinkBegin(t) ==
  /\ th[t].pc = "unlink_begin"
  /\ NoPanic
  /\ IF th[t].dp = 0
     THEN /\ th' = [th EXCEPT ![t] = IdleRec]
          /\ UNCHANGED txn
     ELSE /\ txn = NoThread
          /\ txn' = t
          /\ th' = [th EXCEPT ![t].pc = "unlink_lockdp"]
  /\ UNCHANGED <<inode, ilock, cwd, ofile, panicked>>

\* sys_unlink: lock dp; "." and ".." and a missing name go to bad,
\* otherwise dp stays locked while the target's lock is awaited
UnlinkLockDp(t) ==
  LET r == th[t]
      c == DirLookup(inode, r.dp, r.name)
  IN /\ r.pc = "unlink_lockdp"
     /\ NoPanic
     /\ ilock[r.dp] = NoThread
     /\ IF r.name \in {Dot, DotDot} \/ c = 0
        THEN /\ inode' = IPut(inode, r.dp)
             /\ txn' = NoThread
             /\ th' = [th EXCEPT ![t] = IdleRec]
             /\ UNCHANGED ilock
        ELSE /\ inode' = IGet(inode, c)
             /\ ilock' = [ilock EXCEPT ![r.dp] = t]
             /\ th' = [th EXCEPT ![t].pc = "unlink_lockip", ![t].ip = c]
             /\ UNCHANGED txn
     /\ UNCHANGED <<cwd, ofile, panicked>>

\* (fault variants) sys_unlink that decrements the parent's nlink for
\* any target, and one that removes a directory without isdirempty
UnlinkIpStep(t, decAll, checkEmpty) ==
  LET r  == th[t]
      ip == r.ip
      dp == r.dp
      isdir == inode[ip].type = T_DIR
      cleared == [inode EXCEPT ![dp].ents[r.name] = 0,
                               ![dp].nlink = IF isdir \/ decAll THEN @ - 1 ELSE @]
  IN /\ r.pc = "unlink_lockip"
     /\ NoPanic
     /\ ilock[ip] = NoThread
     /\ CASE inode[ip].nlink < 1 ->
               /\ panicked' = "unlink: nlink < 1"
               /\ UNCHANGED <<inode, ilock, txn, th>>
          [] checkEmpty /\ isdir /\ ~IsDirEmpty(inode, ip) ->
               /\ inode' = IPut(IPut(inode, ip), dp)
               /\ ilock' = [ilock EXCEPT ![dp] = NoThread]
               /\ txn' = NoThread
               /\ th' = [th EXCEPT ![t] = IdleRec]
               /\ UNCHANGED panicked
          [] OTHER ->
               /\ inode' = IPut([IPut(cleared, dp) EXCEPT ![ip].nlink = @ - 1], ip)
               /\ ilock' = [ilock EXCEPT ![dp] = NoThread]
               /\ txn' = NoThread
               /\ th' = [th EXCEPT ![t] = IdleRec]
               /\ UNCHANGED panicked
     /\ UNCHANGED <<cwd, ofile>>
UnlinkLockIpDecParent(t) == UnlinkIpStep(t, TRUE, TRUE)
UnlinkLockIpNoEmptyCheck(t) == UnlinkIpStep(t, FALSE, FALSE)

\* sys_unlink: lock the target; a non-empty directory goes to bad,
\* otherwise the entry is zeroed, ".." accounting undone for a
\* directory, both inodes released and the transaction committed
UnlinkLockIp(t) ==
  LET r  == th[t]
      ip == r.ip
      dp == r.dp
      isdir == inode[ip].type = T_DIR
      cleared == [inode EXCEPT ![dp].ents[r.name] = 0,
                               ![dp].nlink = IF isdir THEN @ - 1 ELSE @]
  IN /\ r.pc = "unlink_lockip"
     /\ NoPanic
     /\ ilock[ip] = NoThread
     /\ CASE inode[ip].nlink < 1 ->
               /\ panicked' = "unlink: nlink < 1"
               /\ UNCHANGED <<inode, ilock, txn, th>>
          [] isdir /\ ~IsDirEmpty(inode, ip) ->
               /\ inode' = IPut(IPut(inode, ip), dp)
               /\ ilock' = [ilock EXCEPT ![dp] = NoThread]
               /\ txn' = NoThread
               /\ th' = [th EXCEPT ![t] = IdleRec]
               /\ UNCHANGED panicked
          [] OTHER ->
               /\ inode' = IPut([IPut(cleared, dp) EXCEPT ![ip].nlink = @ - 1], ip)
               /\ ilock' = [ilock EXCEPT ![dp] = NoThread]
               /\ txn' = NoThread
               /\ th' = [th EXCEPT ![t] = IdleRec]
               /\ UNCHANGED panicked
     /\ UNCHANGED <<cwd, ofile>>

\* sys_chdir: namei(path)
BeginChdir(t, p) ==
  /\ Ready(t)
  /\ inode' = IGet(inode, NamexBase(t, p))
  /\ th' = [th EXCEPT ![t] =
              StartNamex([IdleRec EXCEPT !.op = "chdir"], t, p, FALSE, "chdir_lock")]
  /\ UNCHANGED <<ilock, txn, cwd, ofile, panicked>>

\* (fault variant) sys_chdir that puts the new directory instead of
\* the old cwd
ChdirLockPutsNew(t) ==
  LET ip == th[t].ip IN
  /\ th[t].pc = "chdir_lock"
  /\ NoPanic
  /\ th' = [th EXCEPT ![t] = IdleRec]
  /\ IF ip = 0
     THEN UNCHANGED <<inode, cwd>>
     ELSE /\ ilock[ip] = NoThread
          /\ IF inode[ip].type # T_DIR
             THEN /\ inode' = IPut(inode, ip)
                  /\ UNCHANGED cwd
             ELSE /\ inode' = IPut(inode, ip)
                  /\ cwd' = [cwd EXCEPT ![t] = ip]
  /\ UNCHANGED <<ilock, txn, ofile, panicked>>

\* sys_chdir: a directory replaces the cwd, whose reference is put
\* (with no transaction open); anything else fails
ChdirLock(t) ==
  LET ip == th[t].ip IN
  /\ th[t].pc = "chdir_lock"
  /\ NoPanic
  /\ th' = [th EXCEPT ![t] = IdleRec]
  /\ IF ip = 0
     THEN UNCHANGED <<inode, cwd>>
     ELSE /\ ilock[ip] = NoThread
          /\ IF inode[ip].type # T_DIR
             THEN /\ inode' = IPut(inode, ip)
                  /\ UNCHANGED cwd
             ELSE /\ inode' = IPut(inode, cwd[t])
                  /\ cwd' = [cwd EXCEPT ![t] = ip]
  /\ UNCHANGED <<ilock, txn, ofile, panicked>>

\* sys_close: file_close drops the file's inode reference and the slot
\* is cleared (closing an empty slot changes nothing)
Close(t, fd) ==
  /\ Ready(t)
  /\ ofile[t][fd].ip # 0
  /\ inode' = IPut(inode, ofile[t][fd].ip)
  /\ ofile' = [ofile EXCEPT ![t][fd] = NoFile]
  /\ UNCHANGED <<ilock, txn, cwd, th, panicked>>

\* sys_pwd climbs from the cwd through ".." entries with dir_lookup,
\* without any inode lock, until an inode is its own parent.  Each
\* dir_lookup returns an inode_get reference that is never put.
\* dir_lookup panics on an inode that is not a directory.  The result is
\* <<inode map with the references taken, panic message or "none">>.
RECURSIVE PwdClimb(_, _, _)
PwdClimb(ino, cur, k) ==
  LET parent == DirLookup(ino, cur, DotDot) IN
  IF ino[cur].type # T_DIR THEN <<ino, "dir_lookup not DIR">>
  ELSE IF parent = cur \/ k = 0 THEN <<IGet(ino, parent), "none">>
  ELSE PwdClimb(IGet(ino, parent), parent, k - 1)

\* sys_pwd, one step: it takes no sleep lock.  The name search in each
\* parent and the copy-out change no state.  Calls are bounded by MaxRef.
Pwd(t) ==
  LET res == PwdClimb(inode, cwd[t], Cardinality(Inodes)) IN
  /\ WithPwd /\ Ready(t)
  /\ \A i \in Inodes : inode[i].ref < MaxRef
  /\ IF res[2] = "none"
     THEN /\ inode' = res[1]
          /\ UNCHANGED panicked
     ELSE /\ panicked' = res[2]
          /\ UNCHANGED inode
  /\ UNCHANGED <<ilock, txn, cwd, ofile, th>>

\* sys_read and sys_write (sysfile.c) share the one kernel_buf and hold
\* the fs_lock spinlock from after the size check to their return, across
\* the inode_lock that file_read / file_write take (file.c is not in this
\* tree: they lock the inode, copy at the descriptor's offset, advance it
\* and unlock, from the spec).  The threads run on different CPUs, so
\* kernel_buf can change between any two steps of a call that does not
\* hold fs_lock.  The size, fd-range and user-buffer checks are UserArgs';
\* here fd is in range and the buffer is user memory.

\* sys_read / sys_write: spinlock_acquire(&fs_lock); sys_write then
\* copies the caller's bytes into kernel_buf with pt_copyin, once it
\* knows the descriptor has a file
BeginRead(t, fd) ==
  /\ WithRW /\ Ready(t)
  /\ fslock = NoThread
  /\ fslock' = t
  /\ th' = [th EXCEPT ![t].pc = "read_lock", ![t].fd = fd]
  /\ UNCHANGED <<inode, ilock, txn, cwd, ofile, panicked, kbuf>>

\* (fault variant) sys_write that copies into kernel_buf without fs_lock
BeginWriteNoLock(t, fd) ==
  /\ WithRW /\ Ready(t)
  /\ th' = [th EXCEPT ![t].pc = "write_lock", ![t].fd = fd]
  /\ kbuf' = IF ofile[t][fd].ip # 0 THEN t ELSE kbuf
  /\ UNCHANGED <<inode, ilock, txn, cwd, ofile, panicked, fslock>>

BeginWrite(t, fd) ==
  /\ WithRW /\ Ready(t)
  /\ fslock = NoThread
  /\ fslock' = t
  /\ th' = [th EXCEPT ![t].pc = "write_lock", ![t].fd = fd]
  /\ kbuf' = IF ofile[t][fd].ip # 0 THEN t ELSE kbuf
  /\ UNCHANGED <<inode, ilock, txn, cwd, ofile, panicked>>

\* The end of both calls: E_BADF for an empty slot, or the file call
\* under the inode lock; then spinlock_release(&fs_lock)
EndRW(t) ==
  /\ NoPanic
  /\ th' = [th EXCEPT ![t] = IdleRec]
  /\ fslock' = NoThread
  /\ UNCHANGED <<inode, ilock, txn, cwd, ofile, panicked>>

\* the descriptor's file object
RWFile(t) == ofile[t][th[t].fd]

\* file_read returns -1 on a file not open for reading, 0 at the end of
\* the file (the offset is not modelled) and otherwise fills kernel_buf,
\* which pt_copyout copies to the user
FileRead(f) ==
  IF f.readable THEN kbuf' \in {kbuf, FileBytes} ELSE UNCHANGED kbuf

\* file_write copies kernel_buf's bytes into the file at the offset when
\* it is open for writing (-1 otherwise), with no transaction of its own;
\* it changes none of the modelled state
FileWrite(f) == UNCHANGED kbuf

ReadLock(t) ==
  /\ th[t].pc = "read_lock" /\ EndRW(t)
  /\ IF RWFile(t).ip = 0 THEN UNCHANGED kbuf
     ELSE ilock[RWFile(t).ip] = NoThread /\ FileRead(RWFile(t))

WriteLock(t) ==
  /\ th[t].pc = "write_lock" /\ EndRW(t)
  /\ IF RWFile(t).ip = 0 THEN UNCHANGED kbuf
     ELSE ilock[RWFile(t).ip] = NoThread /\ FileWrite(RWFile(t))

-----------------------------------------------------------------------------

Init ==
  /\ inode = [i \in Inodes |->
                IF i = ROOTINO
                THEN [type |-> T_DIR, nlink |-> 1, ref |-> Cardinality(Threads),
                      ents |-> [NoEnts EXCEPT ![Dot] = ROOTINO, ![DotDot] = ROOTINO]]
                ELSE [type |-> T_FREE, nlink |-> 0, ref |-> 0, ents |-> NoEnts]]
  /\ ilock = [i \in Inodes |-> NoThread]
  /\ txn = NoThread
  /\ cwd = [t \in Threads |-> ROOTINO]          \* tcb_init_at_id: namei("/")
  /\ ofile = [t \in Threads |-> [fd \in FDs |-> NoFile]]
  /\ th = [t \in Threads |-> IdleRec]
  /\ panicked = "none"
  /\ fslock = NoThread
  /\ kbuf = NoData

\* A step of thread t inside a system call; only sys_read and sys_write
\* touch fs_lock and kernel_buf
Running(t) ==
  \/ /\ \/ NamexStep(t) \/ NamexEnd(t)
        \/ CreateNoParent(t) \/ CreateInParent(t) \/ CreateLockIp(t)
        \/ OpenLock(t)
        \/ LinkBegin(t) \/ LinkLock(t) \/ LinkInParent(t) \/ LinkBad(t)
        \/ UnlinkBegin(t) \/ UnlinkLockDp(t) \/ UnlinkLockIp(t)
        \/ ChdirLock(t)
     /\ UNCHANGED <<fslock, kbuf>>
  \/ ReadLock(t) \/ WriteLock(t)

\* Thread t enters a system call
Call(t) ==
  \/ /\ \/ \E p \in MkdirArgs : BeginCreate(t, "mkdir", p, 0)
        \/ \E a \in OpenArgs :
             IF (a[2] & O_CREATE) # 0 THEN BeginCreate(t, "open", a[1], a[2])
                                     ELSE BeginOpen(t, a[1], a[2])
        \/ \E a \in LinkArgs : BeginLink(t, a)
        \/ \E p \in UnlinkArgs : BeginUnlink(t, p)
        \/ \E p \in ChdirArgs : BeginChdir(t, p)
        \/ \E fd \in FDs : Close(t, fd)
        \/ Pwd(t)
     /\ UNCHANGED <<fslock, kbuf>>
  \/ \E fd \in FDs : BeginRead(t, fd) \/ BeginWrite(t, fd)

\* After a KERN_PANIC the kernel stays halted
Halted == panicked # "none" /\ UNCHANGED vars

Next ==
  \/ \E t \in Threads : Call(t) \/ Running(t)
  \/ Halted

\* Sleep locks and the log wake every waiter and the winner is not
\* determined; a thread that keeps finding its lock free gets it.
Fairness == \A t \in Threads : SF_vars(Running(t))

Spec     == Init /\ [][Next]_vars
FairSpec == Spec /\ Fairness

-----------------------------------------------------------------------------
(* Properties                                                              *)

TypeOK ==
  /\ inode \in [Inodes -> [type : {T_FREE, T_DIR, T_FILE}, nlink : Nat,
                           ents : [DirNames -> Inodes \cup {0}], ref : Nat]]
  /\ ilock \in [Inodes -> Threads \cup {NoThread}]
  /\ txn \in Threads \cup {NoThread}
  /\ cwd \in [Threads -> Inodes]
  /\ ofile \in [Threads -> [FDs -> [ip : Inodes \cup {0}, readable : BOOLEAN,
                                    writable : BOOLEAN]]]
  /\ \A t \in Threads : th[t].pc \in PCs /\ {th[t].ip, th[t].dp, th[t].cur} \subseteq Inodes \cup {0}
  /\ panicked \in STRING
  /\ fslock \in Threads \cup {NoThread}
  /\ kbuf \in Threads \cup {NoData, FileBytes}

\* The places that own an inode reference: a thread's cwd, its open
\* files, and the ip / dp / namex cursor locals of a call in progress.
Holders(i) ==
  Cardinality({t \in Threads : cwd[t] = i})
  + Cardinality({<<t, fd>> \in Threads \X FDs : ofile[t][fd].ip = i})
  + Cardinality({t \in Threads : th[t].ip = i})
  + Cardinality({t \in Threads : th[t].dp = i})
  + Cardinality({t \in Threads : th[t].cur = i})

\* Every reference taken by inode_get/inode_dup along any path of
\* namex, create, sys_open, sys_link, sys_unlink, sys_chdir and sys_close,
\* success or error, is released exactly once: the cache's ref count
\* equals the number of owners.  (A leak pins an inode in the cache and
\* keeps an unlinked inode from ever being freed; a double put frees an
\* inode that is still in use.)
RefCountExact == \A i \in Inodes : inode[i].ref = Holders(i)

\* No thread ever holds a reference to (cwd, descriptor, or local of a
\* call in progress) an inode whose on-disk slot is free: lookups never
\* return a freed inode and an inode in use is never freed.
NoDanglingHold == \A i \in Inodes : Holders(i) > 0 => inode[i].type # T_FREE

\* A directory whose link count is positive is live; its "." is not
\* counted (create: "No ip->nlink++ for '.'") and its ".." counts for the
\* parent.
LiveDirs == {d \in Inodes : inode[d].type = T_DIR /\ inode[d].nlink > 0}
Entries(i) == {<<d, n>> \in LiveDirs \X (Names \cup {DotDot}) : inode[d].ents[n] = i}

\* Outside a transaction the on-disk link count of every allocated inode
\* is the number of entries naming it in live directories: sys_link's
\* increment and its undo on "bad", sys_unlink's decrements and create's
\* ".." increment of the parent all balance.
NlinkExact ==
  txn = NoThread =>
    \A i \in Inodes : inode[i].type # T_FREE => inode[i].nlink = Cardinality(Entries(i))

\* The inodes reachable from "/" through named entries
RECURSIVE ReachFrom(_, _)
ReachFrom(S, k) ==
  IF k = 0 THEN S
  ELSE ReachFrom(S \cup ({inode[d].ents[n] : d \in S, n \in Names} \ {0}), k - 1)
Reachable == ReachFrom({ROOTINO}, Cardinality(Inodes))

\* Outside a transaction every inode that still has links is reachable
\* from the root: no sequence of calls leaves a linked inode that no
\* path names and no unlink can ever free.
NoOrphan ==
  txn = NoThread =>
    \A i \in Inodes : inode[i].type # T_FREE /\ inode[i].nlink > 0 => i \in Reachable

\* An inode's slot is freed (inode_put of the last reference to an
\* unlinked inode truncates it and writes the free type) only while a
\* transaction is open, so that the writes go through the log.
FreeInTxn ==
  [][\A i \in Inodes : inode[i].type # T_FREE /\ inode'[i].type = T_FREE => txn # NoThread]_inode

\* sys_write hands file_write its caller's bytes.  It copies them into
\* the one global kernel_buf and may wait for the inode lock before
\* file_write reads them back; fs_lock, held across that wait, is what
\* keeps a sys_read or sys_write of another thread from refilling
\* kernel_buf in between.
KernelBufIntact ==
  \A t \in Threads :
    th[t].pc = "write_lock" /\ ofile[t][th[t].fd].ip # 0 => kbuf = t

\* A kernel that has not panicked returns from every system call it
\* enters: no thread waits forever on the log or on an inode lock.
SyscallsReturn == \A t \in Threads : ~Idle(t) ~> (Idle(t) \/ panicked # "none")

=============================================================================
