# TLA+ models of the mCertiKOS file-system kernel

These modules model the concurrent file-system system calls of this kernel and
check them with TLC, together with the console input path and the user-buffer
checks of the byte-copying system calls.

- `FsCore.tla` covers `src/kern/fs/sysfile.c`, `path.c` and `dir.c`, the TCB
  fields they use, and `sys_pwd`.
- `Console.tla` covers `src/kern/dev/console.c` and `sys_readline`.
  `ConsoleQueue.tla` is the FIFO that the console's ring buffer must implement.
- `UserArgs.tla` covers the argument checks of `sys_read`, `sys_write`,
  `sys_fstat` and `sys_puts`, and `sys_puts`'s copy loop.
- `DirLayer.tla` covers `skipelem` and the `namex` loop header of `path.c`, and
  the slot-level directory of `dir.c`.  It is shown to implement `DirMap.tla`,
  the name map that `FsCore` uses for a directory.
- `Shell.tla` covers the user shell `src/user/shell/shell.c`: `cd`, `mkdir`,
  `touch`, `rm [-r]`, `mv` and `cp [-r]` over the system calls they make.

## 1. The system

| part | source | state | operations |
|---|---|---|---|
| file-system system calls | `src/kern/fs/sysfile.c` | none of its own: uses the inode cache, the log and the TCB | `sys_open`, `sys_mkdir` (via `create`), `sys_link`, `sys_unlink`, `sys_chdir`, `sys_close`, `sys_read`, `sys_write`, `sys_fstat`, `fdalloc`, `isdirempty` |
| path resolution | `src/kern/fs/path.c` | none | `skipelem`, `namex`, `namei`, `nameiparent` |
| directories | `src/kern/fs/dir.c` | entries `(inum, name)` stored in directory inodes | `dir_lookup`, `dir_link`, `dir_namecmp` |
| thread control blocks | `src/kern/thread/PTCBIntro/PTCBIntro.c` | per thread: `openfiles[NOFILE]`, `cwd`, scheduler fields | `tcb_init_at_id`, getters and setters |
| system-call dispatch | `src/kern/trap/TDispatch/TDispatch.c` | none | `syscall_dispatch` |
| extra system calls | `src/kern/trap/TSyscall/TSyscall.c` | `sys_buf[NUM_IDS][PAGESIZE]` | `sys_puts`, `sys_spawn`, `sys_yield`, `sys_dir`, `sys_ls`, `sys_pwd`, `sys_readline` |
| console | `src/kern/dev/console.c` | ring `cons.buf`, `rpos`, `wpos`; `linebuf` | `cons_intr`, `cons_getc`, `getchar`, `readline` |
| boot, traps | `src/kern/init/init.c`, `src/kern/trap/TTrapInit/TTrapInit.c` | none that persists | run once at boot |
| user shell | `src/user/shell/shell.c`, `src/user/include/*.h` | the process's cwd; stack buffers per call | `cd`, `mkdir`, `touch`, `rm`, `mv`, `cp`, `ls`, `pwd`, `cat`, `write`, `append`, with the recursive `cp_r` and `rm_r` |
| inode cache, log, file table, block cache | not in this tree (spec.md, sections 3-4) | inode cache entries with `ref`, `nlink`, `type`; a single-writer log; `struct file` table | `inode_get/dup/put/alloc/lock`, `begin_trans/commit_trans`, `file_alloc/close` |

### How the parts interact

A user thread traps into `syscall_dispatch`, which calls a `sys_*` handler on
the same kernel thread.  Several kernel threads run handlers concurrently.

- **Mutations take the log.** `sys_mkdir`, `sys_open(O_CREATE)`, `sys_link` and
  `sys_unlink` call `begin_trans`, which lets one thread at a time into a
  transaction, and `commit_trans` on every exit.
- **Path walks lock one inode at a time.** They resolve paths with `namex`,
  which holds the lock of one directory at a time, and take and release
  references with `inode_get`/`inode_dup`/`inode_put`.
- **The TCB holds references.** A thread's `cwd` is a referenced inode, and each
  of its open files holds an inode reference.
- **An unlinked inode is freed by its last put.** When the last reference to an
  inode with `nlink = 0` is put, the inode is truncated and freed.
- **`sys_read` and `sys_write` share one buffer.** Both copy through the
  single global `kernel_buf` of `sysfile.c`, and both hold the `fs_lock`
  spinlock from their first checks to their return, across the
  `inode_lock` inside `file_read`/`file_write`.  No other call takes
  `fs_lock`.
- **Some calls run outside a transaction.** `sys_open` without `O_CREATE`,
  `sys_chdir`, the `namei` of `sys_link` and the `nameiparent` of `sys_unlink`
  run before `begin_trans`, or without it.

### What is hard here

- **Interleavings.** Path walks and argument resolution run outside the
  transaction, while other threads unlink and create.
- **A removed cwd stays in use.** A directory can be unlinked while it is a
  thread's cwd, and that thread keeps walking `..` from it and creating entries
  in it.
- **Reference accounting on error exits.** Every `goto bad` and early return
  must release exactly what it took.
- **Link counts.** `..` counts toward the parent's `nlink`, and `sys_link`
  increments `nlink` first and undoes the increment on failure.
- **The single-writer log.** Every exit must commit, or every later mutation
  waits forever.
- **32-bit argument checks.** `user_buf + n > VM_USERHI` wraps.
- **The console ring buffer** has no full check, and `readline` edits one static
  `linebuf` shared by every caller.
- **The shell's recursion changes directory.** `rm_r` enters the directory it
  removes with `sys_chdir`, and `dir_list` goes to the listed directory and
  back through `sys_pwd`.  The paths the shell uses afterwards are resolved
  from wherever those calls left it.

`init.c` starts two user processes, idle and the shell.  Only the shell
makes file-system calls or reads the console.  So the shell's commands run one
after another, and `readline` has one caller in this system.  FsCore and
Console still allow several threads: the kernel code is shared by every
process that may call it.

## 2. Modules

### `FsCore.tla` (with `MCFsCore.tla` and `MCFsCore_*.cfg`)

State:

- `inode[i]`: type, nlink, directory entries (name to inum) and the cache `ref`.
- `ilock[i]`: the holder of the inode's sleep lock.
- `txn`: the holder of the log.
- `cwd[t]` and `ofile[t][fd]`: the TCB fields.
- `th[t]`: the call in progress, with its program counter and the locals
  `ip`, `dp`, `name` and the `namex` cursor.
- `panicked`: set by a `KERN_PANIC`.
- `fslock`: the holder of `fs_lock`; `kbuf`: what `kernel_buf` holds, as
  whose bytes: a thread `t` stands for the bytes `t` passes to `sys_write`,
  `FileBytes` for bytes `readi` copied out of a file, `NoData` for the
  zeroed buffer.  File contents themselves are not kept here (`Shell`
  models them for the one shell process).

**Granularity.** A thread takes a step at each point where it can block, or
where another thread can observe it: `begin_trans`, `inode_lock` of an inode
another thread may hold, and each iteration of the `namex` loop.  The code
between two such points is one action, and every state change of that code is
in it.  Only `sys_unlink` holds a lock across a step: it keeps the parent
locked while it waits for the target's lock.

**Abstractions.**

- Directory entries are a map from name to inode number.  `DirLayer` shows
  that the slot layout of `dir.c` implements this map.
- A path is a sequence of elements with an absolute/relative flag.
  `DirLayer` models `skipelem` on character paths.
- The inode cache is never exhausted.
- The log is a lock: crashes are not modelled yet.
- `sys_close`'s error returns change no state and are the absence of a step.

| action | code |
|---|---|
| `NamexStep`, `NamexEnd` | `namex` loop iteration and its end (`path.c:94-120`) |
| `BeginCreate`, `CreateNoParent`, `CreateInParent`, `CreateLockIp`, `CreateReturn` | `sys_mkdir` / `sys_open(O_CREATE)` / `create` |
| `BeginOpen`, `OpenLock`, `OpenTail` | `sys_open` without `O_CREATE`, `file_alloc` + `fdalloc` |
| `BeginLink`, `LinkBegin`, `LinkLock`, `LinkInParent`, `LinkBad` | `sys_link` and its `bad:` path |
| `BeginUnlink`, `UnlinkBegin`, `UnlinkLockDp`, `UnlinkLockIp` | `sys_unlink` |
| `BeginChdir`, `ChdirLock` | `sys_chdir` |
| `Close` | `sys_close` |
| `Pwd` (with `PwdClimb`, `RECURSIVE`) | `sys_pwd` |
| `BeginRead`, `ReadLock` | `sys_read`: `fs_lock`, then `file_read` under the inode lock and `pt_copyout` |
| `BeginWrite`, `WriteLock` | `sys_write`: `fs_lock` and `pt_copyin` into `kernel_buf`, then `file_write` under the inode lock |
| `EndRW`, `FileRead`, `FileWrite` | the shared tail of both: `E_BADF` for an empty slot, or the file call; `spinlock_release` |
| `Halted` | the kernel after `KERN_PANIC` |

The threads stand for kernel threads on different CPUs, so `kernel_buf` can
change between any two steps of a call that does not hold `fs_lock`.  The
size, fd-range and user-buffer checks of `sys_read`/`sys_write` are in
`UserArgs`; here the descriptor is in range and the buffer is user memory.
A read of 0 bytes (end of file; offsets are not kept) leaves `kernel_buf`
as it was.

`IGet`, `IPut`, `FirstFree`, `FileCount`, `FileRead` and `FileWrite` are the
inode-cache and file-table operations, modelled from spec.md because `inode.c` and `file.c` are not in
this tree.  The map in `PROJECT.json` names the lines of every definition.

### `Console.tla` (with `ConsoleQueue.tla`, `MCConsole.tla` and `MCConsole_*.cfg`)

**State.**

- `buf`, `rpos`, `wpos`: the `cons` ring.
- `linebuf`: `readline`'s static buffer.
- `rd[r]`: per reader, the program counter, `readline`'s `i`, the bytes this
  call consumed, and a call count.
- `last[r]`: the line the reader's last `sys_readline` copied out, beside the
  line a reference editor makes of the same keys.
- `consumed`: every byte `cons_getc` returned.

**Steps.**

- `cons_intr` and `cons_getc` run under `cons_lk`, so each is one atomic step:
  - `Intr(s)`: a device delivers the burst `s`; `IntrLoop` is the loop, a
    `RECURSIVE` operator.
  - `ReadChar(r)`: one `getchar` plus one pass of `readline`'s loop.
- `readline`'s editing and `sys_readline`'s copy-out take no lock, so two
  readers interleave on `linebuf`.
- `StartReadline` is the call; `Copyout` is `strnlen(kernbuf, 100) + 1` bytes
  copied out (`CString`).

**Data.**

- Bytes are values 0..255.
- `char` is signed: a byte of 128 or more is negative (`SignedChar`), and
  `readline` returns NULL for it (`rd[r].pc = "null"`).
- `cons_getc`'s return of 0 on an empty ring, and `getchar`'s spin on it, are
  the absence of a `ReadChar` step while `rpos = wpos`.

**Refinement.** `QueueRefinement` instantiates `ConsoleQueue` with these
mappings:

- `q` is the unread slots `rpos..wpos` (`Pending`).
- `taken` is `consumed`.

Each ring step must then be a `Put`, a `Take` or a stutter.  `LineMatchesEdit`
compares every returned line with `RefLine`, a fold of a reference editor over
the consumed keys.

**Liveness.** `FairSpec` adds weak fairness of each reader's `ReadChar`.  A
reader in `readline` sits in `getchar`'s loop, calling `cons_getc` (which
polls the serial and keyboard devices itself) until it gets a byte, so a
pending byte stays available to it until it takes it.  The typist (`Intr`)
is not fair: no one has to type.  `LineReturns` says that a reader in
`readline` while a newline or return is pending leaves `readline`.

### `UserArgs.tla` (with `MCUserArgs.tla` and `MCUserArgs_*.cfg`)

The handlers receive raw 32-bit register values and check them with unsigned
sums that wrap.  TLC's integers are 32-bit signed, so the model runs at
`W = 8` bits and scales the layout by 2^24:

- `VM_USERLO` is 64 and `VM_USERHI` is 240.
- `sizeof(kernel_buf)` is 8 and `sizeof(struct file_stat)` is 4.
- `PAGESIZE` is 16.

These sizes keep the relations the checks depend on: every buffer size is
smaller than the gap above `VM_USERHI`, and a page is larger than a chunk.

**Actions.**

- `Read` and `Write` are `sys_read` and `sys_write`.  Their checks come in the
  code's order (`RWAccepts`).  `Read` copies out only the `size_read <= n`
  bytes that `file_read` returned.
- `Fstat` is `sys_fstat`.
- `PutsBegin`, `PutsChunk`, `PutsCopyFail` and `PutsEnd` are `sys_puts`: its
  check, one loop iteration, the `E_MEM` exit when `pt_copyin` comes up short,
  and the loop's end.

`touched` is the set of user addresses handed to `pt_copyin` or `pt_copyout`.
`printed` is the addresses whose bytes `sys_puts` printed, in order.

### `DirLayer.tla` and `DirMap.tla` (with `MCDirLayer.tla` and `MCDirLayer_dir.cfg`)

A path is a sequence of characters.

- `Skipelem` is `skipelem`: the `RECURSIVE` operators `DropSlashes` and
  `ElemLen` are its two `while` loops.  It keeps `DIRSIZ - 1` characters of a
  longer element.
- `NamexElem` is one pass of `namex`'s loop header: `skipelem`, then
  `nameiparent`'s `*path == '\0'` test, recorded as the element's `last` flag.
- One directory `D` is a sequence of dirents `[inum, name]`; `inum = 0` marks
  an empty slot.  `DirLookup` finds the first live match (`SelectInSeq`).
  `DirLink` fails on a present name; otherwise it writes into the first empty
  slot, or appends at `dp->size`.
- `Unlink` is `sys_unlink`'s directory part.  It refuses `.` and `..`, then
  zeroes the slot.  Whether the target passes its `nlink` and `isdirempty`
  checks is a choice (`removable`), because FsCore decides that.
- `Start` and `Return` bracket a call.  `NoName` is `nameiparent` failing on
  `""` or `"/"`.

`DirMap` is the abstract directory: a total map from names to inode numbers,
0 meaning "no entry".  `Link` is allowed only for an absent name, and `Unlink`
never removes `.` or `..`.  `DirRefinement` instantiates it with
`ents <- [n \in NameSpace |-> DirLookup(slots, n)]`.

### `Shell.tla` (with `MCShell.tla` and `MCShell_*.cfg`)

**The tree view.** The file system, as the one shell process sees it between
two system calls, is a tree:

- `nodes` maps each existing absolute path (a sequence of names) to a node
  `[type, data]`: `DirNode`, or `FileNode(d)` holding the bytes `d`;
- `cwd` is the shell's current directory.

`Walk` is `namex` over this tree; `Resolve` and `ParentDir` are `namei` and
`nameiparent`.  `Create`, `SysUnlink`, `SysChdir`, `SysLs` and `SysPwd` are the
handlers' effects for a single caller:

- `create` fails on a present name;
- `sys_unlink` refuses `.`, `..` and a non-empty directory, and never checks
  whether the directory is a cwd;
- `sys_chdir` needs a directory.

`FsCore` checks the concurrent behaviour of the same handlers.

**One command is one step.** Each command (`CdCmd`, `MkdirCmd`, `TouchCmd`,
`RmCmd`, `MvCmd`, `CpCmd`, `WriteCmd`, `AppendCmd`) computes its whole effect.  The shell's state
`[nodes, cwd, ovf, uninit]` is threaded through operators that follow the C
code call by call:

- `CpR`/`CpEach` are `cp_r` and its loop, and `RmR`/`RmEach` are `rm_r` and its
  loop.  All four are `RECURSIVE`.
- `IsExist`, `IsDirCall`, `DirList`, `CpFile`, `RmFile`, `Mv` and `Rm` are the
  helpers and commands of the same names.

**File contents.** Every file the shell reads or writes is opened just
before, so `SysRead` and `SysWrite` work from offset 0:

- `SysRead(S, p, n)` is the first `n` bytes;
- `SysWrite(S, p, b)` puts `b` over the first `Len(b)` bytes and keeps the
  rest, since `sys_open` has no truncation (`O_CREATE` on an existing file
  opens it as it is);
- `CpFile` reads up to `CpBufLen` (1000 in the code) bytes of the source and
  writes `strlen(buf)` of them to `dest`; `ShellWrite` writes `argv[1]`;
  `ShellAppend` reads up to `CpBufLen` bytes, puts the text after them and
  writes the whole buffer back over the file's start.

**Undefined behaviour is recorded.**

- `is_dir` of a path that does not exist passes an unassigned fd to
  `sys_is_dir`; `IsDirCall` sets `uninit` when it happens.  `sys_dir` answers
  E_BADF for a bad slot, and the wrapper turns that into -1, which reads as
  true.
- `get_filename` leaves the name unterminated in an uninitialised buffer.  The
  name `cp` appends is either the real one or `JunkName` (`junk.name`, chosen
  by `MvCmd` and `CpCmd`).
- `read` never NUL-terminates `cp_file`'s buffer, and `shell_append`'s
  `strncpy` copies the text without its NUL, so `strlen(buf)` counts on into
  stack bytes: the write carries `junk.len` bytes `JunkByte` after the data
  (`StackBytes`).  A copy of `main`'s empty `file1` is stack bytes only.

**A recursion that never ends.** `cp -r a a/b` creates `a/b` before it lists
`a`, so it copies its own copy forever.  A `cp_r` recursion deeper than any tree
of `MaxDepth` levels can need sets `ovf`.  After that the shell never reads
another line (`Lost`).

`Init` is `main`: the cwd is `/`, then `file1` and `file2` are created, empty.
`ls`, `pwd` and `cat` only print (`ls dir` changes the cwd and changes it back
from `sys_pwd`'s absolute path).  `cat`'s `buf[size] = 0` with `size = -1`
needs a `read` that fails on a descriptor `open` has just returned, which
`sys_read` never does for the one shell process.

### Planned modules, in order

1. `FsLog.tla` (from spec.md): begin/commit with a crash and recovery,
   checking that the disk shows all of a transaction or none of it; composed
   with `FsCore`'s free path (the `sys_chdir` free outside a transaction).
2. File offsets for `sys_read`/`sys_write` in `FsCore`.  With `NOFILE = 1`
   and no call that shares a file object between threads, an offset is
   only ever moved by its own thread; it becomes worth modelling with more
   descriptors per thread.

## 3. Runs

All `FsCore` runs use 2 threads, inodes `{1,2,3}` (root = 1), the names
`{"a","b"}` and `NOFILE = 1`.  Each run gives each system call its own
small set of paths (`MCFsCore.tla`), chosen so that the run reaches the cases
its properties are about.  Three inodes are enough for:

- a directory inside a directory;
- a file with two links;
- inode exhaustion, which takes `create` to its panic.

One descriptor slot and one file object make every `sys_open` failure exit
reachable; the links run has two file objects, so that both threads can be
in `sys_read`/`sys_write` on a file at once.

| run | cfg | expect | what it checks |
|---|---|---|---|
| refs | `MCFsCore_refs.cfg` | pass | `TypeOK`, and `RefCountExact`: every inode's cache `ref` equals its holders (cwds, open files, locals of calls in progress) over every call, with absolute, relative and `..` paths and their error exits (a directory opened for writing, `chdir` into `/a` when `open` made it a file); `SyscallsReturn`: every call that starts eventually returns (or the kernel panics), under strong fairness per thread (`FairSpec`, no symmetry).  About 625,000 states in under 2.5 minutes. |
| links | `MCFsCore_links.cfg` | pass | `NoDanglingHold` (no thread holds a freed inode), `NoOrphan` (every linked inode is reachable from `/`), `NlinkExact` (outside a transaction, `nlink` equals the entries naming the inode from live directories, with `..` counting for the parent); `KernelBufIntact`: a `sys_write` that has copied its bytes into `kernel_buf` still finds them there when `file_write` reads them, whatever `sys_read`/`sys_write` of the other thread do meanwhile.  Absolute paths (the argument sets `Abs*` of `MCFsCore`), `sys_pwd` enabled (`MaxRef = 3`: one leaking climb from the two cwds' root), `sys_read`/`sys_write` enabled with `NFILE = 2` so that both threads can hold a file.  `VIEW LiveBufView` identifies states that differ only in the bytes of a `kernel_buf` no call is about to read (every call that reads it fills it first).  About 2.2 million distinct states in under 2 minutes. |
| dangling | `MCFsCore_dangling.cfg` | violation | `NoDanglingHold`: a thread in an unlinked cwd follows `..` to a parent that was unlinked and freed. |
| freetxn | `MCFsCore_freetxn.cfg` | violation | `FreeInTxn`: `sys_chdir` frees the old cwd outside any transaction. |
| dir | `MCDirLayer_dir.cfg` | pass | `TypeOK`; `ElemsAsSplit`: for every path of up to 4 characters over `{a, ., /}`, the elements `namex` visits are the path's slash-separated words, cut to `DIRSIZ - 1 = 2` characters, and only the last one has `last` set; `EmptyMeansNoEntries`: `isdirempty`, which skips two slots, is true exactly when `D` has no entry but `.` and `..`; `DirRefinement`: the slots implement `DirMap`.  Up to 4 slots. |
| console_edit | `MCConsole_edit.cfg` | pass | `TypeOK`; `QueueRefinement`: the ring is a FIFO queue while the typist stays within `MaxAhead = 2` unread bytes of a 3-slot ring; `LineMatchesEdit`: with one reader, every line is the reference edit of its keys, over erase keys on an empty and a full line, control bytes, NUL, and bytes >= 0x80; `LineReturns` (under `FairSpec`): a reader in `readline` with a line end pending leaves `readline`, with its line or, after a byte >= 0x80, with NULL.  About 1.7 million states in under a minute. |
| overrun | `MCConsole_overrun.cfg` | violation | `QueueRefinement`: with 3 bytes pending in a 3-slot ring, `wpos` wraps onto `rpos` and all pending input vanishes. |
| puts | `MCUserArgs_puts.cfg` | pass | `TypeOK`, including `nbytes < PAGESIZE`, so the NUL store stays in its `sys_buf` row; `PutsPrintsString`: `sys_puts` prints the string's bytes once each and in order.  Lengths are 0, below a page, one page, over two pages, and 200, which wraps. |
| wrap | `MCUserArgs_wrap.cfg` | violation | `CopiesInUserSpace`: a buffer just below 2^W passes `user_buf + n <= VM_USERHI` because the sum wraps. |
| shell | `MCShell_shell.cfg` | pass | `TypeOK`, including that the nodes form a tree hanging off directories; `CwdIsDir`: the cwd is always an existing directory, even after `rm -r` or `mv` of one of its ancestors; `NoUninitFd`: `is_dir` is never reached with an unassigned fd; `CpCopiesTree`: `cp` of a file or `cp -r` to a new path outside the source adds exactly a copy of the source's tree and changes nothing else, the cwd included. |
| content | `MCShell_content.cfg` | pass | `ContentFrame`: no command changes the bytes of a file outside the path it names as destination; `CpCopiesTree` again, now with bytes: each copied file starts with its source's bytes when they fit the buffer; `AppendAppends`: `append` to a file whose bytes fit the read leaves them followed by the text. |
| mv | `MCShell_mv.cfg` | violation | `MvMoves`: `mv` to a new path either moves the source's tree or changes nothing.  `mv a/b b` copies `a/b` to `/b`; then `rm_r`'s final unlink of `"a/b"`, made after `chdir("..")`, resolves from `/a` and fails.  `a/b` stays, and the shell is left in `/a`. |

The violations are findings about the code (see `findings` in
`PROJECT.json`).

**Shell bounds.**

- The names are `a`, `b` and `main`'s `file1` and `file2`.
- The arguments (`MCShell.tla`) cover:
  - a one-element relative path, a two-element relative path and a two-element
    absolute path;
  - a path through a file (`mkdir file1/a`), and `..`;
  - `cp` and `mv` of a file into a directory;
  - `cp -r` and `mv` of a directory to a new name;
  - `cp -r a a/b`, which does not terminate.
- `MaxDepth = 3` and `MaxNodes = 7` bound the trees a command may leave, so a
  copy of a two-level tree and a three-level nest both fit.
- The pass run reaches about 60,000 states.  In that space `rm -r /a/b` moves
  the cwd, `cp` creates a junk name, and `cp -r a a/b` loses the shell.

The shell and mv runs give `write` and `append` no arguments and set
`MaxLen = 0`: every file stays empty there, and the trees are what they check.
The content run has its own, smaller arguments (`MCCt*`):

- `write` and `append` on `/file1` and on the directory `a` (where `open`
  with `O_CREATE` fails);
- `cp file1 file2` over a file, `cp /file1 /a` into a directory,
  `cp file1 b/a` through a missing parent, `cp -r /a /b`, `mv file2 /a/b` and
  `rm file2`;
- bytes `{"x"}` and `JunkByte = "?"`, `MaxJunk = 1`, files of up to
  `MaxLen = 2` bytes and a buffer of `CpBufLen = 1`, which stands for 1000: a
  file can be shorter than, as long as, or longer than the buffer;
- `MaxDepth = 2`, `MaxNodes = 6`; about 66,000 states.

Two bytes with a buffer of two took over 20 minutes; one user byte and the
stack byte still tell a misplaced write from a right one.

The mv run uses `mv a/b b`.  With `mv a b/a` and no `b`, the same property
fails differently: `rm_r` deletes `a` after the copy failed.

**Console bounds and deadlock.**

- A 3-slot ring is the smallest in which both positions wrap while bytes are
  pending.
- `BUFLEN = 3` lets `readline` fill its line (two characters and the NUL) and
  drop further keys.
- The bursts include every class of byte `readline` tells apart.
- `MaxTyped`, `MaxLines` and `MaxAhead` bound the run.

The console runs set `CHECK_DEADLOCK FALSE`.  Once the typist stops,
`getchar` spins on an empty ring, and that is the program idling, not a
deadlock.

**Findings left without a run.**

- `readline` returns NULL for a byte >= 0x80, and `sys_readline` passes NULL
  to `strnlen`.  The model reaches this: `rd[r].pc = "null"` in the
  console_edit run.
- `sys_dir` has no fd range check.

Each is one missing check, reached in one step.  Both are listed as hazards.

**Runs not kept.** To keep the set of runs small, these are not kept
as runs:

- **Two readers in `readline`** would interleave on its static `linebuf`.  In
  this system only the shell reads the console.  Setting `Readers = {r1, r2}`
  in `MCConsole_edit.cfg` makes `LineMatchesEdit` fail.
- **`mkdir` in an unlinked cwd** revives the dead parent's `nlink` and leaves
  an unreachable inode.  The links run's `NoOrphan` states this, with absolute
  paths.  Relative `mkdir` arguments together with `unlink /a` and `chdir /a`
  make it fail.
- **An exact copy.** `cp file1 x` of `main`'s empty `file1` writes one stack
  byte into `x`; a property asking `cp` for an exact copy fails on that first
  command.  `CpCopiesTree` and `AppendAppends` state what does hold: the
  source's bytes (or old bytes and text) come first.
- **The `sys_pwd` reference leak.**  The refs run sets `WithPwd = FALSE`;
  with `WithPwd = TRUE`, `RefCountExact` fails in a few steps.

**A removed cwd.** Two of the violations come from the same situation: a
directory removed while it is some thread's cwd.  `sys_unlink` allows this,
but `create` and `namex` do not expect it.

**`sys_unlink`'s `nlink < 1` panic.** No run reaches this panic, and no
behaviour of the model does: the code enters it only when an entry names an
inode whose link count is 0, which never happens while `NlinkExact` holds.

**Fairness.** `FairSpec` asserts strong fairness of each thread's in-call
steps.  A sleep lock (`inode_lock`) and the log (`begin_trans`) wake every
waiter and let them race for the lock.  A waiter therefore finds its lock free
again and again, but may lose the race each time.  Weak fairness would allow
it to be passed over forever while the lock is held between its tries.  The
code has no FIFO handoff, so strong fairness is the weakest assumption under
which the waiter eventually wins.  Threads are not forced to make calls:
`Idle` threads are not fair.

## 4. Not modelled

- **Console output, serial and keyboard drivers, video.** They write to
  devices and hold no state that the system calls read.
- **`sys_readline`'s panic when `pt_copyout` comes up short.** `pt_copyout` is
  not in this tree.
- **`sys_fstat`'s stat contents.** It copies the user's stat in and never
  copies it out; only its argument check is modelled.
- **The scheduler, `sys_spawn` and `sys_yield`.** The scheduler is not in this
  tree.
- **Trap setup and boot.** These run once and have no concurrent state.
- **What the shell prints.** `ls`, `pwd` and `cat` change no state; the
  bytes past `strlen`'s stop are one abstract `JunkByte`, and the stack
  `shell_append` overwrites past its buffer is not modelled.
  `run_command`'s tokenising is replaced by path records and byte sequences.
- **The user system-call stubs** (`src/user/include/syscall.h`).  They load
  registers and trap; only `sys_is_dir`'s "error reads as -1" matters, and
  `Shell` records it.
- **`sys_ls` and `sys_dir` as concurrent readers.** Shell models their answers
  for the one caller.  Their remaining hazards are byte-level buffer errors and
  a missing fd range check.
- **Thread reuse.** `tcb_init_at_id` clears only `openfiles[0]`, but it is
  called only from `proc_create`, which is not in this tree, and no thread
  exits, so no TCB is reused.
- **The unchecked 128-byte path copies** of the path system calls.  Whether
  `pt_copyin` checks the address itself is not visible in this tree.
