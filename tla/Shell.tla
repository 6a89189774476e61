------------------------------- MODULE Shell -------------------------------
(***************************************************************************)
(* The user shell of src/user/shell/shell.c over the file-system calls it  *)
(* makes.  init starts one shell process, and a command runs to its end    *)
(* before the next line is read, so each command (with every system call   *)
(* it makes, the recursion of cp_r and rm_r included) is one step.         *)
(*                                                                         *)
(* The file system, as one process sees it between calls, is a tree:      *)
(* nodes maps each existing absolute path (a sequence of names) to a     *)
(* node [type, data]: "dir", or "file" with its bytes; <<>> is the root.  *)
(* A shell argument is a path record [abs, elems]: "/a/b" is              *)
(* [abs |-> TRUE, elems |-> <<"a", "b">>].  Every file is read and        *)
(* written from offset 0 by a descriptor the command has just opened.     *)
(*                                                                         *)
(* The shell's state S = [nodes, cwd, ovf, uninit] is threaded through    *)
(* the operators in the order the C code makes its calls: ovf records a   *)
(* cp_r recursion that never ends, uninit an is_dir of a path that does   *)
(* not exist (its fd is then uninitialised).                               *)
(***************************************************************************)
EXTENDS Naturals, Sequences, FiniteSets, SequencesExt

CONSTANTS
  Names,       \* names of files and directories
  JunkName,    \* the name get_filename's unterminated copy may produce
  MaxDepth,    \* bound on the depth of the tree a command may leave
  MaxNodes,    \* bound on the number of nodes a command may leave
  CdArgs, MkdirArgs, TouchArgs,  \* paths given to cd, mkdir, touch
  RmArgs,      \* [r, p]: "rm p" or "rm -r p"
  MvArgs,      \* [src, dest]
  CpArgs,      \* [r, src, dest]: "cp src dest" or "cp -r src dest"
  WriteArgs,   \* [text, p]: "write text p"
  AppendArgs,  \* [text, p]: "append text p"
  Bytes,       \* the bytes the words of a command line are made of
  JunkByte,    \* a byte of uninitialised stack that strlen runs into
  MaxJunk,     \* bound on the stack bytes strlen may count
  MaxLen,      \* bound on the length of a file a command may leave
  CpBufLen     \* the 1000-byte buffer of cp_file and shell_append

ASSUME /\ {".", ".."} \cap Names = {} /\ JunkName \notin Names
       /\ MaxDepth \in Nat /\ MaxNodes \in Nat
       /\ JunkByte \notin Bytes /\ MaxJunk \in Nat /\ MaxLen \in Nat
       /\ CpBufLen \in Nat \ {0}

\* every name a node may have
NodeName == Names \cup {JunkName}

Path == [abs : BOOLEAN, elems : Seq(NodeName \cup {".", ".."})]

\* "..", relative: rm_r's sys_chdir("..")
DotDotPath == [abs |-> FALSE, elems |-> <<"..">>]

\* a single name, relative: the entries of a listing
NamePath(n) == [abs |-> FALSE, elems |-> <<n>>]

\* dest + "/" + name, as cp_r builds it with strcpy
Join(p, n) == [p EXCEPT !.elems = Append(@, n)]

NotFound == [ok |-> FALSE, at |-> <<>>]

\* a directory, and a file holding the bytes d
DirNode == [type |-> "dir", data |-> <<>>]
FileNode(d) == [type |-> "file", data |-> d]

\* every byte a file may hold
Byte == Bytes \cup {JunkByte}

\* what the undefined reads of a command give: whether get_filename's
\* name runs on into junk, and how many stack bytes a strlen over an
\* unterminated buffer counts before it meets a NUL
Junk == [name : BOOLEAN, len : 0..MaxJunk]

StackBytes(j) == [i \in 1..j |-> JunkByte]

-----------------------------------------------------------------------------
(* The kernel, seen from the one shell process                            *)

\* one element of namex's loop: "." and ".." are the dirents every
\* directory has ("/.." is "/"), any other name a child
Step(cur, e) == CASE e = "."  -> cur
                  [] e = ".." -> IF cur = <<>> THEN <<>> ELSE Front(cur)
                  [] OTHER    -> Append(cur, e)

\* namex from cur: each element needs a directory to look in
RECURSIVE Walk(_, _, _)
Walk(nodes, cur, es) ==
  IF es = <<>> THEN [ok |-> TRUE, at |-> cur]
  ELSE IF cur \notin DOMAIN nodes \/ nodes[cur].type # "dir" THEN NotFound
  ELSE IF Step(cur, Head(es)) \notin DOMAIN nodes THEN NotFound
  ELSE Walk(nodes, Step(cur, Head(es)), Tail(es))

\* namei: from the root for an absolute path, else from the cwd
Resolve(S, p) == Walk(S.nodes, IF p.abs THEN <<>> ELSE S.cwd, p.elems)

\* (fault variant) nameiparent without namex's T_DIR check on the parent
ParentDirNoType(S, p) ==
  LET r == Walk(S.nodes, IF p.abs THEN <<>> ELSE S.cwd, Front(p.elems))
  IN IF p.elems # <<>> /\ r.ok THEN r ELSE NotFound

\* nameiparent: the directory that holds the last element
ParentDir(S, p) ==
  LET r == Walk(S.nodes, IF p.abs THEN <<>> ELSE S.cwd, Front(p.elems))
  IN IF p.elems # <<>> /\ r.ok /\ S.nodes[r.at].type = "dir" THEN r ELSE NotFound

\* the node p's last element names in its parent (it may not exist)
Target(S, p) == Step(ParentDir(S, p).at, Last(p.elems))

Children(nodes, d) == {x \in DOMAIN nodes : x # <<>> /\ Front(x) = d}

\* create(): nameiparent, fail if the name is present, else a new node
Create(S, p, type) ==
  IF ParentDir(S, p).ok /\ Target(S, p) \notin DOMAIN S.nodes
  THEN [S EXCEPT !.nodes = (Target(S, p) :> type) @@ @]
  ELSE S

\* sys_mkdir, and sys_open with O_CREATE (an existing file is opened)
SysMkdir(S, p) == Create(S, p, DirNode)
SysCreate(S, p) == Create(S, p, FileNode(<<>>))

\* sys_unlink: refuse "." and "..", a missing name and a non-empty
\* directory; nothing checks whether the node is a cwd
SysUnlink(S, p) ==
  LET c == Target(S, p) IN
  IF /\ ParentDir(S, p).ok /\ Last(p.elems) \notin {".", ".."}
     /\ c \in DOMAIN S.nodes
     /\ (S.nodes[c].type = "dir" => Children(S.nodes, c) = {})
  THEN [S EXCEPT !.nodes = Restrict(@, DOMAIN @ \ {c})]
  ELSE S

\* sys_chdir: namei, and the node must be a directory
SysChdir(S, p) ==
  LET r == Resolve(S, p) IN
  IF r.ok /\ S.nodes[r.at].type = "dir" THEN [S EXCEPT !.cwd = r.at] ELSE S

\* sys_ls: the names of the cwd's live dirents, "." and ".." first
SysLs(S) == <<".", "..">> \o SetToSeq({Last(x) : x \in Children(S.nodes, S.cwd)})

\* sys_pwd: the cwd as an absolute path
SysPwd(S) == [abs |-> TRUE, elems |-> S.cwd]

\* open(p, O_CREATE | O_RDWR) gives a descriptor: create() found or made
\* a file there (it refuses a directory and a missing parent)
IsFile(S, p) == Resolve(S, p).ok /\ S.nodes[Resolve(S, p).at].type = "file"

\* (fault variant) a read that stops one byte short
SysReadShort(S, p, n) ==
  LET d == S.nodes[Resolve(S, p).at].data
  IN SubSeq(d, 1, IF n < Len(d) THEN n - 1 ELSE Len(d) - 1)

\* sys_read(fd, buf, n) on a file just opened: its first n bytes
SysRead(S, p, n) ==
  LET d == S.nodes[Resolve(S, p).at].data
  IN SubSeq(d, 1, IF n < Len(d) THEN n ELSE Len(d))

\* sys_write(fd, b, Len(b)) on a file just opened: b over its first
\* Len(b) bytes; the bytes after them stay (sys_open never truncates)
SysWrite(S, p, b) ==
  [S EXCEPT !.nodes[Resolve(S, p).at].data = b \o SubSeq(@, Len(b) + 1, Len(@))]

-----------------------------------------------------------------------------
(* shell.c's helpers                                                       *)

\* is_exist: open(path, O_RDONLY) succeeds (directories included)
IsExist(S, p) == Resolve(S, p).ok

\* the answer is_dir returns for a path that exists
IsDirVal(S, p) == Resolve(S, p).ok /\ S.nodes[Resolve(S, p).at].type = "dir"

\* the state after a call of is_dir: without is_exist, fd is never
\* assigned and sys_is_dir gets an uninitialised descriptor
IsDirCall(S, p) == [S EXCEPT !.uninit = @ \/ ~IsExist(S, p)]

\* dir_list(buf, path): sys_pwd, sys_chdir(path), sys_ls, sys_chdir(pwd)
\* (fault variant) a dir_list that lists the cwd and not path
DirListNoChdir(S, src) == SysLs(S)
DirList(S, src) == SysLs(SysChdir(S, src))
DirListAfter(S, src) == SysChdir(SysChdir(S, src), SysPwd(S))

\* the names of a listing that the loops of cp_r and rm_r act on
Entries(ls) == SelectSeq(ls, LAMBDA n : n \notin {".", ".."})

\* get_filename: the text after the last '/'; strncpy leaves it
\* unterminated in an uninitialised buffer, so the name strcpy then
\* appends may run on into stack garbage (junk)
Filename(src, junk) == IF junk.name THEN JunkName ELSE Last(src.elems)

\* (fault variant) cp_file opening src, not dest, for its write
CpFileSwapped(S, dest, src, junk) ==
  IF IsDirVal(S, src) THEN SysMkdir(IsDirCall(S, src), dest)
  ELSE LET S1 == SysCreate(IsDirCall(S, src), src)
           buf == SysRead(S, src, CpBufLen) \o StackBytes(junk.len)
       IN IF IsFile(S1, src) THEN SysWrite(S1, src, buf) ELSE S1

\* cp_file: sys_mkdir for a directory; else read(fd, buf, 1000) of src,
\* open(dest, O_CREATE|O_RDWR) and write(fd, buf, strlen(buf)): read
\* never NUL-terminates buf, so strlen counts on into the stack
CpFile(S, dest, src, junk) ==
  IF IsDirVal(S, src) THEN SysMkdir(IsDirCall(S, src), dest)
  ELSE LET S1 == SysCreate(IsDirCall(S, src), dest)
           buf == SysRead(S, src, CpBufLen) \o StackBytes(junk.len)
       IN IF IsFile(S1, dest) THEN SysWrite(S1, dest, buf) ELSE S1

\* rm_file: sys_unlink
RmFile(S, p) == SysUnlink(S, p)

RECURSIVE CpR(_, _, _, _, _, _), CpEach(_, _, _, _, _, _)

\* cp_r(dest, src, rflag), k calls deep; a recursion deeper than any tree
\* of MaxDepth levels can need never ends (ovf) and the shell is lost
CpR(S, dest, src, rflag, junk, k) ==
  IF S.ovf THEN S
  ELSE IF k > MaxDepth + 1 THEN [S EXCEPT !.ovf = TRUE]
  ELSE IF ~IsExist(S, src) THEN S
  ELSE IF ~rflag THEN
    IF IsDirVal(S, src) THEN IsDirCall(S, src)
    ELSE LET S1 == IsDirCall(S, src)
             S2 == IF IsExist(S1, dest) THEN IsDirCall(S1, dest) ELSE S1
         IN IF IsExist(S1, dest) /\ IsDirVal(S1, dest)
            THEN CpR(S2, Join(dest, Filename(src, junk)), src, FALSE, junk, k + 1)
            ELSE CpFile(S2, dest, src, junk)
  ELSE IF IsDirVal(S, src) THEN
    LET S1 == CpFile(IsDirCall(S, src), dest, src, junk)
    IN CpEach(DirListAfter(S1, src), dest, src, Entries(DirList(S1, src)), junk, k)
  ELSE CpR(IsDirCall(S, src), dest, src, FALSE, junk, k + 1)

\* cp_r's loop over the listing of src: cp_r(dest/n, src/n, rflag)
CpEach(S, dest, src, ns, junk, k) ==
  IF ns = <<>> THEN S
  ELSE CpEach(CpR(S, Join(dest, Head(ns)), Join(src, Head(ns)), TRUE, junk, k + 1),
              dest, src, Tail(ns), junk, k)

RECURSIVE RmR(_, _, _), RmEach(_, _)

\* (fault variant) rm_r unlinking path before its sys_chdir("..")
RmRUnlinkFirst(S, p, rflag) ==
  LET S1 == IsDirCall(S, p) IN
  IF rflag /\ IsDirVal(S, p) THEN
    LET S2 == SysChdir(S1, p)
    IN SysChdir(RmFile(RmEach(S2, Entries(SysLs(S2))), p), DotDotPath)
  ELSE IF ~rflag /\ IsDirVal(S, p) THEN S1
  ELSE RmFile(S1, p)

\* rm_r(path, rflag): a directory (with -r) is entered with sys_chdir,
\* its listing removed entry by entry, then sys_chdir("..") and
\* rm_file(path) -- path still read relative to the original cwd
RmR(S, p, rflag) ==
  LET S1 == IsDirCall(S, p) IN
  IF rflag /\ IsDirVal(S, p) THEN
    LET S2 == SysChdir(S1, p)
    IN RmFile(SysChdir(RmEach(S2, Entries(SysLs(S2))), DotDotPath), p)
  ELSE IF ~rflag /\ IsDirVal(S, p) THEN S1
  ELSE RmFile(S1, p)

RmEach(S, ns) ==
  IF ns = <<>> THEN S ELSE RmEach(RmR(S, NamePath(Head(ns)), TRUE), Tail(ns))

-----------------------------------------------------------------------------
(* The commands                                                            *)

\* (fault variant) mv calling is_dir(dest) without is_exist(dest) first
MvNoExistCheck(S, src, dest, junk) ==
  IF ~IsExist(S, src) THEN S
  ELSE IF IsDirVal(S, src) THEN
    LET S1 == IsDirCall(IsDirCall(S, src), dest) IN
    IF ~IsDirVal(S1, dest) THEN S1
    ELSE LET C == CpR(S1, dest, src, TRUE, junk, 0)
         IN IF C.ovf THEN C ELSE RmR(C, src, TRUE)
  ELSE LET C == CpR(IsDirCall(S, src), dest, src, TRUE, junk, 0)
       IN IF C.ovf THEN C ELSE RmR(C, src, FALSE)

\* mv: a directory may not replace a file; otherwise cp_r(dest, src, 1)
\* and then rm_r(src), whatever the copy did
Mv(S, src, dest, junk) ==
  IF ~IsExist(S, src) THEN S
  ELSE IF IsDirVal(S, src) THEN
    LET S1 == IsDirCall(S, src)
        S2 == IF IsExist(S1, dest) THEN IsDirCall(S1, dest) ELSE S1
    IN IF IsExist(S1, dest) /\ ~IsDirVal(S1, dest) THEN S2
       ELSE LET C == CpR(S2, dest, src, TRUE, junk, 0)
            IN IF C.ovf THEN C ELSE RmR(C, src, TRUE)
  ELSE LET C == CpR(IsDirCall(S, src), dest, src, TRUE, junk, 0)
       IN IF C.ovf THEN C ELSE RmR(C, src, FALSE)

\* rm: a path that does not exist is refused, else rm_r(path, rflag)
Rm(S, p, rflag) == IF ~IsExist(S, p) THEN S ELSE RmR(S, p, rflag)

\* shell_touch: an existing path is left alone, else open(p, O_CREATE)
Touch(S, p) == IF IsExist(S, p) THEN S ELSE SysCreate(S, p)

\* shell_write: open(argv[2], O_CREATE|O_RDWR), and if that gives a
\* descriptor, write(fd, argv[1], strlen(argv[1])) over the file's start
ShellWrite(S, text, p) ==
  LET S1 == SysCreate(S, p) IN IF IsFile(S1, p) THEN SysWrite(S1, p, text) ELSE S1

\* (fault variant) an append that writes argv[1] without the bytes read
ShellAppendNoRead(S, text, p, junk) ==
  IF IsFile(S, p) THEN SysWrite(S, p, text \o StackBytes(junk.len)) ELSE S

\* shell_append: open(argv[2], O_RDONLY) and read(fd, buf, 1000); then
\* open(argv[2], O_CREATE|O_RDWR), which fails for a directory, strncpy
\* of argv[1] after the n bytes read (without its NUL), and
\* write(fd, buf, strlen(buf))
ShellAppend(S, text, p, junk) ==
  IF IsFile(S, p)
  THEN SysWrite(S, p, SysRead(S, p, CpBufLen) \o text \o StackBytes(junk.len))
  ELSE S

VARIABLES
  nodes,   \* the tree: existing absolute paths -> [type, data]
  cwd,     \* the shell's current directory
  ovf,     \* a cp_r recursion did not end: the shell never returns
  uninit,  \* some is_dir ran sys_is_dir on an unassigned fd
  last     \* the last command: [op, r, src, dest, text]

vars == <<nodes, cwd, ovf, uninit, last>>

State == [nodes |-> nodes, cwd |-> cwd, ovf |-> ovf, uninit |-> uninit]

\* a command runs to its end and leaves state R; the model only explores
\* trees within MaxDepth levels and MaxNodes nodes of files within MaxLen
\* bytes
Run(R, op, r, src, dest, text) ==
  /\ ~ovf
  /\ R.ovf \/ /\ \A x \in DOMAIN R.nodes : Len(x) <= MaxDepth /\ Len(R.nodes[x].data) <= MaxLen
              /\ Cardinality(DOMAIN R.nodes) <= MaxNodes
  /\ nodes' = R.nodes /\ cwd' = R.cwd /\ ovf' = R.ovf /\ uninit' = R.uninit
  /\ last' = [op |-> op, r |-> r, src |-> src, dest |-> dest, text |-> text]

CdCmd(p)    == Run(SysChdir(State, p), "cd", FALSE, p, p, <<>>)
MkdirCmd(p) == Run(SysMkdir(State, p), "mkdir", FALSE, p, p, <<>>)
TouchCmd(p) == Run(Touch(State, p), "touch", FALSE, p, p, <<>>)
RmCmd(a)    == Run(Rm(State, a.p, a.r), "rm", a.r, a.p, a.p, <<>>)
MvCmd(a, junk) == Run(Mv(State, a.src, a.dest, junk), "mv", FALSE, a.src, a.dest, <<>>)
CpCmd(a, junk) == Run(CpR(State, a.dest, a.src, a.r, junk, 0), "cp", a.r, a.src, a.dest, <<>>)
WriteCmd(a) == Run(ShellWrite(State, a.text, a.p), "write", FALSE, a.p, a.p, a.text)
AppendCmd(a, junk) ==
  Run(ShellAppend(State, a.text, a.p, junk), "append", FALSE, a.p, a.p, a.text)

\* cp_r's recursion has not ended: the shell never reads another line
Lost == ovf /\ UNCHANGED vars

\* main: the cwd is "/", then close(open("file1", O_CREATE | O_RDWR)) and
\* the same for "file2"
Init ==
  LET S0 == [nodes |-> (<<>> :> DirNode), cwd |-> <<>>, ovf |-> FALSE, uninit |-> FALSE]
      S  == SysCreate(SysCreate(S0, NamePath("file1")), NamePath("file2"))
  IN /\ nodes = S.nodes /\ cwd = S.cwd /\ ovf = FALSE /\ uninit = FALSE
     /\ last = [op |-> "init", r |-> FALSE, src |-> NamePath("file1"), dest |-> NamePath("file2"), text |-> <<>>]

\* run_command dispatches each line to one command
Next ==
  \/ \E p \in CdArgs : CdCmd(p)
  \/ \E p \in MkdirArgs : MkdirCmd(p)
  \/ \E p \in TouchArgs : TouchCmd(p)
  \/ \E a \in RmArgs : RmCmd(a)
  \/ \E a \in MvArgs, junk \in Junk : MvCmd(a, junk)
  \/ \E a \in CpArgs, junk \in Junk : CpCmd(a, junk)
  \/ \E a \in WriteArgs : WriteCmd(a)
  \/ \E a \in AppendArgs, junk \in Junk : AppendCmd(a, junk)
  \/ Lost

Spec == Init /\ [][Next]_vars

-----------------------------------------------------------------------------
(* Properties                                                              *)

\* the nodes of the subtree at r, relative to r, with their types
Shape(ns, r) == {<<SubSeq(x, Len(r) + 1, Len(x)), ns[x].type>> : x \in {y \in DOMAIN ns : IsPrefix(r, y)}}

\* the nodes of the subtree at r
Under(ns, r) == {x \in DOMAIN ns : IsPrefix(r, x)}

\* x of the subtree at r, moved to t
Moved(x, r, t) == t \o SubSeq(x, Len(r) + 1, Len(x))

\* the tree with the subtrees at the nodes of rs left out
Without(ns, rs) == Restrict(ns, {x \in DOMAIN ns : \A r \in rs : ~IsPrefix(r, x)})

\* The tree stays a tree: the root is a directory and every other node
\* hangs off a directory (create() links only into what nameiparent
\* returned, and sys_unlink removes only empty directories).
TypeOK ==
  /\ DOMAIN nodes \subseteq Seq(NodeName)
  /\ nodes \in [DOMAIN nodes -> {DirNode} \cup [type : {"file"}, data : BoundedSeq(Byte, MaxLen)]]
  /\ <<>> \in DOMAIN nodes /\ nodes[<<>>].type = "dir"
  /\ \A x \in DOMAIN nodes \ {<<>>} : Front(x) \in DOMAIN nodes /\ nodes[Front(x)].type = "dir"
  /\ cwd \in Seq(NodeName) /\ ovf \in BOOLEAN /\ uninit \in BOOLEAN
  /\ last \in [op : {"init", "cd", "mkdir", "touch", "rm", "mv", "cp", "write", "append"},
               r : BOOLEAN, src : Path, dest : Path, text : Seq(Bytes)]

\* The shell's cwd is always an existing directory: rm -r and mv, which
\* chdir into the tree they remove, always climb out before the unlink,
\* even when they remove an ancestor of the cwd.
CwdIsDir == cwd \in DOMAIN nodes /\ nodes[cwd].type = "dir"

\* is_dir is only ever asked about a path that exists, so its fd is
\* always assigned: every caller in cp_r, mv and rm_r checks is_exist
\* first or works on a name it has just listed.
NoUninitFd == ~uninit

\* cp of a file, and cp -r of a directory, to a path that does not exist
\* in an existing directory outside the source creates there a copy of
\* the source's tree and changes nothing else, the cwd included
\* (dir_list's chdir and back, cp_r's recursion over the listing).  Each
\* copied file starts with its source's bytes when those fit cp_file's
\* buffer (what strlen then adds from the stack follows them).
CpCopiesTree ==
  [][ LET s == Resolve(State, last'.src)
          t == Target(State, last'.dest)
      IN /\ last'.op = "cp" /\ s.ok
         /\ last'.r \/ nodes[s.at].type = "file"
         /\ ParentDir(State, last'.dest).ok /\ ~IsExist(State, last'.dest)
         /\ ~IsPrefix(s.at, t)
         /\ \A x \in Under(nodes, s.at) : Len(nodes[x].data) <= CpBufLen
         => /\ Shape(nodes', t) = Shape(nodes, s.at)
            /\ \A x \in Under(nodes, s.at) :
                  IsPrefix(nodes[x].data, nodes'[Moved(x, s.at, t)].data)
            /\ Without(nodes', {t}) = nodes
            /\ cwd' = cwd ]_vars

\* No command changes the bytes of a file outside the path it names as
\* its destination: write and append touch argv[2] alone, cp and mv only
\* what they copy under dest -- whatever cwd dir_list and rm_r leave
\* the recursion in, and wherever a relative dest then resolves.
ContentFrame ==
  [][ \A x \in DOMAIN nodes \cap DOMAIN nodes' :
        nodes'[x] # nodes[x] => IsPrefix(Target(State, last'.dest), x) ]_vars

\* append to an existing file whose bytes all fit shell_append's read
\* leaves it starting with those bytes and then the text: strncpy puts
\* argv[1] right after the n bytes read and the write from offset 0
\* covers them all.
AppendAppends ==
  [][ LET f == Resolve(State, last'.dest) IN
      /\ last'.op = "append" /\ f.ok /\ nodes[f.at].type = "file"
      /\ Len(nodes[f.at].data) <= CpBufLen
      => IsPrefix(nodes[f.at].data \o last'.text, nodes'[f.at].data) ]_vars

\* mv of an existing file or directory to a path that does not exist,
\* outside the source, with the cwd outside the source too, either moves
\* it -- the source's tree now at dest, gone from src, nothing else
\* changed -- or fails and changes nothing.
MvMoves ==
  [][ LET s == Resolve(State, last'.src)
          t == Target(State, last'.dest)
      IN /\ last'.op = "mv" /\ s.ok /\ ~IsExist(State, last'.dest)
         /\ ParentDir(State, last'.dest).ok => ~IsPrefix(s.at, t)
         /\ ~IsPrefix(s.at, cwd)
         => \/ /\ ParentDir(State, last'.dest).ok
               /\ Shape(nodes', t) = Shape(nodes, s.at)
               /\ Without(nodes', {t}) = Without(nodes, {s.at})
               /\ cwd' = cwd
            \/ nodes' = nodes /\ cwd' = cwd ]_vars

=============================================================================
