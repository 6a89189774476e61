------------------------------ MODULE DirLayer ------------------------------
(***************************************************************************)
(* Path elements and directory slots: skipelem and the namex loop header   *)
(* of src/kern/fs/path.c, and the slot-level directory of src/kern/fs/dir.c*)
(* with the directory steps of sys_unlink and isdirempty (sysfile.c).      *)
(*                                                                         *)
(* A path is a sequence of characters.  nameiparent splits it with         *)
(* skipelem, one element per loop iteration, and hands its final element   *)
(* to the caller, which links it into, or unlinks it from, one directory   *)
(* D (locked by the caller, so each directory operation is one step).  D's *)
(* contents are a sequence of dirents [inum, name]; inum 0 is an empty     *)
(* slot.  Which directory nameiparent reaches is FsCore's business.        *)
(***************************************************************************)
EXTENDS Naturals, Sequences, SequencesExt

CONSTANTS
  DIRSIZ,     \* size of a dirent name, with its NUL
  Chars,      \* characters of path elements ("/" excluded)
  Paths,      \* paths passed to the system calls
  Targets,    \* inode numbers a new entry may name
  Self,       \* D's inode number (its "." entry)
  Parent,     \* D's parent (its ".." entry)
  MaxSlots    \* bound on D's size, in dirents

ASSUME DIRSIZ \in Nat /\ DIRSIZ > 2 /\ "/" \notin Chars /\ 0 \notin Targets

Dot    == <<".">>
DotDot == <<".", ".">>

\* every name skipelem can produce: 1 .. DIRSIZ - 1 characters
NameSpace == SeqOf(Chars, DIRSIZ - 1) \ {<<>>}

NoElem == [name |-> <<>>, rest |-> <<"/">>]   \* skipelem's "return 0"

-----------------------------------------------------------------------------
(* skipelem                                                                *)

\* "while (*p == '/') p++"
RECURSIVE DropSlashes(_)
DropSlashes(s) == IF s # <<>> /\ Head(s) = "/" THEN DropSlashes(Tail(s)) ELSE s

\* "while (*q != '/' && *q != '\0') q++": the length q - p
RECURSIVE ElemLen(_)
ElemLen(s) == IF s = <<>> \/ Head(s) = "/" THEN 0 ELSE 1 + ElemLen(Tail(s))

\* (fault variant) keeping DIRSIZ characters of a long element
SkipelemKeepAll(path) ==
  LET p == DropSlashes(path)
      n == ElemLen(p)
  IN IF path = <<>> \/ p = <<>> THEN NoElem
     ELSE [name |-> SubSeq(p, 1, IF n > DIRSIZ THEN DIRSIZ ELSE n),
           rest |-> DropSlashes(SubSeq(p, n + 1, Len(p)))]

\* (fault variant) leaving the trailing slashes in the rest
SkipelemNoTrail(path) ==
  LET p == DropSlashes(path)
      n == ElemLen(p)
  IN IF path = <<>> \/ p = <<>> THEN NoElem
     ELSE [name |-> SubSeq(p, 1, IF n >= DIRSIZ THEN DIRSIZ - 1 ELSE n),
           rest |-> SubSeq(p, n + 1, Len(p))]

\* the next element (at most DIRSIZ - 1 characters) and the rest of the
\* path after it and its trailing slashes; NoElem for "" or all slashes
Skipelem(path) ==
  LET p == DropSlashes(path)
      n == ElemLen(p)
  IN IF path = <<>> \/ p = <<>> THEN NoElem
     ELSE [name |-> SubSeq(p, 1, IF n >= DIRSIZ THEN DIRSIZ - 1 ELSE n),
           rest |-> DropSlashes(SubSeq(p, n + 1, Len(p)))]

-----------------------------------------------------------------------------
(* Directory slots                                                          *)

\* index of the first live dirent whose name matches n (0: none)
Match(sl, n) == SelectInSeq(sl, LAMBDA de : de.inum # 0 /\ de.name = n)

\* dir_lookup: the inode number found, or 0
DirLookup(sl, n) == IF Match(sl, n) = 0 THEN 0 ELSE sl[Match(sl, n)].inum

\* (fault variant) dir_link without its "name is not present" check
DirLinkNoCheck(sl, n, i) ==
  LET free == SelectInSeq(sl, LAMBDA de : de.inum = 0)
      off  == IF free = 0 THEN Len(sl) + 1 ELSE free
  IN [k \in 1 .. Len(sl) + (IF free = 0 THEN 1 ELSE 0) |->
        IF k = off THEN [inum |-> i, name |-> n] ELSE sl[k]]

\* dir_link: fail if n is present, else write the entry into the first
\* empty slot, or append it at dp->size
DirLink(sl, n, i) ==
  LET free == SelectInSeq(sl, LAMBDA de : de.inum = 0)
      off  == IF free = 0 THEN Len(sl) + 1 ELSE free
  IN IF DirLookup(sl, n) # 0 THEN sl
     ELSE [k \in 1 .. Len(sl) + (IF free = 0 THEN 1 ELSE 0) |->
             IF k = off THEN [inum |-> i, name |-> n] ELSE sl[k]]

\* isdirempty: no live dirent from offset 2 * sizeof(de) on
IsDirEmpty(sl) == \A k \in 3 .. Len(sl) : sl[k].inum = 0

-----------------------------------------------------------------------------

VARIABLES
  pc,      \* "idle", "parse" (in namex's loop), "done" (name in hand)
  path,    \* the path of the call
  rest,    \* what skipelem has not consumed yet
  elems,   \* the elements so far, [name, last]: last = (*path == '\0')
  slots    \* D's dirents

vars == <<pc, path, rest, elems, slots>>

\* a system call copies in a path and calls nameiparent
Start(p) ==
  /\ pc = "idle"
  /\ pc' = "parse" /\ path' = p /\ rest' = p /\ elems' = <<>>
  /\ UNCHANGED slots

\* namex's loop header: skipelem, then nameiparent's "*path == '\0'" test
\* on the rest; the loop ends when skipelem returns 0
NamexElem ==
  LET r == Skipelem(rest) IN
  /\ pc = "parse"
  /\ IF r = NoElem
     THEN pc' = "done" /\ UNCHANGED <<rest, elems>>
     ELSE /\ rest' = r.rest
          /\ elems' = Append(elems, [name |-> r.name, last |-> r.rest = <<>>])
          /\ UNCHANGED pc
  /\ UNCHANGED <<path, slots>>

\* the final name nameiparent returned (it fails for a path with none)
FinalName == Last(elems).name

\* the call returns; its path and locals are gone
Return == pc' = "idle" /\ path' = <<>> /\ rest' = <<>> /\ elems' = <<>>

\* nameiparent found no element ("" or "/"), returned 0, and the call
\* fails with E_DISK_OP
NoName ==
  /\ pc = "done" /\ elems = <<>>
  /\ Return
  /\ UNCHANGED slots

\* sys_link / create: dir_link(dp, name, inum) under dp's lock
Link(i) ==
  /\ pc = "done" /\ elems # <<>>
  /\ Len(DirLink(slots, FinalName, i)) <= MaxSlots
  /\ slots' = DirLink(slots, FinalName, i)
  /\ Return

\* (fault variant) sys_unlink without its "." / ".." refusal
UnlinkAllowsDots(removable) ==
  LET n   == FinalName
      off == Match(slots, n)
  IN /\ pc = "done" /\ elems # <<>>
     /\ slots' = IF off = 0 \/ ~removable THEN slots
                 ELSE [slots EXCEPT ![off] = [inum |-> 0, name |-> <<>>]]
     /\ Return

\* sys_unlink with dp locked: refuse "." and "..", look the name up, and
\* (the target passing its nlink and isdirempty checks, when removable)
\* zero its dirent with memset
Unlink(removable) ==
  LET n   == FinalName
      off == Match(slots, n)
  IN /\ pc = "done" /\ elems # <<>>
     /\ slots' = IF n \in {Dot, DotDot} \/ off = 0 \/ ~removable THEN slots
                 ELSE [slots EXCEPT ![off] = [inum |-> 0, name |-> <<>>]]
     /\ Return

\* D as create leaves it: "." then ".."
Init ==
  /\ pc = "idle" /\ path = <<>> /\ rest = <<>> /\ elems = <<>>
  /\ slots = <<[inum |-> Self, name |-> Dot], [inum |-> Parent, name |-> DotDot]>>

Next ==
  \/ \E p \in Paths : Start(p)
  \/ NamexElem
  \/ NoName
  \/ \E i \in Targets : Link(i)
  \/ \E b \in BOOLEAN : Unlink(b)

Spec == Init /\ [][Next]_vars

-----------------------------------------------------------------------------
(* Properties                                                              *)

TypeOK ==
  /\ pc \in {"idle", "parse", "done"}
  /\ path \in Paths \cup {<<>>} /\ rest \in Seq(Chars \cup {"/"})
  /\ elems \in Seq([name : NameSpace, last : BOOLEAN])
  /\ slots \in Seq([inum : Targets \cup {0, Self, Parent}, name : NameSpace \cup {<<>>}])

\* Reference split: the maximal runs of non-slash characters of a path,
\* each cut to DIRSIZ - 1 characters (the truncation path.c's comment on
\* skipelem prescribes), the last one marked.
SplitStep(acc, c) ==
  IF c = "/"
  THEN IF acc.cur = <<>> THEN acc ELSE [words |-> Append(acc.words, acc.cur), cur |-> <<>>]
  ELSE [acc EXCEPT !.cur = Append(@, c)]
Words(p) ==
  LET r == FoldLeft(SplitStep, [words |-> <<>>, cur |-> <<>>], p)
  IN IF r.cur = <<>> THEN r.words ELSE Append(r.words, r.cur)
Clip(w) == IF Len(w) < DIRSIZ THEN w ELSE SubSeq(w, 1, DIRSIZ - 1)
Expected(p) ==
  LET ws == Words(p) IN
  [k \in 1 .. Len(ws) |-> [name |-> Clip(ws[k]), last |-> k = Len(ws)]]

\* namex's loop, driven by skipelem, visits exactly the path's elements,
\* in order, truncated, and nameiparent's "*path == '\0'" test holds at
\* the final element only: a long element never desynchronises the scan
\* and trailing slashes never hide the last element.
ElemsAsSplit ==
  /\ IsPrefix(elems, Expected(path))
  /\ pc = "done" => elems = Expected(path)

\* The slot directory implements the name map of DirMap (the view FsCore
\* uses): mapping each name to what dir_lookup finds for it, every
\* dir_link and every sys_unlink is a DirMap step or changes nothing.
Dir == INSTANCE DirMap WITH ents <- [n \in NameSpace |-> DirLookup(slots, n)],
                            Inums <- Targets
DirRefinement == Dir!Spec

\* isdirempty, which skips the first two slots, answers whether D has an
\* entry besides "." and "..": the dot entries stay in slots 1 and 2
\* through every unlink and slot reuse.
EmptyMeansNoEntries ==
  IsDirEmpty(slots) <=> \A n \in NameSpace \ {Dot, DotDot} : DirLookup(slots, n) = 0

=============================================================================
