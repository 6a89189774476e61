----------------------------- MODULE MCDirLayer -----------------------------
(***************************************************************************)
(* DirLayer with DIRSIZ = 3: elements of 3 or more characters are cut to   *)
(* 2.  Characters "a" and "." make the names ".", ".." and the names that  *)
(* collide after truncation ("aaa" and "aa").  Every path of up to 4       *)
(* characters over "/", "a" and "." is tried.                              *)
(***************************************************************************)
EXTENDS DirLayer

MCChars == {"a", "."}
MCPaths == SeqOf(MCChars \cup {"/"}, 4)

=============================================================================
