------------------------------ MODULE MCShell -------------------------------
(***************************************************************************)
(* Shell with a few command lines over names a, b and main's file1, file2. *)
(* The arguments mix relative, multi-element and absolute paths, a path   *)
(* through a file, and cp / mv of a directory into itself.               *)
(***************************************************************************)
EXTENDS Shell

Rel(es) == [abs |-> FALSE, elems |-> es]
Abs(es) == [abs |-> TRUE, elems |-> es]

MCNames == {"a", "b", "file1", "file2"}

MCCdArgs    == {Rel(<<"a">>), Rel(<<"..">>), Abs(<<"a", "b">>)}
MCMkdirArgs == {Rel(<<"a">>), Rel(<<"a", "b">>), Rel(<<"file1", "a">>)}
MCTouchArgs == {Rel(<<"a", "file1">>)}
MCRmArgs    == {[r |-> TRUE, p |-> Rel(<<"a">>)], [r |-> TRUE, p |-> Abs(<<"a", "b">>)],
                [r |-> FALSE, p |-> Rel(<<"file1">>)]}
MCMvArgs    == {[src |-> Rel(<<"file1">>), dest |-> Rel(<<"a">>)],
                [src |-> Rel(<<"a">>), dest |-> Rel(<<"b">>)]}
MCCpArgs    == {[r |-> TRUE, src |-> Rel(<<"a">>), dest |-> Rel(<<"b">>)],
                [r |-> FALSE, src |-> Rel(<<"file2">>), dest |-> Rel(<<"a">>)],
                [r |-> TRUE, src |-> Rel(<<"a">>), dest |-> Rel(<<"a", "b">>)]}

\* File contents: a smaller tree, with write and append over a file and
\* onto a directory, cp of a file over a file, into a directory and
\* through a path that does not resolve, cp -r, mv and rm of a file.
MCCtMkdirArgs  == {Rel(<<"a">>)}
MCCtCdArgs     == {Rel(<<"a">>), Rel(<<"..">>)}
MCCtRmArgs     == {[r |-> FALSE, p |-> Rel(<<"file2">>)]}
MCCtMvArgs     == {[src |-> Rel(<<"file2">>), dest |-> Abs(<<"a", "b">>)]}
MCCtCpArgs     == {[r |-> FALSE, src |-> Rel(<<"file1">>), dest |-> Rel(<<"file2">>)],
                   [r |-> FALSE, src |-> Abs(<<"file1">>), dest |-> Abs(<<"a">>)],
                   [r |-> FALSE, src |-> Rel(<<"file1">>), dest |-> Rel(<<"b", "a">>)],
                   [r |-> TRUE, src |-> Abs(<<"a">>), dest |-> Abs(<<"b">>)]}
MCCtWriteArgs  == {[text |-> <<"x", "x">>, p |-> Abs(<<"file1">>)],
                   [text |-> <<"x">>, p |-> Rel(<<"a">>)]}
MCCtAppendArgs == {[text |-> <<"x">>, p |-> Abs(<<"file1">>)],
                   [text |-> <<"x">>, p |-> Abs(<<"a">>)]}

None == {}

\* mv of a relative two-element directory path
MCMvArgsNested == {[src |-> Rel(<<"a", "b">>), dest |-> Rel(<<"b">>)]}

=============================================================================
