---------------------------- MODULE ConsoleQueue ----------------------------
(***************************************************************************)
(* What the console input buffer promises: characters delivered by the     *)
(* keyboard and serial interrupt handlers are handed to readers in the     *)
(* order they arrived, none lost, none repeated.  q holds the characters   *)
(* accepted but not yet read; taken is everything read so far.             *)
(***************************************************************************)
EXTENDS Sequences, SequencesExt

VARIABLES q, taken

\* A device hands over one or more characters, appended in order
Put == IsStrictPrefix(q, q') /\ UNCHANGED taken

\* A reader takes the oldest character
Take == q # <<>> /\ q' = Tail(q) /\ taken' = Append(taken, Head(q))

Init == q = <<>> /\ taken = <<>>

Next == Put \/ Take

Spec == Init /\ [][Next]_<<q, taken>>

=============================================================================
