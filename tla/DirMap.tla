------------------------------- MODULE DirMap -------------------------------
(***************************************************************************)
(* What a directory promises its callers, and the view FsCore uses: a map  *)
(* from (truncated) names to inode numbers, 0 meaning "no entry".  Linking *)
(* a name that is present fails; "." and ".." are never removed.           *)
(***************************************************************************)
CONSTANTS NameSpace, Inums, Dot, DotDot, Self, Parent

VARIABLE ents

Init == ents = [n \in NameSpace |-> CASE n = Dot    -> Self
                                      [] n = DotDot -> Parent
                                      [] OTHER      -> 0]

\* a new entry for a name that has none
Link(n, i) == ents[n] = 0 /\ i # 0 /\ ents' = [ents EXCEPT ![n] = i]

\* removal of an entry other than the two dot entries
Unlink(n) == n \notin {Dot, DotDot} /\ ents[n] # 0 /\ ents' = [ents EXCEPT ![n] = 0]

Next == \E n \in NameSpace : Unlink(n) \/ \E i \in Inums : Link(n, i)

Spec == Init /\ [][Next]_ents

=============================================================================
