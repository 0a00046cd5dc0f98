------------------------- MODULE MCRootFolderCache -------------------------
(***************************************************************************)
(* Instances of RootFolderCache for TLC: a sandbox created in version 2    *)
(* and dropped in version 3, the case in which two notifications of        *)
(* opposite changes are under way together.                                *)
(***************************************************************************)
EXTENDS RootFolderCache, TLC

CONSTANTS f1, f2

AllFaults    == FaultKinds
SomeFolders  == {f1, f2}
\* Version 1 has one sandbox, 2 has two, 3 has only the second.
SomeRoots    == <<{}, {f1}, {f1, f2}, {f2}>>
RootsByValue == [v \in Value |-> SomeRoots[v + 1]]
Symmetry     == Permutations(Clients) \cup Permutations(Tasks)

=============================================================================
