--------------------------- MODULE MCUserCommands ---------------------------
(***************************************************************************)
(* Two commands at once over two files, in one folder or in two of which   *)
(* one holds the other.                                                    *)
(***************************************************************************)
EXTENDS UserCommands, TLC

CONSTANTS l1, t1, t2, f1, f2, d1, d2

MCFolder == (f1 :> d1) @@ (f2 :> d2)
MCParent == (d1 :> NoFolder) @@ (d2 :> d1)

=============================================================================
