---------------------------- MODULE MCContextMenu ----------------------------
(***************************************************************************)
(* Instances of ContextMenu for TLC: two files, one with an extension.    *)
(***************************************************************************)
EXTENDS ContextMenu

CONSTANTS h1, h2, h3, w1, w2, report, makefile

MCWindowOf   == (h1 :> w1) @@ (h2 :> w1) @@ (h3 :> w2)
MCPatternsOf == (report :> <<"report.txt", "*.txt">>) @@ (makefile :> <<"makefile">>)
MCSelections == {<<>>, <<report>>, <<report, makefile>>}
MCStatuses   == {{"File", "Ignored"}, {"File", "Member"}}
==============================================================================
