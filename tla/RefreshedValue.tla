-------------------------- MODULE RefreshedValue --------------------------
(***************************************************************************)
(* What AbstractCache.h promises to the code that holds a cache, said      *)
(* without threads, locks, ages or tasks: a value that is replaced by one  *)
(* refresh at a time, each replacement being a version the server held     *)
(* between the moment the refresh was asked for and the moment its result  *)
(* was stored, or the empty value of a command that failed.  A refresh     *)
(* that is abandoned (its thread could not start, or the fetch threw) is   *)
(* never replaced by another one.                                          *)
(***************************************************************************)
EXTENDS Naturals

CONSTANT MaxVersion     \* bound on the versions the server goes through

VARIABLES
  server,      \* the version the Integrity client would report now
  value,       \* the version the cache answers with, Empty before the first
  pending,     \* a refresh has been asked for and has not ended
  lost,        \* that refresh will never end
  floor        \* the version the server held when the refresh was asked for

vars == <<server, value, pending, lost, floor>>

Empty == 0

Init ==
  /\ server = 1
  /\ value = Empty
  /\ pending = TRUE
  /\ lost = FALSE
  /\ floor = 1

ServerChange ==
  /\ server < MaxVersion
  /\ server' = server + 1
  /\ UNCHANGED <<value, pending, lost, floor>>

Ask ==
  /\ ~pending
  /\ pending' = TRUE
  /\ floor' = server
  /\ UNCHANGED <<server, value, lost>>

Complete ==
  /\ pending
  /\ ~lost
  /\ value' \in (floor..server) \cup {Empty}
  /\ pending' = FALSE
  /\ UNCHANGED <<server, lost, floor>>

Abandon ==
  /\ pending
  /\ ~lost
  /\ lost' = TRUE
  /\ UNCHANGED <<server, value, pending, floor>>

\* A refresh that fails to start is asked for and lost in one step.
AskAndAbandon ==
  /\ ~pending
  /\ pending' = TRUE
  /\ lost' = TRUE
  /\ floor' = server
  /\ UNCHANGED <<server, value>>

Next == ServerChange \/ Ask \/ Complete \/ Abandon \/ AskAndAbandon

Spec == Init /\ [][Next]_vars

\* Every refresh that is not lost ends.
FairSpec == Spec /\ WF_vars(Complete \/ Abandon)

=============================================================================
