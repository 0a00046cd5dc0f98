---------------------------- MODULE SharedAccess ----------------------------
(***************************************************************************)
(* What Utils/ReaderWriterLock.h promises, without counters, events, maps  *)
(* or calls: at any time several threads read or one writes; a thread that *)
(* asks for the lock while a writer waits does not get in, whoever reads;  *)
(* an upgrade lets go of the lock and queues, unless the thread is the     *)
(* only reader; and a wait to write ends with the lock or without it, for  *)
(* an upgrade as a reader again where no writer is in the way.             *)
(***************************************************************************)
CONSTANT Threads

VARIABLES
  reading,   \* the threads that read
  writing,   \* the thread that writes, if any
  waiting    \* the threads that wait to write

vars == <<reading, writing, waiting>>

Init == reading = {} /\ writing = {} /\ waiting = {}

StartReading(t) ==
  /\ t \notin reading
  /\ writing = {} /\ waiting \subseteq {t}
  /\ reading' = reading \cup {t}
  /\ waiting' = waiting \ {t}
  /\ UNCHANGED writing

StopReading(t) ==
  /\ t \in reading
  /\ reading' = reading \ {t}
  /\ UNCHANGED <<writing, waiting>>

WaitToWrite(t) ==
  /\ t \notin writing \cup waiting
  /\ waiting' = waiting \cup {t}
  /\ reading' = reading \ {t}
  /\ UNCHANGED writing

GiveUp(t) ==
  /\ t \in waiting
  /\ waiting' = waiting \ {t}
  /\ UNCHANGED <<reading, writing>>

\* Past writers that wait, only a reader that is alone gets to write.
StartWriting(t) ==
  /\ writing = {} /\ reading \subseteq {t}
  /\ t \in reading \/ t \in waiting \/ waiting = {}
  /\ writing' = {t}
  /\ reading' = {}
  /\ waiting' = waiting \ {t}

\* A downgrade, or the last release of a writer that had read before, reads on.
StopWriting(t) ==
  /\ t \in writing
  /\ writing' = writing \ {t}
  /\ reading' \in {reading, reading \cup {t}}
  /\ UNCHANGED waiting

Next == \E t \in Threads : \/ StartReading(t) \/ StopReading(t)
                           \/ WaitToWrite(t) \/ GiveUp(t)
                           \/ StartWriting(t) \/ StopWriting(t)

Spec == Init /\ [][Next]_vars

=============================================================================
