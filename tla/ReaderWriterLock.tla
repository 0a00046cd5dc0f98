-------------------------- MODULE ReaderWriterLock --------------------------
(***************************************************************************)
(* Utils/ReaderWriterLock.cpp: CReaderWriterLock, which a thread may take  *)
(* again while it holds it and in which AcquireWriterLock upgrades a       *)
(* reader, and CReaderWriterLockNonReentrance, the same lock without a map *)
(* of holders, with UpgradeToWriterLock and DowngradeFromWriterLock.       *)
(*                                                                         *)
(* Everything between EnterCS and LeaveCS is one step: the waits are on    *)
(* two events, outside the critical section, so that between the end of a  *)
(* wait and the next EnterCS anything may happen.  A call with timeout 0   *)
(* changes nothing unless it succeeds at once, and is left out.            *)
(***************************************************************************)
EXTENDS Integers, FiniteSets

CONSTANTS
  Threads,
  Classes,        \* which of the two classes the lock may be of
  MaxRecurrence   \* bound: times a thread holds the lock as reader, and as writer

ASSUME LockAssumption ==
  /\ IsFiniteSet(Threads)
  /\ Classes \subseteq {"reentrant", "bare"}
  /\ MaxRecurrence \in Nat \ {0}

VARIABLES
  class,             \* the class of the lock, which never changes
  writers,           \* m_iNumOfWriter: the one that holds it and all that wait
  readersEntered,    \* m_iNumOfReaderEntered
  readersWaiting,    \* m_iNumOfReaderWaiting
  readEvent,         \* m_hSafeToReadEvent, manual-reset; "none" while not created
  writeEvent,        \* m_hSafeToWriteEvent, auto-reset; "none" while not created
  held,              \* m_map: how often each thread holds it; in the bare class
                     \* what its callers know
  call               \* the blocking call a thread is in

counters == <<writers, readersEntered, readersWaiting>>
events   == <<readEvent, writeEvent>>
vars     == <<class, counters, events, held, call>>

EventStates == {"none", "reset", "set"}
Pcs == {"idle", "readWait", "readWoken", "readExpired", "readLate",
        "writeWait", "writeExpired", "writeGranted"}

NotHeld == [r |-> 0, w |-> 0]
NoCall  == [pc |-> "idle", timed |-> FALSE, upgrade |-> FALSE]

TypeOK ==
  /\ class \in Classes
  /\ writers \in Nat /\ readersEntered \in Nat /\ readersWaiting \in Nat
  /\ readEvent \in EventStates /\ writeEvent \in EventStates
  /\ held \in [Threads -> [r : 0..MaxRecurrence, w : 0..MaxRecurrence]]
  /\ call \in [Threads -> [pc : Pcs, timed : BOOLEAN, upgrade : BOOLEAN]]

Init ==
  /\ class \in Classes
  /\ writers = 0 /\ readersEntered = 0 /\ readersWaiting = 0
  /\ readEvent = "none" /\ writeEvent = "none"
  /\ held = [t \in Threads |-> NotHeld]
  /\ call = [t \in Threads |-> NoCall]

----------------------------------------------------------------------------
(* Who holds the lock.  A thread in the wait of an upgrade does not, though *)
(* the map has it as a reader.                                              *)

Idle(t)    == call[t].pc = "idle"
Reading(t) == Idle(t) /\ held[t].w = 0 /\ held[t].r > 0
Writing(t) == held[t].w > 0 \/ call[t].pc = "writeGranted"
Queued(t)  == call[t].pc \in {"writeWait", "writeExpired"}
Asleep(t)  == call[t].pc = "readWait"

Readers == {t \in Threads : Reading(t)}
Writers == {t \in Threads : Writing(t)}
Queue   == {t \in Threads : Queued(t)}

----------------------------------------------------------------------------
(* The internals both classes share.                                        *)

Created(event) == IF event = "none" THEN "reset" ELSE event
SetIfAny(event) == IF event = "none" THEN "none" ELSE "set"

Return(t) == call' = [call EXCEPT ![t] = NoCall]

\* _ReaderWait up to its wait.
ReaderWait(t, timed, upgrade) ==
  /\ readersWaiting' = readersWaiting + 1
  /\ readEvent' = Created(readEvent)
  /\ call' = [call EXCEPT ![t] = [pc |-> "readWait", timed |-> timed, upgrade |-> upgrade]]

\* The end of _ReaderWait, whether it succeeded or not.
LeaveReadQueue ==
  /\ readersWaiting' = readersWaiting - 1
  /\ readEvent' = IF readersWaiting = 1 THEN "none" ELSE readEvent

\* _WriterWaitAndLeaveCSIfSuccess up to its wait.
WriterWait(t, timed, upgrade) ==
  /\ writers' = writers + 1
  /\ readEvent' = IF writers = 0 /\ readEvent # "none" THEN "reset" ELSE readEvent
  /\ writeEvent' = Created(writeEvent)
  /\ call' = [call EXCEPT ![t] = [pc |-> "writeWait", timed |-> timed, upgrade |-> upgrade]]

\* _UpgradeToWriterLockAndLeaveCS up to its wait.
Upgrade(t, timed) ==
  /\ readersEntered' = readersEntered - 1
  /\ WriterWait(t, timed, TRUE)
  /\ UNCHANGED <<class, readersWaiting, held>>

\* _ReaderRelease
ReaderRelease ==
  /\ readersEntered' = readersEntered - 1
  /\ writeEvent' = IF readersEntered = 1 THEN SetIfAny(writeEvent) ELSE writeEvent
  /\ UNCHANGED <<writers, readEvent>>

\* _WriterRelease
WriterRelease(downgrade) ==
  /\ readersEntered' = IF downgrade THEN readersEntered + 1 ELSE readersEntered
  /\ writers' = writers - 1
  /\ IF writers = 1
       THEN writeEvent' = "none" /\ readEvent' = SetIfAny(readEvent)
       ELSE /\ writeEvent' = IF downgrade THEN writeEvent ELSE "set"
            /\ UNCHANGED readEvent

----------------------------------------------------------------------------
(* The waits of a reader.                                                   *)

ReaderWakes(t) ==
  /\ call[t].pc = "readWait"
  /\ \/ readEvent = "set" /\ call' = [call EXCEPT ![t].pc = "readWoken"]
     \/ call[t].timed /\ call' = [call EXCEPT ![t].pc = "readExpired"]
  /\ UNCHANGED <<class, counters, events, held>>

\* Mutant: the loop does not test for a writer that came first.
ReaderEntersUntested(t) ==
  /\ call[t].pc \in {"readWoken", "readExpired"}
  /\ LeaveReadQueue
  /\ readersEntered' = readersEntered + 1
  /\ held' = [held EXCEPT ![t].r = IF call[t].upgrade THEN @ ELSE 1]
  /\ Return(t)
  /\ UNCHANGED <<class, writers, writeEvent>>

\* Back in the critical section.  After a failed upgrade the thread that finds itself
\* the only reader becomes the writer there and then.
ReaderEnters(t) ==
  /\ call[t].pc \in {"readWoken", "readExpired"}
  /\ writers = 0
  /\ LeaveReadQueue
  /\ IF call[t].upgrade /\ readersEntered = 0
       THEN /\ writers' = 1
            /\ call' = [call EXCEPT ![t].pc = "writeGranted"]
            /\ UNCHANGED <<readersEntered, held>>
       ELSE /\ readersEntered' = readersEntered + 1
            /\ held' = [held EXCEPT ![t].r = IF call[t].upgrade THEN @ ELSE 1]
            /\ Return(t)
            /\ UNCHANGED writers
  /\ UNCHANGED <<class, writeEvent>>

\* A writer came first: the reader waits again, unless its time is up.
ReaderRetries(t) ==
  /\ call[t].pc = "readWoken"
  /\ writers # 0
  /\ \/ call' = [call EXCEPT ![t].pc = "readWait"]
     \/ call[t].timed /\ call' = [call EXCEPT ![t].pc = "readLate"]
  /\ UNCHANGED <<class, counters, events, held>>

\* Mutant: a reader that gives up stays in the count of those that wait.
ReaderGivesUpCounted(t) ==
  /\ \/ call[t].pc = "readExpired" /\ writers # 0
     \/ call[t].pc = "readLate"
  /\ Return(t)
  /\ UNCHANGED <<class, counters, events, held>>

ReaderGivesUp(t) ==
  /\ \/ call[t].pc = "readExpired" /\ writers # 0
     \/ call[t].pc = "readLate"
  /\ LeaveReadQueue
  /\ Return(t)
  /\ UNCHANGED <<class, writers, readersEntered, writeEvent, held>>

----------------------------------------------------------------------------
(* The wait of a writer.                                                    *)

\* The event resets itself as it lets one thread through.
WriterWakes(t) ==
  /\ call[t].pc = "writeWait"
  /\ \/ /\ writeEvent = "set"
        /\ writeEvent' = "reset"
        /\ call' = [call EXCEPT ![t].pc = "writeGranted"]
     \/ /\ call[t].timed
        /\ call' = [call EXCEPT ![t].pc = "writeExpired"]
        /\ UNCHANGED writeEvent
  /\ UNCHANGED <<class, counters, readEvent, held>>

\* Mutant: a failed upgrade reads on, whoever else waits to write.
WriterExpiresReading(t) ==
  /\ call[t].pc = "writeExpired"
  /\ writers' = writers - 1
  /\ writeEvent' = IF writers = 1 THEN "none" ELSE writeEvent
  /\ readEvent' = IF writers = 1 THEN SetIfAny(readEvent) ELSE readEvent
  /\ readersEntered' = IF call[t].upgrade THEN readersEntered + 1 ELSE readersEntered
  /\ Return(t)
  /\ UNCHANGED <<class, readersWaiting, held>>

\* After the timeout: the last writer of the queue takes the lock if it is free after
\* all.  A failed upgrade makes the thread a reader again, with an endless wait when
\* there are other writers.
WriterExpires(t) ==
  /\ call[t].pc = "writeExpired"
  /\ IF writers = 1
       THEN /\ writeEvent' = "none"
            /\ IF readersEntered = 0
                 THEN /\ call' = [call EXCEPT ![t].pc = "writeGranted"]
                      /\ UNCHANGED <<writers, readersEntered, readEvent>>
                 ELSE /\ writers' = 0
                      /\ readEvent' = SetIfAny(readEvent)
                      /\ readersEntered' = IF call[t].upgrade THEN readersEntered + 1
                                                              ELSE readersEntered
                      /\ Return(t)
            /\ UNCHANGED readersWaiting
       ELSE /\ writers' = writers - 1
            /\ IF call[t].upgrade THEN ReaderWait(t, FALSE, TRUE)
                                  ELSE Return(t) /\ UNCHANGED <<readersWaiting, readEvent>>
            /\ UNCHANGED <<readersEntered, writeEvent>>
  /\ UNCHANGED <<class, held>>

\* The call that waited returns TRUE; the map is brought up to date only now.
WriterReturns(t) ==
  /\ call[t].pc = "writeGranted"
  /\ held' = [held EXCEPT ![t] = [r |-> IF class = "bare" THEN 0 ELSE @.r, w |-> 1]]
  /\ Return(t)
  /\ UNCHANGED <<class, counters, events>>

----------------------------------------------------------------------------
(* The calls of a thread that is in none.                                   *)

\* Mutant: a reader shares the lock with readers past the writers that wait.
AcquireReaderLockShared(t, timed) ==
  /\ Idle(t)
  /\ held[t] = NotHeld
  /\ readersEntered' = readersEntered + 1
  /\ held' = [held EXCEPT ![t].r = 1]
  /\ writers = 0 \/ readersEntered > 0
  /\ UNCHANGED <<class, writers, readersWaiting, events, call>>

AcquireReaderLock(t, timed) ==
  /\ Idle(t)
  /\ \/ /\ class = "reentrant" /\ held[t] # NotHeld
        /\ held[t].r < MaxRecurrence
        /\ held' = [held EXCEPT ![t].r = @ + 1]
        /\ UNCHANGED <<counters, events, call>>
     \/ /\ held[t] = NotHeld
        /\ writers = 0
        /\ readersEntered' = readersEntered + 1
        /\ held' = [held EXCEPT ![t].r = 1]
        /\ UNCHANGED <<writers, readersWaiting, events, call>>
     \/ /\ held[t] = NotHeld
        /\ writers # 0
        /\ ReaderWait(t, timed, FALSE)
        /\ UNCHANGED <<writers, readersEntered, writeEvent, held>>
  /\ UNCHANGED class

ReleaseReaderLock(t) ==
  /\ Idle(t)
  /\ held[t].r > 0
  /\ held' = [held EXCEPT ![t].r = @ - 1]
  /\ IF held'[t] = NotHeld THEN ReaderRelease
                           ELSE UNCHANGED <<writers, readersEntered, events>>
  /\ UNCHANGED <<class, readersWaiting, call>>

\* The nested cases of AcquireWriterLock in the reentrant class: a writer, the only
\* reader, which passes writers that wait, and one reader of several.
AcquireWriterAgain(t) ==
  /\ Idle(t)
  /\ class = "reentrant"
  /\ held[t].w \in 1..(MaxRecurrence - 1)
  /\ held' = [held EXCEPT ![t].w = @ + 1]
  /\ UNCHANGED <<class, counters, events, call>>

\* Mutant: the only reader upgrades like one of several.
UpgradeSoleReaderInQueue(t) ==
  /\ class = "reentrant"
  /\ Reading(t)
  /\ readersEntered = 1
  /\ Upgrade(t, FALSE)

UpgradeSoleReader(t) ==
  /\ class = "reentrant"
  /\ Reading(t)
  /\ readersEntered = 1
  /\ readersEntered' = 0
  /\ writers' = writers + 1
  /\ held' = [held EXCEPT ![t].w = 1]
  /\ UNCHANGED <<class, readersWaiting, events, call>>

UpgradeReader(t, timed) ==
  /\ class = "reentrant"
  /\ Reading(t)
  /\ readersEntered # 1
  /\ Upgrade(t, timed)

\* The bare class makes no difference between them.
UpgradeToWriterLock(t, timed) ==
  /\ class = "bare"
  /\ Reading(t)
  /\ Upgrade(t, timed)

AcquireWriterLock(t, timed) ==
  /\ Idle(t)
  /\ held[t] = NotHeld
  /\ \/ /\ writers = 0 /\ readersEntered = 0
        /\ writers' = 1
        /\ held' = [held EXCEPT ![t].w = 1]
        /\ UNCHANGED <<readersEntered, events, call>>
     \/ /\ writers # 0 \/ readersEntered # 0
        /\ WriterWait(t, timed, FALSE)
        /\ UNCHANGED <<readersEntered, held>>
  /\ UNCHANGED <<class, readersWaiting>>

ReleaseWriterLock(t) ==
  /\ Idle(t)
  /\ held[t].w > 0
  /\ held' = [held EXCEPT ![t].w = @ - 1]
  /\ IF held'[t].w = 0 THEN WriterRelease(held[t].r > 0)
                       ELSE UNCHANGED <<writers, readersEntered, events>>
  /\ UNCHANGED <<class, readersWaiting, call>>

ReleaseAllLocks(t) ==
  /\ Idle(t)
  /\ class = "reentrant"
  /\ held[t] # NotHeld
  /\ held' = [held EXCEPT ![t] = NotHeld]
  /\ IF held[t].w > 0 THEN WriterRelease(FALSE) ELSE ReaderRelease
  /\ UNCHANGED <<class, readersWaiting, call>>

DowngradeFromWriterLock(t) ==
  /\ Idle(t)
  /\ class = "bare"
  /\ held[t].w > 0
  /\ held' = [held EXCEPT ![t] = [r |-> 1, w |-> 0]]
  /\ WriterRelease(TRUE)
  /\ UNCHANGED <<class, readersWaiting, call>>

----------------------------------------------------------------------------
Step(t) ==
  \/ ReaderWakes(t) \/ ReaderEnters(t) \/ ReaderRetries(t) \/ ReaderGivesUp(t)
  \/ WriterWakes(t) \/ WriterExpires(t) \/ WriterReturns(t)

Call(t) ==
  \/ ReleaseReaderLock(t) \/ AcquireWriterAgain(t) \/ UpgradeSoleReader(t)
  \/ ReleaseWriterLock(t) \/ ReleaseAllLocks(t) \/ DowngradeFromWriterLock(t)
  \/ \E timed \in BOOLEAN :
       \/ AcquireReaderLock(t, timed) \/ AcquireWriterLock(t, timed)
       \/ UpgradeReader(t, timed) \/ UpgradeToWriterLock(t, timed)

Next == \E t \in Threads : Step(t) \/ Call(t)

Spec == Init /\ [][Next]_vars

\* A thread that can run runs on, and one that holds the lock lets go of it in the end,
\* however often it takes it again in between.  Nothing makes a thread call the lock.
LetsGo(t) ==
  /\ ReleaseReaderLock(t) \/ ReleaseWriterLock(t) \/ ReleaseAllLocks(t)
  /\ held'[t] = NotHeld

Fairness ==
  \A t \in Threads : WF_vars(Step(t)) /\ SF_vars(LetsGo(t))

FairSpec == Spec /\ Fairness

----------------------------------------------------------------------------
\* A writer is alone: no other thread writes or reads while it does.  It takes a queue
\* that mixes readers, writers, upgrades and their timeouts to break it, since the
\* counters are tested in one critical section and the waits are outside of it.
Exclusion ==
  \A t, u \in Threads : t # u /\ Writing(t) => ~Writing(u) /\ ~Reading(u)

\* The assertion of the destructor, and more: once no thread holds the lock or is in
\* a call, the counters are zero and both events are closed, whatever timed out.
NothingLeftBehind ==
  (\A t \in Threads : Idle(t) /\ held[t] = NotHeld) =>
    /\ writers = 0 /\ readersEntered = 0 /\ readersWaiting = 0
    /\ readEvent = "none" /\ writeEvent = "none"

\* No wake-up is lost in the reentrant class: if nobody holds the lock, a writer in the
\* queue has its event set; if there is no writer at all, a reader that waits has.
NoLostWakeup ==
  class = "reentrant" =>
    /\ (\E t \in Threads : Queued(t)) /\ (\A t \in Threads : ~Reading(t) /\ ~Writing(t))
         => writeEvent = "set"
    /\ (\E t \in Threads : Asleep(t)) /\ writers = 0 => readEvent = "set"

\* ReaderWriterLock.h: new readers wait behind a writer that waits, which "helps
\* protect writers against indefinite blockage by readers".  In the reentrant class
\* a writer that waits without a timeout is followed by a thread that writes.
WritersGetIn ==
  (class = "reentrant" /\ \E t \in Threads : Queued(t) /\ ~call[t].timed)
    ~> \E t \in Threads : Writing(t)

\* Every call is one of what the header promises, step by step: none of them lets a
\* thread in that has to wait, keeps it in a queue it has left, or moves another thread.
Access == INSTANCE SharedAccess
            WITH reading <- Readers, writing <- Writers, waiting <- Queue
ImplementsSharedAccess == Access!Spec

=============================================================================
