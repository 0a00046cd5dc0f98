----------------------- MODULE ReaderWriterLockProofs -----------------------
(***************************************************************************)
(* For any number of threads and both classes of the lock: a writer is     *)
(* alone, nothing is left behind and no wake-up is lost.                   *)
(*                                                                         *)
(* The argument: the three counters count the threads that read, that      *)
(* write or queue, and that wait to read (Counted); what the events say    *)
(* follows from those sets (EventsTell).  A step moves one thread, so that *)
(* each set gains or loses that thread at most.                            *)
(***************************************************************************)
EXTENDS ReaderWriterLock, FiniteSetTheorems, TLAPS

Waiting(t) == call[t].pc \in {"readWait", "readWoken", "readExpired", "readLate"}

Line    == {t \in Threads : Writing(t) \/ Queued(t)}
Waiters == {t \in Threads : Waiting(t)}

Counted ==
  /\ readersEntered = Cardinality(Readers)
  /\ writers = Cardinality(Line)
  /\ readersWaiting = Cardinality(Waiters)

\* A thread in a call does not write, and holds the lock as a reader if that call is
\* an upgrade; the wait for that reader's part after a failed one has no timeout.
CallsOK ==
  \A t \in Threads : ~Idle(t) =>
    /\ held[t].w = 0 /\ (call[t].upgrade <=> held[t].r > 0)
    /\ Waiting(t) /\ call[t].upgrade => ~call[t].timed /\ call[t].pc \in {"readWait", "readWoken"}

EventsTell ==
  /\ writeEvent = "set" => \A t \in Threads : ~Reading(t) /\ ~Writing(t)
  /\ (\E t \in Threads : Queued(t)) => writeEvent # "none"
  /\ writers = 0 => writeEvent = "none"
  /\ readersWaiting = 0 <=> readEvent = "none"

IInv == TypeOK /\ Counted /\ CallsOK /\ EventsTell /\ Exclusion /\ NoLostWakeup

----------------------------------------------------------------------------
(* Counting threads.                                                        *)

One(b) == IF b THEN 1 ELSE 0

LEMMA Finite == ASSUME NEW S \in SUBSET Threads
                PROVE  IsFiniteSet(S) /\ Cardinality(S) \in Nat
BY LockAssumption, FS_Subset, FS_CardinalityType DEF LockAssumption

\* What a count of 0, of 1 and of another number says of a set of threads.
LEMMA Few ==
  ASSUME NEW S \in SUBSET Threads
  PROVE  /\ Cardinality(S) = 0 <=> S = {}
         /\ Cardinality(S) = 1 => \A t, u \in S : t = u
         /\ \A t \in S : Cardinality(S) # 1 => \E u \in S : u # t
<1>1. IsFiniteSet(S) /\ Cardinality(S) \in Nat
  BY Finite
<1>2. Cardinality(S) = 0 <=> S = {}
  BY <1>1, FS_EmptySet
<1>3. Cardinality(S) = 1 <=> \E x : S = {x}
  BY <1>1, FS_Singleton
<1>4. ASSUME NEW t \in S, Cardinality(S) # 1
      PROVE  \E u \in S : u # t
  <2>1. S # {t}
    BY <1>3, <1>4
  <2>. QED
    BY <2>1
<1>. QED
  BY <1>2, <1>3, <1>4

\* A set that gains or loses at most t.
LEMMA Moves ==
  ASSUME NEW S \in SUBSET Threads, NEW T \in SUBSET Threads, NEW t \in Threads,
         \A u \in Threads \ {t} : u \in T <=> u \in S
  PROVE  Cardinality(T) = Cardinality(S) + One(t \in T) - One(t \in S)
<1>1. IsFiniteSet(S) /\ Cardinality(S) \in Nat /\ IsFiniteSet(T) /\ Cardinality(T) \in Nat
  BY Finite
<1>2. CASE t \in T /\ t \notin S
  <2>1. T = S \cup {t}
    BY <1>2
  <2>. QED
    BY <1>1, <1>2, <2>1, FS_AddElement DEF One
<1>3. CASE t \notin T /\ t \in S
  <2>1. T = S \ {t}
    BY <1>3
  <2>. QED
    BY <1>1, <1>3, <2>1, FS_RemoveElement DEF One
<1>4. CASE t \in T <=> t \in S
  <2>1. T = S
    BY <1>4
  <2>. QED
    BY <1>1, <1>4, <2>1 DEF One
<1>. QED
  BY <1>2, <1>3, <1>4

\* Only thread t moves.
Alone(t) == \A u \in Threads \ {t} : held'[u] = held[u] /\ call'[u] = call[u]

\* How the counts of the next state follow.
LEMMA CountsMove ==
  ASSUME Counted, NEW t \in Threads, Alone(t),
         readersEntered' = readersEntered + One(Reading(t)') - One(Reading(t)),
         writers' = writers + One((Writing(t) \/ Queued(t))') - One(Writing(t) \/ Queued(t)),
         readersWaiting' = readersWaiting + One(Waiting(t)') - One(Waiting(t))
  PROVE  Counted'
<1>1. \A u \in Threads \ {t} : /\ Reading(u)' <=> Reading(u)
                               /\ (Writing(u) \/ Queued(u))' <=> Writing(u) \/ Queued(u)
                               /\ Waiting(u)' <=> Waiting(u)
  BY DEF Alone, Reading, Idle, Writing, Queued, Waiting
<1>2. Cardinality(Readers') = Cardinality(Readers) + One(t \in Readers') - One(t \in Readers)
  <2>. Readers \in SUBSET Threads /\ Readers' \in SUBSET Threads
    BY DEF Readers
  <2>. \A u \in Threads \ {t} : u \in Readers' <=> u \in Readers
    BY <1>1 DEF Readers
  <2>. QED
    BY Moves
<1>3. Cardinality(Line') = Cardinality(Line) + One(t \in Line') - One(t \in Line)
  <2>. Line \in SUBSET Threads /\ Line' \in SUBSET Threads
    BY DEF Line
  <2>. \A u \in Threads \ {t} : u \in Line' <=> u \in Line
    BY <1>1 DEF Line
  <2>. QED
    BY Moves
<1>4. Cardinality(Waiters') = Cardinality(Waiters) + One(t \in Waiters') - One(t \in Waiters)
  <2>. Waiters \in SUBSET Threads /\ Waiters' \in SUBSET Threads
    BY DEF Waiters
  <2>. \A u \in Threads \ {t} : u \in Waiters' <=> u \in Waiters
    BY <1>1 DEF Waiters
  <2>. QED
    BY Moves
<1>5. /\ t \in Readers <=> Reading(t)
      /\ t \in Readers' <=> Reading(t)'
      /\ t \in Line <=> Writing(t) \/ Queued(t)
      /\ t \in Line' <=> (Writing(t) \/ Queued(t))'
      /\ t \in Waiters <=> Waiting(t)
      /\ t \in Waiters' <=> Waiting(t)'
  BY DEF Readers, Line, Waiters
<1>. QED
  BY <1>2, <1>3, <1>4, <1>5 DEF Counted, One

\* What the counters tell a thread in the critical section of the others.
LEMMA CountersTell ==
  ASSUME Counted
  PROVE  /\ readersEntered \in Nat /\ writers \in Nat /\ readersWaiting \in Nat
         /\ readersEntered = 0 <=> \A t \in Threads : ~Reading(t)
         /\ writers = 0 <=> \A t \in Threads : ~Writing(t) /\ ~Queued(t)
         /\ readersWaiting = 0 <=> \A t \in Threads : ~Waiting(t)
         /\ \A t \in Threads : Reading(t) =>
              (readersEntered = 1 <=> \A u \in Threads \ {t} : ~Reading(u))
         /\ \A t \in Threads : Writing(t) \/ Queued(t) =>
              (writers = 1 <=> \A u \in Threads \ {t} : ~Writing(u) /\ ~Queued(u))
         /\ \A t \in Threads : Waiting(t) =>
              (readersWaiting = 1 <=> \A u \in Threads \ {t} : ~Waiting(u))
<1>1. Readers \in SUBSET Threads /\ Line \in SUBSET Threads /\ Waiters \in SUBSET Threads
  BY DEF Readers, Line, Waiters
<1>2. readersEntered \in Nat /\ writers \in Nat /\ readersWaiting \in Nat
  BY <1>1, Finite DEF Counted
<1>3. /\ Cardinality(Readers) = 0 <=> Readers = {}
      /\ Cardinality(Readers) = 1 => \A t, u \in Readers : t = u
      /\ \A t \in Readers : Cardinality(Readers) # 1 => \E u \in Readers : u # t
  BY <1>1, Few
<1>4. /\ Cardinality(Line) = 0 <=> Line = {}
      /\ Cardinality(Line) = 1 => \A t, u \in Line : t = u
      /\ \A t \in Line : Cardinality(Line) # 1 => \E u \in Line : u # t
  BY <1>1, Few
<1>5. /\ Cardinality(Waiters) = 0 <=> Waiters = {}
      /\ Cardinality(Waiters) = 1 => \A t, u \in Waiters : t = u
      /\ \A t \in Waiters : Cardinality(Waiters) # 1 => \E u \in Waiters : u # t
  BY <1>1, Few
<1>6. \A t \in Threads : /\ t \in Readers <=> Reading(t)
                         /\ t \in Line <=> Writing(t) \/ Queued(t)
                         /\ t \in Waiters <=> Waiting(t)
  BY DEF Readers, Line, Waiters
<1>. QED
  BY <1>1, <1>2, <1>3, <1>4, <1>5, <1>6 DEF Counted

----------------------------------------------------------------------------
(* The steps.  Each lemma has the roles of t before and after the step; the *)
(* last step of each then speaks of roles alone.                            *)

LEMMA Others ==
  ASSUME NEW t \in Threads, Alone(t), NEW u \in Threads, u # t
  PROVE  /\ Reading(u)' <=> Reading(u)
         /\ Writing(u)' <=> Writing(u)
         /\ Queued(u)' <=> Queued(u)
         /\ Waiting(u)' <=> Waiting(u)
         /\ Asleep(u)' <=> Asleep(u)
BY DEF Alone, Reading, Idle, Writing, Queued, Waiting, Asleep

CallRecord == [pc : Pcs, timed : BOOLEAN, upgrade : BOOLEAN]
HeldRecord == [r : 0..MaxRecurrence, w : 0..MaxRecurrence]

\* What a step does to the call of t, when it only moves on in it, and when it is another.
LEMMA CallGoesOn ==
  ASSUME TypeOK, NEW t \in Threads, NEW pc \in Pcs, call' = [call EXCEPT ![t].pc = pc]
  PROVE  /\ call' \in [Threads -> CallRecord]
         /\ \A u \in Threads \ {t} : call'[u] = call[u]
         /\ call'[t].pc = pc /\ call'[t].upgrade = call[t].upgrade /\ call'[t].timed = call[t].timed
<1>1. call \in [Threads -> CallRecord]
  BY DEF TypeOK, CallRecord
<1>2. /\ call'[t] = [call[t] EXCEPT !.pc = pc]
      /\ \A u \in Threads \ {t} : call'[u] = call[u]
      /\ DOMAIN call' = Threads
      /\ call' = [u \in Threads |-> call'[u]]
  BY <1>1
<1>3. /\ call'[t] \in CallRecord
      /\ call'[t].pc = pc /\ call'[t].upgrade = call[t].upgrade /\ call'[t].timed = call[t].timed
  BY <1>1, <1>2 DEF CallRecord
<1>4. \A u \in Threads : call'[u] \in CallRecord
  BY <1>1, <1>2, <1>3
<1>. QED
  BY <1>2, <1>3, <1>4

LEMMA CallChanges ==
  ASSUME TypeOK, NEW t \in Threads, NEW c \in CallRecord, call' = [call EXCEPT ![t] = c]
  PROVE  /\ call' \in [Threads -> CallRecord]
         /\ \A u \in Threads \ {t} : call'[u] = call[u]
         /\ call'[t] = c
BY DEF TypeOK, CallRecord

\* The same of what it holds.
LEMMA HeldChanges ==
  ASSUME TypeOK, NEW t \in Threads, NEW h \in HeldRecord, held' = [held EXCEPT ![t] = h]
  PROVE  /\ held' \in [Threads -> HeldRecord]
         /\ \A u \in Threads \ {t} : held'[u] = held[u]
         /\ held'[t] = h
BY DEF TypeOK, HeldRecord

LEMMA ReadsMore ==
  ASSUME TypeOK, NEW t \in Threads, NEW n \in 0..MaxRecurrence, held' = [held EXCEPT ![t].r = n]
  PROVE  /\ held' \in [Threads -> HeldRecord]
         /\ \A u \in Threads \ {t} : held'[u] = held[u]
         /\ held'[t].r = n /\ held'[t].w = held[t].w
<1>1. held \in [Threads -> HeldRecord]
  BY DEF TypeOK, HeldRecord
<1>2. /\ held'[t] = [held[t] EXCEPT !.r = n]
      /\ \A u \in Threads \ {t} : held'[u] = held[u]
      /\ held' = [u \in Threads |-> held'[u]]
  BY <1>1
<1>3. held'[t] \in HeldRecord /\ held'[t].r = n /\ held'[t].w = held[t].w
  BY <1>1, <1>2 DEF HeldRecord
<1>4. \A u \in Threads : held'[u] \in HeldRecord
  BY <1>1, <1>2, <1>3
<1>. QED
  BY <1>2, <1>3, <1>4

LEMMA WritesMore ==
  ASSUME TypeOK, NEW t \in Threads, NEW n \in 0..MaxRecurrence, held' = [held EXCEPT ![t].w = n]
  PROVE  /\ held' \in [Threads -> HeldRecord]
         /\ \A u \in Threads \ {t} : held'[u] = held[u]
         /\ held'[t].w = n /\ held'[t].r = held[t].r
<1>1. held \in [Threads -> HeldRecord]
  BY DEF TypeOK, HeldRecord
<1>2. /\ held'[t] = [held[t] EXCEPT !.w = n]
      /\ \A u \in Threads \ {t} : held'[u] = held[u]
      /\ held' = [u \in Threads |-> held'[u]]
  BY <1>1
<1>3. held'[t] \in HeldRecord /\ held'[t].w = n /\ held'[t].r = held[t].r
  BY <1>1, <1>2 DEF HeldRecord
<1>4. \A u \in Threads : held'[u] \in HeldRecord
  BY <1>1, <1>2, <1>3
<1>. QED
  BY <1>2, <1>3, <1>4

LEMMA ReaderWakesStep == ASSUME IInv, NEW t \in Threads, ReaderWakes(t) PROVE IInv'
<1>1. /\ TypeOK' /\ Alone(t) /\ held'[t] = held[t]
      /\ call[t].pc = "readWait" /\ call'[t].pc \in {"readWoken", "readExpired"}
      /\ call'[t].pc = "readExpired" => call[t].timed
      /\ call'[t].upgrade = call[t].upgrade /\ call'[t].timed = call[t].timed
      /\ UNCHANGED <<class, writers, readersEntered, readersWaiting, readEvent, writeEvent>>
  <2>1. PICK pc \in {"readWoken", "readExpired"} :
             (pc = "readExpired" => call[t].timed) /\ call' = [call EXCEPT ![t].pc = pc]
    BY DEF ReaderWakes
  <2>2. UNCHANGED <<class, writers, readersEntered, readersWaiting, readEvent, writeEvent, held>>
    BY DEF ReaderWakes, counters, events
  <2>. QED
    BY <2>1, <2>2, CallGoesOn DEF IInv, TypeOK, ReaderWakes, Alone, Pcs, CallRecord
<1>2. /\ ~Reading(t) /\ ~Writing(t) /\ ~Queued(t) /\ Waiting(t)
      /\ ~Reading(t)' /\ ~Writing(t)' /\ ~Queued(t)' /\ Waiting(t)' /\ ~Asleep(t)'
  BY <1>1 DEF IInv, CallsOK, Reading, Idle, Writing, Queued, Waiting, Asleep
<1>3. CallsOK'
  BY <1>1 DEF IInv, CallsOK, Alone, Idle, Waiting
<1>4. Counted'
  BY <1>1, <1>2, CountsMove, CountersTell DEF IInv, One
<1>5. EventsTell' /\ Exclusion' /\ NoLostWakeup'
  BY <1>1, <1>2, <1>4, Others, CountersTell DEF IInv, EventsTell, Exclusion, NoLostWakeup
<1>. QED
  BY <1>1, <1>3, <1>4, <1>5 DEF IInv

LEMMA ReaderRetriesStep == ASSUME IInv, NEW t \in Threads, ReaderRetries(t) PROVE IInv'
<1>1. /\ TypeOK' /\ Alone(t) /\ held'[t] = held[t]
      /\ call[t].pc = "readWoken" /\ call'[t].pc \in {"readWait", "readLate"}
      /\ call'[t].pc = "readLate" => call[t].timed
      /\ call'[t].upgrade = call[t].upgrade /\ call'[t].timed = call[t].timed
      /\ writers # 0
      /\ UNCHANGED <<class, writers, readersEntered, readersWaiting, readEvent, writeEvent>>
  <2>1. PICK pc \in {"readWait", "readLate"} :
             (pc = "readLate" => call[t].timed) /\ call' = [call EXCEPT ![t].pc = pc]
    BY DEF ReaderRetries
  <2>2. UNCHANGED <<class, writers, readersEntered, readersWaiting, readEvent, writeEvent, held>>
    BY DEF ReaderRetries, counters, events
  <2>. QED
    BY <2>1, <2>2, CallGoesOn DEF IInv, TypeOK, ReaderRetries, Alone, Pcs, CallRecord
<1>2. /\ ~Reading(t) /\ ~Writing(t) /\ ~Queued(t) /\ Waiting(t)
      /\ ~Reading(t)' /\ ~Writing(t)' /\ ~Queued(t)' /\ Waiting(t)'
  BY <1>1 DEF IInv, CallsOK, Reading, Idle, Writing, Queued, Waiting
<1>3. CallsOK'
  BY <1>1 DEF IInv, CallsOK, Alone, Idle, Waiting
<1>4. Counted'
  BY <1>1, <1>2, CountsMove, CountersTell DEF IInv, One
<1>5. EventsTell' /\ Exclusion' /\ NoLostWakeup'
  BY <1>1, <1>2, <1>4, Others, CountersTell DEF IInv, EventsTell, Exclusion, NoLostWakeup
<1>. QED
  BY <1>1, <1>3, <1>4, <1>5 DEF IInv

\* A reader leaves the queue of readers: the counter and the event of those behind it.
LEMMA QueueLeft ==
  ASSUME IInv, NEW t \in Threads, Waiting(t), LeaveReadQueue
  PROVE  /\ readersWaiting' \in Nat /\ readersWaiting' = readersWaiting - 1
         /\ readEvent' \in EventStates
         /\ readersWaiting' = 0 <=> readEvent' = "none"
         /\ (\E u \in Threads \ {t} : Asleep(u)) => readEvent' = readEvent
<1>1. readersWaiting \in Nat \ {0}
  BY CountersTell DEF IInv
<1>2. \A u \in Threads : Asleep(u) => Waiting(u)
  BY DEF Asleep, Waiting
<1>3. readersWaiting = 1 <=> \A u \in Threads \ {t} : ~Waiting(u)
  BY CountersTell DEF IInv
<1>. QED
  BY <1>1, <1>2, <1>3 DEF IInv, TypeOK, LeaveReadQueue, EventsTell, EventStates

LEMMA ReaderEntersStep == ASSUME IInv, NEW t \in Threads, ReaderEnters(t) PROVE IInv'
<1>. /\ Waiting(t) /\ LeaveReadQueue /\ writers = 0
     /\ call[t].pc \in {"readWoken", "readExpired"} /\ UNCHANGED <<class, writeEvent>>
  BY DEF ReaderEnters, Waiting
<1>a. TypeOK /\ held[t].w = 0 /\ (call[t].upgrade <=> held[t].r > 0)
  BY DEF IInv, CallsOK, Waiting, Idle
<1>b. ~Reading(t) /\ ~Writing(t) /\ ~Queued(t)
  BY <1>a DEF Reading, Idle, Writing, Queued
<1>c. CASE call[t].upgrade /\ readersEntered = 0
  <2>1. /\ writers' = 1 /\ readersEntered' = readersEntered
        /\ held' = held /\ call' = [call EXCEPT ![t].pc = "writeGranted"]
    BY <1>c DEF ReaderEnters
  <2>2. /\ TypeOK' /\ Alone(t) /\ held'[t] = held[t]
        /\ call'[t].pc = "writeGranted" /\ call'[t].upgrade = call[t].upgrade
    BY <1>a, <2>1, CallGoesOn, QueueLeft DEF TypeOK, Alone, Pcs, CallRecord
  <2>3. ~Reading(t)' /\ Writing(t)' /\ ~Queued(t)' /\ ~Waiting(t)' /\ ~Asleep(t)'
    BY <2>2 DEF Reading, Idle, Writing, Queued, Waiting, Asleep
  <2>4. CallsOK'
    BY <1>a, <2>2 DEF IInv, CallsOK, Alone, Idle, Waiting
  <2>5. Counted'
    BY <1>b, <2>1, <2>2, <2>3, CountsMove, CountersTell, QueueLeft DEF IInv, One
  <2>6. EventsTell' /\ Exclusion' /\ NoLostWakeup'
    BY <1>b, <1>c, <2>1, <2>2, <2>3, <2>5, Others, CountersTell, QueueLeft DEF IInv, EventsTell, Exclusion, NoLostWakeup
  <2>. QED
    BY <2>2, <2>4, <2>5, <2>6 DEF IInv
<1>d. CASE ~(call[t].upgrade /\ readersEntered = 0)
  <2>1. /\ writers' = writers /\ readersEntered' = readersEntered + 1
        /\ held' = [held EXCEPT ![t].r = IF call[t].upgrade THEN @ ELSE 1] /\ Return(t)
    BY <1>d DEF ReaderEnters
  <2>. DEFINE n == IF call[t].upgrade THEN held[t].r ELSE 1
  <2>2. /\ held' = [held EXCEPT ![t].r = n] /\ n \in 0..MaxRecurrence /\ n > 0
    BY <1>a, <2>1, LockAssumption DEF TypeOK, LockAssumption
  <2>. HIDE DEF n
  <2>3. /\ held' \in [Threads -> HeldRecord]
        /\ \A u \in Threads \ {t} : held'[u] = held[u]
        /\ held'[t].r > 0 /\ held'[t].w = 0
    BY <1>a, <2>2, ReadsMore
  <2>4. /\ TypeOK' /\ Alone(t) /\ call'[t].pc = "idle"
    BY <1>a, <2>1, <2>3, CallChanges, QueueLeft DEF Return, NoCall, TypeOK, Alone, Pcs, CallRecord, HeldRecord
  <2>5. Reading(t)' /\ ~Writing(t)' /\ ~Queued(t)' /\ ~Waiting(t)' /\ ~Asleep(t)'
    BY <2>3, <2>4 DEF Reading, Idle, Writing, Queued, Waiting, Asleep
  <2>6. CallsOK'
    BY <2>4 DEF IInv, CallsOK, Alone, Idle, Waiting
  <2>7. Counted'
    BY <1>b, <2>1, <2>4, <2>5, CountsMove, CountersTell, QueueLeft DEF IInv, One
  <2>8. EventsTell' /\ Exclusion' /\ NoLostWakeup'
    BY <1>b, <2>1, <2>4, <2>5, <2>7, Others, CountersTell, QueueLeft DEF IInv, EventsTell, Exclusion, NoLostWakeup
  <2>. QED
    BY <2>4, <2>6, <2>7, <2>8 DEF IInv
<1>. QED
  BY <1>c, <1>d

LEMMA ReaderGivesUpStep == ASSUME IInv, NEW t \in Threads, ReaderGivesUp(t) PROVE IInv'
<1>1. /\ Waiting(t) /\ LeaveReadQueue /\ call[t].pc \in {"readExpired", "readLate"}
      /\ UNCHANGED <<class, writers, readersEntered, writeEvent, held>>
      /\ call' = [call EXCEPT ![t] = NoCall]
  BY DEF ReaderGivesUp, Waiting, Return
<1>2. held[t].w = 0 /\ held[t].r = 0
  BY <1>1 DEF IInv, CallsOK, Idle, TypeOK
<1>3. TypeOK' /\ Alone(t) /\ call'[t].pc = "idle" /\ held'[t] = held[t]
  BY <1>1, CallChanges, QueueLeft DEF IInv, NoCall, TypeOK, Alone, Pcs, CallRecord
<1>4. /\ ~Reading(t) /\ ~Writing(t) /\ ~Queued(t)
      /\ ~Reading(t)' /\ ~Writing(t)' /\ ~Queued(t)' /\ ~Waiting(t)' /\ ~Asleep(t)'
  BY <1>1, <1>2, <1>3 DEF Reading, Idle, Writing, Queued, Waiting, Asleep
<1>5. CallsOK'
  BY <1>3 DEF IInv, CallsOK, Alone, Idle, Waiting
<1>6. Counted'
  BY <1>1, <1>3, <1>4, CountsMove, CountersTell, QueueLeft DEF IInv, One
<1>7. EventsTell' /\ Exclusion' /\ NoLostWakeup'
  BY <1>1, <1>3, <1>4, <1>6, Others, CountersTell, QueueLeft
     DEF IInv, EventsTell, Exclusion, NoLostWakeup
<1>. QED
  BY <1>3, <1>5, <1>6, <1>7 DEF IInv

LEMMA WriterWakesStep == ASSUME IInv, NEW t \in Threads, WriterWakes(t) PROVE IInv'
<1>1. /\ call[t].pc = "writeWait"
      /\ UNCHANGED <<class, writers, readersEntered, readersWaiting, readEvent, held>>
      /\ \/ /\ writeEvent = "set" /\ writeEvent' = "reset"
            /\ call' = [call EXCEPT ![t].pc = "writeGranted"]
         \/ writeEvent' = writeEvent /\ call' = [call EXCEPT ![t].pc = "writeExpired"]
  BY DEF WriterWakes, counters
<1>2. held[t].w = 0
  BY <1>1 DEF IInv, CallsOK, Idle
<1>3. /\ call' \in [Threads -> CallRecord] /\ Alone(t) /\ held'[t] = held[t]
      /\ call'[t].pc \in {"writeGranted", "writeExpired"} /\ call'[t].upgrade = call[t].upgrade
      /\ call'[t].pc = "writeGranted" => writeEvent = "set" /\ writeEvent' = "reset"
      /\ call'[t].pc = "writeExpired" => writeEvent' = writeEvent
  BY <1>1, CallGoesOn DEF IInv, Alone, Pcs
<1>4. TypeOK'
  BY <1>1, <1>3 DEF IInv, TypeOK, CallRecord, EventStates
<1>5. /\ ~Reading(t) /\ ~Writing(t) /\ Queued(t) /\ ~Waiting(t)
      /\ ~Reading(t)' /\ ~Waiting(t)' /\ ~Asleep(t)'
      /\ Writing(t)' <=> call'[t].pc = "writeGranted"
      /\ Queued(t)' <=> call'[t].pc = "writeExpired"
  BY <1>1, <1>2, <1>3 DEF IInv, TypeOK, Reading, Idle, Writing, Queued, Waiting, Asleep
<1>6. CallsOK'
  BY <1>3, <1>5, <1>1 DEF IInv, CallsOK, Alone, Idle, Waiting
<1>7. Counted'
  BY <1>1, <1>3, <1>5, CountsMove, CountersTell DEF IInv, One
<1>8. EventsTell' /\ Exclusion' /\ NoLostWakeup'
  BY <1>1, <1>3, <1>5, <1>7, Others, CountersTell DEF IInv, EventsTell, Exclusion, NoLostWakeup
<1>. QED
  BY <1>4, <1>6, <1>7, <1>8 DEF IInv

LEMMA WriterReturnsStep == ASSUME IInv, NEW t \in Threads, WriterReturns(t) PROVE IInv'
<1>1. /\ call[t].pc = "writeGranted" /\ call' = [call EXCEPT ![t] = NoCall]
      /\ UNCHANGED <<class, writers, readersEntered, readersWaiting, readEvent, writeEvent>>
  BY DEF WriterReturns, counters, events, Return
<1>. DEFINE h == [r |-> IF class = "bare" THEN 0 ELSE held[t].r, w |-> 1]
<1>2. held' = [held EXCEPT ![t] = h] /\ h \in HeldRecord /\ h.w = 1
  BY LockAssumption DEF WriterReturns, IInv, TypeOK, HeldRecord, LockAssumption
<1>. HIDE DEF h
<1>3. held' \in [Threads -> HeldRecord] /\ Alone(t) /\ held'[t].w = 1 /\ call'[t].pc = "idle"
  BY <1>1, <1>2, HeldChanges, CallChanges DEF IInv, Alone, NoCall, CallRecord, Pcs
<1>4. TypeOK'
  BY <1>1, <1>3, CallChanges DEF IInv, TypeOK, NoCall, CallRecord, HeldRecord, Pcs
<1>5. /\ ~Reading(t) /\ Writing(t) /\ ~Queued(t) /\ ~Waiting(t)
      /\ ~Reading(t)' /\ Writing(t)' /\ ~Queued(t)' /\ ~Waiting(t)' /\ ~Asleep(t)'
  BY <1>1, <1>3 DEF Reading, Idle, Writing, Queued, Waiting, Asleep
<1>6. CallsOK'
  BY <1>3 DEF IInv, CallsOK, Alone, Idle, Waiting
<1>7. Counted'
  BY <1>1, <1>3, <1>5, CountsMove, CountersTell DEF IInv, One
<1>8. EventsTell' /\ Exclusion' /\ NoLostWakeup'
  BY <1>1, <1>3, <1>5, <1>7, Others, CountersTell DEF IInv, EventsTell, Exclusion, NoLostWakeup
<1>. QED
  BY <1>4, <1>6, <1>7, <1>8 DEF IInv

LEMMA WriterExpiresStep == ASSUME IInv, NEW t \in Threads, WriterExpires(t) PROVE IInv'
<1>1. /\ call[t].pc = "writeExpired" /\ UNCHANGED <<class, held>> /\ TypeOK
      /\ held[t].w = 0 /\ held[t].r \in 0..MaxRecurrence /\ (call[t].upgrade <=> held[t].r > 0)
  BY DEF IInv, CallsOK, Idle, WriterExpires, TypeOK
<1>2. ~Reading(t) /\ ~Writing(t) /\ Queued(t) /\ ~Waiting(t) /\ writers > 0
  BY <1>1, CountersTell DEF IInv, Reading, Idle, Writing, Queued, Waiting
<1>3. CASE writers = 1 /\ readersEntered = 0
  <2>1. /\ writeEvent' = "none" /\ call' = [call EXCEPT ![t].pc = "writeGranted"]
        /\ UNCHANGED <<writers, readersEntered, readersWaiting, readEvent>>
    BY <1>3 DEF WriterExpires
  <2>2. /\ TypeOK' /\ Alone(t) /\ held'[t] = held[t]
        /\ call'[t].pc = "writeGranted" /\ call'[t].upgrade = call[t].upgrade
    BY <1>1, <2>1, CallGoesOn DEF TypeOK, Alone, Pcs, CallRecord, EventStates
  <2>3. ~Reading(t)' /\ Writing(t)' /\ ~Queued(t)' /\ ~Waiting(t)' /\ ~Asleep(t)'
    BY <1>1, <2>2 DEF Reading, Idle, Writing, Queued, Waiting, Asleep
  <2>4. CallsOK'
    BY <1>1, <2>2 DEF IInv, CallsOK, Alone, Idle, Waiting
  <2>5. Counted'
    BY <1>2, <2>1, <2>2, <2>3, CountsMove, CountersTell DEF IInv, One
  <2>6. EventsTell' /\ Exclusion' /\ NoLostWakeup'
    BY <1>1, <1>2, <1>3, <2>1, <2>2, <2>3, <2>5, Others, CountersTell
       DEF IInv, EventsTell, Exclusion, NoLostWakeup
  <2>. QED
    BY <2>2, <2>4, <2>5, <2>6 DEF IInv
<1>4. CASE writers = 1 /\ readersEntered # 0
  <2>1. /\ writeEvent' = "none" /\ writers' = 0 /\ readEvent' = SetIfAny(readEvent)
        /\ readersEntered' = IF call[t].upgrade THEN readersEntered + 1 ELSE readersEntered
        /\ call' = [call EXCEPT ![t] = NoCall] /\ UNCHANGED readersWaiting
    BY <1>4 DEF WriterExpires, Return
  <2>2. TypeOK' /\ Alone(t) /\ held'[t] = held[t] /\ call'[t].pc = "idle"
    BY <1>1, <2>1, CallChanges
       DEF TypeOK, Alone, NoCall, Pcs, CallRecord, EventStates, SetIfAny
  <2>3. /\ Reading(t)' <=> call[t].upgrade
        /\ ~Writing(t)' /\ ~Queued(t)' /\ ~Waiting(t)' /\ ~Asleep(t)'
    BY <1>1, <2>2 DEF Reading, Idle, Writing, Queued, Waiting, Asleep
  <2>4. CallsOK'
    BY <2>2 DEF IInv, CallsOK, Alone, Idle, Waiting
  <2>5. Counted'
    BY <1>2, <1>4, <2>1, <2>2, <2>3, CountsMove, CountersTell DEF IInv, One
  <2>6. \A u \in Threads : Asleep(u) => Waiting(u)
    BY DEF Asleep, Waiting
  <2>7. EventsTell' /\ Exclusion' /\ NoLostWakeup'
    BY <1>1, <1>2, <1>4, <2>1, <2>2, <2>3, <2>5, <2>6, Others, CountersTell
       DEF IInv, EventsTell, Exclusion, NoLostWakeup, SetIfAny
  <2>. QED
    BY <2>2, <2>4, <2>5, <2>7 DEF IInv
<1>5. CASE writers # 1 /\ call[t].upgrade
  <2>1. /\ writers' = writers - 1 /\ UNCHANGED <<readersEntered, writeEvent>>
        /\ readersWaiting' = readersWaiting + 1 /\ readEvent' = Created(readEvent)
        /\ call' = [call EXCEPT ![t] = [pc |-> "readWait", timed |-> FALSE, upgrade |-> TRUE]]
    BY <1>5 DEF WriterExpires, ReaderWait
  <2>2. /\ TypeOK' /\ Alone(t) /\ held'[t] = held[t]
        /\ call'[t] = [pc |-> "readWait", timed |-> FALSE, upgrade |-> TRUE]
    BY <1>1, <1>2, <2>1, CallChanges DEF TypeOK, Alone, Pcs, CallRecord, EventStates, Created
  <2>3. ~Reading(t)' /\ ~Writing(t)' /\ ~Queued(t)' /\ Waiting(t)'
    BY <1>1, <2>2 DEF Reading, Idle, Writing, Queued, Waiting
  <2>4. CallsOK'
    BY <1>1, <1>5, <2>2 DEF IInv, CallsOK, Alone, Idle, Waiting
  <2>5. Counted'
    BY <1>2, <2>1, <2>2, <2>3, CountsMove, CountersTell DEF IInv, One
  <2>6. EventsTell' /\ Exclusion' /\ NoLostWakeup'
    BY <1>1, <1>2, <1>5, <2>1, <2>2, <2>3, <2>5, Others, CountersTell
       DEF IInv, EventsTell, Exclusion, NoLostWakeup, Created
  <2>. QED
    BY <2>2, <2>4, <2>5, <2>6 DEF IInv
<1>6. CASE writers # 1 /\ ~call[t].upgrade
  <2>1. /\ writers' = writers - 1 /\ UNCHANGED <<readersEntered, writeEvent, readersWaiting, readEvent>>
        /\ call' = [call EXCEPT ![t] = NoCall]
    BY <1>6 DEF WriterExpires, Return
  <2>2. TypeOK' /\ Alone(t) /\ held'[t] = held[t] /\ call'[t].pc = "idle"
    BY <1>1, <1>2, <2>1, CallChanges DEF TypeOK, Alone, NoCall, Pcs, CallRecord
  <2>3. ~Reading(t)' /\ ~Writing(t)' /\ ~Queued(t)' /\ ~Waiting(t)' /\ ~Asleep(t)'
    BY <1>1, <1>6, <2>2 DEF Reading, Idle, Writing, Queued, Waiting, Asleep
  <2>4. CallsOK'
    BY <2>2 DEF IInv, CallsOK, Alone, Idle, Waiting
  <2>5. Counted'
    BY <1>2, <2>1, <2>2, <2>3, CountsMove, CountersTell DEF IInv, One
  <2>6. EventsTell' /\ Exclusion' /\ NoLostWakeup'
    BY <1>1, <1>2, <1>6, <2>1, <2>2, <2>3, <2>5, Others, CountersTell
       DEF IInv, EventsTell, Exclusion, NoLostWakeup
  <2>. QED
    BY <2>2, <2>4, <2>5, <2>6 DEF IInv
<1>. QED
  BY <1>3, <1>4, <1>5, <1>6

LEMMA NotHeldIs ==
  ASSUME NEW h \in HeldRecord
  PROVE  h = NotHeld <=> h.r = 0 /\ h.w = 0
BY DEF HeldRecord, NotHeld

LEMMA HeldIs ==
  ASSUME TypeOK, NEW t \in Threads
  PROVE  /\ held[t] \in HeldRecord /\ held[t].r \in 0..MaxRecurrence /\ held[t].w \in 0..MaxRecurrence
         /\ held[t] = NotHeld <=> held[t].r = 0 /\ held[t].w = 0
         /\ 1 \in 0..MaxRecurrence /\ NotHeld \in HeldRecord
BY NotHeldIs, LockAssumption DEF TypeOK, HeldRecord, LockAssumption, NotHeld

\* The part a call leaves alone when it only counts what the thread holds already.
LEMMA SameRole ==
  ASSUME IInv, NEW t \in Threads, Idle(t),
         UNCHANGED <<class, writers, readersEntered, readersWaiting, readEvent, writeEvent, call>>,
         held' \in [Threads -> HeldRecord], \A u \in Threads \ {t} : held'[u] = held[u],
         Reading(t)' <=> Reading(t), Writing(t)' <=> Writing(t)
  PROVE  IInv'
<1>1. TypeOK' /\ Alone(t) /\ Idle(t)'
  BY DEF IInv, TypeOK, HeldRecord, Alone, Idle
<1>2. /\ ~Queued(t) /\ ~Waiting(t) /\ ~Asleep(t)
      /\ ~Queued(t)' /\ ~Waiting(t)' /\ ~Asleep(t)'
  BY <1>1 DEF Idle, Queued, Waiting, Asleep
<1>3. CallsOK'
  BY <1>1 DEF IInv, CallsOK, Alone, Idle, Waiting
<1>4. Counted'
  BY <1>1, <1>2, CountsMove, CountersTell DEF IInv, One
<1>5. EventsTell' /\ Exclusion' /\ NoLostWakeup'
  BY <1>1, <1>2, <1>4, Others, CountersTell DEF IInv, EventsTell, Exclusion, NoLostWakeup
<1>. QED
  BY <1>1, <1>3, <1>4, <1>5 DEF IInv

LEMMA AcquireReaderLockStep ==
  ASSUME IInv, NEW t \in Threads, NEW timed \in BOOLEAN, AcquireReaderLock(t, timed)
  PROVE  IInv'
<1>1. TypeOK /\ Idle(t) /\ UNCHANGED class
  BY DEF IInv, AcquireReaderLock
<1>2. /\ held[t].r \in 0..MaxRecurrence /\ held[t].w \in 0..MaxRecurrence
      /\ held[t] = NotHeld <=> held[t].r = 0 /\ held[t].w = 0
      /\ 1 \in 0..MaxRecurrence
  BY <1>1, HeldIs
<1>3. CASE held[t] # NotHeld
  <2>1. /\ UNCHANGED <<writers, readersEntered, readersWaiting, readEvent, writeEvent, call>>
        /\ held[t].r < MaxRecurrence /\ held' = [held EXCEPT ![t].r = held[t].r + 1]
    BY <1>3 DEF AcquireReaderLock, counters, events
  <2>2. held[t].r + 1 \in 0..MaxRecurrence
    BY <1>2, <2>1, LockAssumption DEF LockAssumption
  <2>. DEFINE n == held[t].r + 1
  <2>3. n \in 0..MaxRecurrence /\ held' = [held EXCEPT ![t].r = n] /\ n > 0
    BY <1>2, <2>1, <2>2
  <2>. HIDE DEF n
  <2>4. /\ held' \in [Threads -> HeldRecord] /\ \A u \in Threads \ {t} : held'[u] = held[u]
        /\ held'[t].r > 0 /\ held'[t].w = held[t].w
    BY <1>1, <2>3, ReadsMore
  <2>5. (Reading(t)' <=> Reading(t)) /\ (Writing(t)' <=> Writing(t))
    BY <1>2, <1>3, <2>1, <2>4 DEF Reading, Idle, Writing
  <2>. QED
    BY <1>1, <2>1, <2>4, <2>5, SameRole
<1>4. CASE held[t] = NotHeld /\ writers = 0
  <2>1. /\ readersEntered' = readersEntered + 1 /\ held' = [held EXCEPT ![t].r = 1]
        /\ UNCHANGED <<writers, readersWaiting, readEvent, writeEvent, call>>
    BY <1>4 DEF AcquireReaderLock, events
  <2>2. /\ held' \in [Threads -> HeldRecord] /\ Alone(t)
        /\ held'[t].r = 1 /\ held'[t].w = held[t].w
    BY <1>1, <1>2, <2>1, ReadsMore DEF Alone
  <2>3. TypeOK' /\ Idle(t)'
    BY <1>1, <2>1, <2>2 DEF TypeOK, HeldRecord, Idle
  <2>4. /\ ~Reading(t) /\ ~Writing(t) /\ ~Queued(t) /\ ~Waiting(t) /\ ~Asleep(t)
        /\ Reading(t)' /\ ~Writing(t)' /\ ~Queued(t)' /\ ~Waiting(t)' /\ ~Asleep(t)'
    BY <1>1, <1>2, <1>4, <2>2, <2>3 DEF Reading, Idle, Writing, Queued, Waiting, Asleep
  <2>5. CallsOK'
    BY <2>2, <2>3 DEF IInv, CallsOK, Alone, Idle, Waiting
  <2>6. Counted'
    BY <2>1, <2>2, <2>4, CountsMove, CountersTell DEF IInv, One
  <2>7. EventsTell' /\ Exclusion' /\ NoLostWakeup'
    BY <1>1, <1>4, <2>1, <2>2, <2>4, <2>6, Others, CountersTell
       DEF IInv, EventsTell, Exclusion, NoLostWakeup
  <2>. QED
    BY <2>3, <2>5, <2>6, <2>7 DEF IInv
<1>5. CASE held[t] = NotHeld /\ writers # 0
  <2>1. /\ readersWaiting' = readersWaiting + 1 /\ readEvent' = Created(readEvent)
        /\ call' = [call EXCEPT ![t] = [pc |-> "readWait", timed |-> timed, upgrade |-> FALSE]]
        /\ UNCHANGED <<writers, readersEntered, writeEvent, held>>
    BY <1>5 DEF AcquireReaderLock, ReaderWait
  <2>2. /\ TypeOK' /\ Alone(t) /\ held'[t] = held[t]
        /\ call'[t].pc = "readWait" /\ call'[t].upgrade = FALSE
    BY <1>1, <2>1, CallChanges DEF TypeOK, Alone, Pcs, CallRecord, EventStates, Created
  <2>3. /\ ~Reading(t) /\ ~Writing(t) /\ ~Queued(t) /\ ~Waiting(t)
        /\ ~Reading(t)' /\ ~Writing(t)' /\ ~Queued(t)' /\ Waiting(t)'
    BY <1>1, <1>2, <1>5, <2>2 DEF Reading, Idle, Writing, Queued, Waiting
  <2>4. CallsOK'
    BY <1>2, <1>5, <2>2 DEF IInv, CallsOK, Alone, Idle, Waiting
  <2>5. Counted'
    BY <2>1, <2>2, <2>3, CountsMove, CountersTell DEF IInv, One
  <2>6. EventsTell' /\ Exclusion' /\ NoLostWakeup'
    BY <1>1, <1>5, <2>1, <2>2, <2>3, <2>5, Others, CountersTell
       DEF IInv, EventsTell, Exclusion, NoLostWakeup, Created
  <2>. QED
    BY <2>2, <2>4, <2>5, <2>6 DEF IInv
<1>. QED
  BY <1>3, <1>4, <1>5

\* The last hold of a reader is gone.
LEMMA ReaderReleased ==
  ASSUME IInv, NEW t \in Threads, Reading(t), ReaderRelease,
         UNCHANGED <<class, readersWaiting, call>>,
         held' \in [Threads -> HeldRecord], \A u \in Threads \ {t} : held'[u] = held[u],
         held'[t] = NotHeld
  PROVE  IInv'
<1>1. /\ readersEntered' = readersEntered - 1 /\ readersEntered > 0
      /\ UNCHANGED <<writers, readEvent>>
      /\ writeEvent' = IF readersEntered = 1 THEN SetIfAny(writeEvent) ELSE writeEvent
  BY CountersTell DEF IInv, ReaderRelease
<1>2. TypeOK' /\ Alone(t) /\ Idle(t)'
  BY <1>1, CountersTell DEF IInv, TypeOK, HeldRecord, Alone, Reading, Idle, EventStates, SetIfAny
<1>3. /\ ~Writing(t) /\ ~Queued(t) /\ ~Waiting(t) /\ ~Asleep(t)
      /\ ~Reading(t)' /\ ~Writing(t)' /\ ~Queued(t)' /\ ~Waiting(t)' /\ ~Asleep(t)'
  BY <1>2 DEF IInv, TypeOK, Reading, Idle, Writing, Queued, Waiting, Asleep, NotHeld
<1>4. CallsOK'
  BY <1>2 DEF IInv, CallsOK, Alone, Idle, Waiting
<1>5. Counted'
  BY <1>1, <1>2, <1>3, CountsMove, CountersTell DEF IInv, One
<1>6. EventsTell' /\ Exclusion' /\ NoLostWakeup'
  BY <1>1, <1>2, <1>3, <1>5, Others, CountersTell DEF IInv, EventsTell, Exclusion, NoLostWakeup, SetIfAny
<1>. QED
  BY <1>2, <1>4, <1>5, <1>6 DEF IInv

\* The last hold of a writer is gone; it stays a reader, or not.
LEMMA WriterReleased ==
  ASSUME IInv, NEW t \in Threads, Idle(t), Writing(t), NEW downgrade \in BOOLEAN,
         WriterRelease(downgrade), UNCHANGED <<class, readersWaiting, call>>,
         held' \in [Threads -> HeldRecord], \A u \in Threads \ {t} : held'[u] = held[u],
         held'[t].w = 0, downgrade <=> held'[t].r > 0
  PROVE  IInv'
<1>1. /\ writers' = writers - 1 /\ writers > 0
      /\ readersEntered' = IF downgrade THEN readersEntered + 1 ELSE readersEntered
      /\ writers = 1 => writeEvent' = "none" /\ readEvent' = SetIfAny(readEvent)
      /\ writers # 1 => /\ writeEvent' = IF downgrade THEN writeEvent ELSE "set"
                        /\ UNCHANGED readEvent
  BY CountersTell DEF IInv, WriterRelease
<1>2. TypeOK' /\ Alone(t) /\ Idle(t)'
  BY <1>1, CountersTell DEF IInv, TypeOK, HeldRecord, Alone, Idle, EventStates, SetIfAny
<1>3. /\ ~Reading(t) /\ ~Queued(t) /\ ~Waiting(t) /\ ~Asleep(t)
      /\ Reading(t)' <=> downgrade
      /\ ~Writing(t)' /\ ~Queued(t)' /\ ~Waiting(t)' /\ ~Asleep(t)'
  BY <1>2 DEF IInv, TypeOK, Reading, Idle, Writing, Queued, Waiting, Asleep
<1>4. CallsOK'
  BY <1>2 DEF IInv, CallsOK, Alone, Idle, Waiting
<1>5. Counted'
  BY <1>1, <1>2, <1>3, CountsMove, CountersTell DEF IInv, One
<1>6. \A u \in Threads : Asleep(u) => Waiting(u)
  BY DEF Asleep, Waiting
<1>7. EventsTell' /\ Exclusion' /\ NoLostWakeup'
  BY <1>1, <1>2, <1>3, <1>5, <1>6, Others, CountersTell
     DEF IInv, EventsTell, Exclusion, NoLostWakeup, SetIfAny
<1>. QED
  BY <1>2, <1>4, <1>5, <1>7 DEF IInv

LEMMA ReleaseReaderLockStep ==
  ASSUME IInv, NEW t \in Threads, ReleaseReaderLock(t) PROVE IInv'
<1>1. /\ TypeOK /\ Idle(t) /\ UNCHANGED <<class, readersWaiting, call>> /\ held[t].r > 0
  BY DEF IInv, ReleaseReaderLock
<1>. DEFINE n == held[t].r - 1
<1>2. n \in 0..MaxRecurrence /\ held' = [held EXCEPT ![t].r = n] /\ n < held[t].r
  BY <1>1, HeldIs, LockAssumption DEF ReleaseReaderLock, LockAssumption
<1>3. /\ held' \in [Threads -> HeldRecord] /\ \A u \in Threads \ {t} : held'[u] = held[u]
      /\ held'[t].r = n /\ held'[t].w = held[t].w
  <2>. HIDE DEF n
  <2>. QED
    BY <1>1, <1>2, ReadsMore
<1>4. /\ held'[t] = NotHeld <=> held'[t].r = 0 /\ held'[t].w = 0
      /\ held[t].w \in Nat /\ held[t].r \in Nat
  BY <1>1, <1>3, HeldIs, NotHeldIs
<1>5. CASE held'[t] = NotHeld
  <2>1. Reading(t)
    BY <1>1, <1>3, <1>4, <1>5 DEF Reading
  <2>2. ReaderRelease
    BY <1>5 DEF ReleaseReaderLock
  <2>. QED
    BY <1>1, <1>3, <1>5, <2>1, <2>2, ReaderReleased
<1>6. CASE held'[t] # NotHeld
  <2>1. UNCHANGED <<writers, readersEntered, readEvent, writeEvent>>
    BY <1>6 DEF ReleaseReaderLock, events
  <2>2. Idle(t)'
    BY <1>1 DEF Idle
  <2>3. (Reading(t)' <=> Reading(t)) /\ (Writing(t)' <=> Writing(t))
    BY <1>1, <1>3, <1>4, <1>6, <2>2 DEF Reading, Writing
  <2>. QED
    BY <1>1, <1>3, <2>1, <2>3, SameRole
<1>. QED
  BY <1>5, <1>6

LEMMA AcquireWriterAgainStep ==
  ASSUME IInv, NEW t \in Threads, AcquireWriterAgain(t) PROVE IInv'
<1>. DEFINE n == held[t].w + 1
<1>1. /\ TypeOK /\ Idle(t)
      /\ UNCHANGED <<class, writers, readersEntered, readersWaiting, readEvent, writeEvent, call>>
      /\ held[t].w > 0 /\ n > 0 /\ n \in 0..MaxRecurrence /\ held' = [held EXCEPT ![t].w = n]
  BY HeldIs, LockAssumption DEF IInv, AcquireWriterAgain, counters, events, LockAssumption
<1>2. /\ held' \in [Threads -> HeldRecord] /\ \A u \in Threads \ {t} : held'[u] = held[u]
      /\ held'[t].w > 0
  <2>. HIDE DEF n
  <2>. QED
    BY <1>1, WritesMore
<1>3. (Reading(t)' <=> Reading(t)) /\ (Writing(t)' <=> Writing(t))
  BY <1>1, <1>2, HeldIs DEF Reading, Writing
<1>. QED
  BY <1>1, <1>2, <1>3, SameRole

LEMMA UpgradeSoleReaderStep ==
  ASSUME IInv, NEW t \in Threads, UpgradeSoleReader(t) PROVE IInv'
<1>1. /\ TypeOK /\ Reading(t) /\ readersEntered = 1 /\ readersEntered' = 0
      /\ writers' = writers + 1 /\ held' = [held EXCEPT ![t].w = 1]
      /\ UNCHANGED <<class, readersWaiting, readEvent, writeEvent, call>>
  BY DEF IInv, UpgradeSoleReader, events
<1>2. /\ held' \in [Threads -> HeldRecord] /\ Alone(t) /\ held'[t].w = 1
  BY <1>1, HeldIs, WritesMore DEF Alone
<1>3. TypeOK' /\ Idle(t)'
  BY <1>1, <1>2 DEF TypeOK, HeldRecord, Reading, Idle
<1>4. /\ ~Writing(t) /\ ~Queued(t) /\ ~Waiting(t) /\ ~Asleep(t)
      /\ ~Reading(t)' /\ Writing(t)' /\ ~Queued(t)' /\ ~Waiting(t)' /\ ~Asleep(t)'
  BY <1>1, <1>2, <1>3 DEF Reading, Idle, Writing, Queued, Waiting, Asleep
<1>5. CallsOK'
  BY <1>2, <1>3 DEF IInv, CallsOK, Alone, Idle, Waiting
<1>6. Counted'
  BY <1>1, <1>2, <1>4, CountsMove, CountersTell DEF IInv, One
<1>7. EventsTell' /\ Exclusion' /\ NoLostWakeup'
  BY <1>1, <1>2, <1>4, <1>6, Others, CountersTell DEF IInv, EventsTell, Exclusion, NoLostWakeup
<1>. QED
  BY <1>3, <1>5, <1>6, <1>7 DEF IInv

LEMMA UpgradeStep ==
  ASSUME IInv, NEW t \in Threads, NEW timed \in BOOLEAN, Reading(t), Upgrade(t, timed),
         readersEntered # 1 \/ class = "bare"
  PROVE  IInv'
<1>1. /\ TypeOK /\ readersEntered' = readersEntered - 1 /\ readersEntered > 0
      /\ writers' = writers + 1 /\ writeEvent' = Created(writeEvent)
      /\ readEvent' = IF writers = 0 /\ readEvent # "none" THEN "reset" ELSE readEvent
      /\ call' = [call EXCEPT ![t] = [pc |-> "writeWait", timed |-> timed, upgrade |-> TRUE]]
      /\ UNCHANGED <<class, readersWaiting, held>>
  BY CountersTell DEF IInv, Upgrade, WriterWait
<1>2. /\ TypeOK' /\ Alone(t) /\ held'[t] = held[t]
      /\ call'[t].pc = "writeWait" /\ call'[t].upgrade = TRUE
  BY <1>1, CountersTell, CallChanges DEF IInv, TypeOK, Alone, Pcs, CallRecord, EventStates, Created
<1>3. /\ ~Writing(t) /\ ~Queued(t) /\ ~Waiting(t) /\ ~Asleep(t)
      /\ ~Reading(t)' /\ ~Writing(t)' /\ Queued(t)' /\ ~Waiting(t)' /\ ~Asleep(t)'
  BY <1>1, <1>2 DEF Reading, Idle, Writing, Queued, Waiting, Asleep
<1>4. CallsOK'
  BY <1>2 DEF IInv, CallsOK, Alone, Idle, Waiting, Reading
<1>5. Counted'
  BY <1>1, <1>2, <1>3, CountsMove, CountersTell DEF IInv, One
<1>6. EventsTell' /\ Exclusion' /\ NoLostWakeup'
  BY <1>1, <1>2, <1>3, <1>5, Others, CountersTell
     DEF IInv, EventsTell, Exclusion, NoLostWakeup, Created
<1>. QED
  BY <1>2, <1>4, <1>5, <1>6 DEF IInv

LEMMA AcquireWriterLockStep ==
  ASSUME IInv, NEW t \in Threads, NEW timed \in BOOLEAN, AcquireWriterLock(t, timed)
  PROVE  IInv'
<1>1. /\ TypeOK /\ Idle(t) /\ UNCHANGED <<class, readersWaiting>>
      /\ held[t].r = 0 /\ held[t].w = 0
  BY HeldIs DEF IInv, AcquireWriterLock
<1>2. ~Reading(t) /\ ~Writing(t) /\ ~Queued(t) /\ ~Waiting(t) /\ ~Asleep(t)
  BY <1>1 DEF Reading, Idle, Writing, Queued, Waiting, Asleep
<1>3. CASE writers = 0 /\ readersEntered = 0
  <2>1. /\ writers' = 1 /\ held' = [held EXCEPT ![t].w = 1]
        /\ UNCHANGED <<readersEntered, readEvent, writeEvent, call>>
    BY <1>3 DEF AcquireWriterLock, events
  <2>2. /\ held' \in [Threads -> HeldRecord] /\ Alone(t) /\ held'[t].w = 1
    BY <1>1, <2>1, HeldIs, WritesMore DEF Alone
  <2>3. TypeOK' /\ Idle(t)'
    BY <1>1, <2>1, <2>2 DEF TypeOK, HeldRecord, Idle
  <2>4. ~Reading(t)' /\ Writing(t)' /\ ~Queued(t)' /\ ~Waiting(t)' /\ ~Asleep(t)'
    BY <2>2, <2>3 DEF Reading, Idle, Writing, Queued, Waiting, Asleep
  <2>5. CallsOK'
    BY <2>2, <2>3 DEF IInv, CallsOK, Alone, Idle, Waiting
  <2>6. Counted'
    BY <1>1, <1>2, <1>3, <2>1, <2>2, <2>4, CountsMove, CountersTell DEF IInv, One
  <2>7. EventsTell' /\ Exclusion' /\ NoLostWakeup'
    BY <1>1, <1>2, <1>3, <2>1, <2>2, <2>4, <2>6, Others, CountersTell
       DEF IInv, EventsTell, Exclusion, NoLostWakeup
  <2>. QED
    BY <2>3, <2>5, <2>6, <2>7 DEF IInv
<1>4. CASE ~(writers = 0 /\ readersEntered = 0)
  <2>1. /\ writers' = writers + 1 /\ writeEvent' = Created(writeEvent)
        /\ readEvent' = IF writers = 0 /\ readEvent # "none" THEN "reset" ELSE readEvent
        /\ call' = [call EXCEPT ![t] = [pc |-> "writeWait", timed |-> timed, upgrade |-> FALSE]]
        /\ UNCHANGED <<readersEntered, held>>
    BY <1>4 DEF AcquireWriterLock, WriterWait
  <2>2. /\ TypeOK' /\ Alone(t) /\ held'[t] = held[t]
        /\ call'[t].pc = "writeWait" /\ call'[t].upgrade = FALSE
    BY <1>1, <2>1, CallChanges DEF TypeOK, Alone, Pcs, CallRecord, EventStates, Created
  <2>3. ~Reading(t)' /\ ~Writing(t)' /\ Queued(t)' /\ ~Waiting(t)' /\ ~Asleep(t)'
    BY <1>1, <2>2 DEF Reading, Idle, Writing, Queued, Waiting, Asleep
  <2>4. CallsOK'
    BY <1>1, <2>2 DEF IInv, CallsOK, Alone, Idle, Waiting
  <2>5. Counted'
    BY <1>1, <1>2, <2>1, <2>2, <2>3, CountsMove, CountersTell DEF IInv, One
  <2>6. EventsTell' /\ Exclusion' /\ NoLostWakeup'
    BY <1>1, <1>2, <1>4, <2>1, <2>2, <2>3, <2>5, Others, CountersTell
       DEF IInv, EventsTell, Exclusion, NoLostWakeup, Created
  <2>. QED
    BY <2>2, <2>4, <2>5, <2>6 DEF IInv
<1>. QED
  BY <1>3, <1>4

LEMMA ReleaseWriterLockStep ==
  ASSUME IInv, NEW t \in Threads, ReleaseWriterLock(t) PROVE IInv'
<1>1. /\ TypeOK /\ Idle(t) /\ UNCHANGED <<class, readersWaiting, call>> /\ held[t].w > 0
      /\ Writing(t)
  BY DEF IInv, ReleaseWriterLock, Writing
<1>. DEFINE n == held[t].w - 1
<1>2. n \in 0..MaxRecurrence /\ held' = [held EXCEPT ![t].w = n]
  BY <1>1, HeldIs, LockAssumption DEF ReleaseWriterLock, LockAssumption
<1>3. /\ held' \in [Threads -> HeldRecord] /\ \A u \in Threads \ {t} : held'[u] = held[u]
      /\ held'[t].w \in 0..MaxRecurrence /\ held'[t].r = held[t].r
  <2>. HIDE DEF n
  <2>. QED
    BY <1>1, <1>2, WritesMore
<1>4. CASE held'[t].w = 0
  <2>1. CASE held[t].r > 0
    <3>1. WriterRelease(TRUE)
      BY <1>4, <2>1 DEF ReleaseWriterLock, WriterRelease
    <3>. QED
      BY <1>1, <1>3, <1>4, <2>1, <3>1, WriterReleased
  <2>2. CASE ~(held[t].r > 0)
    <3>1. WriterRelease(FALSE)
      BY <1>4, <2>2 DEF ReleaseWriterLock, WriterRelease
    <3>. QED
      BY <1>1, <1>3, <1>4, <2>2, <3>1, WriterReleased
  <2>. QED
    BY <2>1, <2>2
<1>5. CASE held'[t].w # 0
  <2>1. UNCHANGED <<writers, readersEntered, readEvent, writeEvent>>
    BY <1>5 DEF ReleaseWriterLock, events
  <2>2. held[t].w \in Nat /\ held'[t].w > 0
    BY <1>1, <1>3, <1>5, HeldIs, LockAssumption DEF LockAssumption
  <2>3. (Reading(t)' <=> Reading(t)) /\ (Writing(t)' <=> Writing(t))
    BY <1>1, <2>2 DEF Reading, Writing
  <2>. QED
    BY <1>1, <1>3, <2>1, <2>3, SameRole
<1>. QED
  BY <1>4, <1>5

LEMMA ReleaseAllLocksStep ==
  ASSUME IInv, NEW t \in Threads, ReleaseAllLocks(t) PROVE IInv'
<1>1. /\ TypeOK /\ Idle(t) /\ UNCHANGED <<class, readersWaiting, call>>
      /\ held[t] # NotHeld /\ held' = [held EXCEPT ![t] = NotHeld]
  BY DEF IInv, ReleaseAllLocks
<1>2. /\ held' \in [Threads -> HeldRecord] /\ \A u \in Threads \ {t} : held'[u] = held[u]
      /\ held'[t] = NotHeld /\ held'[t].w = 0 /\ ~(held'[t].r > 0)
  <2>1. /\ held' \in [Threads -> HeldRecord] /\ \A u \in Threads \ {t} : held'[u] = held[u]
        /\ held'[t] = NotHeld
    BY <1>1, HeldIs, HeldChanges
  <2>. QED
    BY <2>1 DEF NotHeld
<1>3. CASE held[t].w > 0
  <2>1. WriterRelease(FALSE) /\ Writing(t)
    BY <1>3 DEF ReleaseAllLocks, Writing
  <2>. QED
    BY <1>1, <1>2, <2>1, WriterReleased
<1>4. CASE ~(held[t].w > 0)
  <2>1. ReaderRelease
    BY <1>4 DEF ReleaseAllLocks
  <2>2. Reading(t)
    BY <1>1, <1>4, HeldIs DEF Reading
  <2>. QED
    BY <1>1, <1>2, <2>1, <2>2, ReaderReleased
<1>. QED
  BY <1>3, <1>4

LEMMA DowngradeStep ==
  ASSUME IInv, NEW t \in Threads, DowngradeFromWriterLock(t) PROVE IInv'
<1>. DEFINE h == [r |-> 1, w |-> 0]
<1>1. /\ TypeOK /\ Idle(t) /\ UNCHANGED <<class, readersWaiting, call>> /\ Writing(t)
      /\ held' = [held EXCEPT ![t] = h] /\ WriterRelease(TRUE)
  BY DEF IInv, DowngradeFromWriterLock, Writing
<1>2. h \in HeldRecord /\ h.r > 0 /\ h.w = 0
  BY LockAssumption DEF HeldRecord, LockAssumption
<1>3. /\ held' \in [Threads -> HeldRecord] /\ \A u \in Threads \ {t} : held'[u] = held[u]
      /\ held'[t].w = 0 /\ held'[t].r > 0
  <2>. HIDE DEF h
  <2>. QED
    BY <1>1, <1>2, HeldChanges
<1>. QED
  BY <1>1, <1>3, WriterReleased

----------------------------------------------------------------------------
LEMMA InitIInv == Init => IInv
<1>. SUFFICES ASSUME Init PROVE IInv
  OBVIOUS
<1>1. \A t \in Threads : ~Reading(t) /\ ~Writing(t) /\ ~Queued(t) /\ ~Waiting(t) /\ ~Asleep(t) /\ Idle(t)
  BY DEF Init, NotHeld, NoCall, Reading, Idle, Writing, Queued, Waiting, Asleep
<1>2. TypeOK
  BY LockAssumption DEF Init, TypeOK, NotHeld, NoCall, Pcs, EventStates, LockAssumption
<1>3. Readers = {} /\ Line = {} /\ Waiters = {}
  BY <1>1 DEF Readers, Line, Waiters
<1>4. Counted
  BY <1>3, FS_EmptySet DEF Init, Counted
<1>. QED
  BY <1>1, <1>2, <1>4 DEF Init, IInv, CallsOK, EventsTell, Exclusion, NoLostWakeup

LEMMA NextIInv == IInv /\ [Next]_vars => IInv'
<1>. SUFFICES ASSUME IInv, [Next]_vars PROVE IInv'
  OBVIOUS
<1>1. CASE UNCHANGED vars
  <2>1. UNCHANGED <<class, writers, readersEntered, readersWaiting, readEvent, writeEvent, held, call>>
    BY <1>1 DEF vars, counters, events
  <2>. QED
    BY <2>1 DEF IInv, TypeOK, Counted, Readers, Line, Waiters, CallsOK, EventsTell, Exclusion,
                NoLostWakeup, Reading, Idle, Writing, Queued, Waiting, Asleep
<1>2. ASSUME NEW t \in Threads, Step(t)
      PROVE  IInv'
  BY <1>2, ReaderWakesStep, ReaderEntersStep, ReaderRetriesStep, ReaderGivesUpStep,
     WriterWakesStep, WriterExpiresStep, WriterReturnsStep DEF Step
<1>3. ASSUME NEW t \in Threads, Call(t)
      PROVE  IInv'
  <2>1. ASSUME NEW timed \in BOOLEAN,
               UpgradeReader(t, timed) \/ UpgradeToWriterLock(t, timed)
        PROVE  IInv'
    BY <2>1, UpgradeStep DEF UpgradeReader, UpgradeToWriterLock
  <2>. QED
    BY <1>3, <2>1, ReleaseReaderLockStep, AcquireWriterAgainStep, UpgradeSoleReaderStep,
       ReleaseWriterLockStep, ReleaseAllLocksStep, DowngradeStep, AcquireReaderLockStep,
       AcquireWriterLockStep DEF Call
<1>. QED
  BY <1>1, <1>2, <1>3 DEF Next

LEMMA Invariance == Spec => []IInv
<1>. QED
  BY InitIInv, NextIInv, PTL DEF Spec

\* Every variable of the lock keeps its type: no counter goes below zero.
THEOREM TypeCorrect == Spec => []TypeOK
<1>1. IInv => TypeOK
  BY DEF IInv
<1>. QED
  BY <1>1, Invariance, PTL

\* No other thread reads or writes while a thread writes, whatever the threads do.
THEOREM ExclusionHolds == Spec => []Exclusion
<1>1. IInv => Exclusion
  BY DEF IInv
<1>. QED
  BY <1>1, Invariance, PTL

\* A writer that waits for a free lock has its event set, and so has a reader that waits
\* while there is no writer.
THEOREM NoLostWakeupHolds == Spec => []NoLostWakeup
<1>1. IInv => NoLostWakeup
  BY DEF IInv
<1>. QED
  BY <1>1, Invariance, PTL

\* A lock that nobody holds or asks for is as it was made.
THEOREM NothingLeftBehindHolds == Spec => []NothingLeftBehind
<1>1. ASSUME IInv, \A t \in Threads : Idle(t) /\ held[t] = NotHeld
      PROVE  /\ writers = 0 /\ readersEntered = 0 /\ readersWaiting = 0
             /\ readEvent = "none" /\ writeEvent = "none"
  <2>1. \A t \in Threads : ~Reading(t) /\ ~Writing(t) /\ ~Queued(t) /\ ~Waiting(t)
    BY <1>1 DEF NotHeld, Reading, Idle, Writing, Queued, Waiting
  <2>. QED
    BY <1>1, <2>1, CountersTell DEF IInv, EventsTell
<1>2. IInv => NothingLeftBehind
  BY <1>1 DEF NothingLeftBehind
<1>. QED
  BY <1>2, Invariance, PTL

----------------------------------------------------------------------------
(* What the header promises.                                                *)

\* A step of t moves t only.
LEMMA StepAlone ==
  ASSUME TypeOK, NEW t \in Threads, Step(t) \/ Call(t)
  PROVE  Alone(t)
<1>. /\ call \in [Threads -> CallRecord] /\ held \in [Threads -> HeldRecord]
  BY DEF TypeOK, CallRecord, HeldRecord
<1>1. CASE Step(t)
  <2>1. CASE ReaderWakes(t) \/ ReaderRetries(t) \/ WriterWakes(t)
    BY <2>1 DEF ReaderWakes, ReaderRetries, WriterWakes, Alone
  <2>2. CASE ReaderEnters(t) \/ ReaderGivesUp(t) \/ WriterReturns(t)
    BY <2>2 DEF ReaderEnters, ReaderGivesUp, WriterReturns, Return, Alone
  <2>3. CASE WriterExpires(t)
    BY <2>3 DEF WriterExpires, ReaderWait, Return, Alone
  <2>. QED
    BY <1>1, <2>1, <2>2, <2>3 DEF Step
<1>2. CASE Call(t)
  <2>1. CASE ReleaseReaderLock(t) \/ ReleaseWriterLock(t) \/ ReleaseAllLocks(t) \/ DowngradeFromWriterLock(t)
    BY <2>1 DEF ReleaseReaderLock, ReleaseWriterLock, ReleaseAllLocks, DowngradeFromWriterLock, Alone
  <2>2. CASE AcquireWriterAgain(t) \/ UpgradeSoleReader(t)
    BY <2>2 DEF AcquireWriterAgain, UpgradeSoleReader, Alone
  <2>3. ASSUME NEW timed \in BOOLEAN, AcquireReaderLock(t, timed) \/ AcquireWriterLock(t, timed)
        PROVE  Alone(t)
    BY <2>3 DEF AcquireReaderLock, AcquireWriterLock, ReaderWait, WriterWait, Alone
  <2>4. ASSUME NEW timed \in BOOLEAN, UpgradeReader(t, timed) \/ UpgradeToWriterLock(t, timed)
        PROVE  Alone(t)
    BY <2>4 DEF UpgradeReader, UpgradeToWriterLock, Upgrade, WriterWait, Alone
  <2>. QED
    BY <1>2, <2>1, <2>2, <2>3, <2>4 DEF Call
<1>. QED
  BY <1>1, <1>2

\* Nobody else waits to write.
NoQueue(t) == writers = 0 \/ (Queued(t) /\ writers = 1)

\* A thread gets to read, or to write from outside, only past an empty queue.
Admitted(t) ==
  /\ ~(Writing(t) /\ Queued(t)')
  /\ Reading(t)' /\ ~Reading(t) /\ ~Writing(t) => NoQueue(t)
  /\ Writing(t)' /\ ~Writing(t) /\ ~Reading(t) /\ ~Queued(t) => NoQueue(t)

LEMMA StepsAdmitted ==
  ASSUME IInv, NEW t \in Threads, Step(t)
  PROVE  Admitted(t)
<1>1. /\ TypeOK /\ call[t] \in CallRecord /\ call \in [Threads -> CallRecord]
      /\ held[t] \in HeldRecord /\ held \in [Threads -> HeldRecord]
      /\ ~Idle(t) /\ held[t].w = 0 /\ (call[t].upgrade <=> held[t].r > 0)
      /\ Waiting(t) /\ call[t].upgrade => call[t].pc \in {"readWait", "readWoken"}
  <2>1. ~Idle(t)
    BY DEF Step, Idle, ReaderWakes, ReaderEnters, ReaderRetries, ReaderGivesUp, WriterWakes,
           WriterExpires, WriterReturns
  <2>. QED
    BY <2>1 DEF IInv, TypeOK, CallRecord, HeldRecord, CallsOK
<1>2. CASE ReaderWakes(t) \/ ReaderRetries(t)
  <2>1. ~Idle(t)' /\ ~Writing(t)' /\ ~Queued(t)'
    <3>1. PICK pc \in {"readWoken", "readExpired", "readWait", "readLate"} :
               held' = held /\ call' = [call EXCEPT ![t].pc = pc]
      BY <1>2 DEF ReaderWakes, ReaderRetries
    <3>2. call'[t].pc = pc
      BY <1>1, <3>1, CallGoesOn DEF Pcs
    <3>. QED
      BY <1>1, <3>1, <3>2 DEF Idle, Writing, Queued
  <2>. QED
    BY <2>1 DEF Admitted, Reading
<1>3. CASE ReaderEnters(t)
  <2>1. writers = 0 /\ ~Writing(t)
    BY <1>1, <1>3 DEF ReaderEnters, Writing
  <2>. QED
    BY <2>1 DEF Admitted, NoQueue
<1>4. CASE ReaderGivesUp(t)
  <2>1. held' = held /\ call'[t].pc = "idle"
    BY <1>1, <1>4 DEF ReaderGivesUp, Return, NoCall
  <2>2. held[t].r = 0
    BY <1>1, <1>4 DEF ReaderGivesUp, Waiting, HeldRecord
  <2>. QED
    BY <1>1, <2>1, <2>2 DEF Admitted, Reading, Writing, Queued
<1>5. CASE WriterWakes(t)
  <2>1. Queued(t) /\ ~Idle(t)' /\ ~Writing(t)
    <3>1. PICK pc \in {"writeGranted", "writeExpired"} :
               call[t].pc = "writeWait" /\ call' = [call EXCEPT ![t].pc = pc]
      BY <1>5 DEF WriterWakes
    <3>2. call'[t].pc = pc
      BY <1>1, <3>1, CallGoesOn DEF Pcs
    <3>. QED
      BY <1>1, <3>1, <3>2 DEF Queued, Idle, Writing
  <2>. QED
    BY <2>1 DEF Admitted, Reading
<1>6. CASE WriterExpires(t)
  <2>1. Queued(t) /\ ~Writing(t) /\ held' = held
    BY <1>1, <1>6 DEF WriterExpires, Queued, Writing
  <2>2. CASE writers = 1
    BY <2>1, <2>2 DEF Admitted, NoQueue
  <2>3. CASE writers # 1
    <3>1. CASE call[t].upgrade
      <4>1. ~Idle(t)'
        BY <1>1, <1>6, <2>3, <3>1 DEF WriterExpires, ReaderWait, Idle
      <4>. QED
        BY <2>1, <4>1 DEF Admitted, Reading
    <3>2. CASE ~call[t].upgrade
      <4>1. held[t].r = 0
        BY <1>1, <3>2 DEF HeldRecord
      <4>. QED
        BY <2>1, <4>1 DEF Admitted, Reading
    <3>. QED
      BY <3>1, <3>2
  <2>. QED
    BY <2>2, <2>3
<1>7. CASE WriterReturns(t)
  <2>1. Writing(t) /\ call'[t].pc = "idle"
    BY <1>1, <1>7 DEF WriterReturns, Writing, Return, NoCall
  <2>. QED
    BY <2>1 DEF Admitted, Queued
<1>. QED
  BY <1>2, <1>3, <1>4, <1>5, <1>6, <1>7 DEF Step

LEMMA CallsAdmitted ==
  ASSUME IInv, NEW t \in Threads, Call(t)
  PROVE  Admitted(t)
<1>1. /\ TypeOK /\ call \in [Threads -> CallRecord] /\ held \in [Threads -> HeldRecord]
      /\ held[t].r \in Nat /\ held[t].w \in Nat
      /\ held[t] = NotHeld <=> held[t].r = 0 /\ held[t].w = 0
  <2>1. TypeOK
    BY DEF IInv
  <2>2. held[t].r \in 0..MaxRecurrence /\ held[t].w \in 0..MaxRecurrence
        /\ (held[t] = NotHeld <=> held[t].r = 0 /\ held[t].w = 0)
    BY <2>1, HeldIs
  <2>. QED
    BY <2>1, <2>2, LockAssumption DEF TypeOK, CallRecord, HeldRecord, LockAssumption
<1>2. Idle(t)
  BY DEF Call, Idle, Reading, ReleaseReaderLock, ReleaseWriterLock, ReleaseAllLocks,
         DowngradeFromWriterLock, AcquireWriterAgain, UpgradeSoleReader, AcquireReaderLock,
         AcquireWriterLock, UpgradeReader, UpgradeToWriterLock
<1>3. ~Queued(t) /\ (Reading(t) \/ Writing(t) <=> held[t] # NotHeld)
      /\ (Writing(t) <=> held[t].w > 0)
  BY <1>1, <1>2 DEF Queued, Reading, Writing, Idle
<1>4. CASE ReleaseReaderLock(t) \/ ReleaseWriterLock(t) \/ ReleaseAllLocks(t) \/ DowngradeFromWriterLock(t)
  <2>1. held[t] # NotHeld /\ call' = call
    <3>1. CASE ReleaseReaderLock(t)
      BY <1>1, <3>1 DEF ReleaseReaderLock
    <3>2. CASE ReleaseWriterLock(t)
      BY <1>1, <3>2 DEF ReleaseWriterLock
    <3>3. CASE ReleaseAllLocks(t)
      BY <1>1, <3>3 DEF ReleaseAllLocks
    <3>4. CASE DowngradeFromWriterLock(t)
      BY <1>1, <3>4 DEF DowngradeFromWriterLock
    <3>. QED
      BY <1>4, <3>1, <3>2, <3>3, <3>4
  <2>2. ~Queued(t)'
    BY <1>2, <2>1 DEF Queued, Idle
  <2>. QED
    BY <1>3, <2>1, <2>2 DEF Admitted
<1>5. CASE AcquireWriterAgain(t) \/ UpgradeSoleReader(t)
  <2>1. held[t] # NotHeld /\ call' = call
    BY <1>1, <1>5 DEF AcquireWriterAgain, UpgradeSoleReader, Reading
  <2>2. ~Queued(t)'
    BY <1>2, <2>1 DEF Queued, Idle
  <2>. QED
    BY <1>3, <2>1, <2>2 DEF Admitted
<1>6. ASSUME NEW timed \in BOOLEAN, AcquireReaderLock(t, timed)
      PROVE  Admitted(t)
  <2>1. CASE held[t] # NotHeld \/ writers = 0
    <3>1. ~Queued(t)'
      <4>1. CASE held[t] # NotHeld
        BY <1>2, <1>6, <4>1 DEF AcquireReaderLock, Queued, Idle
      <4>2. CASE held[t] = NotHeld /\ writers = 0
        BY <1>2, <1>6, <4>2 DEF AcquireReaderLock, Queued, Idle
      <4>. QED
        BY <2>1, <4>1, <4>2
    <3>. QED
      BY <1>3, <2>1, <3>1 DEF Admitted, NoQueue
  <2>2. CASE held[t] = NotHeld /\ writers # 0
    <3>1. held' = held /\ call'[t].pc = "readWait"
      BY <1>1, <1>6, <2>2 DEF AcquireReaderLock, ReaderWait
    <3>. QED
      BY <1>1, <1>3, <2>2, <3>1 DEF Admitted, Reading, Writing, Queued, Idle
  <2>. QED
    BY <2>1, <2>2
<1>7. ASSUME NEW timed \in BOOLEAN, AcquireWriterLock(t, timed)
      PROVE  Admitted(t)
  <2>1. held[t] = NotHeld /\ ~Writing(t)
    BY <1>3, <1>7 DEF AcquireWriterLock
  <2>2. CASE writers = 0
    BY <2>1, <2>2 DEF Admitted, NoQueue
  <2>3. CASE writers # 0
    <3>1. held' = held /\ call'[t].pc = "writeWait"
      BY <1>1, <1>7, <2>3 DEF AcquireWriterLock, WriterWait
    <3>. QED
      BY <1>1, <1>3, <2>1, <3>1 DEF Admitted, Reading, Writing, Idle
  <2>. QED
    BY <2>2, <2>3
<1>8. ASSUME NEW timed \in BOOLEAN, UpgradeReader(t, timed) \/ UpgradeToWriterLock(t, timed)
      PROVE  Admitted(t)
  <2>1. Reading(t) /\ ~Writing(t)
    BY <1>3, <1>8 DEF UpgradeReader, UpgradeToWriterLock, Reading
  <2>. QED
    BY <2>1 DEF Admitted
<1>. QED
  BY <1>4, <1>5, <1>6, <1>7, <1>8 DEF Call

\* What a thread does is told by its role before and after: the exclusion that the step
\* keeps, and the empty queue, are the guards.
LEMMA RoleStep ==
  ASSUME IInv, IInv', NEW t \in Threads, Alone(t), Admitted(t)
  PROVE  [Access!Next]_(Access!vars)
<1>1. /\ Readers' = IF Reading(t)' THEN Readers \cup {t} ELSE Readers \ {t}
      /\ Writers' = IF Writing(t)' THEN Writers \cup {t} ELSE Writers \ {t}
      /\ Queue' = IF Queued(t)' THEN Queue \cup {t} ELSE Queue \ {t}
  <2>1. \A u \in Threads \ {t} : /\ Reading(u)' <=> Reading(u)
                                 /\ Writing(u)' <=> Writing(u)
                                 /\ Queued(u)' <=> Queued(u)
    BY Others
  <2>. QED
    BY <2>1 DEF Readers, Writers, Queue
<1>2. /\ t \in Readers <=> Reading(t)
      /\ t \in Writers <=> Writing(t)
      /\ t \in Queue <=> Queued(t)
  BY DEF Readers, Writers, Queue
<1>3. /\ ~(Reading(t) /\ Writing(t)) /\ ~(Reading(t) /\ Queued(t)) /\ ~(Writing(t) /\ Queued(t))
      /\ ~(Reading(t) /\ Writing(t))' /\ ~(Reading(t) /\ Queued(t))' /\ ~(Writing(t) /\ Queued(t))'
  BY DEF IInv, CallsOK, TypeOK, Reading, Writing, Queued, Idle
<1>4. NoQueue(t) => Queue \subseteq {t}
  BY CountersTell DEF IInv, NoQueue, Queue
<1>5. Writing(t)' => Readers' \subseteq {t} /\ Writers' \subseteq {t}
  BY DEF IInv, Exclusion, Readers, Writers
<1>6. Reading(t)' => Writers' = {}
  BY <1>3 DEF IInv, Exclusion, Writers
<1>7. CASE Reading(t)' /\ ~Reading(t) /\ ~Writing(t)
  <2>1. Access!StartReading(t)
    BY <1>1, <1>2, <1>3, <1>4, <1>6, <1>7 DEF Admitted, Access!StartReading
  <2>. QED
    BY <2>1 DEF Access!Next
<1>8. CASE Reading(t) /\ ~Reading(t)' /\ ~Writing(t)' /\ ~Queued(t)'
  <2>1. Access!StopReading(t)
    BY <1>1, <1>2, <1>3, <1>8 DEF Access!StopReading
  <2>. QED
    BY <2>1 DEF Access!Next
<1>9. CASE Queued(t)' /\ ~Queued(t)
  <2>1. Access!WaitToWrite(t)
    BY <1>1, <1>2, <1>3, <1>9 DEF Admitted, Access!WaitToWrite
  <2>. QED
    BY <2>1 DEF Access!Next
<1>10. CASE Queued(t) /\ ~Queued(t)' /\ ~Reading(t)' /\ ~Writing(t)'
  <2>1. Access!GiveUp(t)
    BY <1>1, <1>2, <1>3, <1>10 DEF Access!GiveUp
  <2>. QED
    BY <2>1 DEF Access!Next
<1>11. CASE Writing(t)' /\ ~Writing(t)
  <2>1. Writers = {} /\ Readers \subseteq {t} /\ Writers' = {t} /\ Readers' = {}
    BY <1>1, <1>2, <1>3, <1>5, <1>11
  <2>2. Queue' = Queue \ {t}
    BY <1>1, <1>3, <1>11
  <2>3. t \in Readers \/ t \in Queue \/ Queue = {}
    BY <1>2, <1>4, <1>11 DEF Admitted
  <2>4. Access!StartWriting(t)
    BY <2>1, <2>2, <2>3 DEF Access!StartWriting
  <2>. QED
    BY <2>4 DEF Access!Next
<1>12. CASE Writing(t) /\ ~Writing(t)'
  <2>1. Access!StopWriting(t)
    BY <1>1, <1>2, <1>3, <1>12 DEF Admitted, Access!StopWriting
  <2>. QED
    BY <2>1 DEF Access!Next
<1>13. CASE (Reading(t)' <=> Reading(t)) /\ (Writing(t)' <=> Writing(t)) /\ (Queued(t)' <=> Queued(t))
  <2>1. Readers' = Readers /\ Writers' = Writers /\ Queue' = Queue
    BY <1>1, <1>2, <1>13
  <2>. QED
    BY <2>1 DEF Access!vars
<1>. QED
  BY <1>3, <1>7, <1>8, <1>9, <1>10, <1>11, <1>12, <1>13

LEMMA NextRefines == IInv /\ [Next]_vars => [Access!Next]_(Access!vars)
<1>. SUFFICES ASSUME IInv, [Next]_vars PROVE [Access!Next]_(Access!vars)
  OBVIOUS
<1>1. CASE UNCHANGED vars
  BY <1>1 DEF vars, counters, events, Access!vars, Readers, Writers, Queue, Reading, Writing, Queued, Idle
<1>2. ASSUME NEW t \in Threads, Step(t) \/ Call(t)
      PROVE  [Access!Next]_(Access!vars)
  <2>1. IInv' /\ TypeOK
    BY NextIInv DEF IInv
  <2>2. Alone(t)
    BY <1>2, <2>1, StepAlone
  <2>3. Admitted(t)
    BY <1>2, StepsAdmitted, CallsAdmitted
  <2>. QED
    BY <2>1, <2>2, <2>3, RoleStep
<1>. QED
  BY <1>1, <1>2 DEF Next

\* Spec => Access!Spec: the counters, the events and the waits outside of the critical
\* section, with their timeouts, upgrades and nested holds, are the promise of the header.
THEOREM Refinement == Spec => ImplementsSharedAccess
<1>1. Init => Access!Init
  BY DEF Init, Access!Init, Readers, Writers, Queue, Reading, Writing, Queued, NotHeld, NoCall
<1>. QED
  BY <1>1, NextRefines, Invariance, PTL DEF Spec, ImplementsSharedAccess, Access!Spec

=============================================================================
