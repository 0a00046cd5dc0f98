--------------------------- MODULE AbstractCache ---------------------------
(***************************************************************************)
(* TortoiseShell/AbstractCache.h: a value fetched from the Integrity       *)
(* client by a thread of its own, served from memory meanwhile, and        *)
(* fetched again when it is older than an expiry time or when a caller     *)
(* forces it.  RootFolderCache and ServerConnections derive from it.       *)
(*                                                                         *)
(* Each critical section of lockObject is one action; the fetch, which     *)
(* runs with no lock held, and the notification after the publication are  *)
(* actions of their own.  A task is a thread started by std::async, whose  *)
(* future the code drops: it is detached here.  A value is a version: what *)
(* the client would have reported at some moment; Empty is the empty       *)
(* vector of a command that failed, and of a cache not yet filled.         *)
(***************************************************************************)
EXTENDS Integers

CONSTANTS
  Clients,      \* threads of the process that call getValue and forceRefresh
  Tasks,        \* threads that can run updateCacheValue (a bound)
  Expiry,       \* getCacheExpiryDuration(), in ticks of the clock
  MaxSkew,      \* how far the system clock can be set back behind lastRefresh
  MaxVersion,   \* bound on the versions the server goes through
  Faults,       \* the failures that can occur, of FaultKinds
  MaxFaults     \* bound on how many of them occur

\* "answer": the command fails and the fetch returns an empty vector.
\* "throw" : fetchNewValue leaves by an exception the dropped future keeps.
\* "start" : std::async cannot start a thread and throws to its caller.
\* "clock" : the user or a time service sets the system clock back.
FaultKinds == {"answer", "throw", "start", "clock"}

ASSUME CacheAssumption ==
  /\ Clients \cap Tasks = {}
  /\ Expiry \in Nat
  /\ MaxSkew \in Nat
  /\ MaxVersion \in Nat \ {0}
  /\ Faults \subseteq FaultKinds
  /\ MaxFaults \in Nat

VARIABLES
  server,              \* the version the Integrity client would report now
  cachedValue,
  refreshInProgress,
  age,                 \* now - lastRefresh; Forever while lastRefresh is the epoch
  client,              \* client[c]: where thread c is in forceRefresh
  task,                \* task[t]: where task t is in updateCacheValue, and its locals
  faults,              \* how many failures have occurred
  lost,                \* history: the refresh in progress has no thread any more
  floor,               \* history: server when refreshInProgress was last set
  published            \* history: the newest version the cache has held

vars == <<server, cachedValue, refreshInProgress, age, client, task, faults,
          lost, floor, published>>
history == <<lost, floor, published>>

----------------------------------------------------------------------------
Empty   == 0
Version == 1..MaxVersion
Value   == Version \cup {Empty}

Forever == Expiry + 2
Ages    == (0 - MaxSkew)..Forever
Stale   == age > Expiry

Phases == {"idle", "fetching", "fetched", "notifying"}
NoTask == [pc |-> "idle", oldValue |-> Empty, newValue |-> Empty]

\* A thread that must still run, or start, the rest of the refresh.
Owns(x) == \/ x \in Clients /\ client[x] = "starting"
           \/ x \in Tasks /\ task[x].pc \in {"fetching", "fetched"}
Owners  == {x \in Clients \cup Tasks : Owns(x)}

Fault(kind) == /\ kind \in Faults
               /\ faults < MaxFaults
               /\ faults' = faults + 1

TypeOK ==
  /\ server \in Version
  /\ cachedValue \in Value
  /\ refreshInProgress \in BOOLEAN
  /\ age \in Ages
  /\ client \in [Clients -> {"idle", "starting"}]
  /\ task \in [Tasks -> [pc : Phases, oldValue : Value, newValue : Value]]
  /\ faults \in 0..MaxFaults
  /\ lost \in BOOLEAN
  /\ floor \in Version
  /\ published \in Value

\* Right after the base class constructor: its forceRefresh has started a task.
Init ==
  /\ server = 1
  /\ cachedValue = Empty
  /\ refreshInProgress = TRUE
  /\ age = Forever
  /\ client = [c \in Clients |-> "idle"]
  /\ \E t \in Tasks : task = [u \in Tasks |-> IF u = t
                                THEN [NoTask EXCEPT !.pc = "fetching"] ELSE NoTask]
  /\ faults = 0
  /\ lost = FALSE
  /\ floor = 1
  /\ published = Empty

----------------------------------------------------------------------------
\* Mutant: no test of refreshInProgress before it is set.
TakeFlagUntested ==
  /\ refreshInProgress' = TRUE
  /\ floor' = server

\* The test and set both refresh paths make under the lock.
TakeFlag ==
  /\ ~refreshInProgress
  /\ refreshInProgress' = TRUE
  /\ floor' = server

\* std::async(launch::async, updateCacheValue), or its failure.
LaunchTask ==
  \/ /\ \E t \in Tasks : /\ task[t].pc = "idle"
                         /\ task' = [task EXCEPT ![t] = [NoTask EXCEPT !.pc = "fetching"]]
     /\ UNCHANGED <<faults, lost>>
  \/ /\ Fault("start")
     /\ lost' = TRUE
     /\ UNCHANGED task

\* getValue when the value is stale and no refresh runs; in every other state it
\* only returns cachedValue.  It returns the old value, not the one it asked for.
GetValue(c) ==
  /\ client[c] = "idle"
  /\ Stale
  /\ TakeFlag
  /\ LaunchTask
  /\ UNCHANGED <<server, cachedValue, age, client, published>>

\* forceRefresh up to the end of its critical section; it returns at once, with
\* nothing changed, when a refresh is in progress.
ForceRefresh(c) ==
  /\ client[c] = "idle"
  /\ TakeFlag
  /\ client' = [client EXCEPT ![c] = "starting"]
  /\ UNCHANGED <<server, cachedValue, age, task, faults, lost, published>>

\* The std::async after it, with the lock released.
StartRefresh(c) ==
  /\ client[c] = "starting"
  /\ client' = [client EXCEPT ![c] = "idle"]
  /\ LaunchTask
  /\ UNCHANGED <<server, cachedValue, refreshInProgress, age, floor, published>>

----------------------------------------------------------------------------
\* Mutant: what a failed command leaves in newValue is not initialised.
FetchNewValueGarbage(t) ==
  /\ task[t].pc = "fetching"
  /\ Fault("answer")
  /\ task' = [task EXCEPT ![t].pc = "fetched", ![t].newValue = 0 - 1]
  /\ UNCHANGED <<server, cachedValue, refreshInProgress, age, client, history>>

\* The client executes the command of fetchNewValue, or fails it; the answer is
\* the task's local newValue until the task gets the lock.
FetchNewValue(t) ==
  /\ task[t].pc = "fetching"
  /\ \/ /\ task' = [task EXCEPT ![t].pc = "fetched", ![t].newValue = server]
        /\ UNCHANGED faults
     \/ /\ Fault("answer")
        /\ task' = [task EXCEPT ![t].pc = "fetched", ![t].newValue = Empty]
  /\ UNCHANGED <<server, cachedValue, refreshInProgress, age, client, history>>

\* fetchNewValue throws: updateCacheValue never reaches its critical section.
FetchThrows(t) ==
  /\ task[t].pc = "fetching"
  /\ Fault("throw")
  /\ task' = [task EXCEPT ![t] = NoTask]
  /\ lost' = TRUE
  /\ UNCHANGED <<server, cachedValue, refreshInProgress, age, client, floor, published>>

\* Mutant: refreshInProgress is not reset.
PublishKeepsFlag(t) ==
  /\ task[t].pc = "fetched"
  /\ task' = [task EXCEPT ![t].pc = "notifying", ![t].oldValue = cachedValue]
  /\ cachedValue' = task[t].newValue
  /\ age' = 0
  /\ published' = IF task[t].newValue = Empty THEN published ELSE task[t].newValue
  /\ UNCHANGED <<server, refreshInProgress, client, faults, lost, floor>>

\* The critical section of updateCacheValue.
Publish(t) ==
  /\ task[t].pc = "fetched"
  /\ task' = [task EXCEPT ![t].pc = "notifying", ![t].oldValue = cachedValue]
  /\ cachedValue' = task[t].newValue
  /\ age' = 0
  /\ refreshInProgress' = FALSE
  /\ published' = IF task[t].newValue = Empty THEN published ELSE task[t].newValue
  /\ UNCHANGED <<server, client, faults, lost, floor>>

\* The virtual cachedValueUpdated(oldValue, newValue) returns: the task ends.
CachedValueUpdated(t) ==
  /\ task[t].pc = "notifying"
  /\ task' = [task EXCEPT ![t] = NoTask]
  /\ UNCHANGED <<server, cachedValue, refreshInProgress, age, client, faults, history>>

----------------------------------------------------------------------------
\* The world: what the client would report changes, and time passes.
ServerChange ==
  /\ server < MaxVersion
  /\ server' = server + 1
  /\ UNCHANGED <<cachedValue, refreshInProgress, age, client, task, faults, history>>

Tick ==
  /\ age <= Expiry
  /\ age' = age + 1
  /\ UNCHANGED <<server, cachedValue, refreshInProgress, client, task, faults, history>>

\* std::chrono::system_clock is the wall clock.
SetClockBack ==
  /\ age # Forever
  /\ Fault("clock")
  /\ age' \in {a \in Ages : a < age}
  /\ UNCHANGED <<server, cachedValue, refreshInProgress, client, task, history>>

Next ==
  \/ \E c \in Clients : GetValue(c) \/ ForceRefresh(c) \/ StartRefresh(c)
  \/ \E t \in Tasks : \/ FetchNewValue(t) \/ FetchThrows(t)
                      \/ Publish(t) \/ CachedValueUpdated(t)
  \/ ServerChange \/ Tick \/ SetClockBack

Spec == Init /\ [][Next]_vars

----------------------------------------------------------------------------
\* One refresh at a time: refreshInProgress is set exactly while one thread has
\* the rest of the refresh to do, or when that thread was lost.  This is what the
\* flag is for: no two fetch commands of one cache overlap.
SingleFlight ==
  /\ \A x, y \in Owners : x = y
  /\ refreshInProgress <=> (Owners # {} \/ lost)
  /\ lost => Owners = {}

\* A value on its way to the cache is no older than any the cache has held, and
\* no older than the request for it: fetches do not overtake each other.
FlightIsNewer ==
  \A t \in Tasks : task[t].pc = "fetched" =>
    \/ task[t].newValue = Empty
    \/ /\ task[t].newValue \in floor..server
       /\ published <= floor

\* How the histories relate; with the three above, the inductive invariant.
HistoryOrder ==
  /\ cachedValue <= published
  /\ published <= server
  /\ floor <= server
  /\ refreshInProgress => published <= floor

IInv == TypeOK /\ SingleFlight /\ FlightIsNewer /\ HistoryOrder

\* Callers never see the cache go back to an older version, whatever the threads
\* do; only the empty answer of a failed command may come between.
NeverBackwards ==
  [][cachedValue' # cachedValue => cachedValue' = Empty \/ cachedValue' >= published]_vars

\* A refresh whose thread was lost blocks every later one: nothing resets
\* refreshInProgress, so the value served is frozen until the process ends.
LostIsFinal == [][lost => lost' /\ UNCHANGED <<cachedValue, refreshInProgress>>]_vars

\* Every step is one of the abstract refreshed value, or changes nothing there.
RV == INSTANCE RefreshedValue WITH value <- cachedValue, pending <- refreshInProgress
ImplementsRefreshedValue == RV!Spec
ImplementsFairRefreshedValue == RV!FairSpec

=============================================================================
