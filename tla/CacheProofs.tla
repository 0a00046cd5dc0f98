---------------------------- MODULE CacheProofs ----------------------------
(***************************************************************************)
(* AbstractCache.h for every number of threads, every expiry time and      *)
(* every set of failures: type correctness, one refresh at a time, values  *)
(* that never go back, the finality of a lost refresh, and the refinement  *)
(* of RefreshedValue; all of them rest on the inductive invariant IInv.    *)
(* Then the cache of root folders, which is one of these, for every set of *)
(* folders: no change of them is lost between the cache and the screen.    *)
(***************************************************************************)
EXTENDS RootFolderCache, TLAPS

LEMMA InitIInv == Init => IInv
<1>. SUFFICES ASSUME Init PROVE IInv
  OBVIOUS
<1>. PICK t0 \in Tasks : task = [u \in Tasks |-> IF u = t0
                         THEN [NoTask EXCEPT !.pc = "fetching"] ELSE NoTask]
  BY DEF Init
<1>. USE CacheAssumption DEF CacheAssumption
<1>1. TypeOK
  <2>1. Forever \in Ages
    BY DEF Ages, Forever
  <2>2. task \in [Tasks -> [pc : Phases, oldValue : Value, newValue : Value]]
    BY DEF NoTask, Phases, Value, Version, Empty
  <2>3. client \in [Clients -> {"idle", "starting"}]
    BY DEF Init
  <2>4. /\ server \in Version
        /\ cachedValue \in Value
        /\ floor \in Version
        /\ published \in Value
    BY DEF Init, Value, Version, Empty
  <2>5. faults \in 0..MaxFaults
    BY DEF Init
  <2>. QED
    BY <2>1, <2>2, <2>3, <2>4, <2>5 DEF Init, TypeOK
<1>2. \A x : x \in Owners <=> x = t0
  BY DEF Init, Owners, Owns, NoTask
<1>3. SingleFlight
  BY <1>2 DEF SingleFlight, Init
<1>4. FlightIsNewer
  BY DEF FlightIsNewer, NoTask
<1>5. HistoryOrder
  BY DEF HistoryOrder, Init, Empty
<1>. QED
  BY <1>1, <1>3, <1>4, <1>5 DEF IInv

----------------------------------------------------------------------------
TaskRecord == [pc : Phases, oldValue : Value, newValue : Value]

LEMMA FetchingIsTask == [NoTask EXCEPT !.pc = "fetching"] \in TaskRecord
BY DEF TaskRecord, NoTask, Phases, Value, Version, Empty

LEMMA NoTaskIsTask == NoTask \in TaskRecord
BY DEF TaskRecord, NoTask, Phases, Value, Version, Empty

LEMMA LaunchTaskType ==
  ASSUME TypeOK, LaunchTask
  PROVE  /\ task' \in [Tasks -> TaskRecord]
         /\ faults' \in 0..MaxFaults
         /\ lost' \in BOOLEAN
<1>1. CASE /\ \E t \in Tasks : /\ task[t].pc = "idle"
                               /\ task' = [task EXCEPT ![t] = [NoTask EXCEPT !.pc = "fetching"]]
           /\ UNCHANGED <<faults, lost>>
  BY <1>1, FetchingIsTask DEF TypeOK, TaskRecord
<1>2. CASE /\ Fault("start")
           /\ lost' = TRUE
           /\ UNCHANGED task
  BY <1>2, CacheAssumption DEF CacheAssumption, TypeOK, TaskRecord, Fault
<1>. QED
  BY <1>1, <1>2 DEF LaunchTask

LEMMA TypeStep == TypeOK /\ [Next]_vars => TypeOK'
<1>. SUFFICES ASSUME TypeOK, [Next]_vars PROVE TypeOK'
  OBVIOUS
<1>. USE CacheAssumption DEF CacheAssumption
<1>1. ASSUME NEW c \in Clients, GetValue(c) PROVE TypeOK'
  BY <1>1, LaunchTaskType DEF GetValue, TakeFlag, TypeOK, TaskRecord
<1>2. ASSUME NEW c \in Clients, ForceRefresh(c) PROVE TypeOK'
  BY <1>2 DEF ForceRefresh, TakeFlag, TypeOK
<1>3. ASSUME NEW c \in Clients, StartRefresh(c) PROVE TypeOK'
  BY <1>3, LaunchTaskType DEF StartRefresh, TypeOK, TaskRecord
<1>4. ASSUME NEW t \in Tasks, FetchNewValue(t) PROVE TypeOK'
  <2>1. task' \in [Tasks -> [pc : Phases, oldValue : Value, newValue : Value]]
    BY <1>4 DEF FetchNewValue, TypeOK, Phases, Value, Version
  <2>2. faults' \in 0..MaxFaults
    BY <1>4 DEF FetchNewValue, Fault, TypeOK
  <2>. QED
    BY <1>4, <2>1, <2>2 DEF FetchNewValue, TypeOK, history
<1>5. ASSUME NEW t \in Tasks, FetchThrows(t) PROVE TypeOK'
  BY <1>5, NoTaskIsTask DEF FetchThrows, Fault, TypeOK, TaskRecord
<1>6. ASSUME NEW t \in Tasks, Publish(t) PROVE TypeOK'
  <2>1. task' \in [Tasks -> [pc : Phases, oldValue : Value, newValue : Value]]
    BY <1>6 DEF Publish, TypeOK, Phases
  <2>2. cachedValue' \in Value /\ published' \in Value /\ age' \in Ages
    BY <1>6 DEF Publish, TypeOK, Ages, Forever
  <2>. QED
    BY <1>6, <2>1, <2>2 DEF Publish, TypeOK
<1>7. ASSUME NEW t \in Tasks, CachedValueUpdated(t) PROVE TypeOK'
  BY <1>7, NoTaskIsTask DEF CachedValueUpdated, TypeOK, TaskRecord, history
<1>8. CASE ServerChange
  BY <1>8 DEF ServerChange, TypeOK, Version, history
<1>9. CASE Tick
  BY <1>9 DEF Tick, TypeOK, Ages, Forever, history
<1>10. CASE SetClockBack
  BY <1>10 DEF SetClockBack, Fault, TypeOK, Ages, history
<1>11. CASE UNCHANGED vars
  BY <1>11 DEF vars, TypeOK
<1>. QED
  BY <1>1, <1>2, <1>3, <1>4, <1>5, <1>6, <1>7, <1>8, <1>9, <1>10, <1>11 DEF Next

\* Spec => []TypeOK: no interleaving of callers, tasks and failures takes a
\* variable out of its range; lost tasks return their slot, locals included.
THEOREM TypeCorrect == Spec => []TypeOK
<1>1. Init => TypeOK
  BY InitIInv DEF IInv
<1>. QED
  BY <1>1, TypeStep, PTL DEF Spec

----------------------------------------------------------------------------
\* The guard of both refresh paths: nobody owns the flag that is clear.
LEMMA FreeFlag ==
  ASSUME SingleFlight, ~refreshInProgress
  PROVE  Owners = {} /\ ~lost
BY DEF SingleFlight

\* Launching leaves one owner, or the refresh lost, if nobody else was an owner.
LEMMA LaunchOwners ==
  ASSUME TypeOK, LaunchTask, ~lost,
         \A x \in Owners : x \in Clients /\ client'[x] = "idle",
         \A c \in Clients : client'[c] = "starting" => client[c] = "starting"
  PROVE  \/ ~lost' /\ \E t \in Tasks : Owners' = {t}
         \/ lost' /\ Owners' = {}
<1>1. \A x \in Clients : x \notin Tasks /\ ~(client'[x] = "starting")
  BY CacheAssumption DEF CacheAssumption, Owners, Owns
<1>2. \A x \in Tasks : ~(task[x].pc \in {"fetching", "fetched"})
  BY CacheAssumption DEF CacheAssumption, Owners, Owns
<1>3. CASE /\ \E t \in Tasks : /\ task[t].pc = "idle"
                               /\ task' = [task EXCEPT ![t] = [NoTask EXCEPT !.pc = "fetching"]]
           /\ UNCHANGED <<faults, lost>>
  <2>. PICK t \in Tasks : task' = [task EXCEPT ![t] = [NoTask EXCEPT !.pc = "fetching"]]
    BY <1>3
  <2>1. task'[t].pc = "fetching" /\ \A u \in Tasks \ {t} : task'[u] = task[u]
    BY DEF TypeOK, NoTask
  <2>. QED
    BY <1>1, <1>2, <1>3, <2>1 DEF Owners, Owns
<1>4. CASE lost' = TRUE /\ UNCHANGED task
  BY <1>1, <1>2, <1>4 DEF Owners, Owns
<1>. QED
  BY <1>3, <1>4 DEF LaunchTask

LEMMA SingleFlightStep ==
  TypeOK /\ SingleFlight /\ [Next]_vars => SingleFlight'
<1>. SUFFICES ASSUME TypeOK, SingleFlight, [Next]_vars PROVE SingleFlight'
  OBVIOUS
<1>. USE CacheAssumption DEF CacheAssumption
<1>1. ASSUME NEW c \in Clients, GetValue(c) PROVE SingleFlight'
  <2>1. Owners = {} /\ ~lost
    BY <1>1, FreeFlag DEF GetValue, TakeFlag
  <2>2. \/ ~lost' /\ \E t \in Tasks : Owners' = {t}
        \/ lost' /\ Owners' = {}
    BY <1>1, <2>1, LaunchOwners DEF GetValue
  <2>. QED
    BY <1>1, <2>2 DEF GetValue, TakeFlag, SingleFlight
<1>2. ASSUME NEW c \in Clients, ForceRefresh(c) PROVE SingleFlight'
  <2>1. Owners = {} /\ ~lost
    BY <1>2, FreeFlag DEF ForceRefresh, TakeFlag
  <2>2. client'[c] = "starting" /\ \A d \in Clients \ {c} : client'[d] = client[d]
    BY <1>2 DEF ForceRefresh, TypeOK
  <2>3. Owners' = {c}
    BY <1>2, <2>1, <2>2 DEF ForceRefresh, Owners, Owns
  <2>. QED
    BY <1>2, <2>1, <2>3 DEF ForceRefresh, TakeFlag, SingleFlight
<1>3. ASSUME NEW c \in Clients, StartRefresh(c) PROVE SingleFlight'
  <2>1. c \in Owners
    BY <1>3 DEF StartRefresh, Owners, Owns
  <2>2. Owners = {c} /\ ~lost /\ refreshInProgress
    BY <2>1 DEF SingleFlight
  <2>3. client'[c] = "idle" /\ \A d \in Clients \ {c} : client'[d] = client[d]
    BY <1>3 DEF StartRefresh, TypeOK
  <2>4. \/ ~lost' /\ \E t \in Tasks : Owners' = {t}
        \/ lost' /\ Owners' = {}
    BY <1>3, <2>2, <2>3, LaunchOwners DEF StartRefresh
  <2>. QED
    BY <1>3, <2>2, <2>4 DEF StartRefresh, SingleFlight
<1>4. ASSUME NEW t \in Tasks, FetchNewValue(t) PROVE SingleFlight'
  <2>1. task'[t].pc = "fetched" /\ \A u \in Tasks \ {t} : task'[u] = task[u]
    BY <1>4 DEF FetchNewValue, TypeOK
  <2>2. Owners' = Owners
    BY <1>4, <2>1 DEF FetchNewValue, Owners, Owns
  <2>. QED
    BY <1>4, <2>2 DEF FetchNewValue, SingleFlight, history
<1>5. ASSUME NEW t \in Tasks, FetchThrows(t) PROVE SingleFlight'
  <2>1. t \in Owners
    BY <1>5 DEF FetchThrows, Owners, Owns
  <2>2. Owners = {t} /\ refreshInProgress
    BY <2>1 DEF SingleFlight
  <2>3. task'[t].pc = "idle" /\ \A u \in Tasks \ {t} : task'[u] = task[u]
    BY <1>5 DEF FetchThrows, TypeOK, NoTask
  <2>4. Owners' = {}
    BY <1>5, <2>2, <2>3 DEF FetchThrows, Owners, Owns
  <2>. QED
    BY <1>5, <2>2, <2>4 DEF FetchThrows, SingleFlight
<1>6. ASSUME NEW t \in Tasks, Publish(t) PROVE SingleFlight'
  <2>1. t \in Owners
    BY <1>6 DEF Publish, Owners, Owns
  <2>2. Owners = {t} /\ ~lost
    BY <2>1 DEF SingleFlight
  <2>3. task'[t].pc = "notifying" /\ \A u \in Tasks \ {t} : task'[u] = task[u]
    BY <1>6 DEF Publish, TypeOK
  <2>4. Owners' = {}
    BY <1>6, <2>2, <2>3 DEF Publish, Owners, Owns
  <2>. QED
    BY <1>6, <2>2, <2>4 DEF Publish, SingleFlight
<1>7. ASSUME NEW t \in Tasks, CachedValueUpdated(t) PROVE SingleFlight'
  <2>1. task'[t].pc = "idle" /\ \A u \in Tasks \ {t} : task'[u] = task[u]
    BY <1>7 DEF CachedValueUpdated, TypeOK, NoTask
  <2>2. Owners' = Owners
    BY <1>7, <2>1 DEF CachedValueUpdated, Owners, Owns
  <2>. QED
    BY <1>7, <2>2 DEF CachedValueUpdated, SingleFlight, history
<1>8. CASE ServerChange \/ Tick \/ SetClockBack \/ UNCHANGED vars
  BY <1>8 DEF ServerChange, Tick, SetClockBack, vars, history, SingleFlight, Owners, Owns
<1>. QED
  BY <1>1, <1>2, <1>3, <1>4, <1>5, <1>6, <1>7, <1>8 DEF Next

\* Spec => []SingleFlight: in every interleaving refreshInProgress is set exactly
\* while one thread has the refresh to finish or that thread was lost, so fetches
\* of one cache never overlap.
THEOREM SingleFlightHolds == Spec => []SingleFlight
<1>1. Init => SingleFlight
  BY InitIInv DEF IInv
<1>. QED
  BY <1>1, SingleFlightStep, TypeCorrect, PTL DEF Spec

----------------------------------------------------------------------------
\* The part of the invariant about versions: fetches do not overtake each other.
Versions == FlightIsNewer /\ HistoryOrder

LEMMA VersionsStep ==
  TypeOK /\ SingleFlight /\ Versions /\ [Next]_vars => Versions'
<1>. SUFFICES ASSUME TypeOK, SingleFlight, FlightIsNewer, HistoryOrder, [Next]_vars
              PROVE  Versions'
  BY DEF Versions
<1>. USE CacheAssumption DEF CacheAssumption
<1>a. /\ server \in Nat /\ floor \in Nat /\ published \in Nat /\ cachedValue \in Nat
      /\ \A t \in Tasks : task[t].newValue \in Nat
  BY DEF TypeOK, Value, Version, Empty
\* With the flag clear no task is between its fetch and its publication.
<1>b. ASSUME ~refreshInProgress, NEW t \in Tasks PROVE task[t].pc # "fetched"
  BY <1>b, FreeFlag DEF Owners, Owns
<1>1. ASSUME NEW c \in Clients, GetValue(c) PROVE Versions'
  <2>1. \A t \in Tasks : task'[t].pc # "fetched"
    <3>1. \A t \in Tasks : task[t].pc # "fetched"
      BY <1>1, <1>b DEF GetValue, TakeFlag
    <3>. QED
      BY <1>1, <3>1 DEF GetValue, LaunchTask, NoTask, TypeOK
  <2>2. HistoryOrder'
    BY <1>1, <1>a DEF GetValue, TakeFlag, HistoryOrder
  <2>. QED
    BY <2>1, <2>2 DEF Versions, FlightIsNewer
<1>2. ASSUME NEW c \in Clients, ForceRefresh(c) PROVE Versions'
  <2>1. \A t \in Tasks : task'[t].pc # "fetched"
    BY <1>2, <1>b DEF ForceRefresh, TakeFlag
  <2>2. HistoryOrder'
    BY <1>2, <1>a DEF ForceRefresh, TakeFlag, HistoryOrder
  <2>. QED
    BY <2>1, <2>2 DEF Versions, FlightIsNewer
<1>3. ASSUME NEW c \in Clients, StartRefresh(c) PROVE Versions'
  <2>1. \A t \in Tasks : task'[t].pc = "fetched" => task'[t] = task[t]
    BY <1>3 DEF StartRefresh, LaunchTask, NoTask, TypeOK
  <2>. QED
    BY <1>3, <2>1 DEF StartRefresh, Versions, FlightIsNewer, HistoryOrder
<1>4. ASSUME NEW t \in Tasks, FetchNewValue(t) PROVE Versions'
  <2>1. t \in Owners
    BY <1>4 DEF FetchNewValue, Owners, Owns
  <2>2. refreshInProgress
    BY <2>1 DEF SingleFlight
  <2>3. \A u \in Tasks \ {t} : task'[u] = task[u]
    BY <1>4 DEF FetchNewValue, TypeOK
  <2>4. task'[t].newValue = server \/ task'[t].newValue = Empty
    BY <1>4 DEF FetchNewValue, TypeOK
  <2>. QED
    BY <1>4, <1>a, <2>2, <2>3, <2>4
       DEF FetchNewValue, history, Versions, FlightIsNewer, HistoryOrder
<1>5. ASSUME NEW t \in Tasks, FetchThrows(t) PROVE Versions'
  <2>1. \A u \in Tasks : task'[u].pc = "fetched" => task'[u] = task[u]
    BY <1>5 DEF FetchThrows, NoTask, TypeOK
  <2>. QED
    BY <1>5, <2>1 DEF FetchThrows, Versions, FlightIsNewer, HistoryOrder
<1>6. ASSUME NEW t \in Tasks, Publish(t) PROVE Versions'
  <2>1. t \in Owners
    BY <1>6 DEF Publish, Owners, Owns
  <2>2. refreshInProgress /\ \A u \in Tasks : task[u].pc = "fetched" => u = t
    BY <1>6, <2>1 DEF SingleFlight, Owners, Owns
  <2>3. \A u \in Tasks : task'[u].pc # "fetched"
    BY <1>6, <2>2 DEF Publish, TypeOK
  <2>4. task[t].newValue = Empty \/ task[t].newValue \in floor..server
    BY <1>6 DEF Publish, FlightIsNewer
  <2>5. HistoryOrder'
    BY <1>6, <1>a, <2>2, <2>4 DEF Publish, HistoryOrder, Empty
  <2>. QED
    BY <2>3, <2>5 DEF Versions, FlightIsNewer
<1>7. ASSUME NEW t \in Tasks, CachedValueUpdated(t) PROVE Versions'
  <2>1. \A u \in Tasks : task'[u].pc = "fetched" => task'[u] = task[u]
    BY <1>7 DEF CachedValueUpdated, NoTask, TypeOK
  <2>. QED
    BY <1>7, <2>1 DEF CachedValueUpdated, history, Versions, FlightIsNewer, HistoryOrder
<1>8. CASE ServerChange
  BY <1>8, <1>a DEF ServerChange, history, Versions, FlightIsNewer, HistoryOrder
<1>9. CASE Tick \/ SetClockBack \/ UNCHANGED vars
  BY <1>9 DEF Tick, SetClockBack, vars, history, Versions, FlightIsNewer, HistoryOrder
<1>. QED
  BY <1>1, <1>2, <1>3, <1>4, <1>5, <1>6, <1>7, <1>8, <1>9 DEF Next

\* The inductive invariant.
LEMMA Invariant == Spec => []IInv
<1>1. Init => IInv
  BY InitIInv
<1>2. IInv /\ [Next]_vars => IInv'
  BY TypeStep, SingleFlightStep, VersionsStep DEF IInv, Versions
<1>. QED
  BY <1>1, <1>2, PTL DEF Spec

\* Spec => []FlightIsNewer: what a task holds between its fetch and the lock is at
\* least as new as the request and as everything the cache has answered.
THEOREM FlightIsNewerHolds == Spec => []FlightIsNewer
BY Invariant, PTL DEF IInv

\* Spec => NeverBackwards: callers never see an older version after a newer one.
THEOREM NeverBackwardsHolds == Spec => NeverBackwards
<1>1. IInv /\ [Next]_vars =>
        [cachedValue' # cachedValue => cachedValue' = Empty \/ cachedValue' >= published]_vars
  <2>. SUFFICES ASSUME IInv, Next, cachedValue' # cachedValue
                PROVE  cachedValue' = Empty \/ cachedValue' >= published
    OBVIOUS
  <2>1. PICK t \in Tasks : Publish(t)
    BY DEF Next, GetValue, ForceRefresh, StartRefresh, FetchNewValue, FetchThrows,
           CachedValueUpdated, ServerChange, Tick, SetClockBack
  <2>2. task[t].newValue = Empty \/ (task[t].newValue \in floor..server /\ published <= floor)
    BY <2>1 DEF IInv, FlightIsNewer, Publish
  <2>3. floor \in Nat /\ server \in Nat /\ published \in Nat
    BY CacheAssumption DEF CacheAssumption, IInv, TypeOK, Value, Version, Empty
  <2>. QED
    BY <2>1, <2>2, <2>3 DEF Publish
<1>. QED
  BY <1>1, Invariant, PTL DEF Spec, NeverBackwards

\* Spec => LostIsFinal: once the thread of a refresh is lost, to an exception or to
\* a failed start, no later call ever changes the cached value.
THEOREM LostIsFinalHolds == Spec => LostIsFinal
<1>1. IInv /\ [Next]_vars =>
        [lost => lost' /\ UNCHANGED <<cachedValue, refreshInProgress>>]_vars
  <2>. SUFFICES ASSUME IInv, Next, lost
                PROVE  lost' /\ UNCHANGED <<cachedValue, refreshInProgress>>
    OBVIOUS
  <2>1. refreshInProgress /\ \A x \in Clients \cup Tasks : ~Owns(x)
    BY DEF IInv, SingleFlight, Owners
  <2>2. ASSUME NEW c \in Clients PROVE ~(GetValue(c) \/ ForceRefresh(c) \/ StartRefresh(c))
    BY <2>1 DEF GetValue, ForceRefresh, StartRefresh, TakeFlag, Owns
  <2>3. ASSUME NEW t \in Tasks PROVE ~(FetchNewValue(t) \/ FetchThrows(t) \/ Publish(t))
    BY <2>1 DEF FetchNewValue, FetchThrows, Publish, Owns
  <2>. QED
    BY <2>2, <2>3 DEF Next, CachedValueUpdated, ServerChange, Tick, SetClockBack, history
<1>. QED
  BY <1>1, Invariant, PTL DEF Spec, LostIsFinal

----------------------------------------------------------------------------
\* The refinement: with the threads, the lock and the clock forgotten, every step
\* of the cache is a step of the refreshed value or leaves it unchanged.
LEMMA InitRefines == Init => RV!Init
BY DEF Init, RV!Init, Empty, RV!Empty

LEMMA StepRefines == IInv /\ [Next]_vars => [RV!Next]_(RV!vars)
<1>. SUFFICES ASSUME IInv, [Next]_vars PROVE [RV!Next]_(RV!vars)
  OBVIOUS
<1>0. TypeOK /\ SingleFlight /\ FlightIsNewer
  BY DEF IInv
<1>1. ASSUME NEW c \in Clients, GetValue(c) PROVE RV!Ask \/ RV!AskAndAbandon
  <2>1. ~refreshInProgress /\ ~lost
    BY <1>0, <1>1, FreeFlag DEF GetValue, TakeFlag
  <2>2. UNCHANGED lost \/ lost' = TRUE
    BY <1>1 DEF GetValue, LaunchTask
  <2>. QED
    BY <1>1, <2>1, <2>2 DEF GetValue, TakeFlag, RV!Ask, RV!AskAndAbandon
<1>2. ASSUME NEW c \in Clients, ForceRefresh(c) PROVE RV!Ask
  BY <1>2 DEF ForceRefresh, TakeFlag, RV!Ask
<1>3. ASSUME NEW c \in Clients, StartRefresh(c) PROVE RV!Abandon \/ UNCHANGED RV!vars
  <2>1. refreshInProgress /\ ~lost
    BY <1>0, <1>3 DEF StartRefresh, SingleFlight, Owners, Owns
  <2>2. UNCHANGED lost \/ lost' = TRUE
    BY <1>3 DEF StartRefresh, LaunchTask
  <2>. QED
    BY <1>3, <2>1, <2>2 DEF StartRefresh, RV!Abandon, RV!vars
<1>4. ASSUME NEW t \in Tasks, FetchThrows(t) PROVE RV!Abandon
  <2>1. refreshInProgress /\ ~lost
    BY <1>0, <1>4 DEF FetchThrows, SingleFlight, Owners, Owns
  <2>. QED
    BY <1>4, <2>1 DEF FetchThrows, RV!Abandon
<1>5. ASSUME NEW t \in Tasks, Publish(t) PROVE RV!Complete
  <2>1. refreshInProgress /\ ~lost
    BY <1>0, <1>5 DEF Publish, SingleFlight, Owners, Owns
  <2>2. task[t].newValue \in (floor..server) \cup {Empty}
    BY <1>0, <1>5 DEF Publish, FlightIsNewer
  <2>. QED
    BY <1>5, <2>1, <2>2 DEF Publish, RV!Complete, Empty, RV!Empty
<1>6. CASE ServerChange
  BY <1>6 DEF ServerChange, history, RV!ServerChange, RV!Next
<1>7. ASSUME NEW t \in Tasks, FetchNewValue(t) \/ CachedValueUpdated(t)
      PROVE  UNCHANGED RV!vars
  BY <1>7 DEF FetchNewValue, CachedValueUpdated, history, RV!vars
<1>8. CASE Tick \/ SetClockBack \/ UNCHANGED vars
  BY <1>8 DEF Tick, SetClockBack, vars, history, RV!vars
<1>. QED
  BY <1>1, <1>2, <1>3, <1>4, <1>5, <1>6, <1>7, <1>8 DEF Next, RV!Next

\* Spec => RV!Spec: AbstractCache.h implements the refreshed value.
THEOREM Refinement == Spec => ImplementsRefreshedValue
BY InitRefines, StepRefines, Invariant, PTL DEF Spec, ImplementsRefreshedValue, RV!Spec


----------------------------------------------------------------------------
(* The cache of root folders.                                               *)

LEMMA RootInitInv == RootInit => ShellTypeOK /\ EveryChangeAnnounced
<1>. SUFFICES ASSUME RootInit PROVE ShellTypeOK /\ EveryChangeAnnounced
  OBVIOUS
<1>1. TypeOK /\ cachedValue = Empty
  BY InitIInv DEF RootInit, IInv, Init
<1>2. ASSUME NEW f \in Folders PROVE drawn[f] = Controlled(f)
  <2>1. Controlled(f) = FALSE
    BY <1>1, RootFoldersAssumption DEF RootFoldersAssumption, Controlled
  <2>2. drawn[f] = FALSE
    BY DEF RootInit
  <2>. QED
    BY <2>1, <2>2
<1>. QED
  BY <1>1, <1>2 DEF RootInit, ShellTypeOK, EveryChangeAnnounced

\* A step of RootNext is a step of the cache or leaves it alone.
LEMMA RootStepIsCacheStep == [RootNext]_allVars => [Next]_vars
BY DEF RootNext, CacheStep, IsPathControlled, PublishRootFolders, NotifyShell, NotifyDone,
       allVars, Next

LEMMA ShellTypeStep ==
  ASSUME ShellTypeOK, [RootNext]_allVars
  PROVE  /\ drawn' \in [Folders -> BOOLEAN]
         /\ dirty' \subseteq Folders
         /\ remaining' \in [Tasks -> SUBSET Folders]
<1>1. ASSUME NEW c \in Clients, NEW f \in Folders, IsPathControlled(c, f)
      PROVE  /\ drawn' \in [Folders -> BOOLEAN]
             /\ dirty' \subseteq Folders
             /\ remaining' \in [Tasks -> SUBSET Folders]
  <2>1. UNCHANGED shellVars \/ Draw(f)
    BY <1>1 DEF IsPathControlled
  <2>2. Controlled(f) \in BOOLEAN
    BY DEF Controlled
  <2>3. CASE Draw(f)
    BY <2>2, <2>3 DEF Draw, ShellTypeOK
  <2>4. CASE UNCHANGED shellVars
    BY <2>4 DEF shellVars, ShellTypeOK
  <2>. QED
    BY <2>1, <2>3, <2>4
<1>2. ASSUME NEW t \in Tasks, PublishRootFolders(t)
      PROVE  remaining' \in [Tasks -> SUBSET Folders] /\ UNCHANGED <<drawn, dirty>>
  <2>1. cachedValue \in Value /\ task[t].newValue \in Value
    BY DEF ShellTypeOK, TypeOK
  <2>2. RootFolders[cachedValue] \subseteq Folders /\ RootFolders[task[t].newValue] \subseteq Folders
    BY <2>1, RootFoldersAssumption DEF RootFoldersAssumption
  <2>. QED
    BY <1>2, <2>2 DEF PublishRootFolders, ShellTypeOK
<1>3. ASSUME NEW t \in Tasks, NEW f \in Folders, NotifyShell(t, f)
      PROVE  /\ remaining' \in [Tasks -> SUBSET Folders]
             /\ dirty' \subseteq Folders
             /\ UNCHANGED drawn
  BY <1>3 DEF NotifyShell, ShellTypeOK
<1>4. CASE CacheStep \/ (\E t \in Tasks : NotifyDone(t)) \/ UNCHANGED allVars
  BY <1>4 DEF CacheStep, NotifyDone, allVars, shellVars, ShellTypeOK
<1>. QED
  BY <1>1, <1>2, <1>3, <1>4 DEF RootNext, ShellTypeOK

LEMMA AnnouncedStep ==
  ASSUME ShellTypeOK, EveryChangeAnnounced, [RootNext]_allVars
  PROVE  EveryChangeAnnounced'
<1>. USE DEF EveryChangeAnnounced
\* Steps that neither publish nor end a notification keep the value and every task
\* that notifies.
<1>0. ASSUME UNCHANGED cachedValue, UNCHANGED shellVars,
             \A t \in Tasks : task[t].pc = "notifying" => task'[t] = task[t]
      PROVE  EveryChangeAnnounced'
  BY <1>0 DEF shellVars, Controlled
<1>1. ASSUME NEW c \in Clients, GetValue(c) \/ ForceRefresh(c) \/ StartRefresh(c)
      PROVE  /\ UNCHANGED cachedValue
             /\ \A t \in Tasks : task[t].pc = "notifying" => task'[t] = task[t]
  BY <1>1 DEF GetValue, ForceRefresh, StartRefresh, LaunchTask, ShellTypeOK, TypeOK
<1>2. ASSUME NEW t \in Tasks, FetchNewValue(t) \/ FetchThrows(t)
      PROVE  /\ UNCHANGED cachedValue
             /\ \A u \in Tasks : task[u].pc = "notifying" => task'[u] = task[u]
  BY <1>2 DEF FetchNewValue, FetchThrows, ShellTypeOK, TypeOK
<1>3. CASE CacheStep
  BY <1>0, <1>1, <1>2, <1>3 DEF CacheStep, ServerChange, Tick, SetClockBack
<1>4. ASSUME NEW c \in Clients, NEW f \in Folders, IsPathControlled(c, f)
      PROVE  EveryChangeAnnounced'
  <2>1. /\ UNCHANGED cachedValue
        /\ \A t \in Tasks : task[t].pc = "notifying" => task'[t] = task[t]
    BY <1>1, <1>4 DEF IsPathControlled, vars
  <2>2. CASE UNCHANGED shellVars
    BY <1>0, <2>1, <2>2
  <2>3. CASE Draw(f)
    <3>1. drawn'[f] = Controlled(f)'
      BY <2>1, <2>3 DEF Draw, Controlled, ShellTypeOK
    <3>2. \A g \in Folders \ {f} : drawn'[g] = drawn[g] /\ (g \in dirty <=> g \in dirty')
      BY <2>3 DEF Draw, ShellTypeOK
    <3>. QED
      BY <2>1, <2>3, <3>1, <3>2 DEF Draw, Controlled
  <2>. QED
    BY <1>4, <2>2, <2>3 DEF IsPathControlled
<1>5. ASSUME NEW t \in Tasks, PublishRootFolders(t) PROVE EveryChangeAnnounced'
  <2>. DEFINE old == RootFolders[cachedValue]
              new == RootFolders[task[t].newValue]
  <2>1. task'[t].pc = "notifying" /\ \A u \in Tasks \ {t} : task'[u] = task[u]
    BY <1>5 DEF PublishRootFolders, Publish, ShellTypeOK, TypeOK
  <2>2. /\ remaining'[t] = (old \ new) \cup (new \ old)
        /\ \A u \in Tasks \ {t} : remaining'[u] = remaining[u]
    BY <1>5 DEF PublishRootFolders, ShellTypeOK
  <2>3. task[t].pc = "fetched" /\ cachedValue' = task[t].newValue
    BY <1>5 DEF PublishRootFolders, Publish
  <2>4. SUFFICES ASSUME NEW f \in Folders, drawn'[f] # Controlled(f)'
                 PROVE  f \in dirty' \/ \E u \in Tasks : task'[u].pc = "notifying" /\ f \in remaining'[u]
    OBVIOUS
  <2>5. CASE Controlled(f)' = Controlled(f)
    <3>1. f \in dirty \/ \E u \in Tasks : task[u].pc = "notifying" /\ f \in remaining[u]
      BY <1>5, <2>4, <2>5 DEF PublishRootFolders
    <3>. QED
      BY <1>5, <2>1, <2>2, <2>3, <3>1 DEF PublishRootFolders
  <2>6. CASE Controlled(f)' # Controlled(f)
    <3>1. f \in remaining'[t]
      BY <2>2, <2>3, <2>6 DEF Controlled
    <3>. QED
      BY <2>1, <3>1
  <2>. QED
    BY <2>5, <2>6
<1>6. ASSUME NEW t \in Tasks, NEW f \in Folders, NotifyShell(t, f) PROVE EveryChangeAnnounced'
  <2>1. \A u \in Tasks, g \in Folders :
          g \in remaining[u] => g \in remaining'[u] \/ g \in dirty'
    BY <1>6 DEF NotifyShell, ShellTypeOK
  <2>2. /\ UNCHANGED <<cachedValue, drawn, task>>
        /\ dirty \subseteq dirty'
    BY <1>6 DEF NotifyShell, vars
  <2>. QED
    BY <2>1, <2>2 DEF Controlled
<1>7. ASSUME NEW t \in Tasks, NotifyDone(t) PROVE EveryChangeAnnounced'
  <2>1. \A u \in Tasks : u # t => task'[u] = task[u]
    BY <1>7 DEF NotifyDone, CachedValueUpdated, ShellTypeOK, TypeOK
  <2>2. remaining[t] = {} /\ UNCHANGED shellVars /\ UNCHANGED cachedValue
    BY <1>7 DEF NotifyDone, CachedValueUpdated
  <2>. QED
    BY <2>1, <2>2 DEF shellVars, Controlled
<1>8. CASE UNCHANGED allVars
  BY <1>8 DEF allVars, vars, shellVars, Controlled
<1>. QED
  BY <1>3, <1>4, <1>5, <1>6, <1>7, <1>8 DEF RootNext

LEMMA RootInvariant == RootSpec => [](ShellTypeOK /\ EveryChangeAnnounced)
<1>1. RootInit => ShellTypeOK /\ EveryChangeAnnounced
  BY RootInitInv
<1>2. ShellTypeOK /\ EveryChangeAnnounced /\ [RootNext]_allVars
        => (ShellTypeOK /\ EveryChangeAnnounced)'
  BY RootStepIsCacheStep, TypeStep, ShellTypeStep, AnnouncedStep DEF ShellTypeOK
<1>. QED
  BY <1>1, <1>2, PTL DEF RootSpec

\* RootSpec => []ShellTypeOK: the notifications of any number of tasks stay within
\* the folders, whatever the cache does meanwhile.
THEOREM ShellTypeCorrect == RootSpec => []ShellTypeOK
BY RootInvariant, PTL

\* RootSpec => []EveryChangeAnnounced: whatever the interleaving of drawing, refreshes
\* and late notifications, a folder shown otherwise than the cache would answer now
\* is one Explorer has been, or will be, told to draw again.
THEOREM EveryChangeAnnouncedHolds == RootSpec => []EveryChangeAnnounced
BY RootInvariant, PTL

\* RootSpec => Spec: the cache of root folders is an AbstractCache, so what
\* TypeCorrect to LostIsFinalHolds show holds of it.
THEOREM RootIsCache == RootSpec => Spec
<1>1. RootInit => Init
  BY DEF RootInit
<1>. QED
  BY <1>1, RootStepIsCacheStep, PTL DEF RootSpec, Spec

=============================================================================
