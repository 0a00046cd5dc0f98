-------------------------- MODULE ClientCommands --------------------------
(***************************************************************************)
(* Integrity/IntegritySession.cpp and IntegrityActions.cpp: how the        *)
(* threads of the processes that have loaded the extension run commands of *)
(* the Integrity client, and the locks they hold meanwhile.  A command may *)
(* take as long as it likes, it calls the error handlers of the session    *)
(* before it returns, and it may put up a message box.                     *)
(*                                                                         *)
(* A course of an operation is the sequence of the locks it takes and      *)
(* releases and of the commands it runs, as the call tree of the code      *)
(* gives it; what it computes is in the modules of the caches.  A lock     *)
(* that is taken again by its holder (std::recursive_mutex, a named mutex) *)
(* appears once.  The connection mutex is shared by all processes, the     *)
(* other locks are the process's own.                                      *)
(***************************************************************************)
EXTENDS Naturals, Sequences

CONSTANTS
  Threads,
  Processes,     \* processes that have loaded the extension
  Operations,    \* the operations the threads perform, of OperationNames
  Nobody         \* no thread

OperationNames == {"getFileStatus", "refreshServers", "refreshFolders", "connect",
                   "executeUserCommand"}

ASSUME CommandAssumption ==
  /\ Nobody \notin Threads
  /\ Operations \subseteq OperationNames

VARIABLES
  process,      \* process[t]: the process of thread t
  operation,    \* operation[t]: what thread t performs
  todo,         \* todo[t]: the rest of it
  holder,       \* holder[k]: the thread that holds lock k
  showing       \* showing[p]: bShowingDialog of process p

vars == <<process, operation, todo, holder, showing>>

----------------------------------------------------------------------------
LockNames == {"action", "state", "servers", "folders", "statuses"}

\* The named mutex "TortoiseSI Connection Mutex" is the same one everywhere.
LockOf(t, name) == IF name = "state" THEN <<name>> ELSE <<name, process[t]>>
Locks == {<<"state">>} \cup ((LockNames \ {"state"}) \X Processes)

Lock(name)   == [do |-> "lock", on |-> name]
Unlock(name) == [do |-> "unlock", on |-> name]
Guarded(name, steps) == <<Lock(name)>> \o steps \o <<Unlock(name)>>

\* Of a command: it runs; the client could not be reached: the flag of the message
\* box is read, set, and the box is up.
Step(do) == [do |-> do, on |-> "command"]
Run      == Step("run")
CommandSteps == {"run", "check", "set", "box"}
Steps == [do : {"lock", "unlock"}, on : LockNames] \cup {Step(do) : do \in CommandSteps}

\* isOnline: when Online it does not look at the list of servers.
IsOnline == {Guarded("state", <<>>), Guarded("state", Guarded("servers", <<>>))}
FileInfo == Guarded("action", <<Run>>)

\* Mutant: getValue waits for the refresh it starts.
GetFileStatusWaiting ==
  {Guarded("state", Guarded("servers", Guarded("action", <<Run>>)))}

\* getPathStatus: the path is not controlled; or getFileStatus, which returns when
\* offline, when the search finds the path, or when fileInfo's status is added.
GetFileStatus ==
  LET controlled   == Guarded("folders", <<>>)
      searched(on) == controlled \o on \o Guarded("statuses", <<>>)
  IN {controlled} \cup UNION {{controlled \o on, searched(on),
                               searched(on) \o FileInfo \o Guarded("statuses", <<>>)} :
                              on \in IsOnline}

\* updateCacheValue of ServerConnections: servers, the publication, and what
\* cachedValueUpdated does for a list that is not empty.
RefreshServers ==
  LET published == Guarded("action", <<Run>>) \o Guarded("servers", <<>>)
  IN {published, published \o Guarded("state", <<>>)}

\* Mutant: folders does not take the action mutex.
RefreshFoldersUnlocked == {<<Run>> \o Guarded("folders", <<>>)}

\* updateCacheValue of RootFolderCache: folders and the publication.
RefreshFolders == {Guarded("action", <<Run>>) \o Guarded("folders", <<>>)}

\* tryToConnect: connect takes no mutex; forceRefresh when it succeeds; the transition.
Connect == {<<Run>> \o Guarded("servers", <<>>) \o Guarded("state", <<>>),
            <<Run>> \o Guarded("state", <<>>)}

\* executeUserCommand: no mutex; onDone does nothing, clears the statuses or
\* refreshes the root folders.
ExecuteUserCommand == {<<Run>>, <<Run>> \o Guarded("statuses", <<>>),
                       <<Run>> \o Guarded("folders", <<>>)}

CoursesOf(name) ==
  CASE name = "getFileStatus"      -> GetFileStatus
    [] name = "refreshServers"     -> RefreshServers
    [] name = "refreshFolders"     -> RefreshFolders
    [] name = "connect"            -> Connect
    [] name = "executeUserCommand" -> ExecuteUserCommand

\* onConnectionError, called by execute in the thread of the failed command.
ErrorHandler == Guarded("state", <<>>)

Idle(t)   == operation[t] = "none"
At(t, do) == todo[t] # <<>> /\ Head(todo[t]).do = do
Key(t)    == LockOf(t, Head(todo[t]).on)
Running(t) == At(t, "run")

\* Thread t replaces the step it is at by a sequence of steps; its operation ends
\* with the last one.
Replace(t, steps) ==
  /\ todo' = [todo EXCEPT ![t] = steps \o Tail(@)]
  /\ operation' = [operation EXCEPT ![t] = IF todo'[t] = <<>> THEN "none" ELSE @]

\* Locks are held by scoped objects: who holds one still has its release to do.
TypeOK ==
  /\ process \in [Threads -> Processes]
  /\ operation \in [Threads -> Operations \cup {"none"}]
  /\ todo \in [Threads -> Seq(Steps)]
  /\ holder \in [Locks -> Threads \cup {Nobody}]
  /\ \A t \in Threads, name \in LockNames :
       holder[LockOf(t, name)] = t => \E i \in 1..Len(todo[t]) : todo[t][i] = Unlock(name)
  /\ showing \in [Processes -> BOOLEAN]

Init ==
  /\ process \in [Threads -> Processes]
  /\ operation = [t \in Threads |-> "none"]
  /\ todo = [t \in Threads |-> <<>>]
  /\ holder = [k \in Locks |-> Nobody]
  /\ showing = [p \in Processes |-> FALSE]

----------------------------------------------------------------------------
Begin(t, name) ==
  /\ Idle(t)
  /\ operation' = [operation EXCEPT ![t] = name]
  /\ \E course \in CoursesOf(name) : todo' = [todo EXCEPT ![t] = course]
  /\ UNCHANGED <<process, holder, showing>>

Acquire(t) ==
  /\ At(t, "lock")
  /\ holder[Key(t)] = Nobody
  /\ holder' = [holder EXCEPT ![Key(t)] = t]
  /\ Replace(t, <<>>)
  /\ UNCHANGED <<process, showing>>

Release(t) ==
  /\ At(t, "unlock")
  /\ holder' = [holder EXCEPT ![Key(t)] = Nobody]
  /\ Replace(t, <<>>)
  /\ UNCHANGED <<process, showing>>

\* IntegritySession::execute, from the return of the command runner: a response,
\* with or without an exception for the error handlers; or none, for want of
\* communication with the client.
Return(t) ==
  /\ Running(t)
  /\ \/ Replace(t, <<>>)
     \/ Replace(t, ErrorHandler)
     \/ Replace(t, <<Step("check")>>)
  /\ UNCHANGED <<process, holder, showing>>

\* if (bShowingDialog == false) ... bShowingDialog.store(true)
CheckShowing(t) ==
  /\ At(t, "check")
  /\ Replace(t, IF showing[process[t]] THEN <<>> ELSE <<Step("set")>>)
  /\ UNCHANGED <<process, holder, showing>>

ShowDialog(t) ==
  /\ At(t, "set")
  /\ showing' = [showing EXCEPT ![process[t]] = TRUE]
  /\ Replace(t, <<Step("box")>>)
  /\ UNCHANGED <<process, holder>>

CloseDialog(t) ==
  /\ At(t, "box")
  /\ showing' = [showing EXCEPT ![process[t]] = FALSE]
  /\ Replace(t, <<>>)
  /\ UNCHANGED <<process, holder>>

\* What a thread does without waiting for another.
Proceed(t) == \/ Release(t) \/ Return(t)
              \/ CheckShowing(t) \/ ShowDialog(t) \/ CloseDialog(t)

Next == \E t \in Threads :
          (\E name \in Operations : Begin(t, name)) \/ Acquire(t) \/ Proceed(t)

Spec == Init /\ [][Next]_vars

\* Threads run, a command returns, the user closes the message box.  A mutex is
\* strong: a thread that waits for one that is released again and again gets it,
\* which Windows grants in practice though it promises no order.
Fairness == \A t \in Threads : WF_vars(Proceed(t)) /\ SF_vars(Acquire(t))

FairSpec == Spec /\ Fairness

----------------------------------------------------------------------------
\* Locks are taken in one order, in every thread of every process: error handlers
\* take the connection mutex of all processes inside the action mutex, isOnline takes
\* a cache's lock inside the connection mutex, and nobody the other way round.
Rank(name) == CASE name = "action" -> 1 [] name = "state" -> 2 [] OTHER -> 3
LockOrder ==
  \A t \in Threads : At(t, "lock") =>
    \A name \in LockNames :
      holder[LockOf(t, name)] = t => Rank(name) < Rank(Head(todo[t]).on)

\* No set of threads waits on itself.
WaitsFor(t, u) == At(t, "lock") /\ holder[Key(t)] = u
NoWaitCycle ==
  \A S \in (SUBSET Threads) \ {{}} : \E t \in S : \A u \in S : ~WaitsFor(t, u)

\* The commands of the three caches of one process never overlap.
CacheCommands == {"getFileStatus", "refreshServers", "refreshFolders"}
CommandsSerial ==
  \A t, u \in Threads :
    /\ process[t] = process[u]
    /\ Running(t) /\ operation[t] \in CacheCommands
    /\ Running(u) /\ operation[u] \in CacheCommands
    => t = u

\* Every operation comes to its end, the one behind a message box included.
OperationsEnd == \A t \in Threads : ~Idle(t) ~> Idle(t)

=============================================================================
