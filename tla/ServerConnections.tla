------------------------ MODULE ServerConnections ------------------------
(***************************************************************************)
(* TortoiseShell/ServerConnections.cpp: is the Integrity client connected  *)
(* to its server?  Explorer, and every program that opens a file dialog,   *)
(* loads the extension: the processes share one answer, a registry value,  *)
(* guarded by a named mutex, and each has its own AbstractCache of the     *)
(* names of the connected servers.  When they do not know, or a command    *)
(* fails for want of a connection, one of them runs `si connect' in a      *)
(* thread of its own, which asks the user to log in.                       *)
(*                                                                         *)
(* A section that reads the registry and then writes it is two steps, for  *)
(* one write of the code does not take the mutex.  Of the cached list only *)
(* being empty or not matters; one refresh of it runs at a time, which is  *)
(* SingleFlight of AbstractCache, and its expiry may fall at any moment.   *)
(***************************************************************************)
EXTENDS Integers

CONSTANTS
  Processes,    \* processes that have loaded the extension
  Attempts,     \* threads that can run tryToConnect (a bound)
  NoAttempt,    \* no thread of Attempts
  MaxDrops,     \* bound on how often the server connection is lost
  MaxCrashes,   \* bound on how many times a process ends or is killed
  MaxErrors,    \* bound on commands of a process failing at the same time
  MaxNotices,   \* bound on cachedValueUpdated calls waiting in a process
  Faults,       \* the failures that can occur, of FaultKinds
  MaxFaults     \* bound on how many of them occur

\* "answer": `si servers' fails and the fetch returns an empty vector.
\* "start" : std::async cannot start a thread and throws to its caller.
FaultKinds == {"answer", "start"}

ASSUME ConnectionAssumption ==
  /\ NoAttempt \notin Attempts
  /\ MaxDrops \in Nat
  /\ MaxCrashes \in Nat
  /\ MaxErrors \in Nat
  /\ MaxNotices \in Nat
  /\ Faults \subseteq FaultKinds
  /\ MaxFaults \in Nat

VARIABLES
  connectionState,  \* the registry value; it outlives the processes
  section,          \* who is between a read and a write of it, with the mutex
  connected,        \* whether the Integrity client is connected to a server
  alive,            \* alive[p]: process p runs
  servers,          \* servers[p]: the cached list of process p is not empty
  flight,           \* flight[p]: the refresh of that list
  notices,          \* notices[p]: refreshes of p yet to call cachedValueUpdated
  errors,           \* errors[p]: failed commands of p yet to call onConnectionError
  attempt,          \* attempt[a]: whose connect thread a is, and where it is
  drops, crashes, faults,
  orphan            \* history: the writer of connectionState may be dead

vars == <<connectionState, section, connected, alive, servers, flight, notices,
          errors, attempt, drops, crashes, faults, orphan>>
registry == <<connectionState, orphan>>
cache    == <<servers, flight>>
world    == <<connected, alive, drops, crashes>>

----------------------------------------------------------------------------
ConnectionState == {"Online", "Offline", "Prompting", "Uninitialized"}

NoSection == [proc |-> "none", to |-> "Uninitialized", by |-> NoAttempt]
Section(p, to, a) == [proc |-> p, to |-> to, by |-> a]
Free == section = NoSection

Flights == {"idle", "fetching", "some", "none", "lost"}

\* executing: `si connect' is on its way; raised: it failed for want of a
\* connection and the error handler is to run; failed, linked: connect returned
\* false, true; refreshed: forceRefresh is done; threw: tryToConnect threw.
Phases == {"idle", "executing", "raised", "failed", "linked", "refreshed", "threw"}
NoTask == [proc |-> "none", pc |-> "idle"]
Busy   == {a \in Attempts : attempt[a].pc # "idle"}

At(a, pc)   == attempt[a].pc = pc
Goto(a, pc) == attempt' = [attempt EXCEPT ![a].pc = pc]
Finish(a)   == attempt' = [attempt EXCEPT ![a] = NoTask]

Fault(kind) == /\ kind \in Faults
               /\ faults < MaxFaults
               /\ faults' = faults + 1

TypeOK ==
  /\ connectionState \in ConnectionState
  /\ section \in [proc : Processes, to : ConnectionState, by : Attempts \cup {NoAttempt}]
                   \cup {NoSection}
  /\ connected \in BOOLEAN
  /\ alive \in [Processes -> BOOLEAN]
  /\ servers \in [Processes -> BOOLEAN]
  /\ flight \in [Processes -> Flights]
  /\ notices \in [Processes -> 0..MaxNotices]
  /\ errors \in [Processes -> 0..MaxErrors]
  /\ attempt \in [Attempts -> [proc : Processes \cup {"none"}, pc : Phases]]
  /\ drops \in 0..MaxDrops
  /\ crashes \in 0..MaxCrashes
  /\ faults \in 0..MaxFaults
  /\ orphan \in BOOLEAN

\* The processes have just constructed the object; whatever an earlier process
\* left in the registry is still there.
Init ==
  /\ connectionState \in ConnectionState
  /\ section = NoSection
  /\ connected \in BOOLEAN
  /\ alive = [p \in Processes |-> TRUE]
  /\ servers = [p \in Processes |-> FALSE]
  /\ flight = [p \in Processes |-> "fetching"]
  /\ notices = [p \in Processes |-> 0]
  /\ errors = [p \in Processes |-> 0]
  /\ attempt = [a \in Attempts |-> NoTask]
  /\ drops = 0 /\ crashes = 0 /\ faults = 0
  /\ orphan = (connectionState = "Prompting")

----------------------------------------------------------------------------
\* Mutant: the enum's values are off by one in the registry.
WriteShifted(s) == /\ connectionState' = IF s = "Offline" THEN "NumStates" ELSE s
                   /\ orphan' = FALSE

\* A write of the registry value.
Write(s) == connectionState' = s /\ orphan' = FALSE

\* Bound: nobody decides to connect while every thread of Attempts is in use.
HasThread(decide) == decide.to = "Prompting" => Busy # Attempts

\* A refresh of the cached list starts; its thread starts, or does not.
StartFlight(p) ==
  \/ /\ flight' = [flight EXCEPT ![p] = "fetching"]
     /\ UNCHANGED faults
  \/ /\ Fault("start")
     /\ flight' = [flight EXCEPT ![p] = "lost"]

\* getValue() of isOnline: the list as it is, and a refresh when it has expired.
\* No thread for the refresh: the exception leaves isOnline, which writes nothing.
AskServers(p, decide) ==
  \/ /\ UNCHANGED <<flight, faults>>
     /\ section' = decide
  \/ /\ flight[p] = "idle"
     /\ StartFlight(p)
     /\ section' = IF flight'[p] = "lost" THEN NoSection ELSE decide

\* Mutant: only an uninitialized state looks at the list.
IsOnlineOnce(p) ==
  /\ alive[p] /\ Free
  /\ connectionState = "Uninitialized"
  /\ AskServers(p, Section(p, IF servers[p] THEN "Online" ELSE "Prompting", NoAttempt))
  /\ UNCHANGED <<registry, servers, notices, errors, attempt, world>>

\* isOnline reads the state; when Online that is all it does.
IsOnline(p) ==
  /\ alive[p] /\ Free
  /\ connectionState # "Online"
  /\ LET decide == IF servers[p] THEN Section(p, "Online", NoAttempt)
                   ELSE IF connectionState = "Uninitialized"
                        THEN Section(p, "Prompting", NoAttempt)
                        ELSE NoSection
     IN HasThread(decide) /\ AskServers(p, decide)
  /\ UNCHANGED <<registry, servers, notices, errors, attempt, world>>

\* Mutants: the error id does not match; the state is not read first.
OnConnectionErrorIgnored(p, a) ==
  /\ a = NoAttempt /\ errors[p] > 0 /\ Free
  /\ errors' = [errors EXCEPT ![p] = @ - 1]
  /\ UNCHANGED <<registry, section, cache, notices, attempt, faults, world>>

OnConnectionErrorAlways(p, a) ==
  /\ a = NoAttempt /\ errors[p] > 0 /\ Free
  /\ errors' = [errors EXCEPT ![p] = @ - 1]
  /\ section' = Section(p, "Prompting", a)
  /\ UNCHANGED <<registry, cache, notices, attempt, faults, world>>

\* onConnectionError, in the thread whose command failed: a connect thread's own
\* `si connect' (a) or another command of process p (NoAttempt).
OnConnectionError(p, a) ==
  /\ Free
  /\ \/ /\ a = NoAttempt
        /\ errors[p] > 0
        /\ errors' = [errors EXCEPT ![p] = @ - 1]
        /\ UNCHANGED attempt
     \/ /\ a \in Attempts /\ At(a, "raised") /\ attempt[a].proc = p
        /\ Goto(a, "failed")
        /\ UNCHANGED errors
  /\ section' = IF connectionState = "Online" THEN Section(p, "Prompting", a)
                                              ELSE NoSection
  /\ HasThread(section')
  /\ UNCHANGED <<registry, cache, notices, faults, world>>

\* cachedValueUpdated with a list that is not empty; with an empty one it does
\* nothing and Publish has ended the task.
CachedValueUpdated(p) ==
  /\ Free
  /\ notices[p] > 0
  /\ notices' = [notices EXCEPT ![p] = @ - 1]
  /\ section' = IF connectionState \in {"Offline", "Uninitialized"}
                THEN Section(p, "Online", NoAttempt) ELSE NoSection
  /\ UNCHANGED <<registry, cache, errors, attempt, faults, world>>

\* The nested transitionTo...State of these three, and the release of the mutex.
LeaveOnline ==
  /\ section.to = "Online"
  /\ Write("Online")
  /\ section' = NoSection
  /\ UNCHANGED <<cache, notices, errors, attempt, faults, world>>

LeavePrompting ==
  /\ section.to = "Prompting"
  /\ section' = NoSection
  /\ \/ /\ Write("Prompting")
        /\ \E a \in Attempts \ Busy :
             attempt' = [attempt EXCEPT ![a] = [proc |-> section.proc, pc |-> "executing"]]
        /\ UNCHANGED faults
     \/ /\ Fault("start")
        /\ Write("Offline")
        /\ attempt' = IF section.by = NoAttempt THEN attempt
                      ELSE [attempt EXCEPT ![section.by].pc = "threw"]
  /\ UNCHANGED <<cache, notices, errors, world>>

----------------------------------------------------------------------------
\* Mutant: the exit code of a cancelled `si connect' is not looked at.
ConnectIgnoresExitCode(a) ==
  /\ At(a, "executing")
  /\ Goto(a, "linked")
  /\ connected' \in {connected, TRUE}
  /\ UNCHANGED <<registry, section, cache, notices, errors, alive, drops, crashes, faults>>

\* tryToConnect.  The client answers `si connect': it is or becomes connected;
\* it cannot; the user closes the dialog.  Bound: not every thread is "raised" at
\* once, so that the handler of one can get the thread it asks for.
Connect(a) ==
  /\ At(a, "executing")
  /\ \/ Goto(a, "linked") /\ connected' = TRUE
     \/ /\ ~connected
        /\ \E b \in Attempts \ {a} : ~At(b, "raised")
        /\ Goto(a, "raised")
        /\ UNCHANGED connected
     \/ ~connected /\ Goto(a, "failed") /\ UNCHANGED connected
  /\ UNCHANGED <<registry, section, cache, notices, errors, alive, drops, crashes, faults>>

\* forceRefresh: nothing when a refresh is in progress or was lost.
ForceRefresh(a) ==
  /\ At(a, "linked")
  /\ LET p == attempt[a].proc IN
     \/ /\ flight[p] # "idle"
        /\ Goto(a, "refreshed")
        /\ UNCHANGED <<flight, faults>>
     \/ /\ flight[p] = "idle"
        /\ StartFlight(p)
        /\ Goto(a, IF flight'[p] = "lost" THEN "threw" ELSE "refreshed")
  /\ UNCHANGED <<registry, section, servers, notices, errors, world>>

TransitionToOnlineState(a) ==
  /\ At(a, "refreshed") /\ Free
  /\ Write("Online")
  /\ Finish(a)
  /\ UNCHANGED <<section, cache, notices, errors, faults, world>>

TransitionToOfflineState(a) ==
  /\ At(a, "failed") /\ Free
  /\ Write("Offline")
  /\ Finish(a)
  /\ UNCHANGED <<section, cache, notices, errors, faults, world>>

\* Mutant: no catch, the exception ends the thread.
ConnectThrewSilently(a) ==
  /\ At(a, "threw")
  /\ Finish(a)
  /\ UNCHANGED <<registry, section, cache, notices, errors, faults, world>>

\* The catch in the lambda of transitionToPromptingState writes without the mutex.
ConnectThrew(a) ==
  /\ At(a, "threw")
  /\ Write("Offline")
  /\ Finish(a)
  /\ UNCHANGED <<section, cache, notices, errors, faults, world>>

----------------------------------------------------------------------------
\* The refresh of the cached list: `si servers' asks the client, not the server.
FetchNewValue(p) ==
  /\ flight[p] = "fetching"
  /\ \/ /\ flight' = [flight EXCEPT ![p] = IF connected THEN "some" ELSE "none"]
        /\ UNCHANGED faults
     \/ /\ Fault("answer")
        /\ flight' = [flight EXCEPT ![p] = "none"]
  /\ UNCHANGED <<registry, section, servers, notices, errors, attempt, world>>

Publish(p) ==
  /\ flight[p] \in {"some", "none"}
  /\ flight' = [flight EXCEPT ![p] = "idle"]
  /\ servers' = [servers EXCEPT ![p] = flight[p] = "some"]
  /\ \/ /\ flight[p] = "some"
        /\ notices[p] < MaxNotices
        /\ notices' = [notices EXCEPT ![p] = @ + 1]
     \/ flight[p] = "none" /\ UNCHANGED notices
  /\ UNCHANGED <<registry, section, errors, attempt, faults, world>>

\* Another command of process p needs the server: a status, a sandbox view.
CommandFails(p) ==
  /\ alive[p] /\ ~connected
  /\ errors[p] < MaxErrors
  /\ errors' = [errors EXCEPT ![p] = @ + 1]
  /\ UNCHANGED <<registry, section, cache, notices, attempt, faults, world>>

----------------------------------------------------------------------------
\* The world: the client loses its server, or the user logs in from the client.
Drop ==
  /\ connected /\ drops < MaxDrops
  /\ connected' = FALSE
  /\ drops' = drops + 1
  /\ UNCHANGED <<registry, section, cache, notices, errors, attempt, alive, crashes, faults>>

Logon ==
  /\ ~connected
  /\ connected' = TRUE
  /\ UNCHANGED <<registry, section, cache, notices, errors, attempt, alive, drops,
                 crashes, faults>>

\* A process ends.  A mutex it held is abandoned: the next wait succeeds.
Crash(p) ==
  /\ alive[p] /\ crashes < MaxCrashes
  /\ crashes' = crashes + 1
  /\ alive' = [alive EXCEPT ![p] = FALSE]
  /\ section' = IF section.proc = p THEN NoSection ELSE section
  /\ attempt' = [a \in Attempts |-> IF attempt[a].proc = p THEN NoTask ELSE attempt[a]]
  /\ flight' = [flight EXCEPT ![p] = "idle"]
  /\ servers' = [servers EXCEPT ![p] = FALSE]
  /\ notices' = [notices EXCEPT ![p] = 0]
  /\ errors' = [errors EXCEPT ![p] = 0]
  /\ orphan' = (orphan \/ \E a \in Busy : attempt[a].proc = p)
  /\ UNCHANGED <<connectionState, connected, drops, faults>>

Restart(p) ==
  /\ ~alive[p]
  /\ alive' = [alive EXCEPT ![p] = TRUE]
  /\ flight' = [flight EXCEPT ![p] = "fetching"]
  /\ UNCHANGED <<registry, section, servers, notices, errors, attempt, connected,
                 drops, crashes, faults>>

Next ==
  \/ \E p \in Processes :
       \/ IsOnline(p) \/ CachedValueUpdated(p)
       \/ \E a \in Attempts \cup {NoAttempt} : OnConnectionError(p, a)
       \/ FetchNewValue(p) \/ Publish(p) \/ CommandFails(p)
       \/ Crash(p) \/ Restart(p)
  \/ LeaveOnline \/ LeavePrompting
  \/ \E a \in Attempts : \/ Connect(a) \/ ForceRefresh(a) \/ ConnectThrew(a)
                         \/ TransitionToOnlineState(a) \/ TransitionToOfflineState(a)
  \/ Drop \/ Logon

Spec == Init /\ [][Next]_vars

\* A started thread runs on, Explorer keeps asking and keeps reading statuses while
\* it believes to be online; a connect dialog may stay open for ever.  Who waits for
\* the mutex gets it, though it is taken and released by others: strong.  That a poll
\* finds the list expired is strong as well: the registry value may change between
\* polls, but 30 seconds pass whatever it is.
Refreshing(p)  == IsOnline(p) /\ flight'[p] = "fetching" /\ flight[p] = "idle"
EntersMutex(a) == \/ TransitionToOnlineState(a) \/ TransitionToOfflineState(a)
                  \/ \E p \in Processes : OnConnectionError(p, a)

Fairness ==
  /\ \A p \in Processes :
       /\ WF_vars(IsOnline(p)) /\ SF_vars(Refreshing(p))
       /\ SF_vars(CachedValueUpdated(p)) /\ SF_vars(OnConnectionError(p, NoAttempt))
       /\ WF_vars(FetchNewValue(p)) /\ WF_vars(Publish(p))
       /\ WF_vars(connectionState = "Online" /\ CommandFails(p))
  /\ WF_vars(LeaveOnline) /\ WF_vars(LeavePrompting)
  /\ \A a \in Attempts : /\ WF_vars(ForceRefresh(a)) /\ WF_vars(ConnectThrew(a))
                         /\ SF_vars(EntersMutex(a))

FairSpec == Spec /\ Fairness

----------------------------------------------------------------------------
\* While the registry says Prompting there is a connect thread that will write it
\* again, in whatever order the threads of all processes run and fail; only a
\* process that ends with its connect thread can leave a Prompting behind.
PromptingHasConnect == connectionState = "Prompting" => orphan \/ Busy # {}

\* Nobody claims to be online on no evidence: without a lost connection, a process
\* writes Online only when the client is connected, although it decides from a
\* cached list, a notice or a connect that may be long over when it writes.
OnlineIsEvidenced ==
  [][connectionState # "Online" /\ connectionState' = "Online" => connected \/ drops > 0]_vars

\* What it decides from is backed by a connection, now or before a loss.
Evidence ==
  \/ \E p \in Processes : servers[p] \/ flight[p] = "some" \/ notices[p] > 0
  \/ \E a \in Attempts : attempt[a].pc \in {"linked", "refreshed"}
EvidenceBacked == drops > 0 \/ connected \/ (~Evidence /\ section.to # "Online")

IInv == TypeOK /\ PromptingHasConnect /\ EvidenceBacked

\* Once every process knows that there is no server, the registry says Offline and
\* nobody is deciding, the extension stays offline, and so asks no user to log in,
\* until somebody is connected: "will work silently in offline mode".
Silent == connectionState = "Offline" /\ ~connected /\ Free /\ ~Evidence
OfflineIsSilent == [][Silent => connectionState' = "Offline" /\ (Silent' \/ connected')]_vars

\* With a server that stays connected, and however the processes started, what
\* they found in the registry included, the answer becomes and stays Online, unless
\* no process runs or a refresh was lost.
NoneAlive == \A p \in Processes : ~alive[p]
SomeLost  == \E p \in Processes : flight[p] = "lost"
Recovers == <>[]connected => <>[](connectionState = "Online" \/ NoneAlive \/ SomeLost)

\* With no server for good, the answer becomes and stays something else, when the
\* user, or the client, ends every connect dialog: with the bound on Attempts, dialogs
\* that stay open would keep later errors from being handled at all.
DialogsEnd == \A a \in Attempts : []<>(~At(a, "executing"))
OfflineDetected ==
  DialogsEnd /\ <>[](~connected)
    => <>[](connectionState # "Online" \/ NoneAlive \/ SomeLost)

=============================================================================
