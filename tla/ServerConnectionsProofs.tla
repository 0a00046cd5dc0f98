---------------------- MODULE ServerConnectionsProofs ----------------------
(***************************************************************************)
(* What TLAPS proves of ServerConnections, for any number of processes and *)
(* connect threads and any bounds.                                         *)
(***************************************************************************)
EXTENDS ServerConnections, TLAPS

\* Every variable keeps its type: one case per operation.
LEMMA TypeStep == ASSUME TypeOK, [Next]_vars PROVE TypeOK'
<1> USE ConnectionAssumption DEF ConnectionAssumption, TypeOK, ConnectionState,
        NoSection, Flights, Phases, NoTask, registry, cache, world
<1>1. ASSUME NEW p \in Processes, IsOnline(p) PROVE TypeOK'
  BY <1>1 DEF IsOnline, AskServers, StartFlight, Section, Fault
<1>2. ASSUME NEW p \in Processes, CachedValueUpdated(p) PROVE TypeOK'
  BY <1>2 DEF CachedValueUpdated, Section
<1>3. ASSUME NEW p \in Processes, NEW a \in Attempts \cup {NoAttempt},
             OnConnectionError(p, a) PROVE TypeOK'
  BY <1>3 DEF OnConnectionError, Section, Goto, At
<1>4. ASSUME NEW p \in Processes, FetchNewValue(p) PROVE TypeOK'
  BY <1>4 DEF FetchNewValue, Fault
<1>5. ASSUME NEW p \in Processes, Publish(p) PROVE TypeOK'
  BY <1>5 DEF Publish
<1>6. ASSUME NEW p \in Processes, CommandFails(p) PROVE TypeOK'
  BY <1>6 DEF CommandFails
<1>7. ASSUME NEW p \in Processes, Crash(p) PROVE TypeOK'
  BY <1>7 DEF Crash
<1>8. ASSUME NEW p \in Processes, Restart(p) PROVE TypeOK'
  BY <1>8 DEF Restart
<1>9. CASE LeaveOnline
  BY <1>9 DEF LeaveOnline, Write
<1>10. CASE LeavePrompting
  <2>1. section.by = NoAttempt \/ section.by \in Attempts
    BY <1>10 DEF LeavePrompting
  <2>2. CASE /\ Write("Prompting")
             /\ \E a \in Attempts \ Busy :
                  attempt' = [attempt EXCEPT ![a] = [proc |-> section.proc, pc |-> "executing"]]
             /\ UNCHANGED faults
    <3>1. PICK a \in Attempts :
            attempt' = [attempt EXCEPT ![a] = [proc |-> section.proc, pc |-> "executing"]]
      BY <2>2
    <3>2. section.proc \in Processes
      BY <1>10 DEF LeavePrompting
    <3>3. attempt' \in [Attempts -> [proc : Processes \cup {"none"}, pc : Phases]]
      BY <3>1, <3>2
    <3> QED
      BY <1>10, <2>2, <3>3 DEF LeavePrompting, Write
  <2>3. CASE Fault("start") /\ Write("Offline")
             /\ attempt' = IF section.by = NoAttempt THEN attempt
                           ELSE [attempt EXCEPT ![section.by].pc = "threw"]
    <3>1. attempt' \in [Attempts -> [proc : Processes \cup {"none"}, pc : Phases]]
      <4>1. CASE section.by = NoAttempt
        BY <2>3, <4>1
      <4>2. CASE section.by # NoAttempt
        <5>1. PICK a \in Attempts : section.by = a
          BY <2>1, <4>2
        <5>2. attempt' = [attempt EXCEPT ![a].pc = "threw"]
          BY <2>3, <4>2, <5>1
        <5> QED
          BY <5>2
      <4> QED
        BY <4>1, <4>2
    <3>2. faults' \in 0..MaxFaults
      BY <2>3 DEF Fault
    <3> QED
      BY <1>10, <2>3, <3>1, <3>2 DEF LeavePrompting, Write
  <2> QED
    BY <1>10, <2>2, <2>3 DEF LeavePrompting
<1>11. ASSUME NEW a \in Attempts, Connect(a) PROVE TypeOK'
  <2>1. connected' \in BOOLEAN
    BY <1>11, Zenon DEF Connect
  <2>2. attempt' \in [Attempts -> [proc : Processes \cup {"none"}, pc : Phases]]
    <3>1. PICK pc \in Phases : attempt' = [attempt EXCEPT ![a].pc = pc]
      BY <1>11 DEF Connect, Goto
    <3> QED
      BY <3>1
  <2>3. UNCHANGED <<registry, section, cache, notices, errors, alive, drops, crashes, faults>>
    BY <1>11 DEF Connect
  <2> QED
    BY <2>1, <2>2, <2>3
<1>12. ASSUME NEW a \in Attempts, ForceRefresh(a) PROVE TypeOK'
  <2>1. PICK pc \in Phases : attempt' = [attempt EXCEPT ![a].pc = pc]
    BY <1>12 DEF ForceRefresh, Goto
  <2>2. attempt' \in [Attempts -> [proc : Processes \cup {"none"}, pc : Phases]]
    BY <2>1
  <2>3. flight' \in [Processes -> Flights] /\ faults' \in 0..MaxFaults
    BY <1>12 DEF ForceRefresh, StartFlight, Fault
  <2>4. UNCHANGED <<registry, section, servers, notices, errors, world>>
    BY <1>12 DEF ForceRefresh
  <2> QED
    BY <2>2, <2>3, <2>4
<1>13. ASSUME NEW a \in Attempts, ConnectThrew(a) PROVE TypeOK'
  BY <1>13 DEF ConnectThrew, Write, Finish
<1>14. ASSUME NEW a \in Attempts, TransitionToOnlineState(a) PROVE TypeOK'
  BY <1>14 DEF TransitionToOnlineState, Write, Finish
<1>15. ASSUME NEW a \in Attempts, TransitionToOfflineState(a) PROVE TypeOK'
  BY <1>15 DEF TransitionToOfflineState, Write, Finish
<1>16. CASE Drop
  <2>1. connected' \in BOOLEAN
    BY <1>16, Zenon DEF Drop
  <2> QED
    BY <1>16, <2>1 DEF Drop
<1>17. CASE Logon
  BY <1>17 DEF Logon
<1>18. CASE UNCHANGED vars
  BY <1>18 DEF vars
<1> QED
  BY <1>1, <1>2, <1>3, <1>4, <1>5, <1>6, <1>7, <1>8, <1>9, <1>10, <1>11, <1>12,
     <1>13, <1>14, <1>15, <1>16, <1>17, <1>18 DEF Next

LEMMA TypeInit == Init => TypeOK
  BY ConnectionAssumption DEF ConnectionAssumption, Init, TypeOK, ConnectionState,
     NoSection, Flights, Phases, NoTask

\* Every variable keeps its type (ServerConnections.cpp, all of it).
THEOREM TypeCorrect == Spec => []TypeOK
  BY TypeInit, TypeStep, PTL DEF Spec

----------------------------------------------------------------------------
\* A connect thread that ends writes the registry, the writer of Prompting starts a
\* connect thread, and one that dies leaves its mark.
LEMMA PromptingStep ==
  ASSUME TypeOK, PromptingHasConnect, [Next]_vars PROVE PromptingHasConnect'
<1> USE DEF PromptingHasConnect, Busy
<1>1. ASSUME NEW p \in Processes,
             IsOnline(p) \/ CachedValueUpdated(p) \/ FetchNewValue(p) \/ Publish(p)
               \/ CommandFails(p) \/ Restart(p)
      PROVE PromptingHasConnect'
  BY <1>1 DEF IsOnline, CachedValueUpdated, FetchNewValue, Publish, CommandFails,
     Restart, registry, cache, world
<1>2. ASSUME NEW p \in Processes, NEW a \in Attempts \cup {NoAttempt},
             OnConnectionError(p, a) PROVE PromptingHasConnect'
  BY <1>2 DEF OnConnectionError, registry, Goto, At, TypeOK
<1>3. ASSUME NEW p \in Processes, Crash(p) PROVE PromptingHasConnect'
  BY <1>3 DEF Crash
<1>4. CASE LeaveOnline
  BY <1>4 DEF LeaveOnline, Write
<1>5. CASE LeavePrompting
  BY <1>5 DEF LeavePrompting, Write, TypeOK
<1>6. ASSUME NEW a \in Attempts, Connect(a) \/ ForceRefresh(a)
      PROVE PromptingHasConnect'
  <2>1. \E pc \in Phases \ {"idle"} : attempt' = [attempt EXCEPT ![a].pc = pc]
    BY <1>6 DEF Connect, ForceRefresh, Goto, Phases
  <2>2. UNCHANGED <<connectionState, orphan>>
    BY <1>6 DEF Connect, ForceRefresh, registry
  <2> QED
    BY <2>1, <2>2 DEF TypeOK
<1>7. ASSUME NEW a \in Attempts,
             ConnectThrew(a) \/ TransitionToOnlineState(a) \/ TransitionToOfflineState(a)
      PROVE PromptingHasConnect'
  BY <1>7 DEF ConnectThrew, TransitionToOnlineState, TransitionToOfflineState, Write
<1>8. CASE Drop \/ Logon \/ UNCHANGED vars
  BY <1>8 DEF Drop, Logon, vars, registry
<1> QED
  BY <1>1, <1>2, <1>3, <1>4, <1>5, <1>6, <1>7, <1>8 DEF Next

\* A registry value Prompting has a connect thread that will replace it, or its
\* process ended (transitionToPromptingState and tryToConnect, in every process).
THEOREM PromptingHasConnectHolds == Spec => []PromptingHasConnect
<1>1. Init => PromptingHasConnect
  BY DEF Init, PromptingHasConnect
<1> QED
  BY <1>1, TypeCorrect, PromptingStep, PTL DEF Spec

----------------------------------------------------------------------------
\* Every source of a decision to go online is backed by a connection.
LEMMA EvidenceStep ==
  ASSUME TypeOK, EvidenceBacked, [Next]_vars PROVE EvidenceBacked'
<1> USE DEF EvidenceBacked, Evidence
<1>1. ASSUME NEW p \in Processes, IsOnline(p) PROVE EvidenceBacked'
  BY <1>1 DEF IsOnline, AskServers, StartFlight, Section, NoSection, world, TypeOK
<1>2. ASSUME NEW p \in Processes, CachedValueUpdated(p) PROVE EvidenceBacked'
  BY <1>2 DEF CachedValueUpdated, Section, NoSection, world, cache, TypeOK
<1>3. ASSUME NEW p \in Processes, NEW a \in Attempts \cup {NoAttempt},
             OnConnectionError(p, a) PROVE EvidenceBacked'
  BY <1>3 DEF OnConnectionError, Section, NoSection, Goto, At, world, cache, TypeOK
<1>4. ASSUME NEW p \in Processes, FetchNewValue(p) PROVE EvidenceBacked'
  BY <1>4 DEF FetchNewValue, world, TypeOK
<1>5. ASSUME NEW p \in Processes, Publish(p) PROVE EvidenceBacked'
  BY <1>5 DEF Publish, world, TypeOK
<1>6. ASSUME NEW p \in Processes, CommandFails(p) \/ Restart(p) PROVE EvidenceBacked'
  BY <1>6 DEF CommandFails, Restart, world, cache, TypeOK
<1>7. ASSUME NEW p \in Processes, Crash(p) PROVE EvidenceBacked'
  BY <1>7 DEF Crash, NoSection, NoTask, TypeOK
<1>8. CASE LeaveOnline \/ LeavePrompting
  <2>1. CASE LeaveOnline
    BY <2>1 DEF LeaveOnline, NoSection, world, cache, TypeOK
  <2>2. CASE LeavePrompting
    BY <2>2 DEF LeavePrompting, NoSection, world, cache, TypeOK
  <2> QED
    BY <1>8, <2>1, <2>2
<1>9. ASSUME NEW a \in Attempts, Connect(a) PROVE EvidenceBacked'
  BY <1>9 DEF Connect, Goto, At, cache, TypeOK
<1>10. ASSUME NEW a \in Attempts, ForceRefresh(a) PROVE EvidenceBacked'
  BY <1>10 DEF ForceRefresh, StartFlight, Goto, At, world, TypeOK
<1>11. ASSUME NEW a \in Attempts,
              ConnectThrew(a) \/ TransitionToOnlineState(a) \/ TransitionToOfflineState(a)
       PROVE EvidenceBacked'
  BY <1>11 DEF ConnectThrew, TransitionToOnlineState, TransitionToOfflineState,
     Finish, NoTask, world, cache, TypeOK
<1>12. CASE Drop \/ Logon \/ UNCHANGED vars
  BY <1>12, ConnectionAssumption DEF ConnectionAssumption, Drop, Logon, vars, cache, TypeOK
<1> QED
  BY <1>1, <1>2, <1>3, <1>4, <1>5, <1>6, <1>7, <1>8, <1>9, <1>10, <1>11, <1>12 DEF Next

LEMMA EvidenceInvariant == Spec => [](TypeOK /\ EvidenceBacked)
<1>1. Init => EvidenceBacked
  BY DEF Init, EvidenceBacked, Evidence, NoSection, NoTask
<1> QED
  BY <1>1, TypeInit, TypeStep, EvidenceStep, PTL DEF Spec

\* No process writes Online for want of evidence (isOnline, cachedValueUpdated,
\* tryToConnect): there is a connection, or there was one that has been lost.
THEOREM OnlineIsEvidencedHolds == Spec => OnlineIsEvidenced
<1>1. ASSUME TypeOK, EvidenceBacked, [Next]_vars,
             connectionState # "Online", connectionState' = "Online"
      PROVE  connected \/ drops > 0
  <2>1. LeaveOnline \/ \E a \in Attempts : TransitionToOnlineState(a)
    BY <1>1 DEF Next, IsOnline, CachedValueUpdated, OnConnectionError, FetchNewValue,
       Publish, CommandFails, Crash, Restart, LeavePrompting, Connect, ForceRefresh,
       ConnectThrew, TransitionToOfflineState, Drop, Logon, Write, registry, vars
  <2>2. CASE LeaveOnline
    BY <1>1, <2>2 DEF LeaveOnline, EvidenceBacked
  <2>3. ASSUME NEW a \in Attempts, TransitionToOnlineState(a)
        PROVE  connected \/ drops > 0
    BY <1>1, <2>3 DEF TransitionToOnlineState, At, EvidenceBacked, Evidence
  <2> QED
    BY <2>1, <2>2, <2>3
<1> QED
  BY <1>1, EvidenceInvariant, PTL DEF Spec, OnlineIsEvidenced

----------------------------------------------------------------------------
\* With no evidence left anywhere, no operation opens a dialog or says Online.
LEMMA SilentStep ==
  ASSUME TypeOK, Silent, [Next]_vars
  PROVE  connectionState' = "Offline" /\ (Silent' \/ connected')
<1> DEFINE Goal == connectionState' = "Offline" /\ (Silent' \/ connected')
<1> USE DEF Silent, Evidence, Free
<1>1. ASSUME NEW p \in Processes, IsOnline(p) PROVE Goal
  BY <1>1 DEF IsOnline, AskServers, StartFlight, registry, world, TypeOK
<1>2. ASSUME NEW p \in Processes, CachedValueUpdated(p) PROVE Goal
  BY <1>2 DEF CachedValueUpdated
<1>3. ASSUME NEW p \in Processes, NEW a \in Attempts \cup {NoAttempt},
             OnConnectionError(p, a) PROVE Goal
  BY <1>3 DEF OnConnectionError, Goto, registry, world, cache, TypeOK
<1>4. ASSUME NEW p \in Processes,
             FetchNewValue(p) \/ Publish(p) \/ CommandFails(p) \/ Restart(p) \/ Crash(p)
      PROVE Goal
  BY <1>4 DEF FetchNewValue, Publish, CommandFails, Restart, Crash, NoSection, NoTask,
     registry, world, cache, TypeOK
<1>5. CASE LeaveOnline \/ LeavePrompting
  BY <1>5 DEF LeaveOnline, LeavePrompting, NoSection
<1>6. ASSUME NEW a \in Attempts, Connect(a) PROVE Goal
  BY <1>6 DEF Connect, Goto, registry, cache, TypeOK
<1>7. ASSUME NEW a \in Attempts,
             \/ ForceRefresh(a) \/ ConnectThrew(a)
             \/ TransitionToOnlineState(a) \/ TransitionToOfflineState(a)
      PROVE Goal
  BY <1>7 DEF ForceRefresh, ConnectThrew, TransitionToOnlineState,
     TransitionToOfflineState, At, Write, Finish, NoTask, world, cache, TypeOK
<1>8. CASE Drop \/ Logon \/ UNCHANGED vars
  BY <1>8 DEF Drop, Logon, vars, registry, cache
<1> QED
  BY <1>1, <1>2, <1>3, <1>4, <1>5, <1>6, <1>7, <1>8 DEF Next

\* Offline stays offline, with no connect dialog, until somebody is connected
\* (isOnline and onConnectionError, in every process).
THEOREM OfflineIsSilentHolds == Spec => OfflineIsSilent
  BY TypeCorrect, SilentStep, PTL DEF Spec, OfflineIsSilent

=============================================================================
