---------------------------- MODULE StatusCache ----------------------------
(***************************************************************************)
(* TortoiseShell/StatusCache.cpp, SmallFixedInProcessCache: the last few   *)
(* file statuses, each good for Expiry ticks, kept because Explorer asks   *)
(* every overlay handler in turn about the same file.  The threads of      *)
(* Explorer share it.                                                      *)
(*                                                                         *)
(* cacheLockObject guards one search, one insertion or one clearing, each  *)
(* one action; nothing is locked between the search that fails and the     *)
(* insertion, while `wf fileinfo' runs.  isOnline is ServerConnections: a  *)
(* caller it turns away touches nothing here.  A status is a version: what *)
(* the client would have reported at some moment.  NoStatus is 0, which    *)
(* fileInfo also returns for a command that failed.  An unused entry is    *)
(* one with an empty path; its other fields are never read.                *)
(***************************************************************************)
EXTENDS Integers, FiniteSets, FiniteSetsExt

CONSTANTS
  Lookups,      \* threads of Explorer that call getFileStatus
  Paths,        \* files they ask about
  NoPath,       \* the empty path
  CacheSize,    \* cacheSize
  Expiry,       \* entryExpiryTime, in ticks of the clock
  MaxSkew,      \* bound on how far the system clock is set back, in all
  MaxVersion,   \* bound on the versions a status goes through
  MaxEra,       \* bound on how many times the whole cache is cleared
  MaxFailures   \* bound on how many times `wf fileinfo' fails

ASSUME StatusAssumption ==
  /\ IsFiniteSet(Lookups)
  /\ NoPath \notin Paths
  /\ CacheSize \in Nat \ {0}
  /\ Expiry \in Nat \ {0}
  /\ MaxSkew \in Nat
  /\ MaxVersion \in Nat \ {0}
  /\ MaxEra \in Nat
  /\ MaxFailures \in Nat

VARIABLES
  actual,         \* actual[p]: the status `wf fileinfo' would report of p now
  cachedStatus,   \* the entries
  lookup,         \* lookup[l]: where thread l is in getFileStatus, and its locals
  failures,       \* how many commands have failed
  setBack,        \* how far the clock has been set back, in all
  overrun,        \* an entry was written outside the array
  era,            \* history: how many times the whole cache has been cleared
  inFlight        \* history: how many lookups ran when that last happened

vars == <<actual, cachedStatus, lookup, failures, setBack, overrun, era, inFlight>>

----------------------------------------------------------------------------
NoStatus == 0
Version  == 1..MaxVersion
Status   == Version \cup {NoStatus}
Era      == 0..MaxEra
Slots    == 1..CacheSize
Ages     == (0 - MaxSkew)..Expiry      \* Expiry stands for every age from there on

Unused    == [path |-> NoPath, fileStatus |-> NoStatus, age |-> Expiry, era |-> 0]
NoLookup  == [pc |-> "idle", path |-> NoPath, fileStatus |-> NoStatus, era |-> 0]

Used(i)    == cachedStatus[i].path # NoPath
Live(i, p) == cachedStatus[i].path = p /\ cachedStatus[i].age < Expiry
Asking     == {l \in Lookups : lookup[l].pc # "idle"}

Fails == failures < MaxFailures /\ failures' = failures + 1

TypeOK ==
  /\ actual \in [Paths -> Version]
  /\ cachedStatus \in [Slots -> [path : Paths \cup {NoPath}, fileStatus : Status,
                                 age : Ages, era : Era]]
  /\ lookup \in [Lookups -> [pc : {"idle", "asking", "answered"},
                             path : Paths \cup {NoPath}, fileStatus : Status,
                             era : Era]]
  /\ failures \in 0..MaxFailures
  /\ setBack \in 0..MaxSkew
  /\ overrun \in BOOLEAN
  /\ era \in Era
  /\ inFlight \in Nat

Init ==
  /\ actual = [p \in Paths |-> 1]
  /\ cachedStatus = [i \in Slots |-> Unused]
  /\ lookup = [l \in Lookups |-> NoLookup]
  /\ failures = 0 /\ setBack = 0
  /\ overrun = FALSE
  /\ era = 0
  /\ inFlight = 0

----------------------------------------------------------------------------
\* Mutant: an entry is good for ever.
HitsForever(p) == {i \in Slots : cachedStatus[i].path = p}

\* findCachedStatus: the first entry of the path that has not expired.
Hits(p) == {i \in Slots : Live(i, p)}

\* Mutant: only an expired entry is replaced.
ReplacedExpired ==
  LET free == {i \in Slots : ~Used(i) \/ cachedStatus[i].age = Expiry}
  IN IF free # {} THEN Min(free) ELSE 0

\* addCachedStatus: the first unused entry, or else the last one whose creation
\* time less the present one, the age negated, is below the expiry time; index 0
\* stands for the -1 no such entry leaves behind, which takes a clock that was set back.
Replaced ==
  LET unused == {i \in Slots : ~Used(i)}
      passed == {i \in Slots : 0 - cachedStatus[i].age < Expiry}
  IN IF unused # {} THEN Min(unused) ELSE IF passed # {} THEN Max(passed) ELSE 0

\* Mutant: the cache is not searched.
GetFileStatusUncached(l, p) ==
  /\ lookup[l].pc = "idle"
  /\ lookup' = [lookup EXCEPT ![l] = [NoLookup EXCEPT !.pc = "asking", !.path = p, !.era = era]]
  /\ UNCHANGED <<actual, cachedStatus, failures, setBack, overrun, era, inFlight>>

\* What a search of the cache finds.
Found(p) == cachedStatus[Min(Hits(p))].fileStatus

\* getFileStatus up to the search; when that succeeds it returns Found(p).
GetFileStatus(l, p) ==
  /\ lookup[l].pc = "idle"
  /\ \/ Hits(p) # {} /\ UNCHANGED lookup
     \/ /\ Hits(p) = {}
        /\ lookup' = [lookup EXCEPT ![l] =
             [NoLookup EXCEPT !.pc = "asking", !.path = p, !.era = era]]
  /\ UNCHANGED <<actual, cachedStatus, failures, setBack, overrun, era, inFlight>>

\* IntegrityActions::fileInfo: the client answers, or the command fails and its
\* exception becomes NO_STATUS.
FileInfo(l) ==
  /\ lookup[l].pc = "asking"
  /\ \/ /\ lookup' = [lookup EXCEPT ![l].pc = "answered",
                                    ![l].fileStatus = actual[lookup[l].path]]
        /\ UNCHANGED failures
     \/ /\ Fails
        /\ lookup' = [lookup EXCEPT ![l].pc = "answered"]
  /\ UNCHANGED <<actual, cachedStatus, setBack, overrun, era, inFlight>>

\* addCachedStatus and the return.  No status fileInfo returns is in ErrorMask, so
\* every one is added.  A write at index -1 hits the members in front of the array;
\* overrun says that it happened, what it does there is left open.
AddCachedStatus(l) ==
  /\ lookup[l].pc = "answered"
  /\ IF Replaced = 0
     THEN overrun' = TRUE /\ UNCHANGED cachedStatus
     ELSE /\ cachedStatus' = [cachedStatus EXCEPT ![Replaced] =
               [path |-> lookup[l].path, fileStatus |-> lookup[l].fileStatus,
                age |-> 0, era |-> lookup[l].era]]
          /\ UNCHANGED overrun
  /\ lookup' = [lookup EXCEPT ![l] = NoLookup]
  /\ UNCHANGED <<actual, failures, setBack, era, inFlight>>

\* clear(path): a handler has drawn the file's overlay.  The first entry of the
\* path goes, expired or not.
ClearPath(p) ==
  LET found == {i \in Slots : cachedStatus[i].path = p} IN
  /\ found # {}
  /\ cachedStatus' = [cachedStatus EXCEPT ![Min(found)] = Unused]
  /\ UNCHANGED <<actual, lookup, failures, setBack, overrun, era, inFlight>>

\* Mutant: the loop of clear returns after its first entry, as it does for a path.
ClearFirst ==
  /\ era < MaxEra
  /\ cachedStatus' = [cachedStatus EXCEPT ![1] = Unused]
  /\ era' = era + 1
  /\ inFlight' = Cardinality(Asking)
  /\ UNCHANGED <<actual, lookup, failures, setBack, overrun>>

\* clear(): a menu command has changed the folder.
Clear ==
  /\ era < MaxEra
  /\ cachedStatus' = [i \in Slots |-> Unused]
  /\ era' = era + 1
  /\ inFlight' = Cardinality(Asking)
  /\ UNCHANGED <<actual, lookup, failures, setBack, overrun>>

----------------------------------------------------------------------------
\* The world: a status changes, time passes, the clock is set back.
StatusChange(p) ==
  /\ actual[p] < MaxVersion
  /\ actual' = [actual EXCEPT ![p] = @ + 1]
  /\ UNCHANGED <<cachedStatus, lookup, failures, setBack, overrun, era, inFlight>>

Tick ==
  /\ \E i \in Slots : Used(i) /\ cachedStatus[i].age < Expiry
  /\ cachedStatus' = [i \in Slots |->
       IF Used(i) /\ cachedStatus[i].age < Expiry
       THEN [cachedStatus[i] EXCEPT !.age = @ + 1] ELSE cachedStatus[i]]
  /\ UNCHANGED <<actual, lookup, failures, setBack, overrun, era, inFlight>>

\* An expired entry may be of any age, so it may stay expired or come alive again.
SetClockBack ==
  /\ \E d \in 1..(MaxSkew - setBack) :
     \E revived \in SUBSET {i \in Slots : cachedStatus[i].age = Expiry} :
       /\ setBack' = setBack + d
       /\ cachedStatus' = [i \in Slots |->
            IF Used(i) /\ (cachedStatus[i].age < Expiry \/ i \in revived)
            THEN [cachedStatus[i] EXCEPT !.age = @ - d] ELSE cachedStatus[i]]
  /\ UNCHANGED <<actual, lookup, failures, overrun, era, inFlight>>

Next ==
  \/ \E l \in Lookups : \/ \E p \in Paths : GetFileStatus(l, p)
                        \/ FileInfo(l) \/ AddCachedStatus(l)
  \/ \E p \in Paths : ClearPath(p) \/ StatusChange(p)
  \/ Clear \/ Tick \/ SetClockBack

Spec == Init /\ [][Next]_vars

\* A lookup that asked goes on, and the clock runs.
Fairness == /\ \A l \in Lookups : WF_vars(FileInfo(l)) /\ WF_vars(AddCachedStatus(l))
            /\ WF_vars(Tick)

FairSpec == Spec /\ Fairness

----------------------------------------------------------------------------
\* The boundary of the index -1 in addCachedStatus (`int oldestEntryIndex = -1'): nothing
\* is written outside the array, whatever the ages of its entries, unless the clock was
\* set back by the expiry time or more in all.  From there on it happens: the code has
\* no test for it.
WritesInside == overrun => setBack >= Expiry

\* A full clear leaves statuses from before it only to the lookups that had already
\* asked: each of them brings back at most one.  What a write outside the array leaves
\* behind is undefined, so nothing is said of it.
OldEra(e) == e < era
ClearFlushes ==
  overrun \/ Cardinality({i \in Slots : Used(i) /\ OldEra(cachedStatus[i].era)})
               + Cardinality({l \in Asking : OldEra(lookup[l].era)}) <= inFlight

\* Threads that miss the same file each add it: until the clock is set back, which
\* can bring expired entries back to life, the live entries of one file and the
\* lookups about to add one are never more than the threads.
DuplicatesBounded ==
  setBack = 0 =>
    \A p \in Paths :
      Cardinality(Hits(p)) + Cardinality({l \in Asking : lookup[l].path = p})
        <= Cardinality(Lookups)

\* Once statuses stop changing, every caller is given the current status of every
\* file it asks about, whatever expired and duplicate entries lie around and
\* although an entry is never dropped for being old.
AnswersCurrent ==
  /\ \A p \in Paths : Hits(p) # {} => Found(p) = actual[p]
  /\ \A l \in Lookups : lookup[l].pc = "answered" =>
                          lookup[l].fileStatus = actual[lookup[l].path]
StaleDiesOut == <>[](overrun \/ AnswersCurrent)

\* The comment in addCachedStatus: "find oldest".  A full cache gives up an entry
\* that no other entry is older than.
ReplacesOldest ==
  [][\A i \in Slots :
       Used(i) /\ cachedStatus'[i].path \notin {NoPath, cachedStatus[i].path}
         => \A j \in Slots : cachedStatus[j].age <= cachedStatus[i].age]_vars

=============================================================================
