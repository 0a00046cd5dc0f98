------------------------ MODULE ClientCommandsProofs ------------------------
(***************************************************************************)
(* Proofs about ClientCommands, for any threads and processes.             *)
(*                                                                         *)
(* The argument is one about paths.  What a thread holds decides what it   *)
(* may do next: a lock ranks after all it holds, a release is of a lock it *)
(* holds, and a command runs with exactly the action mutex held, or with   *)
(* nothing, as its operation has it.  A path is a sequence of steps each   *)
(* of which is allowed after those before it.  Every course of the code is *)
(* one, from no locks to no locks, because paths compose; and the inductive *)
(* invariant is that what a thread has still to do is a path from what it  *)
(* holds to nothing held.                                                  *)
(***************************************************************************)
EXTENDS ClientCommands, FiniteSetTheorems, SequenceTheorems, WellFoundedInduction, TLAPS

HeldBy(t) == {name \in LockNames : holder[LockOf(t, name)] = t}

\* What a thread holds while it runs a command of its operation.
HeldByCommand(op) == IF op \in CacheCommands THEN {"action"} ELSE {}

Allowed(op, held, step) ==
  /\ step.do = "lock" => \A name \in held : Rank(name) < Rank(step.on)
  /\ step.do = "unlock" => step.on \in held
  /\ step.do \in CommandSteps => held = HeldByCommand(op)

After(held, step) ==
  CASE step.do = "lock"   -> held \cup {step.on}
    [] step.do = "unlock" -> held \ {step.on}
    [] OTHER              -> held

\* h[i] is what is held before step i.
Follows(h, op, steps) ==
  /\ h \in [1..Len(steps) + 1 -> SUBSET LockNames]
  /\ \A i \in 1..Len(steps) :
       Allowed(op, h[i], steps[i]) /\ h[i + 1] = After(h[i], steps[i])

Path(op, steps, from, to) ==
  \E h : Follows(h, op, steps) /\ h[1] = from /\ h[Len(steps) + 1] = to

----------------------------------------------------------------------------
(* Paths.                                                                  *)

\* No steps lead nowhere.
LEMMA EmptyPath ==
  ASSUME NEW op, NEW held \in SUBSET LockNames
  PROVE  Path(op, <<>>, held, held)
<1> DEFINE h == [i \in 1..1 |-> held]
<1>1. Len(<<>>) = 0
  BY EmptySeq
<1>2. Follows(h, op, <<>>) /\ h[1] = held /\ h[Len(<<>>) + 1] = held
  BY <1>1 DEF Follows
<1>. QED
  BY <1>2 DEF Path

\* Where no steps lead is where they start.
LEMMA EmptyPathStays ==
  ASSUME NEW op, NEW from, NEW to, Path(op, <<>>, from, to)
  PROVE  from = to
<1>1. Len(<<>>) = 0
  BY EmptySeq
<1>. QED
  BY <1>1 DEF Path

\* A lock ends what After makes of locks.
LEMMA AfterIsHeld ==
  ASSUME NEW held \in SUBSET LockNames, NEW step \in Steps
  PROVE  After(held, step) \in SUBSET LockNames
BY DEF After, Steps, Step, CommandSteps, LockNames

\* One allowed step is a path.
LEMMA StepPath ==
  ASSUME NEW op, NEW held \in SUBSET LockNames, NEW step \in Steps, Allowed(op, held, step)
  PROVE  Path(op, <<step>>, held, After(held, step))
<1> DEFINE h == [i \in 1..2 |-> IF i = 1 THEN held ELSE After(held, step)]
<1>1. Len(<<step>>) = 1 /\ <<step>>[1] = step
  OBVIOUS
<1>2. h \in [1..2 -> SUBSET LockNames]
  BY AfterIsHeld
<1>3. h[1] = held /\ h[2] = After(held, step)
  OBVIOUS
<1>4. Follows(h, op, <<step>>)
  BY <1>1, <1>2, <1>3 DEF Follows
<1>. QED
  BY <1>1, <1>3, <1>4 DEF Path

\* Paths compose.
LEMMA JoinedPath ==
  ASSUME NEW op, NEW r \in Seq(Steps), NEW s \in Seq(Steps), NEW from, NEW via, NEW to,
         Path(op, r, from, via), Path(op, s, via, to)
  PROVE  Path(op, r \o s, from, to)
<1>1. PICK g : Follows(g, op, r) /\ g[1] = from /\ g[Len(r) + 1] = via
  BY DEF Path
<1>2. PICK h : Follows(h, op, s) /\ h[1] = via /\ h[Len(s) + 1] = to
  BY DEF Path
<1> DEFINE both == [i \in 1..Len(r) + Len(s) + 1 |-> IF i <= Len(r) THEN g[i] ELSE h[i - Len(r)]]
<1>3. Len(r) \in Nat /\ Len(s) \in Nat /\ Len(r \o s) = Len(r) + Len(s)
  OBVIOUS
<1>4. both \in [1..Len(r) + Len(s) + 1 -> SUBSET LockNames]
  BY <1>1, <1>2, <1>3 DEF Follows
<1>5. both[1] = from /\ both[Len(r) + Len(s) + 1] = to
  BY <1>1, <1>2, <1>3
<1>6. ASSUME NEW i \in 1..Len(r \o s)
      PROVE  Allowed(op, both[i], (r \o s)[i]) /\ both[i + 1] = After(both[i], (r \o s)[i])
  <2>1. CASE i <= Len(r)
    <3>1. (r \o s)[i] = r[i] /\ i \in 1..Len(r)
      BY <1>3, <2>1
    <3>2. both[i] = g[i]
      BY <1>3, <2>1
    <3>3. both[i + 1] = g[i + 1]
      BY <1>1, <1>2, <1>3, <2>1
    <3>. QED
      BY <1>1, <3>1, <3>2, <3>3 DEF Follows
  <2>2. CASE i > Len(r)
    <3>1. (r \o s)[i] = s[i - Len(r)] /\ i - Len(r) \in 1..Len(s)
      BY <1>3, <2>2
    <3>2. both[i] = h[i - Len(r)] /\ both[i + 1] = h[i - Len(r) + 1]
      BY <1>3, <2>2
    <3>. QED
      BY <1>2, <3>1, <3>2 DEF Follows
  <2>. QED
    BY <1>3, <2>1, <2>2
<1>7. Follows(both, op, r \o s)
  BY <1>3, <1>4, <1>6 DEF Follows
<1>. QED
  BY <1>3, <1>5, <1>7 DEF Path

\* The first step of a path is allowed, and the others are a path from what it leaves.
LEMMA RestOfPath ==
  ASSUME NEW op, NEW s \in Seq(Steps), s # <<>>, NEW from, NEW to, Path(op, s, from, to)
  PROVE  /\ Allowed(op, from, Head(s))
         /\ Path(op, Tail(s), After(from, Head(s)), to)
<1>1. PICK h : Follows(h, op, s) /\ h[1] = from /\ h[Len(s) + 1] = to
  BY DEF Path
<1> DEFINE rest == [i \in 1..Len(s) |-> h[i + 1]]
<1>2. /\ Len(s) \in Nat \ {0} /\ Len(Tail(s)) = Len(s) - 1 /\ Head(s) = s[1]
      /\ \A i \in 1..Len(s) - 1 : Tail(s)[i] = s[i + 1]
  OBVIOUS
<1>3. Allowed(op, from, Head(s)) /\ h[2] = After(from, Head(s))
  BY <1>1, <1>2 DEF Follows
<1>4. rest \in [1..Len(Tail(s)) + 1 -> SUBSET LockNames]
  BY <1>1, <1>2 DEF Follows
<1>5. rest[1] = After(from, Head(s)) /\ rest[Len(Tail(s)) + 1] = to
  BY <1>1, <1>2, <1>3
<1>6. ASSUME NEW i \in 1..Len(Tail(s))
      PROVE  Allowed(op, rest[i], Tail(s)[i]) /\ rest[i + 1] = After(rest[i], Tail(s)[i])
  BY <1>1, <1>2 DEF Follows
<1>7. Follows(rest, op, Tail(s))
  BY <1>4, <1>6 DEF Follows
<1>. QED
  BY <1>3, <1>5, <1>7 DEF Path

\* A path under a lock is a path with the lock around it.
LEMMA GuardedPath ==
  ASSUME NEW op, NEW held \in SUBSET LockNames, NEW name \in LockNames,
         \A other \in held : Rank(other) < Rank(name), name \notin held,
         NEW steps \in Seq(Steps), Path(op, steps, held \cup {name}, held \cup {name})
  PROVE  Path(op, Guarded(name, steps), held, held) /\ Guarded(name, steps) \in Seq(Steps)
<1>1. Lock(name) \in Steps /\ Unlock(name) \in Steps
  BY DEF Lock, Unlock, Steps
<1>2. /\ Allowed(op, held, Lock(name)) /\ After(held, Lock(name)) = held \cup {name}
      /\ Allowed(op, held \cup {name}, Unlock(name))
      /\ After(held \cup {name}, Unlock(name)) = held
  BY DEF Allowed, After, Lock, Unlock, CommandSteps
<1>3. Path(op, <<Lock(name)>>, held, held \cup {name})
  BY <1>1, <1>2, StepPath
<1>4. Path(op, <<Unlock(name)>>, held \cup {name}, held)
  BY <1>1, <1>2, StepPath
<1>5. <<Lock(name)>> \in Seq(Steps) /\ <<Unlock(name)>> \in Seq(Steps)
  BY <1>1
<1>6. Path(op, <<Lock(name)>> \o steps, held, held \cup {name})
  BY <1>3, <1>5, JoinedPath
<1>7. <<Lock(name)>> \o steps \in Seq(Steps)
  BY <1>5
<1>8. Path(op, (<<Lock(name)>> \o steps) \o <<Unlock(name)>>, held, held)
  BY <1>4, <1>5, <1>6, <1>7, JoinedPath
<1>9. Guarded(name, steps) = (<<Lock(name)>> \o steps) \o <<Unlock(name)>>
  BY <1>5 DEF Guarded
<1>. QED
  BY <1>5, <1>7, <1>8, <1>9

----------------------------------------------------------------------------
(* The courses of the operations.                                          *)

\* From nothing held to nothing held.
Round(op, steps) == steps \in Seq(Steps) /\ Path(op, steps, {}, {})

LEMMA JoinedRounds ==
  ASSUME NEW op, NEW r, NEW s, Round(op, r), Round(op, s)
  PROVE  Round(op, r \o s)
<1>1. r \o s \in Seq(Steps)
  BY DEF Round
<1>. QED
  BY <1>1, JoinedPath DEF Round

\* Each lock alone.
LEMMA LockRound ==
  ASSUME NEW op, NEW name \in LockNames
  PROVE  Round(op, Guarded(name, <<>>))
<1>1. {name} \in SUBSET LockNames /\ {} \cup {name} = {name} /\ <<>> \in Seq(Steps)
  BY EmptySeq
<1>2. Path(op, <<>>, {} \cup {name}, {} \cup {name})
  BY <1>1, EmptyPath
<1>. QED
  BY <1>1, <1>2, GuardedPath DEF Round

\* A command of a cache holds the action mutex, one of the user nothing.
LEMMA RunPath ==
  ASSUME NEW op
  PROVE  Path(op, <<Run>>, HeldByCommand(op), HeldByCommand(op)) /\ <<Run>> \in Seq(Steps)
<1>1. Run \in Steps
  BY DEF Run, Step, Steps, CommandSteps
<1>2. HeldByCommand(op) \in SUBSET LockNames
  BY DEF HeldByCommand, LockNames
<1>3. Allowed(op, HeldByCommand(op), Run)
  BY DEF Allowed, Run, Step
<1>4. After(HeldByCommand(op), Run) = HeldByCommand(op)
  BY DEF After, Run, Step
<1>. QED
  BY <1>1, <1>2, <1>3, <1>4, StepPath

LEMMA CacheRunRound ==
  ASSUME NEW op \in CacheCommands
  PROVE  Round(op, Guarded("action", <<Run>>))
<1>1. HeldByCommand(op) = {} \cup {"action"} /\ "action" \in LockNames
  BY DEF HeldByCommand, LockNames
<1>2. Path(op, <<Run>>, {} \cup {"action"}, {} \cup {"action"}) /\ <<Run>> \in Seq(Steps)
  BY <1>1, RunPath
<1>3. Path(op, Guarded("action", <<Run>>), {}, {}) /\ Guarded("action", <<Run>>) \in Seq(Steps)
  BY <1>1, <1>2, GuardedPath
<1>. QED
  BY <1>3 DEF Round

LEMMA FreeRunRound ==
  ASSUME NEW op, op \notin CacheCommands
  PROVE  Round(op, <<Run>>)
BY RunPath DEF Round, HeldByCommand

\* isOnline takes the lock of the servers inside the connection mutex.
LEMMA IsOnlineRound ==
  ASSUME NEW op, NEW on \in IsOnline
  PROVE  Round(op, on)
<1>1. {"state"} \in SUBSET LockNames /\ "state" \in LockNames /\ "servers" \in LockNames
  BY DEF LockNames
<1>2. Round(op, Guarded("state", <<>>))
  BY <1>1, LockRound
<1>3. {"state", "servers"} \in SUBSET LockNames /\ {"state"} \cup {"servers"} = {"state", "servers"}
  BY <1>1
<1>4. Path(op, <<>>, {"state"} \cup {"servers"}, {"state"} \cup {"servers"}) /\ <<>> \in Seq(Steps)
  BY <1>3, EmptyPath, EmptySeq
<1>5. \A other \in {"state"} : Rank(other) < Rank("servers")
  BY DEF Rank
<1>6. Path(op, Guarded("servers", <<>>), {"state"}, {"state"})
      /\ Guarded("servers", <<>>) \in Seq(Steps)
  BY <1>1, <1>4, <1>5, GuardedPath
<1>7. Round(op, Guarded("state", Guarded("servers", <<>>)))
  BY <1>1, <1>6, GuardedPath DEF Round
<1>. QED
  BY <1>2, <1>7 DEF IsOnline

\* Every course of every operation goes from nothing held to nothing held.
LEMMA CoursesAreRounds ==
  ASSUME NEW op \in OperationNames, NEW course \in CoursesOf(op)
  PROVE  Round(op, course)
<1>1. \A name \in LockNames : Round(op, Guarded(name, <<>>))
  BY LockRound
<1>2. /\ Round(op, Guarded("state", <<>>)) /\ Round(op, Guarded("servers", <<>>))
      /\ Round(op, Guarded("folders", <<>>)) /\ Round(op, Guarded("statuses", <<>>))
  BY <1>1 DEF LockNames
<1>3. CASE op = "getFileStatus"
  <2>1. op \in CacheCommands /\ course \in GetFileStatus
    BY <1>3 DEF CacheCommands, CoursesOf
  <2>2. Round(op, FileInfo)
    BY <2>1, CacheRunRound DEF FileInfo
  <2>3. CASE course = Guarded("folders", <<>>)
    BY <1>2, <2>3
  <2>4. ASSUME NEW on \in IsOnline
        PROVE  /\ Round(op, Guarded("folders", <<>>) \o on)
               /\ Round(op, Guarded("folders", <<>>) \o on \o Guarded("statuses", <<>>))
               /\ Round(op, Guarded("folders", <<>>) \o on \o Guarded("statuses", <<>>)
                              \o FileInfo \o Guarded("statuses", <<>>))
    <3>1. Round(op, Guarded("folders", <<>>) \o on)
      BY <1>2, IsOnlineRound, JoinedRounds
    <3>2. Round(op, Guarded("folders", <<>>) \o on \o Guarded("statuses", <<>>))
      BY <1>2, <3>1, JoinedRounds
    <3>3. Round(op, Guarded("folders", <<>>) \o on \o Guarded("statuses", <<>>) \o FileInfo)
      BY <2>2, <3>2, JoinedRounds
    <3>. QED
      BY <1>2, <3>1, <3>2, <3>3, JoinedRounds
  <2>. QED
    BY <2>1, <2>3, <2>4 DEF GetFileStatus
<1>4. CASE op = "refreshServers"
  <2>1. op \in CacheCommands /\ course \in RefreshServers
    BY <1>4 DEF CacheCommands, CoursesOf
  <2>2. Round(op, Guarded("action", <<Run>>) \o Guarded("servers", <<>>))
    BY <1>2, <2>1, CacheRunRound, JoinedRounds
  <2>3. Round(op, Guarded("action", <<Run>>) \o Guarded("servers", <<>>) \o Guarded("state", <<>>))
    BY <1>2, <2>2, JoinedRounds
  <2>. QED
    BY <2>1, <2>2, <2>3 DEF RefreshServers
<1>5. CASE op = "refreshFolders"
  <2>1. op \in CacheCommands /\ course \in RefreshFolders
    BY <1>5 DEF CacheCommands, CoursesOf
  <2>2. Round(op, Guarded("action", <<Run>>) \o Guarded("folders", <<>>))
    BY <1>2, <2>1, CacheRunRound, JoinedRounds
  <2>. QED
    BY <2>1, <2>2 DEF RefreshFolders
<1>6. CASE op = "connect"
  <2>1. op \notin CacheCommands /\ course \in Connect
    BY <1>6 DEF CacheCommands, CoursesOf
  <2>2. Round(op, <<Run>>)
    BY <2>1, FreeRunRound
  <2>3. Round(op, <<Run>> \o Guarded("servers", <<>>)) /\ Round(op, <<Run>> \o Guarded("state", <<>>))
    BY <1>2, <2>2, JoinedRounds
  <2>4. Round(op, <<Run>> \o Guarded("servers", <<>>) \o Guarded("state", <<>>))
    BY <1>2, <2>3, JoinedRounds
  <2>. QED
    BY <2>1, <2>3, <2>4 DEF Connect
<1>7. CASE op = "executeUserCommand"
  <2>1. op \notin CacheCommands /\ course \in ExecuteUserCommand
    BY <1>7 DEF CacheCommands, CoursesOf
  <2>2. Round(op, <<Run>>)
    BY <2>1, FreeRunRound
  <2>3. Round(op, <<Run>> \o Guarded("statuses", <<>>)) /\ Round(op, <<Run>> \o Guarded("folders", <<>>))
    BY <1>2, <2>2, JoinedRounds
  <2>. QED
    BY <2>1, <2>2, <2>3 DEF ExecuteUserCommand
<1>. QED
  BY <1>3, <1>4, <1>5, <1>6, <1>7 DEF OperationNames

\* The error handlers take the connection mutex where a command holds what it holds.
LEMMA ErrorHandlerPath ==
  ASSUME NEW op
  PROVE  /\ Path(op, ErrorHandler, HeldByCommand(op), HeldByCommand(op))
         /\ ErrorHandler \in Seq(Steps)
<1>1. HeldByCommand(op) \in SUBSET LockNames /\ "state" \in LockNames /\ "state" \notin HeldByCommand(op)
  BY DEF HeldByCommand, LockNames
<1>2. \A other \in HeldByCommand(op) : Rank(other) < Rank("state")
  BY DEF HeldByCommand, Rank
<1>3. HeldByCommand(op) \cup {"state"} \in SUBSET LockNames /\ <<>> \in Seq(Steps)
  BY <1>1, EmptySeq
<1>4. Path(op, <<>>, HeldByCommand(op) \cup {"state"}, HeldByCommand(op) \cup {"state"})
  BY <1>3, EmptyPath
<1>. QED
  BY <1>1, <1>2, <1>3, <1>4, GuardedPath DEF ErrorHandler

----------------------------------------------------------------------------
(* The threads.                                                            *)

\* The mutexes of a process are held by its own threads.
OwnLocks ==
  \A k \in Locks : holder[k] # Nobody =>
    \E name \in LockNames : k = LockOf(holder[k], name)

\* What a thread has to do is a path from what it holds to nothing held.
OnTheirPaths ==
  \A t \in Threads : /\ Path(operation[t], todo[t], HeldBy(t), {})
                     /\ operation[t] = "none" => todo[t] = <<>>

\* TypeOK, without the releases to come, which OnTheirPaths implies.
Typed ==
  /\ process \in [Threads -> Processes]
  /\ operation \in [Threads -> Operations \cup {"none"}]
  /\ todo \in [Threads -> Seq(Steps)]
  /\ holder \in [Locks -> Threads \cup {Nobody}]
  /\ showing \in [Processes -> BOOLEAN]

Inv == Typed /\ OwnLocks /\ OnTheirPaths

LEMMA LockOfIsLock ==
  ASSUME Typed, NEW t \in Threads, NEW name \in LockNames
  PROVE  LockOf(t, name) \in Locks
BY DEF Typed, LockOf, Locks

\* Two names are two locks.
LEMMA LocksDiffer ==
  ASSUME NEW t, NEW u, NEW m, NEW n, LockOf(t, m) = LockOf(u, n)
  PROVE  m = n
<1>1. CASE m = "state" /\ n = "state"
  BY <1>1
<1>2. CASE m # "state" /\ n # "state"
  BY <1>2 DEF LockOf
<1>3. CASE m = "state" /\ n # "state"
  <2>1. <<"state">> = <<n, process[u]>>
    BY <1>3 DEF LockOf
  <2>2. Len(<<"state">>) = 1 /\ Len(<<n, process[u]>>) = 2
    OBVIOUS
  <2>. QED
    BY <2>1, <2>2
<1>4. CASE m # "state" /\ n = "state"
  <2>1. <<"state">> = <<m, process[t]>>
    BY <1>4 DEF LockOf
  <2>2. Len(<<"state">>) = 1 /\ Len(<<m, process[t]>>) = 2
    OBVIOUS
  <2>. QED
    BY <2>1, <2>2
<1>. QED
  BY <1>1, <1>2, <1>3, <1>4

\* The invariant, and what a thread holds, are about the locks only.
LEMMA HeldByUnchanged ==
  ASSUME UNCHANGED <<process, holder>>
  PROVE  \A t : HeldBy(t)' = HeldBy(t)
BY DEF HeldBy, LockOf

\* A thread that goes from one path to another keeps the invariant of the paths.
LEMMA PathsKept ==
  ASSUME Inv, NEW t \in Threads, NEW steps \in Seq(Steps),
         Replace(t, steps), todo[t] # <<>>,
         Path(operation[t], steps \o Tail(todo[t]), HeldBy(t)', {}),
         \A u \in Threads \ {t} : HeldBy(u)' = HeldBy(u)
  PROVE  OnTheirPaths' /\ (todo \in [Threads -> Seq(Steps)])'
                       /\ (operation \in [Threads -> Operations \cup {"none"}])'
<1>1. todo[t] \in Seq(Steps) /\ steps \o Tail(todo[t]) \in Seq(Steps)
  BY DEF Inv, Typed
<1>2. todo'[t] = steps \o Tail(todo[t]) /\ (todo \in [Threads -> Seq(Steps)])'
  BY <1>1 DEF Inv, Typed, Replace
<1>3. (operation \in [Threads -> Operations \cup {"none"}])'
  BY DEF Inv, Typed, Replace
<1>4. \A u \in Threads \ {t} : operation'[u] = operation[u] /\ todo'[u] = todo[u]
  BY DEF Inv, Typed, Replace
<1>5. operation[t] # "none"
  BY DEF Inv, OnTheirPaths
<1>6. CASE todo'[t] = <<>>
  <2>1. operation'[t] = "none"
    BY <1>6 DEF Inv, Typed, Replace
  <2>2. HeldBy(t)' = {}
    BY <1>2, <1>6, EmptyPathStays
  <2>3. Path(operation'[t], todo'[t], HeldBy(t)', {})
    BY <1>6, <2>2, EmptyPath
  <2>. QED
    BY <1>2, <1>3, <1>4, <1>6, <2>3 DEF Inv, OnTheirPaths
<1>7. CASE todo'[t] # <<>>
  <2>1. operation'[t] = operation[t]
    BY <1>7 DEF Inv, Typed, Replace
  <2>. QED
    BY <1>2, <1>3, <1>4, <1>5, <2>1 DEF Inv, OnTheirPaths
<1>. QED
  BY <1>6, <1>7

LEMMA InitInv == Init => Inv
<1>. SUFFICES ASSUME Init PROVE Inv
  OBVIOUS
<1>1. Typed
  BY EmptySeq DEF Init, Typed
<1>2. OwnLocks
  BY DEF Init, OwnLocks
<1>3. \A t \in Threads : HeldBy(t) = {}
  BY <1>1, LockOfIsLock, CommandAssumption DEF Init, HeldBy
<1>4. OnTheirPaths
  BY <1>3, EmptyPath DEF Init, OnTheirPaths
<1>. QED
  BY <1>1, <1>2, <1>4 DEF Inv

LEMMA BeginKeeps ==
  ASSUME Inv, NEW t \in Threads, NEW name \in Operations, Begin(t, name)
  PROVE  Inv'
<1>1. PICK course \in CoursesOf(name) : todo' = [todo EXCEPT ![t] = course]
  BY DEF Begin
<1>2. Round(name, course) /\ name # "none"
  BY CoursesAreRounds, CommandAssumption DEF OperationNames
<1>3. todo[t] = <<>> /\ Path(operation[t], todo[t], HeldBy(t), {})
  BY DEF Inv, OnTheirPaths, Begin, Idle
<1>4. HeldBy(t) = {}
  BY <1>3, EmptyPathStays
<1>5. Typed'
  BY <1>1, <1>2 DEF Inv, Typed, Begin, Round
<1>6. OwnLocks'
  BY DEF Inv, OwnLocks, LockOf, Begin
<1>7. \A u : HeldBy(u)' = HeldBy(u)
  BY HeldByUnchanged DEF Begin
<1>8. operation'[t] = name /\ todo'[t] = course
  BY <1>1 DEF Inv, Typed, Begin
<1>9. \A u \in Threads \ {t} : operation'[u] = operation[u] /\ todo'[u] = todo[u]
  BY <1>1 DEF Inv, Typed, Begin
<1>10. OnTheirPaths'
  BY <1>2, <1>4, <1>7, <1>8, <1>9 DEF Inv, OnTheirPaths, Round
<1>. QED
  BY <1>5, <1>6, <1>10 DEF Inv

\* What a thread is at is allowed, and the rest of its course goes on from there.
LEMMA AtAStep ==
  ASSUME Inv, NEW t \in Threads, todo[t] # <<>>
  PROVE  /\ Head(todo[t]) \in Steps /\ Tail(todo[t]) \in Seq(Steps)
         /\ <<>> \o Tail(todo[t]) = Tail(todo[t])
         /\ Allowed(operation[t], HeldBy(t), Head(todo[t]))
         /\ Path(operation[t], Tail(todo[t]), After(HeldBy(t), Head(todo[t])), {})
<1>1. todo[t] \in Seq(Steps) /\ Path(operation[t], todo[t], HeldBy(t), {})
  BY DEF Inv, Typed, OnTheirPaths
<1>2. Head(todo[t]) \in Steps /\ Tail(todo[t]) \in Seq(Steps)
  BY <1>1
<1>. QED
  BY <1>1, <1>2, RestOfPath

LEMMA LockStepNamesLock ==
  ASSUME NEW step \in Steps, step.do = "lock"
  PROVE  step.on \in LockNames
<1>1. ASSUME NEW do \in CommandSteps, step = Step(do)
      PROVE  FALSE
  <2>1. step.do = do
    BY <1>1 DEF Step
  <2>. QED
    BY <2>1 DEF CommandSteps
<1>. QED
  BY <1>1 DEF Steps

LEMMA AcquireKeeps ==
  ASSUME Inv, NEW t \in Threads, Acquire(t)
  PROVE  Inv'
<1> DEFINE name == Head(todo[t]).on
<1>1. todo[t] # <<>> /\ Head(todo[t]).do = "lock" /\ Key(t) = LockOf(t, name)
  BY DEF Acquire, At, Key
<1>2. name \in LockNames
  BY <1>1, AtAStep, LockStepNamesLock
<1>3. Key(t) \in Locks
  BY <1>1, <1>2, LockOfIsLock DEF Inv
<1>4. /\ holder' = [holder EXCEPT ![Key(t)] = t] /\ holder[Key(t)] = Nobody
      /\ process' = process /\ showing' = showing /\ t # Nobody /\ Replace(t, <<>>)
  BY CommandAssumption DEF Acquire
<1>5. \A u, n : LockOf(u, n)' = LockOf(u, n)
  BY <1>4 DEF LockOf
<1>6. holder'[Key(t)] = t /\ \A k \in Locks \ {Key(t)} : holder'[k] = holder[k]
  BY <1>3, <1>4 DEF Inv, Typed
<1>7. \A n \in LockNames : LockOf(t, n) = Key(t) <=> n = name
  BY <1>1, LocksDiffer
<1>8. HeldBy(t)' = HeldBy(t) \cup {name}
  <2>1. ASSUME NEW n \in LockNames
        PROVE  holder'[LockOf(t, n)'] = t <=> holder[LockOf(t, n)] = t \/ n = name
    BY <1>4, <1>5, <1>6, <1>7, LockOfIsLock DEF Inv
  <2>. QED
    BY <1>2, <2>1 DEF HeldBy
<1>9. ASSUME NEW u \in Threads \ {t}
      PROVE  HeldBy(u)' = HeldBy(u)
  <2>1. ASSUME NEW n \in LockNames
        PROVE  holder'[LockOf(u, n)'] = u <=> holder[LockOf(u, n)] = u
    <3>1. LockOf(u, n) \in Locks /\ u # Nobody
      BY LockOfIsLock, CommandAssumption DEF Inv
    <3>. QED
      BY <1>4, <1>5, <1>6, <3>1
  <2>. QED
    BY <2>1 DEF HeldBy
<1>10. After(HeldBy(t), Head(todo[t])) = HeldBy(t)'
  BY <1>1, <1>8 DEF After
<1>11. /\ OnTheirPaths' /\ (todo \in [Threads -> Seq(Steps)])'
       /\ (operation \in [Threads -> Operations \cup {"none"}])'
  BY <1>1, <1>4, <1>9, <1>10, AtAStep, PathsKept, EmptySeq
<1>12. Typed'
  BY <1>4, <1>11 DEF Inv, Typed
<1>13. OwnLocks'
  <2>1. ASSUME NEW k \in Locks, holder'[k] # Nobody
        PROVE  \E n \in LockNames : k = LockOf(holder'[k], n)
    <3>1. CASE k = Key(t)
      BY <1>1, <1>2, <1>6, <3>1
    <3>2. CASE k # Key(t)
      BY <1>6, <2>1, <3>2 DEF Inv, OwnLocks
    <3>. QED
      BY <3>1, <3>2
  <2>. QED
    BY <1>5, <2>1 DEF OwnLocks
<1>. QED
  BY <1>11, <1>12, <1>13 DEF Inv

LEMMA ReleaseKeeps ==
  ASSUME Inv, NEW t \in Threads, Release(t)
  PROVE  Inv'
<1> DEFINE name == Head(todo[t]).on
<1>1. todo[t] # <<>> /\ Head(todo[t]).do = "unlock" /\ Key(t) = LockOf(t, name)
  BY DEF Release, At, Key
<1>2. name \in HeldBy(t) /\ name \in LockNames
  BY <1>1, AtAStep DEF Allowed, HeldBy
<1>3. Key(t) \in Locks /\ holder[Key(t)] = t
  BY <1>1, <1>2, LockOfIsLock DEF Inv, HeldBy
<1>4. /\ holder' = [holder EXCEPT ![Key(t)] = Nobody]
      /\ process' = process /\ showing' = showing /\ t # Nobody /\ Replace(t, <<>>)
  BY CommandAssumption DEF Release
<1>5. \A u, n : LockOf(u, n)' = LockOf(u, n)
  BY <1>4 DEF LockOf
<1>6. holder'[Key(t)] = Nobody /\ \A k \in Locks \ {Key(t)} : holder'[k] = holder[k]
  BY <1>3, <1>4 DEF Inv, Typed
<1>7. \A n \in LockNames : LockOf(t, n) = Key(t) <=> n = name
  BY <1>1, LocksDiffer
<1>8. HeldBy(t)' = HeldBy(t) \ {name}
  <2>1. ASSUME NEW n \in LockNames
        PROVE  holder'[LockOf(t, n)'] = t <=> holder[LockOf(t, n)] = t /\ n # name
    BY <1>4, <1>5, <1>6, <1>7, LockOfIsLock DEF Inv
  <2>. QED
    BY <2>1 DEF HeldBy
<1>9. ASSUME NEW u \in Threads \ {t}
      PROVE  HeldBy(u)' = HeldBy(u)
  <2>1. ASSUME NEW n \in LockNames
        PROVE  holder'[LockOf(u, n)'] = u <=> holder[LockOf(u, n)] = u
    <3>1. LockOf(u, n) \in Locks /\ u # Nobody
      BY LockOfIsLock, CommandAssumption DEF Inv
    <3>. QED
      BY <1>3, <1>5, <1>6, <3>1
  <2>. QED
    BY <2>1 DEF HeldBy
<1>10. After(HeldBy(t), Head(todo[t])) = HeldBy(t)'
  BY <1>1, <1>8 DEF After
<1>11. /\ OnTheirPaths' /\ (todo \in [Threads -> Seq(Steps)])'
       /\ (operation \in [Threads -> Operations \cup {"none"}])'
  BY <1>1, <1>4, <1>9, <1>10, AtAStep, PathsKept, EmptySeq
<1>12. Typed'
  BY <1>4, <1>11 DEF Inv, Typed
<1>13. OwnLocks'
  BY <1>5, <1>6 DEF Inv, OwnLocks
<1>. QED
  BY <1>11, <1>12, <1>13 DEF Inv

\* A step of a command, replaced by steps that hold what the command holds.
LEMMA CommandKeeps ==
  ASSUME Inv, NEW t \in Threads, todo[t] # <<>>, Head(todo[t]).do \in CommandSteps,
         NEW steps \in Seq(Steps), Replace(t, steps),
         Path(operation[t], steps, HeldByCommand(operation[t]), HeldByCommand(operation[t])),
         UNCHANGED <<process, holder>>, showing' \in [Processes -> BOOLEAN]
  PROVE  Inv'
<1>1. HeldBy(t) = HeldByCommand(operation[t])
  BY AtAStep DEF Allowed
<1>2. After(HeldBy(t), Head(todo[t])) = HeldBy(t)
  BY DEF After, CommandSteps
<1>3. \A u : HeldBy(u)' = HeldBy(u)
  BY HeldByUnchanged
<1>4. Path(operation[t], steps \o Tail(todo[t]), HeldBy(t)', {})
  BY <1>1, <1>2, <1>3, AtAStep, JoinedPath
<1>5. /\ OnTheirPaths' /\ (todo \in [Threads -> Seq(Steps)])'
      /\ (operation \in [Threads -> Operations \cup {"none"}])'
  BY <1>3, <1>4, PathsKept
<1>6. Typed'
  BY <1>5 DEF Inv, Typed
<1>7. OwnLocks'
  BY DEF Inv, OwnLocks, LockOf
<1>. QED
  BY <1>5, <1>6, <1>7 DEF Inv

\* Nothing, or one more step of a command, in the place of one.
LEMMA StepOfCommand ==
  ASSUME NEW op, NEW do \in CommandSteps
  PROVE  /\ Path(op, <<Step(do)>>, HeldByCommand(op), HeldByCommand(op))
         /\ Path(op, <<>>, HeldByCommand(op), HeldByCommand(op))
         /\ <<Step(do)>> \in Seq(Steps) /\ <<>> \in Seq(Steps)
<1>1. Step(do) \in Steps /\ HeldByCommand(op) \in SUBSET LockNames
  BY DEF Step, Steps, HeldByCommand, LockNames
<1>2. Allowed(op, HeldByCommand(op), Step(do)) /\ After(HeldByCommand(op), Step(do)) = HeldByCommand(op)
  BY DEF Allowed, After, Step, CommandSteps
<1>. QED
  BY <1>1, <1>2, StepPath, EmptyPath, EmptySeq

LEMMA ReturnKeeps ==
  ASSUME Inv, NEW t \in Threads, Return(t)
  PROVE  Inv'
<1>1. todo[t] # <<>> /\ Head(todo[t]).do \in CommandSteps
  BY DEF Return, Running, At, CommandSteps
<1>2. UNCHANGED <<process, holder>> /\ showing' \in [Processes -> BOOLEAN]
  BY DEF Return, Inv, Typed
<1>3. "check" \in CommandSteps
  BY DEF CommandSteps
<1>4. CASE Replace(t, <<>>)
  BY <1>1, <1>2, <1>3, <1>4, StepOfCommand, CommandKeeps
<1>5. CASE Replace(t, ErrorHandler)
  BY <1>1, <1>2, <1>5, ErrorHandlerPath, CommandKeeps
<1>6. CASE Replace(t, <<Step("check")>>)
  BY <1>1, <1>2, <1>3, <1>6, StepOfCommand, CommandKeeps
<1>. QED
  BY <1>4, <1>5, <1>6 DEF Return

LEMMA DialogKeeps ==
  ASSUME Inv, NEW t \in Threads, CheckShowing(t) \/ ShowDialog(t) \/ CloseDialog(t)
  PROVE  Inv'
<1>1. todo[t] # <<>> /\ Head(todo[t]).do \in CommandSteps
  BY DEF CheckShowing, ShowDialog, CloseDialog, At, CommandSteps
<1>2. UNCHANGED <<process, holder>> /\ showing' \in [Processes -> BOOLEAN]
  BY DEF CheckShowing, ShowDialog, CloseDialog, Inv, Typed
<1>3. "set" \in CommandSteps /\ "box" \in CommandSteps
  BY DEF CommandSteps
<1>4. \/ Replace(t, <<>>) \/ Replace(t, <<Step("set")>>) \/ Replace(t, <<Step("box")>>)
  BY DEF CheckShowing, ShowDialog, CloseDialog
<1>. QED
  BY <1>1, <1>2, <1>3, <1>4, StepOfCommand, CommandKeeps

\* Every step of the system keeps the invariant.
LEMMA NextInv == Inv /\ [Next]_vars => Inv'
<1>. SUFFICES ASSUME Inv, [Next]_vars PROVE Inv'
  OBVIOUS
<1>1. CASE Next
  BY <1>1, BeginKeeps, AcquireKeeps, ReleaseKeeps, ReturnKeeps, DialogKeeps DEF Next, Proceed
<1>2. CASE UNCHANGED vars
  <2>1. \A u : HeldBy(u)' = HeldBy(u)
    BY <1>2, HeldByUnchanged DEF vars
  <2>2. Typed' /\ OwnLocks'
    BY <1>2 DEF vars, Inv, Typed, OwnLocks, LockOf
  <2>3. OnTheirPaths'
    BY <1>2, <2>1 DEF vars, Inv, OnTheirPaths
  <2>. QED
    BY <2>2, <2>3 DEF Inv
<1>. QED
  BY <1>1, <1>2

LEMMA Invariant == Spec => []Inv
BY InitInv, NextInv, PTL DEF Spec

----------------------------------------------------------------------------
(* The properties.                                                         *)

\* A set of naturals has a least element: the interval below it is a finite set that
\* is minimal under inclusion.
LEMMA LeastNat ==
  ASSUME NEW S, S \subseteq Nat, S # {}
  PROVE  \E x \in S : \A y \in S : x <= y
<1> DEFINE T == {0..x : x \in S}
<1>1. T \subseteq FiniteSubsetsOf(Nat) /\ T # {}
  <2>1. \A x \in S : 0..x \subseteq Nat /\ IsFiniteSet(0..x)
    BY FS_Interval
  <2>. QED
    BY <2>1 DEF FiniteSubsetsOf
<1> HIDE DEF T
<1>2. PICK X \in T : \A Y \in T : <<Y, X>> \notin StrictSubsetOrdering(Nat)
  BY <1>1, FS_StrictSubsetOrderingWellFounded, WFMin
<1> USE DEF T
<1>3. PICK x \in S : X = 0..x
  BY <1>2
<1>4. ASSUME NEW y \in S, y < x
      PROVE  FALSE
  <2>1. 0..y \subseteq 0..x /\ x \notin 0..y /\ x \in 0..x
    BY <1>4
  <2>2. 0..y \in SUBSET Nat /\ 0..x \in SUBSET Nat
    OBVIOUS
  <2>3. <<0..y, 0..x>> \in StrictSubsetOrdering(Nat)
    BY <2>1, <2>2 DEF StrictSubsetOrdering
  <2>. QED
    BY <1>2, <1>3, <2>3
<1>5. \A y \in S : x <= y
  BY <1>4
<1>. QED
  BY <1>5

\* Only its release takes a lock from what is held.
LEMMA UnlockOnly ==
  ASSUME NEW held, NEW step \in Steps, NEW name \in LockNames, name \in held,
         step # Unlock(name)
  PROVE  name \in After(held, step)
<1>1. CASE step.do = "unlock"
  <2>1. step = Unlock(step.on)
    <3>1. ASSUME NEW do \in CommandSteps, step = Step(do)
          PROVE  FALSE
      <4>1. step.do = do
        BY <3>1 DEF Step
      <4>. QED
        BY <1>1, <4>1 DEF CommandSteps
    <3>2. step \in [do : {"lock", "unlock"}, on : LockNames]
      BY <3>1 DEF Steps
    <3>. QED
      BY <1>1, <3>2 DEF Unlock
  <2>2. step.on # name
    BY <2>1
  <2>3. After(held, step) = held \ {step.on}
    BY <1>1 DEF After
  <2>. QED
    BY <2>2, <2>3
<1>2. CASE step.do # "unlock"
  BY <1>2 DEF After
<1>. QED
  BY <1>1, <1>2

\* What a thread holds on a path to nothing held is released on the way: the first
\* step before which it is no longer held follows its release.
LEMMA ReleaseAhead ==
  ASSUME NEW op, NEW s \in Seq(Steps), NEW held, Path(op, s, held, {}), NEW name \in held,
         name \in LockNames
  PROVE  \E i \in 1..Len(s) : s[i] = Unlock(name)
<1>1. PICK h : Follows(h, op, s) /\ h[1] = held /\ h[Len(s) + 1] = {}
  BY DEF Path
<1> DEFINE S == {i \in 1..Len(s) + 1 : name \notin h[i]}
<1>2. Len(s) \in Nat
  OBVIOUS
<1>3. S \subseteq Nat /\ Len(s) + 1 \in S
  BY <1>1, <1>2
<1>4. PICK first \in S : \A i \in S : first <= i
  BY <1>3, LeastNat, Zenon
<1>5. first \in 1..Len(s) + 1 /\ name \notin h[first] /\ first # 1
  BY <1>1
<1>6. first - 1 \in 1..Len(s) /\ first - 1 \in 1..Len(s) + 1 /\ first - 1 + 1 = first
  BY <1>2, <1>5
<1>7. name \in h[first - 1]
  BY <1>2, <1>4, <1>5, <1>6
<1>8. h[first] = After(h[first - 1], s[first - 1]) /\ s[first - 1] \in Steps
  BY <1>1, <1>6 DEF Follows
<1>9. s[first - 1] = Unlock(name)
  BY <1>5, <1>7, <1>8, UnlockOnly
<1>. QED
  BY <1>6, <1>9

\* Spec => []TypeOK: every variable keeps its type, and whoever holds a lock has its
\* release to come, as scoped objects have it (IntegritySession.cpp, IntegrityActions.cpp).
THEOREM TypeCorrect == Spec => []TypeOK
<1>1. Inv => TypeOK
  <2>. SUFFICES ASSUME Inv PROVE TypeOK
    OBVIOUS
  <2>1. ASSUME NEW t \in Threads, NEW name \in LockNames, holder[LockOf(t, name)] = t
        PROVE  \E i \in 1..Len(todo[t]) : todo[t][i] = Unlock(name)
    <3>1. name \in HeldBy(t)
      BY <2>1 DEF HeldBy
    <3>2. todo[t] \in Seq(Steps) /\ Path(operation[t], todo[t], HeldBy(t), {})
      BY DEF Inv, Typed, OnTheirPaths
    <3>. QED
      BY <3>1, <3>2, ReleaseAhead
  <2>. QED
    BY <2>1 DEF Inv, Typed, TypeOK
<1>. QED
  BY <1>1, Invariant, PTL

\* Spec => []LockOrder: whatever operations run, whatever commands fail, and whichever
\* error handlers they call, a lock is taken only by a thread all of whose locks rank
\* before it, in every process.
THEOREM LockOrderHolds == Spec => []LockOrder
<1>1. Inv => LockOrder
  <2>. SUFFICES ASSUME Inv, NEW t \in Threads, At(t, "lock"),
                       NEW name \in LockNames, holder[LockOf(t, name)] = t
                PROVE  Rank(name) < Rank(Head(todo[t]).on)
    BY DEF LockOrder
  <2>1. Allowed(operation[t], HeldBy(t), Head(todo[t])) /\ Head(todo[t]).do = "lock"
    BY AtAStep DEF At
  <2>. QED
    BY <2>1 DEF Allowed, HeldBy
<1>. QED
  BY <1>1, Invariant, PTL

LEMMA RankIs == \A name : Rank(name) \in {1, 2, 3}
BY DEF Rank

\* Who waits for a thread that waits in its turn waits for a lock of a lower rank.
LEMMA WaitsUpwards ==
  ASSUME Inv, LockOrder, NEW t \in Threads, NEW u \in Threads, WaitsFor(t, u), At(u, "lock")
  PROVE  Rank(Head(todo[t]).on) < Rank(Head(todo[u]).on)
<1> DEFINE name == Head(todo[t]).on
<1>1. todo[t] # <<>> /\ Head(todo[t]).do = "lock" /\ holder[LockOf(t, name)] = u
  BY DEF WaitsFor, At, Key
<1>2. name \in LockNames
  BY <1>1, AtAStep, LockStepNamesLock
<1>3. LockOf(t, name) \in Locks /\ u # Nobody
  BY <1>2, LockOfIsLock, CommandAssumption DEF Inv
<1>4. PICK n \in LockNames : LockOf(t, name) = LockOf(u, n)
  BY <1>1, <1>3 DEF Inv, OwnLocks
<1>5. n = name
  BY <1>4, LocksDiffer
<1>. QED
  BY <1>1, <1>2, <1>4, <1>5 DEF LockOrder

\* Spec => []NoWaitCycle: no set of threads, of one process or of many, waits on
\* itself; of those in it that wait for a lock of the highest rank, none waits for
\* another that waits.
THEOREM NoWaitCycleHolds == Spec => []NoWaitCycle
<1>1. Inv /\ LockOrder => NoWaitCycle
  <2>. SUFFICES ASSUME Inv, LockOrder, NEW S \in (SUBSET Threads) \ {{}},
                       \A t \in S : \E u \in S : WaitsFor(t, u)
                PROVE  FALSE
    BY DEF NoWaitCycle
  <2> DEFINE rank(t) == Rank(Head(todo[t]).on)
  <2>1. \A t \in S : rank(t) \in {1, 2, 3} /\ \E u \in S : rank(t) < rank(u)
    <3>1. TAKE t \in S
    <3>2. PICK u \in S : WaitsFor(t, u)
      BY <3>1
    <3>3. At(u, "lock")
      BY <3>2 DEF WaitsFor
    <3>4. rank(t) < rank(u)
      BY <3>2, <3>3, WaitsUpwards
    <3>. QED
      BY <3>2, <3>4, RankIs
  <2> HIDE DEF rank
  <2>2. S # {}
    OBVIOUS
  <2>3. PICK u \in S : rank(u) >= 2
    BY <2>1, <2>2
  <2>4. PICK v \in S : rank(v) >= 3
    BY <2>1, <2>3
  <2>. QED
    BY <2>1, <2>4
<1>2. Spec => []LockOrder
  BY LockOrderHolds
<1>. QED
  BY <1>1, <1>2, Invariant, PTL

\* Spec => []CommandsSerial: the commands of the caches of one process hold its action
\* mutex, so that two never run at once.
THEOREM CommandsSerialHolds == Spec => []CommandsSerial
<1>1. Inv => CommandsSerial
  <2>. SUFFICES ASSUME Inv, NEW t \in Threads, NEW u \in Threads, process[t] = process[u],
                       Running(t), operation[t] \in CacheCommands,
                       Running(u), operation[u] \in CacheCommands
                PROVE  t = u
    BY DEF CommandsSerial
  <2>1. ASSUME NEW v \in Threads, Running(v), operation[v] \in CacheCommands
        PROVE  holder[<<"action", process[v]>>] = v
    <3>1. todo[v] # <<>> /\ Head(todo[v]).do \in CommandSteps
      BY <2>1 DEF Running, At, CommandSteps
    <3>2. "action" \in HeldBy(v)
      BY <2>1, <3>1, AtAStep DEF Allowed, HeldByCommand
    <3>. QED
      BY <3>2 DEF HeldBy, LockOf
  <2>2. holder[<<"action", process[t]>>] = t /\ holder[<<"action", process[u]>>] = u
    BY <2>1
  <2>. QED
    BY <2>2
<1>. QED
  BY <1>1, Invariant, PTL

=============================================================================
