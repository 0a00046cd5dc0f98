------------------------ MODULE ShellLifetimeProofs ------------------------
(***************************************************************************)
(* Type correctness, CallsMappedCode and MappedWhileInUse of ShellLifetime *)
(* for any threads, things and bounds.                                     *)
(*                                                                         *)
(* While the stub is used in an orderly way one thread at most loads, and  *)
(* a thread that unloads is alone.  Then handle, pointers and image agree, *)
(* save inside the load and between FreeLibrary and the reset of the three *)
(* variables; and the count is the number of things in use, so that an     *)
(* answer of zero means there are none, which stays true until the image   *)
(* is gone because only a factory makes objects and only the stub makes    *)
(* factories.                                                              *)
(***************************************************************************)
EXTENDS ShellLifetime, FiniteSetTheorems, TLAPS

NobodyAt(where) == \A t \in Callers : pc[t] # where

\* Loaders are alone among loaders, unloaders alone.
OneLoads    == \A t, u \in Callers : pc[t] \in Loading /\ pc[u] \in Loading => t = u
AloneUnloads == \A t, u \in Callers : pc[t] \in Unloading /\ pc[u] # "idle" => t = u

\* The handle is the image's.
HandleAgrees ==
  /\ loads \in {0, 1}
  /\ loads = 1 <=> image # 0
  /\ image # 0 => hTortoiseSI = "dll"
  /\ NobodyAt("reset") => (hTortoiseSI = "dll" => image # 0)
  /\ ~NobodyAt("reset") => image = 0 /\ hTortoiseSI # "NULL"

\* The pointers lead into the image, or are not set yet.
PointersAgree ==
  /\ NobodyAt("reset") => /\ pDllGetClassObject \in {0, image}
                          /\ pDllCanUnloadNow \in {0, image}
  /\ ~NobodyAt("load") => hTortoiseSI = "NULL"
  /\ \A t \in Callers : pc[t] \in {"clear", "resolveGet", "resolveCan"} => hTortoiseSI = "dll"
  /\ \A t \in Callers : pc[t] \in {"load", "clear", "resolveGet"} => pDllGetClassObject = 0
  /\ \A t \in Callers : pc[t] \in Loading => pDllCanUnloadNow = 0
  /\ \A t \in Callers : pc[t] \in {"resolveCan", "call", "inside"} => pDllGetClassObject # 0
  /\ (hTortoiseSI = "dll" /\ \A t \in Callers : pc[t] \notin Loading) => pDllCanUnloadNow # 0

\* The count is right, and an answer of zero is still true when the image is freed.
CountAgrees ==
  /\ g_cRefThisDll = Cardinality(Live)
  /\ Live # {} => image # 0
  /\ \A t \in Callers : pc[t] \in {"clear", "resolveGet", "free"} => Live = {}
  /\ ~NobodyAt("ask") => pDllCanUnloadNow # 0

Agree == OneLoads /\ AloneUnloads /\ HandleAgrees /\ PointersAgree /\ CountAgrees /\ ~crashed

IInv == TypeOK /\ (Orderly => Agree)

----------------------------------------------------------------------------
(* Types, and what the history says.                                        *)

\* A step of t moves t only.
LEMMA Moves ==
  ASSUME TypeOK, NEW t \in Callers, NEW to \in Places, Go(t, to)
  PROVE  /\ pc' \in [Callers -> Places]
         /\ pc'[t] = to /\ \A u \in Callers : u # t => pc'[u] = pc[u]
BY DEF TypeOK, Go

LEMMA IsPlace ==
  /\ "idle" \in Places /\ "load" \in Places /\ "clear" \in Places
  /\ "resolveGet" \in Places /\ "resolveCan" \in Places /\ "check" \in Places
  /\ "call" \in Places /\ "inside" \in Places /\ "ask" \in Places
  /\ "free" \in Places /\ "reset" \in Places
BY DEF Places, Getting, Loading, Unloading

LEMMA TypeStep == TypeOK /\ [Next]_vars => TypeOK'
<1>. SUFFICES ASSUME TypeOK, [Next]_vars
              PROVE  TypeOK'
  OBVIOUS
<1>. MaxImages \in Nat
  BY LifetimeAssumption DEF LifetimeAssumption
<1>. USE DEF TypeOK, Image, InUse, stub, windows, real, history
<1>1. ASSUME NEW t \in Callers, DllGetClassObject(t) \/ DllCanUnloadNow(t)
      PROVE  TypeOK'
  <2>1. pc' \in [Callers -> Places]
    BY <1>1, Moves, IsPlace DEF DllGetClassObject, DllCanUnloadNow
  <2>. QED
    BY <1>1, <2>1 DEF DllGetClassObject, DllCanUnloadNow
<1>2. ASSUME NEW t \in Callers, Proceed(t)
      PROVE  TypeOK'
  <2>1. CASE LoadFails(t)
    <3>1. pc' \in [Callers -> Places]
      BY <2>1, Moves, IsPlace DEF LoadFails
    <3>. QED
      BY <2>1, <3>1 DEF LoadFails
  <2>2. CASE LoadTortoiseSIDll(t)
    <3>1. pc' \in [Callers -> Places]
      BY <2>2, Moves, IsPlace DEF LoadTortoiseSIDll
    <3>. QED
      BY <2>2, <3>1 DEF LoadTortoiseSIDll, LoadLibrary
  <2>3. CASE ClearPointers(t)
    <3>1. pc' \in [Callers -> Places]
      BY <2>3, Moves, IsPlace DEF ClearPointers
    <3>. QED
      BY <2>3, <3>1 DEF ClearPointers
  <2>4. CASE ResolveGet(t)
    <3>1. pc' \in [Callers -> Places]
      BY <2>4, Moves, IsPlace DEF ResolveGet, ResolveFails
    <3>2. CASE ResolveFails(t, "resolveGet", "DllGetClassObject")
      BY <3>1, <3>2 DEF ResolveFails, FreeLibrary
    <3>3. CASE ~ResolveFails(t, "resolveGet", "DllGetClassObject")
      BY <2>4, <3>1, <3>3 DEF ResolveGet
    <3>. QED
      BY <3>2, <3>3
  <2>5. CASE ResolveCan(t)
    <3>1. pc' \in [Callers -> Places]
      BY <2>5, Moves, IsPlace DEF ResolveCan, ResolveFails
    <3>2. CASE ResolveFails(t, "resolveCan", "DllCanUnloadNow")
      BY <3>1, <3>2 DEF ResolveFails, FreeLibrary
    <3>3. CASE ~ResolveFails(t, "resolveCan", "DllCanUnloadNow")
      BY <2>5, <3>1, <3>3 DEF ResolveCan
    <3>. QED
      BY <3>2, <3>3
  <2>6. CASE Check(t)
    <3>1. pc' \in [Callers -> Places]
      BY <2>6, Moves, IsPlace DEF Check
    <3>. QED
      BY <2>6, <3>1 DEF Check
  <2>7. CASE Call(t)
    <3>1. pc' \in [Callers -> Places]
      BY <2>7, Moves, IsPlace DEF Call, Follow
    <3>. QED
      BY <2>7, <3>1 DEF Call, Follow
  <2>8. CASE CreateFactory(t)
    <3>1. pc' \in [Callers -> Places]
      BY <2>8, Moves, IsPlace DEF CreateFactory
    <3>. QED
      BY <2>8, <3>1 DEF CreateFactory, Make
  <2>9. CASE AskReal(t)
    <3>1. pc' \in [Callers -> Places]
      BY <2>9, Moves, IsPlace DEF AskReal, Follow
    <3>. QED
      BY <2>9, <3>1 DEF AskReal, Follow
  <2>10. CASE UnloadRealLibrary(t)
    <3>1. pc' \in [Callers -> Places]
      BY <2>10, Moves, IsPlace DEF UnloadRealLibrary
    <3>. QED
      BY <2>10, <3>1 DEF UnloadRealLibrary, FreeLibrary
  <2>11. CASE ResetStub(t)
    <3>1. pc' \in [Callers -> Places]
      BY <2>11, Moves, IsPlace DEF ResetStub
    <3>. QED
      BY <2>11, <3>1 DEF ResetStub
  <2>. QED
    BY <1>2, <2>1, <2>2, <2>3, <2>4, <2>5, <2>6, <2>7, <2>8, <2>9, <2>10, <2>11 DEF Proceed
<1>3. CASE CreateInstance \/ AddPages
  BY <1>3 DEF CreateInstance, AddPages, Make
<1>4. ASSUME NEW x \in Things, Release(x) \/ Destroyed(x)
      PROVE  TypeOK'
  BY <1>4 DEF Release, Destroyed
<1>5. CASE UNCHANGED vars
  BY <1>5 DEF vars
<1>. QED
  BY <1>1, <1>2, <1>3, <1>4, <1>5 DEF Next

\* What was not orderly stays so.
LEMMA OrderlyBefore == TypeOK /\ [Next]_vars /\ Orderly' => Orderly
<1>. USE DEF Orderly, TypeOK, history
<1>1. ASSUME NEW t \in Callers, Proceed(t), TypeOK, Orderly'
      PROVE  Orderly
  <2>1. CASE ResolveGet(t) \/ ResolveCan(t)
    BY <1>1, <2>1 DEF ResolveGet, ResolveCan, ResolveFails
  <2>2. CASE Call(t) \/ AskReal(t)
    BY <1>1, <2>2 DEF Call, AskReal
  <2>3. CASE LoadFails(t) \/ LoadTortoiseSIDll(t) \/ ClearPointers(t) \/ Check(t)
    BY <1>1, <2>3 DEF LoadFails, LoadTortoiseSIDll, ClearPointers, Check
  <2>4. CASE CreateFactory(t) \/ UnloadRealLibrary(t) \/ ResetStub(t)
    BY <1>1, <2>4 DEF CreateFactory, UnloadRealLibrary, ResetStub
  <2>. QED
    BY <1>1, <2>1, <2>2, <2>3, <2>4 DEF Proceed
<1>2. ASSUME NEW t \in Callers, DllGetClassObject(t) \/ DllCanUnloadNow(t), TypeOK, Orderly'
      PROVE  Orderly
  BY <1>2 DEF DllGetClassObject, DllCanUnloadNow
<1>3. ASSUME NEW x \in Things, Release(x) \/ Destroyed(x), TypeOK, Orderly'
      PROVE  Orderly
  BY <1>3 DEF Release, Destroyed
<1>. QED
  BY <1>1, <1>2, <1>3 DEF Next, CreateInstance, AddPages, vars

----------------------------------------------------------------------------
(* Counting what is in use.                                                 *)

LEMMA Counts ==
  /\ IsFiniteSet(Live) /\ Cardinality(Live) \in Nat
  /\ Cardinality(Live) = 0 <=> Live = {}
<1>. Live \subseteq Things
  BY DEF Live
<1>. QED
  BY LifetimeAssumption, FS_Subset, FS_CardinalityType, FS_EmptySet DEF LifetimeAssumption

LEMMA MakeCounts ==
  ASSUME TypeOK, NEW x \in Things, NEW kind \in InUse, Make(x, kind),
         g_cRefThisDll = Cardinality(Live)
  PROVE  g_cRefThisDll' = Cardinality(Live') /\ Live' # {}
<1>1. Live' = Live \cup {x} /\ x \notin Live
  BY DEF Make, Live, TypeOK, InUse
<1>. QED
  BY <1>1, Counts, FS_AddElement DEF Make

LEMMA ReleaseCounts ==
  ASSUME TypeOK, NEW x \in Things, Release(x), g_cRefThisDll = Cardinality(Live)
  PROVE  g_cRefThisDll' = Cardinality(Live') /\ Live' \subseteq Live
<1>1. Live' = Live \ {x} /\ x \in Live
  BY DEF Release, Live, TypeOK, InUse
<1>. QED
  BY <1>1, Counts, FS_RemoveElement DEF Release

----------------------------------------------------------------------------
(* One lemma per action of the stub.                                        *)

LEMMA GetStep ==
  ASSUME TypeOK, Agree, NEW t \in Callers, DllGetClassObject(t), Orderly'
  PROVE  Agree'
<1>. USE DEF Agree, NobodyAt, At, stub, windows, real, history
<1>1. /\ pc'[t] = IF hTortoiseSI = "NULL" THEN "load" ELSE "check"
      /\ \A u \in Callers : u # t => pc'[u] = pc[u]
  BY Moves, IsPlace DEF DllGetClassObject
<1>2. pc \in [Callers -> Places] /\ Live' = Live
  BY DEF TypeOK, Live, DllGetClassObject
<1>3. OneLoads' /\ AloneUnloads'
  BY <1>1, <1>2 DEF OneLoads, AloneUnloads, Loading, Unloading, DllGetClassObject, Orderly
<1>4. HandleAgrees'
  BY <1>1 DEF OneLoads, AloneUnloads, HandleAgrees, PointersAgree, Loading, Unloading, DllGetClassObject, Orderly
<1>5. PointersAgree'
  BY <1>1 DEF OneLoads, AloneUnloads, HandleAgrees, PointersAgree, Loading, Unloading, DllGetClassObject, Orderly
<1>6. CountAgrees' /\ ~crashed'
  BY <1>1, <1>2 DEF OneLoads, AloneUnloads, HandleAgrees, PointersAgree, CountAgrees, Loading, Unloading, DllGetClassObject, Orderly
<1>. QED
  BY <1>3, <1>4, <1>5, <1>6

LEMMA AskStep ==
  ASSUME TypeOK, Agree, NEW t \in Callers, DllCanUnloadNow(t), Orderly'
  PROVE  Agree'
<1>. USE DEF Agree, NobodyAt, At, stub, windows, real, history
<1>1. /\ pc'[t] = IF pDllCanUnloadNow = 0 THEN "free" ELSE "ask"
      /\ \A u \in Callers : u # t => pc'[u] = pc[u]
  BY Moves, IsPlace DEF DllCanUnloadNow
<1>2. pc \in [Callers -> Places] /\ Live' = Live
  BY DEF TypeOK, Live, DllCanUnloadNow
<1>3. OneLoads' /\ AloneUnloads'
  BY <1>1, <1>2 DEF OneLoads, AloneUnloads, Loading, Unloading, DllCanUnloadNow, Orderly
<1>4. HandleAgrees'
  BY <1>1 DEF OneLoads, AloneUnloads, HandleAgrees, PointersAgree, Loading, Unloading, DllCanUnloadNow, Orderly
<1>5. PointersAgree'
  BY <1>1 DEF OneLoads, AloneUnloads, HandleAgrees, PointersAgree, Loading, Unloading, DllCanUnloadNow, Orderly
<1>6. CountAgrees' /\ ~crashed'
  BY <1>1, <1>2 DEF OneLoads, AloneUnloads, HandleAgrees, PointersAgree, CountAgrees, Loading, Unloading, DllCanUnloadNow, Orderly
<1>. QED
  BY <1>3, <1>4, <1>5, <1>6

LEMMA LoadFailsStep ==
  ASSUME TypeOK, Agree, NEW t \in Callers, LoadFails(t)
  PROVE  Agree'
<1>. USE DEF Agree, NobodyAt, At, stub, windows, real, history
<1>1. /\ pc'[t] = "check"
      /\ \A u \in Callers : u # t => pc'[u] = pc[u]
  BY Moves, IsPlace DEF LoadFails
<1>2. pc \in [Callers -> Places] /\ Live' = Live
  BY DEF TypeOK, Live, LoadFails
<1>3. OneLoads' /\ AloneUnloads'
  BY <1>1, <1>2 DEF OneLoads, AloneUnloads, Loading, Unloading, LoadFails
<1>4. HandleAgrees'
  BY <1>1 DEF OneLoads, AloneUnloads, HandleAgrees, PointersAgree, Loading, Unloading, LoadFails
<1>5. PointersAgree'
  BY <1>1 DEF OneLoads, AloneUnloads, HandleAgrees, PointersAgree, Loading, Unloading, LoadFails
<1>6. CountAgrees' /\ ~crashed'
  BY <1>1, <1>2 DEF OneLoads, AloneUnloads, HandleAgrees, PointersAgree, CountAgrees, Loading, Unloading, LoadFails
<1>. QED
  BY <1>3, <1>4, <1>5, <1>6

LEMMA LoadStep ==
  ASSUME TypeOK, Agree, NEW t \in Callers, LoadTortoiseSIDll(t)
  PROVE  Agree'
<1>. USE DEF Agree, NobodyAt, At, stub, windows, real, history
<1>. image \in 0..MaxImages /\ images \in 0..MaxImages /\ MaxImages \in Nat /\ loads \in Nat
  BY LifetimeAssumption DEF LifetimeAssumption, TypeOK, Image
<1>1. /\ pc'[t] = "clear"
      /\ \A u \in Callers : u # t => pc'[u] = pc[u]
  BY Moves, IsPlace DEF LoadTortoiseSIDll
<1>2. pc \in [Callers -> Places] /\ Live' = Live
  BY DEF TypeOK, Live, LoadTortoiseSIDll
<1>3. OneLoads' /\ AloneUnloads'
  BY <1>1, <1>2 DEF OneLoads, AloneUnloads, Loading, Unloading, LoadTortoiseSIDll
<1>4. HandleAgrees'
  BY <1>1 DEF OneLoads, AloneUnloads, HandleAgrees, PointersAgree, Loading, Unloading, LoadTortoiseSIDll, LoadLibrary
<1>5. PointersAgree'
  BY <1>1 DEF OneLoads, AloneUnloads, HandleAgrees, PointersAgree, Loading, Unloading, LoadTortoiseSIDll, LoadLibrary
<1>6. CountAgrees' /\ ~crashed'
  BY <1>1, <1>2, <1>4, Counts DEF OneLoads, AloneUnloads, HandleAgrees, PointersAgree, CountAgrees, Loading, Unloading, LoadTortoiseSIDll, LoadLibrary
<1>. QED
  BY <1>3, <1>4, <1>5, <1>6

LEMMA ClearStep ==
  ASSUME TypeOK, Agree, NEW t \in Callers, ClearPointers(t)
  PROVE  Agree'
<1>. USE DEF Agree, NobodyAt, At, stub, windows, real, history
<1>1. /\ pc'[t] = "resolveGet"
      /\ \A u \in Callers : u # t => pc'[u] = pc[u]
  BY Moves, IsPlace DEF ClearPointers
<1>2. pc \in [Callers -> Places] /\ Live' = Live
  BY DEF TypeOK, Live, ClearPointers
<1>3. OneLoads' /\ AloneUnloads'
  BY <1>1, <1>2 DEF OneLoads, AloneUnloads, Loading, Unloading, ClearPointers
<1>4. HandleAgrees'
  BY <1>1 DEF OneLoads, AloneUnloads, HandleAgrees, PointersAgree, Loading, Unloading, ClearPointers
<1>5. PointersAgree'
  BY <1>1 DEF OneLoads, AloneUnloads, HandleAgrees, PointersAgree, Loading, Unloading, ClearPointers
<1>6. CountAgrees' /\ ~crashed'
  BY <1>1, <1>2 DEF OneLoads, AloneUnloads, HandleAgrees, PointersAgree, CountAgrees, Loading, Unloading, ClearPointers
<1>. QED
  BY <1>3, <1>4, <1>5, <1>6

LEMMA ResolveGetStep ==
  ASSUME TypeOK, Agree, NEW t \in Callers, ResolveGet(t)
  PROVE  Agree'
<1>. USE DEF Agree, NobodyAt, At, stub, windows, real, history
<1>1. /\ pc'[t] = IF hTortoiseSI' = "NIL" THEN "check" ELSE "resolveCan"
      /\ \A u \in Callers : u # t => pc'[u] = pc[u]
  BY Moves, IsPlace DEF PointersAgree, ResolveGet, ResolveFails
<1>2. pc \in [Callers -> Places] /\ Live' = Live
  BY DEF TypeOK, Live, ResolveGet, ResolveFails
<1>3. OneLoads' /\ AloneUnloads'
  BY <1>1, <1>2 DEF OneLoads, AloneUnloads, Loading, Unloading, ResolveGet, ResolveFails
<1>4. HandleAgrees'
  BY <1>1 DEF OneLoads, AloneUnloads, HandleAgrees, PointersAgree, Loading, Unloading, ResolveGet, ResolveFails, FreeLibrary
<1>5. PointersAgree'
  BY <1>1 DEF OneLoads, AloneUnloads, HandleAgrees, PointersAgree, Loading, Unloading, ResolveGet, ResolveFails, FreeLibrary
<1>6. CountAgrees' /\ ~crashed'
  BY <1>1, <1>2 DEF OneLoads, AloneUnloads, HandleAgrees, PointersAgree, CountAgrees, Loading, Unloading, ResolveGet, ResolveFails, FreeLibrary
<1>. QED
  BY <1>3, <1>4, <1>5, <1>6

LEMMA ResolveCanStep ==
  ASSUME TypeOK, Agree, NEW t \in Callers, ResolveCan(t), Orderly'
  PROVE  Agree'
<1>. USE DEF Agree, NobodyAt, At, stub, windows, real, history
<1>1. /\ pc'[t] = "check"
      /\ \A u \in Callers : u # t => pc'[u] = pc[u]
  BY Moves, IsPlace DEF ResolveCan, ResolveFails
<1>2. pc \in [Callers -> Places] /\ Live' = Live
  BY DEF TypeOK, Live, ResolveCan, ResolveFails
<1>3. OneLoads' /\ AloneUnloads'
  BY <1>1, <1>2 DEF OneLoads, AloneUnloads, Loading, Unloading, ResolveCan, ResolveFails
<1>4. HandleAgrees'
  BY <1>1 DEF OneLoads, AloneUnloads, HandleAgrees, PointersAgree, Loading, Unloading, ResolveCan, ResolveFails, FreeLibrary, Orderly
<1>5. PointersAgree'
  BY <1>1 DEF OneLoads, AloneUnloads, HandleAgrees, PointersAgree, Loading, Unloading, ResolveCan, ResolveFails, FreeLibrary, Orderly
<1>6. CountAgrees' /\ ~crashed'
  <2>1. ~ResolveFails(t, "resolveCan", "DllCanUnloadNow")
    BY DEF ResolveFails, Orderly
  <2>2. UNCHANGED <<image, real, history>>
    BY <2>1 DEF ResolveCan
  <2>. QED
    BY <1>1, <1>2, <2>1, <2>2 DEF AloneUnloads, CountAgrees, ResolveCan, Unloading
<1>. QED
  BY <1>3, <1>4, <1>5, <1>6

LEMMA CheckStep ==
  ASSUME TypeOK, Agree, NEW t \in Callers, Check(t)
  PROVE  Agree'
<1>. USE DEF Agree, NobodyAt, At, stub, windows, real, history
<1>1. /\ pc'[t] = IF pDllGetClassObject = 0 THEN "idle" ELSE "call"
      /\ \A u \in Callers : u # t => pc'[u] = pc[u]
  BY Moves, IsPlace DEF Check
<1>2. pc \in [Callers -> Places] /\ Live' = Live
  BY DEF TypeOK, Live, Check
<1>3. OneLoads' /\ AloneUnloads'
  BY <1>1, <1>2 DEF OneLoads, AloneUnloads, Loading, Unloading, Check
<1>4. HandleAgrees'
  BY <1>1 DEF OneLoads, AloneUnloads, HandleAgrees, PointersAgree, Loading, Unloading, Check
<1>5. PointersAgree'
  BY <1>1 DEF OneLoads, AloneUnloads, HandleAgrees, PointersAgree, Loading, Unloading, Check
<1>6. CountAgrees' /\ ~crashed'
  BY <1>1, <1>2 DEF OneLoads, AloneUnloads, HandleAgrees, PointersAgree, CountAgrees, Loading, Unloading, Check
<1>. QED
  BY <1>3, <1>4, <1>5, <1>6

LEMMA CallStep ==
  ASSUME TypeOK, Agree, NEW t \in Callers, Call(t)
  PROVE  Agree'
<1>. USE DEF Agree, NobodyAt, At, stub, windows, real, history
<1>1. /\ pc'[t] \in {"idle", "inside"}
      /\ \A u \in Callers : u # t => pc'[u] = pc[u]
  BY Moves, IsPlace DEF Call, Follow
<1>2. pc \in [Callers -> Places] /\ Live' = Live
  BY DEF TypeOK, Live, Call, Follow
<1>3. OneLoads' /\ AloneUnloads'
  BY <1>1, <1>2 DEF OneLoads, AloneUnloads, Loading, Unloading, Call, Follow
<1>4. HandleAgrees'
  BY <1>1 DEF OneLoads, AloneUnloads, HandleAgrees, PointersAgree, Loading, Unloading, Call, Follow
<1>5. PointersAgree'
  BY <1>1 DEF OneLoads, AloneUnloads, HandleAgrees, PointersAgree, Loading, Unloading, Call, Follow
<1>6. CountAgrees' /\ ~crashed'
  BY <1>1, <1>2 DEF OneLoads, AloneUnloads, HandleAgrees, PointersAgree, CountAgrees, Loading, Unloading, Call, Follow
<1>. QED
  BY <1>3, <1>4, <1>5, <1>6

LEMMA AskRealStep ==
  ASSUME TypeOK, Agree, NEW t \in Callers, AskReal(t)
  PROVE  Agree'
<1>. USE DEF Agree, NobodyAt, At, stub, windows, real, history
<1>1. /\ pc'[t] \in {"idle", "free"}
      /\ \A u \in Callers : u # t => pc'[u] = pc[u]
  BY Moves, IsPlace DEF AskReal, Follow
<1>2. pc \in [Callers -> Places] /\ Live' = Live
  BY DEF TypeOK, Live, AskReal, Follow
<1>3. OneLoads' /\ AloneUnloads'
  BY <1>1, <1>2 DEF OneLoads, AloneUnloads, Loading, Unloading, AskReal, Follow
<1>4. HandleAgrees'
  BY <1>1 DEF OneLoads, AloneUnloads, HandleAgrees, PointersAgree, Loading, Unloading, AskReal, Follow
<1>5. PointersAgree'
  BY <1>1 DEF OneLoads, AloneUnloads, HandleAgrees, PointersAgree, Loading, Unloading, AskReal, Follow
<1>6. ~crashed'
  BY DEF OneLoads, AloneUnloads, PointersAgree, CountAgrees, Unloading, AskReal, Follow
<1>7. pc'[t] = "free" => g_cRefThisDll = 0
  BY <1>6 DEF AskReal, Follow, Go, TypeOK
<1>8. CountAgrees'
  BY <1>1, <1>2, <1>7, Counts DEF CountAgrees, AskReal
<1>. QED
  BY <1>3, <1>4, <1>5, <1>6, <1>8

LEMMA FreeStep ==
  ASSUME TypeOK, Agree, NEW t \in Callers, UnloadRealLibrary(t)
  PROVE  Agree'
<1>. USE DEF Agree, NobodyAt, At, stub, windows, real, history
<1>1. /\ pc'[t] = IF hTortoiseSI = "NULL" THEN "idle" ELSE "reset"
      /\ \A u \in Callers : u # t => pc'[u] = pc[u]
  BY Moves, IsPlace DEF UnloadRealLibrary
<1>2. pc \in [Callers -> Places] /\ Live' = Live
  BY DEF TypeOK, Live, UnloadRealLibrary
<1>3. OneLoads' /\ AloneUnloads'
  BY <1>1, <1>2 DEF OneLoads, AloneUnloads, Loading, Unloading, UnloadRealLibrary
<1>4. HandleAgrees'
  BY <1>1 DEF OneLoads, AloneUnloads, HandleAgrees, PointersAgree, Loading, Unloading, UnloadRealLibrary, FreeLibrary
<1>5. PointersAgree'
  BY <1>1 DEF OneLoads, AloneUnloads, HandleAgrees, PointersAgree, Loading, Unloading, UnloadRealLibrary, FreeLibrary
<1>6. CountAgrees' /\ ~crashed'
  BY <1>1, <1>2 DEF OneLoads, AloneUnloads, HandleAgrees, PointersAgree, CountAgrees, Loading, Unloading, UnloadRealLibrary, FreeLibrary
<1>. QED
  BY <1>3, <1>4, <1>5, <1>6

LEMMA ResetStep ==
  ASSUME TypeOK, Agree, NEW t \in Callers, ResetStub(t)
  PROVE  Agree'
<1>. USE DEF Agree, NobodyAt, At, stub, windows, real, history
<1>1. /\ pc'[t] = "idle"
      /\ \A u \in Callers : u # t => pc'[u] = pc[u]
  BY Moves, IsPlace DEF ResetStub
<1>2. pc \in [Callers -> Places] /\ Live' = Live
  BY DEF TypeOK, Live, ResetStub
<1>3. OneLoads' /\ AloneUnloads'
  BY <1>1, <1>2 DEF OneLoads, AloneUnloads, Loading, Unloading, ResetStub
<1>4. HandleAgrees'
  BY <1>1 DEF OneLoads, AloneUnloads, HandleAgrees, PointersAgree, Loading, Unloading, ResetStub
<1>5. PointersAgree'
  BY <1>1 DEF OneLoads, AloneUnloads, HandleAgrees, PointersAgree, Loading, Unloading, ResetStub
<1>6. CountAgrees' /\ ~crashed'
  BY <1>1, <1>2 DEF OneLoads, AloneUnloads, HandleAgrees, PointersAgree, CountAgrees, Loading, Unloading, ResetStub
<1>. QED
  BY <1>3, <1>4, <1>5, <1>6

\* The real DLL makes and frees things: no caller of the stub moves.
LEMMA FactoryStep ==
  ASSUME TypeOK, Agree, NEW t \in Callers, CreateFactory(t)
  PROVE  Agree'
<1>. USE DEF Agree, NobodyAt, At, stub, windows, real, history, CreateFactory
<1>1. /\ pc'[t] = "idle"
      /\ \A u \in Callers : u # t => pc'[u] = pc[u]
  BY Moves, IsPlace
<1>2. OneLoads' /\ AloneUnloads'
  BY <1>1 DEF OneLoads, AloneUnloads, Loading, Unloading
<1>3. HandleAgrees' /\ PointersAgree' /\ ~crashed'
  BY <1>1 DEF AloneUnloads, HandleAgrees, PointersAgree, Loading, Unloading
<1>4. image # 0 /\ \A u \in Callers : pc[u] \notin {"clear", "resolveGet", "free"}
  BY DEF AloneUnloads, PointersAgree, Unloading
<1>5. CountAgrees'
  <2>1. CASE UNCHANGED real
    BY <1>1, <2>1 DEF CountAgrees, Live
  <2>2. CASE \E x \in Things : Make(x, "factory")
    <3>1. g_cRefThisDll' = Cardinality(Live')
      BY <2>2, MakeCounts DEF CountAgrees, InUse
    <3>. QED
      BY <1>1, <1>4, <3>1 DEF CountAgrees
  <2>. QED
    BY <2>1, <2>2
<1>. QED
  BY <1>2, <1>3, <1>5

\* An object made by a factory, a page by an object: what is in use is so already.
LEMMA ThingStep ==
  ASSUME TypeOK, Agree, UNCHANGED <<stub, windows, pc, history>>,
         g_cRefThisDll' = Cardinality(Live'), Live' # {} => Live # {}
  PROVE  Agree'
BY DEF Agree, OneLoads, AloneUnloads, HandleAgrees, PointersAgree, CountAgrees, NobodyAt,
   stub, windows, history

----------------------------------------------------------------------------
(* The theorems.                                                            *)

LEMMA InvStep == IInv /\ [Next]_vars => IInv'
<1>. SUFFICES ASSUME IInv, [Next]_vars
              PROVE  IInv'
  OBVIOUS
<1>1. TypeOK /\ TypeOK'
  BY TypeStep DEF IInv
<1>. SUFFICES ASSUME Orderly'
              PROVE  Agree'
  BY <1>1 DEF IInv
<1>2. Agree
  BY <1>1, OrderlyBefore DEF IInv
<1>3. g_cRefThisDll = Cardinality(Live)
  BY <1>2 DEF Agree, CountAgrees
<1>4. ASSUME NEW t \in Callers, DllGetClassObject(t) \/ DllCanUnloadNow(t) \/ Proceed(t)
      PROVE  Agree'
  BY <1>1, <1>2, <1>4, GetStep, AskStep, LoadFailsStep, LoadStep, ClearStep, ResolveGetStep,
     ResolveCanStep, CheckStep, CallStep, FactoryStep, AskRealStep, FreeStep, ResetStep DEF Proceed
<1>5. CASE CreateInstance
  <2>1. g_cRefThisDll' = Cardinality(Live')
    BY <1>1, <1>3, <1>5, MakeCounts DEF CreateInstance, InUse
  <2>2. Live # {}
    BY <1>5 DEF CreateInstance, Live, InUse
  <2>. QED
    BY <1>1, <1>2, <1>5, <2>1, <2>2, ThingStep DEF CreateInstance
<1>6. CASE AddPages
  <2>1. g_cRefThisDll' = Cardinality(Live')
    BY <1>1, <1>3, <1>6, MakeCounts DEF AddPages, InUse
  <2>2. Live # {}
    BY <1>6 DEF AddPages, Live, InUse
  <2>. QED
    BY <1>1, <1>2, <1>6, <2>1, <2>2, ThingStep DEF AddPages
<1>7. ASSUME NEW x \in Things, Release(x)
      PROVE  Agree'
  <2>1. g_cRefThisDll' = Cardinality(Live') /\ Live' \subseteq Live
    BY <1>1, <1>3, <1>7, ReleaseCounts
  <2>. QED
    BY <1>1, <1>2, <1>7, <2>1, ThingStep DEF Release
<1>8. ASSUME NEW x \in Things, Destroyed(x)
      PROVE  Agree'
  <2>1. Live' = Live /\ g_cRefThisDll' = g_cRefThisDll
    BY <1>1, <1>8 DEF Destroyed, Live, InUse, TypeOK
  <2>. QED
    BY <1>1, <1>2, <1>3, <1>8, <2>1, ThingStep DEF Destroyed
<1>9. CASE UNCHANGED vars
  <2>1. Live' = Live /\ g_cRefThisDll' = g_cRefThisDll
    BY <1>9 DEF vars, real, Live
  <2>. QED
    BY <1>1, <1>2, <1>3, <1>9, <2>1, ThingStep DEF vars
<1>. QED
  BY <1>4, <1>5, <1>6, <1>7, <1>8, <1>9 DEF Next

LEMMA InvInit == Init => IInv
<1>. SUFFICES ASSUME Init
              PROVE  IInv
  OBVIOUS
<1>1. MaxImages \in Nat
  BY LifetimeAssumption DEF LifetimeAssumption
<1>2. TypeOK
  <2>1. pc \in [Callers -> Places] /\ thing \in [Things -> {"none", "dying"} \cup InUse]
    BY IsPlace DEF Init
  <2>2. /\ pDllGetClassObject \in Image /\ pDllCanUnloadNow \in Image
        /\ image \in Image /\ images \in Image
    BY <1>1 DEF Init, Image
  <2>3. hTortoiseSI \in {"NULL", "NIL", "dll"} /\ loads \in Nat /\ g_cRefThisDll \in Int
    BY DEF Init
  <2>4. crashed \in BOOLEAN /\ overlapped \in BOOLEAN /\ halfResolved \in BOOLEAN
    BY DEF Init
  <2>. QED
    BY <2>1, <2>2, <2>3, <2>4 DEF TypeOK
<1>3. Live = {}
  BY DEF Init, Live, InUse
<1>4. OneLoads /\ AloneUnloads /\ HandleAgrees /\ PointersAgree /\ ~crashed
  BY DEF Init, OneLoads, AloneUnloads, HandleAgrees, PointersAgree, NobodyAt, Loading, Unloading
<1>5. CountAgrees
  BY <1>3, Counts DEF Init, CountAgrees, NobodyAt
<1>. QED
  BY <1>2, <1>4, <1>5 DEF IInv, Agree

THEOREM Invariant == Spec => []IInv
<1>. QED
  BY InvInit, InvStep, PTL DEF Spec

\* Every variable of the stub and of the real DLL keeps its type.
THEOREM TypeCorrect == Spec => []TypeOK
<1>1. IInv => TypeOK
  BY DEF IInv
<1>. QED
  BY <1>1, Invariant, PTL

\* While loads and unloads do not overlap, no call of the stub (TortoiseStub.cpp:262-322)
\* goes to code that is not mapped.
THEOREM CallsMappedCodeHolds == Spec => []CallsMappedCode
<1>1. IInv => CallsMappedCode
  BY DEF IInv, Agree, CallsMappedCode
<1>. QED
  BY <1>1, Invariant, PTL

\* Nor is the real DLL mapped twice, or freed while a factory, an object or a page of it
\* is in use (TortoiseSI.cpp:145-149, TortoiseStub.cpp:242-256).
THEOREM MappedWhileInUseHolds == Spec => []MappedWhileInUse
<1>1. IInv => MappedWhileInUse
  BY DEF IInv, Agree, HandleAgrees, CountAgrees, MappedWhileInUse
<1>. QED
  BY <1>1, Invariant, PTL

=============================================================================
