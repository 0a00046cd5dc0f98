------------------------- MODULE StatusCacheProofs -------------------------
(***************************************************************************)
(* The safety properties of StatusCache, for any threads, files, sizes of  *)
(* the cache, and times, and of the commands of the user that clear it.    *)
(*                                                                         *)
(* ClearFlushes and DuplicatesBounded are counted the same way: an         *)
(* insertion moves one lookup to one entry at most, so that the sum of the *)
(* two cardinalities does not grow (Insertion), and a lookup that starts   *)
(* does not count for the first, and for the second finds room because no  *)
(* entry hit.                                                              *)
(*                                                                         *)
(* UserCommands takes no step of the cache that StatusCache has not        *)
(* (UserIsCache).  What Explorer is told is enough because of what an      *)
(* answer can be wrong about: one that was asked for since the last full   *)
(* clear, in an entry or on its way to one, is the truth unless the file   *)
(* was changed silently or the command that changed it has not cleared the *)
(* cache yet (Known).                                                      *)
(***************************************************************************)
EXTENDS UserCommands, FiniteSetTheorems, WellFoundedInduction, TLAPS

----------------------------------------------------------------------------
(* Slots.                                                                   *)

LEMMA SlotsFinite ==
  /\ CacheSize \in Nat /\ IsFiniteSet(Slots)
  /\ \A S \in SUBSET Slots : IsFiniteSet(S) /\ Cardinality(S) \in Nat
<1>1. CacheSize \in Nat
  BY StatusAssumption DEF StatusAssumption
<1>2. IsFiniteSet(1..CacheSize)
  BY <1>1, FS_Interval
<1>. QED
  BY <1>1, <1>2, FS_Subset, FS_CardinalityType DEF Slots

\* A set of naturals has a least element: the interval below it is a finite set that
\* is minimal under inclusion.
LEMMA LeastNat ==
  ASSUME NEW S, S \subseteq Nat, S # {}
  PROVE  \E x \in S : \A y \in S : x <= y
<1> DEFINE T == {0..x : x \in S}
<1>1. T \subseteq FiniteSubsetsOf(Nat) /\ T # {}
  <2>1. \A x \in S : 0..x \subseteq Nat /\ IsFiniteSet(0..x)
    BY FS_Interval
  <2>. QED
    BY <2>1 DEF FiniteSubsetsOf
<1> HIDE DEF T
<1>2. PICK X \in T : \A Y \in T : <<Y, X>> \notin StrictSubsetOrdering(Nat)
  BY <1>1, FS_StrictSubsetOrderingWellFounded, WFMin
<1> USE DEF T
<1>3. PICK x \in S : X = 0..x
  BY <1>2
<1>4. ASSUME NEW y \in S, y < x
      PROVE  FALSE
  <2>1. 0..y \subseteq 0..x /\ x \notin 0..y /\ x \in 0..x
    BY <1>4
  <2>2. 0..y \in SUBSET Nat /\ 0..x \in SUBSET Nat
    OBVIOUS
  <2>3. <<0..y, 0..x>> \in StrictSubsetOrdering(Nat)
    BY <2>1, <2>2 DEF StrictSubsetOrdering
  <2>. QED
    BY <1>2, <1>3, <2>3
<1>5. \A y \in S : x <= y
  BY <1>4
<1>. QED
  BY <1>5

LEMMA SlotEnds ==
  ASSUME NEW S \in SUBSET Slots, S # {}
  PROVE  Min(S) \in S /\ Max(S) \in S
<1>1. CacheSize \in Nat /\ \A i \in S : i \in Nat /\ i <= CacheSize
  BY SlotsFinite DEF Slots
<1>2. \E x \in S : \A y \in S : x <= y
  <2>1. S \subseteq Nat
    BY <1>1
  <2>. QED
    BY <2>1, LeastNat
<1>3. \E x \in S : \A y \in S : x >= y
  <2> DEFINE T == {CacheSize - i : i \in S}
  <2>1. T \subseteq Nat /\ T # {}
    BY <1>1
  <2> HIDE DEF T
  <2>2. PICK u \in T : \A v \in T : u <= v
    BY <2>1, LeastNat
  <2> USE DEF T
  <2>3. PICK x \in S : u = CacheSize - x
    BY <2>2
  <2>4. \A y \in S : CacheSize - x <= CacheSize - y
    BY <2>2, <2>3
  <2>5. \A y \in S : x >= y
    BY <1>1, <2>4
  <2>. QED
    BY <2>5
<1>. QED
  BY <1>2, <1>3 DEF Min, Max

\* The entry an insertion replaces is one of the array.
LEMMA ReplacedIs == Replaced \in Slots \cup {0}
BY SlotEnds DEF Replaced

----------------------------------------------------------------------------
(* Counting.                                                                *)

LEMMA LookupsFinite ==
  \A L \in SUBSET Lookups : /\ IsFiniteSet(L) /\ Cardinality(L) \in Nat
                            /\ Cardinality(L) <= Cardinality(Lookups)
BY StatusAssumption, FS_Subset, FS_CardinalityType DEF StatusAssumption

LEMMA Smaller ==
  ASSUME NEW T, IsFiniteSet(T), NEW S \in SUBSET T
  PROVE  IsFiniteSet(S) /\ Cardinality(S) \in Nat /\ Cardinality(S) <= Cardinality(T)
BY FS_Subset, FS_CardinalityType

\* A lookup leaves one set, if it was there, and a slot enters the other one only then.
LEMMA Insertion ==
  ASSUME NEW S \in SUBSET Slots, NEW S2 \in SUBSET Slots, NEW i \in Slots,
         NEW L \in SUBSET Lookups, NEW l \in Lookups,
         S2 \subseteq IF l \in L THEN S \cup {i} ELSE S
  PROVE  Cardinality(S2) + Cardinality(L \ {l}) <= Cardinality(S) + Cardinality(L)
<1>1. /\ IsFiniteSet(S) /\ Cardinality(S) \in Nat /\ IsFiniteSet(L) /\ Cardinality(L) \in Nat
      /\ IsFiniteSet(S2) /\ Cardinality(S2) \in Nat /\ Cardinality(L \ {l}) \in Nat
  BY SlotsFinite, LookupsFinite
<1>2. CASE l \in L
  <2>1. Cardinality(L \ {l}) = Cardinality(L) - 1
    BY <1>1, <1>2, FS_RemoveElement
  <2>2. /\ IsFiniteSet(S \cup {i}) /\ Cardinality(S \cup {i}) \in Nat
        /\ Cardinality(S \cup {i}) <= Cardinality(S) + 1
    BY <1>1, SlotsFinite, FS_AddElement
  <2>3. Cardinality(S2) <= Cardinality(S \cup {i})
    BY <1>2, <2>2, Smaller
  <2>. QED
    BY <1>1, <2>1, <2>2, <2>3
<1>3. CASE l \notin L
  <2>1. Cardinality(S2) <= Cardinality(S) /\ L \ {l} = L
    BY <1>1, <1>3, Smaller
  <2>. QED
    BY <1>1, <2>1
<1>. QED
  BY <1>2, <1>3

----------------------------------------------------------------------------
(* Types.                                                                   *)

\* A lookup that asks, asks about a file; no entry is from further ahead than the clock
\* was set back.
AgesBounded == \A i \in Slots : cachedStatus[i].age + setBack >= 0
TypeInv == TypeOK /\ AgesBounded /\ \A l \in Asking : lookup[l].path \in Paths

Entries == [path : Paths \cup {NoPath}, fileStatus : Status, age : Ages, era : Era]
Calls   == [pc : {"idle", "asking", "answered"}, path : Paths \cup {NoPath},
            fileStatus : Status, era : Era]

LEMMA Constants ==
  /\ NoPath \notin Paths /\ Expiry \in Nat \ {0} /\ MaxSkew \in Nat
  /\ MaxVersion \in Nat \ {0} /\ MaxEra \in Nat /\ MaxFailures \in Nat
BY StatusAssumption DEF StatusAssumption

LEMMA Starts == Unused \in Entries /\ NoLookup \in Calls
BY Constants DEF Unused, NoLookup, Entries, Calls, Status, NoStatus, Ages, Era

LEMMA TypeInit == Init => TypeInv
<1>. SUFFICES ASSUME Init
              PROVE  TypeInv
  OBVIOUS
<1>1. actual \in [Paths -> Version]
  BY Constants DEF Init, Version
<1>2. cachedStatus \in [Slots -> Entries] /\ lookup \in [Lookups -> Calls]
  BY Starts DEF Init
<1>3. failures \in 0..MaxFailures /\ setBack \in 0..MaxSkew /\ era \in Era /\ inFlight \in Nat
  BY Constants DEF Init, Era
<1>4. overrun \in BOOLEAN
  BY DEF Init
<1>5. Asking = {}
  BY DEF Init, Asking, NoLookup
<1>6. AgesBounded
  BY Constants DEF Init, AgesBounded, Unused
<1>. QED
  BY <1>1, <1>2, <1>3, <1>4, <1>5, <1>6 DEF TypeInv, TypeOK, Entries, Calls

\* The entries under the clock, which all get older or, when it is set back, younger.
LEMMA AgesStep ==
  ASSUME TypeOK, AgesBounded, Tick \/ SetClockBack
  PROVE  /\ cachedStatus' \in [Slots -> Entries]
         /\ AgesBounded'
         /\ \A i \in Slots : /\ cachedStatus'[i].path = cachedStatus[i].path
                             /\ cachedStatus'[i].era = cachedStatus[i].era
<1>1. cachedStatus \in [Slots -> Entries]
  BY DEF TypeOK, Entries
<1>2. CASE Tick
  <2>1. \A i \in Slots : Used(i) /\ cachedStatus[i].age < Expiry =>
          cachedStatus[i].age + 1 \in Ages
    BY <1>1, Constants DEF Entries, Ages
  <2>2. \A i \in Slots :
          /\ (IF Used(i) /\ cachedStatus[i].age < Expiry
              THEN [cachedStatus[i] EXCEPT !.age = @ + 1] ELSE cachedStatus[i]) \in Entries
    BY <1>1, <2>1 DEF Entries
  <2>3. cachedStatus' \in [Slots -> Entries]
    BY <1>1, <1>2, <2>2 DEF Tick
  <2>4. \A i \in Slots : cachedStatus[i].age \in Int /\ cachedStatus'[i].age >= cachedStatus[i].age
    BY <1>1, <1>2, Constants DEF Tick, Entries, Ages
  <2>5. setBack \in Nat /\ setBack' = setBack
    BY <1>2, Constants DEF Tick, TypeOK
  <2>6. \A i \in Slots : cachedStatus'[i].age \in Int
    BY <2>3, Constants DEF Entries, Ages
  <2>7. AgesBounded'
    BY <2>4, <2>5, <2>6 DEF AgesBounded
  <2>8. \A i \in Slots : /\ cachedStatus'[i].path = cachedStatus[i].path
                         /\ cachedStatus'[i].era = cachedStatus[i].era
    BY <1>1, <1>2 DEF Tick, Entries
  <2>. QED
    BY <2>3, <2>7, <2>8
<1>3. CASE SetClockBack
  <2>1. PICK d \in 1..(MaxSkew - setBack), revived \in SUBSET {i \in Slots : cachedStatus[i].age = Expiry} :
       /\ setBack' = setBack + d
       /\ cachedStatus' = [i \in Slots |->
            IF Used(i) /\ (cachedStatus[i].age < Expiry \/ i \in revived)
            THEN [cachedStatus[i] EXCEPT !.age = @ - d] ELSE cachedStatus[i]]
    BY <1>3 DEF SetClockBack
  <2>2. setBack \in 0..MaxSkew /\ MaxSkew \in Nat /\ Expiry \in Nat
    BY Constants DEF TypeOK
  <2>3. \A i \in Slots : /\ cachedStatus[i].age \in Ages /\ cachedStatus[i].age + setBack >= 0
                         /\ cachedStatus[i].age - d \in Ages
    BY <1>1, <2>2 DEF Entries, Ages, AgesBounded
  <2>4. \A i \in Slots : [cachedStatus[i] EXCEPT !.age = @ - d] \in Entries
    BY <1>1, <2>3 DEF Entries
  <2>5. cachedStatus' \in [Slots -> Entries]
    BY <1>1, <2>1, <2>4
  <2>6. \A i \in Slots : cachedStatus'[i].age \in {cachedStatus[i].age, cachedStatus[i].age - d}
    BY <1>1, <2>1 DEF Entries
  <2>7. AgesBounded'
    BY <2>1, <2>2, <2>3, <2>6 DEF AgesBounded, Ages
  <2>8. \A i \in Slots : /\ cachedStatus'[i].path = cachedStatus[i].path
                         /\ cachedStatus'[i].era = cachedStatus[i].era
    BY <1>1, <2>1 DEF Entries
  <2>. QED
    BY <2>5, <2>7, <2>8
<1>. QED
  BY <1>2, <1>3

\* Otherwise an entry keeps its age, is new, or goes.
LEMMA AgesBoundedStep ==
  ASSUME TypeOK, AgesBounded, [Next]_vars
  PROVE  AgesBounded'
<1>1. CASE Tick \/ SetClockBack
  BY <1>1, AgesStep
<1>2. CASE ~(Tick \/ SetClockBack)
  <2>0. setBack' = setBack
    BY <1>2 DEF Next, vars, GetFileStatus, FileInfo, AddCachedStatus, ClearPath, StatusChange, Clear
  <2>1. cachedStatus \in [Slots -> Entries] /\ setBack \in Nat /\ setBack' = setBack
    BY <2>0, Constants DEF TypeOK, Entries
  <2>2. \A i \in Slots : cachedStatus'[i].age \in {cachedStatus[i].age, 0, Expiry}
    <3>1. ASSUME NEW l \in Lookups, AddCachedStatus(l), NEW i \in Slots
          PROVE  cachedStatus'[i].age \in {cachedStatus[i].age, 0, Expiry}
      BY <2>1, <3>1 DEF AddCachedStatus
    <3>2. ASSUME NEW p \in Paths, ClearPath(p), NEW i \in Slots
          PROVE  cachedStatus'[i].age \in {cachedStatus[i].age, 0, Expiry}
      BY <2>1, <3>2 DEF ClearPath, Unused
    <3>3. ASSUME Clear, NEW i \in Slots
          PROVE  cachedStatus'[i].age \in {cachedStatus[i].age, 0, Expiry}
      BY <3>3 DEF Clear, Unused
    <3>. QED
      BY <1>2, <3>1, <3>2, <3>3 DEF Next, vars, GetFileStatus, FileInfo, StatusChange
  <2>3. \A i \in Slots : cachedStatus[i].age \in Int /\ cachedStatus[i].age + setBack >= 0
    BY <2>1, Constants DEF AgesBounded, Entries, Ages
  <2>4. ASSUME NEW i \in Slots
        PROVE  cachedStatus'[i].age + setBack >= 0
    BY <2>1, <2>2, <2>3, Constants
  <2>. QED
    BY <2>1, <2>4 DEF AgesBounded
<1>. QED
  BY <1>1, <1>2

LEMMA TypeStep == TypeInv /\ [Next]_vars => TypeInv'
<1>. SUFFICES ASSUME TypeInv, [Next]_vars
              PROVE  TypeInv'
  OBVIOUS
<1> DEFINE Typed ==
      /\ actual \in [Paths -> Version] /\ cachedStatus \in [Slots -> Entries]
      /\ lookup \in [Lookups -> Calls] /\ failures \in 0..MaxFailures
      /\ setBack \in 0..MaxSkew /\ overrun \in BOOLEAN /\ era \in Era /\ inFlight \in Nat
      /\ \A l \in Lookups : lookup[l].pc # "idle" => lookup[l].path \in Paths
<1>0. Typed
  BY DEF TypeInv, TypeOK, Entries, Calls, Asking
<1>. SUFFICES Typed'
  BY AgesBoundedStep DEF TypeInv, TypeOK, Entries, Calls, Asking
<1>1. ASSUME NEW l \in Lookups, NEW p \in Paths, GetFileStatus(l, p)
      PROVE  Typed'
  <2>1. [NoLookup EXCEPT !.pc = "asking", !.path = p, !.era = era] \in Calls
    BY <1>0, Starts DEF Calls
  <2>2. UNCHANGED lookup
        \/ lookup' = [lookup EXCEPT ![l] = [NoLookup EXCEPT !.pc = "asking", !.path = p, !.era = era]]
    BY <1>1 DEF GetFileStatus
  <2>3. lookup' \in [Lookups -> Calls]
    BY <1>0, <2>1, <2>2
  <2>4. \A k \in Lookups : lookup'[k].pc # "idle" => lookup'[k].path \in Paths
    BY <1>0, <2>2 DEF NoLookup
  <2>. QED
    BY <1>0, <1>1, <2>3, <2>4 DEF GetFileStatus
<1>2. ASSUME NEW l \in Lookups, FileInfo(l)
      PROVE  Typed'
  <2>1. lookup[l] \in Calls /\ lookup[l].path \in Paths
    BY <1>0, <1>2 DEF FileInfo
  <2>2. PICK st \in Status : lookup' = [lookup EXCEPT ![l].pc = "answered", ![l].fileStatus = st]
    <3>1. actual[lookup[l].path] \in Status /\ lookup[l].fileStatus \in Status
      BY <1>0, <2>1 DEF Status, Calls
    <3>2. CASE lookup' = [lookup EXCEPT ![l].pc = "answered"]
      <4>1. lookup' = [lookup EXCEPT ![l].pc = "answered", ![l].fileStatus = lookup[l].fileStatus]
        BY <1>0, <2>1, <3>2 DEF Calls
      <4>. QED
        BY <3>1, <4>1
    <3>. QED
      BY <1>2, <3>1, <3>2 DEF FileInfo
  <2>3. lookup' \in [Lookups -> Calls]
    BY <1>0, <2>1, <2>2 DEF Calls
  <2>4. \A k \in Lookups : lookup'[k].path = lookup[k].path
    BY <1>0, <2>2 DEF Calls
  <2>5. failures' \in 0..MaxFailures
    BY <1>0, <1>2, Constants DEF FileInfo, Fails
  <2>6. \A k \in Lookups : lookup'[k].pc # "idle" => lookup'[k].path \in Paths
    BY <1>0, <2>1, <2>2, <2>4
  <2>. QED
    BY <1>0, <1>2, <2>3, <2>5, <2>6 DEF FileInfo
<1>3. ASSUME NEW l \in Lookups, AddCachedStatus(l)
      PROVE  Typed'
  <2>1. lookup' \in [Lookups -> Calls]
    BY <1>0, <1>3, Starts DEF AddCachedStatus
  <2>2. [path |-> lookup[l].path, fileStatus |-> lookup[l].fileStatus,
         age |-> 0, era |-> lookup[l].era] \in Entries
    <3>1. 0 \in Ages /\ lookup[l] \in Calls
      BY <1>0, Constants DEF Ages
    <3>. QED
      BY <3>1 DEF Entries, Calls
  <2>3. cachedStatus' \in [Slots -> Entries]
    BY <1>0, <1>3, <2>2, ReplacedIs DEF AddCachedStatus
  <2>4. overrun' \in BOOLEAN
    BY <1>0, <1>3 DEF AddCachedStatus
  <2>5. \A k \in Lookups : lookup'[k].pc # "idle" => lookup'[k].path \in Paths
    BY <1>0, <1>3 DEF AddCachedStatus, NoLookup
  <2>. QED
    BY <1>0, <1>3, <2>1, <2>3, <2>4, <2>5 DEF AddCachedStatus
<1>4. ASSUME NEW p \in Paths, ClearPath(p)
      PROVE  Typed'
  <2>1. cachedStatus' \in [Slots -> Entries]
    BY <1>0, <1>4, Starts, SlotEnds DEF ClearPath
  <2>. QED
    BY <1>0, <1>4, <2>1 DEF ClearPath
<1>5. CASE Clear
  <2>1. cachedStatus' \in [Slots -> Entries]
    BY <1>5, Starts DEF Clear
  <2>2. era' \in Era
    BY <1>0, <1>5, Constants DEF Clear, Era
  <2>3. inFlight' \in Nat
    BY <1>5, LookupsFinite DEF Clear, Asking
  <2>4. overrun' \in BOOLEAN /\ \A l \in Lookups : lookup'[l].pc # "idle" => lookup'[l].path \in Paths
    BY <1>0, <1>5 DEF Clear
  <2>. QED
    BY <1>0, <1>5, <2>1, <2>2, <2>3, <2>4 DEF Clear
<1>6. ASSUME NEW p \in Paths, StatusChange(p)
      PROVE  Typed'
  <2>1. actual' \in [Paths -> Version]
    BY <1>0, <1>6, Constants DEF StatusChange, Version
  <2>. QED
    BY <1>0, <1>6, <2>1 DEF StatusChange
<1>7. CASE Tick \/ SetClockBack
  <2>1. cachedStatus' \in [Slots -> Entries]
    BY <1>7, AgesStep DEF TypeInv
  <2>2. setBack' \in 0..MaxSkew
    BY <1>0, <1>7, Constants DEF Tick, SetClockBack
  <2>3. UNCHANGED <<actual, lookup, failures, overrun, era, inFlight>>
    BY <1>7 DEF Tick, SetClockBack
  <2>4. overrun' \in BOOLEAN /\ \A l \in Lookups : lookup'[l].pc # "idle" => lookup'[l].path \in Paths
    BY <1>0, <2>3
  <2>. QED
    BY <1>0, <2>1, <2>2, <2>3, <2>4
<1>8. CASE UNCHANGED vars
  <2>1. overrun' \in BOOLEAN
    BY <1>0, <1>8 DEF vars
  <2>. QED
    BY <1>0, <1>8, <2>1 DEF vars
<1> HIDE DEF Typed
<1>. QED
  BY <1>1, <1>2, <1>3, <1>4, <1>5, <1>6, <1>7, <1>8 DEF Next

LEMMA TypeInvHolds == Spec => []TypeInv
BY TypeInit, TypeStep, PTL DEF Spec

\* Every variable of the cache and of its callers keeps its type.
THEOREM TypeCorrect == Spec => []TypeOK
<1>1. TypeInv => TypeOK
  BY DEF TypeInv
<1>. QED
  BY <1>1, TypeInvHolds, PTL

----------------------------------------------------------------------------
(* The array.                                                               *)

\* addCachedStatus writes inside its array (StatusCache.cpp:94-114) until the clock has
\* been set back by the expiry time in all: an array in which no entry passes its test
\* holds only entries from that far ahead.
THEOREM WritesInsideHolds == Spec => []WritesInside
<1>1. Init => WritesInside
  BY DEF Init, WritesInside
<1>2. TypeInv /\ TypeInv' /\ WritesInside /\ [Next]_vars => WritesInside'
  <2>. SUFFICES ASSUME TypeInv, TypeInv', WritesInside, [Next]_vars
                PROVE  WritesInside'
    OBVIOUS
  <2>0. setBack \in Nat /\ setBack' \in Nat /\ Expiry \in Nat \ {0}
    BY Constants DEF TypeInv, TypeOK
  <2>1. CASE \E l \in Lookups : AddCachedStatus(l)
    <3>1. UNCHANGED setBack
      BY <2>1 DEF AddCachedStatus
    <3>2. CASE Replaced # 0
      BY <2>1, <3>1, <3>2 DEF WritesInside, AddCachedStatus
    <3>3. CASE Replaced = 0
      <4>1. 1 \in Slots /\ 0 \notin Slots
        BY StatusAssumption DEF StatusAssumption, Slots
      <4>2. {i \in Slots : 0 - cachedStatus[i].age < Expiry} = {}
        BY <3>3, <4>1, SlotEnds DEF Replaced
      <4>3. ~(0 - cachedStatus[1].age < Expiry)
        BY <4>1, <4>2
      <4>4. cachedStatus[1].age \in Int /\ cachedStatus[1].age + setBack >= 0
        BY <4>1, Constants DEF TypeInv, TypeOK, AgesBounded, Ages
      <4>5. setBack >= Expiry
        BY <2>0, <4>3, <4>4
      <4>. QED
        BY <3>1, <4>5 DEF WritesInside
    <3>. QED
      BY <3>2, <3>3
  <2>2. CASE SetClockBack
    <3>1. setBack' >= setBack /\ UNCHANGED overrun
      BY <2>0, <2>2, Constants DEF SetClockBack
    <3>. QED
      BY <2>0, <3>1 DEF WritesInside
  <2>3. CASE ~SetClockBack /\ ~\E l \in Lookups : AddCachedStatus(l)
    BY <2>3 DEF WritesInside, Next, vars, GetFileStatus, FileInfo, ClearPath, StatusChange, Clear, Tick
  <2>. QED
    BY <2>1, <2>2, <2>3
<1>. QED
  BY <1>1, <1>2, TypeInvHolds, PTL DEF Spec

----------------------------------------------------------------------------
(* Clearing.                                                                *)

OldSlots   == {i \in Slots : Used(i) /\ OldEra(cachedStatus[i].era)}
OldLookups == {l \in Asking : OldEra(lookup[l].era)}
Flushed    == Cardinality(OldSlots) + Cardinality(OldLookups) <= inFlight

\* A step that takes neither an entry nor a lookup from an earlier era up.
LEMMA FlushSmaller ==
  ASSUME TypeInv, Flushed, OldSlots' \subseteq OldSlots, OldLookups' \subseteq OldLookups,
         UNCHANGED inFlight
  PROVE  Flushed'
<1>1. OldSlots \in SUBSET Slots /\ OldLookups \in SUBSET Lookups
  BY DEF OldSlots, OldLookups, Asking
<1>2. /\ Cardinality(OldSlots') \in Nat /\ Cardinality(OldSlots) \in Nat
      /\ Cardinality(OldLookups') \in Nat /\ Cardinality(OldLookups) \in Nat
      /\ Cardinality(OldSlots') <= Cardinality(OldSlots)
      /\ Cardinality(OldLookups') <= Cardinality(OldLookups)
  BY <1>1, SlotsFinite, LookupsFinite, Smaller
<1>3. Cardinality(OldSlots) + Cardinality(OldLookups) <= inFlight /\ inFlight \in Nat
  BY DEF Flushed, TypeInv, TypeOK
<1>4. Cardinality(OldSlots') + Cardinality(OldLookups') <= inFlight'
  BY <1>2, <1>3
<1>. QED
  BY <1>4 DEF Flushed

LEMMA FlushStep == TypeInv /\ Flushed /\ [Next]_vars => Flushed'
<1>. SUFFICES ASSUME TypeInv, Flushed, [Next]_vars
              PROVE  Flushed'
  OBVIOUS
<1>0. /\ cachedStatus \in [Slots -> Entries] /\ lookup \in [Lookups -> Calls] /\ era \in Nat
      /\ OldSlots \in SUBSET Slots /\ OldLookups \in SUBSET Lookups
  BY Constants DEF TypeInv, TypeOK, Entries, Calls, OldSlots, OldLookups, Asking, Era
<1>1. ASSUME NEW l \in Lookups, NEW p \in Paths, GetFileStatus(l, p)
      PROVE  Flushed'
  <2>1. OldSlots' = OldSlots /\ UNCHANGED inFlight
    BY <1>1 DEF GetFileStatus, OldSlots, Used, OldEra
  <2> DEFINE new == [NoLookup EXCEPT !.pc = "asking", !.path = p, !.era = era]
  <2>a. new.era = era /\ ~(era < era)
    BY <1>0 DEF NoLookup
  <2>b. era' = era /\ \A k \in Lookups : lookup'[k] = lookup[k] \/ lookup'[k] = new
    BY <1>0, <1>1 DEF GetFileStatus
  <2> HIDE DEF new
  <2>2. OldLookups' \subseteq OldLookups
    BY <2>a, <2>b DEF OldLookups, Asking, OldEra
  <2>. QED
    BY <2>1, <2>2, FlushSmaller
<1>2. ASSUME NEW l \in Lookups, FileInfo(l)
      PROVE  Flushed'
  <2>1. OldSlots' = OldSlots /\ UNCHANGED inFlight
    BY <1>2 DEF FileInfo, OldSlots, Used, OldEra
  <2>2. \A k \in Lookups : lookup'[k].era = lookup[k].era
    BY <1>0, <1>2 DEF FileInfo, Calls
  <2>3. \A k \in Lookups : lookup'[k].pc # "idle" => lookup[k].pc # "idle"
    BY <1>0, <1>2 DEF FileInfo
  <2>4. OldLookups' \subseteq OldLookups
    BY <1>2, <2>2, <2>3 DEF FileInfo, OldLookups, Asking, OldEra
  <2>. QED
    BY <2>1, <2>4, FlushSmaller
<1>3. ASSUME NEW l \in Lookups, AddCachedStatus(l)
      PROVE  Flushed'
  <2>1. OldLookups' = OldLookups \ {l}
    BY <1>0, <1>3 DEF AddCachedStatus, OldLookups, Asking, OldEra, NoLookup
  <2>2. PICK i \in Slots : OldSlots' \subseteq IF l \in OldLookups THEN OldSlots \cup {i} ELSE OldSlots
    <3>1. CASE Replaced = 0
      <4>1. 1 \in Slots
        BY StatusAssumption DEF StatusAssumption, Slots
      <4>2. OldSlots' = OldSlots
        BY <1>3, <3>1 DEF AddCachedStatus, OldSlots, Used, OldEra
      <4>. QED
        BY <4>1, <4>2
    <3>2. CASE Replaced # 0
      <4>1. Replaced \in Slots
        BY <3>2, ReplacedIs
      <4> DEFINE new == [path |-> lookup[l].path, fileStatus |-> lookup[l].fileStatus,
                         age |-> 0, era |-> lookup[l].era]
      <4>2. cachedStatus' = [cachedStatus EXCEPT ![Replaced] = new] /\ era' = era
        BY <1>3, <3>2 DEF AddCachedStatus
      <4>3. OldEra(lookup[l].era) <=> l \in OldLookups
        BY <1>3 DEF AddCachedStatus, OldLookups, Asking
      <4>4. \A j \in Slots : cachedStatus'[j] = IF j = Replaced THEN new ELSE cachedStatus[j]
        BY <1>0, <4>2
      <4>5. OldSlots' \subseteq IF l \in OldLookups THEN OldSlots \cup {Replaced} ELSE OldSlots
        BY <4>2, <4>3, <4>4 DEF OldSlots, Used, OldEra
      <4>. QED
        BY <4>1, <4>5
    <3>. QED
      BY <3>1, <3>2
  <2>3. OldSlots' \in SUBSET Slots
    BY DEF OldSlots
  <2>4. Cardinality(OldSlots') + Cardinality(OldLookups') <= Cardinality(OldSlots) + Cardinality(OldLookups)
    BY <1>0, <2>1, <2>2, <2>3, Insertion
  <2>5. Cardinality(OldSlots) + Cardinality(OldLookups) <= inFlight /\ inFlight \in Nat
    BY DEF Flushed, TypeInv, TypeOK
  <2>6. /\ Cardinality(OldSlots') \in Nat /\ Cardinality(OldLookups') \in Nat
        /\ Cardinality(OldSlots) \in Nat /\ Cardinality(OldLookups) \in Nat
    BY <1>0, <2>1, <2>3, SlotsFinite, LookupsFinite
  <2>7. Cardinality(OldSlots') + Cardinality(OldLookups') <= inFlight'
    BY <1>3, <2>4, <2>5, <2>6 DEF AddCachedStatus
  <2>. QED
    BY <2>7 DEF Flushed
<1>4. ASSUME NEW p \in Paths, ClearPath(p)
      PROVE  Flushed'
  <2>1. OldSlots' \subseteq OldSlots
    BY <1>0, <1>4 DEF ClearPath, OldSlots, Used, OldEra, Unused
  <2>2. OldLookups' = OldLookups /\ UNCHANGED inFlight
    BY <1>4 DEF ClearPath, OldLookups, Asking, OldEra
  <2>. QED
    BY <2>1, <2>2, FlushSmaller
<1>5. CASE Clear
  <2>1. OldSlots' = {}
    BY <1>5 DEF Clear, OldSlots, Used, Unused
  <2>2. OldLookups' \subseteq Asking /\ Asking \in SUBSET Lookups
    BY <1>5 DEF Clear, OldLookups, Asking
  <2>3. Cardinality(OldLookups') <= Cardinality(Asking) /\ Cardinality(OldLookups') \in Nat
    BY <2>2, LookupsFinite, Smaller
  <2>4. Cardinality(OldSlots') + Cardinality(OldLookups') <= inFlight'
    BY <1>5, <2>1, <2>3, FS_EmptySet DEF Clear
  <2>. QED
    BY <2>4 DEF Flushed
<1>6. ASSUME NEW p \in Paths, StatusChange(p)
      PROVE  Flushed'
  BY <1>6, FlushSmaller DEF StatusChange, OldSlots, OldLookups, Asking, Used, OldEra
<1>7. CASE Tick \/ SetClockBack
  <2>1. OldSlots' = OldSlots
    BY <1>7, AgesStep DEF TypeInv, Tick, SetClockBack, OldSlots, Used, OldEra
  <2>2. OldLookups' = OldLookups /\ UNCHANGED inFlight
    BY <1>7 DEF Tick, SetClockBack, OldLookups, Asking, OldEra
  <2>. QED
    BY <2>1, <2>2, FlushSmaller
<1>8. CASE UNCHANGED vars
  BY <1>8, FlushSmaller DEF vars, OldSlots, OldLookups, Asking, Used, OldEra
<1>. QED
  BY <1>1, <1>2, <1>3, <1>4, <1>5, <1>6, <1>7, <1>8 DEF Next

\* A full clear (StatusCache.cpp:136-151) is undone by the lookups that were under way
\* only, and by each of them once.
THEOREM ClearFlushesHolds == Spec => []ClearFlushes
<1>1. Init => Flushed
  <2>. SUFFICES ASSUME Init
                PROVE  Flushed
    OBVIOUS
  <2>1. OldSlots = {} /\ OldLookups = {}
    BY DEF Init, OldSlots, OldLookups, Asking, Used, Unused, NoLookup
  <2>2. Cardinality(OldSlots) + Cardinality(OldLookups) <= inFlight
    BY <2>1, FS_EmptySet DEF Init
  <2>. QED
    BY <2>2 DEF Flushed
<1>2. Flushed => ClearFlushes
  BY DEF Flushed, ClearFlushes, OldSlots, OldLookups
<1>. QED
  BY <1>1, <1>2, FlushStep, TypeInvHolds, PTL DEF Spec

----------------------------------------------------------------------------
(* Duplicates.                                                              *)

AskingOf(p) == {l \in Asking : lookup[l].path = p}
Bounded(p)  == Cardinality(Hits(p)) + Cardinality(AskingOf(p)) <= Cardinality(Lookups)

LEMMA BoundedSmaller ==
  ASSUME NEW p, Bounded(p), Hits(p)' \subseteq Hits(p), AskingOf(p)' \subseteq AskingOf(p)
  PROVE  Bounded(p)'
<1>1. Hits(p) \in SUBSET Slots /\ AskingOf(p) \in SUBSET Lookups
  BY DEF Hits, AskingOf, Asking
<1>2. /\ Cardinality(Hits(p)') \in Nat /\ Cardinality(Hits(p)) \in Nat
      /\ Cardinality(AskingOf(p)') \in Nat /\ Cardinality(AskingOf(p)) \in Nat
      /\ Cardinality(Hits(p)') <= Cardinality(Hits(p))
      /\ Cardinality(AskingOf(p)') <= Cardinality(AskingOf(p))
      /\ Cardinality(Lookups) \in Nat
  BY <1>1, SlotsFinite, LookupsFinite, Smaller
<1>. QED
  BY <1>2 DEF Bounded

LEMMA BoundedStep ==
  ASSUME TypeInv, NEW p \in Paths, Bounded(p), Next, setBack' = 0
  PROVE  Bounded(p)'
<1>0. /\ cachedStatus \in [Slots -> Entries] /\ lookup \in [Lookups -> Calls]
      /\ Hits(p) \in SUBSET Slots /\ AskingOf(p) \in SUBSET Lookups
  BY DEF TypeInv, TypeOK, Entries, Calls, Hits, AskingOf, Asking
<1>1. ASSUME NEW l \in Lookups, NEW q \in Paths, GetFileStatus(l, q)
      PROVE  Bounded(p)'
  <2> DEFINE new == [NoLookup EXCEPT !.pc = "asking", !.path = q, !.era = era]
  <2>1. UNCHANGED cachedStatus /\ Hits(p)' = Hits(p)
    BY <1>1 DEF GetFileStatus, Hits, Live
  <2>2. CASE UNCHANGED lookup \/ p # q
    <3>1. new.path = q
      BY DEF NoLookup
    <3>2. \A k \in Lookups : lookup'[k] = lookup[k] \/ (p # q /\ lookup'[k] = new)
      BY <1>0, <1>1, <2>2 DEF GetFileStatus
    <3> HIDE DEF new
    <3>3. AskingOf(p)' \subseteq AskingOf(p)
      BY <3>1, <3>2 DEF AskingOf, Asking
    <3>. QED
      BY <2>1, <3>3, BoundedSmaller
  <2>3. CASE Hits(p) = {}
    <3>1. Hits(p)' = {} /\ AskingOf(p)' \in SUBSET Lookups
      BY <2>1, <2>3 DEF AskingOf, Asking
    <3>2. Cardinality(Hits(p)') + Cardinality(AskingOf(p)') <= Cardinality(Lookups)
      BY <3>1, FS_EmptySet, LookupsFinite
    <3>. QED
      BY <3>2 DEF Bounded
  <2>. QED
    BY <1>1, <2>2, <2>3 DEF GetFileStatus
<1>2. ASSUME NEW l \in Lookups, FileInfo(l)
      PROVE  Bounded(p)'
  <2>1. Hits(p)' = Hits(p)
    BY <1>2 DEF FileInfo, Hits, Live
  <2>2. \A k \in Lookups : lookup'[k].path = lookup[k].path
    BY <1>0, <1>2 DEF FileInfo, Calls
  <2>3. \A k \in Lookups : lookup'[k].pc # "idle" => lookup[k].pc # "idle"
    BY <1>0, <1>2 DEF FileInfo
  <2>4. AskingOf(p)' \subseteq AskingOf(p)
    BY <2>2, <2>3 DEF AskingOf, Asking
  <2>. QED
    BY <2>1, <2>4, BoundedSmaller
<1>3. ASSUME NEW l \in Lookups, AddCachedStatus(l)
      PROVE  Bounded(p)'
  <2>1. AskingOf(p)' = AskingOf(p) \ {l}
    BY <1>0, <1>3 DEF AddCachedStatus, AskingOf, Asking, NoLookup
  <2>2. PICK i \in Slots : Hits(p)' \subseteq IF l \in AskingOf(p) THEN Hits(p) \cup {i} ELSE Hits(p)
    <3>1. CASE Replaced = 0
      <4>1. 1 \in Slots
        BY StatusAssumption DEF StatusAssumption, Slots
      <4>2. Hits(p)' = Hits(p)
        BY <1>3, <3>1 DEF AddCachedStatus, Hits, Live
      <4>. QED
        BY <4>1, <4>2
    <3>2. CASE Replaced # 0
      <4>1. Replaced \in Slots
        BY <3>2, ReplacedIs
      <4> DEFINE new == [path |-> lookup[l].path, fileStatus |-> lookup[l].fileStatus,
                         age |-> 0, era |-> lookup[l].era]
      <4>2. \A j \in Slots : cachedStatus'[j] = IF j = Replaced THEN new ELSE cachedStatus[j]
        BY <1>0, <1>3, <3>2 DEF AddCachedStatus
      <4>3. lookup[l].path = p <=> l \in AskingOf(p)
        BY <1>3 DEF AddCachedStatus, AskingOf, Asking
      <4>4. Hits(p)' \subseteq IF l \in AskingOf(p) THEN Hits(p) \cup {Replaced} ELSE Hits(p)
        BY <4>2, <4>3 DEF Hits, Live
      <4>. QED
        BY <4>1, <4>4
    <3>. QED
      BY <3>1, <3>2
  <2>3. Hits(p)' \in SUBSET Slots
    BY DEF Hits
  <2>4. Cardinality(Hits(p)') + Cardinality(AskingOf(p)') <= Cardinality(Hits(p)) + Cardinality(AskingOf(p))
    BY <1>0, <2>1, <2>2, <2>3, Insertion
  <2>5. /\ Cardinality(Hits(p)') \in Nat /\ Cardinality(AskingOf(p)') \in Nat
        /\ Cardinality(Hits(p)) \in Nat /\ Cardinality(AskingOf(p)) \in Nat
        /\ Cardinality(Lookups) \in Nat
    BY <1>0, <2>1, <2>3, SlotsFinite, LookupsFinite
  <2>. QED
    BY <2>4, <2>5 DEF Bounded
<1>4. ASSUME NEW q \in Paths, ClearPath(q)
      PROVE  Bounded(p)'
  <2>1. p # NoPath
    BY Constants
  <2>2. Hits(p)' \subseteq Hits(p)
    BY <1>0, <1>4, <2>1 DEF ClearPath, Hits, Live, Unused
  <2>3. AskingOf(p)' = AskingOf(p)
    BY <1>4 DEF ClearPath, AskingOf, Asking
  <2>. QED
    BY <2>2, <2>3, BoundedSmaller
<1>5. CASE Clear
  <2>1. p # NoPath
    BY Constants
  <2>2. Hits(p)' = {}
    BY <1>5, <2>1 DEF Clear, Hits, Live, Unused
  <2>3. AskingOf(p)' = AskingOf(p)
    BY <1>5 DEF Clear, AskingOf, Asking
  <2>. QED
    BY <2>2, <2>3, BoundedSmaller
<1>6. ASSUME NEW q \in Paths, StatusChange(q)
      PROVE  Bounded(p)'
  BY <1>6, BoundedSmaller DEF StatusChange, Hits, Live, AskingOf, Asking
<1>7. CASE Tick
  <2>1. \A i \in Slots : /\ cachedStatus'[i].path = cachedStatus[i].path
                         /\ cachedStatus'[i].age < Expiry => cachedStatus[i].age < Expiry
    <3>1. \A i \in Slots : cachedStatus'[i] = IF Used(i) /\ cachedStatus[i].age < Expiry
            THEN [cachedStatus[i] EXCEPT !.age = @ + 1] ELSE cachedStatus[i]
      BY <1>7 DEF Tick
    <3>. QED
      BY <1>0, <3>1 DEF Entries
  <2>2. Hits(p)' \subseteq Hits(p)
    BY <2>1 DEF Hits, Live
  <2>3. AskingOf(p)' = AskingOf(p)
    BY <1>7 DEF Tick, AskingOf, Asking
  <2>. QED
    BY <2>2, <2>3, BoundedSmaller
<1>8. ~SetClockBack
  <2>1. setBack \in Nat
    BY Constants DEF TypeInv, TypeOK
  <2>. QED
    BY <2>1 DEF SetClockBack
<1>. QED
  BY <1>1, <1>2, <1>3, <1>4, <1>5, <1>6, <1>7, <1>8 DEF Next

\* Threads that miss together add a file more than once (the search, the command and the
\* insertion of getFileStatus, StatusCache.cpp:116-135, are not one critical section), but
\* never more often than there are threads.
THEOREM DuplicatesBoundedHolds == Spec => []DuplicatesBounded
<1>1. Init => DuplicatesBounded
  <2>. SUFFICES ASSUME Init, NEW p \in Paths
                PROVE  Bounded(p)
    BY DEF DuplicatesBounded, Bounded, AskingOf
  <2>1. Hits(p) = {} /\ AskingOf(p) = {}
    BY Constants DEF Init, Hits, Live, AskingOf, Asking, Unused, NoLookup
  <2>. QED
    BY <2>1, FS_EmptySet, LookupsFinite DEF Bounded
<1>2. TypeInv /\ DuplicatesBounded /\ [Next]_vars => DuplicatesBounded'
  <2>. SUFFICES ASSUME TypeInv, DuplicatesBounded, [Next]_vars, setBack' = 0, NEW p \in Paths
                PROVE  Bounded(p)'
    BY DEF DuplicatesBounded, Bounded, AskingOf
  <2>1. setBack = 0
    <3>1. setBack \in Nat
      BY Constants DEF TypeInv, TypeOK
    <3>2. UNCHANGED setBack \/ setBack' >= setBack + 1
      <4>1. SetClockBack => setBack' >= setBack + 1
        BY <3>1, Constants DEF SetClockBack
      <4>2. ~SetClockBack => UNCHANGED setBack
        BY DEF Next, vars, GetFileStatus, FileInfo, AddCachedStatus, ClearPath, StatusChange,
           Clear, Tick
      <4>. QED
        BY <4>1, <4>2
    <3>. QED
      BY <3>1, <3>2
  <2>2. Bounded(p)
    BY <2>1 DEF DuplicatesBounded, Bounded, AskingOf
  <2>3. CASE Next
    BY <2>2, <2>3, BoundedStep
  <2>4. CASE UNCHANGED vars
    BY <2>2, <2>4, BoundedSmaller DEF vars, Hits, Live, AskingOf, Asking
  <2>. QED
    BY <2>3, <2>4
<1>. QED
  BY <1>1, <1>2, TypeInvHolds, PTL DEF Spec

----------------------------------------------------------------------------
(* The commands of the user, and the screen.                                *)

\* Only the client, the calls of getFileStatus and the clearings touch the cache, each
\* as the cache alone does.
LEMMA UserStepIsCacheStep == [UserNext]_userVars => [Next]_vars
<1>. SUFFICES ASSUME [UserNext]_userVars PROVE [Next]_vars
  OBVIOUS
<1>1. ASSUME NEW t \in Tasks,
             ActOnFiles(t) \/ RetargetSandbox(t) \/ ResyncSandbox(t)
               \/ SetExcludeFileFilter(t) \/ MergeConflicts(t)
      PROVE  UNCHANGED vars
  BY <1>1 DEF ActOnFiles, RetargetSandbox, ResyncSandbox, SetExcludeFileFilter, MergeConflicts,
              ExecuteUserCommand
<1>2. ASSUME NEW t \in Tasks, NEW p \in Paths, Perform(t, p)
      PROVE  Next
  BY <1>2 DEF Perform, Next
<1>3. ASSUME NEW t \in Tasks, Proceed(t)
      PROVE  UNCHANGED vars \/ Clear
  BY <1>3 DEF Proceed, Respond, ExecuteThrows, RefreshFolder, Notify
<1>4. ASSUME NEW l \in Lookups, NEW p \in Paths, Paint(l, p)
      PROVE  Next
  BY <1>4 DEF Paint, Next
<1>5. ASSUME NEW l \in Lookups, Ask(l) \/ PaintAnswer(l)
      PROVE  Next
  BY <1>5 DEF Ask, PaintAnswer, Next
<1>6. ASSUME NEW p \in Paths, ChangeOutside(p)
      PROVE  Next
  BY <1>6 DEF ChangeOutside, Next
<1>7. CASE Forget
  BY <1>7 DEF Forget, Next
<1>8. CASE UNCHANGED userVars
  BY <1>8 DEF userVars
<1>. QED
  BY <1>1, <1>2, <1>3, <1>4, <1>5, <1>6, <1>7, <1>8 DEF UserNext, Next

\* UserSpec => Spec: the commands of the user and the drawing of icons use the cache as
\* StatusCache says, so that the theorems about it hold of them.
THEOREM UserIsCache == UserSpec => Spec
<1>1. UserInit => Init
  BY DEF UserInit
<1>. QED
  BY <1>1, UserStepIsCacheStep, PTL DEF UserSpec, Spec

TaskType == [pc : {"none", "running", "cleared", "done"}, targets : SUBSET Paths,
             changed : SUBSET Paths, folder : Folders \cup {NoFolder}]

UserTyped ==
  /\ task \in [Tasks -> TaskType]
  /\ painted \in [Paths -> Status]
  /\ dirty \subseteq Paths /\ silent \subseteq Paths /\ torn \subseteq Paths

\* A command has changed p, and is to clear the cache and to announce p's folder.
BeingChanged(p) ==
  \E t \in Tasks : task[t].pc = "running" /\ task[t].folder = Folder[p] /\ p \in task[t].changed

\* What an answer asked for in an era says of a file: the truth, unless the cache has
\* been cleared since or is going to be, or the file was changed silently.
Known(p, status, asked) ==
  /\ asked <= era
  /\ asked = era => status \in {actual[p], NoStatus} \/ p \in silent \/ BeingChanged(p)

EntriesKnown ==
  \A i \in Slots :
    Used(i) => Known(cachedStatus[i].path, cachedStatus[i].fileStatus, cachedStatus[i].era)

LookupsKnown ==
  \A l \in Asking :
    /\ Known(lookup[l].path, lookup[l].fileStatus, lookup[l].era)
    /\ lookup[l].pc = "asking" => lookup[l].fileStatus = NoStatus

UserInv == TypeInv /\ UserTyped /\ EntriesKnown /\ LookupsKnown /\ AnnouncedIsPainted

LEMMA UserInitInv == UserInit => UserInv
<1>. SUFFICES ASSUME UserInit PROVE UserInv
  OBVIOUS
<1>1. TypeInv
  BY TypeInit DEF UserInit
<1>2. UserTyped
  <2>1. actual \in [Paths -> Status]
    BY <1>1 DEF TypeInv, TypeOK, Status
  <2>2. NoTask \in TaskType
    BY DEF NoTask, TaskType
  <2>. QED
    BY <2>1, <2>2 DEF UserInit, UserTyped
<1>3. EntriesKnown
  BY DEF UserInit, Init, EntriesKnown, Used, Unused
<1>4. LookupsKnown
  BY DEF UserInit, Init, LookupsKnown, Asking, NoLookup
<1>5. AnnouncedIsPainted
  BY DEF UserInit, AnnouncedIsPainted, OutOfDate
<1>. QED
  BY <1>1, <1>2, <1>3, <1>4, <1>5 DEF UserInv

\* A step that leaves the entries, the lookups and the screen alone, and lets nothing
\* change that is not announced or silent.
LEMMA WorldStep ==
  ASSUME UserInv, TypeInv',
         UNCHANGED <<cachedStatus, lookup, era, painted, dirty, torn>>, silent \subseteq silent',
         \A p \in Paths : actual'[p] = actual[p] \/ p \in silent' \/ BeingChanged(p)',
         \A p \in Paths : BeingChanged(p) => BeingChanged(p)' \/ p \in silent',
         \A p \in Paths : ToBeAnnounced(p) => ToBeAnnounced(p)' \/ p \in silent',
         UserTyped'
  PROVE  UserInv'
<1>1. EntriesKnown'
  <2>1. ASSUME NEW i \in Slots, Used(i)'
        PROVE  Known(cachedStatus[i].path, cachedStatus[i].fileStatus, cachedStatus[i].era)'
    <3>1. /\ Used(i) /\ cachedStatus[i].path \in Paths
          /\ era \in Int /\ cachedStatus[i].era \in Int /\ cachedStatus' = cachedStatus
      BY <2>1 DEF UserInv, TypeInv, TypeOK, Used, Era
    <3>2. Known(cachedStatus[i].path, cachedStatus[i].fileStatus, cachedStatus[i].era)
      BY <3>1 DEF UserInv, EntriesKnown
    <3>. QED
      BY <3>1, <3>2 DEF Known
  <2>. QED
    BY <2>1 DEF EntriesKnown
<1>2. LookupsKnown'
  <2>1. ASSUME NEW l \in Asking
        PROVE  Known(lookup[l].path, lookup[l].fileStatus, lookup[l].era)'
    <3>1. /\ lookup[l].path \in Paths /\ lookup' = lookup
          /\ era \in Int /\ lookup[l].era \in Int
      BY <2>1 DEF UserInv, TypeInv, TypeOK, Asking, Era
    <3>2. Known(lookup[l].path, lookup[l].fileStatus, lookup[l].era)
      BY <3>1 DEF UserInv, LookupsKnown
    <3>. QED
      BY <3>1, <3>2 DEF Known
  <2>. QED
    BY <2>1 DEF UserInv, LookupsKnown, Asking
<1>3. AnnouncedIsPainted'
  <2>1. ASSUME NEW p \in Paths, p \notin silent', p \notin torn', OutOfDate(p)'
        PROVE  (p \in dirty \/ BeingPainted(p) \/ ToBeAnnounced(p))'
    <3>1. BeingPainted(p)' <=> BeingPainted(p)
      BY DEF BeingPainted, Asking
    <3>2. CASE actual'[p] = actual[p]
      BY <2>1, <3>1, <3>2 DEF UserInv, AnnouncedIsPainted, OutOfDate
    <3>3. CASE BeingChanged(p)'
      BY <3>3 DEF BeingChanged, ToBeAnnounced
    <3>. QED
      BY <2>1, <3>2, <3>3
  <2>. QED
    BY <2>1 DEF AnnouncedIsPainted
<1>. QED
  BY <1>1, <1>2, <1>3 DEF UserInv

\* The start of a command: one more that may announce what it changes.
LEMMA StartKeeps ==
  ASSUME UserInv, TypeInv', NEW t \in Tasks, NEW targets \in SUBSET Paths,
         NEW folder \in Folders \cup {NoFolder}, ExecuteUserCommand(t, targets, folder)
  PROVE  UserInv'
<1>1. /\ UNCHANGED <<vars, silent, painted, dirty, torn>> /\ task[t].pc = "none"
      /\ task' = [task EXCEPT ![t] = [NoTask EXCEPT !.pc = "running", !.targets = targets,
                                                    !.folder = folder]]
  BY DEF ExecuteUserCommand, screen
<1>2. /\ \A u \in Tasks : u # t => task'[u] = task[u]
      /\ task' \in [Tasks -> TaskType]
  BY <1>1 DEF UserInv, UserTyped, TaskType, NoTask
<1>3. \A p \in Paths : /\ BeingChanged(p) => BeingChanged(p)'
                       /\ ToBeAnnounced(p) => ToBeAnnounced(p)'
  BY <1>1, <1>2 DEF BeingChanged, ToBeAnnounced
<1>4. UserTyped'
  BY <1>1, <1>2 DEF UserInv, UserTyped
<1>. QED
  BY <1>1, <1>3, <1>4, WorldStep DEF vars

\* Every command of the menu starts that way.
LEMMA CommandsStart ==
  ASSUME NEW t \in Tasks,
         ActOnFiles(t) \/ RetargetSandbox(t) \/ ResyncSandbox(t)
           \/ SetExcludeFileFilter(t) \/ MergeConflicts(t)
  PROVE  \E targets \in SUBSET Paths : \E folder \in Folders \cup {NoFolder} :
           ExecuteUserCommand(t, targets, folder)
<1>1. CASE ActOnFiles(t)
  BY <1>1, UserCommandAssumption DEF ActOnFiles
<1>2. CASE RetargetSandbox(t)
  BY <1>2 DEF RetargetSandbox, FilesBelow
<1>3. CASE ResyncSandbox(t)
  BY <1>3, UserCommandAssumption DEF ResyncSandbox, FilesBelow
<1>4. CASE SetExcludeFileFilter(t)
  BY <1>4, UserCommandAssumption DEF SetExcludeFileFilter
<1>5. CASE MergeConflicts(t)
  BY <1>5 DEF MergeConflicts
<1>. QED
  BY <1>1, <1>2, <1>3, <1>4, <1>5

LEMMA PerformKeeps ==
  ASSUME UserInv, TypeInv', NEW t \in Tasks, NEW p \in Paths, Perform(t, p)
  PROVE  UserInv'
<1>1. /\ UNCHANGED <<cachedStatus, lookup, era, painted, dirty, torn>>
      /\ task[t].pc = "running" /\ task' = [task EXCEPT ![t].changed = @ \cup {p}]
      /\ actual' = [actual EXCEPT ![p] = @ + 1]
      /\ silent' = IF Folder[p] = task[t].folder THEN silent ELSE silent \cup {p}
  BY DEF Perform, StatusChange, screen
<1>2. /\ task' \in [Tasks -> TaskType] /\ p \in task'[t].changed
      /\ \A u \in Tasks : /\ task'[u].pc = task[u].pc /\ task'[u].folder = task[u].folder
                          /\ task[u].changed \subseteq task'[u].changed
  BY <1>1 DEF UserInv, UserTyped, TaskType
<1>3. UserTyped'
  BY <1>1, <1>2 DEF UserInv, UserTyped
<1>4. \A q \in Paths : /\ BeingChanged(q) => BeingChanged(q)'
                       /\ ToBeAnnounced(q) => ToBeAnnounced(q)'
  BY <1>2 DEF BeingChanged, ToBeAnnounced
<1>5. ASSUME NEW q \in Paths
      PROVE  actual'[q] = actual[q] \/ q \in silent' \/ BeingChanged(q)'
  <2>1. CASE q # p
    BY <1>1, <2>1 DEF UserInv, TypeInv, TypeOK
  <2>2. CASE q = p /\ Folder[p] = task[t].folder
    BY <1>1, <1>2, <2>2 DEF BeingChanged
  <2>3. CASE q = p /\ Folder[p] # task[t].folder
    BY <1>1, <2>3
  <2>. QED
    BY <2>1, <2>2, <2>3
<1>6. silent \subseteq silent'
  BY <1>1
<1>. QED
  BY <1>1, <1>3, <1>4, <1>5, <1>6, WorldStep

LEMMA ChangeOutsideKeeps ==
  ASSUME UserInv, TypeInv', NEW p \in Paths, ChangeOutside(p)
  PROVE  UserInv'
<1>1. /\ UNCHANGED <<cachedStatus, lookup, era, task, painted, dirty, torn>>
      /\ actual' = [actual EXCEPT ![p] = @ + 1] /\ silent' = silent \cup {p}
  BY DEF ChangeOutside, StatusChange, screen
<1>2. UserTyped'
  BY <1>1 DEF UserInv, UserTyped
<1>3. \A q \in Paths : /\ BeingChanged(q)' <=> BeingChanged(q)
                       /\ ToBeAnnounced(q)' <=> ToBeAnnounced(q)
  BY <1>1 DEF BeingChanged, ToBeAnnounced
<1>4. \A q \in Paths : actual'[q] = actual[q] \/ q \in silent'
  BY <1>1 DEF UserInv, TypeInv, TypeOK
<1>. QED
  BY <1>1, <1>2, <1>3, <1>4, WorldStep

\* A command that announces nothing ends: no file counted on it.
LEMMA RespondKeeps ==
  ASSUME UserInv, TypeInv', NEW t \in Tasks, Respond(t)
  PROVE  UserInv'
<1>1. /\ UNCHANGED <<vars, silent, painted, dirty, torn>> /\ task[t].folder = NoFolder
      /\ task' = [task EXCEPT ![t] = Done]
  BY DEF Respond, screen
<1>2. /\ \A u \in Tasks : u # t => task'[u] = task[u]
      /\ task' \in [Tasks -> TaskType]
  BY <1>1 DEF UserInv, UserTyped, TaskType, Done, NoTask
<1>3. \A p \in Paths : Folder[p] # NoFolder
  BY UserCommandAssumption
<1>4. \A p \in Paths : /\ BeingChanged(p) => BeingChanged(p)'
                       /\ ToBeAnnounced(p) => ToBeAnnounced(p)'
  BY <1>1, <1>2, <1>3 DEF BeingChanged, ToBeAnnounced
<1>5. UserTyped'
  BY <1>1, <1>2 DEF UserInv, UserTyped
<1>. QED
  BY <1>1, <1>4, <1>5, WorldStep DEF vars

\* A command that throws ends: what it has changed becomes silent.
LEMMA ExecuteThrowsKeeps ==
  ASSUME UserInv, TypeInv', NEW t \in Tasks, ExecuteThrows(t)
  PROVE  UserInv'
<1>1. /\ UNCHANGED <<vars, painted, dirty, torn>> /\ task[t].pc = "running"
      /\ task' = [task EXCEPT ![t] = Done] /\ silent' = silent \cup task[t].changed
  BY DEF ExecuteThrows, screen
<1>2. /\ \A u \in Tasks : u # t => task'[u] = task[u]
      /\ task' \in [Tasks -> TaskType] /\ task[t].changed \subseteq Paths
  BY <1>1 DEF UserInv, UserTyped, TaskType, Done, NoTask
<1>3. \A p \in Paths : /\ BeingChanged(p) => BeingChanged(p)' \/ p \in silent'
                       /\ ToBeAnnounced(p) => ToBeAnnounced(p)' \/ p \in silent'
  BY <1>1, <1>2 DEF BeingChanged, ToBeAnnounced
<1>4. UserTyped'
  BY <1>1, <1>2 DEF UserInv, UserTyped
<1>. QED
  BY <1>1, <1>3, <1>4, WorldStep DEF vars

\* The clearing: every entry goes, and every lookup in flight is of an earlier era.
LEMMA RefreshFolderKeeps ==
  ASSUME UserInv, TypeInv', NEW t \in Tasks, RefreshFolder(t)
  PROVE  UserInv'
<1>1. /\ task[t].pc = "running"
      /\ task' = [task EXCEPT ![t] = [NoTask EXCEPT !.pc = "cleared", !.folder = task[t].folder]]
      /\ silent' = silent \ FilesIn(task[t].folder)
      /\ UNCHANGED <<painted, dirty, torn, actual, lookup>>
      /\ cachedStatus' = [i \in Slots |-> Unused] /\ era' = era + 1
  BY DEF RefreshFolder, Clear, screen
<1>2. /\ \A u \in Tasks : u # t => task'[u] = task[u]
      /\ task'[t].pc = "cleared" /\ task'[t].folder = task[t].folder
      /\ task' \in [Tasks -> TaskType]
  BY <1>1 DEF UserInv, UserTyped, TaskType, NoTask
<1>3. UserTyped'
  BY <1>1, <1>2 DEF UserInv, UserTyped
<1>4. EntriesKnown'
  BY <1>1 DEF EntriesKnown, Used, Unused
<1>5. LookupsKnown'
  <2>1. ASSUME NEW l \in Asking
        PROVE  Known(lookup[l].path, lookup[l].fileStatus, lookup[l].era)'
    <3>1. era \in Int /\ lookup[l].era \in Int /\ lookup[l].era <= era
      BY <2>1 DEF UserInv, TypeInv, TypeOK, Asking, Era, LookupsKnown, Known
    <3>. QED
      BY <1>1, <3>1 DEF Known
  <2>. QED
    BY <1>1, <2>1 DEF UserInv, LookupsKnown, Asking
<1>6. AnnouncedIsPainted'
  <2>1. ASSUME NEW p \in Paths, p \notin silent', p \notin torn', OutOfDate(p)'
        PROVE  (p \in dirty \/ BeingPainted(p) \/ ToBeAnnounced(p))'
    <3>1. CASE Folder[p] = task[t].folder
      BY <1>2, <3>1 DEF ToBeAnnounced
    <3>2. CASE Folder[p] # task[t].folder
      <4>1. p \notin silent /\ p \notin torn /\ OutOfDate(p)
        BY <1>1, <2>1, <3>2 DEF FilesIn, OutOfDate
      <4>2. p \in dirty \/ BeingPainted(p) \/ ToBeAnnounced(p)
        BY <4>1 DEF UserInv, AnnouncedIsPainted
      <4>3. BeingPainted(p) => BeingPainted(p)'
        BY <1>1 DEF BeingPainted, Asking
      <4>4. ToBeAnnounced(p) => ToBeAnnounced(p)'
        BY <1>2, <3>2 DEF ToBeAnnounced
      <4>. QED
        BY <1>1, <4>2, <4>3, <4>4
    <3>. QED
      BY <3>1, <3>2
  <2>. QED
    BY <2>1 DEF AnnouncedIsPainted
<1>. QED
  BY <1>3, <1>4, <1>5, <1>6 DEF UserInv

\* The announcement: the files of the folder are dirty now.
LEMMA NotifyKeeps ==
  ASSUME UserInv, TypeInv', NEW t \in Tasks, Notify(t)
  PROVE  UserInv'
<1>1. /\ task[t].pc = "cleared" /\ task' = [task EXCEPT ![t] = Done]
      /\ dirty' = dirty \cup FilesIn(task[t].folder)
      /\ UNCHANGED <<vars, silent, painted, torn>>
  BY DEF Notify
<1>2. /\ \A u \in Tasks : u # t => task'[u] = task[u]
      /\ task' \in [Tasks -> TaskType]
  BY <1>1 DEF UserInv, UserTyped, TaskType, Done, NoTask
<1>3. UserTyped'
  BY <1>1, <1>2 DEF UserInv, UserTyped, FilesIn
<1>4. \A p \in Paths : BeingChanged(p) => BeingChanged(p)'
  BY <1>1, <1>2 DEF BeingChanged
<1>5. EntriesKnown'
  <2>1. ASSUME NEW i \in Slots, Used(i)
        PROVE  Known(cachedStatus[i].path, cachedStatus[i].fileStatus, cachedStatus[i].era)'
    <3>1. cachedStatus[i].path \in Paths
      BY <2>1 DEF UserInv, TypeInv, TypeOK, Used
    <3>. QED
      BY <1>1, <1>4, <2>1, <3>1 DEF UserInv, EntriesKnown, Known, vars
  <2>. QED
    BY <1>1, <2>1 DEF EntriesKnown, Used, vars
<1>6. LookupsKnown'
  <2>1. ASSUME NEW l \in Asking
        PROVE  Known(lookup[l].path, lookup[l].fileStatus, lookup[l].era)'
    <3>1. lookup[l].path \in Paths
      BY <2>1 DEF UserInv, TypeInv
    <3>. QED
      BY <1>1, <1>4, <2>1, <3>1 DEF UserInv, LookupsKnown, Known, vars
  <2>. QED
    BY <1>1, <2>1 DEF UserInv, LookupsKnown, Asking, vars
<1>7. AnnouncedIsPainted'
  <2>1. ASSUME NEW p \in Paths, p \notin silent', p \notin torn', OutOfDate(p)'
        PROVE  (p \in dirty \/ BeingPainted(p) \/ ToBeAnnounced(p))'
    <3>1. p \in dirty \/ BeingPainted(p) \/ ToBeAnnounced(p)
      BY <1>1, <2>1 DEF UserInv, AnnouncedIsPainted, OutOfDate, vars
    <3>2. BeingPainted(p) => BeingPainted(p)'
      BY <1>1 DEF BeingPainted, Asking, vars
    <3>3. ToBeAnnounced(p) => ToBeAnnounced(p)' \/ p \in dirty'
      BY <1>1, <1>2 DEF ToBeAnnounced, FilesIn
    <3>. QED
      BY <1>1, <3>1, <3>2, <3>3
  <2>. QED
    BY <2>1 DEF AnnouncedIsPainted
<1>. QED
  BY <1>3, <1>5, <1>6, <1>7 DEF UserInv

\* What Explorer draws from what is known is not out of date, or torn, or announced.
LEMMA ShownIsKnown ==
  ASSUME NEW p \in Paths, NEW status \in Status, NEW asked \in Era, era \in Era,
         Known(p, status, asked), Show(p, status, asked), UserTyped,
         UNCHANGED <<actual, era, silent, task>>
  PROVE  /\ painted' \in [Paths -> Status] /\ torn' \subseteq Paths
         /\ p \notin silent' /\ p \notin torn' /\ OutOfDate(p)' => ToBeAnnounced(p)'
         /\ \A q \in Paths : q # p => painted'[q] = painted[q] /\ (q \in torn' <=> q \in torn)
<1>1. /\ painted' = [painted EXCEPT ![p] = status]
      /\ torn' = IF asked < era THEN torn \cup {p} ELSE torn \ {p}
  BY DEF Show
<1>2. painted'[p] = status /\ painted' \in [Paths -> Status] /\ torn' \subseteq Paths
  BY <1>1 DEF UserTyped
<1>3. \A q \in Paths : q # p => painted'[q] = painted[q] /\ (q \in torn' <=> q \in torn)
  BY <1>1 DEF UserTyped
<1>4. ASSUME p \notin silent', p \notin torn', OutOfDate(p)'
      PROVE  ToBeAnnounced(p)'
  <2>1. ~(asked < era)
    BY <1>1, <1>4
  <2>2. asked = era
    BY <2>1 DEF Known, Era
  <2>3. BeingChanged(p)
    BY <1>2, <1>4, <2>2 DEF Known, OutOfDate
  <2>. QED
    BY <2>3 DEF BeingChanged, ToBeAnnounced
<1>. QED
  BY <1>2, <1>3, <1>4

\* Explorer finds the file in the cache.
LEMMA PaintHitKeeps ==
  ASSUME UserInv, TypeInv', NEW l \in Lookups, NEW p \in Paths, Paint(l, p), Hits(p) # {}
  PROVE  UserInv'
<1> DEFINE i == Min(Hits(p))
<1>1. /\ UNCHANGED <<actual, cachedStatus, lookup, era, silent, task>> /\ dirty' = dirty \ {p}
      /\ Show(p, Found(p), cachedStatus[i].era)
  BY DEF Paint, GetFileStatus
<1>2. i \in Slots /\ cachedStatus[i].path = p
  BY SlotEnds DEF Hits, Live
<1>3. Used(i)
  BY <1>2, StatusAssumption DEF Used
<1>4. Found(p) = cachedStatus[i].fileStatus
  BY DEF Found
<1>5. Found(p) \in Status /\ cachedStatus[i].era \in Era /\ era \in Era
  BY <1>2, <1>4 DEF UserInv, TypeInv, TypeOK
<1>6. Known(p, Found(p), cachedStatus[i].era)
  BY <1>2, <1>3, <1>4 DEF UserInv, EntriesKnown
<1>7. /\ painted' \in [Paths -> Status] /\ torn' \subseteq Paths
      /\ p \notin silent' /\ p \notin torn' /\ OutOfDate(p)' => ToBeAnnounced(p)'
      /\ \A q \in Paths : q # p => painted'[q] = painted[q] /\ (q \in torn' <=> q \in torn)
  BY <1>1, <1>5, <1>6, ShownIsKnown DEF UserInv
<1>8. UserTyped'
  BY <1>1, <1>7 DEF UserInv, UserTyped
<1>9. EntriesKnown' /\ LookupsKnown'
  BY <1>1 DEF UserInv, EntriesKnown, LookupsKnown, Known, BeingChanged, Used, Asking
<1>10. AnnouncedIsPainted'
  <2>1. ASSUME NEW q \in Paths, q \notin silent', q \notin torn', OutOfDate(q)', q # p
        PROVE  (q \in dirty \/ BeingPainted(q) \/ ToBeAnnounced(q))'
    <3>1. q \in dirty \/ BeingPainted(q) \/ ToBeAnnounced(q)
      BY <1>1, <1>7, <2>1 DEF UserInv, AnnouncedIsPainted, OutOfDate
    <3>2. (BeingPainted(q) => BeingPainted(q)') /\ (ToBeAnnounced(q) => ToBeAnnounced(q)')
      BY <1>1 DEF BeingPainted, ToBeAnnounced, Asking
    <3>. QED
      BY <1>1, <2>1, <3>1, <3>2
  <2>. QED
    BY <1>7, <2>1 DEF AnnouncedIsPainted
<1>. QED
  BY <1>8, <1>9, <1>10 DEF UserInv

\* Explorer does not find it, and the call goes on to the client.
LEMMA PaintMissKeeps ==
  ASSUME UserInv, TypeInv', NEW l \in Lookups, NEW p \in Paths, Paint(l, p), Hits(p) = {}
  PROVE  UserInv'
<1>1. /\ UNCHANGED <<actual, cachedStatus, era, silent, task, painted, torn>>
      /\ dirty' = dirty \ {p} /\ lookup[l].pc = "idle"
      /\ lookup' = [lookup EXCEPT ![l] = [NoLookup EXCEPT !.pc = "asking", !.path = p, !.era = era]]
  BY DEF Paint, GetFileStatus
<1>2. /\ lookup'[l].pc = "asking" /\ lookup'[l].path = p /\ lookup'[l].era = era
      /\ lookup'[l].fileStatus = NoStatus
      /\ \A k \in Lookups : k # l => lookup'[k] = lookup[k]
  BY <1>1 DEF UserInv, TypeInv, TypeOK, NoLookup
<1>3. UserTyped'
  BY <1>1 DEF UserInv, UserTyped
<1>4. EntriesKnown'
  BY <1>1 DEF UserInv, EntriesKnown, Known, BeingChanged, Used
<1>5. LookupsKnown'
  <2>1. ASSUME NEW k \in Lookups, k # l, lookup'[k].pc # "idle"
        PROVE  /\ Known(lookup[k].path, lookup[k].fileStatus, lookup[k].era)'
               /\ lookup'[k].pc = "asking" => lookup'[k].fileStatus = NoStatus
    <3>1. k \in Asking /\ lookup'[k] = lookup[k]
      BY <1>2, <2>1 DEF Asking
    <3>2. /\ Known(lookup[k].path, lookup[k].fileStatus, lookup[k].era)
          /\ lookup[k].pc = "asking" => lookup[k].fileStatus = NoStatus
      BY <3>1 DEF UserInv, LookupsKnown
    <3>3. UNCHANGED <<actual, era, silent, task>>
      BY <1>1
    <3>. QED
      BY <3>1, <3>2, <3>3 DEF Known, BeingChanged
  <2>2. Known(lookup[l].path, lookup[l].fileStatus, lookup[l].era)'
    <3>1. era \in Int
      BY DEF UserInv, TypeInv, TypeOK, Era
    <3>2. lookup'[l].era <= era' /\ lookup'[l].fileStatus = NoStatus
      BY <1>1, <1>2, <3>1
    <3>. QED
      BY <3>2 DEF Known
  <2>. QED
    BY <1>2, <2>1, <2>2 DEF LookupsKnown, Asking
<1>6. AnnouncedIsPainted'
  <2>1. BeingPainted(p)'
    BY <1>2 DEF BeingPainted, Asking
  <2>2. ASSUME NEW q \in Paths, q \notin silent', q \notin torn', OutOfDate(q)', q # p
        PROVE  (q \in dirty \/ BeingPainted(q) \/ ToBeAnnounced(q))'
    <3>1. q \in dirty \/ BeingPainted(q) \/ ToBeAnnounced(q)
      BY <1>1, <2>2 DEF UserInv, AnnouncedIsPainted, OutOfDate
    <3>2. BeingPainted(q) => BeingPainted(q)'
      BY <1>1, <1>2 DEF BeingPainted, Asking
    <3>3. ToBeAnnounced(q) => ToBeAnnounced(q)'
      BY <1>1 DEF ToBeAnnounced
    <3>. QED
      BY <1>1, <2>2, <3>1, <3>2, <3>3
  <2>. QED
    BY <2>1, <2>2 DEF AnnouncedIsPainted
<1>. QED
  BY <1>3, <1>4, <1>5, <1>6 DEF UserInv

\* The client answers with the truth, or fails.
LEMMA AskKeeps ==
  ASSUME UserInv, TypeInv', NEW l \in Lookups, Ask(l)
  PROVE  UserInv'
<1>1. /\ UNCHANGED <<actual, cachedStatus, era, silent, task, painted, dirty, torn>>
      /\ lookup[l].pc = "asking"
      /\ \/ lookup' = [lookup EXCEPT ![l].pc = "answered",
                                     ![l].fileStatus = actual[lookup[l].path]]
         \/ lookup' = [lookup EXCEPT ![l].pc = "answered"]
  BY DEF Ask, FileInfo, screen
<1>2. /\ lookup'[l].pc = "answered" /\ lookup'[l].path = lookup[l].path
      /\ lookup'[l].era = lookup[l].era
      /\ lookup'[l].fileStatus \in {actual[lookup[l].path], lookup[l].fileStatus}
      /\ \A k \in Lookups : k # l => lookup'[k] = lookup[k]
  BY <1>1 DEF UserInv, TypeInv, TypeOK
<1>3. UserTyped'
  BY <1>1 DEF UserInv, UserTyped
<1>4. EntriesKnown'
  BY <1>1 DEF UserInv, EntriesKnown, Known, BeingChanged, Used
<1>5. l \in Asking /\ lookup[l].fileStatus = NoStatus
  BY <1>1 DEF Asking, UserInv, LookupsKnown
<1>6. LookupsKnown'
  <2>1. ASSUME NEW k \in Lookups, k # l, lookup'[k].pc # "idle"
        PROVE  /\ Known(lookup[k].path, lookup[k].fileStatus, lookup[k].era)'
               /\ lookup'[k].pc = "asking" => lookup'[k].fileStatus = NoStatus
    <3>1. k \in Asking /\ lookup'[k] = lookup[k]
      BY <1>2, <2>1 DEF Asking
    <3>2. /\ Known(lookup[k].path, lookup[k].fileStatus, lookup[k].era)
          /\ lookup[k].pc = "asking" => lookup[k].fileStatus = NoStatus
      BY <3>1 DEF UserInv, LookupsKnown
    <3>3. UNCHANGED <<actual, era, silent, task>>
      BY <1>1
    <3>. QED
      BY <3>1, <3>2, <3>3 DEF Known, BeingChanged
  <2>2. Known(lookup[l].path, lookup[l].fileStatus, lookup[l].era)'
    BY <1>1, <1>2, <1>5 DEF UserInv, LookupsKnown, Known
  <2>. QED
    BY <1>2, <2>1, <2>2 DEF LookupsKnown, Asking
<1>7. AnnouncedIsPainted'
  <2>1. ASSUME NEW q \in Paths
        PROVE  /\ BeingPainted(q) => BeingPainted(q)'
               /\ ToBeAnnounced(q) => ToBeAnnounced(q)'
               /\ OutOfDate(q)' <=> OutOfDate(q)
    BY <1>1, <1>2 DEF BeingPainted, ToBeAnnounced, Asking, OutOfDate
  <2>2. ASSUME NEW q \in Paths, q \notin silent', q \notin torn', OutOfDate(q)'
        PROVE  (q \in dirty \/ BeingPainted(q) \/ ToBeAnnounced(q))'
    <3>1. q \in dirty \/ BeingPainted(q) \/ ToBeAnnounced(q)
      BY <1>1, <2>1, <2>2 DEF UserInv, AnnouncedIsPainted
    <3>2. (BeingPainted(q) => BeingPainted(q)') /\ (ToBeAnnounced(q) => ToBeAnnounced(q)')
      BY <2>1
    <3>3. q \in dirty => q \in dirty'
      BY <1>1
    <3>. QED
      BY <3>1, <3>2, <3>3
  <2>. QED
    BY <2>2 DEF AnnouncedIsPainted
<1>. QED
  BY <1>3, <1>4, <1>6, <1>7 DEF UserInv

\* The answer goes into the cache and onto the screen.
LEMMA PaintAnswerKeeps ==
  ASSUME UserInv, TypeInv', NEW l \in Lookups, PaintAnswer(l)
  PROVE  UserInv'
<1>. PICK p, status, asked :
       p = lookup[l].path /\ status = lookup[l].fileStatus /\ asked = lookup[l].era
  OBVIOUS
<1>1. /\ UNCHANGED <<actual, era, silent, task, dirty>> /\ lookup[l].pc = "answered"
      /\ lookup' = [lookup EXCEPT ![l] = NoLookup] /\ Show(p, status, asked)
      /\ \/ UNCHANGED cachedStatus
         \/ cachedStatus' = [cachedStatus EXCEPT ![Replaced] =
               [path |-> p, fileStatus |-> status, age |-> 0, era |-> asked]]
  BY DEF PaintAnswer, AddCachedStatus
<1>2. l \in Asking /\ p \in Paths /\ Known(p, status, asked)
  BY <1>1 DEF Asking, UserInv, TypeInv, LookupsKnown
<1>3. status \in Status /\ asked \in Era /\ era \in Era
  BY DEF UserInv, TypeInv, TypeOK
<1>4. /\ painted' \in [Paths -> Status] /\ torn' \subseteq Paths
      /\ p \notin silent' /\ p \notin torn' /\ OutOfDate(p)' => ToBeAnnounced(p)'
      /\ \A q \in Paths : q # p => painted'[q] = painted[q] /\ (q \in torn' <=> q \in torn)
  BY <1>1, <1>2, <1>3, ShownIsKnown DEF UserInv
<1>5. UserTyped'
  BY <1>1, <1>4 DEF UserInv, UserTyped
<1>6. lookup'[l].pc = "idle" /\ \A k \in Lookups : k # l => lookup'[k] = lookup[k]
  BY <1>1 DEF UserInv, TypeInv, TypeOK, NoLookup
<1>7. EntriesKnown'
  <2>1. ASSUME NEW i \in Slots, Used(i)'
        PROVE  Known(cachedStatus[i].path, cachedStatus[i].fileStatus, cachedStatus[i].era)'
    <3>1. CASE cachedStatus'[i] = cachedStatus[i]
      <4>1. Used(i)
        BY <2>1, <3>1 DEF Used
      <4>. QED
        BY <1>1, <3>1, <4>1 DEF UserInv, EntriesKnown, Known, BeingChanged
    <3>2. CASE cachedStatus'[i] = [path |-> p, fileStatus |-> status, age |-> 0, era |-> asked]
      <4>1. /\ cachedStatus'[i].path = p /\ cachedStatus'[i].fileStatus = status
            /\ cachedStatus'[i].era = asked
        BY <3>2
      <4>. QED
        BY <1>1, <1>2, <4>1 DEF Known, BeingChanged
    <3>. QED
      BY <1>1, <3>1, <3>2 DEF UserInv, TypeInv, TypeOK
  <2>. QED
    BY <2>1 DEF EntriesKnown
<1>8. LookupsKnown'
  <2>1. ASSUME NEW k \in Lookups, lookup'[k].pc # "idle"
        PROVE  /\ Known(lookup[k].path, lookup[k].fileStatus, lookup[k].era)'
               /\ lookup'[k].pc = "asking" => lookup'[k].fileStatus = NoStatus
    <3>1. k \in Asking /\ lookup'[k] = lookup[k]
      BY <1>6, <2>1 DEF Asking
    <3>2. /\ Known(lookup[k].path, lookup[k].fileStatus, lookup[k].era)
          /\ lookup[k].pc = "asking" => lookup[k].fileStatus = NoStatus
      BY <3>1 DEF UserInv, LookupsKnown
    <3>3. UNCHANGED <<actual, era, silent, task>>
      BY <1>1
    <3>. QED
      BY <3>1, <3>2, <3>3 DEF Known, BeingChanged
  <2>. QED
    BY <2>1 DEF LookupsKnown, Asking
<1>9. AnnouncedIsPainted'
  <2>1. ASSUME NEW q \in Paths, q \notin silent', q \notin torn', OutOfDate(q)', q # p
        PROVE  (q \in dirty \/ BeingPainted(q) \/ ToBeAnnounced(q))'
    <3>1. q \in dirty \/ BeingPainted(q) \/ ToBeAnnounced(q)
      BY <1>1, <1>4, <2>1 DEF UserInv, AnnouncedIsPainted, OutOfDate
    <3>2. BeingPainted(q) => BeingPainted(q)'
      BY <1>6, <2>1 DEF BeingPainted, Asking
    <3>3. ToBeAnnounced(q) => ToBeAnnounced(q)'
      BY <1>1 DEF ToBeAnnounced
    <3>. QED
      BY <1>1, <3>1, <3>2, <3>3
  <2>. QED
    BY <1>2, <1>4, <2>1 DEF AnnouncedIsPainted
<1>. QED
  BY <1>5, <1>7, <1>8, <1>9 DEF UserInv

\* Entries go away or age; none says anything new.
LEMMA ForgetKeeps ==
  ASSUME UserInv, TypeInv', Forget
  PROVE  UserInv'
<1>1. UNCHANGED <<actual, lookup, era, silent, task, painted, dirty, torn>>
  BY DEF Forget, ClearPath, Tick, screen
<1>2. ASSUME NEW i \in Slots
      PROVE  \/ ~Used(i)'
             \/ /\ cachedStatus'[i].path = cachedStatus[i].path
                /\ cachedStatus'[i].fileStatus = cachedStatus[i].fileStatus
                /\ cachedStatus'[i].era = cachedStatus[i].era
  <2>1. ASSUME NEW p \in Paths, ClearPath(p)
        PROVE  cachedStatus'[i] = cachedStatus[i] \/ cachedStatus'[i] = Unused
    BY <2>1 DEF ClearPath, UserInv, TypeInv, TypeOK
  <2>2. ASSUME Tick
        PROVE  /\ cachedStatus'[i].path = cachedStatus[i].path
               /\ cachedStatus'[i].fileStatus = cachedStatus[i].fileStatus
               /\ cachedStatus'[i].era = cachedStatus[i].era
    BY <2>2 DEF Tick, UserInv, TypeInv, TypeOK
  <2>. QED
    BY <2>1, <2>2 DEF Forget, Used, Unused
<1>3. UserTyped'
  BY <1>1 DEF UserInv, UserTyped
<1>4. EntriesKnown'
  <2>1. ASSUME NEW i \in Slots, Used(i)'
        PROVE  Known(cachedStatus[i].path, cachedStatus[i].fileStatus, cachedStatus[i].era)'
    <3>1. /\ Used(i) /\ cachedStatus'[i].path = cachedStatus[i].path
          /\ cachedStatus'[i].fileStatus = cachedStatus[i].fileStatus
          /\ cachedStatus'[i].era = cachedStatus[i].era
      BY <1>2, <2>1 DEF Used
    <3>. QED
      BY <1>1, <3>1 DEF UserInv, EntriesKnown, Known, BeingChanged
  <2>. QED
    BY <2>1 DEF EntriesKnown
<1>5. LookupsKnown'
  BY <1>1 DEF UserInv, LookupsKnown, Known, BeingChanged, Asking
<1>6. AnnouncedIsPainted'
  BY <1>1 DEF UserInv, AnnouncedIsPainted, OutOfDate, BeingPainted, ToBeAnnounced, Asking
<1>. QED
  BY <1>3, <1>4, <1>5, <1>6 DEF UserInv

LEMMA UserStep == UserInv /\ [UserNext]_userVars => UserInv'
<1>. SUFFICES ASSUME UserInv, [UserNext]_userVars PROVE UserInv'
  OBVIOUS
<1>1. TypeInv'
  BY UserStepIsCacheStep, TypeStep DEF UserInv
<1>2. ASSUME NEW t \in Tasks,
             ActOnFiles(t) \/ RetargetSandbox(t) \/ ResyncSandbox(t)
               \/ SetExcludeFileFilter(t) \/ MergeConflicts(t)
      PROVE  UserInv'
  BY <1>1, <1>2, CommandsStart, StartKeeps
<1>3. ASSUME NEW t \in Tasks, NEW p \in Paths, Perform(t, p)
      PROVE  UserInv'
  BY <1>1, <1>3, PerformKeeps
<1>4. ASSUME NEW t \in Tasks, Proceed(t)
      PROVE  UserInv'
  BY <1>1, <1>4, RespondKeeps, ExecuteThrowsKeeps, RefreshFolderKeeps, NotifyKeeps DEF Proceed
<1>5. ASSUME NEW l \in Lookups, NEW p \in Paths, Paint(l, p)
      PROVE  UserInv'
  BY <1>1, <1>5, PaintHitKeeps, PaintMissKeeps
<1>6. ASSUME NEW l \in Lookups, Ask(l) \/ PaintAnswer(l)
      PROVE  UserInv'
  BY <1>1, <1>6, AskKeeps, PaintAnswerKeeps
<1>7. ASSUME NEW p \in Paths, ChangeOutside(p)
      PROVE  UserInv'
  BY <1>1, <1>7, ChangeOutsideKeeps
<1>8. CASE Forget
  BY <1>1, <1>8, ForgetKeeps
<1>9. CASE UNCHANGED userVars
  <2>1. /\ UNCHANGED <<actual, cachedStatus, lookup, era>>
        /\ UNCHANGED <<silent, task, painted, dirty, torn>>
    BY <1>9 DEF userVars, vars, screen
  <2>2. UserTyped'
    BY <2>1 DEF UserInv, UserTyped
  <2>3. EntriesKnown' /\ LookupsKnown'
    BY <2>1 DEF UserInv, EntriesKnown, LookupsKnown, Known, BeingChanged, Used, Asking
  <2>4. AnnouncedIsPainted'
    BY <2>1 DEF UserInv, AnnouncedIsPainted, OutOfDate, BeingPainted, ToBeAnnounced, Asking
  <2>. QED
    BY <1>1, <2>2, <2>3, <2>4 DEF UserInv
<1>. QED
  BY <1>2, <1>3, <1>4, <1>5, <1>6, <1>7, <1>8, <1>9 DEF UserNext

LEMMA UserInvHolds == UserSpec => []UserInv
BY UserInitInv, UserStep, PTL DEF UserSpec

\* UserSpec => []AnnouncedIsPainted: for any commands, files, folders and threads, an
\* icon that is out of date is one Explorer is drawing or was or will be told to draw,
\* unless its file was changed silently or a full clear overtook the answer drawn.
THEOREM AnnouncedIsPaintedHolds == UserSpec => []AnnouncedIsPainted
<1>1. UserInv => AnnouncedIsPainted
  BY DEF UserInv
<1>. QED
  BY <1>1, UserInvHolds, PTL

=============================================================================
