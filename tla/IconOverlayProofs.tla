------------------------- MODULE IconOverlayProofs -------------------------
(***************************************************************************)
(* The choice of the overlay handler, and what a round of questions        *)
(* paints, for every set of flags, every set of overlay slots in which     *)
(* `Versioned' and `Modified' have one, and any other users of the cache.  *)
(*                                                                         *)
(* Every step of a round is one of the status cache (OverlayIsCache).  A   *)
(* round that was not torn agrees because its first handler leaves the     *)
(* status it was given where the others look: they are served the same     *)
(* (Serves), and those that were asked did not match (Asked).  It is fresh *)
(* because what is inserted while it goes on was an answer, which during   *)
(* has (Answers), and an insertion is the only thing that makes an entry   *)
(* live while the clock is not set back (NewEntries).                      *)
(***************************************************************************)
EXTENDS IconOverlay, StatusCacheProofs

----------------------------------------------------------------------------
(* Handlers and rules.                                                      *)

\* A set of indexes of rules that is not empty has a least one.
LEMMA LeastRule ==
  ASSUME NEW S \in SUBSET (1..7), S # {}
  PROVE  Min(S) \in S /\ \A y \in S : Min(S) <= y
<1>1. \E x \in S : \A y \in S : x <= y
  <2>1. CASE 1 \in S  BY <2>1
  <2>2. CASE 1 \notin S /\ 2 \in S  BY <2>2
  <2>3. CASE 1 \notin S /\ 2 \notin S /\ 3 \in S  BY <2>3
  <2>4. CASE 1 \notin S /\ 2 \notin S /\ 3 \notin S /\ 4 \in S  BY <2>4
  <2>5. CASE 1 \notin S /\ 2 \notin S /\ 3 \notin S /\ 4 \notin S /\ 5 \in S  BY <2>5
  <2>6. CASE S \cap (1..5) = {} /\ 6 \in S  BY <2>6
  <2>7. CASE S \cap (1..6) = {}
    <3>1. \A y \in S : y \in 1..7 /\ y \notin 1..6  BY <2>7
    <3>2. \A y \in S : y = 7  BY <3>1
    <3>3. PICK x \in S : TRUE  OBVIOUS
    <3>4. x = 7 /\ \A y \in S : x <= y  BY <3>2, <3>3
    <3>5. QED  BY <3>4
  <2>8. QED  BY <2>1, <2>2, <2>3, <2>4, <2>5, <2>6, <2>7
<1>2. QED  BY <1>1 DEF Min

\* The slots Explorer gives never change, and the comment's assumption about them.
SlotsInv == loaded \subseteq HandlerSet /\ {"Versioned", "Modified"} \subseteq loaded

\* A rule without a substitute belongs to a handler that always has a slot.
LEMMA RuleHasHandler ==
  ASSUME SlotsInv, NEW i \in 1..7
  PROVE  /\ Rules[i].handler \in HandlerSet
         /\ Rules[i].substitute \/ Rules[i].handler \in loaded
<1>1. HandlerSet = {"Conflict", "Modified", "Deleted", "ReadOnly", "Locked", "Added", "Versioned"}
  <2>1. Len(Handlers) = 7  BY DEF Handlers
  <2>2. QED  BY <2>1, SMTT(30) DEF HandlerSet, Handlers
<1>2. CASE i \in {1, 2, 3}  BY <1>1, <1>2 DEF Rules, Rule, SlotsInv
<1>3. CASE i \in {4, 5}  BY <1>1, <1>3 DEF Rules, Rule, SlotsInv
<1>4. CASE i \in {6, 7}  BY <1>1, <1>4 DEF Rules, Rule, SlotsInv
<1>5. QED  BY <1>2, <1>3, <1>4

\* The handlers by their places.
LEMMA Places ==
  /\ Len(Handlers) = 7
  /\ \A i \in 1..7 : Handlers[i] \in HandlerSet
  /\ \A h \in HandlerSet : \E i \in 1..7 : h = Handlers[i]
  /\ Handlers[7] = "Versioned"
<1>1. Len(Handlers) = 7 /\ Handlers[7] = "Versioned"
  BY DEF Handlers
<1>2. HandlerSet = {Handlers[i] : i \in 1..7}
  BY <1>1 DEF HandlerSet
<1>. QED
  BY <1>1, <1>2

\* The overlay of a status is the handler that matches it, if there is one.
LEMMA OverlayIs ==
  ASSUME SlotsInv, NEW flags
  PROVE  /\ \A h \in loaded : DoesStatusMatch(h, flags) => Overlay(flags) = h
         /\ (\A h \in loaded : ~DoesStatusMatch(h, flags)) => Overlay(flags) = "none"
         /\ Overlay(flags) \in HandlerSet \cup {"none"}
<1>1. \A g, h : DoesStatusMatch(g, flags) /\ DoesStatusMatch(h, flags) => g = h
  BY DEF DoesStatusMatch
<1>2. Matching(flags) \subseteq HandlerSet
  BY DEF Matching, SlotsInv
<1>3. ASSUME NEW h \in loaded, DoesStatusMatch(h, flags)
      PROVE  Overlay(flags) = h
  <2>1. Matching(flags) = {h}
    BY <1>1, <1>3 DEF Matching
  <2>. QED
    BY <2>1 DEF Overlay
<1>. QED
  BY <1>2, <1>3 DEF Overlay, Matching

\* `File' and `Ignored' decide nothing.
LEMMA SameDeciding ==
  ASSUME NEW f, NEW g, \A x : x \notin {"File", "Ignored"} => (x \in f <=> x \in g)
  PROVE  Overlay(f) = Overlay(g) /\ \A h : DoesStatusMatch(h, f) <=> DoesStatusMatch(h, g)
<1>1. Len(Rules) = 7
  BY DEF Rules
<1>2. ASSUME NEW i \in 1..7
      PROVE  "File" \notin Rules[i].flags /\ "Ignored" \notin Rules[i].flags
  <2>1. CASE i \in {1, 2, 3}  BY <2>1 DEF Rules, Rule
  <2>2. CASE i \in {4, 5}  BY <2>2 DEF Rules, Rule
  <2>3. CASE i \in {6, 7}  BY <2>3 DEF Rules, Rule
  <2>. QED
    BY <2>1, <2>2, <2>3
<1>3. Deciding(f) = Deciding(g)
  BY <1>1, <1>2 DEF Deciding
<1>4. \A h : DoesStatusMatch(h, f) <=> DoesStatusMatch(h, g)
  BY <1>3 DEF DoesStatusMatch
<1>5. Matching(f) = Matching(g)
  BY <1>4 DEF Matching
<1>. QED
  BY <1>4, <1>5 DEF Overlay

LEMMA NoFlags ==
  ASSUME SlotsInv
  PROVE  Overlay({}) = "none"
<1>1. Deciding({}) = {}
  BY DEF Deciding
<1>2. Matching({}) = {}
  BY <1>1 DEF Matching, DoesStatusMatch
<1>. QED
  BY <1>2 DEF Overlay

\* The next handler is the first one after that has a slot.
LEMMA NextIs ==
  ASSUME NEW i \in 0..7
  PROVE  LET next == NextHandler(i) IN
         \/ next = 0 /\ \A j \in (i + 1)..7 : Handlers[j] \notin loaded
         \/ /\ next \in (i + 1)..7 /\ Handlers[next] \in loaded
            /\ \A j \in (i + 1)..(next - 1) : Handlers[j] \notin loaded
<1> DEFINE later == {j \in (i + 1)..7 : Handlers[j] \in loaded}
<1>1. NextHandler(i) = IF later = {} THEN 0 ELSE Min(later)
  BY Places DEF NextHandler
<1>2. CASE later = {}
  BY <1>1, <1>2
<1>3. CASE later # {}
  <2>1. later \in SUBSET (1..7)
    OBVIOUS
  <2>2. Min(later) \in later /\ \A y \in later : Min(later) <= y
    BY <1>3, <2>1, LeastRule
  <2>3. ASSUME NEW j \in (i + 1)..(Min(later) - 1), Handlers[j] \in loaded
        PROVE  FALSE
    <3>1. Min(later) \in (i + 1)..7
      BY <2>2
    <3>2. j \in (i + 1)..7 /\ j < Min(later)
      BY <3>1
    <3>3. j \in later
      BY <2>3, <3>2
    <3>. QED
      BY <2>2, <3>1, <3>2, <3>3
  <2>4. Min(later) \in (i + 1)..7 /\ Handlers[Min(later)] \in loaded /\ NextHandler(i) = Min(later)
    BY <1>1, <1>3, <2>2
  <2>. QED
    BY <2>3, <2>4
<1>. QED
  BY <1>2, <1>3

\* There is a first handler.
LEMMA FirstHandler ==
  ASSUME SlotsInv
  PROVE  /\ NextHandler(0) \in 1..7 /\ Handlers[NextHandler(0)] \in loaded
         /\ \A j \in 1..(NextHandler(0) - 1) : Handlers[j] \notin loaded
BY NextIs, Places DEF SlotsInv

----------------------------------------------------------------------------
(* Types.                                                                   *)

RoundType ==
  [pc : {"idle", "ask", "online", "search", "wait", "decided"}, path : Paths \cup {NoPath},
   handler : 0..7, overlay : HandlerSet \cup {"none"}, first : Status \cup {Unasked},
   during : SUBSET Status, torn : BOOLEAN]

Pending == {"ask", "online", "search", "wait"}

Typed(r) ==
  /\ r \in RoundType
  /\ r.pc # "idle" => r.path \in Paths
  /\ r.pc \in Pending => /\ r.handler \in 1..7 /\ Handlers[r.handler] \in loaded
                         /\ r.overlay = "none"

RoundTyped ==
  /\ round \in [Lookups -> RoundType]
  /\ \A l \in Lookups : Typed(round[l])

BaseInv ==
  /\ TypeInv /\ SlotsInv /\ RoundTyped
  /\ controlled \in [Paths -> BOOLEAN] /\ online \in BOOLEAN

LEMMA SourcesTyped ==
  ASSUME TypeInv'
  PROVE  Sources' \in [Paths -> SUBSET Status]
<1>1. \A p \in Paths : actual'[p] \in Status
  BY DEF TypeInv, TypeOK, Status
<1>2. \A k \in Lookups : lookup'[k].fileStatus \in Status
  BY DEF TypeInv, TypeOK
<1>3. NoStatus \in Status
  BY DEF Status
<1>. QED
  BY <1>1, <1>2, <1>3 DEF Sources

\* What a step adds to the history of a round.
LEMMA WatchIs ==
  ASSUME TypeInv', NEW r \in RoundType, NEW mine \in BOOLEAN,
         r.pc # "idle" => r.path \in Paths
  PROVE  LET w == Watch(r, mine) IN
         /\ w \in RoundType
         /\ w.pc = r.pc /\ w.path = r.path /\ w.handler = r.handler
         /\ w.overlay = r.overlay /\ w.first = r.first
         /\ r.pc = "idle" => w = r
         /\ r.pc # "idle" =>
              /\ w.during = r.during \cup Sources'[r.path]
              /\ w.torn <=> \/ r.torn
                            \/ controlled'[r.path] # controlled[r.path] \/ online' # online
                            \/ ~mine /\ LiveEntries'[r.path] # LiveEntries[r.path]
<1>1. CASE r.pc = "idle"
  BY <1>1 DEF Watch
<1>2. CASE r.pc # "idle"
  <2>1. Sources'[r.path] \in SUBSET Status
    <3>1. Sources' \in [Paths -> SUBSET Status]
      BY SourcesTyped
    <3>. QED
      BY <1>2, <3>1
  <2> DEFINE d == r.during \cup Sources'[r.path]
             t == \/ r.torn \/ controlled'[r.path] # controlled[r.path] \/ online' # online
                  \/ (~mine /\ LiveEntries'[r.path] # LiveEntries[r.path])
  <2>2. d \in SUBSET Status /\ t \in BOOLEAN
    BY <2>1 DEF RoundType
  <2>3. Watch(r, mine) = [r EXCEPT !.during = d, !.torn = t]
    BY <1>2 DEF Watch, RoundType
  <2> HIDE DEF d, t
  <2>4. /\ Watch(r, mine) \in RoundType /\ Watch(r, mine).during = d /\ Watch(r, mine).torn = t
        /\ Watch(r, mine).pc = r.pc /\ Watch(r, mine).path = r.path
        /\ Watch(r, mine).handler = r.handler
        /\ Watch(r, mine).overlay = r.overlay /\ Watch(r, mine).first = r.first
    BY <2>2, <2>3 DEF RoundType
  <2>. QED
    BY <1>2, <2>4 DEF d, t
<1>. QED
  BY <1>1, <1>2

LEMMA OwnKeeps ==
  ASSUME NEW r \in RoundType
  PROVE  /\ Watch(r, TRUE).pc = r.pc /\ Watch(r, TRUE).path = r.path
         /\ Watch(r, TRUE).handler = r.handler
         /\ Watch(r, TRUE).overlay = r.overlay /\ Watch(r, TRUE).first = r.first
BY DEF Watch, RoundType

LEMMA OthersKeep ==
  ASSUME NEW r \in RoundType
  PROVE  /\ Watch(r, FALSE).pc = r.pc /\ Watch(r, FALSE).path = r.path
         /\ Watch(r, FALSE).handler = r.handler
         /\ Watch(r, FALSE).overlay = r.overlay /\ Watch(r, FALSE).first = r.first
BY DEF Watch, RoundType

LEMMA OwnStep ==
  ASSUME TypeInv', NEW r \in RoundType, r.pc # "idle", r.path \in Paths,
         controlled'[r.path] = controlled[r.path], online' = online
  PROVE  /\ Watch(r, TRUE).torn = r.torn
         /\ Watch(r, TRUE).during = r.during \cup Sources'[r.path]
<1>1. Watch(r, TRUE) = [r EXCEPT !.during = r.during \cup Sources'[r.path], !.torn = r.torn]
  BY DEF Watch, RoundType
<1>. QED
  BY <1>1 DEF RoundType

LEMMA OthersStep ==
  ASSUME TypeInv', NEW r \in RoundType, r.pc # "idle", r.path \in Paths
  PROVE  /\ r.torn => Watch(r, FALSE).torn
         /\ Watch(r, FALSE).during = r.during \cup Sources'[r.path]
<1> DEFINE t == \/ r.torn \/ controlled'[r.path] # controlled[r.path] \/ online' # online
                \/ LiveEntries'[r.path] # LiveEntries[r.path]
<1>1. Watch(r, FALSE) = [r EXCEPT !.during = r.during \cup Sources'[r.path], !.torn = t]
  BY DEF Watch, RoundType
<1>2. r.torn => t
  OBVIOUS
<1> HIDE DEF t
<1>. QED
  BY <1>1, <1>2 DEF RoundType

\* A handler that has its status decides the round or passes it on.
LEMMA GivenIs ==
  ASSUME NEW r \in RoundType, r.pc \in Pending, r.handler \in 1..7,
         Handlers[r.handler] \in loaded, NEW s \in Status, NEW f
  PROVE  LET g == Given(r, s, f)  h == Handlers[r.handler] IN
         /\ g \in RoundType
         /\ g.path = r.path /\ g.during = r.during /\ g.torn = r.torn
         /\ g.first = IF r.first = Unasked THEN s ELSE r.first
         /\ \/ DoesStatusMatch(h, f) /\ g.pc = "decided" /\ g.overlay = h
            \/ /\ ~DoesStatusMatch(h, f) /\ g.pc = "decided" /\ g.overlay = r.overlay
               /\ \A j \in (r.handler + 1)..7 : Handlers[j] \notin loaded
            \/ /\ ~DoesStatusMatch(h, f) /\ g.pc = "ask" /\ g.overlay = r.overlay
               /\ g.handler \in (r.handler + 1)..7 /\ Handlers[g.handler] \in loaded
               /\ \A j \in (r.handler + 1)..(g.handler - 1) : Handlers[j] \notin loaded
<1> DEFINE h     == Handlers[r.handler]
           next  == NextHandler(r.handler)
           fst   == IF r.first = Unasked THEN s ELSE r.first
           asked == [r EXCEPT !.first = fst]
<1>1. asked \in RoundType /\ asked.first = fst /\ fst \in Status \cup {Unasked}
      /\ asked.path = r.path /\ asked.during = r.during /\ asked.torn = r.torn
      /\ asked.overlay = r.overlay
  BY DEF RoundType
<1>2. Given(r, s, f) = IF DoesStatusMatch(h, f)
                       THEN [asked EXCEPT !.pc = "decided", !.overlay = h]
                       ELSE IF next = 0 THEN [asked EXCEPT !.pc = "decided"]
                       ELSE [asked EXCEPT !.pc = "ask", !.handler = next]
  BY DEF Given, RoundType
<1>3. h \in HandlerSet
  BY Places
<1>4. \/ next = 0 /\ \A j \in (r.handler + 1)..7 : Handlers[j] \notin loaded
      \/ /\ next \in (r.handler + 1)..7 /\ Handlers[next] \in loaded
         /\ \A j \in (r.handler + 1)..(next - 1) : Handlers[j] \notin loaded
  BY NextIs
<1> HIDE DEF h, next, fst, asked
<1>5. CASE DoesStatusMatch(h, f)
  <2>1. Given(r, s, f) = [asked EXCEPT !.pc = "decided", !.overlay = h]
    BY <1>2, <1>5
  <2>2. /\ Given(r, s, f) \in RoundType /\ Given(r, s, f).path = asked.path
        /\ Given(r, s, f).during = asked.during /\ Given(r, s, f).torn = asked.torn
        /\ Given(r, s, f).first = asked.first /\ Given(r, s, f).pc = "decided"
        /\ Given(r, s, f).overlay = h
    BY <1>1, <1>3, <2>1 DEF RoundType
  <2>. QED
    BY <1>1, <1>5, <2>2 DEF h, fst
<1>6. CASE ~DoesStatusMatch(h, f) /\ next = 0
  <2>1. Given(r, s, f) = [asked EXCEPT !.pc = "decided"]
    BY <1>2, <1>6
  <2>2. /\ Given(r, s, f) \in RoundType /\ Given(r, s, f).path = asked.path
        /\ Given(r, s, f).during = asked.during /\ Given(r, s, f).torn = asked.torn
        /\ Given(r, s, f).first = asked.first /\ Given(r, s, f).pc = "decided"
        /\ Given(r, s, f).overlay = asked.overlay
    BY <1>1, <2>1 DEF RoundType
  <2>. QED
    BY <1>1, <1>4, <1>6, <2>2 DEF h, fst
<1>7. CASE ~DoesStatusMatch(h, f) /\ next # 0
  <2>1. Given(r, s, f) = [asked EXCEPT !.pc = "ask", !.handler = next]
    BY <1>2, <1>7
  <2>2. next \in 0..7
    BY <1>4
  <2>3. /\ Given(r, s, f) \in RoundType /\ Given(r, s, f).path = asked.path
        /\ Given(r, s, f).during = asked.during /\ Given(r, s, f).torn = asked.torn
        /\ Given(r, s, f).first = asked.first /\ Given(r, s, f).pc = "ask"
        /\ Given(r, s, f).overlay = asked.overlay /\ Given(r, s, f).handler = next
    BY <1>1, <2>1, <2>2 DEF RoundType
  <2>. QED
    BY <1>1, <1>4, <1>7, <2>3 DEF h, fst
<1>. QED
  BY <1>5, <1>6, <1>7

LEMMA WatchTyped ==
  ASSUME TypeInv', UNCHANGED loaded, NEW r, Typed(r), NEW mine \in BOOLEAN
  PROVE  Typed(Watch(r, mine))
BY WatchIs DEF Typed

LEMMA GivenTyped ==
  ASSUME NEW r, Typed(r), r.pc \in Pending, NEW s \in Status, NEW f
  PROVE  Typed(Given(r, s, f))
<1>1. r \in RoundType /\ r.handler \in 1..7 /\ Handlers[r.handler] \in loaded
  BY DEF Typed
<1>2. r.pc # "idle"
  BY DEF Pending
<1>3. Given(r, s, f).pc \in {"decided", "ask"}
  BY <1>1, GivenIs
<1>4. Given(r, s, f).pc \in Pending => /\ Given(r, s, f).handler \in 1..7
                                       /\ Handlers[Given(r, s, f).handler] \in loaded
                                       /\ Given(r, s, f).overlay = "none"
  BY <1>1, GivenIs DEF Typed, Pending
<1>. QED
  BY <1>1, <1>2, <1>4, GivenIs DEF Typed

LEMMA FoundTyped ==
  ASSUME TypeInv, NEW p \in Paths, Hits(p) # {}
  PROVE  /\ Found(p) \in Status /\ Min(Hits(p)) \in Hits(p)
         /\ <<Min(Hits(p)), Found(p)>> \in LiveEntries[p]
<1>1. Min(Hits(p)) \in Hits(p)
  BY SlotEnds DEF Hits
<1>2. LiveEntries[p] = {<<i, cachedStatus[i].fileStatus>> : i \in Hits(p)}
  BY DEF LiveEntries, Hits
<1>3. Found(p) \in Status
  BY <1>1 DEF Found, Hits, TypeInv, TypeOK
<1>. QED
  BY <1>1, <1>2, <1>3 DEF Found

\* Every step of a round, and of all that goes on beside it, is one the cache knows.
LEMMA OverlayStepIsCacheStep ==
  ASSUME RoundTyped, [OverlayNext]_overlayVars
  PROVE  [Next]_vars
<1>1. Painters \subseteq Lookups
  BY OverlayAssumption DEF OverlayAssumption
<1>2. \A l \in Lookups : round[l].pc # "idle" => round[l].path \in Paths
  BY DEF RoundTyped, Typed
<1>3. ASSUME NEW l \in Painters, NEW p \in Paths, StartRound(l, p)
      PROVE  UNCHANGED vars
  BY <1>3 DEF StartRound
<1>4. ASSUME NEW l \in Painters, RoundStep(l)
      PROVE  [Next]_vars
  <2>1. l \in Lookups
    BY <1>1
  <2>2. CASE IsPathControlled(l) \/ IsOnline(l)
    BY <2>2 DEF IsPathControlled, IsOnline
  <2>3. CASE SearchCache(l)
    <3>1. round[l].path \in Paths
      BY <1>2, <2>1, <2>3 DEF SearchCache
    <3>. QED
      BY <2>1, <2>3, <3>1 DEF SearchCache, Next
  <2>4. CASE AskClient(l) \/ AddAnswer(l)
    BY <2>1, <2>4 DEF AskClient, AddAnswer, Next
  <2>5. CASE PaintOverlay(l)
    <3>1. round[l].path \in Paths
      BY <1>2, <2>1, <2>5 DEF PaintOverlay
    <3>2. ClearPath(round[l].path) \/ UNCHANGED vars
      BY <2>5 DEF PaintOverlay
    <3>. QED
      BY <3>1, <3>2 DEF Next
  <2>. QED
    BY <1>4, <2>2, <2>3, <2>4, <2>5 DEF RoundStep
<1>5. CASE UseCache
  BY <1>1, <1>5 DEF UseCache, CacheStep, Next
<1>6. CASE ChangeRoute
  BY <1>6 DEF ChangeRoute
<1>7. CASE UNCHANGED overlayVars
  BY <1>7 DEF overlayVars
<1>. QED
  BY <1>3, <1>4, <1>5, <1>6, <1>7 DEF OverlayNext

\* A thread's round goes on with r.
LEMMA FollowTyped ==
  ASSUME TypeInv', RoundTyped, UNCHANGED loaded, NEW l \in Lookups, NEW r, Typed(r), Follow(l, r)
  PROVE  RoundTyped'
<1>1. \A k \in Lookups : round'[k] = IF k = l THEN Watch(r, TRUE) ELSE Watch(round[k], FALSE)
  BY DEF Follow
<1>2. ASSUME NEW k \in Lookups
      PROVE  Typed(round[k]) /\ Typed(Watch(round[k], FALSE)) /\ Typed(Watch(r, TRUE))
  BY WatchTyped DEF RoundTyped
<1>3. \A k \in Lookups : round'[k] \in RoundType /\ Typed(round[k])'
  BY <1>1, <1>2 DEF Typed
<1>. QED
  BY <1>3 DEF RoundTyped, Follow

LEMMA OthersTyped ==
  ASSUME TypeInv', RoundTyped, UNCHANGED loaded,
         round' = [k \in Lookups |-> Watch(round[k], FALSE)]
  PROVE  RoundTyped'
<1>1. ASSUME NEW k \in Lookups
      PROVE  Typed(Watch(round[k], FALSE)) /\ round'[k] = Watch(round[k], FALSE)
  BY WatchTyped DEF RoundTyped
<1>2. \A k \in Lookups : round'[k] \in RoundType /\ Typed(round[k])'
  BY <1>1 DEF Typed
<1>. QED
  BY <1>2 DEF RoundTyped

\* Where a thread's round goes when it starts, ...
Started(p) == [NoRound EXCEPT !.pc = "ask", !.path = p, !.handler = NextHandler(0),
                              !.during = {e[2] : e \in LiveEntries[p]}]

LEMMA StartedTyped ==
  ASSUME BaseInv, NEW p \in Paths
  PROVE  /\ Typed(Started(p))
         /\ Started(p).pc = "ask" /\ Started(p).path = p /\ Started(p).handler = NextHandler(0)
         /\ Started(p).first = Unasked /\ Started(p).during = {e[2] : e \in LiveEntries[p]}
<1> DEFINE d == {e[2] : e \in LiveEntries[p]}
           n == NextHandler(0)
<1>1. \A i \in Slots : cachedStatus[i].fileStatus \in Status
  BY DEF BaseInv, TypeInv, TypeOK
<1>2. LiveEntries[p] = {<<i, cachedStatus[i].fileStatus>> : i \in {i \in Slots : Live(i, p)}}
  BY DEF LiveEntries
<1>3. ASSUME NEW e \in LiveEntries[p]
      PROVE  e[2] \in Status
  <2>1. PICK i \in Slots : e = <<i, cachedStatus[i].fileStatus>>
    BY <1>2
  <2>. QED
    BY <1>1, <2>1
<1>4. d \in SUBSET Status
  BY <1>3
<1>5. n \in 1..7 /\ Handlers[n] \in loaded /\ n \in 0..7
  BY FirstHandler DEF BaseInv
<1>6. Started(p) = [NoRound EXCEPT !.pc = "ask", !.path = p, !.handler = n, !.during = d]
  BY DEF Started
<1> HIDE DEF d, n
<1>7. Started(p) = [pc |-> "ask", path |-> p, handler |-> n, overlay |-> "none",
                    first |-> Unasked, during |-> d, torn |-> FALSE]
  BY <1>6 DEF NoRound
<1>8. FALSE \in BOOLEAN
  OBVIOUS
<1>9. Started(p) \in RoundType
  BY <1>4, <1>5, <1>7, <1>8 DEF RoundType
<1>10. Typed(Started(p))
  BY <1>5, <1>7, <1>9 DEF Typed, Pending
<1>. QED
  BY <1>7, <1>10 DEF d, n

\* ... and when it goes on: past a question, into the command, to a status, or to its end.
RoundMoves(l, r) ==
  \/ /\ round[l].pc = "ask" /\ controlled[round[l].path] /\ r = [round[l] EXCEPT !.pc = "online"]
     /\ UNCHANGED vars
  \/ round[l].pc = "online" /\ online /\ r = [round[l] EXCEPT !.pc = "search"] /\ UNCHANGED vars
  \/ /\ round[l].pc = "search" /\ Hits(round[l].path) = {}
     /\ r = [round[l] EXCEPT !.pc = "wait"] /\ GetFileStatus(l, round[l].path)
  \/ round[l].pc = "wait" /\ FileInfo(l) /\ r = round[l]
  \/ round[l].pc = "decided" /\ r = NoRound

\* A handler is given the status s, told as the flags f.
RoundGiven(l, s, f) ==
  \/ /\ round[l].pc = "ask" /\ ~controlled[round[l].path] /\ s = NoStatus /\ f = {"File"}
     /\ UNCHANGED vars
  \/ /\ round[l].pc = "online" /\ ~online /\ s = NoStatus /\ f = PathStatus(s)
     /\ UNCHANGED vars
  \/ /\ round[l].pc = "search" /\ Hits(round[l].path) # {} /\ s = Found(round[l].path)
     /\ f = PathStatus(s) /\ UNCHANGED vars
  \/ /\ round[l].pc = "wait" /\ AddCachedStatus(l) /\ s = lookup[l].fileStatus
     /\ f = PathStatus(s)

LEMMA RoundStepIs ==
  ASSUME BaseInv, NEW l \in Lookups, RoundStep(l)
  PROVE  /\ UNCHANGED <<loaded, controlled, online>>
         /\ \/ \E r : RoundMoves(l, r) /\ Follow(l, r)
            \/ \E s \in Status : \E f :
                 RoundGiven(l, s, f) /\ Follow(l, Given(round[l], s, f))
<1>0. NoStatus \in Status /\ lookup[l].fileStatus \in Status /\ lookup \in [Lookups -> Calls]
  BY DEF Status, BaseInv, TypeInv, TypeOK, Calls
<1>1. CASE IsPathControlled(l)
  BY <1>0, <1>1 DEF IsPathControlled, RoundMoves, RoundGiven
<1>2. CASE IsOnline(l)
  BY <1>0, <1>2 DEF IsOnline, RoundMoves, RoundGiven
<1>3. CASE SearchCache(l)
  <2> DEFINE p == round[l].path
  <2>1. p \in Paths /\ UNCHANGED <<loaded, controlled, online>> /\ round[l].pc = "search"
        /\ lookup[l].pc = "idle" /\ UNCHANGED <<actual, cachedStatus, failures, setBack, overrun, era, inFlight>>
    BY <1>3 DEF SearchCache, GetFileStatus, BaseInv, RoundTyped, Typed
  <2>2. CASE Hits(p) # {}
    <3>1. UNCHANGED lookup
      BY <1>3, <2>2 DEF SearchCache, GetFileStatus
    <3>2. Follow(l, Given(round[l], Found(p), PathStatus(Found(p))))
      BY <1>3, <3>1 DEF SearchCache
    <3>3. UNCHANGED vars
      BY <2>1, <3>1 DEF vars
    <3>4. Found(p) \in Status
      BY <2>1, <2>2, FoundTyped DEF BaseInv
    <3>5. RoundGiven(l, Found(p), PathStatus(Found(p)))
      BY <2>1, <2>2, <3>3 DEF RoundGiven
    <3>. QED
      BY <2>1, <3>2, <3>4, <3>5
  <2>3. CASE Hits(p) = {}
    <3>1. lookup' = [lookup EXCEPT ![l] =
             [NoLookup EXCEPT !.pc = "asking", !.path = p, !.era = era]]
      BY <1>3, <2>3 DEF SearchCache, GetFileStatus
    <3>2. lookup'[l].pc = "asking"
      BY <1>0, <3>1 DEF NoLookup
    <3>3. lookup' # lookup
      BY <2>1, <3>2
    <3>4. Follow(l, [round[l] EXCEPT !.pc = "wait"]) /\ GetFileStatus(l, p)
      BY <1>3, <3>3 DEF SearchCache
    <3>5. RoundMoves(l, [round[l] EXCEPT !.pc = "wait"])
      BY <2>1, <2>3, <3>4 DEF RoundMoves
    <3>. QED
      BY <2>1, <3>4, <3>5
  <2>. QED
    BY <2>2, <2>3
<1>4. CASE AskClient(l)
  BY <1>4 DEF AskClient, RoundMoves
<1>5. CASE AddAnswer(l)
  BY <1>0, <1>5 DEF AddAnswer, RoundGiven
<1>6. CASE PaintOverlay(l)
  BY <1>6 DEF PaintOverlay, RoundMoves
<1>. QED
  BY <1>1, <1>2, <1>3, <1>4, <1>5, <1>6 DEF RoundStep

LEMMA MovedTyped ==
  ASSUME BaseInv, NEW l \in Lookups, NEW r, RoundMoves(l, r)
  PROVE  Typed(r)
<1>1. Typed(round[l]) /\ round[l] \in RoundType
  BY DEF BaseInv, RoundTyped
<1>2. CASE r = NoRound
  <2>1. {} \in SUBSET Status /\ 0 \in 0..7 /\ FALSE \in BOOLEAN
    OBVIOUS
  <2>. QED
    BY <1>2, <2>1 DEF NoRound, Typed, RoundType, Pending
<1>3. CASE r = round[l]
  BY <1>1, <1>3
<1>4. ASSUME NEW pc \in {"online", "search", "wait"}, r = [round[l] EXCEPT !.pc = pc],
             round[l].pc \in Pending
      PROVE  Typed(r)
  <2>1. r \in RoundType /\ r.pc = pc /\ r.path = round[l].path /\ r.handler = round[l].handler
        /\ r.overlay = round[l].overlay
    BY <1>1, <1>4 DEF RoundType
  <2>. QED
    BY <1>1, <1>4, <2>1 DEF Typed, Pending
<1>. QED
  BY <1>2, <1>3, <1>4 DEF RoundMoves, Pending

LEMMA BaseInit == OverlayInit => BaseInv
<1>. SUFFICES ASSUME OverlayInit PROVE BaseInv
  OBVIOUS
<1>1. TypeInv /\ SlotsInv
  BY TypeInit, OverlayAssumption DEF OverlayInit, OverlayAssumption, SlotsInv
<1>2. {} \in SUBSET Status /\ 0 \in 0..7 /\ FALSE \in BOOLEAN
  OBVIOUS
<1>3. Typed(NoRound)
  BY <1>2 DEF NoRound, Typed, RoundType, Pending
<1>4. RoundTyped
  BY <1>3 DEF OverlayInit, RoundTyped, Typed
<1>5. controlled \in [Paths -> BOOLEAN]
  BY DEF OverlayInit
<1>6. online \in BOOLEAN
  BY DEF OverlayInit
<1>. QED
  BY <1>1, <1>4, <1>5, <1>6 DEF BaseInv

LEMMA BaseStep == BaseInv /\ [OverlayNext]_overlayVars => BaseInv'
<1>. SUFFICES ASSUME BaseInv, [OverlayNext]_overlayVars PROVE BaseInv'
  OBVIOUS
<1>0. Painters \subseteq Lookups /\ RoundTyped
  BY OverlayAssumption DEF OverlayAssumption, BaseInv
<1>1. TypeInv'
  BY <1>0, OverlayStepIsCacheStep, TypeStep DEF BaseInv
<1>2. ASSUME NEW l \in Painters, NEW p \in Paths, StartRound(l, p)
      PROVE  UNCHANGED <<loaded, controlled, online>> /\ RoundTyped'
  <2>1. Follow(l, Started(p)) /\ UNCHANGED <<loaded, controlled, online>>
    BY <1>2 DEF StartRound, Started
  <2>. QED
    BY <1>0, <1>1, <2>1, StartedTyped, FollowTyped
<1>3. ASSUME NEW l \in Painters, RoundStep(l)
      PROVE  UNCHANGED <<loaded, controlled, online>> /\ RoundTyped'
  <2>1. l \in Lookups /\ Typed(round[l])
    BY <1>0 DEF RoundTyped
  <2>2. UNCHANGED <<loaded, controlled, online>>
    BY <1>3, <2>1, RoundStepIs
  <2>3. ASSUME NEW r, RoundMoves(l, r), Follow(l, r)
        PROVE  RoundTyped'
    BY <1>0, <1>1, <2>1, <2>2, <2>3, MovedTyped, FollowTyped
  <2>4. ASSUME NEW s \in Status, NEW f, RoundGiven(l, s, f), Follow(l, Given(round[l], s, f))
        PROVE  RoundTyped'
    <3>1. round[l].pc \in Pending
      BY <2>4 DEF RoundGiven, Pending
    <3>2. Typed(Given(round[l], s, f))
      BY <2>1, <3>1, GivenTyped
    <3>. QED
      BY <1>0, <1>1, <2>1, <2>2, <2>4, <3>2, FollowTyped
  <2>. QED
    BY <1>3, <2>1, <2>2, <2>3, <2>4, RoundStepIs
<1>4. CASE UseCache
  <2>1. UNCHANGED <<loaded, controlled, online>>
        /\ round' = [k \in Lookups |-> Watch(round[k], FALSE)]
    BY <1>4 DEF UseCache, Meanwhile
  <2>2. RoundTyped'
    BY <1>0, <1>1, <2>1, OthersTyped
  <2>. QED
    BY <1>1, <2>1, <2>2 DEF BaseInv, SlotsInv
<1>5. CASE ChangeRoute
  <2>1. UNCHANGED loaded /\ round' = [k \in Lookups |-> Watch(round[k], FALSE)]
    BY <1>5 DEF ChangeRoute
  <2>2. RoundTyped'
    BY <1>0, <1>1, <2>1, OthersTyped
  <2>3. controlled' \in [Paths -> BOOLEAN]
    BY <1>5 DEF ChangeRoute, BaseInv
  <2>4. online' \in BOOLEAN
    BY <1>5 DEF ChangeRoute, BaseInv
  <2>. QED
    BY <1>1, <2>1, <2>2, <2>3, <2>4 DEF BaseInv, SlotsInv
<1>6. CASE UNCHANGED overlayVars
  <2>1. UNCHANGED <<loaded, controlled, online>> /\ round' = round
    BY <1>6 DEF overlayVars
  <2>2. RoundTyped'
    BY <1>0, <2>1 DEF RoundTyped, Typed
  <2>. QED
    BY <1>1, <2>1, <2>2 DEF BaseInv, SlotsInv
<1>. QED
  BY <1>1, <1>2, <1>3, <1>4, <1>5, <1>6 DEF OverlayNext, BaseInv, SlotsInv

LEMMA BaseInvHolds == OverlaySpec => []BaseInv
BY BaseInit, BaseStep, PTL DEF OverlaySpec

\* OverlaySpec => Spec: rounds of questions use the cache as StatusCache says, so that
\* the theorems about it hold of them.
THEOREM OverlayIsCache == OverlaySpec => Spec
<1>1. OverlayInit => Init
  BY DEF OverlayInit
<1>2. BaseInv /\ [OverlayNext]_overlayVars => [Next]_vars
  BY OverlayStepIsCacheStep DEF BaseInv
<1>. QED
  BY <1>1, <1>2, BaseInvHolds, PTL DEF OverlaySpec, Spec

\* IconOverlay!OnlyOneHandler: of the status of any file, in any set of slots.
THEOREM OnlyOneHandlerHolds == OverlaySpec => []OnlyOneHandler
<1>1. ASSUME SlotsInv
      PROVE  OnlyOneHandler
  <2>1. ASSUME NEW s \in Status, NEW g \in HandlerSet, DoesStatusMatch(g, FlagsOf[s]),
               NEW h \in HandlerSet \ {g}
        PROVE  ~DoesStatusMatch(h, FlagsOf[s])
    BY <2>1 DEF DoesStatusMatch
  <2>2. ASSUME NEW s \in Status, Deciding(FlagsOf[s]) # {}
        PROVE  Matching(FlagsOf[s]) # {}
    <3> DEFINE i == Min(Deciding(FlagsOf[s]))
    <3>1. Deciding(FlagsOf[s]) \in SUBSET (1..7)
      <4>1. Len(Rules) = 7
        BY DEF Rules
      <4>. QED
        BY <4>1 DEF Deciding
    <3>2. i \in 1..7
      BY <2>2, <3>1, LeastRule
    <3>3. Rules[i].substitute \/ Rules[i].handler \in loaded
      BY <1>1, <3>2, RuleHasHandler
    <3>4. CASE Rules[i].handler \in loaded
      BY <2>2, <3>4 DEF Matching, DoesStatusMatch
    <3>5. CASE Rules[i].handler \notin loaded
      BY <1>1, <2>2, <3>3, <3>5 DEF Matching, DoesStatusMatch, SlotsInv
    <3>. QED
      BY <3>4, <3>5
  <2>. QED
    BY <2>1, <2>2 DEF OnlyOneHandler
<1>2. BaseInv => OnlyOneHandler
  BY <1>1 DEF BaseInv
<1>. QED
  BY <1>2, BaseInvHolds, PTL

----------------------------------------------------------------------------
(* What a step of the cache does to the entries of a file.                  *)

LEMMA BoundsStay ==
  ASSUME TypeInv, TypeInv', [Next]_vars
  PROVE  (overrun => overrun') /\ (setBack' = 0 => setBack = 0)
<1>1. setBack \in Nat /\ setBack' \in Nat /\ overrun \in BOOLEAN
  BY StatusAssumption DEF TypeInv, TypeOK, StatusAssumption
<1>2. CASE SetClockBack
  BY <1>1, <1>2 DEF SetClockBack
<1>3. CASE UNCHANGED vars
  BY <1>3 DEF vars
<1>4. ASSUME NEW l \in Lookups, (\E p \in Paths : GetFileStatus(l, p)) \/ FileInfo(l) \/ AddCachedStatus(l)
      PROVE  (overrun => overrun') /\ (setBack' = 0 => setBack = 0)
  BY <1>4 DEF GetFileStatus, FileInfo, AddCachedStatus
<1>5. ASSUME NEW p \in Paths, ClearPath(p) \/ StatusChange(p)
      PROVE  (overrun => overrun') /\ (setBack' = 0 => setBack = 0)
  BY <1>5 DEF ClearPath, StatusChange
<1>6. CASE Clear \/ Tick
  BY <1>6 DEF Clear, Tick
<1>. QED
  BY <1>2, <1>3, <1>4, <1>5, <1>6 DEF Next

\* While the clock is not set back, only an insertion makes an entry live: what is live
\* of a file after a step was before, or an answer that a thread had.
LEMMA NewEntries ==
  ASSUME TypeInv, TypeInv', [Next]_vars, setBack' = 0, NEW p \in Paths,
         NEW e \in LiveEntries'[p]
  PROVE  e \in LiveEntries[p] \/ e[2] \in Sources[p]
<1>1. LiveEntries'[p] = {<<i, cachedStatus'[i].fileStatus>> : i \in {i \in Slots : Live(i, p)'}}
  BY DEF LiveEntries
<1>2. PICK i \in Slots : e = <<i, cachedStatus'[i].fileStatus>>
                         /\ cachedStatus'[i].path = p /\ cachedStatus'[i].age < Expiry
  BY <1>1 DEF Live
<1>3. CASE cachedStatus'[i] = cachedStatus[i]
  BY <1>2, <1>3 DEF LiveEntries, Live
<1>4. CASE cachedStatus'[i] # cachedStatus[i]
  <2>1. p # NoPath /\ Unused.path = NoPath
    BY StatusAssumption DEF StatusAssumption, Unused
  <2>2. /\ cachedStatus \in [Slots -> [path : Paths \cup {NoPath}, fileStatus : Status,
                                       age : Ages, era : Era]]
        /\ cachedStatus[i].age \in Int /\ Expiry \in Nat /\ setBack' \in Int
    BY StatusAssumption DEF TypeInv, TypeOK, StatusAssumption, Ages
  <2>3. ASSUME NEW l \in Lookups, NEW q \in Paths, GetFileStatus(l, q) \/ FileInfo(l)
        PROVE  FALSE
    BY <1>4, <2>3 DEF GetFileStatus, FileInfo
  <2>4. ASSUME NEW l \in Lookups, AddCachedStatus(l)
        PROVE  e[2] \in Sources[p]
    <3>1. cachedStatus'[i] = [path |-> lookup[l].path, fileStatus |-> lookup[l].fileStatus,
                              age |-> 0, era |-> lookup[l].era]
      BY <1>4, <2>2, <2>4 DEF AddCachedStatus
    <3>2. lookup[l].pc = "answered" /\ lookup[l].path = p /\ e[2] = lookup[l].fileStatus
      BY <1>2, <2>4, <3>1 DEF AddCachedStatus
    <3>. QED
      BY <3>2 DEF Sources
  <2>5. ASSUME NEW q \in Paths, ClearPath(q)
        PROVE  FALSE
    BY <1>2, <1>4, <2>1, <2>2, <2>5 DEF ClearPath
  <2>6. CASE Clear
    BY <1>2, <2>1, <2>6 DEF Clear
  <2>7. CASE Tick
    <3>1. /\ cachedStatus'[i] = [cachedStatus[i] EXCEPT !.age = @ + 1]
          /\ cachedStatus[i].age < Expiry
      BY <1>4, <2>7 DEF Tick
    <3>2. cachedStatus[i].path = p /\ e = <<i, cachedStatus[i].fileStatus>>
      BY <1>2, <2>2, <3>1
    <3>. QED
      BY <3>1, <3>2 DEF LiveEntries, Live
  <2>8. CASE SetClockBack
    <3>1. setBack \in Nat /\ MaxSkew \in Nat
      BY StatusAssumption DEF TypeInv, TypeOK, StatusAssumption
    <3>. QED
      BY <2>8, <3>1 DEF SetClockBack
  <2>9. UNCHANGED cachedStatus => FALSE
    BY <1>4
  <2>10. ASSUME NEW q \in Paths, StatusChange(q)
         PROVE  FALSE
    BY <2>9, <2>10 DEF StatusChange
  <2>. QED
    BY <2>3, <2>4, <2>5, <2>6, <2>7, <2>8, <2>9, <2>10 DEF Next, vars
<1>. QED
  BY <1>3, <1>4

\* The same live entries answer a search the same.
LEMMA SameFound ==
  ASSUME NEW p \in Paths, LiveEntries'[p] = LiveEntries[p], TypeInv
  PROVE  /\ Hits(p)' = Hits(p)
         /\ Hits(p) # {} => Found(p)' = Found(p)
<1>1. LiveEntries[p] = {<<i, cachedStatus[i].fileStatus>> : i \in Hits(p)}
  BY DEF LiveEntries, Hits
<1>2. LiveEntries'[p] = {<<i, cachedStatus'[i].fileStatus>> : i \in Hits(p)'}
  BY DEF LiveEntries, Hits
<1>3. Hits(p) \subseteq Hits(p)' /\ \A i \in Hits(p) : cachedStatus'[i].fileStatus = cachedStatus[i].fileStatus
  <2>. SUFFICES ASSUME NEW i \in Hits(p)
                PROVE  i \in Hits(p)' /\ cachedStatus'[i].fileStatus = cachedStatus[i].fileStatus
    OBVIOUS
  <2>1. <<i, cachedStatus[i].fileStatus>> \in LiveEntries'[p]
    BY <1>1
  <2>2. PICK j \in Hits(p)' : <<i, cachedStatus[i].fileStatus>> = <<j, cachedStatus'[j].fileStatus>>
    BY <1>2, <2>1
  <2>. QED
    BY <2>2
<1>4. Hits(p)' \subseteq Hits(p)
  <2>. SUFFICES ASSUME NEW i \in Hits(p)'
                PROVE  i \in Hits(p)
    OBVIOUS
  <2>1. <<i, cachedStatus'[i].fileStatus>> \in LiveEntries[p]
    BY <1>2
  <2>2. PICK j \in Hits(p) : <<i, cachedStatus'[i].fileStatus>> = <<j, cachedStatus[j].fileStatus>>
    BY <1>1, <2>1
  <2>. QED
    BY <2>2
<1>5. Hits(p)' = Hits(p)
  BY <1>3, <1>4
<1>6. Hits(p) # {} => Min(Hits(p)) \in Hits(p)
  BY FoundTyped
<1>7. Found(p)' = cachedStatus'[Min(Hits(p))].fileStatus
  BY <1>5 DEF Found
<1>. QED
  BY <1>3, <1>5, <1>6, <1>7 DEF Found

\* Where the search found nothing, the answer that is added is what it finds.
LEMMA AddedIsFound ==
  ASSUME TypeInv, NEW l \in Lookups, AddCachedStatus(l), ~overrun', Hits(lookup[l].path) = {},
         NEW p \in Paths, p = lookup[l].path
  PROVE  Hits(p)' # {} /\ Found(p)' = lookup[l].fileStatus
<1>1. Replaced # 0
  BY DEF AddCachedStatus
<1> DEFINE i == Replaced
<1>2. i \in Slots
  <2>1. {i_1 \in Slots : ~Used(i_1)} # {} => Min({i_1 \in Slots : ~Used(i_1)}) \in Slots
    BY SlotEnds
  <2>2. {i_1 \in Slots : 0 - cachedStatus[i_1].age < Expiry} # {}
          => Max({i_1 \in Slots : 0 - cachedStatus[i_1].age < Expiry}) \in Slots
    BY SlotEnds
  <2>. QED
    BY <1>1, <2>1, <2>2 DEF Replaced
<1>3. cachedStatus' = [cachedStatus EXCEPT ![i] =
            [path |-> lookup[l].path, fileStatus |-> lookup[l].fileStatus,
             age |-> 0, era |-> lookup[l].era]]
  BY <1>1 DEF AddCachedStatus
<1> HIDE DEF i
<1>4. DOMAIN cachedStatus = Slots /\ Expiry \in Nat \ {0}
  BY StatusAssumption DEF TypeInv, TypeOK, StatusAssumption
<1>5. cachedStatus'[i].path = p /\ cachedStatus'[i].age = 0
      /\ cachedStatus'[i].fileStatus = lookup[l].fileStatus
      /\ \A j \in Slots \ {i} : cachedStatus'[j] = cachedStatus[j]
  BY <1>2, <1>3, <1>4
<1>6. Hits(p)' = {i}
  <2>1. \A j \in Slots : ~(cachedStatus[j].path = p /\ cachedStatus[j].age < Expiry)
    BY DEF Hits, Live
  <2>2. i \in Hits(p)'
    BY <1>2, <1>4, <1>5 DEF Hits, Live
  <2>3. \A j \in Hits(p)' : j = i
    BY <1>5, <2>1 DEF Hits, Live
  <2>. QED
    BY <2>2, <2>3
<1>7. Min({i}) = i
  BY <1>2, SlotEnds
<1>. QED
  BY <1>5, <1>6, <1>7 DEF Found

----------------------------------------------------------------------------
(* A round that is not torn agrees.                                         *)

\* The handlers asked so far did not match the status the first was given.
Asked(r) ==
  \A j \in 1..7 : j < r.handler /\ Handlers[j] \in loaded
     => r.first # Unasked /\ ~DoesStatusMatch(Handlers[j], FlagsOf[r.first])

\* A handler that asks now is given the status s.
Serves(p, s) ==
  IF controlled[p] /\ online THEN Hits(p) # {} /\ Found(p) = s ELSE s = NoStatus

AgreeOf(r) ==
  /\ r.pc \in Pending => Asked(r) /\ (r.first # Unasked => Serves(r.path, r.first))
  /\ r.pc = "online" => controlled[r.path]
  /\ r.pc \in {"search", "wait"} => controlled[r.path] /\ online
  /\ r.pc = "wait" => Hits(r.path) = {}
  /\ r.pc = "decided" => r.first # Unasked /\ r.overlay = Overlay(FlagsOf[r.first])

Agree(l) ==
  /\ round[l].pc = "wait" => lookup[l].pc # "idle" /\ lookup[l].path = round[l].path
  /\ round[l].pc # "idle" /\ ~round[l].torn /\ ~overrun => AgreeOf(round[l])

AgreeInv == \A l \in Painters : Agree(l)

LEMMA SlotsKept ==
  ASSUME UNCHANGED loaded
  PROVE  \A f : /\ Overlay(f)' = Overlay(f)
                /\ \A h : DoesStatusMatch(h, f)' <=> DoesStatusMatch(h, f)
BY DEF Overlay, Matching, DoesStatusMatch

\* `File' makes no difference, nor does Ignored in place of no flags.
LEMMA PathStatusDecides ==
  ASSUME SlotsInv, NEW s \in Status
  PROVE  /\ \A h : DoesStatusMatch(h, PathStatus(s)) <=> DoesStatusMatch(h, FlagsOf[s])
         /\ \A h : DoesStatusMatch(h, {"File"}) <=> DoesStatusMatch(h, FlagsOf[NoStatus])
<1>1. \A x : x \notin {"File", "Ignored"} => (x \in PathStatus(s) <=> x \in FlagsOf[s])
  BY DEF PathStatus
<1>2. \A x : x \notin {"File", "Ignored"} => (x \in {"File"} <=> x \in FlagsOf[NoStatus])
  BY OverlayAssumption DEF OverlayAssumption
<1>. QED
  BY <1>1, <1>2, SameDeciding

\* What other threads and the world do leaves a round as it is or tears it.
LEMMA OthersAgree ==
  ASSUME BaseInv, BaseInv', [Next]_vars, UNCHANGED loaded, NEW k \in Lookups, Agree(k),
         round'[k] = Watch(round[k], FALSE), lookup'[k] = lookup[k]
  PROVE  Agree(k)'
<1>1. TypeInv /\ TypeInv' /\ round[k] \in RoundType
      /\ (round[k].pc # "idle" => round[k].path \in Paths)
  BY DEF BaseInv, RoundTyped, Typed
<1>2. round'[k].pc = round[k].pc /\ round'[k].path = round[k].path
      /\ round'[k].handler = round[k].handler /\ round'[k].overlay = round[k].overlay
      /\ round'[k].first = round[k].first
  BY <1>1, OthersKeep
<1>3. ASSUME round'[k].pc # "idle", ~round'[k].torn, ~overrun'
      PROVE  AgreeOf(round[k])'
  <2>1. PICK p \in Paths : p = round[k].path
    BY <1>1, <1>2, <1>3
  <2>2. ~round[k].torn /\ controlled'[p] = controlled[p] /\ online' = online
        /\ LiveEntries'[p] = LiveEntries[p]
    BY <1>1, <1>2, <1>3, <2>1, WatchIs
  <2>3. ~overrun
    BY <1>1, <1>3, BoundsStay
  <2>4. Hits(p)' = Hits(p) /\ (Hits(p) # {} => Found(p)' = Found(p))
    BY <1>1, <2>2, SameFound
  <2>5. AgreeOf(round[k])
    BY <1>2, <1>3, <2>2, <2>3 DEF Agree
  <2>6. \A f : /\ Overlay(f)' = Overlay(f)
               /\ \A h : DoesStatusMatch(h, f)' <=> DoesStatusMatch(h, f)
    BY SlotsKept
  <2>7. round[k].pc \in Pending => Asked(round[k])'
    BY <1>2, <2>5, <2>6 DEF AgreeOf, Asked
  <2>8. round[k].pc \in Pending /\ round[k].first # Unasked
          => Serves(round[k].path, round[k].first)'
    BY <1>2, <2>1, <2>2, <2>4, <2>5 DEF AgreeOf, Serves
  <2>9. round[k].pc = "wait" => (Hits(round[k].path) = {})'
    BY <1>2, <2>1, <2>4, <2>5 DEF AgreeOf
  <2>10. round[k].pc = "decided" => (round[k].overlay = Overlay(FlagsOf[round[k].first]))'
    BY <1>2, <2>5, <2>6 DEF AgreeOf
  <2>. QED
    BY <1>2, <2>1, <2>2, <2>5, <2>7, <2>8, <2>9, <2>10 DEF AgreeOf
<1>. QED
  BY <1>2, <1>3 DEF Agree

\* A round's own step to r.
LEMMA OwnWatch ==
  ASSUME BaseInv, BaseInv', NEW l \in Lookups, NEW r, Typed(r), Follow(l, r),
         UNCHANGED <<controlled, online>>
  PROVE  /\ round'[l].pc = r.pc /\ round'[l].path = r.path /\ round'[l].handler = r.handler
         /\ round'[l].overlay = r.overlay /\ round'[l].first = r.first
         /\ r.pc # "idle" => /\ round'[l].torn = r.torn
                             /\ round'[l].during = r.during \cup Sources'[r.path]
<1>1. round'[l] = Watch(r, TRUE)
  BY DEF Follow
<1>2. TypeInv' /\ r \in RoundType /\ (r.pc # "idle" => r.path \in Paths)
  BY DEF BaseInv, Typed
<1>3. ASSUME r.pc # "idle"
      PROVE  round'[l].torn = r.torn /\ round'[l].during = r.during \cup Sources'[r.path]
  BY <1>1, <1>2, <1>3, OwnStep
<1>4. /\ round'[l].pc = r.pc /\ round'[l].path = r.path /\ round'[l].handler = r.handler
      /\ round'[l].overlay = r.overlay /\ round'[l].first = r.first
  BY <1>1, <1>2, OwnKeeps
<1>. QED
  BY <1>3, <1>4

LEMMA StartAgrees ==
  ASSUME BaseInv, BaseInv', NEW l \in Lookups, NEW p \in Paths, Follow(l, Started(p)),
         UNCHANGED <<loaded, controlled, online>>
  PROVE  Agree(l)'
<1>1. Typed(Started(p)) /\ Started(p).pc = "ask" /\ Started(p).handler = NextHandler(0)
      /\ Started(p).first = Unasked
  BY StartedTyped
<1>2. round'[l].pc = "ask" /\ round'[l].handler = NextHandler(0) /\ round'[l].first = Unasked
  BY <1>1, OwnWatch
<1>3. \A j \in 1..(NextHandler(0) - 1) : Handlers[j] \notin loaded'
  BY FirstHandler DEF BaseInv
<1>4. NextHandler(0) \in 1..7
  BY FirstHandler DEF BaseInv
<1>5. \A j \in 1..7 : j < NextHandler(0) => Handlers[j] \notin loaded'
  BY <1>3, <1>4
<1>. QED
  BY <1>2, <1>5 DEF Agree, AgreeOf, Asked

LEMMA MoveAgrees ==
  ASSUME BaseInv, BaseInv', [Next]_vars, NEW l \in Lookups, Agree(l), NEW r, RoundMoves(l, r),
         Follow(l, r), UNCHANGED <<loaded, controlled, online>>
  PROVE  Agree(l)'
<1>0. TypeInv /\ TypeInv' /\ round[l] \in RoundType /\ Typed(r)
      /\ (round[l].pc # "idle" => round[l].path \in Paths)
  BY MovedTyped DEF BaseInv, RoundTyped, Typed
<1>1. /\ round'[l].pc = r.pc /\ round'[l].path = r.path /\ round'[l].handler = r.handler
      /\ round'[l].overlay = r.overlay /\ round'[l].first = r.first
      /\ r.pc # "idle" => round'[l].torn = r.torn
  BY <1>0, OwnWatch
<1>2. CASE r = NoRound
  BY <1>1, <1>2 DEF Agree, NoRound
<1>3. CASE r # NoRound
  <2>1. round[l].pc \in Pending /\ r.pc \in {"online", "search", "wait"}
        /\ r.path = round[l].path /\ r.handler = round[l].handler
        /\ r.first = round[l].first /\ r.torn = round[l].torn
        /\ UNCHANGED cachedStatus
    BY <1>0, <1>3 DEF RoundMoves, Pending, RoundType, vars, GetFileStatus, FileInfo
  <2>2. PICK p \in Paths : p = round[l].path
    BY <1>0, <2>1 DEF Pending
  <2>3. Hits(p)' = Hits(p) /\ Found(p)' = Found(p)
    BY <2>1 DEF Hits, Live, Found
  <2>4. r.pc = "wait" => lookup'[l].pc # "idle" /\ lookup'[l].path = p
    <3>1. lookup \in [Lookups -> Calls]
      BY <1>0 DEF TypeInv, TypeOK, Calls
    <3>2. CASE round[l].pc = "wait"
      <4>1. FileInfo(l) /\ lookup[l].path = p
        BY <1>0, <1>3, <2>2, <3>2 DEF RoundMoves, Agree, RoundType
      <4>2. lookup'[l].pc = "answered" /\ lookup'[l].path = lookup[l].path
        BY <3>1, <4>1 DEF FileInfo, Calls
      <4>. QED
        BY <4>1, <4>2
    <3>3. CASE round[l].pc = "search"
      <4>1. GetFileStatus(l, p) /\ Hits(p) = {}
        BY <1>3, <2>2, <3>3 DEF RoundMoves
      <4>2. lookup' = [lookup EXCEPT ![l] =
                         [NoLookup EXCEPT !.pc = "asking", !.path = p, !.era = era]]
        BY <4>1 DEF GetFileStatus
      <4>. QED
        BY <3>1, <4>2 DEF NoLookup
    <3>4. CASE round[l].pc \in {"ask", "online"}
      BY <1>0, <1>3, <3>4 DEF RoundMoves, RoundType
    <3>. QED
      BY <2>1, <3>2, <3>3, <3>4 DEF Pending
  <2>5. ASSUME ~r.torn, ~overrun'
        PROVE  AgreeOf(round[l])'
    <3>1. AgreeOf(round[l])
      BY <1>0, <2>1, <2>5, BoundsStay DEF Agree, Pending
    <3>2. \A h, f : DoesStatusMatch(h, f)' <=> DoesStatusMatch(h, f)
      BY SlotsKept
    <3>3. Asked(round[l])'
      BY <1>1, <2>1, <3>1, <3>2 DEF AgreeOf, Asked
    <3>4. r.first # Unasked => Serves(round[l].path, round[l].first)'
      BY <1>1, <2>1, <2>2, <2>3, <3>1 DEF AgreeOf, Serves
    <3>5. /\ r.pc = "online" => controlled[p]
          /\ r.pc \in {"search", "wait"} => controlled[p] /\ online
          /\ r.pc = "wait" => Hits(p) = {}
      BY <1>0, <1>3, <2>1, <2>2, <3>1 DEF RoundMoves, AgreeOf, RoundType
    <3>. QED
      BY <1>1, <2>1, <2>2, <2>3, <3>3, <3>4, <3>5 DEF AgreeOf
  <2>. QED
    BY <1>1, <2>1, <2>2, <2>4, <2>5 DEF Agree
<1>. QED
  BY <1>2, <1>3

\* The first handler leaves what it was given to the others; each of them is given the
\* same, and either it decides the round for its overlay or it has not matched.
LEMMA GivenAgrees ==
  ASSUME BaseInv, BaseInv', [Next]_vars, NEW l \in Lookups, Agree(l), NEW s \in Status, NEW f,
         RoundGiven(l, s, f), Follow(l, Given(round[l], s, f)),
         UNCHANGED <<loaded, controlled, online>>
  PROVE  Agree(l)'
<1> DEFINE r == round[l]
           g == Given(r, s, f)
           h == Handlers[r.handler]
<1>1. TypeInv /\ TypeInv' /\ SlotsInv /\ r \in RoundType /\ Typed(r) /\ r.pc \in Pending
      /\ r.path \in Paths /\ r.handler \in 1..7 /\ h \in loaded /\ r.overlay = "none"
  BY DEF BaseInv, RoundTyped, Typed, RoundGiven, Pending
<1>2. /\ g.pc \in {"ask", "decided"} /\ g.path = r.path /\ g.torn = r.torn
      /\ g.first = IF r.first = Unasked THEN s ELSE r.first
      /\ \/ DoesStatusMatch(h, f) /\ g.pc = "decided" /\ g.overlay = h
         \/ /\ ~DoesStatusMatch(h, f) /\ g.pc = "decided" /\ g.overlay = "none"
            /\ \A j \in (r.handler + 1)..7 : Handlers[j] \notin loaded
         \/ /\ ~DoesStatusMatch(h, f) /\ g.pc = "ask"
            /\ g.handler \in (r.handler + 1)..7
            /\ \A j \in (r.handler + 1)..(g.handler - 1) : Handlers[j] \notin loaded
  BY <1>1, GivenIs
<1>3. /\ round'[l].pc = g.pc /\ round'[l].path = g.path /\ round'[l].handler = g.handler
      /\ round'[l].overlay = g.overlay /\ round'[l].first = g.first
      /\ round'[l].torn = g.torn
  BY <1>1, <1>2, GivenTyped, OwnWatch
<1> HIDE DEF g
<1>4. ASSUME ~r.torn, ~overrun'
      PROVE  AgreeOf(round[l])'
  <2>1. AgreeOf(r)
    BY <1>1, <1>4, BoundsStay DEF Agree, Pending
  <2>2. PICK p \in Paths : p = r.path
    BY <1>1
  <2>3. r.first = Unasked \/ r.first = s
    BY <1>1, <2>1, OverlayAssumption DEF AgreeOf, Serves, RoundGiven
  <2>4. g.first = s /\ s # Unasked
    BY <1>2, <2>3, StatusAssumption DEF Status, Version, NoStatus, Unasked, StatusAssumption
  <2>5. Serves(p, s)'
    <3>1. CASE r.pc = "ask"
      <4>1. ~controlled[p] /\ s = NoStatus
        BY <2>2, <3>1 DEF RoundGiven
      <4>. QED
        BY <4>1 DEF Serves
    <3>2. CASE r.pc = "online"
      <4>1. ~online /\ s = NoStatus
        BY <3>2 DEF RoundGiven
      <4>. QED
        BY <4>1 DEF Serves
    <3>3. CASE r.pc = "search"
      <4>1. Hits(p) # {} /\ s = Found(p) /\ UNCHANGED cachedStatus
        BY <2>2, <3>3 DEF RoundGiven, vars
      <4>2. controlled[p] /\ online
        BY <2>1, <2>2, <3>3 DEF AgreeOf
      <4>3. Hits(p)' = Hits(p) /\ Found(p)' = Found(p)
        BY <4>1 DEF Hits, Live, Found
      <4>. QED
        BY <4>1, <4>2, <4>3 DEF Serves
    <3>4. CASE r.pc = "wait"
      <4>1. AddCachedStatus(l) /\ s = lookup[l].fileStatus /\ lookup[l].path = p
        BY <2>2, <3>4 DEF RoundGiven, Agree
      <4>2. controlled[p] /\ online /\ Hits(p) = {}
        BY <2>1, <2>2, <3>4 DEF AgreeOf
      <4>3. Hits(p)' # {} /\ Found(p)' = s
        BY <1>1, <1>4, <4>1, <4>2, AddedIsFound
      <4>. QED
        BY <4>2, <4>3 DEF Serves
    <3>. QED
      BY <1>1, <3>1, <3>2, <3>3, <3>4 DEF Pending
  <2>6. DoesStatusMatch(h, f) <=> DoesStatusMatch(h, FlagsOf[s])
    BY <1>1, PathStatusDecides DEF RoundGiven
  <2>7. \A j \in 1..7 : j < r.handler /\ Handlers[j] \in loaded
                           => ~DoesStatusMatch(Handlers[j], FlagsOf[s])
    BY <1>1, <2>1, <2>3 DEF AgreeOf, Asked
  <2>8. \A x : /\ Overlay(x)' = Overlay(x)
               /\ \A y : DoesStatusMatch(y, x)' <=> DoesStatusMatch(y, x)
    BY SlotsKept
  <2>9. CASE DoesStatusMatch(h, f)
    <3>1. Overlay(FlagsOf[s]) = h
      BY <1>1, <2>6, <2>9, OverlayIs
    <3>2. g.pc = "decided" /\ g.overlay = Overlay(FlagsOf[g.first])
      BY <1>2, <2>4, <2>9, <3>1
    <3>. QED
      BY <1>3, <2>4, <2>8, <3>2 DEF AgreeOf, Pending
  <2>10. CASE ~DoesStatusMatch(h, f) /\ g.pc = "decided"
    <3>1. \A i \in loaded : ~DoesStatusMatch(i, FlagsOf[s])
      <4>. SUFFICES ASSUME NEW i \in loaded
                    PROVE  ~DoesStatusMatch(i, FlagsOf[s])
        OBVIOUS
      <4>1. PICK j \in 1..7 : i = Handlers[j]
        BY <1>1, Places DEF SlotsInv
      <4>2. ~(j \in (r.handler + 1)..7)
        BY <1>2, <2>10, <4>1
      <4>3. j = r.handler \/ j < r.handler
        BY <1>1, <4>2
      <4>. QED
        BY <2>6, <2>7, <2>10, <4>1, <4>3
    <3>2. Overlay(FlagsOf[g.first]) = "none" /\ g.overlay = "none"
      BY <1>1, <1>2, <2>4, <2>10, <3>1, OverlayIs
    <3>. QED
      BY <1>3, <2>4, <2>8, <2>10, <3>2 DEF AgreeOf, Pending
  <2>11. CASE ~DoesStatusMatch(h, f) /\ g.pc = "ask"
    <3>1. \A j \in 1..7 : j < g.handler /\ Handlers[j] \in loaded
                             => ~DoesStatusMatch(Handlers[j], FlagsOf[s])
      <4>. SUFFICES ASSUME NEW j \in 1..7, j < g.handler, Handlers[j] \in loaded
                    PROVE  ~DoesStatusMatch(Handlers[j], FlagsOf[s])
        OBVIOUS
      <4>1. g.handler \in (r.handler + 1)..7
            /\ ~(j \in (r.handler + 1)..(g.handler - 1))
        BY <1>2, <2>11
      <4>2. j = r.handler \/ j < r.handler
        BY <1>1, <4>1
      <4>. QED
        BY <2>6, <2>7, <2>11, <4>2
    <3>2. Asked(round[l])'
      BY <1>3, <2>4, <2>8, <3>1 DEF Asked
    <3>3. Serves(round[l].path, round[l].first)'
      BY <1>2, <1>3, <2>2, <2>4, <2>5 DEF Serves
    <3>. QED
      BY <1>3, <2>11, <3>2, <3>3 DEF AgreeOf, Pending
  <2>. QED
    BY <1>2, <2>9, <2>10, <2>11
<1>. QED
  BY <1>2, <1>3, <1>4 DEF Agree

\* What a step of one thread's round leaves of the others.
LEMMA OwnLookup ==
  ASSUME BaseInv, NEW l \in Lookups, RoundStep(l), NEW k \in Lookups, k # l
  PROVE  lookup'[k] = lookup[k]
<1>1. TypeInv /\ lookup \in [Lookups -> Calls]
  BY DEF BaseInv, TypeInv, TypeOK, Calls
<1>2. CASE IsPathControlled(l) \/ IsOnline(l)
  BY <1>2 DEF IsPathControlled, IsOnline, vars
<1>3. CASE SearchCache(l)
  BY <1>1, <1>3 DEF SearchCache, GetFileStatus
<1>4. CASE AskClient(l)
  BY <1>1, <1>4 DEF AskClient, FileInfo
<1>5. CASE AddAnswer(l)
  BY <1>1, <1>5 DEF AddAnswer, AddCachedStatus
<1>6. CASE PaintOverlay(l)
  BY <1>6 DEF PaintOverlay, ClearPath, vars
<1>. QED
  BY <1>2, <1>3, <1>4, <1>5, <1>6 DEF RoundStep

LEMMA CacheStepLookup ==
  ASSUME BaseInv, CacheStep, NEW k \in Painters
  PROVE  lookup'[k] = lookup[k]
<1>1. lookup \in [Lookups -> Calls] /\ k \in Lookups
  BY OverlayAssumption DEF OverlayAssumption, BaseInv, TypeInv, TypeOK, Calls
<1>2. ASSUME NEW l \in Lookups \ Painters,
             (\E p \in Paths : GetFileStatus(l, p)) \/ FileInfo(l) \/ AddCachedStatus(l)
      PROVE  lookup'[k] = lookup[k]
  BY <1>1, <1>2 DEF GetFileStatus, FileInfo, AddCachedStatus
<1>3. ASSUME NEW p \in Paths, ClearPath(p) \/ StatusChange(p)
      PROVE  lookup'[k] = lookup[k]
  BY <1>3 DEF ClearPath, StatusChange
<1>4. CASE Clear \/ Tick \/ SetClockBack
  BY <1>4 DEF Clear, Tick, SetClockBack
<1>. QED
  BY <1>2, <1>3, <1>4 DEF CacheStep

LEMMA AgreeStep ==
  ASSUME BaseInv, BaseInv', AgreeInv, [OverlayNext]_overlayVars
  PROVE  AgreeInv'
<1>0. Painters \subseteq Lookups /\ RoundTyped /\ [Next]_vars
  BY OverlayAssumption, OverlayStepIsCacheStep DEF OverlayAssumption, BaseInv
<1>. SUFFICES ASSUME NEW k \in Painters
              PROVE  Agree(k)'
  BY DEF AgreeInv
<1>1. k \in Lookups /\ Agree(k)
  BY <1>0 DEF AgreeInv
<1>2. ASSUME NEW l \in Painters, NEW p \in Paths, StartRound(l, p)
      PROVE  Agree(k)'
  <2>1. Follow(l, Started(p)) /\ UNCHANGED <<loaded, controlled, online, lookup>>
    BY <1>2 DEF StartRound, Started, vars
  <2>2. CASE k = l
    BY <1>1, <2>1, <2>2, StartAgrees
  <2>3. CASE k # l
    <3>1. round'[k] = Watch(round[k], FALSE)
      BY <1>1, <2>1, <2>3 DEF Follow
    <3>. QED
      BY <1>0, <1>1, <2>1, <3>1, OthersAgree
  <2>. QED
    BY <2>2, <2>3
<1>3. ASSUME NEW l \in Painters, RoundStep(l)
      PROVE  Agree(k)'
  <2>1. l \in Lookups
    BY <1>0
  <2>2. UNCHANGED <<loaded, controlled, online>>
    BY <1>3, <2>1, RoundStepIs
  <2>3. CASE k = l
    <3>1. ASSUME NEW r, RoundMoves(l, r), Follow(l, r)
          PROVE  Agree(l)'
      BY <1>0, <1>1, <2>2, <2>3, <3>1, MoveAgrees
    <3>2. ASSUME NEW s \in Status, NEW f, RoundGiven(l, s, f), Follow(l, Given(round[l], s, f))
          PROVE  Agree(l)'
      BY <1>0, <1>1, <2>2, <2>3, <3>2, GivenAgrees
    <3>. QED
      BY <1>3, <2>1, <2>3, <3>1, <3>2, RoundStepIs
  <2>4. CASE k # l
    <3>1. \E r : Follow(l, r)
      BY <1>3, <2>1, RoundStepIs
    <3>2. round'[k] = Watch(round[k], FALSE)
      BY <1>1, <2>4, <3>1 DEF Follow
    <3>3. lookup'[k] = lookup[k]
      BY <1>1, <1>3, <2>1, <2>4, OwnLookup
    <3>. QED
      BY <1>0, <1>1, <2>2, <3>2, <3>3, OthersAgree
  <2>. QED
    BY <2>3, <2>4
<1>4. CASE UseCache
  <2>1. UNCHANGED loaded /\ round'[k] = Watch(round[k], FALSE) /\ lookup'[k] = lookup[k]
    BY <1>1, <1>4, CacheStepLookup DEF UseCache, Meanwhile
  <2>. QED
    BY <1>0, <1>1, <2>1, OthersAgree
<1>5. CASE ChangeRoute
  <2>1. UNCHANGED loaded /\ round'[k] = Watch(round[k], FALSE) /\ lookup'[k] = lookup[k]
    BY <1>1, <1>5 DEF ChangeRoute, vars
  <2>. QED
    BY <1>0, <1>1, <2>1, OthersAgree
<1>6. CASE UNCHANGED overlayVars
  BY <1>1, <1>6 DEF overlayVars, vars, Agree, AgreeOf, Asked, Serves, Hits, Live, Found,
                    Overlay, Matching, DoesStatusMatch
<1>. QED
  BY <1>2, <1>3, <1>4, <1>5, <1>6 DEF OverlayNext

LEMMA AgreeInvHolds == OverlaySpec => []AgreeInv
<1>1. OverlayInit => AgreeInv
  <2>. SUFFICES ASSUME OverlayInit, NEW l \in Painters
                PROVE  round[l].pc = "idle"
    BY DEF AgreeInv, Agree
  <2>. QED
    BY OverlayAssumption DEF OverlayInit, NoRound, OverlayAssumption
<1>2. BaseInv /\ BaseInv' /\ AgreeInv /\ [OverlayNext]_overlayVars => AgreeInv'
  BY AgreeStep
<1>. QED
  BY <1>1, <1>2, BaseInvHolds, PTL DEF OverlaySpec

\* IconOverlay!RoundAgrees: what the entries in the cache are for, whatever other
\* threads do with those of other files.
THEOREM RoundAgreesHolds == OverlaySpec => []RoundAgrees
<1>1. AgreeInv => RoundAgrees
  BY DEF AgreeInv, Agree, AgreeOf, RoundAgrees, Decided
<1>. QED
  BY <1>1, AgreeInvHolds, PTL

----------------------------------------------------------------------------
(* No round paints what is older than its beginning.                        *)

Fresh(l) ==
  round[l].pc # "idle" =>
    /\ Sources[round[l].path] \subseteq round[l].during
    /\ setBack = 0 =>
         /\ \A e \in LiveEntries[round[l].path] : e[2] \in round[l].during
         /\ round[l].first \in round[l].during \cup {Unasked}
         /\ Decided(l) => \/ \E s \in round[l].during : round[l].overlay = Overlay(FlagsOf[s])
                          \/ round[l].torn /\ round[l].overlay = "none"

FreshInv == \A l \in Painters : Fresh(l)

LEMMA OthersFresh ==
  ASSUME BaseInv, BaseInv', [Next]_vars, UNCHANGED loaded, NEW k \in Lookups, Fresh(k),
         round'[k] = Watch(round[k], FALSE)
  PROVE  Fresh(k)'
<1>1. TypeInv /\ TypeInv' /\ round[k] \in RoundType
      /\ (round[k].pc # "idle" => round[k].path \in Paths)
  BY DEF BaseInv, RoundTyped, Typed
<1>2. round'[k].pc = round[k].pc /\ round'[k].path = round[k].path
      /\ round'[k].overlay = round[k].overlay /\ round'[k].first = round[k].first
  BY <1>1, OthersKeep
<1>3. ASSUME round[k].pc # "idle"
      PROVE  Fresh(k)'
  <2>1. PICK p \in Paths : p = round[k].path
    BY <1>1, <1>3
  <2>2. /\ round'[k].during = round[k].during \cup Sources'[p]
        /\ round[k].torn => round'[k].torn
    BY <1>1, <1>3, <2>1, OthersStep
  <2>3. Sources[p] \subseteq round[k].during
    BY <1>3, <2>1 DEF Fresh
  <2>4. ASSUME setBack' = 0
        PROVE  /\ \A e \in LiveEntries'[p] : e[2] \in round'[k].during
               /\ round'[k].first \in round'[k].during \cup {Unasked}
               /\ round[k].pc = "decided" =>
                    \/ \E s \in round'[k].during : round'[k].overlay = Overlay(FlagsOf[s])'
                    \/ round'[k].torn /\ round'[k].overlay = "none"
    <3>1. /\ \A e \in LiveEntries[p] : e[2] \in round[k].during
          /\ round[k].first \in round[k].during \cup {Unasked}
          /\ Decided(k) => \/ \E s \in round[k].during : round[k].overlay = Overlay(FlagsOf[s])
                           \/ round[k].torn /\ round[k].overlay = "none"
      BY <1>1, <1>3, <2>1, <2>4, BoundsStay DEF Fresh
    <3>2. \A e \in LiveEntries'[p] : e \in LiveEntries[p] \/ e[2] \in Sources[p]
      BY <1>1, <2>4, NewEntries
    <3>3. \A f : Overlay(f)' = Overlay(f)
      BY SlotsKept
    <3>. QED
      BY <1>2, <2>2, <2>3, <3>1, <3>2, <3>3 DEF Decided
  <2>. QED
    BY <1>2, <2>1, <2>2, <2>4 DEF Fresh, Decided
<1>. QED
  BY <1>2, <1>3 DEF Fresh

LEMMA StartFresh ==
  ASSUME BaseInv, BaseInv', NEW l \in Lookups, NEW p \in Paths, Follow(l, Started(p)),
         UNCHANGED <<vars, loaded, controlled, online>>
  PROVE  Fresh(l)'
<1>1. Typed(Started(p)) /\ Started(p).pc = "ask" /\ Started(p).path = p
      /\ Started(p).first = Unasked /\ Started(p).during = {e[2] : e \in LiveEntries[p]}
  BY StartedTyped
<1>2. round'[l].pc = "ask" /\ round'[l].path = p /\ round'[l].first = Unasked
      /\ round'[l].during = {e[2] : e \in LiveEntries[p]} \cup Sources'[p]
  BY <1>1, OwnWatch
<1>3. LiveEntries' = LiveEntries
  BY DEF vars, LiveEntries, Live
<1>. QED
  BY <1>2, <1>3 DEF Fresh, Decided

LEMMA MoveFresh ==
  ASSUME BaseInv, BaseInv', [Next]_vars, NEW l \in Lookups, Fresh(l), NEW r, RoundMoves(l, r),
         Follow(l, r), UNCHANGED <<loaded, controlled, online>>
  PROVE  Fresh(l)'
<1>0. TypeInv /\ TypeInv' /\ round[l] \in RoundType /\ Typed(r)
      /\ (round[l].pc # "idle" => round[l].path \in Paths)
  BY MovedTyped DEF BaseInv, RoundTyped, Typed
<1>1. /\ round'[l].pc = r.pc /\ round'[l].path = r.path /\ round'[l].first = r.first
      /\ r.pc # "idle" => round'[l].during = r.during \cup Sources'[r.path]
  BY <1>0, OwnWatch
<1>2. CASE r = NoRound
  BY <1>1, <1>2 DEF Fresh, NoRound
<1>3. CASE r # NoRound
  <2>1. round[l].pc # "idle" /\ r.pc \in {"online", "search", "wait"}
        /\ r.path = round[l].path /\ r.first = round[l].first /\ r.during = round[l].during
    BY <1>0, <1>3 DEF RoundMoves, RoundType
  <2>2. PICK p \in Paths : p = round[l].path
    BY <1>0, <2>1
  <2>3. round'[l].during = round[l].during \cup Sources'[p] /\ Sources[p] \subseteq round[l].during
    BY <1>1, <2>1, <2>2 DEF Fresh
  <2>4. ASSUME setBack' = 0
        PROVE  /\ \A e \in LiveEntries'[p] : e[2] \in round'[l].during
               /\ round'[l].first \in round'[l].during \cup {Unasked}
    <3>1. /\ \A e \in LiveEntries[p] : e[2] \in round[l].during
          /\ round[l].first \in round[l].during \cup {Unasked}
      BY <1>0, <2>1, <2>2, <2>4, BoundsStay DEF Fresh
    <3>2. \A e \in LiveEntries'[p] : e \in LiveEntries[p] \/ e[2] \in Sources[p]
      BY <1>0, <2>4, NewEntries
    <3>. QED
      BY <1>1, <2>1, <2>3, <3>1, <3>2
  <2>. QED
    BY <1>1, <2>1, <2>2, <2>3, <2>4 DEF Fresh, Decided
<1>. QED
  BY <1>2, <1>3

\* What a handler is given was live when the round began, or has been an answer since.
LEMMA GivenFresh ==
  ASSUME BaseInv, BaseInv', [Next]_vars, NEW l \in Lookups, Agree(l), Agree(l)', Fresh(l),
         setBack' = 0 => ~overrun',
         NEW s \in Status, NEW f, RoundGiven(l, s, f), Follow(l, Given(round[l], s, f)),
         UNCHANGED <<loaded, controlled, online>>
  PROVE  Fresh(l)'
<1> DEFINE r == round[l]
           g == Given(r, s, f)
           h == Handlers[r.handler]
<1>1. TypeInv /\ TypeInv' /\ SlotsInv /\ r \in RoundType /\ Typed(r) /\ r.pc \in Pending
      /\ r.path \in Paths /\ r.handler \in 1..7 /\ h \in loaded /\ r.overlay = "none"
      /\ r.pc # "idle"
  BY DEF BaseInv, RoundTyped, Typed, RoundGiven, Pending
<1>2. /\ g.pc \in {"ask", "decided"} /\ g.path = r.path /\ g.during = r.during
      /\ g.first = IF r.first = Unasked THEN s ELSE r.first
      /\ \/ DoesStatusMatch(h, f) /\ g.overlay = h
         \/ g.overlay = "none"
  BY <1>1, GivenIs
<1>3. /\ round'[l].pc = g.pc /\ round'[l].path = g.path /\ round'[l].overlay = g.overlay
      /\ round'[l].first = g.first
      /\ round'[l].during = g.during \cup Sources'[g.path]
  BY <1>1, <1>2, GivenTyped, OwnWatch
<1> HIDE DEF g
<1>4. PICK p \in Paths : p = r.path
  BY <1>1
<1>5. round'[l].during = r.during \cup Sources'[p] /\ Sources[p] \subseteq r.during
  BY <1>1, <1>2, <1>3, <1>4 DEF Fresh
<1>6. ASSUME setBack' = 0
      PROVE  /\ \A e \in LiveEntries'[p] : e[2] \in round'[l].during
             /\ round'[l].first \in round'[l].during \cup {Unasked}
             /\ round'[l].pc = "decided" =>
                  \/ \E x \in round'[l].during : round'[l].overlay = Overlay(FlagsOf[x])'
                  \/ round'[l].torn /\ round'[l].overlay = "none"
  <2>1. /\ \A e \in LiveEntries[p] : e[2] \in r.during
        /\ r.first \in r.during \cup {Unasked}
    BY <1>1, <1>4, <1>6, BoundsStay DEF Fresh
  <2>2. \A e \in LiveEntries'[p] : e \in LiveEntries[p] \/ e[2] \in Sources[p]
    BY <1>1, <1>6, NewEntries
  <2>3. s \in r.during
    <3>1. CASE r.pc \in {"ask", "online"}
      <4>1. s = NoStatus /\ ~(controlled[p] /\ online)
        BY <1>4, <3>1 DEF RoundGiven
      <4>2. s \in Sources[p]
        BY <4>1 DEF Sources
      <4>. QED
        BY <1>5, <4>2
    <3>2. CASE r.pc = "search"
      <4>1. Hits(p) # {} /\ s = Found(p)
        BY <1>4, <3>2 DEF RoundGiven
      <4>2. <<Min(Hits(p)), s>> \in LiveEntries[p]
        BY <1>1, <4>1, FoundTyped
      <4>. QED
        BY <2>1, <4>2
    <3>3. CASE r.pc = "wait"
      <4>1. lookup[l].pc = "answered" /\ lookup[l].path = p /\ s = lookup[l].fileStatus
        BY <1>4, <3>3 DEF RoundGiven, Agree, AddCachedStatus
      <4>2. s \in Sources[p]
        BY <4>1 DEF Sources
      <4>. QED
        BY <1>5, <4>2
    <3>. QED
      BY <1>1, <3>1, <3>2, <3>3 DEF Pending
  <2>4. round'[l].first \in round'[l].during \cup {Unasked}
    BY <1>2, <1>3, <1>5, <2>1, <2>3
  <2>5. \A x : Overlay(x)' = Overlay(x)
    BY SlotsKept
  <2>6. CASE DoesStatusMatch(h, f) /\ g.overlay = h
    <3>1. DoesStatusMatch(h, FlagsOf[s])
      BY <1>1, <2>6, PathStatusDecides DEF RoundGiven
    <3>2. Overlay(FlagsOf[s]) = h
      BY <1>1, <3>1, OverlayIs
    <3>. QED
      BY <1>3, <1>5, <2>1, <2>2, <2>3, <2>4, <2>5, <2>6, <3>2
  <2>7. CASE g.overlay = "none"
    <3>1. ASSUME round'[l].pc = "decided", ~round'[l].torn
          PROVE  \E x \in round'[l].during : round'[l].overlay = Overlay(FlagsOf[x])'
      <4>1. AgreeOf(round[l])'
        BY <1>6, <3>1 DEF Agree
      <4>2. /\ round'[l].first # Unasked
            /\ round'[l].overlay = (Overlay(FlagsOf[round[l].first]))'
        BY <3>1, <4>1 DEF AgreeOf
      <4>3. round'[l].overlay = Overlay(FlagsOf[round'[l].first])
        BY <2>5, <4>2
      <4>. QED
        BY <2>4, <2>5, <4>2, <4>3
    <3>2. round'[l].overlay = "none"
      BY <1>3, <2>7
    <3>3. \A e \in LiveEntries'[p] : e[2] \in round'[l].during
      BY <1>5, <2>1, <2>2
    <3>. QED
      BY <2>4, <3>1, <3>2, <3>3
  <2>. QED
    BY <1>2, <2>6, <2>7
<1>. QED
  BY <1>2, <1>3, <1>4, <1>5, <1>6 DEF Fresh, Decided

LEMMA FreshStep ==
  ASSUME BaseInv, BaseInv', AgreeInv, AgreeInv', WritesInside', FreshInv,
         [OverlayNext]_overlayVars
  PROVE  FreshInv'
<1>0. Painters \subseteq Lookups /\ RoundTyped /\ [Next]_vars
  BY OverlayAssumption, OverlayStepIsCacheStep DEF OverlayAssumption, BaseInv
<1>1. setBack' = 0 => ~overrun'
  BY StatusAssumption DEF WritesInside, StatusAssumption
<1>. SUFFICES ASSUME NEW k \in Painters
              PROVE  Fresh(k)'
  BY DEF FreshInv
<1>2. k \in Lookups /\ Agree(k) /\ Agree(k)' /\ Fresh(k)
  BY <1>0 DEF AgreeInv, FreshInv
<1>3. ASSUME NEW l \in Painters, NEW p \in Paths, StartRound(l, p)
      PROVE  Fresh(k)'
  <2>1. Follow(l, Started(p)) /\ UNCHANGED <<vars, loaded, controlled, online>>
    BY <1>3 DEF StartRound, Started
  <2>2. CASE k = l
    BY <1>2, <2>1, <2>2, StartFresh
  <2>3. CASE k # l
    <3>1. round'[k] = Watch(round[k], FALSE)
      BY <1>2, <2>1, <2>3 DEF Follow
    <3>. QED
      BY <1>0, <1>2, <2>1, <3>1, OthersFresh
  <2>. QED
    BY <2>2, <2>3
<1>4. ASSUME NEW l \in Painters, RoundStep(l)
      PROVE  Fresh(k)'
  <2>1. l \in Lookups
    BY <1>0
  <2>2. UNCHANGED <<loaded, controlled, online>>
    BY <1>4, <2>1, RoundStepIs
  <2>3. CASE k = l
    <3>1. ASSUME NEW r, RoundMoves(l, r), Follow(l, r)
          PROVE  Fresh(l)'
      BY <1>0, <1>2, <2>2, <2>3, <3>1, MoveFresh
    <3>2. ASSUME NEW s \in Status, NEW f, RoundGiven(l, s, f), Follow(l, Given(round[l], s, f))
          PROVE  Fresh(l)'
      BY <1>0, <1>1, <1>2, <2>2, <2>3, <3>2, GivenFresh
    <3>. QED
      BY <1>4, <2>1, <2>3, <3>1, <3>2, RoundStepIs
  <2>4. CASE k # l
    <3>1. \E r : Follow(l, r)
      BY <1>4, <2>1, RoundStepIs
    <3>2. round'[k] = Watch(round[k], FALSE)
      BY <1>2, <2>4, <3>1 DEF Follow
    <3>. QED
      BY <1>0, <1>2, <2>2, <3>2, OthersFresh
  <2>. QED
    BY <2>3, <2>4
<1>5. CASE UseCache \/ ChangeRoute
  <2>1. UNCHANGED loaded /\ round'[k] = Watch(round[k], FALSE)
    BY <1>2, <1>5 DEF UseCache, Meanwhile, ChangeRoute
  <2>. QED
    BY <1>0, <1>2, <2>1, OthersFresh
<1>6. CASE UNCHANGED overlayVars
  <2>1. Sources' = Sources /\ LiveEntries' = LiveEntries
    BY <1>6 DEF overlayVars, vars, Sources, LiveEntries, Live
  <2>2. \A f : Overlay(f)' = Overlay(f)
    BY <1>6, SlotsKept DEF overlayVars
  <2>3. round' = round /\ setBack' = setBack
    BY <1>6 DEF overlayVars, vars
  <2>. QED
    BY <1>2, <2>1, <2>2, <2>3 DEF Fresh, Decided
<1>. QED
  BY <1>3, <1>4, <1>5, <1>6 DEF OverlayNext

\* IconOverlay!RoundIsFresh: whatever other threads ask, add and clear meanwhile.
THEOREM RoundIsFreshHolds == OverlaySpec => []RoundIsFresh
<1>1. OverlayInit => FreshInv
  <2>. SUFFICES ASSUME OverlayInit, NEW l \in Painters
                PROVE  round[l].pc = "idle"
    BY DEF FreshInv, Fresh
  <2>. QED
    BY OverlayAssumption DEF OverlayInit, NoRound, OverlayAssumption
<1>2. BaseInv /\ BaseInv' /\ AgreeInv /\ AgreeInv' /\ WritesInside' /\ FreshInv
        /\ [OverlayNext]_overlayVars => FreshInv'
  BY FreshStep
<1>3. FreshInv => RoundIsFresh
  BY DEF FreshInv, Fresh, RoundIsFresh, Decided
<1>. QED
  BY <1>1, <1>2, <1>3, BaseInvHolds, AgreeInvHolds, OverlayIsCache, WritesInsideHolds, PTL
     DEF OverlaySpec

=============================================================================
