---------------------------- MODULE IconOverlay ----------------------------
(***************************************************************************)
(* TortoiseShell/IconOverlay.cpp over StatusCache: Explorer paints the     *)
(* icon of a file.  There is one COM object per overlay; Explorer asks     *)
(* them in the order of their priorities whether the file is theirs, and   *)
(* paints the overlay of the first that says so.  Each of them looks up    *)
(* the status for itself, so what makes a round of questions agree with    *)
(* itself is the status cache, and the handler that is shown clears the    *)
(* file from it.  The threads that paint share the cache with others: a    *)
(* round is a sequence of steps of StatusCache between which any thread    *)
(* may search, add or clear, for the same file too.  The file's status,    *)
(* the connection and the root folders change when they like.              *)
(***************************************************************************)
EXTENDS StatusCache, Sequences

CONSTANTS
  Painters,     \* the threads of Explorer that paint, and whose rounds are followed
  FlagsOf,      \* FlagsOf[s]: the flags of a status
  Loadings      \* the sets of overlays Explorer may have slots for

VARIABLES
  loaded,       \* overlays Explorer had a slot for: the g_...ovlloaded flags
  controlled,   \* isPathControlled of a file
  online,       \* isOnline
  round,        \* round[l]: the file thread l asks about, the handler, its progress
  shown         \* shown[p]: the overlay Explorer has painted last, or "none"

overlayVars == <<vars, loaded, controlled, online, round, shown>>

----------------------------------------------------------------------------
Flags == {"Member", "FormerMember", "Incoming", "Locked", "Add", "Drop", "Modified",
          "Moved", "Renamed", "MergeNeeded", "File", "Ignored"}

\* The handlers of which GetPriority says S_OK, in its order.
Handlers == <<"Conflict", "Modified", "Deleted", "ReadOnly", "Locked", "Added", "Versioned">>
HandlerSet == {Handlers[i] : i \in 1..Len(Handlers)}

\* The comment in doesStatusMatch: "we assume that at least the 'normal' and 'modified'
\* overlay are available".
ASSUME OverlayAssumption ==
  /\ Painters \subseteq Lookups
  /\ FlagsOf \in [Status -> SUBSET Flags] /\ FlagsOf[NoStatus] = {}
  /\ \A slots \in Loadings : slots \subseteq HandlerSet /\ {"Versioned", "Modified"} \subseteq slots

\* doesStatusMatch: the first rule one of whose flags the status has decides; the
\* handler of a rule with a substitute gives way to `Modified' when it has no slot.
Rule(flags, handler, substitute) ==
  [flags |-> flags, handler |-> handler, substitute |-> substitute]
Rules ==
  <<Rule({"Locked"}, "Locked", TRUE),
    Rule({"Incoming"}, "Conflict", TRUE),
    Rule({"FormerMember"}, "Deleted", TRUE),
    Rule({"Modified", "Moved", "Renamed", "MergeNeeded"}, "Modified", FALSE),
    Rule({"Drop"}, "Deleted", TRUE),
    Rule({"Add"}, "Added", TRUE),
    Rule({"Member"}, "Versioned", FALSE)>>
Deciding(flags) == {i \in 1..Len(Rules) : Rules[i].flags \cap flags # {}}

\* Mutant: `Modified' stands in for an overlay that has a slot as well.
DoesStatusMatchTwice(handler, flags) ==
  /\ Deciding(flags) # {}
  /\ LET rule == Rules[Min(Deciding(flags))] IN
     handler = rule.handler \/ (rule.substitute /\ handler = "Modified")

DoesStatusMatch(handler, flags) ==
  /\ Deciding(flags) # {}
  /\ LET rule == Rules[Min(Deciding(flags))] IN
     \/ /\ rule.handler \in loaded \/ ~rule.substitute
        /\ handler = rule.handler
     \/ /\ rule.handler \notin loaded /\ rule.substitute
        /\ handler = "Modified"

Matching(flags) == {h \in loaded : DoesStatusMatch(h, flags)}
Overlay(flags) == IF Matching(flags) = {} THEN "none" ELSE CHOOSE h \in Matching(flags) : TRUE

----------------------------------------------------------------------------
\* The history of a round is part of it: first, the status the first handler was given;
\* during, the statuses a handler may have been given; torn.
Unasked == 0 - 1
NoRound == [pc |-> "idle", path |-> NoPath, handler |-> 0, overlay |-> "none",
            first |-> Unasked, during |-> {}, torn |-> FALSE]

LiveEntries == [p \in Paths |->
  {<<i, cachedStatus[i].fileStatus>> : i \in {i \in Slots : Live(i, p)}}]

\* What getPathStatus can learn of a file now otherwise than from an entry: what the
\* client would say, what it has said to a thread, nothing when it is not asked.
Sources == [p \in Paths |->
  {actual[p]} \cup {lookup[k].fileStatus : k \in {k \in Lookups : /\ lookup[k].pc = "answered"
                                                                 /\ lookup[k].path = p}}
    \cup IF controlled[p] /\ online THEN {} ELSE {NoStatus}]

\* A round is torn by a change of the way to the status, and by every change of the live
\* entries of its file that it has not made itself: one that another thread adds or
\* clears, that another file takes, that expires or that comes alive again.
Watch(r, mine) ==
  IF r.pc = "idle" THEN r
  ELSE [r EXCEPT
         !.during = @ \cup Sources'[r.path],
         !.torn = @ \/ controlled'[r.path] # controlled[r.path] \/ online' # online
                    \/ (~mine /\ LiveEntries'[r.path] # LiveEntries[r.path])]

Follow(l, r) ==
  round' = [k \in Lookups |-> IF k = l THEN Watch(r, TRUE) ELSE Watch(round[k], FALSE)]

OverlayInit ==
  /\ Init
  /\ loaded \in Loadings
  /\ controlled \in [Paths -> BOOLEAN] /\ online \in BOOLEAN
  /\ round = [l \in Lookups |-> NoRound]
  /\ shown = [p \in Paths |-> "none"]

----------------------------------------------------------------------------
\* The next handler Explorer has a slot for, 0 after the last.
NextHandler(i) ==
  LET later == {j \in (i + 1)..Len(Handlers) : Handlers[j] \in loaded}
  IN IF later = {} THEN 0 ELSE Min(later)

\* The handler has got its status: S_OK ends the round, S_FALSE leads to the next one.
Given(r, status, flags) ==
  LET asked == [r EXCEPT !.first = IF @ = Unasked THEN status ELSE @]
      next  == NextHandler(r.handler)
  IN IF DoesStatusMatch(Handlers[r.handler], flags)
     THEN [asked EXCEPT !.pc = "decided", !.overlay = Handlers[r.handler]]
     ELSE IF next = 0 THEN [asked EXCEPT !.pc = "decided"]
     ELSE [asked EXCEPT !.pc = "ask", !.handler = next]

\* Mutant: a status that is not 0 is taken for Ignored.
PathStatusInverted(status) ==
  (IF FlagsOf[status] # {} THEN {"Ignored"} ELSE FlagsOf[status]) \cup {"File"}

\* getPathStatus of a controlled file on a fixed drive: a status of 0 becomes Ignored.
PathStatus(status) ==
  (IF FlagsOf[status] = {} THEN {"Ignored"} ELSE FlagsOf[status]) \cup {"File"}

StartRound(l, p) ==
  /\ round[l].pc = "idle"
  /\ UNCHANGED <<vars, loaded, controlled, online, shown>>
  /\ Follow(l, [NoRound EXCEPT !.pc = "ask", !.path = p, !.handler = NextHandler(0),
                               !.during = {e[2] : e \in LiveEntries[p]}])

\* isPathControlled.
IsPathControlled(l) ==
  /\ round[l].pc = "ask"
  /\ UNCHANGED <<vars, loaded, controlled, online, shown>>
  /\ Follow(l, IF controlled[round[l].path] THEN [round[l] EXCEPT !.pc = "online"]
               ELSE Given(round[l], NoStatus, {"File"}))

\* getFileStatus: isOnline, the search, the command, the insertion.
IsOnline(l) ==
  /\ round[l].pc = "online"
  /\ UNCHANGED <<vars, loaded, controlled, online, shown>>
  /\ Follow(l, IF online THEN [round[l] EXCEPT !.pc = "search"]
               ELSE Given(round[l], NoStatus, PathStatus(NoStatus)))

SearchCache(l) ==
  /\ round[l].pc = "search"
  /\ GetFileStatus(l, round[l].path)
  /\ UNCHANGED <<loaded, controlled, online, shown>>
  /\ Follow(l, IF lookup' # lookup THEN [round[l] EXCEPT !.pc = "wait"]
               ELSE Given(round[l], Found(round[l].path), PathStatus(Found(round[l].path))))

AskClient(l) ==
  /\ round[l].pc = "wait"
  /\ FileInfo(l)
  /\ UNCHANGED <<loaded, controlled, online, shown>>
  /\ Follow(l, round[l])

AddAnswer(l) ==
  /\ round[l].pc = "wait"
  /\ AddCachedStatus(l)
  /\ UNCHANGED <<loaded, controlled, online, shown>>
  /\ Follow(l, Given(round[l], lookup[l].fileStatus, PathStatus(lookup[l].fileStatus)))

\* The handler that says S_OK has cleared the file, and Explorer paints its overlay.
PaintOverlay(l) ==
  /\ round[l].pc = "decided"
  /\ IF /\ round[l].overlay # "none"
        /\ \E i \in Slots : cachedStatus[i].path = round[l].path
     THEN ClearPath(round[l].path) ELSE UNCHANGED vars
  /\ shown' = [shown EXCEPT ![round[l].path] = round[l].overlay]
  /\ UNCHANGED <<loaded, controlled, online>>
  /\ Follow(l, NoRound)

RoundStep(l) == \/ IsPathControlled(l) \/ IsOnline(l) \/ SearchCache(l)
                \/ AskClient(l) \/ AddAnswer(l) \/ PaintOverlay(l)

----------------------------------------------------------------------------
\* What else happens to the cache: lookups of other threads, handlers that clear a
\* file in them, the commands of the menu, the clock, and the files.
CacheStep ==
  \/ \E l \in Lookups \ Painters :
       (\E p \in Paths : GetFileStatus(l, p)) \/ FileInfo(l) \/ AddCachedStatus(l)
  \/ \E p \in Paths : ClearPath(p) \/ StatusChange(p)
  \/ Clear \/ Tick \/ SetClockBack

Meanwhile == /\ UNCHANGED <<loaded, controlled, online, shown>>
             /\ round' = [k \in Lookups |-> Watch(round[k], FALSE)]
UseCache == CacheStep /\ Meanwhile

ChangeRoute ==
  /\ \/ online' = ~online /\ UNCHANGED controlled
     \/ /\ \E p \in Paths : controlled' = [controlled EXCEPT ![p] = ~@]
        /\ UNCHANGED online
  /\ UNCHANGED <<vars, loaded, shown>>
  /\ round' = [k \in Lookups |-> Watch(round[k], FALSE)]

OverlayNext ==
  \/ \E l \in Painters : (\E p \in Paths : StartRound(l, p)) \/ RoundStep(l)
  \/ UseCache \/ ChangeRoute

OverlaySpec == OverlayInit /\ [][OverlayNext]_overlayVars

\* A round goes on, Explorer paints every file again and again, and the clock runs.
OverlayFairness ==
  /\ \A l \in Painters : WF_overlayVars(RoundStep(l))
  /\ \A p \in Paths : SF_overlayVars(\E l \in Painters : StartRound(l, p))
  /\ WF_overlayVars(Tick /\ Meanwhile)

FairOverlaySpec == OverlaySpec /\ OverlayFairness

----------------------------------------------------------------------------
\* The comment on doesStatusMatch, "So we return S_OK for ONLY ONE handler!", for every
\* set of flags and every set of slots; and a file with the status of a member gets
\* one, the substitute when it has to be.
OnlyOneHandler ==
  \A s \in Status :
    /\ \A g \in HandlerSet : DoesStatusMatch(g, FlagsOf[s]) =>
         \A h \in HandlerSet \ {g} : ~DoesStatusMatch(h, FlagsOf[s])
    /\ Deciding(FlagsOf[s]) # {} => Matching(FlagsOf[s]) # {}

Decided(l) == round[l].pc = "decided"

\* The handlers of one round agree: unless it was torn, the overlay painted is that of
\* the status the first handler was given, however the file and the entries of other
\* files have changed meanwhile.  This is what the cache is for.
RoundAgrees ==
  \A l \in Painters :
    Decided(l) /\ ~round[l].torn /\ ~overrun
      => round[l].overlay = Overlay(FlagsOf[round[l].first])

\* No round paints what is older than the live entries and the answers there were when
\* it began: its overlay is one of a status that was in an entry then, or that the
\* client reported or would have reported since, or none if it was torn.  (A clock set
\* back brings older entries to life.)
RoundIsFresh ==
  setBack = 0 =>
    \A l \in Painters :
      Decided(l) => \/ \E s \in round[l].during : round[l].overlay = Overlay(FlagsOf[s])
                    \/ round[l].torn /\ round[l].overlay = "none"

\* What the answers would be if every handler were asked now, of the reported status.
Now(p) == IF controlled[p] /\ online THEN Overlay(FlagsOf[actual[p]]) ELSE "none"

\* When nothing changes any more, the right overlay is painted in the end, although a
\* round without overlay leaves its entry and other threads add older ones.
OverlaySettles ==
  <>[][FALSE]_<<actual, controlled, online>> => \A p \in Paths : <>[](shown[p] = Now(p))

=============================================================================
