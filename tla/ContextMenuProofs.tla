------------------------ MODULE ContextMenuProofs ------------------------
(***************************************************************************)
(* For any handlers, windows, selections and ids: a menu has one popup of  *)
(* the extension, its items run what they show, by id and by verb, and a   *)
(* click on a pattern changes the filter as its submenu says.  For any     *)
(* names, folders and spellings: the paths that the menu is opened on, and *)
(* that its commands act upon, are compared by what they name.             *)
(*                                                                         *)
(* The test for a popup comes long before its insertion, so the first      *)
(* invariant has to say that in between no other handler of the window     *)
(* gets a popup in: only one of them is inside a call, and the menu is     *)
(* without popup as long as it is.  The second one says for each handler,  *)
(* from the first item of a menu to its closing, that whatever it still    *)
(* registers lies at offsets and ids other than those of the items shown,  *)
(* and that a pattern registered again, by one that is not listed, comes   *)
(* with the command of that pattern.                                       *)
(*                                                                         *)
(* Paths need an invariant that says no more than what the two lists were  *)
(* fetched from; the argument is in the lemmas.  A folder string, which    *)
(* ends with the separator, begins another one exactly when its names      *)
(* begin the other names (BeginsIffAbove): at the first name that differs, *)
(* both strings go on from the same place, and a name has no separator by  *)
(* which one of two could end before the other.  What the tests find is    *)
(* that the lower-case names lie beneath each other (Beneath), which is    *)
(* between the sandboxes a place is Visible in and those Around it.        *)
(***************************************************************************)
EXTENDS ContextMenu, PathControl, FiniteSetTheorems, SequenceTheorems, WellFoundedInduction, TLAPS

Inside(h) == building[h].item # "none"

\* A submenu under construction, as far as its fields go.
Fields == {"item", "left", "assigned", "verb", "first", "next", "seen"}
IsBuilding(b) == DOMAIN b = Fields /\ b = [f \in Fields |-> b[f]]

PopupsTyped ==
  /\ popups \in [Windows -> Seq(Handlers)]
  /\ DOMAIN building = Handlers
  /\ building = [h \in Handlers |-> building[h]]
  /\ \A h \in Handlers : IsBuilding(building[h])

OneInside ==
  \A g, h \in Handlers : WindowOf[g] = WindowOf[h] /\ Inside(g) /\ Inside(h) => g = h

InsideBeforePopup == \A h \in Handlers : Inside(h) => popups[WindowOf[h]] = <<>>

PopupInv == PopupsTyped /\ OneInside /\ InsideBeforePopup /\ OnePopup

LEMMA WindowOfType == ASSUME NEW h \in Handlers PROVE WindowOf[h] \in Windows
  BY MenuAssumption

LEMMA PopupInvInit == Init => PopupInv
<1> SUFFICES ASSUME Init PROVE PopupInv
  OBVIOUS
<1>0. popups = [w \in Windows |-> <<>>] /\ building = [h \in Handlers |-> Nothing]
  BY DEF Init
<1>1. PopupsTyped
  <2>1. popups \in [Windows -> Seq(Handlers)]
    BY <1>0
  <2>2. IsBuilding(Nothing)
    BY DEF IsBuilding, Fields, Nothing
  <2> QED
    BY <1>0, <2>1, <2>2 DEF PopupsTyped
<1>2. OneInside /\ InsideBeforePopup
  BY <1>0 DEF OneInside, InsideBeforePopup, Inside, Nothing
<1>3. OnePopup
  <2>1. \A w \in Windows : popups[w] = <<>>
    BY <1>0
  <2>2. Len(<<>>) <= 1
    OBVIOUS
  <2> QED
    BY <2>1, <2>2 DEF OnePopup
<1> QED
  BY <1>1, <1>2, <1>3 DEF PopupInv

\* A handler that begins a call in an idle window without popup keeps the invariant, whether
\* the call ends with its popup at once or goes on with a submenu.
LEMMA Entering ==
  ASSUME PopupInv, NEW h \in Handlers, NEW b, IsBuilding(b),
         building' = [building EXCEPT ![h] = b],
         Idle(WindowOf[h]), popups[WindowOf[h]] = <<>>,
         popups' = IF b.item = "none"
                   THEN [popups EXCEPT ![WindowOf[h]] = Append(@, h)] ELSE popups
  PROVE  PopupInv'
<1> USE WindowOfType
<1>1. PopupsTyped'
  <2>1. CASE b.item = "none"
    <3>1. popups' \in [Windows -> Seq(Handlers)]
      BY <2>1 DEF PopupInv, PopupsTyped
    <3> QED
      BY <3>1 DEF PopupInv, PopupsTyped, IsBuilding
  <2>2. CASE b.item # "none"
    BY <2>2 DEF PopupInv, PopupsTyped, IsBuilding
  <2> QED
    BY <2>1, <2>2
<1>2. \A g \in Handlers : building'[g] = IF g = h THEN b ELSE building[g]
  BY DEF PopupInv, PopupsTyped
<1>3. \A g \in Handlers : WindowOf[g] = WindowOf[h] => ~Inside(g)
  BY DEF Idle, Inside
<1>4. OneInside'
  BY <1>2, <1>3 DEF PopupInv, OneInside, Inside
<1>5. InsideBeforePopup'
  BY <1>2, <1>3 DEF PopupInv, PopupsTyped, InsideBeforePopup, Inside
<1>6. OnePopup'
  BY DEF PopupInv, PopupsTyped, OnePopup
<1> QED
  BY <1>1, <1>4, <1>5, <1>6 DEF PopupInv

\* So does one that changes other fields of its submenu than the item,
LEMMA Staying ==
  ASSUME PopupInv, NEW h \in Handlers, NEW b, IsBuilding(b),
         building' = [building EXCEPT ![h] = b], b.item = building[h].item,
         UNCHANGED popups
  PROVE  PopupInv'
<1>1. PopupsTyped'
  BY DEF PopupInv, PopupsTyped, IsBuilding
<1>2. \A g \in Handlers : building'[g].item = building[g].item
  BY DEF PopupInv, PopupsTyped
<1> QED
  BY <1>1, <1>2 DEF PopupInv, OneInside, InsideBeforePopup, OnePopup, Inside

\* one that ends its call by inserting the popup,
LEMMA Leaving ==
  ASSUME PopupInv, NEW h \in Handlers, Inside(h), NEW b, IsBuilding(b), b.item = "none",
         building' = [building EXCEPT ![h] = b],
         popups' = [popups EXCEPT ![WindowOf[h]] = Append(@, h)]
  PROVE  PopupInv'
<1> USE WindowOfType
<1>1. PopupsTyped'
  <2>1. Append(popups[WindowOf[h]], h) \in Seq(Handlers)
    BY DEF PopupInv, PopupsTyped
  <2>2. popups' \in [Windows -> Seq(Handlers)]
    BY <2>1 DEF PopupInv, PopupsTyped
  <2>3. /\ DOMAIN building' = Handlers
        /\ building' = [g \in Handlers |-> building'[g]]
        /\ \A g \in Handlers : building'[g] = IF g = h THEN b ELSE building[g]
    BY DEF PopupInv, PopupsTyped
  <2>4. \A g \in Handlers : IsBuilding(building[g])
    BY DEF PopupInv, PopupsTyped
  <2>5. \A g \in Handlers : IsBuilding(building'[g])
    BY <2>3, <2>4
  <2> QED
    BY <2>2, <2>3, <2>5 DEF PopupsTyped
<1>2. \A g \in Handlers : building'[g] = IF g = h THEN b ELSE building[g]
  BY DEF PopupInv, PopupsTyped
<1>3. OneInside'
  BY <1>2 DEF PopupInv, OneInside, Inside
<1>4. \A g \in Handlers : g # h /\ WindowOf[g] = WindowOf[h] => ~Inside(g)
  BY DEF PopupInv, OneInside
<1>5. InsideBeforePopup'
  BY <1>2, <1>4 DEF PopupInv, PopupsTyped, InsideBeforePopup, Inside
<1>6. popups[WindowOf[h]] = <<>>
  BY DEF PopupInv, InsideBeforePopup
<1>7. OnePopup'
  BY <1>6 DEF PopupInv, PopupsTyped, OnePopup
<1> QED
  BY <1>1, <1>3, <1>5, <1>7 DEF PopupInv

\* and the closing of a menu.
LEMMA Closing == ASSUME PopupInv, NEW w \in Windows, Close(w) PROVE PopupInv'
<1> USE DEF Close
<1>1. PopupsTyped'
  BY DEF PopupInv, PopupsTyped
<1>2. OneInside' /\ InsideBeforePopup'
  BY WindowOfType DEF PopupInv, PopupsTyped, OneInside, InsideBeforePopup, Inside
<1>3. OnePopup'
  BY DEF PopupInv, PopupsTyped, OnePopup
<1> QED
  BY <1>1, <1>2, <1>3 DEF PopupInv

LEMMA PopupInvNext == PopupInv /\ [Next]_vars => PopupInv'
<1> SUFFICES ASSUME PopupInv, [Next]_vars PROVE PopupInv'
  OBVIOUS
<1>1. ASSUME NEW h \in Handlers, NEW s \in Selected, NEW first \in FirstIds,
             QueryContextMenu(h, s, first)
      PROVE  PopupInv'
  <2> DEFINE plain == ItemsOf[s]
             with(seen) ==
               [Nothing EXCEPT !.item = plain.submenu, !.first = first, !.next = plain.next,
                               !.seen = seen,
                               !.left = IF plain.submenu = "none" THEN <<>>
                                        ELSE PatternsOf[Head(s.paths)]]
  <2>1. PICK seen : building' = [building EXCEPT ![h] = with(seen)]
    BY <1>1 DEF QueryContextMenu
  <2>2. IsBuilding(with(seen)) /\ with(seen).item = plain.submenu
    BY DEF IsBuilding, Fields, Nothing
  <2>3. popups' = IF with(seen).item = "none"
                  THEN [popups EXCEPT ![WindowOf[h]] = Append(@, h)] ELSE popups
    BY <1>1, <2>2 DEF QueryContextMenu
  <2>4. Idle(WindowOf[h]) /\ popups[WindowOf[h]] = <<>>
    BY <1>1 DEF QueryContextMenu, NoPopup
  <2> HIDE DEF with
  <2> QED
    BY <2>1, <2>2, <2>3, <2>4, Entering
<1>2. ASSUME NEW h \in Handlers, AssignCommand(h) PROVE PopupInv'
  <2> DEFINE b == building[h]
             listed == [b EXCEPT !.assigned = TRUE, !.verb = Head(b.left)]
             unlisted == [b EXCEPT !.assigned = TRUE]
  <2>1. IsBuilding(b)
    BY DEF PopupInv, PopupsTyped
  <2>2. IsBuilding(listed) /\ listed.item = b.item /\ IsBuilding(unlisted) /\ unlisted.item = b.item
    BY <2>1 DEF IsBuilding, Fields
  <2>3. \/ building' = [building EXCEPT ![h] = listed]
        \/ building' = [building EXCEPT ![h] = unlisted]
    BY <1>2 DEF AssignCommand, PopupInv, PopupsTyped
  <2>4. UNCHANGED popups
    BY <1>2 DEF AssignCommand
  <2> HIDE DEF listed, unlisted
  <2> QED
    BY <2>2, <2>3, <2>4, Staying
<1>3. ASSUME NEW h \in Handlers, InsertPattern(h) PROVE PopupInv'
  <2> DEFINE b == building[h]
             c == [b EXCEPT !.assigned = FALSE, !.left = Tail(b.left), !.next = @ + 1]
  <2>1. IsBuilding(b)
    BY DEF PopupInv, PopupsTyped
  <2>2. IsBuilding(c) /\ c.item = b.item
    BY <2>1 DEF IsBuilding, Fields
  <2>3. building' = [building EXCEPT ![h] = c] /\ UNCHANGED popups
    BY <1>3 DEF InsertPattern, PopupInv, PopupsTyped
  <2> HIDE DEF c
  <2> QED
    BY <2>2, <2>3, Staying
<1>4. ASSUME NEW h \in Handlers, InsertSubmenu(h) PROVE PopupInv'
  <2> DEFINE b == building[h]
             c == [b EXCEPT !.item = "none", !.next = @ + 1]
  <2>1. IsBuilding(b)
    BY DEF PopupInv, PopupsTyped
  <2>2. IsBuilding(c) /\ c.item = "none"
    BY <2>1 DEF IsBuilding, Fields
  <2>3. /\ building' = [building EXCEPT ![h] = c]
        /\ popups' = [popups EXCEPT ![WindowOf[h]] = Append(@, h)]
        /\ Inside(h)
    BY <1>4 DEF InsertSubmenu, Inside, PopupInv, PopupsTyped
  <2> HIDE DEF c
  <2> QED
    BY <2>2, <2>3, Leaving
<1>5. ASSUME NEW h \in Handlers, NEW id, InvokeCommand(h, id) PROVE PopupInv'
  BY <1>5, WindowOfType, Closing DEF InvokeCommand
<1>6. ASSUME NEW w \in Windows, Close(w) PROVE PopupInv'
  BY <1>6, Closing
<1>7. ASSUME UNCHANGED <<building, popups>> PROVE PopupInv'
  BY <1>7 DEF PopupInv, PopupsTyped, OneInside, InsideBeforePopup, OnePopup, Inside
<1>8. ASSUME NEW u \in writes, SetExcludeFilter(u) PROVE PopupInv'
  BY <1>7, <1>8 DEF SetExcludeFilter
<1>9. ASSUME UNCHANGED vars PROVE PopupInv'
  BY <1>7, <1>9 DEF vars
<1> QED
  BY <1>1, <1>2, <1>3, <1>4, <1>5, <1>6, <1>8, <1>9 DEF Next

\* "check if we already added our menu entry for a folder": whatever handlers Explorer asks
\* to extend a menu, and however often, the menu gets one popup.
THEOREM OnePopupHolds == Spec => []OnePopup
<1>1. Init => PopupInv
  BY PopupInvInit
<1>2. PopupInv /\ [Next]_vars => PopupInv'
  BY PopupInvNext
<1>3. PopupInv => OnePopup
  BY DEF PopupInv
<1> QED
  BY <1>1, <1>2, <1>3, PTL DEF Spec

----------------------------------------------------------------------------
(* What an open menu shows, what its ids and verbs lead to.                 *)

LEMMA TablePlaces ==
  /\ DOMAIN Table = 1 .. 38
  /\ \A i \in 1 .. 38 : Table[i] \in Submenus <=> i > 36
<1>1. DOMAIN Table = 1 .. 38
  BY DEF Table
<1>2. \A i \in 1 .. 36 : Table[i] \notin Submenus
  BY DEF Table, Submenus
<1>3. \A i \in 37 .. 38 : Table[i] \in Submenus
  BY DEF Table, Submenus
<1> QED
  BY <1>1, <1>2, <1>3

Positions(S, i) == {j \in S : j <= i}

LEMMA PositionsFinite ==
  ASSUME NEW S \in SUBSET (1 .. 38)
  PROVE  /\ IsFiniteSet(S) /\ Cardinality(S) \in Nat
         /\ \A T \in SUBSET S : IsFiniteSet(T) /\ Cardinality(T) \in 0 .. Cardinality(S)
<1>1. IsFiniteSet(1 .. 38)
  <2>1. 1 \in Int /\ 38 \in Int
    OBVIOUS
  <2> QED
    BY <2>1, FS_Interval
<1>2. IsFiniteSet(S) /\ Cardinality(S) \in Nat
  BY <1>1, FS_Subset, FS_CardinalityType
<1>3. ASSUME NEW T \in SUBSET S
      PROVE  IsFiniteSet(T) /\ Cardinality(T) \in 0 .. Cardinality(S)
  <2>1. IsFiniteSet(T) /\ Cardinality(T) <= Cardinality(S)
    BY <1>2, FS_Subset
  <2>2. Cardinality(T) \in Nat
    BY <2>1, FS_CardinalityType
  <2> QED
    BY <1>2, <2>1, <2>2
<1> QED
  BY <1>2, <1>3

\* Offsets of items lie before the offset at which the submenu, or nothing, follows.
LEMMA OffsetBelowNext ==
  ASSUME NEW S \in SUBSET (1 .. 38),
         NEW i \in S, Table[i] \notin Submenus
  PROVE  LET plain == {j \in S : Table[j] \notin Submenus}
             next  == Cardinality(plain) + Cardinality(Separated(S)) + 1
         IN next \in Nat /\ Offset(S, i) \in 1 .. (next - 1)
<1> DEFINE plain == {j \in S : Table[j] \notin Submenus}
<1>1. i <= 36
  BY TablePlaces
<1>2. Positions(S, i) \in SUBSET plain /\ plain \in SUBSET S
  <2>1. ASSUME NEW j \in S, j <= i PROVE Table[j] \notin Submenus
    BY <1>1, <2>1, TablePlaces
  <2> QED
    BY <2>1 DEF Positions
<1>3. Separated(S) \in SUBSET S
  BY DEF Separated
<1>4. Positions(Separated(S), i) \in SUBSET Separated(S)
  BY DEF Positions
<1>5. IsFiniteSet(plain) /\ Cardinality(plain) \in Nat
  BY <1>2, PositionsFinite
<1>6. IsFiniteSet(Separated(S)) /\ Cardinality(Separated(S)) \in Nat
  BY <1>3, PositionsFinite
<1>7. /\ Cardinality(Positions(S, i)) \in 0 .. Cardinality(plain)
      /\ Cardinality(Positions(Separated(S), i)) \in 0 .. Cardinality(Separated(S))
  BY <1>2, <1>3, <1>4, <1>5, <1>6, FS_Subset, FS_CardinalityType
<1>8. Cardinality(Positions(S, i)) # 0
  <2>1. i \in Positions(S, i)
    BY DEF Positions
  <2>2. IsFiniteSet(Positions(S, i))
    BY <1>2, <1>5, FS_Subset
  <2> QED
    BY <2>1, <2>2, FS_EmptySet
<1>9. Offset(S, i) = Cardinality(Positions(S, i)) + Cardinality(Positions(Separated(S), i))
  BY DEF Offset, Positions
<1> QED
  BY <1>5, <1>6, <1>7, <1>8, <1>9

\* What is selected alone is a file or a folder.
LEMMA SingleStatus ==
  ASSUME NEW s \in Selected, Single(s)
  PROVE  ~({"File", "Folder"} \subseteq ItemsStatus(s))
<1>1. CASE s.paths = <<>>
  BY <1>1 DEF ItemsStatus
<1>2. CASE s.paths # <<>>
  <2>1. PICK paths \in Selections \ {<<>>} : \E reply \in [Range(paths) -> Statuses] :
          s = [paths |-> paths, status |-> UNION Range(reply), folder |-> "none"]
    BY <1>2 DEF Selected
  <2>a. PICK reply \in [Range(paths) -> Statuses] :
          s = [paths |-> paths, status |-> UNION Range(reply), folder |-> "none"]
    BY <2>1
  <2>2. paths \in Seq(Paths) /\ Len(paths) = 1
    <3>1. paths \in Seq(Paths) /\ paths # <<>>
      BY MenuAssumption
    <3>2. Len(paths) <= 1
      BY <2>a DEF Single
    <3>3. Len(paths) \in Nat \ {0}
      BY <3>1, EmptySeq
    <3>4. \A n \in Nat \ {0} : n <= 1 => n = 1
      OBVIOUS
    <3> QED
      BY <3>1, <3>2, <3>3, <3>4, Zenon
  <2>3. Range(paths) = {paths[1]}
    BY <2>2 DEF Range
  <2>4. Range(reply) = {reply[paths[1]]}
    BY <2>3 DEF Range
  <2>5. ItemsStatus(s) = reply[paths[1]]
    BY <1>2, <2>a, <2>4 DEF ItemsStatus
  <2> QED
    BY <2>3, <2>5, MenuAssumption
<1> QED
  BY <1>1, <1>2

\* What can be in a menu before its submenu: items of the table that run themselves, no
\* two of the same text unless they are the same, at offsets below the next.
LEMMA ItemsShown ==
  ASSUME NEW s \in Selected
  PROVE  LET plain == ItemsOf[s]
         IN /\ plain.next \in Nat \ {0}
            /\ plain.submenu \in Submenus \cup {"none"}
            /\ DOMAIN plain.items \subseteq 1 .. (plain.next - 1)
            /\ \A k \in DOMAIN plain.items :
                 \E item \in Range(Table) \ Submenus : 
                    plain.items[k] = Entry(item, item)
            /\ \A k, l \in DOMAIN plain.items :
                 Text(plain.items[k].item) = Text(plain.items[l].item)
                   => plain.items[k] = plain.items[l]
<1> DEFINE S     == Inserted(s)
           plain == {i \in S : Table[i] \notin Submenus}
           next  == Cardinality(plain) + Cardinality(Separated(S)) + 1
           at(k) == CHOOSE i \in plain : Offset(S, i) = k
           items == [k \in {Offset(S, i) : i \in plain} |-> Entry(Table[at(k)], Table[at(k)])]
<1>1. S \in SUBSET (1 .. 38)
  BY TablePlaces DEF Inserted
<1>2. /\ ItemsOf[s].items = items
      /\ ItemsOf[s].next = next
      /\ ItemsOf[s].submenu = IF S = plain THEN "none" ELSE Table[CHOOSE i \in S \ plain : TRUE]
  BY DEF ItemsOf
<1>3. next \in Nat \ {0}
  BY <1>1, PositionsFinite DEF Separated
<1>4. ItemsOf[s].submenu \in Submenus \cup {"none"}
  BY <1>2
<1>5. \A k \in DOMAIN items : at(k) \in plain /\ items[k] = Entry(Table[at(k)], Table[at(k)])
  OBVIOUS
<1>6. DOMAIN items \subseteq 1 .. (next - 1)
  BY <1>1, OffsetBelowNext
<1>7. \A i \in plain : Table[i] \in Range(Table) \ Submenus
  BY <1>1, TablePlaces DEF Range
<1>8. \A i, j \in plain : Text(Table[i]) = Text(Table[j]) => Table[i] = Table[j]
  <2> SUFFICES ASSUME NEW i \in plain, NEW j \in plain, Table[i] = "Resync", 
                      Table[j] = "ResyncSandbox"
               PROVE  FALSE
    BY DEF Text
  <2>1. Single(s) /\ {"File", "Folder"} \subseteq ItemsStatus(s)
    BY DEF Inserted, Enabled, Submenus, Always, OfOneSandbox, OfOneMember, OfMembers
  <2> QED
    BY <2>1, SingleStatus
<1> HIDE DEF items, at, next
<1>9. \A k, l \in DOMAIN items : Text(items[k].item) = Text(items[l].item) => items[k] = items[l]
  BY <1>5, <1>8 DEF Entry
<1> QED
  BY <1>2, <1>3, <1>4, <1>5, <1>6, <1>7, <1>9

\* A submenu is for one selected path, whose patterns it lists.
LEMMA SubmenuPatterns ==
  ASSUME NEW s \in Selected, ItemsOf[s].submenu # "none"
  PROVE  PatternsOf[Head(s.paths)] \in Seq(Patterns)
<1> DEFINE S     == Inserted(s)
           plain == {i \in S : Table[i] \notin Submenus}
<1>1. PICK i \in S : Table[i] \in Submenus
  BY DEF ItemsOf
<1>2. Single(s) /\ "File" \in ItemsStatus(s)
  BY <1>1 DEF Inserted, Enabled, Submenus, Always, OfOneSandbox, OfOneMember, OfMembers
<1>3. s.paths # <<>>
  BY <1>2 DEF ItemsStatus
<1>4. s.paths \in Seq(Paths)
  BY <1>3, MenuAssumption DEF Selected
<1>5. Head(s.paths) \in Paths
  BY <1>3, <1>4
<1> QED
  BY <1>5, MenuAssumption

\* What an entry is registered under: its offset, and its id unless that is an offset; all
\* else is as before.
LEMMA BothOver ==
  ASSUME NEW f, NEW base, NEW first \in Nat, DOMAIN f \subseteq Nat,
         NEW g, g = Put(Both(f, first), base)
  PROVE  /\ \A k \in DOMAIN f : k \in DOMAIN g /\ g[k] = f[k]
         /\ \A k \in DOMAIN f :
              first + k \in DOMAIN g /\ (first + k \notin DOMAIN f => g[first + k] = f[k])
         /\ \A i \in DOMAIN base :
              /\ i \in DOMAIN g
              /\ i \notin DOMAIN f /\ (\A k \in DOMAIN f : i # first + k) => g[i] = base[i]
<1> DEFINE Ids == {first + k : k \in DOMAIN f}
           byId == [id \in Ids |-> f[id - first]]
<1>1. /\ DOMAIN g = DOMAIN f \cup Ids \cup DOMAIN base
      /\ \A i \in DOMAIN g : g[i] = IF i \in DOMAIN f THEN f[i]
                                     ELSE IF i \in Ids THEN byId[i] ELSE base[i]
  BY DEF Both, Put
<1>2. \A k \in DOMAIN f : byId[first + k] = f[k]
  <2> SUFFICES ASSUME NEW k \in DOMAIN f PROVE byId[first + k] = f[k]
    OBVIOUS
  <2>1. first + k - first = k
    OBVIOUS
  <2> QED
    BY <2>1
<1> HIDE DEF byId
<1> QED
  BY <1>1, <1>2

\* The maps of the handlers are functions of them.
MapsTyped ==
  /\ DOMAIN ids = Handlers /\ DOMAIN verbs = Handlers
  /\ DOMAIN verbIds = Handlers /\ DOMAIN shown = Handlers

\* Registering entries of a handler with their texts changes its maps alone,
LEMMA RegisterElsewhere ==
  ASSUME MapsTyped, NEW h \in Handlers, NEW entries, NEW texts, NEW first,
         Register(h, entries, texts, first)
  PROVE  /\ DOMAIN ids' = Handlers /\ DOMAIN verbs' = Handlers /\ DOMAIN verbIds' = Handlers
         /\ \A g \in Handlers \ {h} :
              ids'[g] = ids[g] /\ verbs'[g] = verbs[g] /\ verbIds'[g] = verbIds[g]
  BY DEF MapsTyped, Register

\* and there the text leads to the id of an entry that has it.
LEMMA RegisterVerbs ==
  ASSUME MapsTyped, NEW h \in Handlers, NEW entries, NEW texts, NEW first,
         Register(h, entries, texts, first)
  PROVE  /\ ids'[h] = Put(Both(entries, first), ids[h])
         /\ verbIds'[h] = Put(Both(texts, first), verbIds[h])
         /\ \A k \in DOMAIN texts :
              /\ texts[k] \in DOMAIN verbs'[h]
              /\ \E l \in DOMAIN texts :
                   texts[l] = texts[k] /\ verbs'[h][texts[k]] = first + l
         /\ \A v \in DOMAIN verbs[h] :
              /\ v \in DOMAIN verbs'[h]
              /\ v \notin Range(texts) => verbs'[h][v] = verbs[h][v]
<1> DEFINE at(v) == CHOOSE k \in DOMAIN texts : texts[k] = v
           new == [v \in Range(texts) |-> first + at(v)]
<1>1. verbs'[h] = Put(new, verbs[h])
  BY DEF MapsTyped, Register
<1>2. /\ DOMAIN verbs'[h] = Range(texts) \cup DOMAIN verbs[h]
      /\ \A v \in DOMAIN verbs'[h] : verbs'[h][v] = IF v \in Range(texts) THEN new[v] ELSE verbs[h][v]
  BY <1>1 DEF Put
<1>3. \A k \in DOMAIN texts : 
        texts[k] \in Range(texts) /\ at(texts[k]) \in DOMAIN texts /\ texts[at(texts[k])] = texts[k]
  BY DEF Range
<1>4. ids'[h] = Put(Both(entries, first), ids[h]) /\ verbIds'[h] = Put(Both(texts, first), verbIds[h])
  BY DEF MapsTyped, Register
<1> HIDE DEF at
<1> QED
  BY <1>2, <1>3, <1>4

\* What every handler remembers of the menu it is building or showing, in terms of the
\* entries shown: they have offsets that later entries do not get,
ShownBelowNext(h) == DOMAIN shown[h] \subseteq 1 .. (building[h].next - 1)

\* they are items of the table that run themselves, or patterns of the handler's submenu,
ShownItem(h, e) ==
  /\ e = Entry(e.item, e.runs)
  /\ \/ e.item \notin Submenus /\ e.runs = e.item /\ e.item \in Range(Table)
     \/ /\ e.item \in Submenus /\ e.runs \in Patterns
        /\ Inside(h) => e.item = building[h].item
ShownTyped(h) == \A k \in DOMAIN shown[h] : ShownItem(h, shown[h][k])

\* their offsets lead to them,
ShownFound(h) ==
  \A k \in DOMAIN shown[h] :
    /\ k \in DOMAIN ids[h]
    /\ ids[h][k].item = shown[h][k].item
    /\ h \notin overlapped => ids[h][k] = shown[h][k]

\* their offsets lead to their texts,
ShownNamed(h) ==
  \A k \in DOMAIN shown[h] :
    k \in DOMAIN verbIds[h] /\ verbIds[h][k] = Text(shown[h][k].runs)

\* and these to ids that lead to the same entries, if ids are no offsets.
LeadsBack(h, k) ==
  LET verb == verbIds[h][k]
  IN /\ verb \in DOMAIN verbs[h]
     /\ \E j \in 1 .. (building[h].next - 1) : verbs[h][verb] = building[h].first + j
     /\ verbs[h][verb] \in DOMAIN ids[h]
     /\ h \notin overlapped => ids[h][verbs[h][verb]] = ids[h][k]
VerbsLeadBack(h) ==
  building[h].first > building[h].next => \A k \in DOMAIN shown[h] : LeadsBack(h, k)

\* The pattern last assigned is still the command of the shared entry when it is copied,
\* unless another window's handler was in between.
CommandKept(h) ==
  LET b == building[h]
  IN /\ b.left # <<>> => Inside(h)
     /\ b.assigned => b.left # <<>> /\ (Listed(b) => b.verb = Head(b.left))
     /\ Inside(h) /\ h \notin overlapped /\ b.verb # "" => command[b.item] = b.verb

HandlerInv(h) ==
  /\ ShownBelowNext(h) /\ ShownTyped(h) /\ ShownFound(h)
  /\ ShownNamed(h) /\ VerbsLeadBack(h) /\ CommandKept(h)

BuildingTyped(h) ==
  LET b == building[h]
  IN /\ b.item \in Submenus \cup {"none"}
     /\ b.left \in Seq(Patterns) /\ b.verb \in Patterns \cup {""}
     /\ b.first \in Nat \ {0} /\ b.next \in Nat \ {0}

MenuInv ==
  /\ MapsTyped /\ DOMAIN command = Submenus
  /\ \A h \in Handlers : BuildingTyped(h) /\ HandlerInv(h)

\* A handler keeps what it remembers when others are at work,
LEMMA HandlerElsewhere ==
  ASSUME NEW h \in Handlers, BuildingTyped(h), HandlerInv(h),
         UNCHANGED <<ids[h], verbs[h], verbIds[h], building[h]>>,
         UNCHANGED shown[h] \/ shown'[h] = <<>>,
         h \in overlapped => h \in overlapped',
         Inside(h) /\ h \notin overlapped' =>
           command'[building[h].item] = command[building[h].item]
  PROVE  BuildingTyped(h)' /\ HandlerInv(h)'
<1>1. BuildingTyped(h)'
  BY DEF BuildingTyped
<1>2. \A k \in DOMAIN shown'[h] : k \in DOMAIN shown[h] /\ shown'[h][k] = shown[h][k]
  OBVIOUS
<1>3. ShownBelowNext(h)' /\ ShownTyped(h)' /\ ShownNamed(h)'
  BY <1>2 DEF HandlerInv, ShownBelowNext, ShownTyped, ShownItem, ShownNamed, Inside
<1>4. ShownFound(h)'
  BY <1>2 DEF HandlerInv, ShownFound
<1>5. VerbsLeadBack(h)'
  BY <1>2 DEF HandlerInv, VerbsLeadBack, LeadsBack
<1>6. CommandKept(h)'
  BY DEF HandlerInv, CommandKept, Inside, Listed
<1> QED
  BY <1>1, <1>3, <1>4, <1>5, <1>6 DEF HandlerInv

\* and so do all, without the maps and the submenus being touched.
LEMMA MenuUntouched ==
  ASSUME MenuInv, UNCHANGED <<ids, verbs, verbIds, building, command, overlapped>>,
         DOMAIN shown' = Handlers,
         \A h \in Handlers : UNCHANGED shown[h] \/ shown'[h] = <<>>
  PROVE  MenuInv'
<1>1. MapsTyped' /\ DOMAIN command' = Submenus
  BY DEF MenuInv, MapsTyped
<1>2. ASSUME NEW h \in Handlers PROVE BuildingTyped(h)' /\ HandlerInv(h)'
  <2>1. BuildingTyped(h) /\ HandlerInv(h)
    BY DEF MenuInv
  <2> QED
    BY <2>1, HandlerElsewhere
<1> QED
  BY <1>1, <1>2 DEF MenuInv

LEMMA MenuInvInit == Init => MenuInv
<1> SUFFICES ASSUME Init PROVE MenuInv
  OBVIOUS
<1>1. MapsTyped /\ DOMAIN command = Submenus
  BY DEF Init, MapsTyped
<1>2. ASSUME NEW h \in Handlers PROVE BuildingTyped(h) /\ HandlerInv(h)
  <2>1. building[h] = Nothing /\ shown[h] = <<>>
    BY DEF Init
  <2>0. /\ Nothing.item = "none" /\ Nothing.left = <<>> /\ Nothing.assigned = FALSE
        /\ Nothing.verb = "" /\ Nothing.first = 1 /\ Nothing.next = 1
    BY DEF Nothing
  <2>a. <<>> \in Seq(Patterns) /\ 1 \in Nat \ {0}
    OBVIOUS
  <2>2. BuildingTyped(h)
    BY <2>0, <2>1, <2>a, Zenon DEF BuildingTyped
  <2>3. \A k \in DOMAIN shown[h] : FALSE
    BY <2>1
  <2>4. CommandKept(h)
    BY <2>0, <2>1 DEF CommandKept, Inside
  <2> QED
    BY <2>2, <2>3, <2>4
       DEF HandlerInv, ShownBelowNext, ShownTyped, ShownFound, ShownNamed, VerbsLeadBack
<1> QED
  BY <1>1, <1>2 DEF MenuInv

\* Building the menu as far as the submenus: everything is registered anew.
LEMMA MenuInvQuery ==
  ASSUME PopupInv, MenuInv, NEW h \in Handlers, NEW s \in Selected, NEW first \in FirstIds,
         QueryContextMenu(h, s, first)
  PROVE  MenuInv'
<1> DEFINE plain == ItemsOf[s]
           items == plain.items
           texts == [k \in DOMAIN items |-> Text(items[k].item)]
           with(seen) ==
             [Nothing EXCEPT !.item = plain.submenu, !.first = first, !.next = plain.next,
                             !.seen = seen,
                             !.left = IF plain.submenu = "none" THEN <<>>
                                      ELSE PatternsOf[Head(s.paths)]]
<1>1. PICK seen : building' = [building EXCEPT ![h] = with(seen)]
  BY DEF QueryContextMenu
<1>2. /\ Register(h, items, texts, first)
      /\ shown' = [shown EXCEPT ![h] = items]
      /\ overlapped' = overlapped \ {h}
      /\ command' = command
  BY DEF QueryContextMenu
<1>3. MapsTyped' /\ DOMAIN command' = Submenus
  BY <1>2, RegisterElsewhere DEF MenuInv, MapsTyped
<1>4. ASSUME NEW g \in Handlers, g # h PROVE BuildingTyped(g)' /\ HandlerInv(g)'
  <2>1. UNCHANGED <<ids[g], verbs[g], verbIds[g]>>
    BY <1>2, <1>4, RegisterElsewhere DEF MenuInv
  <2>2. UNCHANGED <<building[g], shown[g]>>
    BY <1>1, <1>2, <1>4 DEF MenuInv, MapsTyped, PopupInv, PopupsTyped
  <2> QED
    BY <1>2, <1>4, <2>1, <2>2, HandlerElsewhere DEF MenuInv
<1> DEFINE b == building'[h]
<1>5. /\ b.item = plain.submenu /\ b.first = first /\ b.next = plain.next
      /\ b.assigned = FALSE /\ b.verb = ""
      /\ b.left = IF plain.submenu = "none" THEN <<>> ELSE PatternsOf[Head(s.paths)]
  <2>1. b = with(seen)
    BY <1>1 DEF PopupInv, PopupsTyped
  <2> QED
    BY <2>1 DEF Nothing
<1>6. /\ plain.next \in Nat \ {0}
      /\ plain.submenu \in Submenus \cup {"none"}
      /\ DOMAIN items \subseteq 1 .. (plain.next - 1)
      /\ \A k \in DOMAIN items : \E item \in Range(Table) \ Submenus : items[k] = Entry(item, item)
      /\ \A k, l \in DOMAIN items : 
           Text(items[k].item) = Text(items[l].item) => items[k] = items[l]
  BY ItemsShown
<1>7. first \in Nat \ {0}
  BY MenuAssumption
<1>8. shown'[h] = items
  BY <1>2 DEF MenuInv, MapsTyped
<1>9. BuildingTyped(h)'
  <2>1. b.left \in Seq(Patterns)
    <3>1. CASE plain.submenu = "none"
      BY <1>5, <3>1, EmptySeq
    <3>2. CASE plain.submenu # "none"
      BY <1>5, <3>2, SubmenuPatterns
    <3> QED
      BY <3>1, <3>2
  <2> QED
    BY <1>5, <1>6, <1>7, <2>1 DEF BuildingTyped
<1>10. DOMAIN items \subseteq Nat /\ DOMAIN texts = DOMAIN items
  BY <1>6
<1> HIDE DEF texts
<1>11. /\ ids'[h] = Put(Both(items, first), ids[h])
       /\ verbIds'[h] = Put(Both(texts, first), verbIds[h])
       /\ \A k \in DOMAIN texts :
            /\ texts[k] \in DOMAIN verbs'[h]
            /\ \E l \in DOMAIN texts : texts[l] = texts[k] /\ verbs'[h][texts[k]] = first + l
  BY <1>2, RegisterVerbs DEF MenuInv
<1> HIDE DEF plain, items
<1>12. /\ \A k \in DOMAIN items : k \in DOMAIN ids'[h] /\ ids'[h][k] = items[k]
       /\ \A k \in DOMAIN items :
            /\ first + k \in DOMAIN ids'[h]
            /\ first + k \notin DOMAIN items => ids'[h][first + k] = items[k]
  BY <1>7, <1>10, <1>11, BothOver
<1>13. \A k \in DOMAIN items : k \in DOMAIN verbIds'[h] /\ verbIds'[h][k] = texts[k]
  BY <1>7, <1>10, <1>11, BothOver
<1>14. ShownBelowNext(h)'
  BY <1>5, <1>6, <1>8 DEF ShownBelowNext
<1>15. ShownTyped(h)'
  BY <1>6, <1>8 DEF ShownTyped, ShownItem, Entry
<1>16. ShownFound(h)'
  BY <1>8, <1>12 DEF ShownFound
<1>17. \A k \in DOMAIN items : texts[k] = Text(items[k].item) /\ items[k].runs = items[k].item
  BY <1>6 DEF texts, Entry
<1>18. ShownNamed(h)'
  BY <1>8, <1>13, <1>17 DEF ShownNamed
<1>19. VerbsLeadBack(h)'
  <2> SUFFICES ASSUME first > plain.next, NEW k \in DOMAIN items PROVE LeadsBack(h, k)'
    BY <1>5, <1>8 DEF VerbsLeadBack
  <2>1. verbIds'[h][k] = texts[k] /\ texts[k] \in DOMAIN verbs'[h]
    BY <1>10, <1>11, <1>13
  <2>2. PICK l \in DOMAIN items : texts[l] = texts[k] /\ verbs'[h][texts[k]] = first + l
    BY <1>10, <1>11
  <2>3. items[l] = items[k]
    BY <1>6, <1>17, <2>2
  <2>4. first + l \notin DOMAIN items
    BY <1>6, <1>7, <1>10
  <2>5. ids'[h][first + l] = ids'[h][k] /\ first + l \in DOMAIN ids'[h]
    BY <1>12, <2>3, <2>4
  <2>6. l \in 1 .. (building'[h].next - 1) /\ building'[h].first = first
    BY <1>5, <1>6
  <2> QED
    BY <2>1, <2>2, <2>5, <2>6 DEF LeadsBack
<1>20. CommandKept(h)'
  BY <1>5 DEF CommandKept, Inside
<1>21. HandlerInv(h)'
  BY <1>14, <1>15, <1>16, <1>18, <1>19, <1>20 DEF HandlerInv
<1> QED
  BY <1>3, <1>4, <1>9, <1>21 DEF MenuInv

\* Assigning a pattern to the shared entry: handlers that build the same submenu are
\* overlapped from now on, and for the others their command is what it was.
LEMMA MenuInvAssign ==
  ASSUME PopupInv, MenuInv, NEW h \in Handlers, AssignCommand(h)
  PROVE  MenuInv'
<1> DEFINE b == building[h]
           c == building'[h]
<1>0. UNCHANGED <<ids, verbs, verbIds, shown>>
  BY DEF AssignCommand, handlerVars
<1>1. IsBuilding(b) /\ DOMAIN building = Handlers
  BY DEF PopupInv, PopupsTyped
<1>2. /\ c.item = b.item /\ c.left = b.left /\ c.first = b.first /\ c.next = b.next
      /\ c.seen = b.seen /\ c.assigned = TRUE
      /\ c.verb = IF Listed(b) THEN Head(b.left) ELSE b.verb
      /\ \A g \in Handlers : g # h => building'[g] = building[g]
  BY <1>1 DEF AssignCommand, IsBuilding, Fields
<1>3. b.left # <<>> /\ Inside(h) /\ b.item \in Submenus
  BY DEF AssignCommand, MenuInv, HandlerInv, CommandKept, BuildingTyped, Inside
<1>4. /\ command' = IF Listed(b) THEN [command EXCEPT ![b.item] = Head(b.left)] ELSE command
      /\ overlapped' = IF Listed(b)
                       THEN overlapped \cup {g \in Handlers \ {h} : building[g].item = b.item}
                       ELSE overlapped
  BY DEF AssignCommand
<1>5. MapsTyped' /\ DOMAIN command' = Submenus
  BY <1>0, <1>4 DEF MenuInv, MapsTyped
<1>6. ASSUME NEW g \in Handlers, g # h PROVE BuildingTyped(g)' /\ HandlerInv(g)'
  <2>1. Inside(g) /\ g \notin overlapped' => command'[building[g].item] = command[building[g].item]
    BY <1>4, <1>6
  <2>2. g \in overlapped => g \in overlapped'
    BY <1>4
  <2>3. BuildingTyped(g) /\ HandlerInv(g)
    BY DEF MenuInv
  <2> QED
    BY <1>0, <1>2, <1>6, <2>1, <2>2, <2>3, HandlerElsewhere
<1>7. BuildingTyped(h)'
  <2>0. b.left \in Seq(Patterns)
    BY DEF MenuInv, BuildingTyped
  <2>1. Head(b.left) \in Patterns
    BY <1>3, <2>0
  <2> QED
    BY <1>2, <2>1 DEF MenuInv, BuildingTyped
<1>8. HandlerInv(h)'
  <2>0. HandlerInv(h)
    BY DEF MenuInv
  <2>1. h \in overlapped' <=> h \in overlapped
    BY <1>4
  <2>2. ShownBelowNext(h)' /\ ShownTyped(h)' /\ ShownNamed(h)' /\ ShownFound(h)'
    BY <1>0, <1>2, <2>0, <2>1
       DEF HandlerInv, ShownBelowNext, ShownTyped, ShownItem, ShownNamed, ShownFound, Inside
  <2>3. VerbsLeadBack(h)'
    BY <1>0, <1>2, <2>0, <2>1 DEF HandlerInv, VerbsLeadBack, LeadsBack
  <2>4. CommandKept(h)'
    <3>1. Listed(b) <=> Listed(c)
      BY <1>2 DEF Listed
    <3>2. CASE Listed(b)
      <4>1. command'[b.item] = Head(b.left) /\ c.verb = Head(b.left)
        BY <1>2, <1>3, <1>4, <3>2 DEF MenuInv
      <4> QED
        BY <1>2, <1>3, <4>1 DEF CommandKept, Inside
    <3>3. CASE ~Listed(b)
      <4>1. command' = command /\ c.verb = b.verb
        BY <1>2, <1>4, <3>3
      <4> QED
        BY <1>2, <1>3, <2>0, <2>1, <3>1, <3>3, <4>1 DEF HandlerInv, CommandKept, Inside
    <3> QED
      BY <3>2, <3>3
  <2> QED
    BY <2>2, <2>3, <2>4 DEF HandlerInv
<1> QED
  BY <1>5, <1>6, <1>7, <1>8 DEF MenuInv

\* Closing a menu.
LEMMA MenuInvClose == ASSUME MenuInv, NEW w \in Windows, Close(w) PROVE MenuInv'
<1>1. /\ DOMAIN shown' = Handlers
      /\ \A h \in Handlers : UNCHANGED shown[h] \/ shown'[h] = <<>>
  BY DEF Close
<1> QED
  BY <1>1, MenuUntouched DEF Close

\* An entry at the next offset: what is shown already stays where it is, and so does what
\* its texts lead to, except for the text of the new entry, which may be a pattern's again.
\* Then the new entry runs that pattern as well.
NextEntered(h, entry, texts) ==
  LET b == building[h]
  IN /\ \A k \in 1 .. (b.next - 1) :
          /\ k \in DOMAIN ids[h] => k \in DOMAIN ids'[h] /\ ids'[h][k] = ids[h][k]
          /\ k \in DOMAIN verbIds[h] => 
               k \in DOMAIN verbIds'[h] /\ verbIds'[h][k] = verbIds[h][k]
     /\ b.next \in DOMAIN ids'[h] /\ ids'[h][b.next] = entry
     /\ b.first + b.next \in DOMAIN ids'[h] /\ ids'[h][b.first + b.next] = entry
     /\ texts # <<>> =>
          /\ b.next \in DOMAIN verbIds'[h] /\ verbIds'[h][b.next] = b.verb
          /\ b.verb \in DOMAIN verbs'[h] /\ verbs'[h][b.verb] = b.first + b.next
     /\ \A v \in DOMAIN verbs[h] :
          /\ v \in DOMAIN verbs'[h]
          /\ v # b.verb \/ texts = <<>> => verbs'[h][v] = verbs[h][v]
     /\ \A j \in 1 .. (b.next - 1) : b.first > b.next /\ b.first + j \in DOMAIN ids[h] =>
          /\ b.first + j \in DOMAIN ids'[h]
          /\ ids'[h][b.first + j] = ids[h][b.first + j]

LEMMA NextEntry ==
  ASSUME MenuInv, NEW h \in Handlers, NEW entry, NEW texts,
         texts = <<>> \/ texts = At(building[h].next, building[h].verb),
         Register(h, At(building[h].next, entry), texts, building[h].first)
  PROVE  NextEntered(h, entry, texts)
<1> DEFINE b == building[h]
           entries == At(b.next, entry)
<1>1. b.first \in Nat \ {0} /\ b.next \in Nat \ {0}
  BY DEF MenuInv, BuildingTyped
<1>2. DOMAIN entries = {b.next} /\ entries[b.next] = entry
  BY DEF At
<1>3. /\ DOMAIN texts \subseteq {b.next} /\ DOMAIN texts \subseteq Nat
      /\ texts # <<>> => DOMAIN texts = {b.next} /\ texts[b.next] = b.verb
      /\ Range(texts) \subseteq {b.verb}
      /\ texts = <<>> => Range(texts) = {}
  BY <1>1 DEF At, Range
<1> HIDE DEF entries
<1>4. /\ ids'[h] = Put(Both(entries, b.first), ids[h])
      /\ verbIds'[h] = Put(Both(texts, b.first), verbIds[h])
      /\ \A k \in DOMAIN texts :
           /\ texts[k] \in DOMAIN verbs'[h]
           /\ \E l \in DOMAIN texts :
                texts[l] = texts[k] /\ verbs'[h][texts[k]] = b.first + l
      /\ \A v \in DOMAIN verbs[h] :
           /\ v \in DOMAIN verbs'[h]
           /\ v \notin Range(texts) => verbs'[h][v] = verbs[h][v]
  BY RegisterVerbs DEF MenuInv, entries
<1>5. /\ \A i \in DOMAIN ids[h] : i \in DOMAIN ids'[h]
      /\ b.next \in DOMAIN ids'[h] /\ ids'[h][b.next] = entry
      /\ b.first + b.next \in DOMAIN ids'[h]
      /\ b.first + b.next # b.next => ids'[h][b.first + b.next] = entry
      /\ \A i \in DOMAIN ids[h] : i # b.next /\ i # b.first + b.next => ids'[h][i] = ids[h][i]
  BY <1>1, <1>2, <1>4, BothOver
<1>6. /\ \A i \in DOMAIN verbIds[h] : i \in DOMAIN verbIds'[h]
      /\ texts # <<>> => b.next \in DOMAIN verbIds'[h] /\ verbIds'[h][b.next] = b.verb
      /\ \A i \in DOMAIN verbIds[h] : i # b.next /\ i # b.first + b.next => verbIds'[h][i] = verbIds[h][i]
  <2>1. /\ \A k \in DOMAIN texts : k \in DOMAIN verbIds'[h] /\ verbIds'[h][k] = texts[k]
        /\ \A i \in DOMAIN verbIds[h] :
             /\ i \in DOMAIN verbIds'[h]
             /\ i \notin DOMAIN texts /\ (\A k \in DOMAIN texts : i # b.first + k)
                  => verbIds'[h][i] = verbIds[h][i]
    <3>1. DOMAIN texts \subseteq Nat /\ b.first \in Nat
      BY <1>1, <1>3
    <3>2. verbIds'[h] = Put(Both(texts, b.first), verbIds[h])
      BY <1>4
    <3> QED
      BY <3>1, <3>2, BothOver
  <2> QED
    BY <1>3, <2>1
<1>7. texts # <<>> => b.verb \in DOMAIN verbs'[h] /\ verbs'[h][b.verb] = b.first + b.next
  BY <1>3, <1>4
<1>8. /\ b.first + b.next # b.next
      /\ \A k \in 1 .. (b.next - 1) : k # b.next /\ k # b.first + b.next
      /\ b.first > b.next => \A j \in 1 .. (b.next - 1) : b.first + j # b.next /\ b.first + j # b.first + b.next
  BY <1>1
<1> QED
  BY <1>3, <1>4, <1>5, <1>6, <1>7, <1>8 DEF NextEntered

\* Texts of items are no patterns, and a pattern is its own text.
LEMMA Texts ==
  /\ \A item \in Range(Table) : Text(item) \in Range(Table)
  /\ \A pattern \in Patterns : Text(pattern) = pattern
  /\ Range(Table) \cap (Patterns \cup {""}) = {} /\ "" \notin Patterns
<1>1. Table[15] = "Resync" /\ Table[14] = "ResyncSandbox"
  BY DEF Table
<1>2. "Resync" \in Range(Table) /\ "ResyncSandbox" \in Range(Table)
  BY <1>1, TablePlaces DEF Range
<1>3. "" \notin Range(Table)
  <2> DEFINE Kinds == {"Seperator", "CreateSandbox", "MergeConflicts", "ResyncByCp", "Add"}
                      \cup Always \cup OfOneSandbox \cup OfOneMember \cup OfMembers \cup Submenus
  <2>1. \A i \in 1 .. 38 : Table[i] \in Kinds
    BY DEF Table, Always, OfOneSandbox, OfOneMember, OfMembers, Submenus
  <2>2. "" \notin Kinds
    BY Zenon DEF Always, OfOneSandbox, OfOneMember, OfMembers, Submenus
  <2> QED
    BY <2>1, <2>2, TablePlaces DEF Range
<1> QED
  BY <1>2, <1>3, NamesAssumption DEF Text

LEMMA MenuInvInsertPattern ==
  ASSUME PopupInv, MenuInv, NEW h \in Handlers, InsertPattern(h)
  PROVE  MenuInv'
<1> DEFINE b == building[h]
           c == building'[h]
           entry == Entry(b.item, command[b.item])
           texts == At(b.next, b.verb)
<1>1. IsBuilding(b) /\ DOMAIN building = Handlers /\ DOMAIN shown = Handlers
  BY DEF PopupInv, PopupsTyped, MenuInv, MapsTyped
<1>2. /\ c.item = b.item /\ c.left = Tail(b.left) /\ c.first = b.first /\ c.next = b.next + 1
      /\ c.assigned = FALSE /\ c.verb = b.verb
      /\ \A g \in Handlers : g # h => building'[g] = building[g]
  BY <1>1 DEF InsertPattern, IsBuilding, Fields
<1>3. /\ Register(h, At(b.next, entry), texts, b.first)
      /\ command' = command /\ overlapped' = overlapped /\ b.assigned
      /\ shown' = IF Listed(b)
                  THEN [shown EXCEPT ![h] = Put(At(b.next, Entry(b.item, Head(b.left))), @)]
                  ELSE shown
  BY DEF InsertPattern
<1>4. HandlerInv(h) /\ BuildingTyped(h)
  BY DEF MenuInv
<1>5. b.left # <<>> /\ Inside(h) /\ b.item \in Submenus /\ (Listed(b) => b.verb = Head(b.left))
  BY <1>3, <1>4 DEF HandlerInv, CommandKept, BuildingTyped, Inside
<1>6. MapsTyped' /\ DOMAIN command' = Submenus
  BY <1>1, <1>3, RegisterElsewhere DEF MenuInv, MapsTyped
<1>7. ASSUME NEW g \in Handlers, g # h PROVE BuildingTyped(g)' /\ HandlerInv(g)'
  <2>1. UNCHANGED <<ids[g], verbs[g], verbIds[g]>>
    BY <1>3, <1>7, RegisterElsewhere DEF MenuInv
  <2>2. UNCHANGED <<building[g], shown[g]>>
    BY <1>1, <1>2, <1>3, <1>7
  <2> QED
    BY <1>3, <2>1, <2>2, HandlerElsewhere DEF MenuInv
<1>8. b.first \in Nat \ {0} /\ b.next \in Nat \ {0} /\ b.left \in Seq(Patterns)
  BY <1>4 DEF BuildingTyped
<1>9. BuildingTyped(h)'
  <2>1. Tail(b.left) \in Seq(Patterns)
    BY <1>5, <1>8
  <2>2. b.next + 1 \in Nat \ {0}
    BY <1>8
  <2> QED
    BY <1>2, <1>4, <2>1, <2>2 DEF BuildingTyped
<1>10. /\ \A k \in 1 .. (b.next - 1) :
             /\ k \in DOMAIN ids[h] => k \in DOMAIN ids'[h] /\ ids'[h][k] = ids[h][k]
             /\ k \in DOMAIN verbIds[h] => 
                  k \in DOMAIN verbIds'[h] /\ verbIds'[h][k] = verbIds[h][k]
       /\ b.next \in DOMAIN ids'[h] /\ ids'[h][b.next] = entry
       /\ b.first + b.next \in DOMAIN ids'[h] /\ ids'[h][b.first + b.next] = entry
       /\ b.next \in DOMAIN verbIds'[h] /\ verbIds'[h][b.next] = b.verb
       /\ b.verb \in DOMAIN verbs'[h] /\ verbs'[h][b.verb] = b.first + b.next
       /\ \A v \in DOMAIN verbs[h] :
            v \in DOMAIN verbs'[h] /\ (v # b.verb => verbs'[h][v] = verbs[h][v])
       /\ \A j \in 1 .. (b.next - 1) : b.first > b.next /\ b.first + j \in DOMAIN ids[h] =>
            /\ b.first + j \in DOMAIN ids'[h]
            /\ ids'[h][b.first + j] = ids[h][b.first + j]
  <2>1. texts # <<>>
    <3>1. b.next \in DOMAIN texts
      BY DEF At
    <3> QED
      BY <3>1
  <2>2. texts = <<>> \/ texts = At(building[h].next, building[h].verb)
    OBVIOUS
  <2>3. Register(h, At(building[h].next, entry), texts, building[h].first)
    BY <1>3
  <2>4. NextEntered(h, entry, texts)
    BY <2>2, <2>3, NextEntry
  <2> HIDE DEF entry, texts
  <2> QED
    BY <2>1, <2>4 DEF NextEntered
<1> DEFINE Old(k) == k \in DOMAIN shown[h] /\ shown'[h][k] = shown[h][k] /\ k \in 1 .. (b.next - 1)
           New(k) == /\ Listed(b) /\ k = b.next /\ shown'[h][k] = Entry(b.item, b.verb)
                     /\ b.verb \in Patterns
<1>11. \A k \in DOMAIN shown'[h] : Old(k) \/ New(k)
  <2>0. \A k \in DOMAIN shown[h] : k \in 1 .. (b.next - 1)
    BY <1>4 DEF HandlerInv, ShownBelowNext
  <2>1. CASE Listed(b)
    <3>1. shown'[h] = Put(At(b.next, Entry(b.item, b.verb)), shown[h])
      BY <1>1, <1>3, <1>5, <2>1
    <3>2. b.verb \in Patterns
      BY <1>5, <1>8, <2>1
    <3> QED
      BY <2>0, <2>1, <3>1, <3>2, <1>8 DEF Put, At
  <2>2. CASE ~Listed(b)
    BY <1>3, <2>0, <2>2
  <2> QED
    BY <2>1, <2>2
<1> HIDE DEF entry, texts
<1>12. ShownBelowNext(h)'
  <2>1. \A k \in DOMAIN shown'[h] : k \in 1 .. (c.next - 1)
    BY <1>2, <1>8, <1>11
  <2> QED
    BY <2>1, Zenon DEF ShownBelowNext
<1>13. ShownTyped(h)'
  <2> SUFFICES ASSUME NEW k \in DOMAIN shown'[h] PROVE ShownItem(h, shown[h][k])'
    BY DEF ShownTyped
  <2>1. CASE Old(k)
    BY <1>2, <1>4, <2>1 DEF HandlerInv, ShownTyped, ShownItem, Inside
  <2>2. CASE New(k)
    BY <1>2, <1>5, <2>2 DEF ShownItem, Entry
  <2> QED
    BY <1>11, <2>1, <2>2
\* The command that was copied is the pattern's, unless another handler overlapped.
<1>14. h \notin overlapped /\ b.verb \in Patterns => entry = Entry(b.item, b.verb)
  BY <1>4, <1>5, Texts DEF HandlerInv, CommandKept, entry
<1>15. ShownFound(h)'
  <2> SUFFICES ASSUME NEW k \in DOMAIN shown'[h]
               PROVE  /\ k \in DOMAIN ids'[h]
                      /\ ids'[h][k].item = shown'[h][k].item
                      /\ h \notin overlapped' => ids'[h][k] = shown'[h][k]
    BY DEF ShownFound
  <2>1. CASE Old(k)
    BY <1>3, <1>4, <1>10, <2>1 DEF HandlerInv, ShownFound
  <2>2. CASE New(k)
    BY <1>3, <1>10, <1>14, <2>2 DEF Entry, entry
  <2> QED
    BY <1>11, <2>1, <2>2
<1>16. ShownNamed(h)'
  <2> SUFFICES ASSUME NEW k \in DOMAIN shown'[h]
               PROVE  k \in DOMAIN verbIds'[h] /\ verbIds'[h][k] = Text(shown'[h][k].runs)
    BY DEF ShownNamed
  <2>1. CASE Old(k)
    BY <1>4, <1>10, <2>1 DEF HandlerInv, ShownNamed
  <2>2. CASE New(k)
    <3>1. Text(b.verb) = b.verb
      BY <2>2, Texts
    <3>2. shown'[h][k].runs = b.verb
      BY <2>2 DEF Entry
    <3> QED
      BY <1>10, <2>2, <3>1, <3>2
  <2> QED
    BY <1>11, <2>1, <2>2
<1>17. VerbsLeadBack(h)'
  <2> SUFFICES ASSUME b.first > b.next + 1, NEW k \in DOMAIN shown'[h] PROVE LeadsBack(h, k)'
    BY <1>2 DEF VerbsLeadBack
  <2>1. b.first > b.next /\ b.next \in 1 .. (b.next + 1 - 1)
        /\ \A j \in 1 .. (b.next - 1) : j \in 1 .. (b.next + 1 - 1)
    BY <1>8
  <2>2. CASE New(k)
    <3>1. /\ verbIds'[h][k] = b.verb /\ b.verb \in DOMAIN verbs'[h]
          /\ verbs'[h][b.verb] = b.first + b.next /\ b.first + b.next \in DOMAIN ids'[h]
          /\ ids'[h][b.first + b.next] = ids'[h][k]
      BY <1>10, <2>2
    <3>2. b.next \in 1 .. (c.next - 1) /\ c.first = b.first
      BY <1>2, <2>1
    <3> QED
      BY <3>1, <3>2 DEF LeadsBack
  <2>3. CASE Old(k)
    <3> DEFINE verb == verbIds[h][k]
    <3>1. /\ verbIds'[h][k] = verb
          /\ k \in DOMAIN ids[h] /\ ids'[h][k] = ids[h][k]
          /\ h \notin overlapped => ids[h][k] = shown[h][k]
          /\ verb = Text(shown[h][k].runs)
      BY <1>4, <1>10, <2>3 DEF HandlerInv, ShownNamed, ShownFound
    <3>2. LeadsBack(h, k)
      BY <1>4, <2>1, <2>3 DEF HandlerInv, VerbsLeadBack
    <3>3. CASE verb # b.verb
      <4>1. PICK j \in 1 .. (b.next - 1) : verbs[h][verb] = b.first + j
        BY <3>2 DEF LeadsBack
      <4>2. /\ verb \in DOMAIN verbs'[h] /\ verbs'[h][verb] = b.first + j
            /\ b.first + j \in DOMAIN ids[h]
            /\ h \notin overlapped => ids[h][b.first + j] = ids[h][k]
        BY <1>10, <3>2, <3>3, <4>1 DEF LeadsBack
      <4>3. b.first + j \in DOMAIN ids'[h] /\ ids'[h][b.first + j] = ids[h][b.first + j]
        BY <1>10, <2>1, <4>2
      <4> QED
        BY <1>2, <1>3, <2>1, <3>1, <4>2, <4>3 DEF LeadsBack
    \* An earlier entry of the pattern: its text leads to the new entry from now on.
    <3>4. CASE verb = b.verb
      <4>1. ShownItem(h, shown[h][k])
        BY <1>4, <2>3 DEF HandlerInv, ShownTyped
      <4>2. b.verb \in Patterns \cup {""}
        BY <1>4 DEF BuildingTyped
      <4>3. b.verb \in Patterns /\ shown[h][k] = Entry(b.item, b.verb)
        BY <1>5, <3>1, <3>4, <4>1, <4>2, Texts DEF ShownItem
      <4>4. h \notin overlapped => entry = ids[h][k]
        BY <1>14, <3>1, <4>3
      <4> QED
        BY <1>2, <1>3, <1>10, <2>1, <3>1, <3>4, <4>4 DEF LeadsBack
    <3> QED
      BY <3>3, <3>4
  <2> QED
    BY <1>11, <2>2, <2>3
<1>18. CommandKept(h)'
  BY <1>2, <1>3, <1>4, <1>5 DEF HandlerInv, CommandKept, Inside
<1>19. HandlerInv(h)'
  BY <1>12, <1>13, <1>15, <1>16, <1>17, <1>18 DEF HandlerInv
<1> QED
  BY <1>6, <1>7, <1>9, <1>19 DEF MenuInv

LEMMA MenuInvInsertSubmenu ==
  ASSUME PopupInv, MenuInv, NEW h \in Handlers, InsertSubmenu(h)
  PROVE  MenuInv'
<1> DEFINE b == building[h]
           c == building'[h]
           entry == Entry(b.item, command[b.item])
<1>1. IsBuilding(b) /\ DOMAIN building = Handlers
  BY DEF PopupInv, PopupsTyped
<1>2. /\ c.item = "none" /\ c.left = <<>> /\ c.first = b.first /\ c.next = b.next + 1
      /\ c.assigned = b.assigned /\ c.verb = b.verb
      /\ \A g \in Handlers : g # h => building'[g] = building[g]
  BY <1>1 DEF InsertSubmenu, IsBuilding, Fields
<1>3. /\ Register(h, At(b.next, entry), <<>>, b.first)
      /\ UNCHANGED <<shown, command, overlapped>> /\ b.left = <<>>
  BY DEF InsertSubmenu
<1>4. HandlerInv(h) /\ BuildingTyped(h)
  BY DEF MenuInv
<1>5. MapsTyped' /\ DOMAIN command' = Submenus
  BY <1>3, RegisterElsewhere DEF MenuInv, MapsTyped
<1>6. ASSUME NEW g \in Handlers, g # h PROVE BuildingTyped(g)' /\ HandlerInv(g)'
  <2>1. UNCHANGED <<ids[g], verbs[g], verbIds[g]>>
    BY <1>3, <1>6, RegisterElsewhere DEF MenuInv
  <2> QED
    BY <1>2, <1>3, <1>6, <2>1, HandlerElsewhere DEF MenuInv
<1>7. b.first \in Nat \ {0} /\ b.next \in Nat \ {0} /\ b.next + 1 \in Nat \ {0}
  <2>1. b.first \in Nat \ {0} /\ b.next \in Nat \ {0}
    BY <1>4 DEF BuildingTyped
  <2> QED
    BY <2>1
<1>8. BuildingTyped(h)'
  BY <1>2, <1>3, <1>4, <1>7 DEF BuildingTyped
<1>9. NextEntered(h, entry, <<>>)
  BY <1>3, NextEntry
<1> HIDE DEF entry
<1>10. \A k \in DOMAIN shown[h] :
         /\ k \in 1 .. (b.next - 1) /\ k \in 1 .. (c.next - 1)
         /\ ids'[h][k] = ids[h][k] /\ verbIds'[h][k] = verbIds[h][k]
         /\ k \in DOMAIN ids'[h] /\ k \in DOMAIN verbIds'[h]
  <2> SUFFICES ASSUME NEW k \in DOMAIN shown[h]
               PROVE  /\ k \in 1 .. (b.next - 1) /\ k \in 1 .. (c.next - 1)
                      /\ ids'[h][k] = ids[h][k] /\ verbIds'[h][k] = verbIds[h][k]
                      /\ k \in DOMAIN ids'[h] /\ k \in DOMAIN verbIds'[h]
    OBVIOUS
  <2>1. k \in 1 .. (b.next - 1)
    BY <1>4 DEF HandlerInv, ShownBelowNext
  <2>2. k \in 1 .. (c.next - 1)
    BY <1>2, <1>7, <2>1
  <2>3. k \in DOMAIN ids[h] /\ k \in DOMAIN verbIds[h]
    BY <1>4 DEF HandlerInv, ShownFound, ShownNamed
  <2> QED
    BY <1>9, <2>1, <2>2, <2>3 DEF NextEntered
<1>11. ShownBelowNext(h)'
  <2>1. \A k \in DOMAIN shown'[h] : k \in 1 .. (c.next - 1)
    BY <1>3, <1>10
  <2> QED
    BY <2>1, Zenon DEF ShownBelowNext
<1>12. ShownTyped(h)' /\ ShownFound(h)' /\ ShownNamed(h)'
  BY <1>2, <1>3, <1>4, <1>10 
     DEF HandlerInv, ShownTyped, ShownItem, ShownFound, ShownNamed, Inside
<1>13. VerbsLeadBack(h)'
  <2> SUFFICES ASSUME b.first > b.next + 1, NEW k \in DOMAIN shown[h] PROVE LeadsBack(h, k)'
    BY <1>2, <1>3 DEF VerbsLeadBack
  <2>1. b.first > b.next
    BY <1>7
  <2>2. LeadsBack(h, k)
    BY <1>4, <2>1 DEF HandlerInv, VerbsLeadBack
  <2> DEFINE verb == verbIds[h][k]
  <2>3. PICK j \in 1 .. (b.next - 1) : verbs[h][verb] = b.first + j
    BY <2>2 DEF LeadsBack
  <2>4. verb \in DOMAIN verbs'[h] /\ verbs'[h][verb] = verbs[h][verb]
    BY <1>9, <2>2 DEF LeadsBack, NextEntered
  <2>5. /\ b.first + j \in DOMAIN ids'[h]
        /\ ids'[h][b.first + j] = ids[h][b.first + j]
    BY <1>9, <2>1, <2>2, <2>3 DEF LeadsBack, NextEntered
  <2>6. j \in 1 .. (c.next - 1)
    BY <1>2, <1>7
  <2> QED
    BY <1>2, <1>3, <1>10, <2>2, <2>3, <2>4, <2>5, <2>6 DEF LeadsBack
<1>14. CommandKept(h)'
  BY <1>2, <1>3, <1>4 DEF HandlerInv, CommandKept, Inside
<1>15. HandlerInv(h)'
  BY <1>11, <1>12, <1>13, <1>14 DEF HandlerInv
<1> QED
  BY <1>5, <1>6, <1>8, <1>15 DEF MenuInv

----------------------------------------------------------------------------
\* What a click sets is what the item clicked on shows, unless its menu was overlapped.
ClicksToggle ==
  \A u \in writes : ~u.torn => u.filter = Toggle(u.read, u.on.runs)

ItemsInv == PopupInv /\ MenuInv /\ ClicksToggle

LEMMA ItemsInvInit == Init => ItemsInv
  BY PopupInvInit, MenuInvInit DEF ItemsInv, ClicksToggle, Init

LEMMA ItemsInvNext == ItemsInv /\ [Next]_vars => ItemsInv'
<1> SUFFICES ASSUME ItemsInv, [Next]_vars PROVE ItemsInv'
  OBVIOUS
<1> USE DEF ItemsInv
<1>0. PopupInv'
  BY PopupInvNext
<1>1. ASSUME NEW h \in Handlers, NEW s \in Selected, NEW first \in FirstIds,
             QueryContextMenu(h, s, first)
      PROVE  MenuInv' /\ ClicksToggle'
  <2>1. UNCHANGED writes
    BY <1>1 DEF QueryContextMenu, clickVars
  <2> QED
    BY <1>1, <2>1, MenuInvQuery DEF ClicksToggle
<1>2. ASSUME NEW h \in Handlers, AssignCommand(h) PROVE MenuInv' /\ ClicksToggle'
  <2>1. UNCHANGED writes
    BY <1>2 DEF AssignCommand, clickVars
  <2> QED
    BY <1>2, <2>1, MenuInvAssign DEF ClicksToggle
<1>3. ASSUME NEW h \in Handlers, InsertPattern(h) PROVE MenuInv' /\ ClicksToggle'
  <2>1. UNCHANGED writes
    BY <1>3 DEF InsertPattern, clickVars
  <2> QED
    BY <1>3, <2>1, MenuInvInsertPattern DEF ClicksToggle
<1>4. ASSUME NEW h \in Handlers, InsertSubmenu(h) PROVE MenuInv' /\ ClicksToggle'
  <2>1. UNCHANGED writes
    BY <1>4 DEF InsertSubmenu, clickVars
  <2> QED
    BY <1>4, <2>1, MenuInvInsertSubmenu DEF ClicksToggle
<1>5. ASSUME NEW h \in Handlers, NEW id, InvokeCommand(h, id) PROVE MenuInv' /\ ClicksToggle'
  <2>1. MenuInv'
    BY <1>5, WindowOfType, MenuInvClose DEF InvokeCommand
  <2> DEFINE entry == ids[h][id]
  <2>2. h \notin overlapped => entry = shown[h][id]
    BY <1>5 DEF InvokeCommand, MenuInv, HandlerInv, ShownFound
  <2>3. \/ UNCHANGED writes
        \/ \E read \in {filter, {}} :
             writes' = writes \cup {[click |-> clicks, on |-> shown[h][id], read |-> read,
                                     torn |-> h \in overlapped,
                                     filter |-> Toggle(read, entry.runs)]}
    BY <1>5 DEF InvokeCommand, clickVars
  <2>4. CASE UNCHANGED writes
    BY <2>1, <2>4 DEF ClicksToggle
  <2>5. ASSUME NEW read,
               writes' = writes \cup {[click |-> clicks, on |-> shown[h][id], read |-> read,
                                       torn |-> h \in overlapped,
                                       filter |-> Toggle(read, entry.runs)]}
        PROVE  ClicksToggle'
    <3> DEFINE w == [click |-> clicks, on |-> shown[h][id], read |-> read,
                     torn |-> h \in overlapped, filter |-> Toggle(read, entry.runs)]
    <3>1. /\ w.torn <=> h \in overlapped
          /\ w.filter = Toggle(read, entry.runs) /\ w.read = read /\ w.on = shown[h][id]
      OBVIOUS
    <3>2. ~w.torn => w.filter = Toggle(w.read, w.on.runs)
      BY <2>2, <3>1
    <3> HIDE DEF w
    <3> QED
      BY <2>5, <3>2 DEF ClicksToggle, w
  <2> QED
    BY <2>1, <2>3, <2>4, <2>5
<1>6. ASSUME NEW w \in Windows, Close(w), UNCHANGED clickVars PROVE MenuInv' /\ ClicksToggle'
  BY <1>6, MenuInvClose DEF ClicksToggle, clickVars
<1>7. ASSUME UNCHANGED <<handlerVars, popups, building, command, overlapped>> PROVE MenuInv'
  <2>1. MapsTyped
    BY DEF MenuInv
  <2>2. DOMAIN shown' = Handlers /\ \A h \in Handlers : UNCHANGED shown[h]
    BY <1>7, <2>1 DEF handlerVars, MapsTyped
  <2> QED
    BY <1>7, <2>2, MenuUntouched DEF handlerVars
<1>8. ASSUME NEW u \in writes, SetExcludeFilter(u) PROVE MenuInv' /\ ClicksToggle'
  BY <1>7, <1>8 DEF SetExcludeFilter, ClicksToggle
<1>9. ASSUME UNCHANGED vars PROVE MenuInv' /\ ClicksToggle'
  BY <1>7, <1>9 DEF vars, clickVars, ClicksToggle
<1> QED
  BY <1>0, <1>1, <1>2, <1>3, <1>4, <1>5, <1>6, <1>8, <1>9 DEF Next

LEMMA ItemsInvHolds == Spec => []ItemsInv
  BY ItemsInvInit, ItemsInvNext, PTL DEF Spec

LEMMA PopupHandlers ==
  ASSUME PopupInv, NEW w \in Windows, NEW h \in Range(popups[w]) PROVE h \in Handlers
<1>1. popups[w] \in Seq(Handlers)
  BY DEF PopupInv, PopupsTyped
<1> QED
  BY <1>1 DEF Range

\* Whatever was built before it, and with whatever ids, an item of an open menu is found
\* under its offset and runs what it shows, unless another window's submenu was built at
\* the same time: menuInfo's shared siCommand and the maps that are never cleared.
THEOREM ShownRunsItselfHolds == Spec => []ShownRunsItself
<1>1. ItemsInv => ShownRunsItself
  BY PopupHandlers DEF ItemsInv, MenuInv, HandlerInv, ShownFound, ShownRunsItself
<1> QED
  BY <1>1, ItemsInvHolds, PTL

\* The verb of an item leads InvokeCommand to what its id leads to, whenever Explorer's
\* first id is greater than the number of ids of the menu.
THEOREM VerbRunsItsItemHolds == Spec => []VerbRunsItsItem
<1>1. ItemsInv => VerbRunsItsItem
  BY PopupHandlers
     DEF ItemsInv, MenuInv, HandlerInv, ShownNamed, VerbsLeadBack, LeadsBack, VerbRunsItsItem
<1> QED
  BY <1>1, ItemsInvHolds, PTL

\* A click on Remove takes the pattern shown out of the filter that is read, one on Add puts
\* it in, and both keep the rest.
THEOREM ClickDoesWhatItSaysHolds == Spec => []ClickDoesWhatItSays
<1>1. ItemsInv => ClickDoesWhatItSays
  BY DEF ItemsInv, ClicksToggle, ClickDoesWhatItSays, Toggle
<1> QED
  BY <1>1, ItemsInvHolds, PTL

----------------------------------------------------------------------------
(* Paths.                                                                   *)

\* A set of naturals has a least element: the interval below it is a finite set that
\* is minimal under inclusion.
LEMMA LeastNat ==
  ASSUME NEW S, S \subseteq Nat, S # {}
  PROVE  \E x \in S : \A y \in S : x <= y
<1> DEFINE T == {0..x : x \in S}
<1>1. T \subseteq FiniteSubsetsOf(Nat) /\ T # {}
  <2>1. \A x \in S : 0..x \subseteq Nat /\ IsFiniteSet(0..x)
    BY FS_Interval
  <2>. QED
    BY <2>1 DEF FiniteSubsetsOf
<1> HIDE DEF T
<1>2. PICK X \in T : \A Y \in T : <<Y, X>> \notin StrictSubsetOrdering(Nat)
  BY <1>1, FS_StrictSubsetOrderingWellFounded, WFMin
<1> USE DEF T
<1>3. PICK x \in S : X = 0..x
  BY <1>2
<1>4. ASSUME NEW y \in S, y < x
      PROVE  FALSE
  <2>1. 0..y \subseteq 0..x /\ x \notin 0..y /\ x \in 0..x
    BY <1>4
  <2>2. 0..y \in SUBSET Nat /\ 0..x \in SUBSET Nat
    OBVIOUS
  <2>3. <<0..y, 0..x>> \in StrictSubsetOrdering(Nat)
    BY <2>1, <2>2 DEF StrictSubsetOrdering
  <2>. QED
    BY <1>2, <1>3, <2>3
<1>5. \A y \in S : x <= y
  BY <1>4
<1>. QED
  BY <1>5

\* What FlattenSeq computes, step by step: it is a recursive function, which exists and
\* has its values by induction on the length.
LEMMA FlattenSteps ==
  ASSUME NEW S, NEW seqs \in Seq(Seq(S)), seqs # <<>>
  PROVE  \E f \in [1..Len(seqs) -> Seq(S)] :
           /\ f[1] = seqs[1]
           /\ \A i \in 2..Len(seqs) : f[i] = f[i - 1] \o seqs[i]
           /\ FlattenSeq(seqs) = f[Len(seqs)]
<1> DEFINE n == Len(seqs)
           Steps(f, m) == /\ f \in [1..m -> Seq(S)] /\ f[1] = seqs[1]
                          /\ \A i \in 2..m : f[i] = f[i - 1] \o seqs[i]
           Bad == {m \in 1..n : ~\E f : Steps(f, m)}
<1>1. n \in Nat \ {0} /\ \A i \in 1..n : seqs[i] \in Seq(S)
  OBVIOUS
<1>2. Bad = {}
  <2>1. SUFFICES ASSUME Bad # {} PROVE FALSE
    OBVIOUS
  <2>2. PICK m \in Bad : \A k \in Bad : m <= k
    <3> HIDE DEF Steps
    <3>1. Bad \subseteq Nat
      BY <1>1
    <3> HIDE DEF Bad
    <3>. QED
      BY <2>1, <3>1, LeastNat
  <2>3. m \in 1..n
    OBVIOUS
  <2>4. CASE m = 1
    <3> DEFINE f == [i \in 1..1 |-> seqs[1]]
    <3>1. Steps(f, 1)
      BY <1>1
    <3>. QED
      BY <2>4, <3>1
  <2>5. CASE m # 1
    <3>1. m - 1 \in 1..n /\ m - 1 \notin Bad
      <4> HIDE DEF Bad
      <4>. QED
        BY <1>1, <2>2, <2>3, <2>5
    <3>2. PICK f : Steps(f, m - 1)
      <4> HIDE DEF Steps
      <4>. QED
        BY <3>1
    <3> DEFINE g == [i \in 1..m |-> IF i = m THEN f[m - 1] \o seqs[m] ELSE f[i]]
    <3>3. f[m - 1] \in Seq(S) /\ f[m - 1] \o seqs[m] \in Seq(S)
      BY <1>1, <2>3, <2>5, <3>2
    <3>4. g \in [1..m -> Seq(S)] /\ g[1] = seqs[1]
      BY <1>1, <2>3, <2>5, <3>2, <3>3
    <3>5. ASSUME NEW i \in 2..m
          PROVE  g[i] = g[i - 1] \o seqs[i]
      <4>1. i \in 1..m /\ i - 1 \in 1..m /\ i - 1 # m
        BY <1>1, <2>3
      <4>2. g[i - 1] = f[i - 1]
        BY <4>1
      <4>3. CASE i = m
        BY <4>1, <4>2, <4>3
      <4>4. CASE i # m
        <5>1. i \in 2..(m - 1)
          BY <1>1, <2>3, <4>4
        <5>2. f[i] = f[i - 1] \o seqs[i]
          BY <3>2, <5>1
        <5>. QED
          BY <4>1, <4>2, <4>4, <5>2
      <4>. QED
        BY <4>3, <4>4
    <3>6. Steps(g, m)
      BY <3>4, <3>5
    <3>. QED
      BY <2>2, <3>6
  <2>. QED
    BY <2>4, <2>5
<1>3. PICK f : Steps(f, n)
  <2>1. n \in 1..n
    BY <1>1
  <2>2. n \notin Bad
    <3> HIDE DEF Bad
    <3>. QED
      BY <1>2
  <2> HIDE DEF Steps
  <2>. QED
    BY <2>1, <2>2
<1> DEFINE Recursion(g) == g = [i \in 1..n |-> IF i = 1 THEN seqs[i] ELSE g[i - 1] \o seqs[i]]
           flatten == CHOOSE g : Recursion(g)
<1>4. Recursion(f)
  <2>1. ASSUME NEW i \in 1..n
        PROVE  f[i] = IF i = 1 THEN seqs[i] ELSE f[i - 1] \o seqs[i]
    <3>1. i # 1 => i \in 2..n
      BY <1>1
    <3>. QED
      BY <1>3, <3>1
  <2>2. f = [i \in 1..n |-> f[i]]
    BY <1>3
  <2>. QED
    BY <2>1, <2>2
<1>5. Recursion(flatten)
  <2> HIDE DEF Recursion
  <2>. QED
    BY <1>4
<1> HIDE DEF flatten
<1>6. flatten = f
  <2> DEFINE Wrong == {m \in 1..n : flatten[m] # f[m]}
  <2>1. Wrong = {}
    <3>1. SUFFICES ASSUME Wrong # {} PROVE FALSE
      OBVIOUS
    <3>2. PICK m \in Wrong : \A k \in Wrong : m <= k
      <4>1. Wrong \subseteq Nat
        BY <1>1
      <4> HIDE DEF Wrong
      <4>. QED
        BY <3>1, <4>1, LeastNat
    <3>3. m \in 1..n /\ m # 1
      BY <1>3, <1>5
    <3>4. m - 1 \in 1..n /\ flatten[m - 1] = f[m - 1]
      BY <1>1, <3>2, <3>3
    <3>5. flatten[m] = flatten[m - 1] \o seqs[m]
      BY <1>5, <3>3
    <3>6. f[m] = f[m - 1] \o seqs[m]
      <4>1. m \in 2..n
        BY <1>1, <3>3
      <4>. QED
        BY <1>3, <4>1
    <3>. QED
      BY <3>2, <3>4, <3>5, <3>6
  <2>2. flatten = [i \in 1..n |-> flatten[i]] /\ f = [i \in 1..n |-> f[i]]
    BY <1>3, <1>5
  <2>. QED
    BY <2>1, <2>2
<1>7. FlattenSeq(seqs) = flatten[n]
  BY <1>1 DEF FlattenSeq, flatten
<1>. QED
  BY <1>1, <1>3, <1>6, <1>7

----------------------------------------------------------------------------
(* Strings.                                                                 *)

Chars == Letters \cup {Separator}
Words == Seq(Letters) \ {<<>>}

\* s is the beginning of t, character by character.
Begins(s, t) == Len(s) <= Len(t) /\ \A i \in 1..Len(s) : s[i] = t[i]

LEMMA PrefixBegins ==
  ASSUME NEW S, NEW s \in Seq(S), NEW t \in Seq(S)
  PROVE  IsPrefix(s, t) <=> Begins(s, t)
<1>1. Len(s) \in Nat /\ Len(t) \in Nat /\ SubSeq(s, 1, Len(s)) = s
  OBVIOUS
<1>2. ASSUME Len(s) <= Len(t)
      PROVE  /\ SubSeq(t, 1, Len(s)) \in Seq(S) /\ Len(SubSeq(t, 1, Len(s))) = Len(s)
             /\ \A i \in 1..Len(s) : SubSeq(t, 1, Len(s))[i] = t[i]
  BY <1>1, <1>2
<1>3. ASSUME IsPrefix(s, t) PROVE Begins(s, t)
  BY <1>1, <1>2, <1>3 DEF IsPrefix, Begins
<1>4. ASSUME Begins(s, t) PROVE IsPrefix(s, t)
  <2>1. Len(s) <= Len(t) /\ \A i \in 1..Len(s) : SubSeq(t, 1, Len(s))[i] = s[i]
    BY <1>2, <1>4 DEF Begins
  <2>2. SubSeq(t, 1, Len(s)) = s
    BY <1>1, <1>2, <2>1
  <2>. QED
    BY <1>1, <2>1, <2>2 DEF IsPrefix
<1>. QED
  BY <1>3, <1>4

\* Words that follow the same beginning, and are followed by a separator, in the same
\* string are the same.
LEMMA SameWord ==
  ASSUME NEW x \in Seq(Chars), NEW a \in Words, NEW b \in Words, NEW w \in Seq(Chars),
         Begins(Append(x \o a, Separator), w), Begins(Append(x \o b, Separator), w)
  PROVE  a = b
<1>1. /\ a \in Seq(Letters) /\ b \in Seq(Letters) /\ a \in Seq(Chars) /\ b \in Seq(Chars)
      /\ Len(x) \in Nat /\ Len(a) \in Nat /\ Len(b) \in Nat
  BY DEF Words, Chars
<1>2. \A i \in 1..Len(a) : a[i] # Separator
  BY <1>1, LettersAssumption DEF Separator
<1>3. \A i \in 1..Len(b) : b[i] # Separator
  BY <1>1, LettersAssumption DEF Separator
<1>4. ASSUME NEW c \in Seq(Chars), Begins(Append(x \o c, Separator), w)
      PROVE  w[Len(x) + Len(c) + 1] = Separator /\ \A i \in 1..Len(c) : w[Len(x) + i] = c[i]
  <2>1. x \o c \in Seq(Chars) /\ Len(x \o c) = Len(x) + Len(c) /\ Len(c) \in Nat
    BY <1>1
  <2> DEFINE y == Append(x \o c, Separator)
  <2>2. /\ Len(y) = Len(x) + Len(c) + 1 /\ y[Len(x) + Len(c) + 1] = Separator
        /\ \A i \in 1..Len(x) + Len(c) : y[i] = (x \o c)[i]
    BY <1>1, <2>1
  <2>3. \A i \in 1..Len(c) : (x \o c)[Len(x) + i] = c[i] /\ Len(x) + i \in 1..Len(x) + Len(c)
    BY <1>1, <2>1
  <2>4. \A i \in 1..Len(c) : y[Len(x) + i] = c[i]
    BY <2>2, <2>3
  <2> HIDE DEF y
  <2>5. \A i \in 1..Len(x) + Len(c) + 1 : y[i] = w[i]
    BY <1>4, <2>2 DEF Begins, y
  <2>. QED
    BY <1>1, <2>1, <2>2, <2>3, <2>4, <2>5
<1>5. w[Len(x) + Len(a) + 1] = Separator /\ \A i \in 1..Len(a) : w[Len(x) + i] = a[i]
  BY <1>1, <1>4
<1>6. w[Len(x) + Len(b) + 1] = Separator /\ \A i \in 1..Len(b) : w[Len(x) + i] = b[i]
  BY <1>1, <1>4
<1>7. ~(Len(a) < Len(b))
  <2>1. SUFFICES ASSUME Len(a) < Len(b) PROVE FALSE
    OBVIOUS
  <2>2. Len(a) + 1 \in 1..Len(b)
    BY <1>1, <2>1
  <2>3. w[Len(x) + (Len(a) + 1)] = b[Len(a) + 1]
    BY <1>6, <2>2
  <2>. QED
    BY <1>1, <1>3, <1>5, <2>2, <2>3
<1>8. ~(Len(b) < Len(a))
  <2>1. SUFFICES ASSUME Len(b) < Len(a) PROVE FALSE
    OBVIOUS
  <2>2. Len(b) + 1 \in 1..Len(a)
    BY <1>1, <2>1
  <2>3. w[Len(x) + (Len(b) + 1)] = a[Len(b) + 1]
    BY <1>5, <2>2
  <2>. QED
    BY <1>1, <1>2, <1>6, <2>2, <2>3
<1>9. Len(a) = Len(b)
  BY <1>1, <1>7, <1>8
<1>10. \A i \in 1..Len(a) : a[i] = b[i]
  BY <1>5, <1>6, <1>9
<1>. QED
  BY <1>1, <1>9, <1>10

LEMMA BeginsChain ==
  ASSUME NEW r \in Seq(Chars), NEW s \in Seq(Chars), NEW t \in Seq(Chars), Begins(r, s), Begins(s, t)
  PROVE  Begins(r, t)
<1>1. Len(r) \in Nat /\ Len(s) \in Nat /\ Len(t) \in Nat
  OBVIOUS
<1>2. \A i \in 1..Len(r) : i \in 1..Len(s)
  BY <1>1 DEF Begins
<1>. QED
  BY <1>1, <1>2 DEF Begins

LEMMA BeginsItsExtension ==
  ASSUME NEW s \in Seq(Chars), NEW t \in Seq(Chars)
  PROVE  Begins(s, s \o t)
<1>1. Len(s) \in Nat /\ Len(t) \in Nat /\ Len(s \o t) = Len(s) + Len(t)
  OBVIOUS
<1>2. \A i \in 1..Len(s) : (s \o t)[i] = s[i]
  OBVIOUS
<1>. QED
  BY <1>1, <1>2 DEF Begins

\* f[i] is the string of the first i names of a place.
Writes(f, place) ==
  /\ f \in [1..Len(place) -> Seq(Chars)]
  /\ f[1] = place[1]
  /\ \A i \in 2..Len(place) : f[i] = f[i - 1] \o (<<Separator>> \o place[i])

FolderString(f, i) == Append(f[i], Separator)

LEMMA WordChars ==
  ASSUME NEW a \in Words
  PROVE  a \in Seq(Letters) /\ a \in Seq(Chars) /\ a # <<>> /\ Len(a) \in Nat \ {0}
<1>1. a \in Seq(Letters) /\ a # <<>>
  BY DEF Words
<1>2. a \in Seq(Chars)
  BY <1>1 DEF Chars
<1>. QED
  BY <1>1, <1>2

\* The separator belongs to the folder before it or to the name after it.
LEMMA AppendJoins ==
  ASSUME NEW s \in Seq(Chars), NEW t \in Seq(Chars), NEW c \in Chars
  PROVE  s \o (<<c>> \o t) = Append(s, c) \o t /\ Append(s \o t, c) = s \o Append(t, c)
<1>1. Len(s) \in Nat /\ Len(t) \in Nat
  OBVIOUS
<1>2. s \o (<<c>> \o t) = Append(s, c) \o t
  <2> DEFINE l == s \o (<<c>> \o t)
             r == Append(s, c) \o t
  <2>1. l \in Seq(Chars) /\ r \in Seq(Chars) /\ Len(l) = Len(s) + 1 + Len(t) /\ Len(r) = Len(s) + 1 + Len(t)
    BY <1>1
  <2>2. \A i \in 1..Len(l) : l[i] = r[i]
    BY <1>1
  <2> HIDE DEF l, r
  <2>3. l = r
    BY <2>1, <2>2
  <2>. QED
    BY <2>3 DEF l, r
<1>3. Append(s \o t, c) = s \o Append(t, c)
  OBVIOUS
<1>. QED
  BY <1>2, <1>3

\* What a folder's string is followed by.
LEMMA NextName ==
  ASSUME NEW u \in Seq(Words), NEW f, Writes(f, u), NEW i \in 2..Len(u)
  PROVE  /\ FolderString(f, i - 1) \in Seq(Chars) /\ u[i] \in Words /\ u[i] \in Seq(Chars)
         /\ f[i] = FolderString(f, i - 1) \o u[i]
<1>1. Len(u) \in Nat /\ i \in 1..Len(u) /\ i - 1 \in 1..Len(u)
  OBVIOUS
<1>2. u[i] \in Words /\ u[i] \in Seq(Chars) /\ f[i - 1] \in Seq(Chars)
  <2>1. u[i] \in Words
    BY <1>1
  <2>2. f[i - 1] \in Seq(Chars)
    BY <1>1 DEF Writes
  <2>. QED
    BY <2>1, <2>2, WordChars
<1>3. Separator \in Chars
  BY DEF Chars
<1>4. f[i] = f[i - 1] \o (<<Separator>> \o u[i])
  BY DEF Writes
<1>5. f[i - 1] \o (<<Separator>> \o u[i]) = Append(f[i - 1], Separator) \o u[i]
  BY <1>2, <1>3, AppendJoins
<1>6. Append(f[i - 1], Separator) \in Seq(Chars)
  BY <1>2, <1>3
<1>. QED
  BY <1>2, <1>4, <1>5, <1>6 DEF FolderString

\* The string of a folder begins those of all below it.
LEMMA FolderBegins ==
  ASSUME NEW u \in Seq(Words), NEW f, Writes(f, u), NEW i \in 1..Len(u)
  PROVE  Begins(FolderString(f, i), FolderString(f, Len(u)))
<1> DEFINE Bad == {k \in i..Len(u) : ~Begins(FolderString(f, i), FolderString(f, k))}
<1>1. Len(u) \in Nat /\ i \in Nat /\ i <= Len(u) /\ i >= 1
  OBVIOUS
<1>2. Separator \in Chars /\ \A k \in 1..Len(u) : FolderString(f, k) \in Seq(Chars)
  <2>1. Separator \in Chars /\ \A k \in 1..Len(u) : f[k] \in Seq(Chars)
    BY DEF Chars, Writes
  <2>. QED
    BY <2>1 DEF FolderString
<1>3. Bad = {}
  <2>1. SUFFICES ASSUME Bad # {} PROVE FALSE
    OBVIOUS
  <2>2. PICK k \in Bad : \A j \in Bad : k <= j
    <3>1. Bad \subseteq Nat
      BY <1>1
    <3> HIDE DEF Bad
    <3>. QED
      BY <2>1, <3>1, LeastNat
  <2>3. k \in i..Len(u) /\ ~Begins(FolderString(f, i), FolderString(f, k))
    OBVIOUS
  <2>4. k # i
    <3>1. Len(FolderString(f, i)) \in Nat
      BY <1>2
    <3>. QED
      BY <2>3, <3>1 DEF Begins
  <2>5. k - 1 \in i..Len(u) /\ k \in 2..Len(u) /\ ~(k <= k - 1)
    BY <1>1, <2>3, <2>4
  <2>6. Begins(FolderString(f, i), FolderString(f, k - 1))
    BY <2>2, <2>5
  <2>7. f[k] = FolderString(f, k - 1) \o u[k] /\ u[k] \in Seq(Chars) /\ FolderString(f, k - 1) \in Seq(Chars)
    BY <2>5, NextName
  <2>8. FolderString(f, k) = FolderString(f, k - 1) \o Append(u[k], Separator) /\ Append(u[k], Separator) \in Seq(Chars)
    <3>1. FolderString(f, k) = Append(FolderString(f, k - 1) \o u[k], Separator)
      BY <2>7 DEF FolderString
    <3>2. Append(u[k], Separator) \in Seq(Chars)
      BY <1>2, <2>7
    <3>3. Append(FolderString(f, k - 1) \o u[k], Separator) = FolderString(f, k - 1) \o Append(u[k], Separator)
      BY <1>2, <2>7, AppendJoins
    <3>. QED
      BY <3>1, <3>2, <3>3
  <2>9. Begins(FolderString(f, k - 1), FolderString(f, k))
    BY <2>7, <2>8, BeginsItsExtension
  <2>10. i \in 1..Len(u) /\ k \in 1..Len(u)
    BY <1>1, <2>3
  <2>. QED
    BY <1>2, <2>3, <2>6, <2>7, <2>9, <2>10, BeginsChain
<1>4. Len(u) \in i..Len(u)
  BY <1>1
<1>. QED
  BY <1>3, <1>4

\* Equal names have equal strings.
LEMMA SameString ==
  ASSUME NEW u \in Seq(Words), NEW f, Writes(f, u), NEW v \in Seq(Words), NEW g, Writes(g, v),
         NEW n \in Nat \ {0}, n <= Len(u), n <= Len(v), \A i \in 1..n : u[i] = v[i]
  PROVE  f[n] = g[n]
<1> DEFINE Bad == {k \in 1..n : f[k] # g[k]}
<1>1. Len(u) \in Nat /\ Len(v) \in Nat
  OBVIOUS
<1>2. Bad = {}
  <2>1. SUFFICES ASSUME Bad # {} PROVE FALSE
    OBVIOUS
  <2>2. PICK k \in Bad : \A j \in Bad : k <= j
    <3>1. Bad \subseteq Nat
      OBVIOUS
    <3> HIDE DEF Bad
    <3>. QED
      BY <2>1, <3>1, LeastNat
  <2>3. k \in 1..n /\ f[k] # g[k]
    OBVIOUS
  <2>4. k # 1
    BY <2>3 DEF Writes
  <2>5. k - 1 \in 1..n /\ ~(k <= k - 1) /\ k \in 2..Len(u) /\ k \in 2..Len(v)
    BY <1>1, <2>3, <2>4
  <2>6. f[k - 1] = g[k - 1]
    BY <2>2, <2>5
  <2>7. u[k] = v[k]
    BY <2>3
  <2>8. /\ f[k] = f[k - 1] \o (<<Separator>> \o u[k])
        /\ g[k] = g[k - 1] \o (<<Separator>> \o v[k])
    BY <2>5 DEF Writes
  <2>. QED
    BY <2>3, <2>6, <2>7, <2>8
<1>. QED
  BY <1>2

\* One folder's string begins another's exactly when its names begin the other's names:
\* a name cannot go on where the other's ends, because a separator follows.
LEMMA BeginsIffAbove ==
  ASSUME NEW u \in Seq(Words), u # <<>>, NEW f, Writes(f, u),
         NEW v \in Seq(Words), v # <<>>, NEW g, Writes(g, v)
  PROVE  Begins(FolderString(f, Len(u)), FolderString(g, Len(v))) <=> Begins(u, v)
<1>1. Len(u) \in Nat \ {0} /\ Len(v) \in Nat \ {0} /\ Len(u) \in 1..Len(u) /\ Len(v) \in 1..Len(v)
  OBVIOUS
<1>2. Separator \in Chars
  BY DEF Chars
<1>3. /\ \A k \in 1..Len(u) : f[k] \in Seq(Chars) /\ FolderString(f, k) \in Seq(Chars)
      /\ \A k \in 1..Len(v) : g[k] \in Seq(Chars) /\ FolderString(g, k) \in Seq(Chars)
  <2>1. /\ \A k \in 1..Len(u) : f[k] \in Seq(Chars)
        /\ \A k \in 1..Len(v) : g[k] \in Seq(Chars)
    BY DEF Writes
  <2>. QED
    BY <1>2, <2>1 DEF FolderString
<1>4. ASSUME Begins(u, v)
      PROVE  Begins(FolderString(f, Len(u)), FolderString(g, Len(v)))
  <2>1. Len(u) <= Len(v) /\ f[Len(u)] = g[Len(u)]
    BY <1>1, <1>4, SameString DEF Begins
  <2>2. Len(u) \in 1..Len(v)
    BY <1>1, <2>1
  <2>. QED
    BY <2>1, <2>2, FolderBegins DEF FolderString
<1>5. ASSUME Begins(FolderString(f, Len(u)), FolderString(g, Len(v))), ~Begins(u, v)
      PROVE  FALSE
  <2> DEFINE Differ == {k \in 1..Len(u) : k > Len(v) \/ u[k] # v[k]}
  <2>1. Differ # {}
    BY <1>1, <1>5 DEF Begins
  <2>2. PICK k \in Differ : \A j \in Differ : k <= j
    <3>1. Differ \subseteq Nat
      OBVIOUS
    <3> HIDE DEF Differ
    <3>. QED
      BY <2>1, <3>1, LeastNat
  <2>3. k \in 1..Len(u) /\ (k > Len(v) \/ u[k] # v[k])
    OBVIOUS
  <2>4. \A j \in 1..(k - 1) : j \in 1..Len(u) /\ j <= Len(v) /\ u[j] = v[j]
    <3>1. TAKE j \in 1..(k - 1)
    <3>2. j \in 1..Len(u) /\ j \notin Differ
      BY <1>1, <2>2, <2>3
    <3>. QED
      BY <1>1, <3>2
  <2>5. Begins(FolderString(f, k), FolderString(f, Len(u)))
    BY <2>3, FolderBegins
  <2>6. Begins(FolderString(f, k), FolderString(g, Len(v)))
    BY <1>1, <1>3, <1>5, <2>3, <2>5, BeginsChain
  <2>7. u[k] \in Words /\ f[k] \in Seq(Chars)
    BY <1>3, <2>3
  <2>8. k # 1 => k \in 2..Len(u) /\ k - 1 \in 1..(k - 1) /\ k - 1 \in Nat \ {0} /\ k - 1 <= Len(u)
    BY <1>1, <2>3
  <2>9. k # 1 => k - 1 <= Len(v) /\ f[k - 1] = g[k - 1]
    <3>1. SUFFICES ASSUME k # 1 PROVE k - 1 <= Len(v) /\ f[k - 1] = g[k - 1]
      OBVIOUS
    <3>2. k - 1 <= Len(v) /\ \A j \in 1..(k - 1) : u[j] = v[j]
      BY <2>4, <2>8, <3>1
    <3>. QED
      BY <2>8, <3>1, <3>2, SameString
  <2>10. CASE k > Len(v)
    <3>1. k # 1 /\ k - 1 = Len(v)
      BY <1>1, <2>3, <2>9, <2>10
    <3>2. f[k] = FolderString(f, k - 1) \o u[k] /\ u[k] \in Seq(Chars) /\ u[k] # <<>>
      BY <2>7, <2>8, <3>1, NextName DEF Words
    <3>3. FolderString(f, k - 1) = FolderString(g, Len(v)) /\ FolderString(g, Len(v)) \in Seq(Chars)
      BY <1>1, <1>3, <2>9, <3>1 DEF FolderString
    <3>4. Len(FolderString(f, k)) > Len(FolderString(g, Len(v)))
      <4>. PICK w \in Seq(Chars), a \in Seq(Chars) :
             w = FolderString(g, Len(v)) /\ a = u[k] /\ f[k] = w \o a
        BY <3>2, <3>3
      <4>1. Len(f[k]) = Len(FolderString(g, Len(v))) + Len(u[k]) /\ Len(u[k]) \in Nat \ {0}
        <5>1. Len(w \o a) = Len(w) + Len(a)
          OBVIOUS
        <5>. QED
          BY <2>7, <5>1, WordChars
      <4>2. Len(FolderString(f, k)) = Len(f[k]) + 1 /\ Len(FolderString(g, Len(v))) \in Nat
        BY <1>2, <2>7, <3>3 DEF FolderString
      <4>. QED
        BY <4>1, <4>2
    <3>5. Len(FolderString(f, k)) \in Nat /\ Len(FolderString(g, Len(v))) \in Nat
      BY <1>1, <1>3, <2>3
    <3>. QED
      BY <2>6, <3>4, <3>5 DEF Begins
  <2>11. CASE k <= Len(v) /\ u[k] # v[k]
    <3>1. k \in 1..Len(v) /\ v[k] \in Words
      BY <1>1, <2>3, <2>11
    <3>2. Begins(FolderString(g, k), FolderString(g, Len(v)))
      BY <3>1, FolderBegins
    <3>3. PICK x \in Seq(Chars) : f[k] = x \o u[k] /\ g[k] = x \o v[k]
      <4>1. CASE k = 1
        <5>1. f[1] = <<>> \o u[1] /\ g[1] = <<>> \o v[1] /\ <<>> \in Seq(Chars)
          <6>1. f[1] = u[1] /\ g[1] = v[1]
            BY DEF Writes
          <6>2. u[1] \in Seq(Letters) /\ v[1] \in Seq(Letters)
            BY <2>7, <3>1, <4>1 DEF Words
          <6>3. \A s \in Seq(Letters) : <<>> \o s = s
            OBVIOUS
          <6>. QED
            BY <6>1, <6>2, <6>3
        <5>. QED
          BY <4>1, <5>1
      <4>2. CASE k # 1
        <5>1. k \in 2..Len(v)
          BY <1>1, <3>1, <4>2
        <5>2. f[k] = FolderString(f, k - 1) \o u[k] /\ FolderString(f, k - 1) \in Seq(Chars)
          BY <2>8, <4>2, NextName
        <5>3. g[k] = FolderString(g, k - 1) \o v[k]
          BY <5>1, NextName
        <5>4. FolderString(f, k - 1) = FolderString(g, k - 1)
          BY <2>9, <4>2 DEF FolderString
        <5>. QED
          BY <5>2, <5>3, <5>4
      <4>. QED
        BY <4>1, <4>2
    <3>4. u[k] = v[k]
      <4>1. FolderString(f, k) = Append(x \o u[k], Separator) /\ FolderString(g, k) = Append(x \o v[k], Separator)
        BY <3>3 DEF FolderString
      <4>. QED
        BY <1>1, <1>3, <2>6, <2>7, <3>1, <3>2, <4>1, SameWord
    <3>. QED
      BY <2>11, <3>4
  <2>. QED
    BY <1>1, <2>3, <2>10, <2>11
<1>. QED
  BY <1>4, <1>5

----------------------------------------------------------------------------
(* Case.                                                                    *)

\* ::tolower goes from letters to letters, and leaves the separator alone.
LEMMA LowerCharIs ==
  /\ Separator \notin Letters /\ LowerChar(Separator) = Separator
  /\ \A c \in Letters : LowerChar(c) \in Letters
  /\ \A c \in Chars : LowerChar(c) \in Chars /\ (LowerChar(c) = Separator <=> c = Separator)
<1>1. Separator \notin Letters
  BY LettersAssumption DEF Separator
<1>2. \A c \in Letters : LowerChar(c) \in Letters
  BY LettersAssumption DEF LowerChar
<1>3. LowerChar(Separator) = Separator
  BY <1>1, LettersAssumption DEF LowerChar
<1>. QED
  BY <1>1, <1>2, <1>3 DEF Chars

LEMMA LowerIs ==
  ASSUME NEW S, NEW s \in Seq(S)
  PROVE  /\ DOMAIN Lower(s) = 1..Len(s) /\ Len(Lower(s)) = Len(s)
         /\ \A i \in 1..Len(s) : Lower(s)[i] = LowerChar(s[i])
         /\ \A T : (\A i \in 1..Len(s) : LowerChar(s[i]) \in T) => Lower(s) \in Seq(T)
<1>1. DOMAIN s = 1..Len(s) /\ Len(s) \in Nat
  OBVIOUS
<1>2. Lower(s) = [i \in 1..Len(s) |-> LowerChar(s[i])]
  BY <1>1 DEF Lower
<1>3. Lower(s) \in Seq({LowerChar(s[i]) : i \in 1..Len(s)})
  BY <1>1, <1>2
<1>4. DOMAIN Lower(s) = 1..Len(s) /\ \A i \in 1..Len(s) : Lower(s)[i] = LowerChar(s[i])
  BY <1>2
<1>5. Len(Lower(s)) = Len(s)
  BY <1>1, <1>3, <1>4
<1>6. ASSUME NEW T, \A i \in 1..Len(s) : LowerChar(s[i]) \in T
      PROVE  Lower(s) \in Seq(T)
  BY <1>1, <1>2, <1>6
<1>. QED
  BY <1>4, <1>5, <1>6

LEMMA LowerChars ==
  ASSUME NEW s \in Seq(Chars)
  PROVE  Lower(s) \in Seq(Chars)
<1>1. \A i \in 1..Len(s) : LowerChar(s[i]) \in Chars
  <2>1. \A i \in 1..Len(s) : s[i] \in Chars
    OBVIOUS
  <2>. QED
    BY <2>1, LowerCharIs
<1>. QED
  BY <1>1, LowerIs

LEMMA LowerWord ==
  ASSUME NEW s \in Words
  PROVE  Lower(s) \in Words
<1>1. s \in Seq(Letters) /\ Len(s) \in Nat \ {0}
  BY WordChars
<1>2. \A i \in 1..Len(s) : LowerChar(s[i]) \in Letters
  <2>1. \A i \in 1..Len(s) : s[i] \in Letters
    BY <1>1
  <2>. QED
    BY <2>1, LowerCharIs
<1>3. Lower(s) \in Seq(Letters) /\ Len(Lower(s)) = Len(s)
  BY <1>1, <1>2, LowerIs
<1>4. Lower(s) # <<>>
  BY <1>1, <1>3
<1>. QED
  BY <1>3, <1>4 DEF Words

LEMMA LowerAppend ==
  ASSUME NEW S, NEW s \in Seq(S), NEW c
  PROVE  Lower(Append(s, c)) = Append(Lower(s), LowerChar(c))
<1> DEFINE all == S \cup {c} \cup {LowerChar(d) : d \in S \cup {c}}
           l == Lower(Append(s, c))
           m == Append(Lower(s), LowerChar(c))
<1>1. s \in Seq(all) /\ Len(s) \in Nat /\ Append(s, c) \in Seq(all) /\ Len(Append(s, c)) = Len(s) + 1
  <2>1. s \in Seq(all)
    OBVIOUS
  <2>. QED
    BY <2>1
<1>2. \A i \in 1..Len(s) + 1 : Append(s, c)[i] = IF i = Len(s) + 1 THEN c ELSE s[i]
  BY <1>1
<1>3. \A i \in 1..Len(s) + 1 : Append(s, c)[i] \in S \cup {c}
  BY <1>2
<1>4. l \in Seq(all) /\ Len(l) = Len(s) + 1 /\ \A i \in 1..Len(s) + 1 : l[i] = LowerChar(Append(s, c)[i])
  <2>1. \A i \in 1..Len(Append(s, c)) : LowerChar(Append(s, c)[i]) \in all
    BY <1>1, <1>3
  <2>. QED
    BY <1>1, <2>1, LowerIs
<1>5. Lower(s) \in Seq(all) /\ Len(Lower(s)) = Len(s) /\ \A i \in 1..Len(s) : Lower(s)[i] = LowerChar(s[i])
  <2>1. \A i \in 1..Len(s) : LowerChar(s[i]) \in all
    OBVIOUS
  <2>. QED
    BY <1>1, <2>1, LowerIs
<1>6. LowerChar(c) \in all
  OBVIOUS
<1> HIDE DEF all
<1>7. m \in Seq(all) /\ Len(m) = Len(s) + 1
      /\ \A i \in 1..Len(s) + 1 : m[i] = IF i = Len(s) + 1 THEN LowerChar(c) ELSE Lower(s)[i]
  BY <1>1, <1>5, <1>6
<1>8. \A i \in 1..Len(s) + 1 : l[i] = m[i]
  BY <1>1, <1>2, <1>4, <1>5, <1>7
<1> HIDE DEF l, m
<1>9. l = m
  BY <1>1, <1>4, <1>7, <1>8
<1>. QED
  BY <1>9 DEF l, m

LEMMA JoinIs ==
  ASSUME NEW s \in Seq(Chars), NEW t \in Seq(Chars)
  PROVE  /\ s \o t \in Seq(Chars) /\ Len(s \o t) = Len(s) + Len(t)
         /\ \A i \in 1..Len(s) + Len(t) :
              (s \o t)[i] = IF i <= Len(s) THEN s[i] ELSE t[i - Len(s)]
OBVIOUS

LEMMA LowerJoin ==
  ASSUME NEW s \in Seq(Chars), NEW t \in Seq(Chars)
  PROVE  Lower(s \o t) = Lower(s) \o Lower(t)
<1> DEFINE l == Lower(s \o t)
           m == Lower(s) \o Lower(t)
<1>1. /\ s \o t \in Seq(Chars) /\ Len(s) \in Nat /\ Len(t) \in Nat /\ Len(s \o t) = Len(s) + Len(t)
      /\ \A i \in 1..Len(s) + Len(t) :
           (s \o t)[i] = IF i <= Len(s) THEN s[i] ELSE t[i - Len(s)]
  OBVIOUS
<1>2. l \in Seq(Chars) /\ Len(l) = Len(s) + Len(t) /\ \A i \in 1..Len(s) + Len(t) : l[i] = LowerChar((s \o t)[i])
  BY <1>1, LowerIs, LowerChars
<1>3. /\ Lower(s) \in Seq(Chars) /\ Len(Lower(s)) = Len(s) /\ \A i \in 1..Len(s) : Lower(s)[i] = LowerChar(s[i])
      /\ Lower(t) \in Seq(Chars) /\ Len(Lower(t)) = Len(t) /\ \A i \in 1..Len(t) : Lower(t)[i] = LowerChar(t[i])
  BY LowerIs, LowerChars
<1>4. /\ m \in Seq(Chars) /\ Len(m) = Len(s) + Len(t)
      /\ \A i \in 1..Len(s) + Len(t) :
           m[i] = IF i <= Len(s) THEN Lower(s)[i] ELSE Lower(t)[i - Len(s)]
  <2>1. PICK a \in Seq(Chars), b \in Seq(Chars) : a = Lower(s) /\ b = Lower(t)
    BY <1>3
  <2>2. /\ a \o b \in Seq(Chars) /\ Len(a \o b) = Len(a) + Len(b)
        /\ \A i \in 1..Len(a) + Len(b) : (a \o b)[i] = IF i <= Len(a) THEN a[i] ELSE b[i - Len(a)]
    BY JoinIs
  <2>3. m = a \o b /\ Len(a) = Len(s) /\ Len(b) = Len(t)
    BY <1>3, <2>1
  <2>. QED
    BY <2>1, <2>2, <2>3
<1>5. ASSUME NEW i \in 1..Len(s) + Len(t)
      PROVE  l[i] = m[i]
  <2>1. CASE i <= Len(s)
    <3>1. i \in 1..Len(s)
      BY <1>1, <2>1
    <3>. QED
      BY <1>1, <1>2, <1>3, <1>4, <2>1, <3>1
  <2>2. CASE ~(i <= Len(s))
    <3>1. i - Len(s) \in 1..Len(t)
      BY <1>1, <2>2
    <3>. QED
      BY <1>1, <1>2, <1>3, <1>4, <2>2, <3>1
  <2>. QED
    BY <2>1, <2>2
<1> HIDE DEF l, m
<1>6. l = m
  BY <1>1, <1>2, <1>4, <1>5
<1>. QED
  BY <1>6 DEF l, m

\* Whether a string ends with the separator is the same in both cases, so that the order
\* of the two normalisations does not matter.
LEMMA EndAndCase ==
  ASSUME NEW s \in Seq(Chars), s # <<>>
  PROVE  EndWithSeparator(Lower(s)) = Lower(EndWithSeparator(s))
<1>1. Len(s) \in Nat \ {0} /\ s[Len(s)] \in Chars
  OBVIOUS
<1>2. Last(Lower(s)) = LowerChar(Last(s))
  BY <1>1, LowerIs DEF Last
<1>3. Last(Lower(s)) = Separator <=> Last(s) = Separator
  BY <1>1, <1>2, LowerCharIs DEF Last
<1>4. Lower(Append(s, Separator)) = Append(Lower(s), Separator)
  BY LowerAppend, LowerCharIs
<1>. QED
  BY <1>3, <1>4 DEF EndWithSeparator

----------------------------------------------------------------------------
(* Places.                                                                  *)

LEMMA PlaceIs ==
  ASSUME NEW place \in Places
  PROVE  place \in Seq(Words) /\ place # <<>> /\ DOMAIN place = 1..Len(place) /\ Len(place) \in Nat \ {0}
<1>1. PICK n \in 1..MaxDepth : place \in [1..n -> Names]
  BY DEF Places
<1>2. n \in Nat \ {0} /\ Names \subseteq Words
  BY LettersAssumption DEF Words
<1>3. place \in Seq(Words)
  BY <1>1, <1>2
<1>. QED
  BY <1>1, <1>2, <1>3

\* Both spellings of a place, of which one ends with the separator.
LEMMA SpellingsAre ==
  ASSUME NEW place \in Places
  PROVE  \E f : /\ Writes(f, place)
                /\ f[Len(place)] \in Seq(Chars) /\ f[Len(place)] # <<>>
                /\ Last(f[Len(place)]) # Separator
                /\ Spellings(place) = {f[Len(place)], FolderString(f, Len(place))}
<1> DEFINE n == Len(place)
           parts == [i \in DOMAIN place |-> IF i = 1 THEN place[i] ELSE <<Separator>> \o place[i]]
<1>1. place \in Seq(Words) /\ DOMAIN place = 1..n /\ n \in Nat \ {0}
  BY PlaceIs
<1>2. Separator \in Chars
  BY DEF Chars
<1>3. \A i \in 1..n : place[i] \in Words /\ place[i] \in Seq(Chars)
  BY <1>1, WordChars
<1>4. \A i \in 1..n : parts[i] \in Seq(Chars)
  <2>1. \A i \in 1..n : <<Separator>> \o place[i] \in Seq(Chars)
    BY <1>2, <1>3
  <2>. QED
    BY <1>1, <1>3, <2>1
<1>5. parts \in Seq(Seq(Chars)) /\ Len(parts) = n /\ parts # <<>>
  BY <1>1, <1>4
<1>6. PICK f \in [1..n -> Seq(Chars)] :
        /\ f[1] = parts[1]
        /\ \A i \in 2..n : f[i] = f[i - 1] \o parts[i]
        /\ FlattenSeq(parts) = f[n]
  <2>1. PICK q \in Seq(Seq(Chars)) : q = parts
    BY <1>5
  <2>2. \E f \in [1..Len(q) -> Seq(Chars)] :
          /\ f[1] = q[1]
          /\ \A i \in 2..Len(q) : f[i] = f[i - 1] \o q[i]
          /\ FlattenSeq(q) = f[Len(q)]
    BY <1>5, <2>1, FlattenSteps
  <2>. QED
    BY <1>5, <2>1, <2>2
<1>7. parts[1] = place[1] /\ \A i \in 2..n : parts[i] = <<Separator>> \o place[i]
  BY <1>1
<1>8. Writes(f, place)
  BY <1>6, <1>7 DEF Writes
<1>9. Spellings(place) = {f[n], FolderString(f, n)}
  BY <1>6 DEF Spellings, FolderString
<1>10. PICK x \in Seq(Chars) : f[n] = x \o place[n]
  <2>1. CASE n = 1
    <3>1. <<>> \o place[1] = place[1] /\ <<>> \in Seq(Chars)
      BY <1>1, <1>3, <2>1
    <3>. QED
      BY <1>8, <2>1, <3>1 DEF Writes
  <2>2. CASE n # 1
    <3>1. n \in 2..Len(place)
      BY <1>1, <2>2
    <3>. QED
      BY <1>1, <1>8, <3>1, NextName
  <2>. QED
    BY <2>1, <2>2
<1>11. f[n] \in Seq(Chars) /\ f[n] # <<>> /\ Last(f[n]) # Separator
  <2>1. PICK w \in Words : w = place[n]
    BY <1>1, <1>3
  <2>2. w \in Seq(Letters) /\ w \in Seq(Chars) /\ Len(w) \in Nat \ {0} /\ Len(x) \in Nat
    BY WordChars
  <2>3. w[Len(w)] \in Letters
    BY <2>2
  <2>4. Len(x \o w) = Len(x) + Len(w) /\ x \o w \in Seq(Chars) /\ (x \o w)[Len(x) + Len(w)] = w[Len(w)]
    BY <2>2
  <2>5. Last(x \o w) # Separator /\ x \o w # <<>>
    BY <2>2, <2>3, <2>4, LowerCharIs DEF Last
  <2>. QED
    BY <1>10, <2>1, <2>4, <2>5
<1>. QED
  BY <1>8, <1>9, <1>11

\* With the separator at its end, every spelling of a place is its folder's string.
LEMMA EndedSpelling ==
  ASSUME NEW place \in Places
  PROVE  \E f : /\ Writes(f, place) /\ FolderString(f, Len(place)) \in Seq(Chars)
                /\ \A s \in Spellings(place) :
                     /\ s \in Seq(Chars) /\ s # <<>>
                     /\ EndWithSeparator(s) = FolderString(f, Len(place))
                     /\ EndWithSeparator(s) \in Spellings(place)
<1>1. PICK f : /\ Writes(f, place)
               /\ f[Len(place)] \in Seq(Chars) /\ f[Len(place)] # <<>>
               /\ Last(f[Len(place)]) # Separator
               /\ Spellings(place) = {f[Len(place)], FolderString(f, Len(place))}
  BY SpellingsAre
<1>2. PICK b \in Seq(Chars) : b = f[Len(place)]
  BY <1>1
<1>3. Separator \in Chars
  BY DEF Chars
<1>4. /\ Append(b, Separator) \in Seq(Chars) /\ Append(b, Separator) # <<>>
      /\ Last(Append(b, Separator)) = Separator
  BY <1>3 DEF Last
<1>5. EndWithSeparator(b) = Append(b, Separator)
      /\ EndWithSeparator(Append(b, Separator)) = Append(b, Separator)
  BY <1>1, <1>2, <1>4 DEF EndWithSeparator
<1>6. FolderString(f, Len(place)) = Append(b, Separator)
  BY <1>2 DEF FolderString
<1>. QED
  BY <1>1, <1>2, <1>4, <1>5, <1>6

\* The place without regard to case.
Lowered(place) == [i \in DOMAIN place |-> Lower(place[i])]

LEMMA LoweredWrites ==
  ASSUME NEW place \in Places, NEW f, Writes(f, place)
  PROVE  \E g : /\ Writes(g, Lowered(place))
                /\ Lower(FolderString(f, Len(place))) = FolderString(g, Len(place))
                /\ Lowered(place) \in Seq(Words) /\ Len(Lowered(place)) = Len(place)
<1> DEFINE n == Len(place)
           g == [i \in 1..n |-> Lower(f[i])]
<1>1. place \in Seq(Words) /\ DOMAIN place = 1..n /\ n \in Nat \ {0}
  BY PlaceIs
<1>2. \A i \in 1..n : place[i] \in Words /\ place[i] \in Seq(Chars) /\ f[i] \in Seq(Chars)
  <2>1. \A i \in 1..n : place[i] \in Words
    BY <1>1
  <2>2. \A i \in 1..n : f[i] \in Seq(Chars)
    BY DEF Writes
  <2>. QED
    BY <2>1, <2>2, WordChars
<1>3. Lowered(place) = [i \in 1..n |-> Lower(place[i])] /\ \A i \in 1..n : Lower(place[i]) \in Words
  BY <1>1, <1>2, LowerWord DEF Lowered
<1>4. Lowered(place) \in Seq(Words) /\ Len(Lowered(place)) = n
  BY <1>1, <1>3
<1>5. g \in [1..n -> Seq(Chars)]
  BY <1>2, LowerChars
<1>6. g[1] = Lowered(place)[1]
  BY <1>1, <1>3 DEF Writes
<1>7. ASSUME NEW i \in 2..n
      PROVE  g[i] = g[i - 1] \o (<<Separator>> \o Lowered(place)[i])
  <2>1. i \in 1..n /\ i - 1 \in 1..n
    BY <1>1
  <2>2. f[i] = f[i - 1] \o (<<Separator>> \o place[i])
    BY DEF Writes
  <2>3. <<Separator>> \in Seq(Chars) /\ <<Separator>> \o place[i] \in Seq(Chars)
    BY <1>2, <2>1 DEF Chars
  <2>4. Lower(<<Separator>>) = <<Separator>>
    BY LowerCharIs DEF Lower
  <2>5. Lower(f[i]) = Lower(f[i - 1]) \o Lower(<<Separator>> \o place[i])
    BY <1>2, <2>1, <2>2, <2>3, LowerJoin
  <2>6. Lower(<<Separator>> \o place[i]) = <<Separator>> \o Lower(place[i])
    <3>1. PICK a \in Seq(Chars), b \in Seq(Chars) : a = <<Separator>> /\ b = place[i]
      BY <1>2, <2>1, <2>3
    <3>2. Lower(a \o b) = Lower(a) \o Lower(b)
      BY LowerJoin
    <3>. QED
      BY <2>4, <3>1, <3>2
  <2>. QED
    BY <1>3, <2>1, <2>5, <2>6
<1>8. Writes(g, Lowered(place))
  BY <1>4, <1>5, <1>6, <1>7 DEF Writes
<1>9. Lower(FolderString(f, n)) = FolderString(g, n)
  <2>1. n \in 1..n /\ f[n] \in Seq(Chars) /\ g[n] = Lower(f[n])
    BY <1>1, <1>2
  <2>. QED
    BY <2>1, LowerAppend, LowerCharIs DEF FolderString
<1>. QED
  BY <1>4, <1>8, <1>9

\* What the code can tell: one place lies within another once both are in lower case.
Beneath(place, top) == /\ Len(top) <= Len(place)
                       /\ \A i \in 1..Len(top) : Lower(place[i]) = Lower(top[i])

\* It does exactly when the other's names begin its own.
LEMMA BeneathBegins ==
  ASSUME NEW p \in Places, NEW r \in Places
  PROVE  Beneath(p, r) <=> Begins(Lowered(r), Lowered(p))
<1>1. /\ DOMAIN p = 1..Len(p) /\ Len(p) \in Nat /\ DOMAIN r = 1..Len(r) /\ Len(r) \in Nat
      /\ Len(Lowered(p)) = Len(p) /\ Len(Lowered(r)) = Len(r)
  <2>1. \A q \in Places : Len(Lowered(q)) = Len(q)
    <3>1. TAKE q \in Places
    <3>2. DOMAIN q = 1..Len(q) /\ Len(q) \in Nat
      BY PlaceIs
    <3>3. Lowered(q) = [i \in 1..Len(q) |-> Lower(q[i])]
      BY <3>2 DEF Lowered
    <3>. QED
      BY <3>2, <3>3
  <2>. QED
    BY <2>1, PlaceIs
<1>2. /\ \A i \in 1..Len(p) : Lowered(p)[i] = Lower(p[i])
      /\ \A i \in 1..Len(r) : Lowered(r)[i] = Lower(r[i])
  BY <1>1 DEF Lowered
<1>3. Len(r) <= Len(p) => \A i \in 1..Len(r) : i \in 1..Len(p)
  BY <1>1
<1>. QED
  BY <1>1, <1>2, <1>3 DEF Beneath, Begins

\* However a place is spelled, its normal form is one folder string.
LEMMA OneNormalForm ==
  ASSUME NEW place \in Places
  PROVE  \E g : /\ Writes(g, Lowered(place))
                /\ Lowered(place) \in Seq(Words) /\ Lowered(place) # <<>> /\ Len(Lowered(place)) = Len(place)
                /\ FolderString(g, Len(place)) \in Seq(Chars)
                /\ \A s \in Spellings(place) :
                     /\ EndWithSeparator(Lower(s)) = FolderString(g, Len(place))
                     /\ NormalizeRoot(s) = FolderString(g, Len(place))
<1>1. PICK f : /\ Writes(f, place) /\ FolderString(f, Len(place)) \in Seq(Chars)
               /\ \A s \in Spellings(place) :
                    /\ s \in Seq(Chars) /\ s # <<>>
                    /\ EndWithSeparator(s) = FolderString(f, Len(place))
  BY EndedSpelling
<1>2. PICK g : /\ Writes(g, Lowered(place))
               /\ Lower(FolderString(f, Len(place))) = FolderString(g, Len(place))
               /\ Lowered(place) \in Seq(Words) /\ Len(Lowered(place)) = Len(place)
  BY <1>1, LoweredWrites
<1>3. Lowered(place) # <<>>
  <2>1. Len(Lowered(place)) # 0
    BY <1>2, PlaceIs
  <2>. QED
    BY <2>1
<1>4. FolderString(g, Len(place)) \in Seq(Chars)
  BY <1>1, <1>2, LowerChars
<1>5. ASSUME NEW s \in Spellings(place)
      PROVE  /\ EndWithSeparator(Lower(s)) = FolderString(g, Len(place))
             /\ NormalizeRoot(s) = FolderString(g, Len(place))
  BY <1>1, <1>2, EndAndCase DEF NormalizeRoot
<1>. QED
  BY <1>2, <1>3, <1>4, <1>5

\* Comparing strings by prefix compares places by names, however both are spelled.
LEMMA AncestorIffBeneath ==
  ASSUME NEW p \in Places, NEW r \in Places, NEW s \in Spellings(p), NEW t \in Spellings(r)
  PROVE  /\ StartsWith(Lower(s), NormalizeRoot(t)) <=> Beneath(p, r)
         /\ StartsWith(Lower(EndWithSeparator(s)), NormalizeRoot(t)) <=> Beneath(p, r)
<1>1. PICK g : /\ Writes(g, Lowered(p))
               /\ Lowered(p) \in Seq(Words) /\ Lowered(p) # <<>> /\ Len(Lowered(p)) = Len(p)
               /\ FolderString(g, Len(p)) \in Seq(Chars)
               /\ \A q \in Spellings(p) : EndWithSeparator(Lower(q)) = FolderString(g, Len(p))
  BY OneNormalForm
<1>2. PICK h : /\ Writes(h, Lowered(r))
               /\ Lowered(r) \in Seq(Words) /\ Lowered(r) # <<>> /\ Len(Lowered(r)) = Len(r)
               /\ FolderString(h, Len(r)) \in Seq(Chars)
               /\ \A q \in Spellings(r) : NormalizeRoot(q) = FolderString(h, Len(r))
  BY OneNormalForm
<1>3. Begins(FolderString(h, Len(r)), FolderString(g, Len(p))) <=> Beneath(p, r)
  BY <1>1, <1>2, BeginsIffAbove, BeneathBegins
<1>4. IsPrefix(FolderString(h, Len(r)), FolderString(g, Len(p))) <=> Beneath(p, r)
  BY <1>1, <1>2, <1>3, PrefixBegins
<1>5. EndWithSeparator(s) \in Spellings(p)
  BY EndedSpelling
<1>. QED
  BY <1>1, <1>2, <1>4, <1>5 DEF StartsWith

\* What getSandbox makes of a sandbox's name is the normal form of its folder.
LEMMA SandboxFolderIs ==
  ASSUME NEW place \in Places, NEW t \in Spellings(place)
  PROVE  /\ SandboxFolder(SandboxId(t)) = NormalizeRoot(t)
         /\ SubSeq(SandboxId(t), 1, Len(SandboxId(t)) - 1) = NormalizeRoot(t)
         /\ SandboxId(t) # <<>>
<1>1. PICK f : /\ f[Len(place)] \in Seq(Chars) /\ f[Len(place)] # <<>>
               /\ Last(f[Len(place)]) # Separator
               /\ Spellings(place) = {f[Len(place)], FolderString(f, Len(place))}
  BY SpellingsAre
<1>2. PICK b \in Seq(Chars) : b = f[Len(place)]
  BY <1>1
<1>3. Separator \in Chars
  BY DEF Chars
<1>4. EndWithSeparator(t) = Append(b, Separator)
  <2>1. Last(Append(b, Separator)) = Separator
    BY <1>3 DEF Last
  <2>. QED
    BY <1>1, <1>2, <2>1 DEF EndWithSeparator, FolderString
<1> DEFINE l == Lower(b)
           c == LowerChar(ProjectFile)
<1>5. NormalizeRoot(t) = Append(l, Separator)
  BY <1>4, LowerAppend, LowerCharIs DEF NormalizeRoot
<1>6. SandboxId(t) = Append(Append(l, Separator), c)
  <2>1. Append(b, Separator) \in Seq(Chars)
    BY <1>3
  <2>2. Lower(Append(Append(b, Separator), ProjectFile)) = Append(Lower(Append(b, Separator)), c)
    BY <2>1, LowerAppend
  <2>. QED
    BY <1>4, <1>5, <2>2 DEF SandboxId, NormalizeRoot
<1>7. l \in Seq(Chars) /\ l # <<>> /\ Last(l) # Separator
  <2>1. Len(b) \in Nat \ {0} /\ b[Len(b)] \in Chars /\ b[Len(b)] # Separator
    BY <1>1, <1>2 DEF Last
  <2>2. l \in Seq(Chars) /\ Len(l) = Len(b) /\ l[Len(b)] = LowerChar(b[Len(b)])
    BY <2>1, LowerChars, LowerIs
  <2>3. l # <<>>
    BY <2>1, <2>2
  <2>. QED
    BY <2>1, <2>2, <2>3, LowerCharIs DEF Last
<1> HIDE DEF l, c
<1>8. \A x \in Seq(Chars \cup {c}) :
        /\ SubSeq(Append(Append(x, Separator), c), 1, Len(Append(Append(x, Separator), c)) - 2) = x
        /\ SubSeq(Append(Append(x, Separator), c), 1, Len(Append(Append(x, Separator), c)) - 1) = Append(x, Separator)
        /\ Append(Append(x, Separator), c) # <<>>
  <2>1. TAKE x \in Seq(Chars \cup {c})
  <2> DEFINE y == Append(x, Separator)
             z == Append(y, c)
  <2>2. /\ y \in Seq(Chars \cup {c}) /\ Len(y) = Len(x) + 1 /\ Len(x) \in Nat
        /\ \A i \in 1..Len(x) : y[i] = x[i]
    BY <1>3
  <2>3. z \in Seq(Chars \cup {c}) /\ Len(z) = Len(x) + 2 /\ \A i \in 1..Len(y) : z[i] = y[i]
    <3>1. c \in Chars \cup {c}
      OBVIOUS
    <3> HIDE DEF y
    <3>. QED
      BY <2>2, <3>1
  <2> HIDE DEF y, z
  <2>4. SubSeq(z, 1, Len(y)) = y
    BY <2>2, <2>3
  <2>5. SubSeq(z, 1, Len(x)) = x
    BY <2>2, <2>3
  <2>6. z # <<>>
    BY <2>2, <2>3
  <2>7. Len(z) - 2 = Len(x) /\ Len(z) - 1 = Len(y)
    BY <2>2, <2>3
  <2>. QED
    BY <2>4, <2>5, <2>6, <2>7 DEF y, z
<1>9. l \in Seq(Chars \cup {c})
  BY <1>7
<1>. QED
  BY <1>5, <1>6, <1>7, <1>8, <1>9 DEF SandboxFolder, EndWithSeparator

LEMMA SpelledIs ==
  ASSUME NEW place \in Places, NEW ended \in BOOLEAN
  PROVE  Spelled(place, ended) \in Spellings(place)
<1>1. PICK f : /\ f[Len(place)] \in Seq(Chars)
               /\ Last(f[Len(place)]) # Separator
               /\ Spellings(place) = {f[Len(place)], FolderString(f, Len(place))}
  BY SpellingsAre
<1>2. Last(FolderString(f, Len(place))) = Separator
  <2>1. Separator \in Chars
    BY DEF Chars
  <2>. QED
    BY <1>1, <2>1 DEF FolderString, Last
<1>3. \E s \in Spellings(place) : (Last(s) = Separator) <=> ended
  BY <1>1, <1>2
<1>. QED
  BY <1>3 DEF Spelled

LEMMA BeneathItself ==
  ASSUME NEW place \in Places
  PROVE  Beneath(place, place)
BY PlaceIs DEF Beneath

\* Names that are the same in lower case are the same name to Windows, and the same
\* name is the same in lower case if only the case of ASCII letters differs.
LEMMA LowerNames ==
  ASSUME NEW m \in Words, NEW n \in Words
  PROVE  /\ Lower(m) = Lower(n) => SameName(m, n)
         /\ SameName(m, n) /\ AlikeName(m, n) => Lower(m) = Lower(n)
<1>1. /\ m \in Seq(Letters) /\ DOMAIN m = 1..Len(m) /\ \A i \in DOMAIN m : m[i] \in Letters
      /\ n \in Seq(Letters) /\ DOMAIN n = 1..Len(n) /\ \A i \in DOMAIN n : n[i] \in Letters
  BY WordChars
<1>2. \A c, d \in Letters : LowerChar(c) = LowerChar(d) => Fold[c] = Fold[d]
  BY LettersAssumption DEF LowerChar
<1>3. \A c, d \in Letters : Fold[c] = Fold[d] /\ (c = d \/ (c \in Ascii /\ d \in Ascii))
                              => LowerChar(c) = LowerChar(d)
  BY DEF LowerChar
<1>4. Lower(m) = [i \in DOMAIN m |-> LowerChar(m[i])] /\ Lower(n) = [i \in DOMAIN n |-> LowerChar(n[i])]
  BY DEF Lower
<1>5. Folded(m) = [i \in DOMAIN m |-> Fold[m[i]]] /\ Folded(n) = [i \in DOMAIN n |-> Fold[n[i]]]
  BY DEF Folded
<1>6. ASSUME Lower(m) = Lower(n)
      PROVE  SameName(m, n)
  <2>1. DOMAIN m = DOMAIN n
    BY <1>4, <1>6
  <2>2. \A i \in DOMAIN m : LowerChar(m[i]) = LowerChar(n[i])
    BY <1>4, <1>6, <2>1
  <2>3. \A i \in DOMAIN m : Fold[m[i]] = Fold[n[i]]
    BY <1>1, <1>2, <2>1, <2>2
  <2>. QED
    BY <1>5, <2>1, <2>3 DEF SameName
<1>7. ASSUME SameName(m, n), AlikeName(m, n)
      PROVE  Lower(m) = Lower(n)
  <2>1. DOMAIN m = DOMAIN n
    BY <1>5, <1>7 DEF SameName
  <2>2. \A i \in DOMAIN m : Fold[m[i]] = Fold[n[i]]
    BY <1>5, <1>7, <2>1 DEF SameName
  <2>3. \A i \in DOMAIN m : LowerChar(m[i]) = LowerChar(n[i])
    BY <1>1, <1>3, <1>7, <2>1, <2>2 DEF AlikeName
  <2>. QED
    BY <1>4, <2>1, <2>3
<1>. QED
  BY <1>6, <1>7

LEMMA BeneathIs ==
  ASSUME NEW p \in Places, NEW r \in Places
  PROVE  /\ Beneath(p, r) => Within(p, r)
         /\ Within(p, r) /\ Alike(p, r) => Beneath(p, r)
<1>1. Len(p) \in Nat /\ Len(r) \in Nat /\ p \in Seq(Words) /\ r \in Seq(Words)
  BY PlaceIs
<1>2. Len(r) <= Len(p) => \A i \in 1..Len(r) : p[i] \in Words /\ r[i] \in Words
  BY <1>1
<1>. QED
  BY <1>2, LowerNames DEF Beneath, Within, Alike

\* Different root folders differ by more than case, so that their sandboxes differ.
LEMMA OneSandboxPerFolder ==
  ASSUME NEW p \in Places, NEW q \in Places, NEW s \in Spellings(p), NEW t \in Spellings(q),
         SandboxId(s) = SandboxId(t)
  PROVE  Len(p) = Len(q) /\ Within(p, q)
<1>1. NormalizeRoot(s) = NormalizeRoot(t)
  BY SandboxFolderIs
<1>2. Beneath(p, q) /\ Beneath(q, p)
  BY <1>1, AncestorIffBeneath, BeneathItself
<1>3. Len(p) \in Nat /\ Len(q) \in Nat
  BY PlaceIs
<1>. QED
  BY <1>2, <1>3, BeneathIs DEF Beneath

----------------------------------------------------------------------------
(* The lists.                                                               *)

\* What the two lists hold, folder by folder.
ListsKnown(name) ==
  /\ roots \subseteq Places
  /\ \A r \in roots : name[r] \in Spellings(r)
  /\ rootFolders = {NormalizeRoot(name[r]) : r \in roots}
  /\ sandboxes = {SandboxId(name[r]) : r \in roots}
  /\ \A p, q \in roots : SandboxId(name[p]) = SandboxId(name[q]) => p = q

LEMMA FetchedKnown ==
  ASSUME FetchNewValue
  PROVE  \E name : ListsKnown(name)
<1>1. PICK n \in 0..MaxSandboxes : \E tops \in [1..n -> Places] :
        /\ roots = Range(tops)
        /\ \A p, q \in roots : Len(p) = Len(q) /\ Within(p, q) => p = q
        /\ \E ended \in [roots -> BOOLEAN] :
             /\ rootFolders = {NormalizeRoot(Spelled(r, ended[r])) : r \in roots}
             /\ sandboxes = {SandboxId(Spelled(r, ended[r])) : r \in roots}
  BY DEF FetchNewValue
<1>2. PICK tops \in [1..n -> Places] :
        /\ roots = Range(tops)
        /\ \A p, q \in roots : Len(p) = Len(q) /\ Within(p, q) => p = q
        /\ \E ended \in [roots -> BOOLEAN] :
             /\ rootFolders = {NormalizeRoot(Spelled(r, ended[r])) : r \in roots}
             /\ sandboxes = {SandboxId(Spelled(r, ended[r])) : r \in roots}
  BY <1>1
<1>3. roots \subseteq Places
  BY <1>2 DEF Range
<1>4. PICK ended \in [roots -> BOOLEAN] :
        /\ roots \subseteq Places
        /\ \A p, q \in roots : Len(p) = Len(q) /\ Within(p, q) => p = q
        /\ rootFolders = {NormalizeRoot(Spelled(r, ended[r])) : r \in roots}
        /\ sandboxes = {SandboxId(Spelled(r, ended[r])) : r \in roots}
  BY <1>2, <1>3
<1> DEFINE name == [r \in roots |-> Spelled(r, ended[r])]
<1>5. roots \subseteq Places /\ \A r \in roots : name[r] \in Spellings(r) /\ name[r] = Spelled(r, ended[r])
  BY <1>4, SpelledIs
<1> HIDE DEF name
<1>6. ASSUME NEW r \in roots, NEW t \in roots, SandboxId(name[r]) = SandboxId(name[t])
      PROVE  r = t
  <2>1. Len(r) = Len(t) /\ Within(r, t)
    BY <1>5, <1>6, OneSandboxPerFolder
  <2>. QED
    BY <1>4, <2>1
<1>7. /\ rootFolders = {NormalizeRoot(name[r]) : r \in roots}
      /\ sandboxes = {SandboxId(name[r]) : r \in roots}
  BY <1>4, <1>5
<1>8. ListsKnown(name)
  BY <1>5, <1>6, <1>7 DEF ListsKnown
<1>. QED
  BY <1>8

----------------------------------------------------------------------------
(* The answers.                                                             *)

LEMMA ListsKept ==
  ASSUME FetchNewValue, [PathNext]_pathVars
  PROVE  FetchNewValue' /\ UNCHANGED lists
<1>1. UNCHANGED lists
  BY DEF PathNext, Forget, IsPathControlled, WarnIfPathHasControlledDecendantFolders,
         GetTopLevelSandbox, Ask, pathVars, lists
<1>. QED
  BY <1>1 DEF FetchNewValue, lists

\* The comparison with all root folders at once.
LEMMA ControlledIs ==
  ASSUME NEW name, ListsKnown(name), NEW place \in Places, NEW s \in Spellings(place)
  PROVE  /\ (\E r \in rootFolders : StartsWith(Lower(s), r)) <=> \E r \in roots : Beneath(place, r)
         /\ (\E r \in rootFolders : StartsWith(Lower(EndWithSeparator(s)), r))
              <=> \E r \in roots : Beneath(place, r)
<1>1. \A r \in roots :
        /\ StartsWith(Lower(s), NormalizeRoot(name[r])) <=> Beneath(place, r)
        /\ StartsWith(Lower(EndWithSeparator(s)), NormalizeRoot(name[r])) <=> Beneath(place, r)
  <2>1. TAKE r \in roots
  <2>2. r \in Places /\ name[r] \in Spellings(r)
    BY DEF ListsKnown
  <2>. QED
    BY <2>2, AncestorIffBeneath
<1>2. rootFolders = {NormalizeRoot(name[r]) : r \in roots}
  BY DEF ListsKnown
<1>. QED
  BY <1>1, <1>2

\* The sandboxes above a folder are those of the root folders above it.
LEMMA SandboxesAbove ==
  ASSUME NEW name, ListsKnown(name), NEW place \in Places, NEW s \in Spellings(place)
  PROVE  {id \in sandboxes : StartsWith(Lower(s), SandboxFolder(id))}
           = {SandboxId(name[r]) : r \in {q \in roots : Beneath(place, q)}}
<1>1. \A r \in roots : StartsWith(Lower(s), SandboxFolder(SandboxId(name[r]))) <=> Beneath(place, r)
  <2>1. TAKE r \in roots
  <2>2. r \in Places /\ name[r] \in Spellings(r)
    BY DEF ListsKnown
  <2>. QED
    BY <2>2, AncestorIffBeneath, SandboxFolderIs
<1>2. sandboxes = {SandboxId(name[r]) : r \in roots}
  BY DEF ListsKnown
<1>. QED
  BY <1>1, <1>2

\* The folders beneath which the code sees a place are between those around it that are
\* written alike and all of them.
LEMMA SeenBetween ==
  ASSUME roots \subseteq Places, NEW place \in Places
  PROVE  /\ Visible(place) \subseteq {r \in roots : Beneath(place, r)}
         /\ {r \in roots : Beneath(place, r)} \subseteq Around(place)
BY BeneathIs DEF Visible, Around

\* isPathControlled says what ControlledIffWithin says of it.
THEOREM ControlledIffWithinHolds == PathSpec => []ControlledIffWithin
<1>1. PathInit => FetchNewValue /\ ControlledIffWithin
  BY DEF PathInit, Unanswered, ControlledIffWithin
<1>2. ASSUME FetchNewValue, ControlledIffWithin, [PathNext]_pathVars
      PROVE  ControlledIffWithin'
  <2>1. FetchNewValue' /\ UNCHANGED lists
    BY <1>2, ListsKept
  <2>2. CASE UNCHANGED pathVars
    BY <1>2, <2>2 DEF ControlledIffWithin, pathVars, Visible, Around
  <2>3. ASSUME NEW place \in Places, IsPathControlled(place)
        PROVE  ControlledIffWithin'
    <3>1. PICK name : ListsKnown(name)
      BY <1>2, FetchedKnown
    <3>2. PICK s \in Spellings(place) : answer' = \E r \in rootFolders : StartsWith(Lower(s), r)
      BY <2>3 DEF IsPathControlled
    <3>3. asked' = place /\ roots' = roots
      BY <2>1, <2>3 DEF IsPathControlled, Ask, lists
    <3>4. answer' <=> {r \in roots : Beneath(place, r)} # {}
      BY <3>1, <3>2, ControlledIs
    <3>5. answer' => Around(place) # {}
      BY <3>1, <3>4, SeenBetween DEF ListsKnown
    <3>6. Visible(place) # {} => answer'
      BY <3>1, <3>4, SeenBetween DEF ListsKnown
    <3>7. Around(asked)' = Around(place) /\ Visible(asked)' = Visible(place)
      BY <3>3 DEF Around, Visible
    <3>. QED
      BY <3>5, <3>6, <3>7 DEF ControlledIffWithin
  <2>4. ASSUME NEW place \in Places,
               WarnIfPathHasControlledDecendantFolders(place) \/ GetTopLevelSandbox(place)
        PROVE  ControlledIffWithin'
    BY <2>4 DEF ControlledIffWithin, WarnIfPathHasControlledDecendantFolders, GetTopLevelSandbox, Ask
  <2>5. CASE Forget
    BY <2>5 DEF ControlledIffWithin, Forget
  <2>. QED
    BY <1>2, <2>2, <2>3, <2>4, <2>5 DEF PathNext
<1>3. FetchNewValue /\ [PathNext]_pathVars => FetchNewValue'
  BY ListsKept
<1>. QED
  BY <1>1, <1>2, <1>3, PTL DEF PathSpec

\* The guard of Create Sandbox refuses every folder in a sandbox.
THEOREM NoSandboxWithinSandboxHolds == PathSpec => []NoSandboxWithinSandbox
<1>1. PathInit => FetchNewValue /\ NoSandboxWithinSandbox
  BY DEF PathInit, Unanswered, NoSandboxWithinSandbox
<1>2. ASSUME FetchNewValue, NoSandboxWithinSandbox, [PathNext]_pathVars
      PROVE  NoSandboxWithinSandbox'
  <2>1. FetchNewValue' /\ UNCHANGED lists
    BY <1>2, ListsKept
  <2>2. CASE UNCHANGED pathVars
    BY <1>2, <2>2 DEF NoSandboxWithinSandbox, pathVars, Visible, Around
  <2>3. ASSUME NEW place \in Places, WarnIfPathHasControlledDecendantFolders(place)
        PROVE  NoSandboxWithinSandbox'
    <3>1. PICK name : ListsKnown(name)
      BY <1>2, FetchedKnown
    <3>2. PICK s \in Spellings(place) :
            answer' = \E r \in rootFolders : StartsWith(Lower(EndWithSeparator(s)), r)
      BY <2>3 DEF WarnIfPathHasControlledDecendantFolders
    <3>3. asked' = place /\ roots' = roots
      BY <2>1, <2>3 DEF WarnIfPathHasControlledDecendantFolders, Ask, lists
    <3>4. answer' <=> {r \in roots : Beneath(place, r)} # {}
      BY <3>1, <3>2, ControlledIs
    <3>5. Visible(place) # {} => answer'
      BY <3>1, <3>4, SeenBetween DEF ListsKnown
    <3>6. Visible(asked)' = Visible(place)
      BY <3>3 DEF Around, Visible
    <3>. QED
      BY <3>5, <3>6 DEF NoSandboxWithinSandbox
  <2>4. ASSUME NEW place \in Places, IsPathControlled(place) \/ GetTopLevelSandbox(place)
        PROVE  NoSandboxWithinSandbox'
    BY <2>4 DEF NoSandboxWithinSandbox, IsPathControlled, GetTopLevelSandbox, Ask
  <2>5. CASE Forget
    BY <2>5 DEF NoSandboxWithinSandbox, Forget
  <2>. QED
    BY <1>2, <2>2, <2>3, <2>4, <2>5 DEF PathNext
<1>3. FetchNewValue /\ [PathNext]_pathVars => FetchNewValue'
  BY ListsKept
<1>. QED
  BY <1>1, <1>2, <1>3, PTL DEF PathSpec

\* Drop Sandbox and Retarget Sandbox act on the one sandbox above the folder.
THEOREM ActsOnItsSandboxHolds == PathSpec => []ActsOnItsSandbox
<1>1. PathInit => FetchNewValue /\ ActsOnItsSandbox
  BY DEF PathInit, Unanswered, ActsOnItsSandbox
<1>2. ASSUME FetchNewValue, ActsOnItsSandbox, [PathNext]_pathVars
      PROVE  ActsOnItsSandbox'
  <2>1. FetchNewValue' /\ UNCHANGED lists
    BY <1>2, ListsKept
  <2>2. CASE UNCHANGED pathVars
    BY <1>2, <2>2 DEF ActsOnItsSandbox, pathVars, Visible, Around
  <2>3. ASSUME NEW place \in Places, GetTopLevelSandbox(place)
        PROVE  ActsOnItsSandbox'
    <3>1. PICK name : ListsKnown(name)
      BY <1>2, FetchedKnown
    <3> DEFINE top == {r \in roots : Beneath(place, r)}
    <3>2. PICK s \in Spellings(place) :
            LET above == {id \in sandboxes : StartsWith(Lower(s), SandboxFolder(id))} IN
            topLevel' = IF \E id \in above : above = {id} THEN CHOOSE id \in above : TRUE ELSE <<>>
      BY <2>3 DEF GetTopLevelSandbox
    <3>3. asked' = place /\ roots' = roots
      BY <2>1, <2>3 DEF GetTopLevelSandbox, Ask, lists
    <3> DEFINE above == {SandboxId(name[r]) : r \in top}
    <3>4. topLevel' = IF \E id \in above : above = {id} THEN CHOOSE id \in above : TRUE ELSE <<>>
      <4>1. {id \in sandboxes : StartsWith(Lower(s), SandboxFolder(id))} = above
        BY <3>1, SandboxesAbove
      <4> HIDE DEF above
      <4>. QED
        BY <3>2, <4>1
    <3>5. \A p, q \in top : SandboxId(name[p]) = SandboxId(name[q]) => p = q
      BY <3>1 DEF ListsKnown
    <3>6. \A r \in top : r \in roots /\ r \in Places /\ name[r] \in Spellings(r)
      BY <3>1 DEF ListsKnown
    <3> HIDE DEF top
    <3>7. ASSUME NEW r \in top, top = {r}
          PROVE  /\ topLevel' # <<>>
                 /\ \E t \in UNION {Spellings(q) : q \in top} :
                      Lower(EndWithSeparator(t)) = SubSeq(topLevel', 1, Len(topLevel') - 1)
      <4>1. topLevel' = SandboxId(name[r])
        <5>1. above = {SandboxId(name[r])}
          BY <3>7
        <5> HIDE DEF above
        <5>. QED
          BY <3>4, <5>1
      <4>2. /\ SandboxId(name[r]) # <<>>
            /\ SubSeq(SandboxId(name[r]), 1, Len(SandboxId(name[r])) - 1) = Lower(EndWithSeparator(name[r]))
        BY <3>6, SandboxFolderIs DEF NormalizeRoot
      <4>3. name[r] \in UNION {Spellings(q) : q \in top}
        BY <3>6
      <4>. QED
        BY <4>1, <4>2, <4>3
    <3>8. ASSUME ~\E r \in top : top = {r}
          PROVE  topLevel' = <<>>
      <4>1. ~\E id \in above : above = {id}
        <5>1. SUFFICES ASSUME NEW r \in top, above = {SandboxId(name[r])} PROVE FALSE
          OBVIOUS
        <5>2. \A q \in top : SandboxId(name[q]) = SandboxId(name[r])
          BY <5>1
        <5>3. \A q \in top : q = r
          BY <3>5, <5>2
        <5>4. top = {r}
          BY <5>3
        <5>. QED
          BY <3>8, <5>4
      <4> HIDE DEF above
      <4>. QED
        BY <3>4, <4>1
    <3>9. /\ Around(asked)' = Around(place) /\ Visible(asked)' = Visible(place)
          /\ Visible(place) \subseteq top /\ top \subseteq Around(place)
      BY <3>1, <3>3, SeenBetween DEF top, ListsKnown, Around, Visible
    <3>10. ASSUME topLevel' # <<>>
           PROVE  \E t \in UNION {Spellings(q) : q \in Around(place)} :
                    Lower(EndWithSeparator(t)) = SubSeq(topLevel', 1, Len(topLevel') - 1)
      BY <3>7, <3>8, <3>9, <3>10
    <3>11. ASSUME Visible(place) = Around(place)
           PROVE  topLevel' # <<>> <=> \E r \in roots : Around(place) = {r}
      <4>1. top = Around(place) /\ Around(place) \subseteq roots
        BY <3>9, <3>11 DEF Around
      <4>. QED
        BY <3>7, <3>8, <4>1
    <3>. QED
      BY <3>3, <3>9, <3>10, <3>11 DEF ActsOnItsSandbox
  <2>4. ASSUME NEW place \in Places,
               IsPathControlled(place) \/ WarnIfPathHasControlledDecendantFolders(place)
        PROVE  ActsOnItsSandbox'
    BY <2>4 DEF ActsOnItsSandbox, IsPathControlled, WarnIfPathHasControlledDecendantFolders, Ask
  <2>5. CASE Forget
    BY <2>5 DEF ActsOnItsSandbox, Forget
  <2>. QED
    BY <1>2, <2>2, <2>3, <2>4, <2>5 DEF PathNext
<1>3. FetchNewValue /\ [PathNext]_pathVars => FetchNewValue'
  BY ListsKept
<1>. QED
  BY <1>1, <1>2, <1>3, PTL DEF PathSpec

==========================================================================
