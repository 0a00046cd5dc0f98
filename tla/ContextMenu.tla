---------------------------- MODULE ContextMenu ----------------------------
(***************************************************************************)
(* TortoiseShell/ContextMenu.cpp and MenuInfo.cpp: what Explorer shows     *)
(* when the user right-clicks, and what it runs when the user then clicks. *)
(* Every window of Explorer is a thread; on each of them live handlers     *)
(* (CShellExt objects) that are initialised with a selection, insert their *)
(* items into the window's menu, and are asked to invoke one of them by    *)
(* its id or by its verb.  A handler remembers its items in maps it never  *)
(* clears, and may be asked again and again.                               *)
(*                                                                         *)
(* All handlers of the process share one table of items, of which the two  *)
(* exclude filter entries are CHANGED while a menu is built: the command   *)
(* of the pattern is assigned to the entry, and the entry copied into the  *)
(* handler's map.  Those two are separate actions here; everything else of *)
(* QueryContextMenu touches the handler only and is one action.  The       *)
(* outcomes of a copy that overlaps an assignment in time are the two of   *)
(* their orders.                                                           *)
(*                                                                         *)
(* Ids are counted from the idCmdFirst Explorer passes.  The table's texts *)
(* are its verbs, so names of items stand for both.                        *)
(***************************************************************************)
EXTENDS Naturals, Sequences, SequencesExt, FiniteSets

CONSTANTS
  Handlers,     \* CShellExt objects
  WindowOf,     \* the window, that is the thread, of a handler
  Paths,        \* files and folders
  PatternsOf,   \* the patterns of a path: its name, and `*.ext' if it has an extension
  Selections,   \* what can be selected: sequences of paths
  Statuses,     \* what getPathStatus may answer
  FirstIds,     \* idCmdFirst
  MaxMenus,     \* bound: menus built
  MaxClicks     \* bound: clicks on an item of an exclude filter submenu

Windows == Range(WindowOf)
Patterns == UNION {Range(PatternsOf[p]) : p \in Paths}

ASSUME MenuAssumption ==
  /\ WindowOf \in [Handlers -> Windows]
  /\ \A p \in Paths : PatternsOf[p] \in Seq(Patterns)
  /\ Selections \subseteq Seq(Paths)
  /\ \A status \in Statuses : ~({"File", "Folder"} \subseteq status)
  /\ FirstIds \subseteq Nat \ {0}
  /\ MaxMenus \in Nat /\ MaxClicks \in Nat

VARIABLES
  ids,          \* by handler: myIDMap
  verbs,        \* by handler: myVerbsMap
  verbIds,      \* by handler: myVerbsIDMap
  shown,        \* by handler: what its popup shows, by offset; empty without a popup
  popups,       \* by window: the handlers that inserted a popup into its open menu
  building,     \* by handler: the submenu being built, or Nothing
  command,      \* menuInfo[..].siCommand of the two exclude filter entries, shared by all
  filter,       \* the client's exclude filter
  writes,       \* setprefs commands in flight: the filter to set, and as history the item
                \* clicked on, what was read, and whether the handler was overlapped
  menus,        \* bound: menus built
  clicks,       \* bound: clicks
  overlapped    \* history: handlers during whose building another changed the command

handlerVars == <<ids, verbs, verbIds, shown>>
clickVars == <<filter, writes, clicks>>
vars == <<handlerVars, popups, building, command, clickVars, menus, overlapped>>

----------------------------------------------------------------------------
(* The table of items, and which of them a selection enables.               *)

Submenus == {"IgnoreSubMenu", "UnIgnoreSubMenu"}

Table ==
  <<"Seperator", "ViewSandbox", "CreateSandbox", "ViewRelatedChangePackages",
    "ViewMyProjectHistory", "ViewMyProjectDifferences",
    "Seperator", "ViewMyChangePackages", "ViewMyReviews", "ViewMyLocks", "MergeConflicts",
    "WorkingFileChangesView",
    "Seperator", "ResyncSandbox", "Resync", "ResyncByCp", "DropSandbox", "DropSubProject",
    "RetargetSandbox",
    "Seperator", "Seperator", "LocalChangesDiff",
    "Seperator", "ViewHistory", "ViewAnnotatedRevision", "ViewMemberInfo",
    "Seperator", "Add", "CheckOut", "CheckIn", "Drop", "Lock", "Revert", "Move", "Rename",
    "Seperator", "IgnoreSubMenu", "UnIgnoreSubMenu">>

Always == {"ViewMyChangePackages", "ViewMyReviews", "ViewMyLocks"}
OfOneSandbox ==
  {"ViewSandbox", "ViewRelatedChangePackages", "ViewMyProjectHistory",
   "ViewMyProjectDifferences", "WorkingFileChangesView", "ResyncSandbox", "DropSandbox",
   "DropSubProject", "RetargetSandbox"}
OfOneMember ==
  {"Resync", "LocalChangesDiff", "ViewHistory", "ViewAnnotatedRevision", "ViewMemberInfo",
   "Rename"}
OfMembers == {"CheckOut", "CheckIn", "Drop", "Lock", "Revert", "Move"}

\* No file is named like an item of the menu, or not at all.
ASSUME NamesAssumption == Patterns \cap (Range(Table) \cup {""}) = {}

\* MenuInfo::enable of the entries.
Enabled(item, single, status) ==
  \/ item \in Always
  \/ item \in OfOneSandbox /\ single /\ {"Folder", "Member"} \subseteq status
  \/ item = "CreateSandbox" /\ single /\ "Folder" \in status /\ "Member" \notin status
  \/ item = "MergeConflicts" /\ single /\ {"File", "Member", "MergeNeeded"} \subseteq status
  \/ item \in OfOneMember /\ single /\ {"File", "Member"} \subseteq status
  \/ item = "ResyncByCp" /\ {"File", "Member"} \subseteq status /\ "Folder" \notin status
  \/ item = "Add" /\ {"File", "Add"} \subseteq status
  \/ item \in OfMembers /\ {"File", "Member"} \subseteq status
  \/ item = "IgnoreSubMenu" /\ single /\ "File" \in status /\ "Ignored" \notin status
  \/ item = "UnIgnoreSubMenu" /\ single /\ {"File", "Ignored"} \subseteq status

\* The text of both Resync entries is IDS_RESYNC.
Text(item) == IF item = "ResyncSandbox" THEN "Resync" ELSE item

----------------------------------------------------------------------------
\* What Initialize can leave in a handler: the allowed paths among the selected ones, the
\* flags of all of them, and the window's folder ("none" if it is not allowed), which
\* matters without selected paths only.  Without both there is no menu.
Selected ==
  {[paths |-> <<>>, status |-> {}, folder |-> f] : f \in {"controlled", "uncontrolled"}}
  \cup UNION {{[paths |-> paths, status |-> UNION Range(answer), folder |-> "none"]
                 : answer \in [Range(paths) -> Statuses]} : paths \in Selections \ {<<>>}}

\* getItemsForMenuAction(..).size() == 1
Single(s) == Len(s.paths) <= 1

\* getItemsStatusForMenuAction
ItemsStatus(s) ==
  IF s.paths # <<>> THEN s.status
  ELSE IF s.folder = "controlled" THEN {"Folder", "Member"} ELSE {"Folder"}

Nothing == [item |-> "none", left |-> <<>>, assigned |-> FALSE, verb |-> "",
            first |-> 1, next |-> 1, seen |-> {}]

Entry(item, runs) == [item |-> item, runs |-> runs]
At(offset, value) == [k \in {offset} |-> value]

\* The entries of the table that the loop of QueryContextMenu inserts, by their positions.
Inserted(s) == {i \in DOMAIN Table : Enabled(Table[i], Single(s), ItemsStatus(s))}

\* Of these, the ones behind a separator: one waits in the table since the last item
\* inserted, and there is such an item.  The separator takes an id of its own.
Separated(S) ==
  {i \in S : \E k \in DOMAIN Table :
     Table[k] = "Seperator" /\ k < i /\ (\E j \in S : j < k) /\ S \cap (k .. i-1) = {}}

\* idCmd - idCmdFirst of an item: the first id is the separator's before the popup.
Offset(S, i) == Cardinality({j \in S : j <= i}) + Cardinality({j \in Separated(S) : j <= i})

\* What a selection puts into the popup: the items by their offsets, then the submenu, which
\* is the last of the table, and the offset it starts at.
ItemsOf ==
  [s \in Selected |->
     LET S      == Inserted(s)
         plain  == {i \in S : Table[i] \notin Submenus}
         at(k)  == CHOOSE i \in plain : Offset(S, i) = k
     IN [items   |-> [k \in {Offset(S, i) : i \in plain} |-> Entry(Table[at(k)], Table[at(k)])],
         submenu |-> IF S = plain THEN "none" ELSE Table[CHOOSE i \in S \ plain : TRUE],
         next    |-> Cardinality(plain) + Cardinality(Separated(S)) + 1]]

\* std::map: values put under new keys or over old values.
Put(new, map) ==
  [key \in DOMAIN new \cup DOMAIN map |-> IF key \in DOMAIN new THEN new[key] ELSE map[key]]

\* Mutant: an id is written over an offset.
BothIdsLast(entries, first) ==
  Put([id \in {first + k : k \in DOMAIN entries} |-> entries[id - first]], entries)

\* Entries are registered by their offset and by their id, in the order of their ids: an
\* offset is written over an id that an earlier entry had.
Both(entries, first) ==
  Put(entries, [id \in {first + k : k \in DOMAIN entries} |-> entries[id - first]])

\* Mutant: the verb leads to the id after its own.
RegisterLateVerb(h, entries, texts, first) ==
  /\ ids' = [ids EXCEPT ![h] = Put(Both(entries, first), @)]
  /\ verbIds' = [verbIds EXCEPT ![h] = Put(Both(texts, first), @)]
  /\ verbs' = [verbs EXCEPT ![h] =
       Put([v \in Range(texts) |-> first + 1 + CHOOSE k \in DOMAIN texts : texts[k] = v], @)]

Register(h, entries, texts, first) ==
  /\ ids' = [ids EXCEPT ![h] = Put(Both(entries, first), @)]
  /\ verbIds' = [verbIds EXCEPT ![h] = Put(Both(texts, first), @)]
  /\ verbs' = [verbs EXCEPT ![h] =
       Put([v \in Range(texts) |-> first + CHOOSE k \in DOMAIN texts : texts[k] = v], @)]

----------------------------------------------------------------------------
TypeOK ==
  LET Id == 0..100
      Runs == Range(Table) \cup Patterns \cup {""}
      EntryType == [item : Range(Table) \ {"Seperator"}, runs : Runs]
  IN /\ \A h \in Handlers :
        /\ DOMAIN ids[h] \subseteq Id /\ Range(ids[h]) \subseteq EntryType
        /\ DOMAIN verbs[h] \subseteq Runs /\ Range(verbs[h]) \subseteq DOMAIN ids[h]
        /\ DOMAIN verbIds[h] \subseteq DOMAIN ids[h] /\ Range(verbIds[h]) \subseteq DOMAIN verbs[h]
        /\ DOMAIN shown[h] \subseteq DOMAIN ids[h] /\ Range(shown[h]) \subseteq EntryType
        /\ building[h].item \in Submenus \cup {"none"}
     /\ \A w \in Windows : popups[w] \in Seq(Handlers)
     /\ command \in [Submenus -> Patterns \cup {""}]
     /\ filter \subseteq Patterns
     /\ \A u \in writes : u.click < clicks /\ u.filter \subseteq Patterns
     /\ menus \in 0..MaxMenus /\ clicks \in 0..MaxClicks
     /\ overlapped \subseteq Handlers

Init ==
  /\ ids = [h \in Handlers |-> <<>>]
  /\ verbs = [h \in Handlers |-> <<>>]
  /\ verbIds = [h \in Handlers |-> <<>>]
  /\ shown = [h \in Handlers |-> <<>>]
  /\ popups = [w \in Windows |-> <<>>]
  /\ building = [h \in Handlers |-> Nothing]
  /\ command = [item \in Submenus |-> ""]
  /\ filter \in SUBSET Patterns
  /\ writes = {}
  /\ menus = 0 /\ clicks = 0
  /\ overlapped = {}

\* The window's thread is not inside a call of this extension.
Idle(w) == \A h \in Handlers : WindowOf[h] = w => building[h].item = "none"

\* Mutant: menus are not searched for the popup of another handler.
NoPopupUntested(w) == TRUE

\* No entry of the menu carries g_MenuIDString.
NoPopup(w) == popups[w] = <<>>

\* Initialize with a selection, then QueryContextMenu up to the submenus, which come last
\* in the table; the client is asked for the exclude filter first, and an answer that
\* failed is an empty one.  Without a submenu the popup is inserted at once.
QueryContextMenu(h, s, first) ==
  LET w == WindowOf[h]
      plain == ItemsOf[s]
  IN /\ Idle(w) /\ NoPopup(w)
     /\ menus < MaxMenus
     /\ menus' = menus + 1
     /\ Register(h, plain.items, [k \in DOMAIN plain.items |-> Text(plain.items[k].item)], first)
     /\ shown' = [shown EXCEPT ![h] = plain.items]
     /\ \E seen \in IF plain.submenu = "UnIgnoreSubMenu" THEN {filter, {}} ELSE {{}} :
          building' = [building EXCEPT ![h] =
            [Nothing EXCEPT !.item = plain.submenu, !.first = first, !.next = plain.next,
                            !.seen = seen,
                            !.left = IF plain.submenu = "none" THEN <<>>
                                     ELSE PatternsOf[Head(s.paths)]]]
     /\ popups' = IF plain.submenu = "none" THEN [popups EXCEPT ![w] = Append(@, h)] ELSE popups
     /\ overlapped' = overlapped \ {h}
     /\ UNCHANGED <<command, clickVars>>

\* InsertIgnoreSubmenus lists every pattern, InsertUnIgnoreSubmenus those in the filter.
Listed(b) == b.item = "IgnoreSubMenu" \/ Head(b.left) \in b.seen

\* menuInfo.siCommand = [verb] ...: a listed pattern becomes the command of the shared entry.
AssignCommand(h) ==
  LET b == building[h]
      pattern == Head(b.left)
  IN /\ b.left # <<>> /\ ~b.assigned
     /\ IF Listed(b)
        THEN /\ command' = [command EXCEPT ![b.item] = pattern]
             /\ building' = [building EXCEPT ![h].assigned = TRUE, ![h].verb = pattern]
             /\ overlapped' = overlapped \cup {g \in Handlers \ {h} : building[g].item = b.item}
        ELSE /\ building' = [building EXCEPT ![h].assigned = TRUE]
             /\ UNCHANGED <<command, overlapped>>
     /\ UNCHANGED <<handlerVars, popups, clickVars, menus>>

\* The pattern's item: registered whether or not it is listed, with the verb and the
\* command of the last one listed.
InsertPattern(h) ==
  LET b == building[h]
      entry == Entry(b.item, command[b.item])
  IN /\ b.assigned
     /\ Register(h, At(b.next, entry), At(b.next, b.verb), b.first)
     /\ shown' = IF Listed(b)
                 THEN [shown EXCEPT ![h] = Put(At(b.next, Entry(b.item, Head(b.left))), @)]
                 ELSE shown
     /\ building' = [building EXCEPT ![h].assigned = FALSE, ![h].left = Tail(b.left),
                                     ![h].next = @ + 1]
     /\ UNCHANGED <<popups, command, clickVars, menus, overlapped>>

\* The submenu itself, which has an id without a verb, and then the popup.  The popup's
\* id and the separator's after it are not registered.
InsertSubmenu(h) ==
  LET b == building[h]
  IN /\ b.item # "none" /\ b.left = <<>>
     /\ Register(h, At(b.next, Entry(b.item, command[b.item])), <<>>, b.first)
     /\ building' = [building EXCEPT ![h].item = "none", ![h].next = @ + 1]
     /\ popups' = [popups EXCEPT ![WindowOf[h]] = Append(@, h)]
     /\ UNCHANGED <<shown, command, clickVars, menus, overlapped>>

\* The user closes the menu, or has clicked on an item of it.
Close(w) ==
  /\ popups[w] # <<>> /\ Idle(w)
  /\ popups' = [popups EXCEPT ![w] = <<>>]
  /\ shown' = [h \in Handlers |-> IF WindowOf[h] = w THEN <<>> ELSE shown[h]]
  /\ UNCHANGED <<ids, verbs, verbIds, building, command, menus, overlapped>>

\* Mutant: a pattern that is in the filter stays there.
ToggleAdds(excluded, pattern) == excluded \cup {pattern}

\* updateExcludeFileFilter: a pattern in the filter is removed, another one added.
Toggle(excluded, pattern) ==
  IF pattern \in excluded THEN excluded \ {pattern} ELSE excluded \cup {pattern}

\* InvokeCommand of the item shown at an offset, by that offset.  The commands of the
\* exclude filter read the filter, or nothing when that fails, and set the changed one in
\* the background; what the others do is in ClientCommands.
InvokeCommand(h, id) ==
  /\ id \in DOMAIN shown[h] /\ Close(WindowOf[h])
  /\ LET entry == ids[h][id]
     IN \/ /\ entry.item \in Submenus
           /\ clicks < MaxClicks
           /\ clicks' = clicks + 1
           /\ \E read \in {filter, {}} :
                writes' = writes \cup {[click |-> clicks, on |-> shown[h][id], read |-> read,
                                        torn |-> h \in overlapped,
                                        filter |-> Toggle(read, entry.runs)]}
           /\ UNCHANGED filter
        \/ /\ entry.item \notin Submenus
           /\ UNCHANGED clickVars

\* The setprefs command of a click ends, in any order with those of others.
SetExcludeFilter(u) ==
  /\ writes' = writes \ {u}
  /\ filter' \in {u.filter, filter}
  /\ UNCHANGED <<handlerVars, popups, building, command, menus, clicks, overlapped>>

Next ==
  \/ \E h \in Handlers :
       \/ \E s \in Selected, first \in FirstIds : QueryContextMenu(h, s, first)
       \/ AssignCommand(h) \/ InsertPattern(h) \/ InsertSubmenu(h)
       \/ \E id \in DOMAIN shown[h] : InvokeCommand(h, id)
  \/ \E w \in Windows : Close(w) /\ UNCHANGED clickVars
  \/ \E u \in writes : SetExcludeFilter(u)

Spec == Init /\ [][Next]_vars

----------------------------------------------------------------------------
\* Whatever was built before it, and with whatever ids, an item of an open menu is found
\* under its offset, and what is found is that item; for a pattern of a submenu with the
\* command for that pattern, unless another window's submenu was built at the same time
\* (the shared siCommand of menuInfo, and myIDMap, which is never cleared).
ShownRunsItself ==
  \A w \in Windows : \A h \in Range(popups[w]) : \A id \in DOMAIN shown[h] :
    /\ id \in DOMAIN ids[h]
    /\ ids[h][id].item = shown[h][id].item
    /\ h \notin overlapped => ids[h][id] = shown[h][id]

\* The verb that GetCommandString gives for an item leads InvokeCommand to what the item's
\* id leads to, if Explorer's first id is greater than the number of ids: else the id of
\* one item is the offset of another.
VerbRunsItsItem ==
  \A w \in Windows : \A h \in Range(popups[w]) : \A id \in DOMAIN shown[h] :
    building[h].first > building[h].next =>
      /\ id \in DOMAIN verbIds[h]
      /\ verbIds[h][id] \in DOMAIN verbs[h]
      /\ verbs[h][verbIds[h][id]] \in DOMAIN ids[h]
      /\ h \notin overlapped => ids[h][verbs[h][verbIds[h][id]]] = ids[h][id]

\* "check if we already added our menu entry for a folder": a menu has one popup, however
\* many handlers are asked to extend it.
OnePopup == \A w \in Windows : Len(popups[w]) <= 1

\* A click under "Remove from Exclude Filter" on a pattern that the filter it reads still
\* has sets that filter without it, a click under "Add to exclude filter" on one that it
\* has not adds it, and both keep the rest, whatever menus were built and clicks made
\* between the opening of the menu and the click, unless two windows overlapped.
ClickDoesWhatItSays ==
  \A u \in writes :
    LET remove == u.on.item = "UnIgnoreSubMenu"
    IN ~u.torn /\ (remove <=> u.on.runs \in u.read) =>
         u.filter = IF remove THEN u.read \ {u.on.runs} ELSE u.read \cup {u.on.runs}
=============================================================================
