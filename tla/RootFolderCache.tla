-------------------------- MODULE RootFolderCache --------------------------
(***************************************************************************)
(* TortoiseShell/RootFolderCache.cpp over AbstractCache.h, with Explorer:  *)
(* the cached value is the set of root folders of the sandboxes, Explorer  *)
(* asks isPathControlled to draw a folder, and cachedValueUpdated tells it *)
(* which folders to draw again.  A version of AbstractCache stands for the *)
(* vector fetchNewValue returned: lower-cased, sorted, hence a set, which  *)
(* is all set_symmetric_difference and the search in it depend on.         *)
(***************************************************************************)
EXTENDS AbstractCache

CONSTANTS
  Folders,        \* folders Explorer shows
  RootFolders     \* RootFolders[v]: the root folders of version v of the value

ASSUME RootFoldersAssumption ==
  /\ RootFolders \in [Value -> SUBSET Folders]
  /\ RootFolders[Empty] = {}

VARIABLES
  drawn,          \* drawn[f]: f is on the screen as a controlled folder
  dirty,          \* folders Explorer was told to draw again and has not yet
  remaining       \* remaining[t]: folders task t has still to notify

shellVars == <<drawn, dirty, remaining>>
allVars   == <<vars, shellVars>>

Controlled(f) == f \in RootFolders[cachedValue]

ShellTypeOK ==
  /\ TypeOK
  /\ drawn \in [Folders -> BOOLEAN]
  /\ dirty \subseteq Folders
  /\ remaining \in [Tasks -> SUBSET Folders]

RootInit ==
  /\ Init
  /\ drawn = [f \in Folders |-> FALSE]
  /\ dirty = {}
  /\ remaining = [t \in Tasks |-> {}]

----------------------------------------------------------------------------
Draw(f) ==
  /\ drawn' = [drawn EXCEPT ![f] = Controlled(f)]
  /\ dirty' = dirty \ {f}
  /\ UNCHANGED remaining

\* isPathControlled(f) for Explorer: getRootFolders is getValue, which may start a
\* refresh and answers with the value of before it.
IsPathControlled(c, f) ==
  /\ client[c] = "idle"
  /\ \/ /\ ~Stale \/ refreshInProgress
        /\ UNCHANGED vars
        /\ Draw(f)
     \/ /\ GetValue(c)
        /\ IF lost' THEN UNCHANGED shellVars     \* std::async threw through it
                    ELSE Draw(f)

\* Explorer draws only what it was told to, under fairness; it may draw any folder
\* any time.
Repaint(f) == f \in dirty /\ \E c \in Clients : IsPathControlled(c, f)

\* Mutant: a difference of the two values that is not symmetric.
PublishRemovedFolders(t) ==
  /\ Publish(t)
  /\ remaining' = [remaining EXCEPT ![t] =
                     RootFolders[cachedValue] \ RootFolders[task[t].newValue]]
  /\ UNCHANGED <<drawn, dirty>>

\* updateCacheValue's publication, and the symmetric difference cachedValueUpdated
\* makes of its two arguments.
PublishRootFolders(t) ==
  /\ Publish(t)
  /\ LET old == RootFolders[cachedValue]
         new == RootFolders[task[t].newValue]
     IN  remaining' = [remaining EXCEPT ![t] = (old \ new) \cup (new \ old)]
  /\ UNCHANGED <<drawn, dirty>>

\* One SHChangeNotify(SHCNE_ATTRIBUTES) of the loop.
NotifyShell(t, f) ==
  /\ task[t].pc = "notifying"
  /\ f \in remaining[t]
  /\ remaining' = [remaining EXCEPT ![t] = @ \ {f}]
  /\ dirty' = dirty \cup {f}
  /\ UNCHANGED <<vars, drawn>>

NotifyDone(t) ==
  /\ remaining[t] = {}
  /\ CachedValueUpdated(t)
  /\ UNCHANGED shellVars

\* The steps of the cache that do not touch the shell.  A menu command that ends
\* calls forceRefresh; a context menu reads getRootFolders without drawing.
CacheStep ==
  /\ \/ \E c \in Clients : GetValue(c) \/ ForceRefresh(c) \/ StartRefresh(c)
     \/ \E t \in Tasks : FetchNewValue(t) \/ FetchThrows(t)
     \/ ServerChange \/ Tick \/ SetClockBack
  /\ UNCHANGED shellVars

RootNext ==
  \/ CacheStep
  \/ \E c \in Clients, f \in Folders : IsPathControlled(c, f)
  \/ \E t \in Tasks : \/ PublishRootFolders(t) \/ NotifyDone(t)
                      \/ \E f \in Folders : NotifyShell(t, f)

RootSpec == RootInit /\ [][RootNext]_allVars

\* The fairness of AbstractCache, the notification loop runs on, and Explorer draws
\* what it was told to draw and polls some folder of the open window.  Drawing is
\* strongly fair because the bound on Tasks, which the code has not, can disable it
\* again and again, never for good.
RootFairness ==
  /\ \A t \in Tasks :
       /\ WF_allVars(FetchNewValue(t) /\ UNCHANGED shellVars)
       /\ WF_allVars(PublishRootFolders(t))
       /\ WF_allVars(NotifyDone(t) \/ \E f \in Folders : NotifyShell(t, f))
  /\ \A c \in Clients : WF_allVars(StartRefresh(c) /\ UNCHANGED shellVars)
  /\ WF_allVars(Tick /\ UNCHANGED shellVars)
  /\ WF_allVars(\E c \in Clients, f \in Folders : Stale /\ IsPathControlled(c, f))
  /\ \A f \in Folders : SF_allVars(Repaint(f))

RootFairSpec == RootSpec /\ RootFairness

----------------------------------------------------------------------------
\* No change of the root folders is lost on its way to the screen: a folder drawn
\* otherwise than the cache would now answer is one Explorer was told to draw
\* again, or one that a task will still tell it about.  It holds although two tasks
\* may notify at the same time, each with an outdated pair of values.
EveryChangeAnnounced ==
  \A f \in Folders : drawn[f] # Controlled(f) =>
    f \in dirty \/ \E t \in Tasks : task[t].pc = "notifying" /\ f \in remaining[t]

\* Unless a refresh is lost, the screen ends up showing the root folders of a server
\* that has stopped changing.
ScreenCatchesUp ==
  <>[](lost \/ \A f \in Folders : drawn[f] = (f \in RootFolders[server]))

=============================================================================
