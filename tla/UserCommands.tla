---------------------------- MODULE UserCommands ----------------------------
(***************************************************************************)
(* The commands of the context menu that change files (MenuInfo.cpp,       *)
(* IntegrityActions.cpp), the cache of statuses they clear, and the icons  *)
(* Explorer has drawn.                                                     *)
(*                                                                         *)
(* A command runs in a thread of its own while Explorer goes on drawing.   *)
(* When the client has answered, an error or not, the thread clears the    *)
(* cache and tells Explorer about one folder: that of the first selected   *)
(* file, the parent of a sandbox that was resynchronised, or none.         *)
(* Explorer then draws the files of that folder again, each with the       *)
(* status getFileStatus returns.  When an exception comes out of execute   *)
(* nobody is told.  The history variables say why an icon may be out of    *)
(* date although nobody is going to be told: silent and torn.              *)
(***************************************************************************)
EXTENDS StatusCache

CONSTANTS
  Tasks,        \* the threads of executeUserCommand, each one command
  Folders,
  NoFolder,     \* no folder, or one that is not looked at
  Folder,       \* Folder[p]: the folder of a file
  Parent        \* Parent[d]: the folder of a folder

ASSUME UserCommandAssumption ==
  /\ NoFolder \notin Folders
  /\ Folder \in [Paths -> Folders]
  /\ Parent \in [Folders -> Folders \cup {NoFolder}]
  /\ IsFiniteSet(Tasks) /\ Cardinality(Tasks) <= MaxEra

VARIABLES
  task,         \* task[t]: how far the command of t is, its files, those it has changed,
                \* the folder it announces
  painted,      \* painted[p]: the status whose icon Explorer shows
  dirty,        \* the files Explorer was told to draw again and has not begun to
  silent,       \* history: changed where no command announces it
  torn          \* history: drawn from an answer asked for before the last full clear

screen   == <<painted, dirty, torn>>
userVars == <<vars, task, silent, screen>>

----------------------------------------------------------------------------
NoTask     == [pc |-> "none", targets |-> {}, changed |-> {}, folder |-> NoFolder]
FilesIn(d) == {p \in Paths : Folder[p] = d}

\* The files of a folder and of those right below it; deeper folders repeat the latter.
FilesBelow(d) == {p \in Paths : d \in {Folder[p], Parent[Folder[p]]}}

UserInit ==
  /\ Init
  /\ task = [t \in Tasks |-> NoTask]
  /\ painted = actual
  /\ dirty = {} /\ silent = {} /\ torn = {}

----------------------------------------------------------------------------
\* executeUserCommand starts the thread of a command.
ExecuteUserCommand(t, targets, folder) ==
  /\ task[t].pc = "none"
  /\ task' = [task EXCEPT ![t] = [NoTask EXCEPT !.pc = "running", !.targets = targets,
                                                !.folder = folder]]
  /\ UNCHANGED <<vars, silent, screen>>

\* Add, check out, check in, drop, lock, revert, move, rename, resync (of a file, by
\* change package): the files selected, the folder of the first of them.
ActOnFiles(t) ==
  \E selected \in SUBSET Paths : \E first \in selected :
    ExecuteUserCommand(t, selected, Folder[first])

\* Retarget of a sandbox: the files below it, its folder.
RetargetSandbox(t) ==
  \E d \in Folders : ExecuteUserCommand(t, FilesBelow(d), d)

\* Resync of a sandbox, drop of a subproject: the files below the selected folder, the
\* folder that holds it.
ResyncSandbox(t) ==
  \E d \in Folders : ExecuteUserCommand(t, FilesBelow(d), Parent[d])

\* A change of the exclude filter: files anywhere, the folder of the selected one.
SetExcludeFileFilter(t) ==
  \E p \in Paths : ExecuteUserCommand(t, Paths, Folder[p])

\* Resolve Merge Conflicts: no onDone.
MergeConflicts(t) ==
  \E p \in Paths : ExecuteUserCommand(t, {p}, NoFolder)

\* The client changes one of the files, perhaps before it fails at the next.
Perform(t, p) ==
  /\ task[t].pc = "running"
  /\ p \in task[t].targets
  /\ StatusChange(p)
  /\ task' = [task EXCEPT ![t].changed = @ \cup {p}]
  /\ silent' = IF Folder[p] = task[t].folder THEN silent ELSE silent \cup {p}
  /\ UNCHANGED screen

\* The thread ends.
Done == [NoTask EXCEPT !.pc = "done"]

\* The answer to a command without onDone: an error is logged, nothing else.
Respond(t) ==
  /\ task[t].pc = "running" /\ task[t].folder = NoFolder
  /\ task' = [task EXCEPT ![t] = Done]
  /\ UNCHANGED <<vars, silent, screen>>

\* An exception comes out of execute, such as that of an error handler which cannot
\* start its thread (transitionToPromptingState): it is caught after onDone, so what
\* the command has changed is announced to nobody.
ExecuteThrows(t) ==
  /\ task[t].pc = "running"
  /\ task' = [task EXCEPT ![t] = Done]
  /\ silent' = silent \cup task[t].changed
  /\ UNCHANGED <<vars, screen>>

\* Mutant: Explorer is told without the cache being cleared.
RefreshFolderUncleared(t) ==
  /\ task[t].pc = "running" /\ task[t].folder # NoFolder
  /\ task' = [task EXCEPT ![t] = [NoTask EXCEPT !.pc = "cleared", !.folder = task[t].folder]]
  /\ silent' = silent \ FilesIn(task[t].folder)
  /\ UNCHANGED <<vars, screen>>

\* The answer, an error or not, and onDone as far as the clearing of the cache
\* (refreshFolder).
RefreshFolder(t) ==
  /\ task[t].pc = "running" /\ task[t].folder # NoFolder
  /\ Clear
  /\ task' = [task EXCEPT ![t] = [NoTask EXCEPT !.pc = "cleared", !.folder = task[t].folder]]
  /\ silent' = silent \ FilesIn(task[t].folder)
  /\ UNCHANGED screen

\* Mutant: the folder announced is the one above, as for a sandbox.
NotifyParent(t) ==
  /\ task[t].pc = "cleared"
  /\ task' = [task EXCEPT ![t] = Done]
  /\ dirty' = dirty \cup FilesIn(Parent[task[t].folder])
  /\ UNCHANGED <<vars, silent, painted, torn>>

\* Explorer is told to draw the files of the folder again.
Notify(t) ==
  /\ task[t].pc = "cleared"
  /\ task' = [task EXCEPT ![t] = Done]
  /\ dirty' = dirty \cup FilesIn(task[t].folder)
  /\ UNCHANGED <<vars, silent, painted, torn>>

----------------------------------------------------------------------------
Show(p, status, asked) ==
  /\ painted' = [painted EXCEPT ![p] = status]
  /\ torn' = IF asked < era THEN torn \cup {p} ELSE torn \ {p}

\* Explorer draws a file: at once from the cache, or when the client has answered.
Paint(l, p) ==
  /\ GetFileStatus(l, p)
  /\ dirty' = dirty \ {p}
  /\ IF Hits(p) = {} THEN UNCHANGED <<painted, torn>>
     ELSE Show(p, Found(p), cachedStatus[Min(Hits(p))].era)
  /\ UNCHANGED <<task, silent>>

Ask(l) == FileInfo(l) /\ UNCHANGED <<task, silent, screen>>

PaintAnswer(l) ==
  /\ AddCachedStatus(l)
  /\ Show(lookup[l].path, lookup[l].fileStatus, lookup[l].era)
  /\ UNCHANGED <<task, silent, dirty>>

\* A handler that shows its icon takes the file's entry away; entries expire.
Forget == ((\E p \in Paths : ClearPath(p)) \/ Tick) /\ UNCHANGED <<task, silent, screen>>

\* Another program, or the user in another client, changes a file.
ChangeOutside(p) ==
  /\ StatusChange(p)
  /\ silent' = silent \cup {p}
  /\ UNCHANGED <<task, screen>>

Proceed(t) == Respond(t) \/ ExecuteThrows(t) \/ RefreshFolder(t) \/ Notify(t)

UserNext ==
  \/ \E t \in Tasks : \/ ActOnFiles(t) \/ RetargetSandbox(t) \/ ResyncSandbox(t)
                      \/ SetExcludeFileFilter(t) \/ MergeConflicts(t)
                      \/ \E p \in Paths : Perform(t, p)
                      \/ Proceed(t)
  \/ \E l \in Lookups : \/ \E p \in Paths : Paint(l, p)
                        \/ Ask(l) \/ PaintAnswer(l)
  \/ \E p \in Paths : ChangeOutside(p)
  \/ Forget

\* A command ends one way or another, and so does a lookup; Explorer draws what it was
\* told to, whatever else it draws (strong).
UserFairness ==
  /\ \A t \in Tasks : WF_userVars(Proceed(t))
  /\ \A l \in Lookups : WF_userVars(Ask(l)) /\ WF_userVars(PaintAnswer(l))
  /\ \A p \in Paths : SF_userVars(p \in dirty /\ \E l \in Lookups : Paint(l, p))

UserSpec == UserInit /\ [][UserNext]_userVars /\ UserFairness

----------------------------------------------------------------------------
\* A failed `wf fileinfo' leaves a file without icon, which nobody repairs.
OutOfDate(p) == painted[p] \notin {actual[p], NoStatus}

\* A command that has changed p or cleared the cache is still to announce the folder of p.
ToBeAnnounced(p) ==
  \E t \in Tasks : /\ task[t].folder = Folder[p]
                  /\ \/ task[t].pc = "running" /\ p \in task[t].changed
                     \/ task[t].pc = "cleared"

BeingPainted(p) == \E l \in Asking : lookup[l].path = p

\* Unless a file was changed silently (outside, in a folder its command does not
\* announce, or by a command that threw), or drawn from an answer that a full clear
\* overtook, an icon that is out of date is one that Explorer is drawing, was told to
\* draw, or is going to be told to draw.
AnnouncedIsPainted ==
  \A p \in Paths \ (silent \cup torn) :
    OutOfDate(p) => p \in dirty \/ BeingPainted(p) \/ ToBeAnnounced(p)

\* In the end the screen shows what the commands did, those included that failed after
\* half of their files.
ScreenSettles == <>[](\A p \in Paths \ (silent \cup torn) : ~OutOfDate(p))

=============================================================================
