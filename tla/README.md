# A verification project for TortoiseSI

TortoiseSI is an extension of Windows Explorer for PTC Integrity, a version control
system. Explorer, and every program that opens a file dialog, loads
`TortoiseSI.dll`; it marks files with icon overlays, adds a context menu and a property
page, and gets everything it knows by running commands (`wf fileinfo`, `wf folders`,
`si servers`, `si connect`, ...) of the Integrity client, a separate program that talks
to a server. This directory holds TLA+ models of the parts of it that keep state shared
by threads and processes, the TLC configurations that check them, and proofs checked
by TLAPS.

Run `tlc -config X.cfg M.tla` for the runs below, `tlapm M.tla` for the proofs.

## 1. Inventory

Only part of the tree is compiled. `TortoiseShell` (the extension), `Integrity` (the
commands) and a few files of `Utils` carry the program; `TortoiseProc` is a program of
its own with an about and a commit dialog. Most of `SI/`, of `TortoiseProc/Common`, of
`Unused/` and of `Utils` comes from TortoiseGit and is either in no project file or
called by nothing that is. There are no unit tests.

| Part | State | Operations | Interacts with |
|---|---|---|---|
| `AbstractCache.h` | the value, `lastRefresh`, `refreshInProgress`, under one lock | `getValue`, `forceRefresh`, the thread `updateCacheValue` | derived by the next two; the wall clock; the client |
| `RootFolderCache.cpp` | the sandboxes' root folders | `isPathControlled`, `getRootFolders`, `cachedValueUpdated` | tells Explorer (`SHChangeNotify`) what to draw again |
| `ServerConnections.cpp` | `ConnectionState` in the registry, shared by all processes, under a named mutex; the cached list of servers | `isOnline`, `onConnectionError`, `cachedValueUpdated`, the thread `tryToConnect` | error handlers of every command; the login dialog of `si connect -g` |
| `StatusCache.cpp` | ten entries (path, status, creation time) under one lock | `getFileStatus`, `clear(path)`, `clear()` | overlay handlers, menu, property page; `isOnline`; the client |
| `IconOverlay.cpp` | which overlays Explorer gave a slot | `GetOverlayInfo`, `IsMemberOf`, `doesStatusMatch` | asked by Explorer, one COM object per overlay |
| `IntegritySession.cpp`, `IntegrityActions.cpp` | `actionMutex`, `bShowingDialog`, the error handlers | `execute`, one function per command, `executeUserCommand` | everything above |
| `ContextMenu.cpp`, `MenuInfo.cpp` | the table of items, maps from ids to items per menu | `QueryContextMenu`, `InvokeCommand`, the tests and commands of the items | root folders, statuses, user commands |
| `TortoiseStub.cpp` | the handle of the real DLL and two pointers into it, without a lock | `DllGetClassObject`, `DllCanUnloadNow` | COM; loads and frees the next |
| `TortoiseSI.cpp`, `ShellExt.cpp`, class factory, `SIPropertyPage.cpp` | `g_cRefThisDll` | constructors and destructors, `CreateInstance`, `AddPages` | COM, the property sheet |
| `ShellCache.h`, `registry.h` | drive types, settings | `IsPathAllowed`, reads with an age | registry |
| `ReaderWriterLock.cpp` | counters, two events, a map of holders | acquire, release, upgrade, downgrade, with timeouts | compiled, used by nothing |

What is hard here:

* **threads**: Explorer calls from many threads; each refresh of a cache, each connect
  and each user command is a thread nobody waits for; the results of these come late,
  and notifications of two of them can overlap;
* **processes**: every process that has loaded the extension reads and writes one
  registry value, ends when it likes and leaves what it wrote;
* **failure**: a command fails, cannot reach the client, throws, or its thread cannot be
  started; flags set before it must not stay set;
* **time**: ages are computed from a wall clock that can be set back;
* **staleness**: what a decision rests on (a cached list, a status read by the previous
  handler, a notice) may be over when it is used;
* **locks**: error handlers run inside the mutex of the commands and take the one of
  all processes; a modal message box may be up meanwhile;
* **lifetime**: the stub frees the real DLL when it says it is unused, with threads of
  other calls on their way into it.

`PROJECT.json` lists each hazard at its line with the properties for it.

## 2. Modules

| Module | Models | Proofs |
|---|---|---|
| `RefreshedValue` | the abstract specification of a cache: one refresh at a time, each result no older than its request | |
| `AbstractCache` | `AbstractCache.h` | `CacheProofs` |
| `RootFolderCache` | `RootFolderCache.cpp` with Explorer's screen; EXTENDS `AbstractCache` | `CacheProofs` |
| `PathControl` | the path strings of `RootFolderCache.cpp`, of the guard of Create Sandbox and of the search for a sandbox in `MenuInfo.cpp` | `ContextMenuProofs` |
| `ServerConnections` | `ServerConnections.cpp`, several processes | `ServerConnectionsProofs` |
| `StatusCache` | `SmallFixedInProcessCache` of `StatusCache.cpp` | `StatusCacheProofs` |
| `IconOverlay` | `IconOverlay.cpp`, rounds of questions through the status cache; EXTENDS `StatusCache` | `IconOverlayProofs` |
| `ContextMenu` | `ContextMenu.cpp` and the table of `MenuInfo.cpp`, several handlers and windows; the exclude filter | `ContextMenuProofs` |
| `UserCommands` | the commands of `MenuInfo.cpp` that change files, what they announce, and the icons Explorer shows; EXTENDS `StatusCache` | `StatusCacheProofs` |
| `ClientCommands` | `IntegritySession::execute`, the mutexes and the call trees of the operations | `ClientCommandsProofs` |
| `ShellLifetime` | the stub, the count of the real DLL, its factories, objects and pages | `ShellLifetimeProofs` |
| `SharedAccess` | the abstract specification of a reader-writer lock: who reads, who writes, who waits to write | |
| `ReaderWriterLock` | both classes of `ReaderWriterLock.cpp` | `ReaderWriterLockProofs` |

`MC<M>` instantiates module `M` for TLC.

**AbstractCache.** One action per critical section of `lockObject`: `GetValue` (with
`refreshIfStale`), `ForceRefresh`, `Publish`. `forceRefresh` starts its thread after the
lock is released, so `StartRefresh` is a step of its own, and the fetch
(`FetchNewValue`), which holds no lock, and the notification after the publication
(`CachedValueUpdated`) are others. A value is the version of the server that the command
reported, 0 the empty vector of a failed command. Failures: the command fails, the fetch
throws (the dropped future swallows the exception and the flag stays set), the thread
cannot be started, the clock is set back.

**RootFolderCache** adds what is drawn for each folder, what Explorer was told to draw
again and, per task, the notifications of the loop over the changed folders still to
send. Explorer may draw any folder at any time.

**ServerConnections.** The registry value, the holder of the mutex with what it is about
to write, whether the client is connected, and per process the cached list (empty or
not), its refresh, late `cachedValueUpdated` calls and failed commands on their way to
the error handler. Each connect thread has a phase. A section that reads the value and
then writes it is two steps, because the `catch` in `transitionToPromptingState` writes
without the mutex. The expiry of the list may fall at any moment. A process can end at
any step; a mutex it holds is then abandoned, which frees it.

**StatusCache.** A status is a version; `NO_STATUS`, 0, is also what `fileInfo` returns
for a command that failed. Search, command and insertion are three steps, as only the
first and the last are locked. The slot that an insertion replaces is computed as the
code computes it, with its sign. The clock may be set back by any amount, `setBack` in
all, which makes the ages of entries negative; `overrun` is the history of an insertion
that finds no slot, for which the code writes `cachedStatus[-1]`.

**IconOverlay.** The rules of `doesStatusMatch` in their order as a table and the handlers
in the order of their priorities. A round is a thread that asks them one after the other,
each with the steps of `getPathStatus`: `isPathControlled`, `isOnline`, the search, the
command, the insertion, the last three being those of `StatusCache`. Between any two of
them the other threads use the same cache (`CacheStep`): they look the same file up, add an
answer they got long ago, in whatever slot the code puts it, clear the file or everything;
and the file, the connection and the root folders change. A round carries its history:
`first` is the status its first handler was given, `during` are the statuses the file had
in live entries and answers at its start or was given since, and `torn` says that the
live entries of its file changed otherwise than by the round itself, or the way to the
status did.

**ClientCommands.** An operation is a set of courses, each a sequence of locks taken and
released and of commands run, read off the call tree; `Return` puts the error handler or
the steps of the message box in front of what is left of the course. An operation may be
begun by any thread at any time.

**ContextMenu.** `menuInfo` is `Table` with `Enabled`; an item's offset is the number
of entries and separators shown up to it, as the loop over the table counts them. What is
assumed of the statuses is what the flags of `IconOverlay.cpp:177-189` have, and of the
names that a pattern is not the text of an item. `QueryContextMenu` is one action up to the exclude filter submenu, together
with the `Initialize` before it, whose selection nothing else reads; then the assignment
of a pattern's command to the shared entry (`AssignCommand`) and its copy into the maps
of the handler (`InsertPattern`) are steps, as threads of other windows do the same to
the same entry. `shown` is what the user sees, the maps are what the handler finds.
`InvokeCommand` closes the menu; on a pattern it reads the filter, which may fail and
then reads as empty, and starts the `setprefs` command that ends later, in any order.
Verbs are the names of items: no file is named like an item's text. Paths on other
drives, namespace extensions, illegal folders and `CMF_DEFAULTONLY` lead to no menu and
have no action.

**UserCommands.** A command is a thread with the files it changes and the folder it
announces, read off the entries of `MenuInfo.cpp`: the selected files and the folder of
the first (`ActOnFiles`), a sandbox and its folder (`RetargetSandbox`) or the folder
above (`ResyncSandbox`), everything (`SetExcludeFileFilter`), no announcement
(`MergeConflicts`). While it runs, the client changes the files in any order and may stop
at any (`Perform`); the answer clears the whole status cache (`RefreshFolder`), then
Explorer is told (`Notify`). When an exception comes out of `execute`, the `catch` of the
thread takes it after the call of `onDone`, which is skipped (`ExecuteThrows`): nothing is
cleared and nobody is told. Drawing a file is a lookup of `StatusCache`, with its three
steps. `silent` and `torn` are history: files changed where no command in progress will
announce it, among them those a command had changed when its `execute` threw, and files
drawn from an answer asked for before the last full clear.
Commands that only open a view of the client change no state of this program and are
left out.

**ShellLifetime.** The stub has no lock, so `DllGetClassObject` and `DllCanUnloadNow` are
cut where they read or assign its three variables. `image` is the mapping of the real
DLL, numbered, and a pointer is the number of the image it leads into, so that a pointer
that outlived its image shows. `Release` ends at the decrement in the destructor,
`Destroyed` is the rest of it. A load may fail, and a DLL may lack either function.

**ReaderWriterLock.** What happens between `EnterCS` and `LeaveCS` is a step; a wait that
returns (`readWoken`, `readExpired`, `writeExpired`) and the critical section after it
are two. Both classes share the actions; the reentrant one has the map of holders, the
bare one trusts its callers, who are assumed to release what they hold. `SharedAccess` is
what the comments of `ReaderWriterLock.h` say of it: `Readers`, `Writers` and `Queue` are
the refinement mapping, in which a thread that waits to read is nowhere.

**PathControl** works on characters, as the code does, and compares with the meaning
of paths as sequences of names without regard to case. The case mapping of Windows
(`Fold`) and that of the code are different: `::tolower` in the C locale changes the
letters in `Ascii` and leaves others alone, so that two spellings of one folder can be
different strings after `Lower`. `Around` are the sandboxes a place lies in,
`Visible` those among them whose folder is written alike but for ASCII letters, and each
property says for which of the two it holds. The characters of names, both mappings, the
names, their number in a path and the number of sandboxes are parameters; the only thing
assumed of them is that a name is not empty and has no separator in it, and that `Fold` of
a letter is a letter that `Fold` leaves alone.

How they compose: `RootFolderCache` is `AbstractCache` with more variables
(`RootIsCache`). `ServerConnections` relies on `SingleFlight` of the same cache to keep
one refresh of the list per process; `IconOverlay` is `StatusCache` with the threads that
paint (`OverlayIsCache`), and a Boolean each for `isOnline` and `isPathControlled`; `ContextMenu` takes any status, as its flags may be stale when
it asks; `UserCommands` is `StatusCache` with the threads of the menu's commands and the
screen; `ClientCommands` has the locks of all of them and none of
their values.

## 3. Runs

| Run | Question | Bounds |
|---|---|---|
| `folders` | no overlapping refreshes; no change is lost on the way to the screen; the screen catches up; the cache implements the fair `RefreshedValue` | 2 callers, 2 tasks, 2 folders, 3 versions, 1 failure of any kind |
| `path_control` | the prefix tests mean what they should, and the menu finds the right sandbox | 5 names over 4 letters, two of them not ASCII, depth 2, both spellings, up to 2 sandboxes |
| `connection_safety` | Prompting has its connect thread; Online rests on evidence; offline is silent | 2 processes, 2 connect threads, 1 drop, crash, failed start |
| `connection_live` | the state follows the connection in the end | 1 process that can end and restart, 2 connect threads |
| `status` | no overrun before the clock was set back by the expiry time, full clears hold, few duplicates, stale statuses die out | 2 lookups, 2 slots, 1 file, expiry 2, set-backs of 4 in all, 2 versions, 1 failure |
| `status_oldest` (violation) | a full cache gives up its oldest entry | 3 files, 2 slots |
| `commands` | lock order, no circle of waiting threads, serial commands, every operation ends | 2 threads, of one process or two, all operations |
| `overlay` | one handler per status, rounds agree with themselves and paint nothing old, the right overlay in the end | 1 thread that paints and 1 other, 1 file, 2 slots, expiry 1, 2 versions, 1 failure, 2 sets of overlay slots |
| `menu` | an item runs what it shows, by id and by verb; one popup per menu; a click changes the filter as its submenu says | 3 handlers in 2 windows, first ids 1 and 40, 2 menus, 2 clicks, 2 files, 3 patterns |
| `user_commands` | what a command changed and announced is drawn, and the screen settles | 2 commands, 2 files in a folder and in one below it, 1 drawing thread, 2 versions, 1 slot |
| `lifetime` | calls reach mapped code; the DLL stays while it is used and goes when it is not | 3 threads, 3 things, 3 images, every failure of a load |
| `rwlock` | writers are alone, nothing is left behind, no wake-up is lost, writers get in; the lock implements `SharedAccess` | 3 threads, both classes, each hold twice, timeouts |

Why the bounds are enough for what they are for. Two tasks allow a refresh in flight
together with a late notification of an opposite change (a sandbox created, then
dropped); the theorem about `EveryChangeAnnounced` has any number. Two processes give a writer without the mutex
between another's read and write; a third adds no new pair. For the status cache one
file is enough because entries of other files differ only in the slots they take, as
duplicates do, and `status_oldest` has three files; set-backs of twice the expiry time make
the array overrun happen. In `overlay` two slots let the file be in the cache twice, with a late
answer in front of a newer one, and expiry 1 lets entries die between two handlers; the two
sets of overlay slots are those with and without substitutes at work. The clock set back
and full clears are in `status` and left out there. Circles of more than two waiting
threads are the theorem about `NoWaitCycle`. The handler
table is checked for few statuses and proved for all.
Two menus are one handler asked again with other ids (stale maps), two handlers for one
menu, or two windows at a time on the shared entry; first id 1 makes ids and offsets
collide, 40 is more than a menu has items. In `user_commands` two commands on nested
folders give every order of clearing and announcing, and one slot makes the files compete
for it; failed lookups are in `status` and are left out there (`MaxFailures` is 0).
Three images in `lifetime` are a load, a reload and one more; its cfg has the constraint
`Orderly`, since nothing is claimed of what follows two loads, or a load and an unload, at
the same time (see the findings). Three threads in `rwlock` are a holder, one that waits
as writer or upgrades, and a reader between the end of its wait and its next `EnterCS`.

`CHECK_DEADLOCK FALSE` stands where versions, crashes or drops are bounded and
everything may come to rest.

### Fairness

* A started thread makes progress: tasks, connect threads, lookups, notifications (weak).
* The clock runs (weak), Explorer goes on drawing and polling what it shows (weak), and
  draws what it was told to (strong, only because of the bound on tasks).
* A thread that waits for a mutex gets it, though others take and release it meanwhile
  (strong). Windows and the C++ library promise no order but grant it in practice;
  without it every liveness property of a locking program fails.
* A poll eventually falls on an expired list of servers (strong): 30 seconds pass whatever
  the other processes write.
* A connect dialog may stay open for ever. `Recovers` does without an answer;
  `OfflineDetected` assumes that each dialog ends, in its own premise, because the bound
  on connect threads would otherwise keep later errors from being handled. In
  `ClientCommands` the user closes the message box.
* In `ShellLifetime` COM asks again and again whether the DLL can go (strong, as calls to
  load keep interrupting it); in `UserCommands` the client ends what it was asked for and
  Explorer draws what it was told to, whatever else it draws (strong).
* A thread that holds the reader-writer lock lets go of it in the end (strong), and one
  that can run does (weak). Nothing makes a thread call it.
* A round of questions goes on and an entry grows older (weak), and Explorer paints each
  file again and again, though it paints others meanwhile (strong).

Nothing is assumed of failures, drops, crashes or of the server.

### Findings

* `ReplacesOldest` (run `status_oldest`): `addCachedStatus` says "find oldest" and takes
  the last slot, since creation time less the present is never large.

Noted while modelling, without a run:

* `warnIfPathHasControlledDecendantFolders` has a comment, a name and a message that ask for
  something else than what it does: they speak of sandboxes below the selected folder
  (`MenuInfo.cpp:52-53`, `:66-67`), the test (`:71`) finds those above it. A folder with a
  controlled folder somewhere below it is let through. The user guide (`:156`) forbids
  what the test finds, a sandbox in another, and that half is `NoSandboxWithinSandbox`;
  nothing is claimed of the folders above a sandbox, on which code and comment disagree;
* `::tolower` changes ASCII letters only, Windows ignores the case of all: a path that differs
  from the sandbox's in the case of another letter looks uncontrolled
  (`RootFolderCache.cpp:38`, `:59`), is let through by the guard of Create Sandbox
  (`MenuInfo.cpp:64`) and finds no sandbox to drop (`:114`). The properties of `PathControl`
  are about the sandboxes a path is `Visible` in where they promise an answer;
* `addCachedStatus` writes `cachedStatus[-1]` when the clock was set back by five seconds or
  more while the cache holds ten newer entries, since then no entry passes the test
  (`StatusCache.cpp:98-113`). Nothing in the code bounds the set-back; `WritesInside`
  says that less than the expiry time is harmless, and the run reaches the overrun beyond it;
* a command whose `execute` throws is ended by the `catch` of its thread
  (`IntegrityActions.cpp:998-1000`) without `onDone`: what it had changed by then is neither
  cleared nor announced. An error handler that cannot start its connect thread throws
  like that (`ServerConnections.cpp:73-77`);
* "only show one dialog" (`IntegritySession.cpp:144`) does not hold: the flag is tested and
  set in two steps, and two commands that fail together can both find no box showing;
* the guide says a lost connection leads to silent offline mode
  (`TortoiseSIUserGuide_en.html:119`), but an error while Online starts `si connect -g`,
  which asks the user to log in; only after that is the state silent (`OfflineIsSilent`);
* `FileStatus.h:39-41` says error results are not cached, but a failed `wf fileinfo` is
  `NO_STATUS`, which is not in `ErrorMask`, and is cached for five seconds;
* `actionMutex` is there to keep several client sessions from being started
  (`IntegrityActions.cpp:912`), but `connect` does not take it;
* the guide says a refresh shows updated icons (`:610`), but a round that ended without
  overlay leaves an entry that a refresh within five seconds is served, and another
  thread can put an older answer in front of a newer entry. `RoundIsFresh` therefore counts the
  live entries and the answers under way at the start of a round among what it may paint;
* `MenuInfo.cpp:163` says a pattern is added "if it is not already in the filter", but one
  that is there is removed, and `InsertIgnoreSubmenus` offers patterns without looking: a
  member, or a file with a stale status, has `*.txt` under Add although the filter has it,
  and the click removes it. `ClickDoesWhatItSays` therefore speaks of patterns whose
  presence agrees with the submenu;
* two windows that build an exclude filter submenu at the same time can give each other's
  pattern to an item; `ShownRunsItself` and `ClickDoesWhatItSays` exclude such menus
  (`overlapped`), and TLC refutes them within nine steps if they do not;
* a verb leads to an absolute id that is the offset of another item when Explorer's
  first id is small; `VerbRunsItsItem` excludes this by its premise;
* two clicks on patterns before the first `setprefs` ended lose the first change, and a
  `viewprefs` that fails makes the click drop every other pattern;
* what else changes without an announcement keeps its icon (`silent` in `UserCommands`):
  everything Resolve Merge Conflicts does, the files of a selection outside the folder of
  the first one, and the files of a sandbox that was resynchronised by its own entry,
  which announces the folder above;
* an answer asked for before a full clear is put into the cache, and on the screen, after
  it (`torn`): the announced drawing then shows the old status for as long as the entry
  lives;
* the stub's "try default dll location" (`TortoiseStub.cpp:214`) is never reached, as
  `LoadTortoiseSIDll` returns `NIL` and never NULL; and a DLL without `DllCanUnloadNow` is
  freed with `pDllGetClassObject` still set (`:242-248`), so that the next call would
  follow it. No build of the DLL lacks it; `Orderly` leaves it out;
* two first calls of the stub can load the DLL twice, and a call that passes an unload can
  follow a pointer into freed code; COM serialises unloading, so `overlapped` histories
  are left out;
* a destructor counts down before it has left (`ShellExt.cpp:59`), and the threads of
  refreshes, connects and commands are not counted at all: the DLL may go under them;
* a property page that the sheet refuses is deleted, and once more by the callback of
  `DestroyPropertySheetPage` (`SIPropertyPage.cpp:830`);
* in the bare reader-writer lock a reader that is alone and calls `UpgradeToWriterLock`
  waits for itself, and a writer that enters without waiting leaves the read event set, so
  that readers who wait wake and sleep in turn until it is done; `NoLostWakeup` and
  `WritersGetIn` are about the reentrant class;
* `ShellCache.h:78` compares tick counts that wrap after 49.7 days, one ticker serves all
  drives, so that reading one makes the types of all others look fresh, and `< 25` leaves
  drive Z to the entry of the other paths.

## 4. Proofs

All theorems hold for every value of the constants, under the named assumptions in the
modules (bounds are naturals, sentinels are not members, and so on). Every safety
property that a run checks is a theorem, except the one that a run refutes. Each inductive
invariant was an invariant of a run before it was proved.

**AbstractCache.** `SingleFlight` is inductive given the types: the owners of the flag
(a caller between flag and thread, a task that has not published) are at most one, and
the flag is set exactly while there is one or the refresh was lost. `FlightIsNewer`
needs it, since a second flight could carry an older answer, and needs `HistoryOrder`,
which relates the newest published version, the one the server had at the request, and
the server's. `IInv` is their conjunction with `TypeOK`. `NeverBackwards`,
`LostIsFinal` and the refinement of `RefreshedValue` are proved of a step from `IInv`.

**RootFolderCache.** `ShellTypeOK /\ EveryChangeAnnounced` is inductive: a publication
puts every folder whose answer changes into the task's notifications in the same step,
and only drawing takes a folder off Explorer's list, with the answer of that moment.
`RootIsCache` carries the theorems about the cache over.

**ServerConnections.** `PromptingHasConnect` is inductive: Prompting is written together
with the start of a thread, and each way a thread ends writes another state; a crash sets
`orphan`. `OnlineIsEvidenced` needs `EvidenceBacked`: everything a process can decide
Online from (a list, an answer in flight, a notice, a successful connect, a pending
write) goes back to a connection. `OfflineIsSilent` is a step property.

**IconOverlay.** `OnlyOneHandler` for the statuses that `FlagsOf` gives flags, whichever these
are: the overlay slots never change, a rule without substitute belongs to a handler that
has one, and the least matching rule exists. Every step of a round, and of the other
threads, is one of `StatusCache` (`OverlayIsCache`). `RoundAgrees` rests on `AgreeInv`: the
first handler's status is what a search of the cache finds now (`Serves`), as long as the
round is not torn, and the handlers asked since did not match it (`Asked`). Whatever
another thread does either leaves the live entries of the file as they are, slots
included, and with them what the search finds, or tears the round; and an insertion of the
round's own makes the only live entry, because its search found none and any other since
has torn it. `RoundIsFresh` rests on `FreshInv`: each live entry of the file, each answer about it on
its way into one, and what the round has decided on comes from `during`. It needs that
nothing but an insertion makes an entry live (`NewEntries`), which holds while the clock
was not set back, and that an insertion hits a slot (`WritesInsideHolds`).

**StatusCache.** `WritesInside` is about any set-backs: the age of every entry is at least
`-setBack`, so that as long as the clock was set back by less than the expiry time
in all, the last slot passes the test. `ClearFlushes` counts: each step that brings an old
entry back takes an old lookup away, and a full clear makes the lookups under way the bound.
`DuplicatesBounded` counts the live entries of a file and the lookups about to add one
together; a lookup starts only when there is no live entry, and nothing but a clock set
back makes an entry live again.

**UserCommands** takes no step of the cache that `StatusCache` does not (`UserIsCache`), so
that the theorems about the cache hold of it. `AnnouncedIsPainted` needs to know what an
answer can be wrong about. `Known` says it of an entry, and of an answer on its way to
one: asked for since the last full clear, it is the truth, or no status, unless the file
was changed silently or a command that changed its folder has not cleared the cache yet.
A command that ends by an exception makes what it changed silent in the same step.
The last case is what makes the order in `refreshFolder` matter: at the clear nothing of
this era is left, and the drawing that is announced after it asks again.

**ContextMenu.** `OnePopup`: the test for a popup and its insertion are steps apart, so
`PopupInv` says that a window whose handler is inside a call has no popup and no other
handler inside one. The items and their ids play no part in it. `MenuInv` is about these:
for each handler, from the first item of a menu to its closing, the items shown lie at
offsets below the next one to be given out, are found there, and run what they show
(`ShownFound`, `ShownNamed`); the command of the shared entry is that of the pattern about
to be copied, unless another window came between (`CommandKept`); and a verb leads to an
id that leads to the item (`VerbsLeadBack`), also when a pattern is registered again with
it. That different items have different offsets is a fact about counting
(`OffsetBelowNext`). `ClickDoesWhatItSays` follows from `ClicksToggle`, since what a click
finds is what is shown.

**PathControl.** No more is invariant than what the two lists were fetched from; the
argument is about strings. A place is a sequence of names and a folder's string is the
names with a separator after each; `BeginsIffAbove` says that one such string begins
another exactly when its names begin the other's. At the first name that differs both
strings go on from the same place, and as a separator follows each name and is in none,
neither name can end before the other (`SameWord`). For the strings after `Lower` that is
the order `Beneath` of lower-case names, and all three answers are about it. It
lies between the two orders the properties speak of (`SeenBetween`): places `Beneath` each
other are `Within` each other because `Fold` undoes what `Lower` left, and where the spelling
differs in ASCII letters only, `Lower` leaves no difference. Lower case commutes with joining and
with the separator at the end (`LowerJoin`, `EndAndCase`), so that both spellings of a
place have one normal form (`OneNormalForm`), and a sandbox's name without its last
component is that of its folder (`SandboxFolderIs`). `FlattenSteps` turns the recursive
function of the library that joins the names into a sequence of steps: induction is by the
least counterexample (`LeastNat`).

**ClientCommands.** What a thread holds decides what it may do next: take a lock that ranks
after all it holds, release one it holds, run a command of a cache with exactly the action
mutex held or any other with nothing. A `Path` is a sequence of steps each of which is
allowed after those before it. Paths compose, so every course, every error handler and the
message box is one; the invariant is that what a thread has still to do is a path from
what it holds to nothing held. `LockOrder` and `CommandsSerial` are its first step.
`NoWaitCycle` follows from `LockOrder` for sets of waiting threads of any size: who waits
for another that waits does so for a lock of a lower rank than that one, and there are three ranks.

**ShellLifetime.** Under `Orderly` the invariant says, for each place of a thread in the
stub, what the handle, the pointers and the image are: at most one thread loads, no other
thread is in the stub while one unloads, and `g_cRefThisDll` is the number of live factories,
objects and pages while an image is mapped. `CallsMappedCode` and `MappedWhileInUse` follow.

**ReaderWriterLock.** The invariant ties the counters to the threads: `readersEntered` is
the number of threads that read, `writers` those that hold or queue, `readersWaiting` those
inside a wait. `Exclusion` follows from it; `NoLostWakeup` needs in addition who set which
event, and `NothingLeftBehind` is the case of no thread inside. For the refinement of
`SharedAccess` the role of a thread before and after a step tells which promise it is
(`RoleStep`); what remains to be seen of each step of the code is that it moves one thread
(`StepAlone`) and lets in no one past a queue (`Admitted`), as the exclusion that the
invariant keeps is the other guard.

Model-checked only: all liveness (`ScreenCatchesUp`, `Recovers`, `OfflineDetected`,
`StaleDiesOut`, `OperationsEnd`, `OverlaySettles`, `WritersGetIn`, `ScreenSettles`,
`FreedInTheEnd`) and the fair half of `ImplementsFairRefreshedValue`, which the proof system
does not handle under fairness; its steps are the theorem `Refinement` of `CacheProofs`.

## 5. Assumptions and what is not modelled

* A future dropped by the code does not wait for its thread. The code relies on it: a
  waiting destructor would let the refresh of the servers wait for `actionMutex` inside
  the connection mutex; the mutant `GetFileStatusWaiting` shows the deadlock that
  follows.
* The models begin with constructed objects. That the base constructor starts a thread
  which calls virtual functions of the derived class, and that an error handler is added
  while another thread may be running through the list, are listed as hazards only.
* A null session or command runner (`IntegritySession.cpp:177`) is left out.
* Integration points, logging, texts, and the options of user commands are left out, as
  are folders and removable drives in `IconOverlay`, which have constant answers.
* A copy of the shared menu entry that overlaps an assignment in time is a data race; the
  model has the outcomes of the two orders, not a torn `std::function`.
* Not modelled: `ShellCache`, one bit per drive that the overlay and menu models take as
  given; `registry.h`, modelled where it carries the connection state, as a variable; the
  property page and the dialogs (layout); the getters of `IntegrityResponse`, which keep no
  state; the choice of the language DLL; installer, languages and vendored libraries.
* Most of the tree is not modelled because it is not this program: the files of `SI/`,
  `TortoiseProc/Common`, `TortoiseProc/Commands`, `Unused/`, `ResText` and most of `Utils`
  come from TortoiseGit, and are in no project file or called by nothing that is. The
  share of the lines of the tree that these models cover is small for that reason; of the
  extension and its commands they cover the parts that keep state.

## 6. Plan

Done, in this order: the cache and its abstract specification with proofs, the root
folders, the connection with proofs, the status cache, the commands, the overlays, the
context menu, the commands of its items, the lifetime of the DLLs, the reader-writer lock,
proofs of the last two, of the status cache and of the rounds of overlays; then those of
the menu's items, of the locks around the commands, of the user's commands, of the path
strings, and of the promise of the reader-writer lock; then the rounds of overlays as
steps of the status cache, with other threads at the same file.

Next:

1. An abstract specification of the status cache: an answer is a status the file had since
   the expiry time before it was asked for, unless the clock was set back.
2. `UserCommands` drawing by the rounds of `IconOverlay` instead of by single lookups.
3. A run that refutes the comment on `warnIfPathHasControlledDecendantFolders`, as
   `status_oldest` does for the one on `addCachedStatus`.
4. `ShellCache`: the shared ticker against a drive that changes its type.
