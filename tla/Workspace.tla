----------------------------- MODULE Workspace ------------------------------
(* What happens in a workspace between commands, side by side: the watcher and the *)
(* renames, the guard before an upload, the services that follow sftp.json, the    *)
(* remote tree, what is dropped on it and what is edited from it. `part` says      *)
(* which of them moves: they share no state here, so a state of one is not         *)
(* multiplied by those of the others.                                              *)
EXTENDS Integers, Sequences

CONSTANTS Parts,                                               \* those that may move
          Paths, FirstPaths, MaxActs, Commands, Troubles,      \* the watcher
          Jobs, Texts, SizeOf, FirstCopies, MaxClock, MaxEdits, \* the guard
          Files, FirstSettings, Opened, MaxWrites, MaxChoices, \* the services
          MaxListings, MaxRefreshes, MaxChanges,               \* the tree
          Rows, Folders, MaxPicked, Protocols,                 \* what is dropped on it
          Servers, Hosts, FirstServers, Setups, MaxServices    \* what is edited from it

VARIABLES part,
          local, remote, changes, suppressed, uploadQueue, deleteQueue, uploadTimer,
          deleteTimer, moving, ops, acts, left, excused, missed,
          clock, here, there, baseline, job, edits, seen, alone,
          file, trie, watchers, profile, available, shown, active, timer, events, handlers,
          picker, toggle, writes, choices, overlapped, stale, unreconciled,
          treeThere, filter, epoch, refreshes, treeChanges, cache, listings, call, quiet,
          protocol, picked, target, place, move, told, blind,
          setup, server, service, lastService, roots, readOnly, tab, bar, remoteFile, temp, op,
          editorActs, crossed

watchVars == <<local, remote, changes, suppressed, uploadQueue, deleteQueue,
               uploadTimer, deleteTimer, moving, ops, acts, left, excused, missed>>
guardVars == <<clock, here, there, baseline, job, edits, seen, alone>>
serviceVars == <<file, trie, watchers, profile, available, shown, active, timer, events,
                 handlers, picker, toggle, writes, choices, overlapped, stale,
                 unreconciled>>
treeVars == <<treeThere, filter, epoch, refreshes, treeChanges, cache, listings, call, quiet>>
dropVars == <<protocol, picked, target, place, move, told, blind>>
editorVars == <<setup, server, service, lastService, roots, readOnly, tab, bar, remoteFile, temp,
                op, editorActs, crossed>>
vars == <<part, watchVars, guardVars, serviceVars, treeVars, dropVars, editorVars>>

Watch == INSTANCE Watcher WITH events <- changes
Guard == INSTANCE UploadConflict WITH
  Contents <- Texts, FirstFiles <- FirstCopies, local <- here, remote <- there
Service == INSTANCE Services WITH
  Contents <- Files, FirstFiles <- FirstSettings, Editors <- Opened
Tree == INSTANCE RemoteTree WITH Calls <- Jobs, there <- treeThere, changes <- treeChanges
Drop == INSTANCE RemoteDrop WITH Items <- Rows
Editor == INSTANCE RemoteEditor WITH
  FirstFiles <- FirstServers, file <- remoteFile, acts <- editorActs

ASSUME WorkspaceAssumption ==
  /\ Parts \subseteq {"watch", "guard", "service", "tree", "drop", "editor"}
  /\ Watch!WatcherAssumption /\ Guard!ConflictAssumption /\ Service!ServicesAssumption
  /\ Tree!TreeAssumption /\ Drop!DropAssumption /\ Editor!EditorAssumption

\* A part that stands still begins in one state.
Init ==
  /\ part \in Parts
  /\ Watch!Init
  /\ Guard!Init
  /\ Service!Init /\ (part # "service" => active = CHOOSE path \in Opened : TRUE)
  /\ Tree!Init /\ (part # "tree" => treeThere)
  /\ Drop!Init /\ (part # "drop" => protocol = CHOOSE p \in Protocols : TRUE)
  /\ Editor!Init
  /\ part # "editor" =>
       /\ setup = (CHOOSE s \in Setups : TRUE) /\ server = (CHOOSE s \in Servers : TRUE)
       /\ remoteFile = [s \in Servers |-> CHOOSE f \in FirstServers : TRUE]

Moves(p, variables) == part = p /\ UNCHANGED <<part, variables>>
Next ==
  \/ Moves("watch", <<guardVars, serviceVars, treeVars, dropVars, editorVars>>) /\ Watch!Next
  \/ Moves("guard", <<watchVars, serviceVars, treeVars, dropVars, editorVars>>) /\ Guard!Next
  \/ Moves("service", <<watchVars, guardVars, treeVars, dropVars, editorVars>>) /\ Service!Next
  \/ Moves("tree", <<watchVars, guardVars, serviceVars, dropVars, editorVars>>) /\ Tree!Next
  \/ Moves("drop", <<watchVars, guardVars, serviceVars, treeVars, editorVars>>) /\ Drop!Next
  \/ Moves("editor", <<watchVars, guardVars, serviceVars, treeVars, dropVars>>) /\ Editor!Next

Spec == Init /\ [][Next]_vars

-----------------------------------------------------------------------------
\* No variable leaves its type.
TypeOK ==
  CASE part = "watch" -> Watch!TypeOK
    [] part = "guard" -> Guard!TypeOK
    [] part = "service" -> Service!TypeOK
    [] part = "tree" -> Tree!TypeOK
    [] part = "drop" -> Drop!TypeOK
    [] part = "editor" -> Editor!TypeOK

\* No change waits in a queue that nobody will empty; and when the watcher has nothing left
\* to do, the server has what the disk has, unless a change was dropped because its path was
\* claimed, two handlers met on one file, a deletion waited until the file was there again, a
\* rename moved an older version, or a transfer failed (fileWatcher.ts).
WatcherConverges == part = "watch" => Watch!NothingStranded /\ Watch!Converges

\* A rename that is made up for by an upload takes the old name from the server only when
\* the file is there under the new one (fileWatcher.ts:197), unless its own upload was not
\* sent or a removal of what had the new name before was in progress beside it.
OnlyCopySurvives == Watch!OnlyCopySurvives

\* The guard before an upload asks when somebody else has changed the file on the server, unless
\* the change came after the guard had looked, or is not to be known from sizes, seconds and the
\* baseline; and it asks nobody about his own changes while only commands that take baselines
\* have touched the file (conflictCheck.ts).
ConflictIsAsked == part = "guard" => Guard!NeverUnasked /\ Guard!NeverAskedForOwn

\* No variable leaves its type; the services, their watchers and the active profile are
\* those of sftp.json, whatever was saved, deleted, picked and toggled meanwhile
\* (fileActivityMonitor.ts, serviceManager). The exceptions are the inner definitions':
\* handlers that read the file at once, or a deletion while one reads; a choice made for what
\* a reload has replaced; and, of the profile, the one start-up has left unreconciled.
ServicesFollowTheFile ==
  /\ TypeOK
  /\ part = "service" =>
       Service!ServesTheFile /\ Service!WatchedAsConfigured /\ Service!ProfileIsDefined

\* The tree shows what the server has under the filter that is set, however the filter, a
\* refresh and failing listings fall among the searches (treeDataProvider.ts).
TreeIsCurrent == [](part = "tree" => Tree!ShowsTheServer /\ Tree!NothingPoisoned) /\ Tree!ShowsTheFilter

\* A save through an open remote file reaches the host and port the file came from and no other,
\* and the status bar says so; a file that is replaced survives under one name; and what is
\* dragged arrives, or the user is told (remoteFileSystemProvider.ts, dragAndDrop.ts). The
\* exceptions are the inner definitions': a filter typed while sftp.json is read; links, paths on
\* which two were at work or that an earlier failure left, deletions and overwriting renames;
\* and, of a drop, two rows of one name or a failed look over FTP, a row whose folder stays
\* behind, and a drop that is dismissed.
RemoteFilesAreSafe ==
  /\ [](part = "editor" => Editor!SavesGoHome /\ Editor!BarIsRight /\ Editor!NeverHalf)
  /\ Editor!KeepsACopy /\ Editor!SavedIsThere
  /\ [](part = "drop" => Drop!NothingOverwritten /\ Drop!EverybodyArrives /\ Drop!NoneVanishes)
=============================================================================
