----------------------------- MODULE RemoteEditor -----------------------------
(***************************************************************************)
(* Files of the server opened in an editor (remoteFileSystemProvider.ts):  *)
(* which server a save reaches while profiles are switched and configs     *)
(* reloaded (treeDataProvider.ts _getRoots), what the status bar says of   *)
(* it (remoteFileIndicator.ts), and the steps of a save, a rename and a    *)
(* deletion beside a transfer to the same file (transferTask.ts).          *)
(***************************************************************************)
EXTENDS Naturals

CONSTANTS Servers,      \* each what a profile of the config connects to
          Hosts,        \* host:port, the authority of a file's uri
          Paths,        \* of files, on every server
          FirstFiles,   \* on every server, per path: "none", "old" or "dir"
          Setups,       \* of the config: [useTempFile, openSsh, link, host]
          MaxServices,  \* bound: services created, by reloads
          MaxActs       \* bound: calls, transfers, and what is done to the workspace

EditorAssumption ==
  /\ Setups \subseteq [useTempFile : BOOLEAN, openSsh : BOOLEAN, link : BOOLEAN,
                      host : [Servers -> Hosts]]
  /\ Paths # {} /\ FirstFiles \subseteq [Paths -> {"none", "old", "dir"}]
  /\ MaxServices \in Nat \ {0} /\ MaxActs \in Nat

VARIABLES setup,
          server,   \* of the active profile
          service, lastService,  \* the one that exists, 0 during a reload, and the last one
          roots,    \* of the tree, remembered: [id, server], or "empty", or "none" when forgotten
          readOnly, \* sftp.openRemoteFilesReadOnly
          tab,      \* the open remote file, by the root and the server it was opened from
          bar,      \* what the status bar says of it
          file,     \* per server and path
          temp,     \* the path with ".new"
          op,       \* per actor: the call under way
          acts,
          crossed   \* history: paths whose temporary file is not of one actor alone

vars == <<setup, server, service, lastService, roots, readOnly, tab, bar, file, temp, op,
          acts, crossed>>
world == <<setup, server, service, lastService, roots, readOnly, tab, bar>>

Actors == {"editor", "transfer"}
Ids == 0..MaxServices
NoRoots == [id |-> 0, server |-> "none"]
NoneHere == [id |-> 0, server |-> "empty"]
NoTab == NoRoots
Root == [id : Ids, server : Servers \cup {"none", "empty"}]
Contents == {"none", "old", "edit", "sent", "part", "dir"}
Whole == {"old", "edit", "sent"}
APath == CHOOSE p \in Paths : TRUE
NoOp == [kind |-> "none", at |-> "idle", path |-> APath, to |-> APath, root |-> NoRoots,
         server |-> "none", existed |-> FALSE]
Op == [kind : {"none", "save", "send", "rename", "delete"},
       at : {"idle", "connect", "look", "put", "putting", "unlink", "move", "done", "failed"},
       path : Paths, to : Paths, root : Root,
       server : Servers \cup {"none"}, existed : BOOLEAN]

TypeOK ==
  /\ setup \in Setups /\ server \in Servers /\ service \in Ids /\ lastService \in Ids
  /\ roots \in Root /\ tab \in Root /\ readOnly \in BOOLEAN
  /\ bar \in {"none", "blocked", "readOnly", "writable"}
  /\ file \in [Servers -> [Paths -> Contents]] /\ temp \in [Servers -> [Paths -> Contents]]
  /\ op \in [Actors -> Op] /\ acts \in 0..MaxActs /\ crossed \subseteq Paths

Init ==
  /\ setup \in Setups /\ server \in Servers /\ service = 1 /\ lastService = 1
  /\ roots = NoRoots /\ tab = NoTab /\ readOnly = FALSE /\ bar = "none"
  /\ file \in {[s \in Servers |-> f] : f \in FirstFiles}
  /\ temp = [s \in Servers |-> [p \in Paths |-> "none"]]
  /\ op = [a \in Actors |-> NoOp] /\ acts = 0 /\ crossed = {}

-----------------------------------------------------------------------------
\* _getRoots: what is remembered, or else what the services that exist say now.
Built == IF roots # NoRoots THEN roots
         ELSE IF service = 0 THEN NoneHere ELSE [id |-> service, server |-> server]

\* The authority of a uri names the host and the port, and neither the user nor what is reached
\* through the host (uResource.ts).
SameHost(s, t) == setup.host[s] = setup.host[t]

\* _resolve: the root the file was opened from, and still of the same host.
Resolves(t, r) == t.id = r.id /\ r # NoneHere /\ SameHost(t.server, r.server)

\* presentRemoteFile, by the roots r.
Presented(t, r, ro) ==
  IF t = NoTab THEN "none"
  ELSE IF ~ Resolves(t, r) THEN "blocked"
  ELSE IF ro THEN "readOnly" ELSE "writable"

\* RemoteExplorer.refresh() without an item: the roots are forgotten, and found again by the
\* indicator if it has something to show.
Refreshed(s, srv) ==
  LET r == IF s = 0 THEN NoneHere ELSE [id |-> s, server |-> srv] IN
  /\ roots' = IF tab = NoTab THEN NoRoots ELSE r
  /\ bar' = Presented(tab, r, readOnly)

Data == <<file, temp, op, crossed>>
Acts == acts < MaxActs /\ acts' = acts + 1

\* A file is opened from the tree: a tab comes up and the indicator looks at it.
Open ==
  /\ Acts /\ tab = NoTab /\ Built # NoneHere /\ roots' = Built /\ tab' = Built
  /\ bar' = Presented(tab', roots', readOnly)
  /\ UNCHANGED <<setup, server, service, lastService, readOnly, Data>>
Close ==
  /\ Acts /\ tab # NoTab /\ tab' = NoTab /\ bar' = "none"
  /\ UNCHANGED <<setup, server, service, lastService, roots, readOnly, Data>>

\* Set Profile (extension.ts): configs are resolved again and the explorer is refreshed.
SwitchProfile(s) ==
  /\ Acts /\ s # server /\ server' = s /\ Refreshed(service, s)
  /\ UNCHANGED <<setup, service, lastService, readOnly, tab, Data>>

\* sftp.json is saved (fileActivityMonitor.ts): the services go, the file is read, others come,
\* or none if it is invalid. As they go the explorer is refreshed, unless the profiles that are
\* available stay the same: this config has none, or another folder's has them too.
ReloadBegins ==
  /\ Acts /\ service # 0 /\ lastService < MaxServices /\ service' = 0
  /\ Refreshed(0, server) \/ UNCHANGED <<roots, bar>>
  /\ UNCHANGED <<setup, server, lastService, readOnly, tab, Data>>
ReloadEnds(s) ==
  /\ service = 0 /\ s \in {0, lastService + 1} /\ lastService' = lastService + 1 /\ lastService < MaxServices
  /\ service' = s /\ Refreshed(s, server)
  /\ UNCHANGED <<setup, server, readOnly, tab, acts, Data>>

\* sftp.json is deleted: the services go, and the tree and the indicator look again.
ConfigDeleted ==
  /\ Acts /\ service # 0 /\ service' = 0 /\ Refreshed(0, server)
  /\ UNCHANGED <<setup, server, lastService, readOnly, tab, Data>>

\* A filter that changes refreshes the tree, which is shown at once, and not the indicator.
Filter ==
  /\ Acts /\ roots' = IF service = 0 THEN NoneHere ELSE [id |-> service, server |-> server]
  /\ UNCHANGED <<setup, server, service, lastService, readOnly, tab, bar, Data>>

ToggleReadOnly ==
  /\ Acts /\ readOnly' = ~ readOnly /\ roots' = (IF tab = NoTab THEN roots ELSE Built)
  /\ bar' = Presented(tab, Built, readOnly')
  /\ UNCHANGED <<setup, server, service, lastService, tab, Data>>

-----------------------------------------------------------------------------
Touches(a) == IF op[a].at \in {"idle", "done", "failed"} THEN {} ELSE {op[a].path, op[a].to}
Begin(a, kind, p, q, root, srv) ==
  /\ Acts /\ Touches(a) = {}
  /\ op' = [op EXCEPT ![a] = [kind |-> kind, at |-> "connect", path |-> p, to |-> q,
                              root |-> root, server |-> srv, existed |-> FALSE]]
  /\ LET met == UNION {Touches(b) : b \in {b \in Actors : Touches(b) \cap {p, q} # {}}}
         left == {x \in {p, q} : x \in crossed \/ (file[srv][x] \notin Whole /\ temp[srv][x] # "none")} IN
     crossed' = crossed \cup met \cup (IF met \cup left # {} THEN {p, q} ELSE {})
  /\ UNCHANGED <<setup, server, service, lastService, readOnly, tab, bar, file, temp>>

\* Mutant: the root is enough to know the server.
CallAnyHost(kind, p, q) ==
  /\ tab # NoTab /\ ~ readOnly /\ tab.id = Built.id
  /\ roots' = Built /\ Begin("editor", kind, p, q, tab, Built.server)

\* _runWrite: a save, a rename or a deletion through the open file, on the server of its root.
Call(kind, p, q) ==
  /\ tab # NoTab /\ ~ readOnly /\ Resolves(tab, Built)
  /\ roots' = Built /\ Begin("editor", kind, p, q, tab, Built.server)

\* A transfer to the same file, by the service that exists.
Send(p) ==
  /\ service # 0 /\ Begin("transfer", "send", p, p, [id |-> service, server |-> server], server) /\ UNCHANGED roots

Goes(a, from, to) ==
  /\ op[a].at = from /\ op' = [op EXCEPT ![a].at = to] /\ UNCHANGED <<world, acts, crossed>>
There(a, p) == file[op[a].server][p]
SetFile(a, p, c) == file' = [file EXCEPT ![op[a].server][p] = c]
SetTemp(a, c) == temp' = [temp EXCEPT ![op[a].server][op[a].path] = c]

\* getRemoteFileSystem has answered.
Connected(a) ==
  /\ Goes(a, "connect", CASE op[a].kind = "send" -> "put"
                           [] op[a].kind = "rename" /\ ~ Resolves(op[a].root, Built) -> "failed"
                           [] OTHER -> "look")
  /\ UNCHANGED <<file, temp>>

\* lstat. No directory is written to or replaced, and nothing is made or replaced that the
\* caller has not asked for; a rename makes room first.
Looked(a, create, overwrite) ==
  LET there == There(a, op[a].to) # "none"
      refused == CASE op[a].kind = "save" -> (There(a, op[a].to) = "dir" \/ (~ there /\ ~ create)
                                              \/ (there /\ ~ overwrite))
                   [] op[a].kind = "rename" -> there /\ (There(a, op[a].to) = "dir" \/ ~ overwrite)
                   [] op[a].kind = "delete" -> ~ there IN
  /\ op[a].at = "look"
  /\ op' = [op EXCEPT ![a].existed = there,
                      ![a].at = IF refused THEN "failed"
                                ELSE CASE op[a].kind = "save" -> "put"
                                       [] op[a].kind = "rename" -> IF there THEN "unlink" ELSE "move"
                                       [] op[a].kind = "delete" -> "unlink"]
  /\ UNCHANGED <<world, acts, crossed, file, temp>>

\* A link is written through, or the rename would replace it.
UsesTemp(a) == setup.useTempFile /\ ~ (op[a].kind = "save" /\ setup.link /\ op[a].existed)
Body(a) == IF op[a].kind = "save" THEN "edit" ELSE "sent"
Puts(a, c) == IF UsesTemp(a) THEN SetTemp(a, c) /\ UNCHANGED file
                             ELSE SetFile(a, op[a].path, c) /\ UNCHANGED temp

\* put: the open truncates, and in the end the body is there.
PutBegins(a) == Goes(a, "put", "putting") /\ Puts(a, "part")

\* What follows the bytes: nothing, the atomic rename, or room for the other.
AfterPut(a) ==
  IF ~ UsesTemp(a) THEN "done"
  ELSE IF setup.openSsh \/ (op[a].kind = "save" /\ ~ op[a].existed) THEN "move" ELSE "unlink"
PutEnds(a) == Goes(a, "putting", AfterPut(a)) /\ Puts(a, Body(a))

\* unlink of what is in the way, or to be deleted. A transfer ignores that it
\* fails.
Unlinked(a) ==
  /\ Goes(a, "unlink", IF op[a].kind = "delete" THEN "done" ELSE "move")
  /\ IF There(a, op[a].to) = "dir" /\ op[a].kind # "delete"
     THEN op[a].kind = "send" /\ UNCHANGED file
     ELSE (There(a, op[a].to) # "none" \/ op[a].kind = "send") /\ SetFile(a, op[a].to, "none")
  /\ UNCHANGED temp

\* rename of the temporary file, or of the file: refused if there is none, or one in the way.
Moved(a) ==
  LET free == There(a, op[a].to) = "none" \/ (setup.openSsh /\ op[a].kind # "rename") IN
  /\ Goes(a, "move", "done") /\ free
  /\ IF op[a].kind = "rename"
     THEN /\ There(a, op[a].path) # "none" /\ UNCHANGED temp
          /\ file' = [file EXCEPT ![op[a].server][op[a].to] = There(a, op[a].path),
                                   ![op[a].server][op[a].path] = "none"]
     ELSE /\ temp[op[a].server][op[a].path] # "none" /\ SetTemp(a, "none")
          /\ SetFile(a, op[a].path, temp[op[a].server][op[a].path])

\* A request fails, and with it the call; what it has done stays.
Fails(a) ==
  /\ Touches(a) # {} /\ Goes(a, op[a].at, "failed") /\ UNCHANGED <<file, temp>>

Next ==
  \/ Open \/ Close \/ ReloadBegins \/ ConfigDeleted \/ Filter \/ ToggleReadOnly
  \/ \E s \in Servers : SwitchProfile(s)
  \/ \E i \in Ids : ReloadEnds(i)
  \/ \E p, q \in Paths : p # q /\ Call("rename", p, q)
  \/ \E p \in Paths : Call("save", p, p) \/ Call("delete", p, p) \/ Send(p)
  \/ \E a \in Actors : \/ Connected(a) \/ PutBegins(a) \/ PutEnds(a) \/ Unlinked(a)
                       \/ Moved(a) \/ Fails(a)
                       \/ \E c, o \in BOOLEAN : Looked(a, c, o)

Spec == Init /\ [][Next]_vars

-----------------------------------------------------------------------------
\* A file is never saved to another host than it was opened from, whatever became of the profile
\* and the configs. Two profiles of one host that differ in the user, or in what is behind it,
\* are not told apart.
SavesGoHome == \A a \in Actors : op[a].kind # "none" => SameHost(op[a].server, op[a].root.server)

\* What the status bar says of the open file is what a save would meet, by host and port too, but
\* for a filter typed while sftp.json is read again: it empties the tree and does not tell the
\* indicator.
BarIsRight ==
  ~ (service = 0 /\ roots = NoneHere)
    => (bar = "writable" <=> tab # NoTab /\ ~ readOnly /\ Resolves(tab, Built))

\* With temporary files nobody ever meets half a file, except who looks through a link.
NeverHalf ==
  setup.useTempFile /\ ~ setup.link =>
    \A s \in Servers, p \in Paths : file[s][p] = "part" => p \in crossed

Copied(f, t, s, p) == f[s][p] \in Whole \/ t[s][p] \in Whole

\* The server keeps a copy of a file that is replaced by temporary files, under the one name or
\* the other. Exceptions are links, which are written through; paths on which two were at work
\* at once, and those whose only copy an earlier failure has left under the temporary name, which
\* the next put truncates; and what is deleted, or named by a rename: one that overwrites
\* removes what has the new name before it moves the file.
KeepsACopy ==
  [][setup.useTempFile /\ ~ setup.link =>
       \A s \in Servers, p \in Paths :
         \/ p \in crossed' \/ ~ Copied(file, temp, s, p) \/ Copied(file', temp', s, p)
         \/ \E a \in Actors : op[a].kind \in {"delete", "rename"} /\ p \in Touches(a)]_vars

\* What is reported as saved is there.
SavedIsThere ==
  [][\A a \in Actors :
       /\ op'[a].at = "done" /\ op[a].at # "done" /\ op[a].kind \in {"save", "send"}
       /\ op[a].path \notin crossed
       => file'[op[a].server][op[a].path] = Body(a)]_vars
=============================================================================
