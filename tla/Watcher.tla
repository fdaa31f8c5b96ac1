------------------------------- MODULE Watcher -------------------------------
(***************************************************************************)
(* Files watched for changes made outside the editor (fileWatcher.ts with  *)
(* autoUpload, autoDelete and autoRename), the claims that keep the         *)
(* extension's own writes from being sent back (watcherSuppression.ts),    *)
(* and the handlers it calls: upload, removeRemote, renameRemote.          *)
(***************************************************************************)
EXTENDS Naturals, Sequences

CONSTANTS Paths,        \* files
          FirstPaths,   \* those that exist at first, on both sides
          MaxActs,      \* bound: changes of files here, renames and downloads
          Commands,     \* bound: which of "rename" and "download" are given, once each
          Troubles      \* which of "fails" and "renameFails" may happen

WatcherAssumption ==
  /\ FirstPaths \subseteq Paths /\ MaxActs \in Nat /\ Commands \subseteq {"rename", "download"}
  /\ Troubles \subseteq {"fails", "renameFails"}

VARIABLES local, remote, \* the version at each path, 0 for none
          events,        \* of the watcher, on their way
          suppressed,    \* paths whose events are dropped
          uploadQueue, deleteQueue,
          uploadTimer, deleteTimer,  \* of the debounced functions
          moving,        \* the rename between its two events
          ops,           \* handlers in progress
          acts,          \* done so far; a file changed by the n-th has version n + 1
          left,          \* commands not given yet
          excused,       \* history: why the two sides may differ
          missed         \* history: new names that a rename's own upload did not reach, or
                         \* that a removal took from the server again before it was over

vars == <<local, remote, events, suppressed, uploadQueue, deleteQueue,
          uploadTimer, deleteTimer, moving, ops, acts, left, excused, missed>>
disk == <<local, events>>
counts == <<acts, left, missed>>
queues == <<uploadQueue, deleteQueue, uploadTimer, deleteTimer>>

Versions == 0..MaxActs + 1
Event == [kind : {"write", "gone"}, path : Paths, own : BOOLEAN]
Op == [kind : {"upload", "remove", "rename", "download"}, path : Paths, to : Paths,
       at : {"look", "move", "read", "write", "find", "unlink", "fetch", "store"}, got : Versions]
Timer == {"off", "waiting", "again"}

TypeOK ==
  /\ local \in [Paths -> Versions] /\ remote \in [Paths -> Versions]
  /\ acts \in 0..MaxActs /\ left \subseteq Commands /\ events \in Seq(Event)
  /\ suppressed \subseteq Paths /\ uploadQueue \subseteq Paths /\ deleteQueue \subseteq Paths
  /\ uploadTimer \in Timer /\ deleteTimer \in Timer
  /\ moving \in {<<>>} \cup Paths \X Paths
  /\ ops \subseteq Op
  /\ excused \in BOOLEAN /\ missed \subseteq Paths

Init ==
  /\ local = [p \in Paths |-> IF p \in FirstPaths THEN 1 ELSE 0] /\ remote = local
  /\ acts = 0 /\ left = Commands /\ events = <<>> /\ suppressed = {}
  /\ uploadQueue = {} /\ deleteQueue = {} /\ uploadTimer = "off" /\ deleteTimer = "off"
  /\ moving = <<>> /\ ops = {} /\ excused = FALSE /\ missed = {}

-----------------------------------------------------------------------------
Touches(o) == {o.path, o.to}
Claiming == {o \in ops : o.kind \in {"rename", "download"}}
NewOp(kind, p, q, at) == [kind |-> kind, path |-> p, to |-> q, at |-> at, got |-> 0]
Uploads(Q) == {NewOp("upload", p, p, "read") : p \in Q}
Removes(Q) == {NewOp("remove", p, p, "find") : p \in Q}

\* Handlers are begun: two at once on one file may leave either's result.
Begin(new, cost) ==
  /\ ops' = ops \cup new
  /\ excused' = (excused \/ cost \/ (\E n \in new, o \in ops : Touches(n) \cap Touches(o) # {})
                         \/ (\E n \in new : n.kind = "remove" /\ local[n.path] # 0))

\* What is being downloaded is not uploaded.
Downloading == {o.path : o \in {o \in ops : o.kind = "download"}}
doUpload(Q) == Begin(Uploads(Q \ Downloading), Q \cap Downloading # {})
doDelete(Q) == Begin(Removes(Q), FALSE)

\* Mutant: a call during the wait only restarts it.
UploadAgainUnheard(p) ==
  /\ uploadTimer # "off"
  /\ uploadQueue' = uploadQueue \cup {p}
  /\ UNCHANGED <<uploadTimer, ops, excused>>

\* debounce(doUpload), leading and trailing: the first call runs at once, later ones when
\* the calls have ceased.
UploadAgain(p) ==
  /\ uploadTimer # "off"
  /\ uploadQueue' = uploadQueue \cup {p} /\ uploadTimer' = "again"
  /\ UNCHANGED <<ops, excused>>

UploadAtOnce(p) ==
  /\ uploadTimer = "off"
  /\ doUpload(uploadQueue \cup {p})
  /\ uploadQueue' = {} /\ uploadTimer' = "waiting"

DeleteAgain(p) ==
  /\ deleteTimer # "off"
  /\ deleteQueue' = deleteQueue \cup {p} /\ deleteTimer' = "again"
  /\ UNCHANGED <<ops, excused>>

DeleteAtOnce(p) ==
  /\ deleteTimer = "off"
  /\ doDelete(deleteQueue \cup {p})
  /\ deleteQueue' = {} /\ deleteTimer' = "waiting"

\* An event arrives. One that somebody else caused and is dropped is not made up for.
Deliver ==
  /\ events # <<>>
  /\ events' = Tail(events)
  /\ LET e == Head(events) IN
       \/ /\ e.path \in suppressed
          /\ excused' = (excused \/ ~ e.own)
          /\ UNCHANGED <<ops, queues>>
       \/ /\ e.path \notin suppressed /\ e.kind = "write"
          /\ UploadAtOnce(e.path) \/ UploadAgain(e.path)
          /\ UNCHANGED <<deleteQueue, deleteTimer>>
       \/ /\ e.path \notin suppressed /\ e.kind = "gone"
          /\ DeleteAtOnce(e.path) \/ DeleteAgain(e.path)
          /\ UNCHANGED <<uploadQueue, uploadTimer>>
  /\ UNCHANGED <<local, remote, suppressed, moving, counts>>

UploadTimeout ==
  /\ uploadTimer # "off"
  /\ uploadTimer' = "off"
  /\ IF uploadTimer = "again" THEN doUpload(uploadQueue) /\ uploadQueue' = {}
     ELSE UNCHANGED <<uploadQueue, ops, excused>>
  /\ UNCHANGED <<disk, remote, suppressed, deleteQueue, deleteTimer, moving, counts>>

DeleteTimeout ==
  /\ deleteTimer # "off"
  /\ deleteTimer' = "off"
  /\ IF deleteTimer = "again" THEN doDelete(deleteQueue) /\ deleteQueue' = {}
     ELSE UNCHANGED <<deleteQueue, ops, excused>>
  /\ UNCHANGED <<disk, remote, suppressed, uploadQueue, uploadTimer, moving, counts>>

-----------------------------------------------------------------------------
\* A claim is dropped with its handler: the release ends the suppression whoever else
\* claims the path, until a claim that is left renews it.
Over(o) ==
  /\ ops' = ops \ {o}
  /\ suppressed' = IF o \in Claiming THEN suppressed \ Touches(o) ELSE suppressed

Goes(o, at) == ops' = (ops \ {o}) \cup {[o EXCEPT !.at = at]} /\ UNCHANGED suppressed

Renew(p) ==
  /\ p \notin suppressed
  /\ p \in UNION {Touches(o) : o \in Claiming} \cup {moving[i] : i \in DOMAIN moving}
  /\ suppressed' = suppressed \cup {p}
  /\ UNCHANGED <<disk, remote, queues, moving, ops, counts, excused>>

Read(o) ==
  /\ o.at = "read"
  /\ IF local[o.to] = 0 THEN Over(o)
     ELSE ops' = (ops \ {o}) \cup {[o EXCEPT !.at = "write", !.got = local[o.to]]} /\ UNCHANGED suppressed
  /\ excused' = (excused \/ (o.kind = "rename" /\ local[o.to] = 0))
  /\ UNCHANGED <<disk, remote, queues, moving, counts>>

\* fallbackToUpload goes on to remove the file under its old name.
AfterUpload(o) == IF o.kind = "rename" THEN Goes(o, "find") ELSE Over(o)

Write(o) ==
  /\ o.at = "write"
  /\ remote' = [remote EXCEPT ![o.to] = o.got]
  /\ AfterUpload(o)
  /\ UNCHANGED <<disk, queues, moving, counts, excused>>

\* The transfer fails, or the conflict check called it off: the handler returns all the same.
NotSent(o) ==
  /\ "fails" \in Troubles /\ o.at = "write"
  /\ excused' = TRUE
  /\ missed' = IF o.kind = "rename" THEN missed \cup {o.to} ELSE missed
  /\ AfterUpload(o)
  /\ UNCHANGED <<disk, remote, queues, moving, acts, left>>

Find(o) ==
  /\ o.at = "find"
  /\ IF remote[o.path] = 0 THEN Over(o) ELSE Goes(o, "unlink")
  /\ UNCHANGED <<disk, remote, queues, moving, counts, excused>>

Unlink(o) ==
  /\ o.at = "unlink"
  /\ remote' = [remote EXCEPT ![o.path] = 0]
  /\ missed' = IF o.kind = "remove" /\ \E n \in ops : n.kind = "rename" /\ n.to = o.path
               THEN missed \cup {o.path} ELSE missed
  /\ Over(o)
  /\ UNCHANGED <<disk, queues, moving, acts, left, excused>>

\* Mutant: the fallback removes the old name first.
FallbackRemovesFirst == "find"

\* Upload, then remove.
Fallback == "read"

\* renameRemote: the new name must be free.
Look(o) ==
  /\ o.at = "look"
  /\ Goes(o, IF remote[o.to] # 0 THEN Fallback ELSE "move")
  /\ UNCHANGED <<disk, remote, queues, moving, counts, excused>>

Move(o) ==
  /\ o.at = "move" /\ remote[o.path] # 0 /\ remote[o.to] = 0
  /\ remote' = [remote EXCEPT ![o.to] = remote[o.path], ![o.path] = 0]
  /\ excused' = (excused \/ remote[o.path] # local[o.to])
  /\ Over(o)
  /\ UNCHANGED <<disk, queues, moving, counts>>

MoveFails(o) ==
  /\ o.at = "move"
  /\ remote[o.path] = 0 \/ remote[o.to] # 0 \/ "renameFails" \in Troubles
  /\ Goes(o, Fallback)
  /\ UNCHANGED <<disk, remote, queues, moving, counts, excused>>

Fetch(o) ==
  /\ o.at = "fetch"
  /\ IF remote[o.path] = 0 THEN Over(o)
     ELSE ops' = (ops \ {o}) \cup {[o EXCEPT !.at = "store", !.got = remote[o.path]]} /\ UNCHANGED suppressed
  /\ UNCHANGED <<disk, remote, queues, moving, counts, excused>>

Store(o) ==
  /\ o.at = "store"
  /\ local' = [local EXCEPT ![o.path] = o.got]
  /\ events' = Append(events, [kind |-> "write", path |-> o.path, own |-> TRUE])
  /\ Over(o)
  /\ UNCHANGED <<remote, queues, moving, counts, excused>>

-----------------------------------------------------------------------------
Act == acts < MaxActs /\ acts' = acts + 1
Command(name) == Act /\ name \in left /\ left' = left \ {name}

\* The rename announced, and done.
WillRename(a, b) ==
  /\ Command("rename") /\ moving = <<>> /\ a # b /\ local[a] # 0
  /\ moving' = <<a, b>>
  /\ suppressed' = suppressed \cup {a, b}
  /\ UNCHANGED <<disk, remote, queues, ops, excused, missed>>

DidRename ==
  /\ moving # <<>>
  /\ LET a == moving[1] b == moving[2] IN
       IF local[a] = 0 THEN suppressed' = suppressed \ {a, b} /\ UNCHANGED <<disk, ops, excused>>
       ELSE /\ local' = [local EXCEPT ![b] = local[a], ![a] = 0]
            /\ events' = events \o <<[kind |-> "gone", path |-> a, own |-> TRUE],
                                     [kind |-> "write", path |-> b, own |-> TRUE]>>
            /\ Begin({NewOp("rename", a, b, "look")}, FALSE)
            /\ UNCHANGED suppressed
  /\ moving' = <<>>
  /\ UNCHANGED <<remote, queues, counts>>

\* The download handler claims the file before it writes it.
Download(p) ==
  /\ Command("download")
  /\ Begin({NewOp("download", p, p, "fetch")}, FALSE)
  /\ suppressed' = suppressed \cup {p}
  /\ UNCHANGED <<disk, remote, queues, moving, missed>>

\* Another program writes or deletes a file.
Change(p) ==
  /\ Act
  /\ local' = [local EXCEPT ![p] = acts + 2]
  /\ events' = Append(events, [kind |-> "write", path |-> p, own |-> FALSE])
  /\ UNCHANGED <<remote, suppressed, queues, moving, ops, left, excused, missed>>

Delete(p) ==
  /\ Act /\ local[p] # 0
  /\ local' = [local EXCEPT ![p] = 0]
  /\ events' = Append(events, [kind |-> "gone", path |-> p, own |-> FALSE])
  /\ UNCHANGED <<remote, suppressed, queues, moving, ops, left, excused, missed>>

Step(o) ==
  Read(o) \/ Write(o) \/ NotSent(o) \/ Find(o) \/ Unlink(o) \/ Look(o) \/ Move(o) \/ MoveFails(o)
  \/ Fetch(o) \/ Store(o)

Next ==
  \/ Deliver \/ UploadTimeout \/ DeleteTimeout \/ DidRename
  \/ \E o \in ops : Step(o)
  \/ \E p \in Paths : Renew(p) \/ Download(p) \/ Change(p) \/ Delete(p)
  \/ \E a, b \in Paths : WillRename(a, b)

Spec == Init /\ [][Next]_vars

-----------------------------------------------------------------------------
\* Nothing waits in a queue that no timer will empty.
NothingStranded ==
  /\ uploadQueue # {} => uploadTimer = "again"
  /\ deleteQueue # {} => deleteTimer = "again"

Quiet == events = <<>> /\ ops = {} /\ uploadQueue = {} /\ deleteQueue = {} /\ moving = <<>>

\* When everything has been acted on, the server has what is here, save for what `excused`
\* stands for: a change dropped because its path was claimed; two handlers at once on one
\* file, or a change not sent since a download was to overwrite it; a deletion that waited
\* in its queue until the file was there again; a rename on the server of a version older
\* than the one renamed here; a transfer that failed.
Converges == Quiet /\ ~ excused => remote = local

\* A rename that is made up for by an upload removes the old name only when the server has
\* the file under the new one (fileWatcher.ts:197), whatever events are dropped, handlers
\* overlap and other transfers fail. The exceptions: its own upload was not sent, or a
\* removal of the file that had the new name before was under way and came after it.
OnlyCopySurvives ==
  [][\A o \in ops \ ops' :
       o.kind = "rename" /\ o.at = "unlink" => remote[o.to] # 0 \/ o.to \in missed]_vars

\* A claim is kept alive while the write it is for is in flight (watcherSuppression.ts:32).
ClaimIsKept == UNION {Touches(o) : o \in Claiming} \subseteq suppressed
=============================================================================
