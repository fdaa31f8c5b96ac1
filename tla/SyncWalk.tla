------------------------------ MODULE SyncWalk ------------------------------
(***************************************************************************)
(* The directory walk of a sync or of a folder transfer                    *)
(* (fileHandlers/transfer/transfer.ts), the preview that asks for          *)
(* confirmation first (compareFolders.ts, syncPreview.ts), and the command *)
(* around both (transfer/index.ts).  The answers of the two file systems   *)
(* arrive in any order, so the limiter in front of them is left to Limiter.*)
(***************************************************************************)
EXTENDS Naturals, FiniteSets

CONSTANTS Nodes,     \* the paths, Root included
          Root,
          Parent,    \* of every other path
          SrcTrees,  \* the trees of the side that is copied from
          DstTrees,  \* the trees of the other side
          Options,   \* the syncOptions of the commands, with maxFileSize
          Ignored,   \* the paths config.ignore matches
          Troubles   \* what may go wrong, of "cancel", "list", "remove", "hash", "preview"

Paths == Nodes \ {Root}
Entries == [type : {"none", "dir", "file"}, mtime : Nat, size : Nat]

\* What a file system may list: whatever is there is in a directory.
Trees == {t \in [Nodes -> Entries] : \A n \in Paths : t[n].type # "none" => t[Parent[n]].type = "dir"}

Asks == [command : {"transfer", "sync"}, limit : Nat, confirm : BOOLEAN, delete : BOOLEAN,
         skipCreate : BOOLEAN, ignoreExisting : BOOLEAN, update : BOOLEAN, both : BOOLEAN,
         hasher : BOOLEAN]

\* No path is deeper than three, a bound of the model. What config.ignore matches in a
\* directory it matches with everything inside (core/ignore.ts, of the rules of git).
WalkAssumption ==
  /\ IsFiniteSet(Nodes) /\ Root \in Nodes
  /\ Parent \in [Paths -> Nodes]
  /\ \A n \in Paths : \/ Parent[n] = Root \/ Parent[Parent[n]] = Root
                      \/ Parent[Parent[Parent[n]]] = Root
  /\ Ignored \subseteq Paths
  /\ \A n \in Paths : Parent[n] \in Ignored => n \in Ignored
  /\ SrcTrees \subseteq Trees /\ DstTrees \subseteq Trees
  /\ Options \subseteq Asks

Sides == {"src", "dst"}

VARIABLES tree,      \* per side and path, what listings say
          alike,     \* pairs of files with the same content
          opt,       \* what the command was asked for
          unread,    \* what the preview could not read
          shown,     \* the plan the user confirmed
          phase,     \* where the command is
          job,       \* per directory, the _sync or transferFolder call on it
          verifying, \* directories with a content comparison in progress
          removing,  \* extraneous entries whose removal is not finished
          collected, \* transfers handed to the scheduler: a path and the side it comes from
          skipped,   \* files left out for their size
          gone,      \* entries removed from the target
          delivered, \* transfers that copied their file
          cancelled, \* the scheduler was stopped
          failed     \* a promise of the walk was rejected

vars == <<tree, alike, opt, unread, shown, phase, job, verifying, removing, collected,
          skipped, gone, delivered, cancelled, failed>>

Of(s, n) == tree[s][n]
Is(s, n, type) == Of(s, n).type = type
Exists(s, n) == ~ Is(s, n, "none")
Below(d) == {n \in Paths : Parent[n] = d}
Under(n, d) == \* of depth three at most: a path, its directory, and that one's
  n # Root /\ (Parent[n] = d \/ (Parent[n] # Root /\ Parent[Parent[n]] = d))
Expand(S) == S \cup {n \in Paths : \E d \in S : Under(n, d)}

Kinds == {"none", "sync", "copy", "copyBack"}
Idle == [kind |-> "none", at |-> "done", listed |-> {}]
NoPlan == [create |-> {}, overwrite |-> {}, delete |-> {}, unreadable |-> {}]

TypeOK ==
  /\ tree \in [Sides -> [Nodes -> Entries]]
  /\ alike \subseteq Paths /\ unread \subseteq Paths
  /\ opt \in Options
  /\ DOMAIN shown = DOMAIN NoPlan /\ \A k \in DOMAIN NoPlan : shown[k] \subseteq Paths
  /\ phase \in {"asked", "walking", "running", "done", "rejected", "dropped"}
  /\ job \in [Nodes -> [kind : Kinds, at : {"ensure", "list", "done"}, listed : SUBSET Sides]]
  /\ verifying \subseteq Nodes /\ removing \subseteq Paths
  /\ collected \subseteq Paths \X Sides
  /\ skipped \subseteq Paths /\ gone \subseteq Paths /\ delivered \subseteq collected
  /\ cancelled \in BOOLEAN /\ failed \in BOOLEAN

-----------------------------------------------------------------------------
\* The preview: compareFolders, then computeSyncPlan.

\* isFileModified, of whole seconds and sizes.
Modified(a, b) == a.mtime # b.mtime \/ a.size # b.size

\* With a hasher, files of one size are compared by what is in them.
ByContent(n) == opt.hasher /\ Is("src", n, "file") /\ Is("dst", n, "file")
                /\ Of("src", n).size = Of("dst", n).size

BothDirs(n) == Is("src", n, "dir") /\ Is("dst", n, "dir")

\* walk() goes down where both sides have a directory that it could list.
Compared(n) ==
  /\ n # Root /\ n \notin Ignored
  /\ \A d \in Paths : Under(n, d) => BothDirs(d) /\ d \notin Ignored \cup unread

Status(n) ==
  CASE ~ Exists("src", n) -> IF Exists("dst", n) THEN "dstOnly" ELSE "absent"
    [] Exists("src", n) /\ ~ Exists("dst", n) -> "srcOnly"
    [] BothDirs(n) -> IF n \in unread THEN "error" ELSE "walked"
    [] ByContent(n) -> IF n \in unread THEN "error" ELSE IF n \in alike THEN "same" ELSE "modified"
    [] OTHER -> IF Modified(Of("src", n), Of("dst", n)) THEN "modified" ELSE "same"

With(status) == {n \in Paths : Compared(n) /\ Status(n) = status}
SrcNewer(n) == Of("src", n).mtime > Of("dst", n).mtime

Plan ==
  [create |-> IF opt.skipCreate THEN {}
              ELSE With("srcOnly") \cup (IF opt.both THEN With("dstOnly") ELSE {}),
   overwrite |-> IF opt.ignoreExisting THEN {}
                 ELSE {n \in With("modified") : opt.both \/ ~ opt.update \/ SrcNewer(n)},
   delete |-> IF opt.delete /\ ~ opt.both THEN With("dstOnly") ELSE {},
   unreadable |-> With("error")]

\* syncConfirm, set or not; a transfer has no preview.
Confirms == opt.command = "sync" /\ opt.confirm

-----------------------------------------------------------------------------
\* What _sync decides of directory d, once both listings of it are there.

Common(d) == {n \in Below(d) : Exists("src", n) /\ Exists("dst", n)}
SrcOnly(d) == {n \in Below(d) : Exists("src", n) /\ ~ Exists("dst", n)}
DstOnly(d) == {n \in Below(d) : Exists("dst", n) /\ ~ Exists("src", n)}

\* The newer copy of a file on both sides is the one that travels, when both may.
From(n) == IF opt.both /\ Of("dst", n).mtime > Of("src", n).mtime THEN "dst" ELSE "src"
Other(s) == IF s = "src" THEN "dst" ELSE "src"
TooBig(s, n) == opt.limit # 0 /\ Of(s, n).size > opt.limit

\* The files on both sides that may have to be overwritten.
Candidates(d) ==
  {n \in Common(d) :
     /\ ~ opt.ignoreExisting /\ Is("src", n, "file")
     /\ opt.update => Of(From(n), n).mtime > Of(Other(From(n)), n).mtime}
ToVerify(d) == {n \in Candidates(d) : ByContent(n) /\ n \notin Ignored}
ToOverwrite(d) ==
  {n \in Candidates(d) : ~ ByContent(n) /\ Modified(Of("src", n), Of("dst", n))}
ToCreate(d) ==
  IF opt.skipCreate THEN {}
  ELSE {<<n, "src">> : n \in SrcOnly(d)} \cup {<<n, "dst">> : n \in IF opt.both THEN DstOnly(d) ELSE {}}
FilesOf(ts) == {t \in ts : Is(t[2], t[1], "file")}
DirsOf(ts) == {t \in ts : Is(t[2], t[1], "dir")}

\* Mutant: a directory the other side lists as a file counts as missing.
MissingTyped(d) ==
  IF opt.delete /\ ~ opt.both
  THEN {n \in Below(d) : Exists("dst", n) /\ Of("src", n).type # Of("dst", n).type} ELSE {}

\* What syncOption.delete says is extraneous.
Missing(d) == IF opt.delete /\ ~ opt.both THEN DstOnly(d) ELSE {}

ToSync(d) == {n \in Common(d) : Is("src", n, "dir") /\ ~ opt.ignoreExisting}

\* transferFile: neither ignored nor after a cancel; too large ones never get there.
Takes(ts) == {t \in ts : ~ cancelled /\ t[1] \notin Ignored /\ ~ TooBig(t[2], t[1])}
Skips(ts) == {t[1] : t \in {u \in ts : TooBig(u[2], u[1])}}

\* _sync and transferFolder return at once after a cancel, and on what is ignored.
Entered(j, S, kind) ==
  [n \in Nodes |-> IF n \in S /\ ~ cancelled /\ n \notin Ignored
                   THEN [kind |-> kind, at |-> "ensure", listed |-> {}] ELSE j[n]]

-----------------------------------------------------------------------------
Init ==
  /\ opt \in Options
  /\ tree \in [src : SrcTrees, dst : DstTrees]
  /\ alike \in IF opt.hasher THEN SUBSET {n \in Paths : ByContent(n)} ELSE {{}}
  /\ unread \in IF "preview" \in Troubles
                THEN {S \in SUBSET Paths : Cardinality(S) <= 1} ELSE {{}}
  /\ shown = NoPlan /\ phase = "asked"
  /\ job = [n \in Nodes |-> Idle]
  /\ verifying = {} /\ removing = {} /\ collected = {} /\ skipped = {} /\ gone = {}
  /\ delivered = {}
  /\ cancelled = FALSE /\ failed = FALSE

Given == <<tree, alike, opt, unread>>
Outcome == <<collected, skipped, gone, delivered>>

Nothing(plan) == \A k \in DOMAIN plan : plan[k] = {}

\* confirmSyncOrProceed shows the plan, and the user goes on; without confirmation, or
\* for a transfer, the walk starts at once.
Proceed ==
  /\ phase = "asked"
  /\ Confirms => ~ Nothing(Plan)
  /\ shown' = IF Confirms THEN Plan ELSE NoPlan
  /\ phase' = "walking"
  /\ job' = Entered(job, {Root}, IF opt.command = "sync" THEN "sync" ELSE "copy")
  /\ UNCHANGED <<Given, verifying, removing, Outcome, cancelled, failed>>

\* The user declines, cancels the comparison, or is told that there is nothing to do.
Decline ==
  /\ phase = "asked" /\ Confirms
  /\ phase' = "dropped"
  /\ UNCHANGED <<Given, shown, job, verifying, removing, Outcome, cancelled, failed>>

Walking == phase \in {"walking", "rejected"}

\* ensureDir on the target: there, made, or a file in the way.
EnsureDir(d) ==
  /\ Walking /\ job[d].at = "ensure"
  /\ IF Is("dst", d, "file") THEN job' = [job EXCEPT ![d] = Idle] /\ failed' = TRUE
     ELSE job' = [job EXCEPT ![d].at = "list"] /\ UNCHANGED failed
  /\ UNCHANGED <<Given, shown, phase, verifying, removing, Outcome, cancelled>>

\* syncFiles, up to its Promise.all.
SyncFiles(d, j) ==
  LET ts == FilesOf(ToCreate(d)) \cup {<<n, From(n)>> : n \in ToOverwrite(d)}
      dirs == DirsOf(ToCreate(d)) IN
  /\ collected' = collected \cup Takes(ts)
  /\ skipped' = skipped \cup Skips(ts)
  /\ removing' = removing \cup Missing(d)
  /\ verifying' = IF ToVerify(d) = {} THEN verifying ELSE verifying \cup {d}
  /\ job' = Entered(Entered(Entered(j, {t[1] : t \in {u \in dirs : u[2] = "src"}}, "copy"),
                            {t[1] : t \in {u \in dirs : u[2] = "dst"}}, "copyBack"),
                    ToSync(d), "sync")

\* transferFolder, past its listing.
CopyFiles(d, j) ==
  LET ts == {<<n, "src">> : n \in {m \in Below(d) : Exists("src", m)}} IN
  /\ collected' = collected \cup Takes(FilesOf(ts))
  /\ skipped' = skipped \cup Skips(FilesOf(ts))
  /\ job' = Entered(j, {t[1] : t \in DirsOf(ts)}, "copy")
  /\ UNCHANGED <<removing, verifying>>

\* A listing arrives; _sync waits for those of both sides.
List(d, s) ==
  /\ Walking /\ job[d].at = "list" /\ s \notin job[d].listed
  /\ job[d].kind = "sync" \/ (job[d].kind = "copy" /\ s = "src")
  /\ \/ /\ job[d].kind = "sync" /\ job[d].listed = {}
        /\ job' = [job EXCEPT ![d].listed = {s}]
        /\ UNCHANGED <<collected, skipped, removing, verifying>>
     \/ /\ job[d].kind = "sync" /\ job[d].listed # {}
        /\ SyncFiles(d, [job EXCEPT ![d] = Idle])
     \/ job[d].kind = "copy" /\ CopyFiles(d, [job EXCEPT ![d] = Idle])
  /\ UNCHANGED <<Given, shown, phase, gone, delivered, cancelled, failed>>

\* A failed listing rejects the promise of its directory, and with it the sync. The
\* listing of a directory that only the target has is asked of the source.
ListFails(d) ==
  /\ Walking /\ job[d].at = "list"
  /\ "list" \in Troubles \/ job[d].kind = "copyBack"
  /\ job' = [job EXCEPT ![d] = Idle]
  /\ failed' = TRUE
  /\ UNCHANGED <<Given, shown, phase, verifying, removing, Outcome, cancelled>>

\* verifyContents: all the files of a directory are answered together.
Verify(d) ==
  /\ Walking /\ d \in verifying
  /\ LET ts == {<<n, From(n)>> : n \in ToVerify(d) \ alike} IN
       /\ collected' = collected \cup Takes(ts)
       /\ skipped' = skipped \cup Skips(ts)
  /\ verifying' = verifying \ {d}
  /\ UNCHANGED <<Given, shown, phase, job, removing, gone, delivered, cancelled, failed>>

VerifyFails(d) ==
  /\ Walking /\ d \in verifying /\ "hash" \in Troubles
  /\ verifying' = verifying \ {d}
  /\ failed' = TRUE
  /\ UNCHANGED <<Given, shown, phase, job, removing, Outcome, cancelled>>

\* removeMissing: the files first, the directories when all of those are gone, and
\* with them everything inside; an ignored entry stays.
Turn(n) ==
  Is("dst", n, "dir") =>
    \A m \in removing : Parent[m] = Parent[n] => Is("dst", m, "dir")

Remove(n) ==
  /\ Walking /\ n \in removing /\ Turn(n)
  /\ gone' = IF n \in Ignored THEN gone
             ELSE gone \cup {m \in Expand({n}) : Exists("dst", m)}
  /\ removing' = removing \ {n}
  /\ UNCHANGED <<Given, shown, phase, job, verifying, collected, skipped, delivered, cancelled, failed>>

\* The removal fails; after a file's, the directories beside it are not tried.
RemoveFails(n) ==
  /\ Walking /\ n \in removing /\ Turn(n) /\ n \notin Ignored /\ "remove" \in Troubles
  /\ removing' = removing \ ({n} \cup {m \in Below(Parent[n]) :
                                        Is("dst", n, "file") /\ Is("dst", m, "dir")})
  /\ failed' = TRUE
  /\ UNCHANGED <<Given, shown, phase, job, verifying, Outcome, cancelled>>

\* The progress notification is cancelled: scheduler.stop().
Cancel ==
  /\ phase = "walking" /\ ~ cancelled /\ "cancel" \in Troubles
  /\ cancelled' = TRUE
  /\ UNCHANGED <<Given, shown, phase, job, verifying, removing, Outcome, failed>>

AllSettled == (\A n \in Nodes : job[n].at = "done") /\ verifying = {} /\ removing = {}

\* sync() resolves, and the scheduler runs what was collected ...
Run ==
  /\ phase = "walking" /\ AllSettled /\ ~ failed
  /\ phase' = "running"
  /\ UNCHANGED <<Given, shown, job, verifying, removing, Outcome, cancelled, failed>>

\* ... until it has, and what was skipped or deleted is reported. A task is built on
\* the file systems of the sync, whichever side its file comes from, and finds none
\* there when that is the other one.
Report ==
  /\ phase = "running"
  /\ phase' = "done"
  /\ delivered' = IF cancelled THEN {} ELSE {t \in collected : t[2] = "src"}
  /\ UNCHANGED <<Given, shown, job, verifying, removing, collected, skipped, gone, cancelled, failed>>


\* sync() rejects at the first failure; the rest of the walk goes on behind it.
Reject ==
  /\ phase = "walking" /\ failed
  /\ phase' = "rejected"
  /\ UNCHANGED <<Given, shown, job, verifying, removing, Outcome, cancelled, failed>>

\* All that is neither the user's doing nor the end of a comparison.
Work ==
  \/ Proceed \/ Decline \/ Run \/ Report \/ Reject
  \/ \E d \in Nodes : EnsureDir(d) \/ ListFails(d) \/ \E s \in Sides : List(d, s)
  \/ \E n \in Paths : Remove(n) \/ RemoveFails(n)

Next == Work \/ Cancel \/ \E d \in Nodes : Verify(d) \/ VerifyFails(d)

Spec == Init /\ [][Next]_vars

\* Every request of the walk is answered, or fails at its deadline, promises are followed,
\* and the preview is confirmed or dismissed. A comparison may have to read a file, which
\* has no deadline.
Fairness == WF_vars(Work)
FairSpec == Spec /\ Fairness

-----------------------------------------------------------------------------
\* What the source has is never deleted from the target, whatever fails on the way,
\* and a sync of both directions deletes nothing.
OnlyExtraneousDeleted ==
  \A n \in gone : ~ Exists("src", n) /\ opt.delete /\ ~ opt.both

\* A confirmed sync does what its preview said. Never more: nothing is deleted or
\* transferred that was not shown, or reported unreadable. And, once it has walked
\* undisturbed, nothing less, but for what is over maxFileSize. The exceptions are two
\* options the preview does not follow: ignoreExisting leaves the directories of both
\* sides alone, and update holds for both directions too.
PreviewIsPromise ==
  Confirms /\ phase \notin {"asked", "dropped"} =>
    LET sent == {t[1] : t \in collected}
        toSend == {n \in Expand(shown.create) \cup shown.overwrite :
                     n \notin Ignored /\ (Is("src", n, "file") \/ Is("dst", n, "file"))} IN
      /\ gone \subseteq Expand(shown.delete \cup shown.unreadable)
      /\ sent \subseteq toSend \cup Expand(shown.unreadable)
      /\ /\ phase \in {"running", "done"} /\ ~ cancelled
         /\ ~ opt.ignoreExisting /\ ~ (opt.both /\ opt.update)
         => shown.delete \subseteq gone /\ toSend \subseteq sent \cup skipped

\* A sync that is cancelled hands nothing more to the scheduler. (What was already
\* being deleted is deleted.)
CancelStopsCollecting == [][cancelled => collected' = collected]_vars

\* Nothing runs before everything the walk has started is over: the deletions are not
\* overtaken by the transfers into the same tree.
RunsWhenSettled ==
  phase \in {"running", "done"} =>
    /\ \A n \in Nodes : job[n].at = "done"
    /\ verifying = {} /\ removing = {} /\ ~ failed

\* What a comment of compareFolders promises: entries that config.ignore matches "are
\* never transferred or deleted by a sync". They are, inside an extraneous directory.
IgnoredStay == gone \cap Ignored = {}

\* What docs/Commands.md says of Sync Both Directions: it "always keeps the newest
\* version on both sides". Files that are newer on the target reach nothing.
NewestOnBothSides ==
  phase = "done" /\ ~ cancelled => \A t \in collected : t \in delivered

\* The command ends, whatever fails and whenever it is cancelled.
Ended == phase \in {"done", "rejected", "dropped"}
=============================================================================
