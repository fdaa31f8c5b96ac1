---------------------------- MODULE UploadConflict ----------------------------
(***************************************************************************)
(* The guard in front of single-file uploads (transfer/conflictCheck.ts),  *)
(* the baselines it compares with (remoteBaseline.ts) and the upload and   *)
(* download handlers around them (transfer/index.ts), for one file, with   *)
(* conflictCheck on.  Somebody else works on the server meanwhile.         *)
(***************************************************************************)
EXTENDS Naturals

CONSTANTS Jobs,      \* commands on the file
          Contents,  \* what the file may hold: "mine" is saved here, the rest elsewhere
          SizeOf,    \* of every content, in bytes
          FirstFiles, \* the two copies a run may begin with
          MaxClock,  \* bound: seconds that pass
          MaxEdits   \* bound: saves, here and there

NoFile == [content |-> "none", mtime |-> 0]

ConflictAssumption ==
  /\ \A f \in FirstFiles, i \in {1, 2} : f[i] \in [content : Contents, mtime : {0}] \cup {NoFile}
  /\ SizeOf \in [Contents \cup {"torn"} -> Nat]
  /\ "mine" \in Contents /\ MaxClock \in Nat /\ MaxEdits \in Nat

VARIABLES clock,    \* seconds: the granularity modification times are compared in
          local, remote,  \* the file, on both sides
          baseline, \* of the file, and what it held when it was taken
          job,      \* the commands
          edits,
          seen,     \* history: contents this side has made, put there or fetched
          alone     \* history: since the baseline was taken the file was only ever
                    \* changed by commands that took theirs

vars == <<clock, local, remote, baseline, job, edits, seen, alone>>

FileStates == [content : Contents \cup {"torn"}, mtime : 0..MaxClock] \cup {NoFile}
NoJob == [kind |-> "none", at |-> "none", local |-> NoFile, got |-> NoFile, excused |-> FALSE]

TypeOK ==
  /\ clock \in 0..MaxClock /\ edits \in 0..MaxEdits
  /\ local \in FileStates /\ remote \in FileStates /\ baseline \in FileStates
  /\ job \in [Jobs -> [kind : {"none", "upload", "download"},
                       at : {"none", "local", "remote", "asking", "read", "write", "settled"},
                       local : FileStates, got : FileStates, excused : BOOLEAN]]
  /\ seen \subseteq Contents \cup {"torn"} /\ alone \in BOOLEAN

Init ==
  /\ clock = 0
  /\ \E f \in FirstFiles : local = f[1] /\ remote = f[2]
  /\ baseline = NoFile
  /\ job = [j \in Jobs |-> NoJob]
  /\ edits = 0 /\ seen = {"mine", "torn"} /\ alone = FALSE

-----------------------------------------------------------------------------
\* The pieces of detectUploadConflict.
sameFile(a, b) ==
  a.mtime = b.mtime /\ SizeOf[a.content] = SizeOf[b.content]

\* Mutant: the plain comparison of times.
detectUploadConflictByTime(l, r) ==
  /\ r # NoFile /\ ~ sameFile(r, l)
  /\ r.mtime > l.mtime

\* The verdict is a conflict.
detectUploadConflict(l, r) ==
  /\ r # NoFile /\ ~ sameFile(r, l)
  /\ IF baseline # NoFile THEN ~ sameFile(r, baseline) ELSE r.mtime > l.mtime

Others(j) == {k \in Jobs \ {j} : job[k].at # "none"}
Set(j, r) == job' = [job EXCEPT ![j] = r]

Start(j, kind) ==
  /\ job[j].at = "none"
  /\ Set(j, [NoJob EXCEPT !.kind = kind, !.at = IF kind = "upload" THEN "local" ELSE "read"])
  /\ alone' = (alone /\ Others(j) = {})
  /\ UNCHANGED <<clock, local, remote, baseline, edits, seen>>

\* No local file, or a folder: left to the transfer.
LookLocal(j) ==
  /\ job[j].at = "local"
  /\ Set(j, IF local = NoFile THEN [job[j] EXCEPT !.at = "read", !.excused = TRUE]
            ELSE [job[j] EXCEPT !.at = "remote", !.local = local])
  /\ UNCHANGED <<clock, local, remote, baseline, edits, seen, alone>>

\* When the guard cannot know: it could not look, or two files of one size and second are
\* taken for one, or there is no baseline and the remote file is not newer than ours, or the
\* baseline was taken of the very change nobody here has seen.
CannotKnow(l, r) ==
  \/ r # remote
  \/ sameFile(l, remote)
  \/ baseline = NoFile /\ remote.mtime <= l.mtime
  \/ /\ baseline # NoFile /\ sameFile(baseline, remote)
     /\ baseline.content # remote.content \/ remote.content \notin seen

\* A remote file that cannot be looked at counts as none: r is NoFile then.
LookRemote(j, r) ==
  /\ job[j].at = "remote" /\ r \in {remote, NoFile}
  /\ Set(j, [job[j] EXCEPT !.local = NoFile,
                           !.excused = remote = NoFile \/ CannotKnow(job[j].local, r),
                           !.at = IF detectUploadConflict(job[j].local, r) THEN "asking" ELSE "read"])
  /\ UNCHANGED <<clock, local, remote, baseline, edits, seen, alone>>

\* Overwrite, or anything else: the diff leaves both sides as they are.
Overwrite(j) ==
  /\ job[j].at = "asking"
  /\ Set(j, [job[j] EXCEPT !.at = "read", !.excused = TRUE])
  /\ UNCHANGED <<clock, local, remote, baseline, edits, seen, alone>>

CancelOrDiff(j) ==
  /\ job[j].at = "asking"
  /\ Set(j, NoJob)
  /\ UNCHANGED <<clock, local, remote, baseline, edits, seen, alone>>

\* The source as the transfer finds it: without one the command fails.
ReadSource(j) ==
  /\ job[j].at = "read"
  /\ LET source == IF job[j].kind = "upload" THEN local ELSE remote IN
       Set(j, IF source = NoFile THEN NoJob ELSE [job[j] EXCEPT !.at = "write", !.got = source])
  /\ UNCHANGED <<clock, local, remote, baseline, edits, seen, alone>>

\* The file arrives, under the time of its source unless that could not be set.
Arrives(j, mtime) ==
  /\ job[j].at = "write" /\ mtime \in {job[j].got.mtime, clock}
  /\ LET file == [job[j].got EXCEPT !.mtime = mtime] IN
     IF job[j].kind = "upload" THEN remote' = file /\ UNCHANGED local
     ELSE local' = file /\ UNCHANGED remote
  /\ seen' = seen \cup {job[j].got.content}
  /\ Set(j, [NoJob EXCEPT !.kind = job[j].kind, !.at = "settled"])
  /\ UNCHANGED <<clock, baseline, edits, alone>>

\* It fails, before or after it has written something; run() resolves all the same.
TransferFails(j, wrote) ==
  /\ job[j].at = "write"
  /\ LET file == [content |-> "torn", mtime |-> clock] IN
       CASE wrote /\ job[j].kind = "upload" -> remote' = file /\ seen' = seen \cup {"torn"} /\ UNCHANGED local
         [] wrote /\ job[j].kind = "download" -> local' = file /\ UNCHANGED <<remote, seen>>
         [] ~ wrote -> UNCHANGED <<local, remote, seen>>
  /\ Set(j, [NoJob EXCEPT !.kind = job[j].kind, !.at = "settled"])
  /\ UNCHANGED <<clock, baseline, edits, alone>>

BaselineAfter(j) == IF remote # NoFile THEN remote ELSE baseline

\* updateBaselineAfterTransfer: whatever is there now.
Record(j) ==
  /\ job[j].at = "settled"
  /\ baseline' = BaselineAfter(j)
  /\ alone' = (Others(j) = {} /\ remote # NoFile /\ remote.content \in seen)
  /\ Set(j, NoJob)
  /\ UNCHANGED <<clock, local, remote, edits, seen>>

RecordFails(j) ==
  /\ job[j].at = "settled"
  /\ alone' = FALSE
  /\ Set(j, NoJob)
  /\ UNCHANGED <<clock, local, remote, baseline, edits, seen>>

\* MAX_ENTRIES baselines of other files are younger.
Evicted ==
  /\ baseline # NoFile
  /\ baseline' = NoFile /\ alone' = FALSE
  /\ UNCHANGED <<clock, local, remote, job, edits, seen>>

\* A folder upload or a sync: neither asks, neither takes a baseline of the file.
FolderUpload ==
  /\ local # NoFile /\ remote # local
  /\ remote' = local
  /\ seen' = seen \cup {local.content}
  /\ alone' = FALSE
  /\ UNCHANGED <<clock, local, baseline, job, edits>>

Edit ==
  /\ edits < MaxEdits
  /\ local' = [content |-> "mine", mtime |-> clock]
  /\ edits' = edits + 1
  /\ UNCHANGED <<clock, remote, baseline, job, seen, alone>>

EditElsewhere(file) ==
  /\ edits < MaxEdits /\ file \in {NoFile} \cup [content : Contents \ {"mine"}, mtime : {clock}]
  /\ remote' = file
  /\ edits' = edits + 1 /\ alone' = FALSE
  /\ seen' = seen \ {file.content}
  /\ job' = [j \in Jobs |-> [job[j] EXCEPT !.excused = @ \/ job[j].at \in {"asking", "read", "write"}]]
  /\ UNCHANGED <<clock, local, baseline>>

Tick ==
  /\ clock < MaxClock
  /\ clock' = clock + 1
  /\ UNCHANGED <<local, remote, baseline, job, edits, seen, alone>>

Next ==
  \/ \E j \in Jobs :
       \/ \E kind \in {"upload", "download"} : Start(j, kind)
       \/ LookLocal(j) \/ Overwrite(j) \/ CancelOrDiff(j) \/ ReadSource(j)
       \/ \E r \in {remote, NoFile} : LookRemote(j, r)
       \/ \E mtime \in {job[j].got.mtime, clock} : Arrives(j, mtime)
       \/ \E wrote \in BOOLEAN : TransferFails(j, wrote)
       \/ Record(j) \/ RecordFails(j)
  \/ Edit
  \/ \E file \in {NoFile} \cup [content : Contents \ {"mine"}, mtime : {clock}] : EditElsewhere(file)
  \/ Evicted \/ FolderUpload \/ Tick

Spec == Init /\ [][Next]_vars

-----------------------------------------------------------------------------
\* An upload is about to replace what somebody else left there, and nobody was asked.
Clobbers(j) ==
  /\ job[j].kind = "upload" /\ job[j].at = "write"
  /\ remote # NoFile /\ remote.content \notin seen /\ remote.content # job[j].got.content

\* A change made on the server that was never fetched is not overwritten unasked
\* (docs/Configuration.md), unless it came after the guard had looked, or the guard could
\* not know it from what it compares.
NeverUnasked == \A j \in Jobs : Clobbers(j) => job[j].excused

\* Nor is anybody asked about his own changes: while only commands that record what they
\* leave have touched the file, no upload is a conflict.
NeverAskedForOwn == alone => \A j \in Jobs : job[j].at # "asking"
=============================================================================
