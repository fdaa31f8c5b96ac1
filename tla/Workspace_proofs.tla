-------------------------- MODULE Workspace_proofs --------------------------
(***************************************************************************)
(* For every set of files, commands, contents, servers and rows: the guard *)
(* before an upload asks when it must, and only then (conflictCheck.ts);   *)
(* the watcher brings the server to what the disk has (fileWatcher.ts);    *)
(* the tree shows what the server has (treeDataProvider.ts); a drop        *)
(* overwrites nothing and whoever is dragged arrives (dragAndDrop.ts); a   *)
(* save goes to the host its file came from, and keeps a copy of the file  *)
(* until it is there (remoteFileSystemProvider.ts); and the services       *)
(* are those of sftp.json (fileActivityMonitor.ts, serviceManager).        *)
(***************************************************************************)
EXTENDS Workspace, FiniteSetTheorems, WellFoundedInduction, TLAPS

-----------------------------------------------------------------------------
\* What the guard let through has been seen here, or nobody is to blame for it.
LetThrough ==
  \A j \in Jobs :
    job[j].kind = "upload" /\ job[j].at \in {"read", "write"} /\ ~ job[j].excused
    => there = Guard!NoFile \/ there.content \in seen

\* A command under way is an upload or a download, and has a source once it has read it.
HasSource ==
  \A j \in Jobs : /\ job[j].at # "none" => job[j].kind \in {"upload", "download"}
                  /\ job[j].at = "write" => job[j].got # Guard!NoFile

\* While the file is only changed by commands that take their baselines, one of them is under
\* way at most, and the baseline is of the remote file unless that one has just changed it.
OnlyOne ==
  /\ \A j, k \in Jobs : job[j].at # "none" /\ job[k].at # "none" => j = k
  /\ \A j \in Jobs : job[j].at # "asking"
  /\ (\A j \in Jobs : job[j].at # "settled") => there # Guard!NoFile /\ baseline = there

Solo == alone => OnlyOne

GuardInv == Guard!TypeOK /\ LetThrough /\ HasSource /\ Solo

-----------------------------------------------------------------------------
GuardJob == [kind : {"none", "upload", "download"},
             at : {"none", "local", "remote", "asking", "read", "write", "settled"},
             local : Guard!FileStates, got : Guard!FileStates, excused : BOOLEAN]

\* One command goes on and the others stand.
LEMMA OneJob ==
  ASSUME Guard!TypeOK, NEW j \in Jobs, NEW r \in GuardJob, Guard!Set(j, r)
  PROVE  /\ job' \in [Jobs -> GuardJob] /\ job'[j] = r
         /\ \A k \in Jobs : k # j => job'[k] = job[k]
  BY DEF Guard!TypeOK, Guard!Set, GuardJob

\* A command under way is a record of that kind.
LEMMA JobFields ==
  ASSUME Guard!TypeOK, NEW j \in Jobs
  PROVE  job[j] \in GuardJob
  BY DEF Guard!TypeOK, GuardJob

\* What a command is before it begins and after it is over.
LEMMA NoJobFields ==
  /\ Guard!NoJob \in GuardJob /\ Guard!NoJob.at = "none" /\ Guard!NoJob.kind = "none"
  /\ \A kind \in {"upload", "download"}, at \in {"local", "read", "settled"} :
       /\ [Guard!NoJob EXCEPT !.kind = kind, !.at = at] \in GuardJob
       /\ [Guard!NoJob EXCEPT !.kind = kind, !.at = at].kind = kind
       /\ [Guard!NoJob EXCEPT !.kind = kind, !.at = at].at = at
  BY DEF Guard!NoJob, GuardJob, Guard!FileStates, Guard!NoFile

\* What becomes of the record of a command.
LEMMA JobSteps ==
  ASSUME NEW f \in GuardJob
  PROVE  /\ LET r == [f EXCEPT !.at = "read", !.excused = TRUE] IN
              r \in GuardJob /\ r.kind = f.kind /\ r.at = "read" /\ r.excused
         /\ \A copy \in Guard!FileStates :
              LET r == [f EXCEPT !.at = "remote", !.local = copy] IN
              r \in GuardJob /\ r.kind = f.kind /\ r.at = "remote"
  BY DEF GuardJob

\* What a copy becomes under another time.
LEMMA Retimed ==
  ASSUME Guard!ConflictAssumption, NEW f \in Guard!FileStates, f # Guard!NoFile,
         NEW mtime \in 0..MaxClock
  PROVE  /\ [f EXCEPT !.mtime = mtime] \in Guard!FileStates
         /\ [f EXCEPT !.mtime = mtime].content = f.content
         /\ f.mtime \in 0..MaxClock /\ f.content \in Texts \cup {"torn"}
  BY DEF Guard!FileStates, Guard!ConflictAssumption

\* What a transfer that broke off leaves is a file.
LEMMA TornFile ==
  ASSUME clock \in 0..MaxClock
  PROVE  [content |-> "torn", mtime |-> clock] \in Guard!FileStates
  BY DEF Guard!FileStates

\* What the guard lets through without an excuse has been seen here.
LEMMA Verdict ==
  ASSUME Guard!ConflictAssumption, Guard!TypeOK, NEW l \in Guard!FileStates,
         NEW r \in {there, Guard!NoFile},
         ~ Guard!detectUploadConflict(l, r), there # Guard!NoFile, ~ Guard!CannotKnow(l, r)
  PROVE  there.content \in seen
<1>1. r = there /\ ~ Guard!sameFile(l, there)
  BY DEF Guard!CannotKnow
<1>2. ~ Guard!sameFile(there, l)
  BY <1>1 DEF Guard!sameFile
<1>3. baseline # Guard!NoFile
  <2>1. there.mtime \in Nat /\ l.mtime \in Nat
    BY DEF Guard!TypeOK, Guard!FileStates, Guard!NoFile, Guard!ConflictAssumption
  <2> QED  BY <1>1, <1>2, <2>1 DEF Guard!detectUploadConflict, Guard!CannotKnow
<1>4. Guard!sameFile(there, baseline)
  BY <1>1, <1>2, <1>3 DEF Guard!detectUploadConflict
<1>5. Guard!sameFile(baseline, there)
  BY <1>4 DEF Guard!sameFile
<1> QED  BY <1>3, <1>5 DEF Guard!CannotKnow

\* One step per action: what was let through has been seen, or is excused.
LEMMA GuardStep ==
  ASSUME Guard!ConflictAssumption, GuardInv, Guard!Next
  PROVE  GuardInv'
<1> USE DEF GuardInv
<1>1. ASSUME NEW j \in Jobs, NEW kind \in {"upload", "download"}, Guard!Start(j, kind)
      PROVE  GuardInv'
  <2>1. PICK r \in GuardJob : /\ Guard!Set(j, r) /\ r.kind = kind /\ (kind = "upload" => r.at = "local")
                              /\ r.at \in {"local", "read"}
    <3>1. CASE kind = "upload"
      BY <1>1, <3>1, NoJobFields DEF Guard!Start
    <3>2. CASE kind # "upload"
      BY <1>1, <3>2, NoJobFields DEF Guard!Start
    <3> QED  BY <3>1, <3>2
  <2>2. /\ job' \in [Jobs -> GuardJob] /\ job'[j] = r
        /\ \A k \in Jobs : k # j => job'[k] = job[k]
    BY <2>1, OneJob
  <2>3. Guard!TypeOK'
    BY <1>1, <2>2 DEF Guard!Start, Guard!TypeOK, GuardJob
  <2>4. LetThrough' /\ HasSource'
    BY <1>1, <2>1, <2>2 DEF Guard!Start, LetThrough, HasSource
  <2>5. Solo'
    <3> SUFFICES ASSUME alone' PROVE OnlyOne'
      BY DEF Solo
    <3>1. \A k \in Jobs : k # j => job[k].at = "none"
      BY <1>1 DEF Guard!Start, Guard!Others
    <3>2. job[j].at = "none"
      BY <1>1 DEF Guard!Start
    <3>3. there # Guard!NoFile /\ baseline = there
      BY <1>1, <3>1, <3>2 DEF Guard!Start, Solo, OnlyOne
    <3> QED  BY <1>1, <2>1, <2>2, <3>1, <3>3 DEF Guard!Start, OnlyOne
  <2> QED  BY <2>3, <2>4, <2>5
<1>2. ASSUME NEW j \in Jobs, Guard!LookLocal(j)
      PROVE  GuardInv'
  <2>1. PICK r \in GuardJob : 
                /\ Guard!Set(j, r) /\ r.kind = job[j].kind /\ r.at \in {"remote", "read"}
                /\ r.at = "read" => r.excused
    <3>1. here \in Guard!FileStates
      BY DEF Guard!TypeOK
    <3>2. CASE here = Guard!NoFile
      BY <1>2, <3>2, JobFields, JobSteps DEF Guard!LookLocal
    <3>3. CASE here # Guard!NoFile
      BY <1>2, <3>1, <3>3, JobFields, JobSteps DEF Guard!LookLocal
    <3> QED  BY <3>2, <3>3
  <2>2. /\ job' \in [Jobs -> GuardJob] /\ job'[j] = r
        /\ \A k \in Jobs : k # j => job'[k] = job[k]
    BY <2>1, OneJob
  <2>3. Guard!TypeOK'
    BY <1>2, <2>2 DEF Guard!LookLocal, Guard!TypeOK, GuardJob
  <2>4. LetThrough' /\ HasSource'
    BY <1>2, <2>1, <2>2 DEF Guard!LookLocal, LetThrough, HasSource
  <2>5. Solo'
    BY <1>2, <2>1, <2>2 DEF Guard!LookLocal, Solo, OnlyOne
  <2> QED  BY <2>3, <2>4, <2>5
<1>3. ASSUME NEW j \in Jobs, NEW found \in {there, Guard!NoFile},
             Guard!LookRemote(j, found)
      PROVE  GuardInv'
  <2>1. PICK r \in GuardJob : 
                /\ Guard!Set(j, r) /\ r.at = IF Guard!detectUploadConflict(job[j].local, found) THEN "asking" ELSE "read"
                /\ r.kind = job[j].kind
                /\ r.excused = (there = Guard!NoFile \/ Guard!CannotKnow(job[j].local, found))
    <3>1. Guard!NoFile \in Guard!FileStates
      BY DEF Guard!FileStates
    <3> DEFINE x == (there = Guard!NoFile \/ Guard!CannotKnow(job[j].local, found))
               at == IF Guard!detectUploadConflict(job[j].local, found) THEN "asking" ELSE "read"
    <3>2. Guard!Set(j, [job[j] EXCEPT !.local = Guard!NoFile, !.excused = x, !.at = at])
      BY <1>3 DEF Guard!LookRemote
    <3>3. x \in BOOLEAN /\ at \in {"asking", "read"}
      BY DEF Guard!CannotKnow
    <3> HIDE DEF x, at
    <3>4. /\ [job[j] EXCEPT !.local = Guard!NoFile, !.excused = x, !.at = at] \in GuardJob
          /\ [job[j] EXCEPT !.local = Guard!NoFile, !.excused = x, !.at = at].kind = job[j].kind
          /\ [job[j] EXCEPT !.local = Guard!NoFile, !.excused = x, !.at = at].at = at
          /\ [job[j] EXCEPT !.local = Guard!NoFile, !.excused = x, !.at = at].excused = x
      BY <3>1, <3>3, JobFields DEF GuardJob
    <3> QED  BY <3>2, <3>4 DEF x, at
  <2>2. /\ job' \in [Jobs -> GuardJob] /\ job'[j] = r
        /\ \A k \in Jobs : k # j => job'[k] = job[k]
    BY <2>1, OneJob
  <2>3. Guard!TypeOK'
    BY <1>3, <2>2 DEF Guard!LookRemote, Guard!TypeOK, GuardJob
  <2>4. LetThrough' /\ HasSource'
    <3>1. r.at = "read" /\ ~ r.excused => there = Guard!NoFile \/ there.content \in seen
      BY <2>1, JobFields, Verdict DEF GuardJob
    <3> QED  BY <1>3, <2>1, <2>2, <3>1 DEF Guard!LookRemote, LetThrough, HasSource
  <2>5. Solo'
    <3> SUFFICES ASSUME alone PROVE OnlyOne'
      BY <1>3 DEF Guard!LookRemote, Solo, OnlyOne
    <3>1. \A k \in Jobs : k # j => job[k].at = "none"
      BY <1>3 DEF Guard!LookRemote, Solo, OnlyOne
    <3>2. there # Guard!NoFile /\ baseline = there
      BY <1>3, <3>1 DEF Guard!LookRemote, Solo, OnlyOne
    <3>3. ~ Guard!detectUploadConflict(job[j].local, found)
      BY <3>2 DEF Guard!detectUploadConflict, Guard!sameFile
    <3> QED  BY <1>3, <2>1, <2>2, <3>1, <3>2, <3>3 DEF Guard!LookRemote, OnlyOne
  <2> QED  BY <2>3, <2>4, <2>5
<1>4. ASSUME NEW j \in Jobs, Guard!Overwrite(j)
      PROVE  GuardInv'
  <2>1. PICK r \in GuardJob : Guard!Set(j, r) /\ r.kind = job[j].kind /\ r.at = "read" /\ r.excused
    BY <1>4, JobFields, JobSteps DEF Guard!Overwrite
  <2>2. /\ job' \in [Jobs -> GuardJob] /\ job'[j] = r
        /\ \A k \in Jobs : k # j => job'[k] = job[k]
    BY <2>1, OneJob
  <2>3. Guard!TypeOK'
    BY <1>4, <2>2 DEF Guard!Overwrite, Guard!TypeOK, GuardJob
  <2>4. LetThrough' /\ HasSource'
    BY <1>4, <2>1, <2>2 DEF Guard!Overwrite, LetThrough, HasSource
  <2>5. Solo'
    BY <1>4, <2>1, <2>2 DEF Guard!Overwrite, Solo, OnlyOne
  <2> QED  BY <2>3, <2>4, <2>5
<1>5. ASSUME NEW j \in Jobs, Guard!CancelOrDiff(j)
      PROVE  GuardInv'
  <2>1. PICK r \in GuardJob : Guard!Set(j, r) /\ r.at = "none"
    BY <1>5, NoJobFields DEF Guard!CancelOrDiff
  <2>2. /\ job' \in [Jobs -> GuardJob] /\ job'[j] = r
        /\ \A k \in Jobs : k # j => job'[k] = job[k]
    BY <2>1, OneJob
  <2>3. Guard!TypeOK'
    BY <1>5, <2>2 DEF Guard!CancelOrDiff, Guard!TypeOK, GuardJob
  <2>4. LetThrough' /\ HasSource'
    BY <1>5, <2>1, <2>2 DEF Guard!CancelOrDiff, LetThrough, HasSource
  <2>5. Solo'
    BY <1>5, <2>1, <2>2 DEF Guard!CancelOrDiff, Solo, OnlyOne
  <2> QED  BY <2>3, <2>4, <2>5
<1>6. ASSUME NEW j \in Jobs, Guard!ReadSource(j)
      PROVE  GuardInv'
  <2>1. PICK r \in GuardJob : 
                /\ Guard!Set(j, r) /\ r.at \in {"none", "write"}
                /\ r.at = "write" => /\ r.kind = job[j].kind /\ r.excused = job[j].excused
                                     /\ r.got # Guard!NoFile
    <3>1. {here, there} \subseteq Guard!FileStates
      BY DEF Guard!TypeOK
    <3> DEFINE source == IF job[j].kind = "upload" THEN here ELSE there
    <3>2. source \in Guard!FileStates
      BY <3>1
    <3>3. Guard!Set(j, IF source = Guard!NoFile THEN Guard!NoJob
                       ELSE [job[j] EXCEPT !.at = "write", !.got = source])
      BY <1>6 DEF Guard!ReadSource
    <3> HIDE DEF source
    <3>4. CASE source = Guard!NoFile
      BY <3>3, <3>4, NoJobFields
    <3>5. CASE source # Guard!NoFile
      <4> DEFINE next == [job[j] EXCEPT !.at = "write", !.got = source]
      <4>1. /\ next \in GuardJob /\ next.at = "write" /\ next.got = source
            /\ next.kind = job[j].kind /\ next.excused = job[j].excused
        BY <3>2, JobFields DEF GuardJob
      <4>2. Guard!Set(j, next)
        BY <3>3, <3>5
      <4> HIDE DEF next
      <4> QED  BY <3>5, <4>1, <4>2
    <3> QED  BY <3>4, <3>5
  <2>2. /\ job' \in [Jobs -> GuardJob] /\ job'[j] = r
        /\ \A k \in Jobs : k # j => job'[k] = job[k]
    BY <2>1, OneJob
  <2>3. Guard!TypeOK'
    BY <1>6, <2>2 DEF Guard!ReadSource, Guard!TypeOK, GuardJob
  <2>4. LetThrough' /\ HasSource'
    BY <1>6, <2>1, <2>2 DEF Guard!ReadSource, LetThrough, HasSource
  <2>5. Solo'
    BY <1>6, <2>1, <2>2 DEF Guard!ReadSource, Solo, OnlyOne
  <2> QED  BY <2>3, <2>4, <2>5
<1>7. ASSUME NEW j \in Jobs, NEW mtime \in {job[j].got.mtime, clock},
             Guard!Arrives(j, mtime)
      PROVE  GuardInv'
  <2>1. PICK r \in GuardJob : Guard!Set(j, r) /\ r.kind = job[j].kind /\ r.at = "settled"
    <3>1. job[j].kind \in {"upload", "download"}
      BY <1>7 DEF HasSource, Guard!Arrives
    <3> QED  BY <1>7, <3>1, NoJobFields DEF Guard!Arrives
  <2>2. /\ job' \in [Jobs -> GuardJob] /\ job'[j] = r
        /\ \A k \in Jobs : k # j => job'[k] = job[k]
    BY <2>1, OneJob
  <2> DEFINE new == [job[j].got EXCEPT !.mtime = mtime]
  <2>6. new \in Guard!FileStates /\ new.content = job[j].got.content
        /\ job[j].got.content \in Texts \cup {"torn"}
    <3>1. job[j].got \in Guard!FileStates /\ job[j].got # Guard!NoFile
      BY <1>7, JobFields DEF Guard!Arrives, HasSource, GuardJob
    <3>2. clock \in 0..MaxClock
      BY DEF Guard!TypeOK
    <3>3. job[j].got.mtime \in 0..MaxClock
      BY <3>1, <3>2, Retimed
    <3> QED  BY <3>1, <3>2, <3>3, Retimed
  <2>7. /\ (here' = new /\ there' = there) \/ (here' = here /\ there' = new)
        /\ job[j].kind = "upload" => there' = new
    BY <1>7 DEF Guard!Arrives
  <2> HIDE DEF new
  <2>3. Guard!TypeOK'
    BY <1>7, <2>2, <2>6, <2>7 DEF Guard!Arrives, Guard!TypeOK, GuardJob
  <2>4. LetThrough' /\ HasSource'
    BY <1>7, <2>1, <2>2, <2>6, <2>7 DEF Guard!Arrives, LetThrough, HasSource
  <2>5. Solo'
    BY <1>7, <2>1, <2>2 DEF Guard!Arrives, Solo, OnlyOne
  <2> QED  BY <2>3, <2>4, <2>5
<1>8. ASSUME NEW j \in Jobs, NEW wrote \in BOOLEAN,
             Guard!TransferFails(j, wrote)
      PROVE  GuardInv'
  <2>1. PICK r \in GuardJob : Guard!Set(j, r) /\ r.kind = job[j].kind /\ r.at = "settled"
    <3>1. job[j].kind \in {"upload", "download"}
      BY <1>8 DEF HasSource, Guard!TransferFails
    <3> QED  BY <1>8, <3>1, NoJobFields DEF Guard!TransferFails
  <2>2. /\ job' \in [Jobs -> GuardJob] /\ job'[j] = r
        /\ \A k \in Jobs : k # j => job'[k] = job[k]
    BY <2>1, OneJob
  <2> DEFINE new == [content |-> "torn", mtime |-> clock]
  <2>6. new \in Guard!FileStates /\ new.content = "torn"
    BY TornFile DEF Guard!TypeOK
  <2>7. \/ here' = new /\ there' = there /\ seen' = seen
        \/ here' = here /\ there' = new /\ seen' = seen \cup {"torn"}
        \/ here' = here /\ there' = there /\ seen' = seen
    <3>1. job[j].kind \in {"upload", "download"}
      BY <1>8 DEF HasSource, Guard!TransferFails
    <3> QED  BY <1>8, <3>1 DEF Guard!TransferFails
  <2> HIDE DEF new
  <2>3. Guard!TypeOK'
    BY <1>8, <2>2, <2>6, <2>7 DEF Guard!TransferFails, Guard!TypeOK, GuardJob
  <2>4. LetThrough' /\ HasSource'
    BY <1>8, <2>1, <2>2, <2>6, <2>7 DEF Guard!TransferFails, LetThrough, HasSource
  <2>5. Solo'
    BY <1>8, <2>1, <2>2 DEF Guard!TransferFails, Solo, OnlyOne
  <2> QED  BY <2>3, <2>4, <2>5
<1>9. ASSUME NEW j \in Jobs, Guard!Record(j)
      PROVE  GuardInv'
  <2>1. PICK r \in GuardJob : Guard!Set(j, r) /\ r.at = "none"
    BY <1>9, NoJobFields DEF Guard!Record
  <2>2. /\ job' \in [Jobs -> GuardJob] /\ job'[j] = r
        /\ \A k \in Jobs : k # j => job'[k] = job[k]
    BY <2>1, OneJob
  <2>3. Guard!TypeOK'
    BY <1>9, <2>2 DEF Guard!Record, Guard!BaselineAfter, Guard!TypeOK, GuardJob
  <2>4. LetThrough' /\ HasSource'
    BY <1>9, <2>1, <2>2 DEF Guard!Record, LetThrough, HasSource
  <2>5. Solo'
    <3> SUFFICES ASSUME alone' PROVE OnlyOne'
      BY DEF Solo
    <3>1. \A k \in Jobs : k # j => job[k].at = "none"
      BY <1>9 DEF Guard!Record, Guard!Others
    <3>2. there # Guard!NoFile /\ baseline' = there /\ there' = there
      BY <1>9 DEF Guard!Record, Guard!BaselineAfter
    <3> QED  BY <2>1, <2>2, <3>1, <3>2 DEF OnlyOne
  <2> QED  BY <2>3, <2>4, <2>5
<1>10. ASSUME NEW j \in Jobs, Guard!RecordFails(j)
      PROVE  GuardInv'
  <2>1. PICK r \in GuardJob : Guard!Set(j, r) /\ r.at = "none"
    BY <1>10, NoJobFields DEF Guard!RecordFails
  <2>2. /\ job' \in [Jobs -> GuardJob] /\ job'[j] = r
        /\ \A k \in Jobs : k # j => job'[k] = job[k]
    BY <2>1, OneJob
  <2>3. Guard!TypeOK'
    BY <1>10, <2>2 DEF Guard!RecordFails, Guard!TypeOK, GuardJob
  <2>4. LetThrough' /\ HasSource'
    BY <1>10, <2>1, <2>2 DEF Guard!RecordFails, LetThrough, HasSource
  <2>5. Solo'
    BY <1>10, <2>1, <2>2 DEF Guard!RecordFails, Solo, OnlyOne
  <2> QED  BY <2>3, <2>4, <2>5
<1>11. ASSUME NEW other \in {Guard!NoFile} \cup [content : Texts \ {"mine"}, mtime : {clock}],
              Guard!EditElsewhere(other)
       PROVE  GuardInv'
  <2>1. \A k \in Jobs :
          /\ job'[k] \in GuardJob
          /\ job'[k].kind = job[k].kind /\ job'[k].at = job[k].at /\ job'[k].got = job[k].got
          /\ job[k].at \in {"read", "write"} => job'[k].excused
    BY <1>11, JobFields DEF Guard!EditElsewhere, GuardJob
  <2>2. job' \in [Jobs -> GuardJob]
    BY <1>11, <2>1 DEF Guard!EditElsewhere
  <2>3. other \in Guard!FileStates
    BY DEF Guard!TypeOK, Guard!FileStates
  <2>7. edits' \in 0..MaxEdits /\ seen' \subseteq Texts \cup {"torn"}
    BY <1>11 DEF Guard!EditElsewhere, Guard!TypeOK, Guard!ConflictAssumption
  <2>8. there' = other /\ alone' = FALSE /\ clock' = clock /\ here' = here /\ baseline' = baseline
    BY <1>11 DEF Guard!EditElsewhere
  <2> HIDE DEF GuardInv
  <2>9. clock \in 0..MaxClock /\ here \in Guard!FileStates /\ baseline \in Guard!FileStates
    BY DEF GuardInv, Guard!TypeOK
  <2>4. Guard!TypeOK'
    BY <2>2, <2>3, <2>7, <2>8, <2>9 DEF Guard!TypeOK, GuardJob
  <2>5. HasSource'
    <3> SUFFICES ASSUME NEW k \in Jobs
                 PROVE  /\ job'[k].at # "none" => job'[k].kind \in {"upload", "download"}
                        /\ job'[k].at = "write" => job'[k].got # Guard!NoFile
      BY Zenon DEF HasSource
    <3>1. /\ job[k].at # "none" => job[k].kind \in {"upload", "download"}
          /\ job[k].at = "write" => job[k].got # Guard!NoFile
      BY DEF GuardInv, HasSource
    <3> QED  BY <2>1, <3>1
  <2>10. LetThrough'
    <3> SUFFICES ASSUME NEW k \in Jobs, job'[k].at \in {"read", "write"}
                 PROVE  job'[k].excused
      BY Zenon DEF LetThrough
    <3> QED  BY <2>1
  <2>11. Solo'
    BY <2>8, Zenon DEF Solo
  <2> QED  BY <2>4, <2>5, <2>10, <2>11 DEF GuardInv
<1>12. ASSUME Guard!Edit PROVE GuardInv'
  <2>1. [content |-> "mine", mtime |-> clock] \in Guard!FileStates
    BY DEF Guard!TypeOK, Guard!FileStates, Guard!ConflictAssumption
  <2>2. Guard!TypeOK'
    BY <1>12, <2>1 DEF Guard!Edit, Guard!TypeOK, Guard!ConflictAssumption
  <2> QED  BY <1>12, <2>2 DEF Guard!Edit, LetThrough, HasSource, Solo, OnlyOne
<1>13. ASSUME Guard!Evicted PROVE GuardInv'
  <2>1. Guard!TypeOK'
    BY <1>13 DEF Guard!Evicted, Guard!TypeOK, Guard!FileStates
  <2> QED  BY <1>13, <2>1 DEF Guard!Evicted, LetThrough, HasSource, Solo, OnlyOne
<1>14. ASSUME Guard!FolderUpload PROVE GuardInv'
  <2>1. here.content \in Texts \cup {"torn"}
    BY <1>14 DEF Guard!FolderUpload, Guard!TypeOK, Guard!FileStates
  <2>2. Guard!TypeOK'
    BY <1>14, <2>1 DEF Guard!FolderUpload, Guard!TypeOK
  <2> QED  BY <1>14, <2>2 DEF Guard!FolderUpload, LetThrough, HasSource, Solo, OnlyOne
<1>15. ASSUME Guard!Tick PROVE GuardInv'
  <2>1. Guard!TypeOK'
    BY <1>15 DEF Guard!Tick, Guard!TypeOK, Guard!ConflictAssumption
  <2> QED  BY <1>15, <2>1 DEF Guard!Tick, LetThrough, HasSource, Solo, OnlyOne
<1> QED  BY <1>1, <1>2, <1>3, <1>4, <1>5, <1>6, <1>7, <1>8, <1>9, <1>10, <1>11, <1>12, <1>13, <1>14,
            <1>15 DEF Guard!Next

\* At first nobody has done anything.
LEMMA GuardBegins ==
  ASSUME Guard!ConflictAssumption, Guard!Init
  PROVE  GuardInv
<1>1. PICK f \in FirstCopies : here = f[1] /\ there = f[2]
  BY DEF Guard!Init
<1>2. f[1] \in Guard!FileStates /\ f[2] \in Guard!FileStates
  <2>1. 0 \in 0..MaxClock
    BY DEF Guard!ConflictAssumption
  <2>2. [content : Texts, mtime : {0}] \subseteq [content : Texts \cup {"torn"}, mtime : 0..MaxClock]
    BY <2>1
  <2>3. f[1] \in [content : Texts, mtime : {0}] \cup {Guard!NoFile}
        /\ f[2] \in [content : Texts, mtime : {0}] \cup {Guard!NoFile}
    BY <1>1 DEF Guard!ConflictAssumption
  <2> QED  BY <2>2, <2>3 DEF Guard!FileStates
<1>3. /\ clock = 0 /\ edits = 0 /\ seen = {"mine", "torn"} /\ alone = FALSE
      /\ baseline = Guard!NoFile /\ job = [j \in Jobs |-> Guard!NoJob]
  BY DEF Guard!Init
<1>4. Guard!TypeOK
  <2>1. job \in [Jobs -> GuardJob]
    BY <1>3, NoJobFields
  <2>2. clock \in 0..MaxClock /\ edits \in 0..MaxEdits /\ seen \subseteq Texts \cup {"torn"}
    BY <1>3 DEF Guard!ConflictAssumption
  <2> QED  BY <1>1, <1>2, <1>3, <2>1, <2>2 DEF Guard!TypeOK, GuardJob, Guard!FileStates
<1>5. \A j \in Jobs : job[j].at = "none" /\ job[j].kind = "none"
  BY <1>3, NoJobFields
<1> QED  BY <1>3, <1>4, <1>5 DEF GuardInv, LetThrough, HasSource, Solo

\* No variable of the guard changes when another part moves.
LEMMA GuardStands ==
  ASSUME GuardInv, UNCHANGED guardVars
  PROVE  GuardInv'
<1>1. UNCHANGED <<clock, here, there, baseline, job, edits, seen, alone>>
  BY DEF guardVars
<1> QED  BY <1>1 DEF GuardInv, Guard!TypeOK, LetThrough, HasSource, Solo, OnlyOne

\* An upload about to replace the file was let through.
LEMMA GuardMeans ==
  ASSUME GuardInv
  PROVE  Guard!NeverUnasked /\ Guard!NeverAskedForOwn
<1>1. Guard!NeverUnasked
  BY DEF GuardInv, LetThrough, Guard!NeverUnasked, Guard!Clobbers
<1>2. Guard!NeverAskedForOwn
  BY DEF GuardInv, Solo, OnlyOne, Guard!NeverAskedForOwn
<1> QED  BY <1>1, <1>2

-----------------------------------------------------------------------------
\* Another program's change of p is still to be heard of, or waits for its turn.
Waits(p) ==
  IF local[p] # 0
  THEN p \in uploadQueue \/ \E i \in DOMAIN changes :
         changes[i].path = p /\ changes[i].kind = "write" /\ ~ changes[i].own
  ELSE p \in deleteQueue \/ \E i \in DOMAIN changes :
         changes[i].path = p /\ changes[i].kind = "gone" /\ ~ changes[i].own

\* A handler under way will bring p to what is here.
Sends(o, p) ==
  /\ o.kind \in {"upload", "rename"} /\ o.to = p /\ local[p] # 0
  /\ o.at \in {"look", "move", "read"} \/ (o.at = "write" /\ o.got = local[p])
Clears(o, p) == o.kind \in {"remove", "rename"} /\ o.path = p /\ local[p] = 0

\* Each file the two sides differ in is being seen to.
Accounted(p) ==
  local[p] = remote[p] \/ Waits(p) \/ \E o \in ops : Sends(o, p) \/ Clears(o, p)

\* What a handler goes by is still so, or another change waits.
OpKnows(o) ==
  /\ o.kind \in {"rename", "remove"} => local[o.path] = 0 \/ Waits(o.path)
  /\ o.at = "write" => o.got # 0 /\ (o.got = local[o.to] \/ Waits(o.to))
  /\ o.kind = "rename" /\ o.at \in {"find", "unlink"} => remote[o.to] # 0
  /\ o.at = "store" => o.got = remote[o.path]

\* The stages a handler of each kind goes through, and the paths it is given.
OpShape(o) ==
  /\ o.kind = "upload" => o.path = o.to /\ o.at \in {"read", "write"}
  /\ o.kind = "remove" => o.path = o.to /\ o.at \in {"find", "unlink"}
  /\ o.kind = "rename" => o.path # o.to /\ o.at \in {"look", "move", "read", "write", "find", "unlink"}
  /\ o.kind = "download" => o.path = o.to /\ o.at \in {"fetch", "store"}

OnePerFile == \A o, n \in ops : o # n => Watch!Touches(o) \cap Watch!Touches(n) = {}

Core ==
  /\ OnePerFile
  /\ \A o \in ops : OpKnows(o)
  /\ \A p \in Paths : Accounted(p)

WatchInv ==
  /\ Watch!TypeOK /\ Watch!NothingStranded
  /\ moving # <<>> => moving[1] # moving[2]
  /\ \A o \in ops : OpShape(o)
  /\ excused \/ Core

-----------------------------------------------------------------------------
\* An event that is still to come says that p was written, or is gone.
Heard(p, kind) ==
  \E i \in DOMAIN changes :
    changes[i].path = p /\ changes[i].kind = kind /\ ~ changes[i].own

\* To wait is to be in a queue, or to be in an event that is still to come.
LEMMA WaitsIs ==
  ASSUME NEW p
  PROVE  Waits(p) <=> IF local[p] # 0 THEN p \in uploadQueue \/ Heard(p, "write")
                      ELSE p \in deleteQueue \/ Heard(p, "gone")
  BY DEF Waits, Heard

\* The same in the next state.
LEMMA WaitsWillBe ==
  ASSUME NEW p
  PROVE  Waits(p)' <=> IF local'[p] # 0 THEN p \in uploadQueue' \/ Heard(p, "write")'
                       ELSE p \in deleteQueue' \/ Heard(p, "gone")'
  BY DEF Waits, Heard

\* Events that follow change nothing in those that came before.
LEMMA HeardStill ==
  ASSUME changes \in Seq(Watch!Event), NEW e \in Watch!Event, changes' = Append(changes, e)
  PROVE  /\ \A p, kind : Heard(p, kind) => Heard(p, kind)'
         /\ ~ e.own => Heard(e.path, e.kind)'
<1>1. /\ Len(changes') = Len(changes) + 1 /\ Len(changes) \in Nat
      /\ \A i \in 1..Len(changes) : changes'[i] = changes[i]
      /\ changes'[Len(changes) + 1] = e
      /\ DOMAIN changes = 1..Len(changes) /\ DOMAIN changes' = 1..Len(changes')
  OBVIOUS
<1>2. ASSUME NEW p, NEW kind, Heard(p, kind) PROVE Heard(p, kind)'
  <2>1. PICK i \in 1..Len(changes) :
          changes[i].path = p /\ changes[i].kind = kind /\ ~ changes[i].own
    BY <1>1, <1>2 DEF Heard
  <2>2. i \in DOMAIN changes' /\ changes'[i] = changes[i]
    BY <1>1, <2>1
  <2> QED  BY <2>1, <2>2 DEF Heard
<1>3. Len(changes) + 1 \in DOMAIN changes'
  BY <1>1
<1> QED  BY <1>1, <1>2, <1>3 DEF Heard

\* The head of the events is the only one that a delivery takes.
LEMMA HeardNext ==
  ASSUME changes \in Seq(Watch!Event), changes # <<>>, changes' = Tail(changes)
  PROVE  \A p, kind : Heard(p, kind) =>
           \/ Heard(p, kind)'
           \/ Head(changes).path = p /\ Head(changes).kind = kind /\ ~ Head(changes).own
<1>1. /\ Len(changes') = Len(changes) - 1 /\ Len(changes) \in Nat \ {0}
      /\ \A i \in 1..Len(changes) : i # 1 => i - 1 \in 1..Len(changes') /\ changes'[i - 1] = changes[i]
      /\ changes[1] = Head(changes)
      /\ DOMAIN changes = 1..Len(changes) /\ DOMAIN changes' = 1..Len(changes')
  OBVIOUS
<1>2. SUFFICES ASSUME NEW p, NEW kind, Heard(p, kind), ~ Heard(p, kind)'
               PROVE  Head(changes).path = p /\ Head(changes).kind = kind /\ ~ Head(changes).own
  OBVIOUS
<1>3. PICK i \in 1..Len(changes) :
        changes[i].path = p /\ changes[i].kind = kind /\ ~ changes[i].own
  BY <1>1, <1>2 DEF Heard
<1>4. i = 1
  BY <1>1, <1>2, <1>3 DEF Heard
<1> QED  BY <1>1, <1>3, <1>4

\* What waits goes on waiting when nobody takes it.
LEMMA WaitsStill ==
  ASSUME NEW p, Waits(p), local'[p] = local[p],
         UNCHANGED <<uploadQueue, deleteQueue>>,
         \A q, kind : Heard(q, kind) => Heard(q, kind)'
  PROVE  Waits(p)'
  BY WaitsIs, WaitsWillBe

\* What is to be heard of stays so while no event comes or goes.
LEMMA HeardSame ==
  ASSUME UNCHANGED changes
  PROVE  \A p, kind : Heard(p, kind) => Heard(p, kind)'
  BY DEF Heard

-----------------------------------------------------------------------------
\* A handler under way is a record of that kind.
LEMMA OpFields ==
  ASSUME Watch!TypeOK, NEW o \in ops
  PROVE  /\ o \in Watch!Op /\ o.path \in Paths /\ o.to \in Paths
         /\ Watch!Touches(o) = {o.path, o.to}
  BY DEF Watch!TypeOK, Watch!Op, Watch!Touches

\* What a step of a handler does to the handlers: it is over, or goes on as m.
Ends(o) == ops' = ops \ {o}
GoesOn(o, m) ==
  /\ ops' = (ops \ {o}) \cup {m}
  /\ m \in Watch!Op /\ m.kind = o.kind /\ m.path = o.path /\ m.to = o.to
  /\ Watch!Touches(m) = Watch!Touches(o)

\* Nothing changes for the files that the handler is not about.
LEMMA OthersKnow ==
  ASSUME Watch!TypeOK, Core, NEW o \in ops,
         Ends(o) \/ \E m : GoesOn(o, m) /\ OpKnows(m)',
         \A p \in Paths : p \notin Watch!Touches(o) =>
           local'[p] = local[p] /\ remote'[p] = remote[p] /\ (Waits(p) => Waits(p)'),
         Accounted(o.path)', Accounted(o.to)'
  PROVE  Core'
<1>1. \A n \in ops \ {o} : Watch!Touches(n) \cap Watch!Touches(o) = {}
  BY DEF Core, OnePerFile
<1>2. OnePerFile'
  <2> SUFFICES ASSUME NEW n1 \in ops', NEW n2 \in ops', n1 # n2
               PROVE  Watch!Touches(n1) \cap Watch!Touches(n2) = {}
    BY DEF OnePerFile, Watch!Touches
  <2> QED  BY <1>1 DEF Core, OnePerFile, Ends, GoesOn
<1>3. ASSUME NEW n \in ops' PROVE OpKnows(n)'
  <2>1. CASE n \in ops /\ n # o
    <3>1. OpKnows(n) /\ n.path \in Paths /\ n.to \in Paths
      BY <2>1, OpFields DEF Core
    <3>2. n.path \notin Watch!Touches(o) /\ n.to \notin Watch!Touches(o)
      BY <1>1, <2>1, OpFields
    <3> QED  BY <3>1, <3>2 DEF OpKnows
  <2>2. CASE ~ (n \in ops /\ n # o)
    BY <2>2 DEF Ends, GoesOn
  <2> QED  BY <2>1, <2>2
<1>4. ASSUME NEW p \in Paths PROVE Accounted(p)'
  <2>1. CASE p \in Watch!Touches(o)
    BY <2>1, OpFields
  <2>2. CASE p \notin Watch!Touches(o)
    <3>1. CASE local[p] = remote[p] \/ Waits(p)
      BY <2>2, <3>1 DEF Accounted
    <3>2. CASE \E n \in ops : Sends(n, p) \/ Clears(n, p)
      <4>1. PICK n \in ops : Sends(n, p) \/ Clears(n, p)
        BY <3>2
      <4>2. n # o
        BY <2>2, <4>1, OpFields DEF Sends, Clears
      <4>3. n \in ops' /\ (Sends(n, p)' \/ Clears(n, p)')
        BY <2>2, <4>1, <4>2 DEF Sends, Clears, Ends, GoesOn
      <4> QED  BY <4>3 DEF Accounted
    <3> QED  BY <3>1, <3>2 DEF Core, Accounted
  <2> QED  BY <2>1, <2>2
<1> QED  BY <1>2, <1>3, <1>4 DEF Core

\* Handlers have begun on files that none had.
LEMMA OthersBegin ==
  ASSUME Watch!TypeOK, Core, NEW new, NEW cost \in BOOLEAN, Watch!Begin(new, cost), ~ excused',
         \A n1, n2 \in new : n1 # n2 => Watch!Touches(n1) \cap Watch!Touches(n2) = {},
         \A n \in new : OpKnows(n)',
         \A p \in Paths : (\A n \in new : p \notin Watch!Touches(n)) =>
           local'[p] = local[p] /\ remote'[p] = remote[p] /\ (Waits(p) => Waits(p)'),
         \A n \in new : Accounted(n.path)' /\ Accounted(n.to)'
  PROVE  Core'
<1>1. /\ ops' = ops \cup new
      /\ \A n \in new, o \in ops : Watch!Touches(n) \cap Watch!Touches(o) = {}
  BY DEF Watch!Begin
<1>2. OnePerFile'
  <2> SUFFICES ASSUME NEW n1 \in ops', NEW n2 \in ops', n1 # n2
               PROVE  Watch!Touches(n1) \cap Watch!Touches(n2) = {}
    BY DEF OnePerFile, Watch!Touches
  <2> QED  BY <1>1 DEF Core, OnePerFile
<1>3. ASSUME NEW n \in ops' PROVE OpKnows(n)'
  <2>1. CASE n \in ops
    <3>1. OpKnows(n) /\ n.path \in Paths /\ n.to \in Paths
      BY <2>1, OpFields DEF Core
    <3>2. \A m \in new : n.path \notin Watch!Touches(m) /\ n.to \notin Watch!Touches(m)
      BY <1>1, <2>1, OpFields
    <3> QED  BY <3>1, <3>2 DEF OpKnows
  <2>2. CASE n \notin ops
    BY <1>1, <2>2
  <2> QED  BY <2>1, <2>2
<1>4. ASSUME NEW p \in Paths PROVE Accounted(p)'
  <2>1. CASE \E n \in new : p \in Watch!Touches(n)
    BY <2>1 DEF Watch!Touches
  <2>2. CASE \A n \in new : p \notin Watch!Touches(n)
    <3>1. CASE local[p] = remote[p] \/ Waits(p)
      BY <2>2, <3>1 DEF Accounted
    <3>2. CASE \E n \in ops : Sends(n, p) \/ Clears(n, p)
      <4>1. PICK n \in ops : Sends(n, p) \/ Clears(n, p)
        BY <3>2
      <4>2. n \in ops' /\ (Sends(n, p)' \/ Clears(n, p)')
        BY <1>1, <2>2, <4>1 DEF Sends, Clears
      <4> QED  BY <4>2 DEF Accounted
    <3> QED  BY <3>1, <3>2 DEF Core, Accounted
  <2> QED  BY <2>1, <2>2
<1> QED  BY <1>2, <1>3, <1>4 DEF Core

\* Somebody has changed a file here, and an event says so.
LEMMA OthersChange ==
  ASSUME Watch!TypeOK, Core, UNCHANGED <<remote, ops>>,
         \A p \in Paths : Waits(p)' \/ (local'[p] = local[p] /\ (Waits(p) => Waits(p)'))
  PROVE  Core'
<1>1. OnePerFile'
  BY DEF Core, OnePerFile, Watch!Touches
<1>2. ASSUME NEW n \in ops' PROVE OpKnows(n)'
  <2>1. OpKnows(n) /\ n.path \in Paths /\ n.to \in Paths
    BY OpFields DEF Core
  <2> QED  BY <2>1 DEF OpKnows
<1>3. ASSUME NEW p \in Paths PROVE Accounted(p)'
  <2>1. CASE Waits(p)'
    BY <2>1 DEF Accounted
  <2>2. CASE ~ Waits(p)' /\ (\E n \in ops : Sends(n, p) \/ Clears(n, p))
    <3>1. PICK n \in ops : Sends(n, p) \/ Clears(n, p)
      BY <2>2
    <3>2. n \in ops' /\ (Sends(n, p)' \/ Clears(n, p)')
      BY <2>2, <3>1 DEF Sends, Clears
    <3> QED  BY <3>2 DEF Accounted
  <2>3. CASE ~ Waits(p)' /\ ~ (\E n \in ops : Sends(n, p) \/ Clears(n, p))
    BY <2>3 DEF Core, Accounted
  <2> QED  BY <2>1, <2>2, <2>3
<1> QED  BY <1>1, <1>2, <1>3 DEF Core

-----------------------------------------------------------------------------
\* The record of a handler that goes on.
LEMMA OpGoes ==
  ASSUME NEW o \in Watch!Op,
         NEW at \in {"look", "move", "read", "write", "find", "unlink", "fetch", "store"}
  PROVE  LET m == [o EXCEPT !.at = at] IN
         /\ m \in Watch!Op /\ m.kind = o.kind /\ m.path = o.path /\ m.to = o.to
         /\ m.at = at /\ m.got = o.got /\ Watch!Touches(m) = Watch!Touches(o)
  BY DEF Watch!Op, Watch!Touches

\* A handler that goes on is the same but for its stage.
LEMMA GoesIs ==
  ASSUME Watch!TypeOK, NEW o \in ops,
         NEW at \in {"look", "move", "read", "write", "find", "unlink", "fetch", "store"},
         Watch!Goes(o, at)
  PROVE  \E m : GoesOn(o, m) /\ m.at = at /\ m.got = o.got
<1> DEFINE m == [o EXCEPT !.at = at]
<1>1. ops' = (ops \ {o}) \cup {m} /\ o \in Watch!Op
  BY OpFields DEF Watch!Goes
<1>2. /\ m \in Watch!Op /\ m.kind = o.kind /\ m.path = o.path /\ m.to = o.to
      /\ m.at = at /\ m.got = o.got /\ Watch!Touches(m) = Watch!Touches(o)
  BY <1>1, OpGoes
<1> HIDE DEF m
<1> QED  BY <1>1, <1>2 DEF GoesOn

\* A handler that is over is gone, and so are its claims.
LEMMA OverIs ==
  ASSUME Watch!TypeOK, NEW o, Watch!Over(o)
  PROVE  Ends(o) /\ suppressed' \subseteq suppressed
  BY DEF Watch!Over, Ends

\* What a step of a handler leaves to be shown.
LEMMA HandlerStep ==
  ASSUME Watch!TypeOK, Watch!NothingStranded, NEW o \in ops,
         Ends(o) \/ \E m : GoesOn(o, m) /\ OpShape(m),
         moving # <<>> => moving[1] # moving[2], \A n \in ops : OpShape(n),
         local' \in [Paths -> Watch!Versions], remote' \in [Paths -> Watch!Versions],
         changes' \in Seq(Watch!Event), suppressed' \subseteq suppressed, excused' \in BOOLEAN,
         missed' \subseteq Paths,
         UNCHANGED <<uploadQueue, deleteQueue, uploadTimer, deleteTimer, moving, acts, left>>,
         excused' \/ Core'
  PROVE  WatchInv'
<1>1. ops' \subseteq Watch!Op
  BY DEF Watch!TypeOK, Ends, GoesOn
<1>2. Watch!TypeOK'
  BY <1>1 DEF Watch!TypeOK
<1>3. Watch!NothingStranded'
  BY DEF Watch!NothingStranded
<1>4. \A n \in ops' : OpShape(n)'
  BY DEF OpShape, Ends, GoesOn
<1> QED  BY <1>2, <1>3, <1>4 DEF WatchInv

\* What a function is when two of its values have changed.
LEMMA TwoPlaces ==
  ASSUME NEW S, NEW T, NEW f \in [S -> T], NEW a \in S, NEW b \in S, a # b,
         NEW v \in T, NEW w \in T, NEW g, g = [f EXCEPT ![b] = v, ![a] = w]
  PROVE  /\ g \in [S -> T] /\ g[a] = w /\ g[b] = v
         /\ \A p \in S : p # a /\ p # b => g[p] = f[p]
OBVIOUS

\* One step per step of a handler: the file it is about is accounted for afterwards.
LEMMA HandlersStep ==
  ASSUME Watch!WatcherAssumption, WatchInv, NEW o \in ops, Watch!Step(o)
  PROVE  WatchInv'
<1> USE DEF WatchInv
<1>0. /\ o \in Watch!Op /\ o.path \in Paths /\ o.to \in Paths
      /\ Watch!Touches(o) = {o.path, o.to} /\ OpShape(o)
      /\ local \in [Paths -> Watch!Versions] /\ remote \in [Paths -> Watch!Versions]
      /\ changes \in Seq(Watch!Event) /\ excused \in BOOLEAN /\ missed' \subseteq Paths
      /\ Core => Accounted(o.path) /\ Accounted(o.to) /\ OpKnows(o)
  <2>1. /\ o \in Watch!Op /\ o.path \in Paths /\ o.to \in Paths
        /\ Watch!Touches(o) = {o.path, o.to} /\ OpShape(o)
        /\ local \in [Paths -> Watch!Versions] /\ remote \in [Paths -> Watch!Versions]
        /\ changes \in Seq(Watch!Event) /\ excused \in BOOLEAN /\ missed \subseteq Paths
        /\ Core => Accounted(o.path) /\ Accounted(o.to) /\ OpKnows(o)
    BY OpFields DEF Watch!TypeOK, Core
  <2>2. missed' = missed \/ missed' = missed \cup {o.to} \/ missed' = missed \cup {o.path}
    BY DEF Watch!Step, Watch!Read, Watch!Write, Watch!NotSent, Watch!Find, Watch!Unlink, Watch!Look,
           Watch!Move, Watch!MoveFails, Watch!Fetch, Watch!Store, Watch!counts
  <2> QED  BY <2>1, <2>2
<1>1. ASSUME Watch!Read(o) PROVE WatchInv'
  <2>1. /\ o.at = "read" /\ UNCHANGED <<local, remote, changes, uploadQueue, deleteQueue, uploadTimer,
                                       deleteTimer, moving, acts, left>>
        /\ excused' = (excused \/ (o.kind = "rename" /\ local[o.to] = 0))
    BY <1>1 DEF Watch!Read, Watch!disk, Watch!queues, Watch!counts
  <2>2. \A p : Waits(p) => Waits(p)'
    BY <2>1, WaitsStill, HeardSame
  <2>3. CASE local[o.to] = 0
    <3>1. Ends(o) /\ suppressed' \subseteq suppressed
      BY <1>1, <2>3, OverIs DEF Watch!Read
    <3>2. ASSUME ~ excused' PROVE Core'
      <4>1. o.kind = "upload" /\ o.path = o.to /\ Core
        BY <1>0, <2>1, <2>3, <3>2 DEF OpShape, Watch!Op
      <4>2. Accounted(o.to)'
        BY <1>0, <2>1, <2>2, <2>3, <3>1, <4>1 DEF Accounted, Ends, Sends, Clears
      <4> QED  BY <1>0, <2>1, <2>2, <3>1, <4>1, <4>2, OthersKnow
    <3> QED  BY <1>0, <2>1, <3>1, <3>2, HandlerStep
  <2>4. CASE local[o.to] # 0
    <3>1. PICK m : GoesOn(o, m) /\ m.at = "write" /\ m.got = local[o.to]
      <4>1. PICK m : m = [o EXCEPT !.at = "write", !.got = local[o.to]] /\ ops' = (ops \ {o}) \cup {m}
        BY <1>1, <2>4 DEF Watch!Read
      <4>2. local[o.to] \in Watch!Versions
        BY <1>0
      <4>3. /\ m \in Watch!Op /\ m.kind = o.kind /\ m.path = o.path /\ m.to = o.to
            /\ m.at = "write" /\ m.got = local[o.to] /\ Watch!Touches(m) = Watch!Touches(o)
        BY <1>0, <4>1, <4>2 DEF Watch!Op, Watch!Touches
      <4> QED  BY <4>1, <4>3 DEF GoesOn
    <3>2. suppressed' = suppressed
      BY <1>1, <2>4 DEF Watch!Read
    <3>3. ASSUME ~ excused' PROVE Core'
      <4>1. Core
        BY <2>1, <3>3
      <4>2. OpKnows(m)'
        BY <1>0, <2>1, <2>2, <2>4, <3>1, <4>1 DEF OpKnows, GoesOn
      <4>3. Accounted(o.to)' /\ Accounted(o.path)'
        BY <1>0, <2>1, <2>2, <2>4, <3>1, <4>1 DEF Accounted, GoesOn, Sends, Clears
      <4> QED  BY <1>0, <2>1, <2>2, <3>1, <4>1, <4>2, <4>3, OthersKnow
    <3>4. OpShape(m)
      BY <1>0, <2>1, <3>1 DEF OpShape, GoesOn
    <3> QED  BY <1>0, <2>1, <3>1, <3>2, <3>3, <3>4, HandlerStep
  <2> QED  BY <2>3, <2>4
<1>2. ASSUME Watch!Write(o) PROVE WatchInv'
  <2>1. /\ o.at = "write" /\ UNCHANGED <<local, changes, uploadQueue, deleteQueue, uploadTimer,
                                        deleteTimer, moving, acts, left, excused>>
        /\ remote' = [remote EXCEPT ![o.to] = o.got] /\ Watch!AfterUpload(o)
    BY <1>2 DEF Watch!Write, Watch!disk, Watch!queues, Watch!counts
  <2>2. \A p : Waits(p) => Waits(p)'
    BY <2>1, WaitsStill, HeardSame
  <2>3. /\ remote' \in [Paths -> Watch!Versions] /\ remote'[o.to] = o.got
        /\ \A p \in Paths : p # o.to => remote'[p] = remote[p]
    BY <1>0, <2>1 DEF Watch!Op
  <2>4. Core => Accounted(o.to)'
    BY <1>0, <2>1, <2>2, <2>3 DEF OpKnows, Accounted
  <2>5. CASE o.kind # "rename"
    <3>1. Ends(o) /\ suppressed' \subseteq suppressed
      BY <2>1, <2>5, OverIs DEF Watch!AfterUpload
    <3>2. o.path = o.to
      BY <1>0, <2>1, <2>5 DEF OpShape, Watch!Op
    <3>3. ASSUME ~ excused' PROVE Core'
      BY <1>0, <2>1, <2>2, <2>3, <2>4, <3>1, <3>2, <3>3, OthersKnow
    <3> QED  BY <1>0, <2>1, <2>3, <3>1, <3>3, HandlerStep
  <2>6. CASE o.kind = "rename"
    <3>1. PICK m : GoesOn(o, m) /\ m.at = "find" /\ m.got = o.got
      BY <2>1, <2>6, GoesIs DEF Watch!AfterUpload
    <3>2. suppressed' = suppressed
      BY <2>1, <2>6 DEF Watch!AfterUpload, Watch!Goes
    <3>3. o.path # o.to
      BY <1>0, <2>6 DEF OpShape
    <3>4. ASSUME ~ excused' PROVE Core'
      <4>1. OpKnows(m)'
        BY <1>0, <2>1, <2>2, <2>3, <3>1, <3>4 DEF OpKnows, GoesOn
      <4>2. Accounted(o.path)'
        BY <1>0, <2>1, <2>2, <2>3, <3>1, <3>3, <3>4 DEF Accounted, GoesOn, Sends, Clears
      <4> QED  BY <1>0, <2>1, <2>2, <2>3, <2>4, <3>1, <3>4, <4>1, <4>2, OthersKnow
    <3>5. OpShape(m)
      BY <1>0, <2>6, <3>1 DEF OpShape, GoesOn
    <3> QED  BY <1>0, <2>1, <2>3, <3>1, <3>2, <3>4, <3>5, HandlerStep
  <2> QED  BY <2>5, <2>6
<1>3. ASSUME Watch!NotSent(o) PROVE WatchInv'
  <2>1. /\ o.at = "write" /\ UNCHANGED <<local, remote, changes, uploadQueue, deleteQueue, uploadTimer,
                                        deleteTimer, moving, acts, left>>
        /\ excused' = TRUE /\ Watch!AfterUpload(o)
    BY <1>3 DEF Watch!NotSent, Watch!disk, Watch!queues, Watch!counts
  <2>2. CASE o.kind # "rename"
    <3>1. Ends(o) /\ suppressed' \subseteq suppressed
      BY <2>1, <2>2, OverIs DEF Watch!AfterUpload
    <3> QED  BY <1>0, <2>1, <3>1, HandlerStep
  <2>3. CASE o.kind = "rename"
    <3>1. PICK m : GoesOn(o, m) /\ m.at = "find"
      BY <2>1, <2>3, GoesIs DEF Watch!AfterUpload
    <3>2. suppressed' = suppressed
      BY <2>1, <2>3 DEF Watch!AfterUpload, Watch!Goes
    <3>3. OpShape(m)
      BY <1>0, <2>3, <3>1 DEF OpShape, GoesOn
    <3> QED  BY <1>0, <2>1, <3>1, <3>2, <3>3, HandlerStep
  <2> QED  BY <2>2, <2>3
<1>4. ASSUME Watch!Find(o) PROVE WatchInv'
  <2>1. /\ o.at = "find" /\ UNCHANGED <<local, remote, changes, uploadQueue, deleteQueue, uploadTimer,
                                       deleteTimer, moving, acts, left, excused>>
    BY <1>4 DEF Watch!Find, Watch!disk, Watch!queues, Watch!counts
  <2>2. \A p : Waits(p) => Waits(p)'
    BY <2>1, WaitsStill, HeardSame
  <2>3. CASE remote[o.path] = 0
    <3>1. Ends(o) /\ suppressed' \subseteq suppressed
      BY <1>4, <2>3, OverIs DEF Watch!Find
    <3>2. ASSUME ~ excused' PROVE Core'
      <4>1. Accounted(o.to)' /\ Accounted(o.path)'
        BY <1>0, <2>1, <2>2, <2>3, <3>1, <3>2 DEF Accounted, Ends, Sends, Clears
      <4> QED  BY <1>0, <2>1, <2>2, <3>1, <3>2, <4>1, OthersKnow
    <3> QED  BY <1>0, <2>1, <3>1, <3>2, HandlerStep
  <2>4. CASE remote[o.path] # 0
    <3>1. PICK m : GoesOn(o, m) /\ m.at = "unlink" /\ m.got = o.got
      BY <1>4, <2>4, GoesIs DEF Watch!Find
    <3>2. suppressed' = suppressed
      BY <1>4, <2>4 DEF Watch!Find, Watch!Goes
    <3>3. ASSUME ~ excused' PROVE Core'
      <4>1. OpKnows(m)'
        BY <1>0, <2>1, <2>2, <3>1, <3>3 DEF OpKnows, GoesOn
      <4>2. Accounted(o.to)' /\ Accounted(o.path)'
        BY <1>0, <2>1, <2>2, <3>1, <3>3 DEF Accounted, GoesOn, Sends, Clears
      <4> QED  BY <1>0, <2>1, <2>2, <3>1, <3>3, <4>1, <4>2, OthersKnow
    <3>4. OpShape(m)
      BY <1>0, <2>1, <3>1 DEF OpShape, GoesOn, Watch!Op
    <3> QED  BY <1>0, <2>1, <3>1, <3>2, <3>3, <3>4, HandlerStep
  <2> QED  BY <2>3, <2>4
<1>5. ASSUME Watch!Unlink(o) PROVE WatchInv'
  <2>1. /\ o.at = "unlink" /\ UNCHANGED <<local, changes, uploadQueue, deleteQueue, uploadTimer,
                                         deleteTimer, moving, acts, left, excused>>
        /\ remote' = [remote EXCEPT ![o.path] = 0] /\ Watch!Over(o)
    BY <1>5 DEF Watch!Unlink, Watch!disk, Watch!queues, Watch!counts
  <2>2. \A p : Waits(p) => Waits(p)'
    BY <2>1, WaitsStill, HeardSame
  <2>3. /\ remote' \in [Paths -> Watch!Versions] /\ remote'[o.path] = 0
        /\ \A p \in Paths : p # o.path => remote'[p] = remote[p]
    BY <1>0, <2>1 DEF Watch!Versions, Watch!WatcherAssumption
  <2>4. Ends(o) /\ suppressed' \subseteq suppressed
    BY <2>1, OverIs
  <2>5. ASSUME ~ excused' PROVE Core'
    <3>1. Accounted(o.path)'
      BY <1>0, <2>1, <2>2, <2>3, <2>5 DEF OpKnows, OpShape, Accounted, Watch!Op
    <3>2. Accounted(o.to)'
      BY <1>0, <2>1, <2>2, <2>3, <2>4, <2>5, <3>1 DEF Accounted, Ends, Sends, Clears
    <3> QED  BY <1>0, <2>1, <2>2, <2>3, <2>4, <2>5, <3>1, <3>2, OthersKnow
  <2> QED  BY <1>0, <2>1, <2>3, <2>4, <2>5, HandlerStep
<1>6. ASSUME Watch!Look(o) PROVE WatchInv'
  <2>1. /\ o.at = "look" /\ UNCHANGED <<local, remote, changes, uploadQueue, deleteQueue, uploadTimer,
                                       deleteTimer, moving, acts, left, excused>>
    BY <1>6 DEF Watch!Look, Watch!disk, Watch!queues, Watch!counts
  <2>2. \A p : Waits(p) => Waits(p)'
    BY <2>1, WaitsStill, HeardSame
  <2>3. PICK at \in {"move", "read"} : Watch!Goes(o, at)
    BY <1>6 DEF Watch!Look, Watch!Fallback
  <2>4. PICK m : GoesOn(o, m) /\ m.at = at /\ m.got = o.got
    BY <2>3, GoesIs
  <2>5. suppressed' = suppressed /\ o.kind = "rename" /\ OpShape(m)
    BY <1>0, <2>1, <2>3, <2>4 DEF Watch!Goes, OpShape, GoesOn, Watch!Op
  <2>6. ASSUME ~ excused' PROVE Core'
    <3>1. OpKnows(m)'
      BY <1>0, <2>1, <2>2, <2>4, <2>5, <2>6 DEF OpKnows, GoesOn
    <3>2. Accounted(o.to)' /\ Accounted(o.path)'
      BY <1>0, <2>1, <2>2, <2>4, <2>5, <2>6 DEF Accounted, GoesOn, Sends, Clears
    <3> QED  BY <1>0, <2>1, <2>2, <2>4, <2>6, <3>1, <3>2, OthersKnow
  <2> QED  BY <1>0, <2>1, <2>4, <2>5, <2>6, HandlerStep
<1>7. ASSUME Watch!Move(o) PROVE WatchInv'
  <2>1. /\ o.at = "move" /\ UNCHANGED <<local, changes, uploadQueue, deleteQueue, uploadTimer,
                                       deleteTimer, moving, acts, left>>
        /\ remote' = [remote EXCEPT ![o.to] = remote[o.path], ![o.path] = 0]
        /\ excused' = (excused \/ remote[o.path] # local[o.to]) /\ Watch!Over(o)
    BY <1>7 DEF Watch!Move, Watch!disk, Watch!queues, Watch!counts
  <2>2. \A p : Waits(p) => Waits(p)'
    BY <2>1, WaitsStill, HeardSame
  <2>3. o.kind = "rename" /\ o.path # o.to
    BY <1>0, <2>1 DEF OpShape, Watch!Op
  <2>4. /\ remote' \in [Paths -> Watch!Versions] /\ remote'[o.path] = 0
        /\ remote'[o.to] = remote[o.path]
        /\ \A p \in Paths : p # o.path /\ p # o.to => remote'[p] = remote[p]
    <3>1. /\ remote \in [Paths -> Watch!Versions] /\ o.path \in Paths /\ o.to \in Paths
          /\ remote[o.path] \in Watch!Versions /\ 0 \in Watch!Versions
      BY <1>0, <2>3 DEF Watch!Versions, Watch!WatcherAssumption
    <3> QED  BY <2>1, <2>3, <3>1, TwoPlaces
  <2>5. Ends(o) /\ suppressed' \subseteq suppressed
    BY <2>1, OverIs
  <2>6. ASSUME ~ excused' PROVE Core'
    <3>1. Accounted(o.path)'
      BY <1>0, <2>1, <2>2, <2>3, <2>4, <2>6 DEF OpKnows, Accounted
    <3>2. Accounted(o.to)'
      BY <2>1, <2>4, <2>6 DEF Accounted
    <3> QED  BY <1>0, <2>1, <2>2, <2>4, <2>5, <2>6, <3>1, <3>2, OthersKnow
  <2> QED  BY <1>0, <2>1, <2>4, <2>5, <2>6, HandlerStep
<1>8. ASSUME Watch!MoveFails(o) PROVE WatchInv'
  <2>1. /\ o.at = "move" /\ UNCHANGED <<local, remote, changes, uploadQueue, deleteQueue, uploadTimer,
                                       deleteTimer, moving, acts, left, excused>>
    BY <1>8 DEF Watch!MoveFails, Watch!disk, Watch!queues, Watch!counts
  <2>2. \A p : Waits(p) => Waits(p)'
    BY <2>1, WaitsStill, HeardSame
  <2>3. PICK at \in {"move", "read"} : Watch!Goes(o, at)
    BY <1>8 DEF Watch!MoveFails, Watch!Fallback
  <2>4. PICK m : GoesOn(o, m) /\ m.at = at /\ m.got = o.got
    BY <2>3, GoesIs
  <2>5. suppressed' = suppressed /\ o.kind = "rename" /\ OpShape(m)
    BY <1>0, <2>1, <2>3, <2>4 DEF Watch!Goes, OpShape, GoesOn, Watch!Op
  <2>6. ASSUME ~ excused' PROVE Core'
    <3>1. OpKnows(m)'
      BY <1>0, <2>1, <2>2, <2>4, <2>5, <2>6 DEF OpKnows, GoesOn
    <3>2. Accounted(o.to)' /\ Accounted(o.path)'
      BY <1>0, <2>1, <2>2, <2>4, <2>5, <2>6 DEF Accounted, GoesOn, Sends, Clears
    <3> QED  BY <1>0, <2>1, <2>2, <2>4, <2>6, <3>1, <3>2, OthersKnow
  <2> QED  BY <1>0, <2>1, <2>4, <2>5, <2>6, HandlerStep
<1>9. ASSUME Watch!Fetch(o) PROVE WatchInv'
  <2>1. /\ o.at = "fetch" /\ UNCHANGED <<local, remote, changes, uploadQueue, deleteQueue, uploadTimer,
                                        deleteTimer, moving, acts, left, excused>>
    BY <1>9 DEF Watch!Fetch, Watch!disk, Watch!queues, Watch!counts
  <2>2. \A p : Waits(p) => Waits(p)'
    BY <2>1, WaitsStill, HeardSame
  <2>3. o.kind = "download" /\ o.path = o.to
    BY <1>0, <2>1 DEF OpShape, Watch!Op
  <2>4. CASE remote[o.path] = 0
    <3>1. Ends(o) /\ suppressed' \subseteq suppressed
      BY <1>9, <2>4, OverIs DEF Watch!Fetch
    <3>2. ASSUME ~ excused' PROVE Core'
      <4>1. Accounted(o.to)' /\ Accounted(o.path)'
        BY <1>0, <2>1, <2>2, <2>3, <3>1, <3>2 DEF Accounted, Ends, Sends, Clears
      <4> QED  BY <1>0, <2>1, <2>2, <3>1, <3>2, <4>1, OthersKnow
    <3> QED  BY <1>0, <2>1, <3>1, <3>2, HandlerStep
  <2>5. CASE remote[o.path] # 0
    <3>1. PICK m : GoesOn(o, m) /\ m.at = "store" /\ m.got = remote[o.path]
      <4>1. PICK m : m = [o EXCEPT !.at = "store", !.got = remote[o.path]] /\ ops' = (ops \ {o}) \cup {m}
        BY <1>9, <2>5 DEF Watch!Fetch
      <4>2. remote[o.path] \in Watch!Versions
        BY <1>0
      <4>3. /\ m \in Watch!Op /\ m.kind = o.kind /\ m.path = o.path /\ m.to = o.to
            /\ m.at = "store" /\ m.got = remote[o.path] /\ Watch!Touches(m) = Watch!Touches(o)
        BY <1>0, <4>1, <4>2 DEF Watch!Op, Watch!Touches
      <4> QED  BY <4>1, <4>3 DEF GoesOn
    <3>2. suppressed' = suppressed
      BY <1>9, <2>5 DEF Watch!Fetch
    <3>3. ASSUME ~ excused' PROVE Core'
      <4>1. OpKnows(m)'
        BY <1>0, <2>1, <2>2, <2>3, <3>1, <3>3 DEF OpKnows, GoesOn
      <4>2. Accounted(o.to)' /\ Accounted(o.path)'
        BY <1>0, <2>1, <2>2, <2>3, <3>1, <3>3 DEF Accounted, GoesOn, Sends, Clears
      <4> QED  BY <1>0, <2>1, <2>2, <3>1, <3>3, <4>1, <4>2, OthersKnow
    <3>4. OpShape(m)
      BY <1>0, <2>3, <3>1 DEF OpShape, GoesOn
    <3> QED  BY <1>0, <2>1, <3>1, <3>2, <3>3, <3>4, HandlerStep
  <2> QED  BY <2>4, <2>5
<1>10. ASSUME Watch!Store(o) PROVE WatchInv'
  <2> DEFINE e == [kind |-> "write", path |-> o.path, own |-> TRUE]
  <2>1. /\ o.at = "store" /\ UNCHANGED <<remote, uploadQueue, deleteQueue, uploadTimer, deleteTimer,
                                        moving, acts, left, excused>>
        /\ local' = [local EXCEPT ![o.path] = o.got] /\ changes' = Append(changes, e) /\ Watch!Over(o)
    BY <1>10 DEF Watch!Store, Watch!queues, Watch!counts
  <2>2. e \in Watch!Event
    BY <1>0 DEF Watch!Event
  <2> HIDE DEF e
  <2>3. changes' \in Seq(Watch!Event) /\ \A p, kind : Heard(p, kind) => Heard(p, kind)'
    BY <1>0, <2>1, <2>2, HeardStill
  <2>4. o.kind = "download" /\ o.path = o.to
    BY <1>0, <2>1 DEF OpShape, Watch!Op
  <2>5. /\ local' \in [Paths -> Watch!Versions] /\ local'[o.path] = o.got
        /\ \A p \in Paths : p # o.path => local'[p] = local[p]
    BY <1>0, <2>1 DEF Watch!Op
  <2>6. \A p \in Paths : p # o.path => (Waits(p) => Waits(p)')
    BY <2>1, <2>3, <2>5, WaitsStill
  <2>7. Ends(o) /\ suppressed' \subseteq suppressed
    BY <2>1, OverIs
  <2>8. ASSUME ~ excused' PROVE Core'
    <3>1. Accounted(o.path)'
      BY <1>0, <2>1, <2>5, <2>8 DEF OpKnows, Accounted
    <3> QED  BY <1>0, <2>1, <2>4, <2>5, <2>6, <2>7, <2>8, <3>1, OthersKnow
  <2> QED  BY <1>0, <2>1, <2>3, <2>5, <2>7, <2>8, HandlerStep
<1> QED  BY <1>1, <1>2, <1>3, <1>4, <1>5, <1>6, <1>7, <1>8, <1>9, <1>10 DEF Watch!Step

-----------------------------------------------------------------------------
\* What the other steps leave to be shown.
LEMMA WatchStep ==
  ASSUME Watch!TypeOK, \A n \in ops : OpShape(n),
         \A n \in ops' : n \in ops \/ (n \in Watch!Op /\ OpShape(n)),
         local' \in [Paths -> Watch!Versions], remote' = remote, changes' \in Seq(Watch!Event),
         suppressed' \subseteq Paths, uploadQueue' \subseteq Paths, deleteQueue' \subseteq Paths,
         uploadTimer' \in Watch!Timer, deleteTimer' \in Watch!Timer, Watch!NothingStranded',
         moving' \in {<<>>} \cup Paths \X Paths, moving' # <<>> => moving'[1] # moving'[2],
         acts' \in 0..MaxActs, left' \subseteq Commands, excused' \in BOOLEAN,
         missed' \subseteq Paths, excused' \/ Core'
  PROVE  WatchInv'
<1>1. ops' \subseteq Watch!Op
  BY DEF Watch!TypeOK
<1>2. Watch!TypeOK'
  BY <1>1 DEF Watch!TypeOK
<1>3. \A n \in ops' : OpShape(n)'
  BY DEF OpShape
<1> QED  BY <1>2, <1>3 DEF WatchInv

\* The handlers that the debounced functions begin.
LEMMA NewOpIs ==
  ASSUME Watch!WatcherAssumption, NEW p \in Paths, NEW q \in Paths,
         NEW kind \in {"upload", "remove", "rename", "download"},
         NEW at \in {"look", "read", "find", "fetch"}
  PROVE  LET n == Watch!NewOp(kind, p, q, at) IN
         /\ n \in Watch!Op /\ n.kind = kind /\ n.path = p /\ n.to = q /\ n.at = at
         /\ Watch!Touches(n) = {p, q}
  BY DEF Watch!NewOp, Watch!Op, Watch!Touches, Watch!Versions, Watch!WatcherAssumption

\* One upload for each file of a queue.
LEMMA UploadsAre ==
  ASSUME Watch!WatcherAssumption, NEW Q, Q \subseteq Paths
  PROVE  /\ \A n \in Watch!Uploads(Q) :
              /\ n \in Watch!Op /\ n.kind = "upload" /\ n.path = n.to /\ n.path \in Q
              /\ n.at = "read" /\ Watch!Touches(n) = {n.path} /\ OpShape(n)
         /\ \A n1, n2 \in Watch!Uploads(Q) : n1 # n2 => n1.path # n2.path
         /\ \A p \in Q : \E n \in Watch!Uploads(Q) : n.path = p
<1>1. \A p \in Q : /\ Watch!NewOp("upload", p, p, "read") \in Watch!Op
                   /\ Watch!NewOp("upload", p, p, "read").kind = "upload"
                   /\ Watch!NewOp("upload", p, p, "read").path = p
                   /\ Watch!NewOp("upload", p, p, "read").to = p
                   /\ Watch!NewOp("upload", p, p, "read").at = "read"
                   /\ Watch!Touches(Watch!NewOp("upload", p, p, "read")) = {p}
  BY DEF Watch!NewOp, Watch!Op, Watch!Touches, Watch!Versions, Watch!WatcherAssumption
<1> QED  BY <1>1 DEF Watch!Uploads, OpShape

\* One removal for each file of a queue.
LEMMA RemovesAre ==
  ASSUME Watch!WatcherAssumption, NEW Q, Q \subseteq Paths
  PROVE  /\ \A n \in Watch!Removes(Q) :
              /\ n \in Watch!Op /\ n.kind = "remove" /\ n.path = n.to /\ n.path \in Q
              /\ n.at = "find" /\ Watch!Touches(n) = {n.path} /\ OpShape(n)
         /\ \A n1, n2 \in Watch!Removes(Q) : n1 # n2 => n1.path # n2.path
         /\ \A p \in Q : \E n \in Watch!Removes(Q) : n.path = p
<1>1. \A p \in Q : /\ Watch!NewOp("remove", p, p, "find") \in Watch!Op
                   /\ Watch!NewOp("remove", p, p, "find").kind = "remove"
                   /\ Watch!NewOp("remove", p, p, "find").path = p
                   /\ Watch!NewOp("remove", p, p, "find").to = p
                   /\ Watch!NewOp("remove", p, p, "find").at = "find"
                   /\ Watch!Touches(Watch!NewOp("remove", p, p, "find")) = {p}
  BY DEF Watch!NewOp, Watch!Op, Watch!Touches, Watch!Versions, Watch!WatcherAssumption
<1> QED  BY <1>1 DEF Watch!Removes, OpShape

\* Only uploads begin, and nothing is forgiven that was not.
LEMMA UploadsBegin ==
  ASSUME Watch!WatcherAssumption, Watch!TypeOK, NEW Q, Q \subseteq Paths, Watch!doUpload(Q)
  PROVE  /\ \A n \in ops' : n \in ops \/ (n \in Watch!Op /\ OpShape(n))
         /\ excused' \in BOOLEAN /\ (excused => excused')
<1>1. Q \ Watch!Downloading \subseteq Paths
  OBVIOUS
<1>2. ops' = ops \cup Watch!Uploads(Q \ Watch!Downloading) /\ excused' \in BOOLEAN /\ (excused => excused')
  BY DEF Watch!doUpload, Watch!Begin
<1> QED  BY <1>1, <1>2, UploadsAre

\* Only removals begin, and nothing is forgiven that was not.
LEMMA RemovesBegin ==
  ASSUME Watch!WatcherAssumption, Watch!TypeOK, NEW Q, Q \subseteq Paths, Watch!doDelete(Q)
  PROVE  /\ \A n \in ops' : n \in ops \/ (n \in Watch!Op /\ OpShape(n))
         /\ excused' \in BOOLEAN /\ (excused => excused')
<1>1. ops' = ops \cup Watch!Removes(Q) /\ excused' \in BOOLEAN /\ (excused => excused')
  BY DEF Watch!doDelete, Watch!Begin
<1> QED  BY <1>1, RemovesAre

\* The files of a queue are seen to by the uploads that begin, and the others as before.
LEMMA UploadsSee ==
  ASSUME Watch!WatcherAssumption, Watch!TypeOK, Core, NEW Q, Q \subseteq Paths,
         Watch!doUpload(Q), ~ excused', UNCHANGED <<local, remote>>,
         \A p \in Paths : Waits(p) /\ (p \notin Q \/ local[p] = 0) => Waits(p)'
  PROVE  Core'
<1>1. Watch!Begin(Watch!Uploads(Q), FALSE) /\ Q \cap Watch!Downloading = {}
  <2>1. Q \cap Watch!Downloading = {}
    BY DEF Watch!doUpload, Watch!Begin
  <2>2. Q \ Watch!Downloading = Q
    BY <2>1
  <2> QED  BY <2>1, <2>2 DEF Watch!doUpload
<1>2. /\ ops' = ops \cup Watch!Uploads(Q)
      /\ \A n \in Watch!Uploads(Q), o \in ops : Watch!Touches(n) \cap Watch!Touches(o) = {}
  BY <1>1 DEF Watch!Begin
<1>3. \A n \in Watch!Uploads(Q) : OpKnows(n)'
  BY UploadsAre DEF OpKnows
<1>4. ASSUME NEW n \in Watch!Uploads(Q) PROVE Accounted(n.path)'
  <2>1. /\ n.kind = "upload" /\ n.path = n.to /\ n.path \in Paths /\ n.at = "read"
        /\ Watch!Touches(n) = {n.path} /\ n \in ops'
    BY <1>2, UploadsAre
  <2>2. CASE local[n.path] # 0
    BY <2>1, <2>2 DEF Accounted, Sends
  <2>3. CASE local[n.path] = 0
    <3>1. \A o \in ops : ~ Sends(o, n.path) /\ ~ Clears(o, n.path)
      BY <1>2, <2>1, OpFields DEF Sends, Clears
    <3>2. local[n.path] = remote[n.path] \/ Waits(n.path)
      BY <2>1, <3>1 DEF Core, Accounted
    <3> QED  BY <2>1, <2>3, <3>2 DEF Accounted
  <2> QED  BY <2>2, <2>3
<1>5. \A p \in Paths : (\A n \in Watch!Uploads(Q) : p \notin Watch!Touches(n)) =>
        local'[p] = local[p] /\ remote'[p] = remote[p] /\ (Waits(p) => Waits(p)')
  BY UploadsAre
<1>6. \A n1, n2 \in Watch!Uploads(Q) : n1 # n2 => Watch!Touches(n1) \cap Watch!Touches(n2) = {}
  BY UploadsAre
<1>7. \A n \in Watch!Uploads(Q) : Accounted(n.path)' /\ Accounted(n.to)'
  BY <1>4, UploadsAre
<1> QED  BY <1>1, <1>3, <1>5, <1>6, <1>7, OthersBegin

\* The same for the removals, when every file of the queue is still gone.
LEMMA RemovesSee ==
  ASSUME Watch!WatcherAssumption, Watch!TypeOK, Core, NEW Q, Q \subseteq Paths,
         Watch!doDelete(Q), ~ excused', UNCHANGED <<local, remote>>,
         \A p \in Paths : Waits(p) /\ p \notin Q => Waits(p)'
  PROVE  Core'
<1>1. Watch!Begin(Watch!Removes(Q), FALSE)
  BY DEF Watch!doDelete
<1>2. ops' = ops \cup Watch!Removes(Q) /\ \A n \in Watch!Removes(Q) : local[n.path] = 0
  <2>1. ops' = ops \cup Watch!Removes(Q)
    BY <1>1 DEF Watch!Begin
  <2>2. ~ \E n \in Watch!Removes(Q) : n.kind = "remove" /\ local[n.path] # 0
    <3> DEFINE new == Watch!Removes(Q)
    <3>1. Watch!Begin(new, FALSE)
      BY <1>1
    <3> HIDE DEF new
    <3>2. ~ \E n \in new : n.kind = "remove" /\ local[n.path] # 0
      BY <3>1 DEF Watch!Begin
    <3> QED  BY <3>2 DEF new
  <2>3. \A n \in Watch!Removes(Q) : n.kind = "remove"
    BY RemovesAre
  <2> QED  BY <2>1, <2>2, <2>3
<1>3. ASSUME NEW n \in Watch!Removes(Q) PROVE OpKnows(n)'
  <2>1. n.kind = "remove" /\ n.at = "find" /\ local'[n.path] = 0
    BY <1>2, RemovesAre
  <2> QED  BY <2>1 DEF OpKnows
<1>4. ASSUME NEW n \in Watch!Removes(Q) PROVE Accounted(n.path)' /\ Accounted(n.to)'
  <2>1. n \in ops' /\ n.kind = "remove" /\ n.path = n.to /\ local'[n.path] = 0
    BY <1>2, RemovesAre
  <2> QED  BY <2>1 DEF Accounted, Clears
<1>5. \A p \in Paths : (\A n \in Watch!Removes(Q) : p \notin Watch!Touches(n)) =>
        local'[p] = local[p] /\ remote'[p] = remote[p] /\ (Waits(p) => Waits(p)')
  BY RemovesAre
<1>6. \A n1, n2 \in Watch!Removes(Q) : n1 # n2 => Watch!Touches(n1) \cap Watch!Touches(n2) = {}
  BY RemovesAre
<1> QED  BY <1>1, <1>3, <1>4, <1>5, <1>6, OthersBegin

-----------------------------------------------------------------------------
\* The same for two events at once.
LEMMA HeardStillTwo ==
  ASSUME changes \in Seq(Watch!Event), NEW e1 \in Watch!Event, NEW e2 \in Watch!Event,
         changes' = changes \o <<e1, e2>>
  PROVE  \A p, kind : Heard(p, kind) => Heard(p, kind)'
<1>1. /\ Len(changes') = Len(changes) + 2 /\ Len(changes) \in Nat
      /\ \A i \in 1..Len(changes) : changes'[i] = changes[i]
      /\ DOMAIN changes = 1..Len(changes) /\ DOMAIN changes' = 1..Len(changes')
  OBVIOUS
<1>2. ASSUME NEW p, NEW kind, Heard(p, kind) PROVE Heard(p, kind)'
  <2>1. PICK i \in 1..Len(changes) :
          changes[i].path = p /\ changes[i].kind = kind /\ ~ changes[i].own
    BY <1>1, <1>2 DEF Heard
  <2>2. i \in DOMAIN changes' /\ changes'[i] = changes[i]
    BY <1>1, <2>1
  <2> QED  BY <2>1, <2>2 DEF Heard
<1> QED  BY <1>2

\* An event is dropped, or goes to the queue it is for.
LEMMA DeliverStep ==
  ASSUME Watch!WatcherAssumption, WatchInv, Watch!Deliver
  PROVE  WatchInv'
<1> DEFINE e == Head(changes)
<1>1. /\ Watch!TypeOK /\ Watch!NothingStranded /\ (moving # <<>> => moving[1] # moving[2])
      /\ \A o \in ops : OpShape(o)
      /\ excused \/ Core
  BY DEF WatchInv
<1>2. /\ changes \in Seq(Watch!Event) /\ changes # <<>> /\ changes' = Tail(changes)
      /\ e \in Watch!Event /\ changes' \in Seq(Watch!Event)
      /\ e.path \in Paths /\ e.kind \in {"write", "gone"} /\ e.own \in BOOLEAN
      /\ UNCHANGED <<local, remote, suppressed, moving, acts, left, missed>>
  <2>1. changes \in Seq(Watch!Event) /\ changes # <<>> /\ changes' = Tail(changes)
    BY <1>1 DEF Watch!TypeOK, Watch!Deliver
  <2>2. e \in Watch!Event /\ changes' \in Seq(Watch!Event)
    BY <2>1
  <2>3. UNCHANGED <<local, remote, suppressed, moving, acts, left, missed>>
    BY DEF Watch!Deliver, Watch!counts
  <2> QED  BY <2>1, <2>2, <2>3 DEF Watch!Event
<1>3. \A p, kind : Heard(p, kind) =>
        Heard(p, kind)' \/ (e.path = p /\ e.kind = kind /\ ~ e.own)
  BY <1>2, HeardNext
<1>4. /\ local \in [Paths -> Watch!Versions] /\ suppressed \subseteq Paths
      /\ uploadQueue \subseteq Paths /\ deleteQueue \subseteq Paths
      /\ uploadTimer \in Watch!Timer /\ deleteTimer \in Watch!Timer
      /\ moving \in {<<>>} \cup Paths \X Paths
      /\ acts \in 0..MaxActs /\ left \subseteq Commands /\ excused \in BOOLEAN
      /\ missed \subseteq Paths
  BY <1>1 DEF Watch!TypeOK
<1>5. \/ e.path \in suppressed /\ excused' = (excused \/ ~ e.own)
         /\ UNCHANGED <<ops, uploadQueue, deleteQueue, uploadTimer, deleteTimer>>
      \/ e.kind = "write" /\ UNCHANGED <<deleteQueue, deleteTimer>>
         /\ (Watch!UploadAtOnce(e.path) \/ Watch!UploadAgain(e.path))
      \/ e.kind = "gone" /\ UNCHANGED <<uploadQueue, uploadTimer>>
         /\ (Watch!DeleteAtOnce(e.path) \/ Watch!DeleteAgain(e.path))
  BY DEF Watch!Deliver, Watch!queues
<1> HIDE DEF e
<1>6. CASE /\ e.path \in suppressed /\ excused' = (excused \/ ~ e.own)
           /\ UNCHANGED <<ops, uploadQueue, deleteQueue, uploadTimer, deleteTimer>>
  <2>1. ASSUME ~ excused' PROVE Core'
    <3>1. Core /\ \A p, kind : Heard(p, kind) => Heard(p, kind)'
      BY <1>1, <1>2, <1>3, <1>6, <2>1
    <3>2. \A p \in Paths : Waits(p) => Waits(p)'
      BY <1>2, <1>6, <3>1, WaitsStill
    <3> QED  BY <1>1, <1>2, <1>6, <3>1, <3>2, OthersChange
  <2>2. Watch!NothingStranded' /\ excused' \in BOOLEAN
    BY <1>1, <1>2, <1>4, <1>6 DEF Watch!NothingStranded
  <2> QED  BY <1>1, <1>2, <1>4, <1>6, <2>1, <2>2, WatchStep
<1>7. CASE e.kind = "write" /\ UNCHANGED <<deleteQueue, deleteTimer>> /\ Watch!UploadAgain(e.path)
  <2>1. /\ uploadQueue' = uploadQueue \cup {e.path} /\ uploadTimer' = "again"
        /\ UNCHANGED <<ops, excused, deleteQueue, deleteTimer>>
    BY <1>7 DEF Watch!UploadAgain
  <2>2. ASSUME Core PROVE Core'
    <3>1. \A p \in Paths : Waits(p) => Waits(p)'
      BY <1>2, <1>3, <1>7, <2>1, WaitsIs, WaitsWillBe
    <3> QED  BY <1>1, <1>2, <2>1, <2>2, <3>1, OthersChange
  <2>3. Watch!NothingStranded' /\ uploadTimer' \in Watch!Timer /\ uploadQueue' \subseteq Paths
    BY <1>1, <1>2, <1>4, <2>1 DEF Watch!NothingStranded, Watch!Timer
  <2> QED  BY <1>1, <1>2, <1>4, <2>1, <2>2, <2>3, WatchStep
<1>8. CASE e.kind = "gone" /\ UNCHANGED <<uploadQueue, uploadTimer>> /\ Watch!DeleteAgain(e.path)
  <2>1. /\ deleteQueue' = deleteQueue \cup {e.path} /\ deleteTimer' = "again"
        /\ UNCHANGED <<ops, excused, uploadQueue, uploadTimer>>
    BY <1>8 DEF Watch!DeleteAgain
  <2>2. ASSUME Core PROVE Core'
    <3>1. \A p \in Paths : Waits(p) => Waits(p)'
      BY <1>2, <1>3, <1>8, <2>1, WaitsIs, WaitsWillBe
    <3> QED  BY <1>1, <1>2, <2>1, <2>2, <3>1, OthersChange
  <2>3. Watch!NothingStranded' /\ deleteTimer' \in Watch!Timer /\ deleteQueue' \subseteq Paths
    BY <1>1, <1>2, <1>4, <2>1 DEF Watch!NothingStranded, Watch!Timer
  <2> QED  BY <1>1, <1>2, <1>4, <2>1, <2>2, <2>3, WatchStep
<1>9. CASE e.kind = "write" /\ UNCHANGED <<deleteQueue, deleteTimer>> /\ Watch!UploadAtOnce(e.path)
  <2>0. PICK Q : Q = uploadQueue \cup {e.path}
    OBVIOUS
  <2>1. /\ Watch!doUpload(Q) /\ Q \subseteq Paths /\ uploadQueue' = {} /\ uploadTimer' = "waiting"
        /\ UNCHANGED <<deleteQueue, deleteTimer>>
    BY <1>2, <1>4, <1>9, <2>0 DEF Watch!UploadAtOnce
  <2>2. ASSUME ~ excused', Core PROVE Core'
    <3>1. \A p \in Paths : Waits(p) /\ (p \notin Q \/ local[p] = 0) => Waits(p)'
      BY <1>2, <1>3, <1>9, <2>0, <2>1, WaitsIs, WaitsWillBe
    <3> QED  BY <1>1, <1>2, <2>1, <2>2, <3>1, UploadsSee
  <2>3. Watch!NothingStranded' /\ uploadTimer' \in Watch!Timer /\ uploadQueue' \subseteq Paths
    BY <1>1, <1>2, <1>4, <2>1 DEF Watch!NothingStranded, Watch!Timer
  <2>4. /\ \A n \in ops' : n \in ops \/ (n \in Watch!Op /\ OpShape(n))
        /\ excused' \in BOOLEAN /\ (excused => excused')
    BY <1>1, <2>1, UploadsBegin
  <2> QED  BY <1>1, <1>2, <1>4, <2>1, <2>2, <2>3, <2>4, WatchStep
<1>10. CASE e.kind = "gone" /\ UNCHANGED <<uploadQueue, uploadTimer>> /\ Watch!DeleteAtOnce(e.path)
  <2>0. PICK Q : Q = deleteQueue \cup {e.path}
    OBVIOUS
  <2>1. /\ Watch!doDelete(Q) /\ Q \subseteq Paths /\ deleteQueue' = {} /\ deleteTimer' = "waiting"
        /\ UNCHANGED <<uploadQueue, uploadTimer>>
    BY <1>2, <1>4, <1>10, <2>0 DEF Watch!DeleteAtOnce
  <2>2. ASSUME ~ excused', Core PROVE Core'
    <3>1. \A p \in Paths : Waits(p) /\ p \notin Q => Waits(p)'
      BY <1>2, <1>3, <1>10, <2>0, <2>1, WaitsIs, WaitsWillBe
    <3> QED  BY <1>1, <1>2, <2>1, <2>2, <3>1, RemovesSee
  <2>3. Watch!NothingStranded' /\ deleteTimer' \in Watch!Timer /\ deleteQueue' \subseteq Paths
    BY <1>1, <1>2, <1>4, <2>1 DEF Watch!NothingStranded, Watch!Timer
  <2>4. /\ \A n \in ops' : n \in ops \/ (n \in Watch!Op /\ OpShape(n))
        /\ excused' \in BOOLEAN /\ (excused => excused')
    BY <1>1, <2>1, RemovesBegin
  <2> QED  BY <1>1, <1>2, <1>4, <2>1, <2>2, <2>3, <2>4, WatchStep
<1> QED  BY <1>5, <1>6, <1>7, <1>8, <1>9, <1>10

\* The wait is over: what queued up meanwhile is seen to now.
LEMMA TimeoutStep ==
  ASSUME Watch!WatcherAssumption, WatchInv, Watch!UploadTimeout \/ Watch!DeleteTimeout
  PROVE  WatchInv'
<1>1. /\ Watch!TypeOK /\ Watch!NothingStranded /\ (moving # <<>> => moving[1] # moving[2])
      /\ \A o \in ops : OpShape(o)
      /\ excused \/ Core
  BY DEF WatchInv
<1>2. UNCHANGED <<local, changes, remote, suppressed, moving, acts, left, missed>>
  BY DEF Watch!UploadTimeout, Watch!DeleteTimeout, Watch!disk, Watch!counts
<1>3. /\ local \in [Paths -> Watch!Versions] /\ suppressed \subseteq Paths
      /\ uploadQueue \subseteq Paths /\ deleteQueue \subseteq Paths
      /\ uploadTimer \in Watch!Timer /\ deleteTimer \in Watch!Timer
      /\ moving \in {<<>>} \cup Paths \X Paths /\ changes \in Seq(Watch!Event)
      /\ acts \in 0..MaxActs /\ left \subseteq Commands /\ excused \in BOOLEAN
      /\ missed \subseteq Paths
  BY <1>1 DEF Watch!TypeOK
<1>4. \A p, kind : Heard(p, kind) => Heard(p, kind)'
  BY <1>2, HeardSame
<1>5. ASSUME Watch!UploadTimeout PROVE WatchInv'
  <2>1. uploadTimer' = "off" /\ UNCHANGED <<deleteQueue, deleteTimer>>
    BY <1>5 DEF Watch!UploadTimeout
  <2>2. CASE uploadTimer = "again"
    <3>1. Watch!doUpload(uploadQueue) /\ uploadQueue' = {}
      BY <1>5, <2>2 DEF Watch!UploadTimeout
    <3>2. ASSUME ~ excused', Core PROVE Core'
      <4>1. \A p \in Paths : Waits(p) /\ (p \notin uploadQueue \/ local[p] = 0) => Waits(p)'
        BY <1>2, <1>4, <2>1, <3>1, WaitsIs, WaitsWillBe
      <4> QED  BY <1>1, <1>2, <1>3, <3>1, <3>2, <4>1, UploadsSee
    <3>3. Watch!NothingStranded' /\ uploadTimer' \in Watch!Timer /\ uploadQueue' \subseteq Paths
      BY <1>1, <2>1, <3>1 DEF Watch!NothingStranded, Watch!Timer
    <3>4. /\ \A n \in ops' : n \in ops \/ (n \in Watch!Op /\ OpShape(n))
          /\ excused' \in BOOLEAN /\ (excused => excused')
      BY <1>1, <1>3, <3>1, UploadsBegin
    <3> QED  BY <1>1, <1>2, <1>3, <2>1, <3>1, <3>2, <3>3, <3>4, WatchStep
  <2>3. CASE uploadTimer # "again"
    <3>1. UNCHANGED <<uploadQueue, ops, excused>>
      BY <1>5, <2>3 DEF Watch!UploadTimeout
    <3>2. ASSUME Core PROVE Core'
      <4>1. \A p \in Paths : Waits(p) => Waits(p)'
        BY <1>2, <1>4, <2>1, <3>1, WaitsStill
      <4> QED  BY <1>1, <1>2, <3>1, <3>2, <4>1, OthersChange
    <3>3. Watch!NothingStranded' /\ uploadTimer' \in Watch!Timer
      BY <1>1, <2>1, <2>3, <3>1 DEF Watch!NothingStranded, Watch!Timer
    <3> QED  BY <1>1, <1>2, <1>3, <2>1, <3>1, <3>2, <3>3, WatchStep
  <2> QED  BY <2>2, <2>3
<1>6. ASSUME Watch!DeleteTimeout PROVE WatchInv'
  <2>1. deleteTimer' = "off" /\ UNCHANGED <<uploadQueue, uploadTimer>>
    BY <1>6 DEF Watch!DeleteTimeout
  <2>2. CASE deleteTimer = "again"
    <3>1. Watch!doDelete(deleteQueue) /\ deleteQueue' = {}
      BY <1>6, <2>2 DEF Watch!DeleteTimeout
    <3>2. ASSUME ~ excused', Core PROVE Core'
      <4>1. \A p \in Paths : Waits(p) /\ p \notin deleteQueue => Waits(p)'
        BY <1>2, <1>4, <2>1, <3>1, WaitsIs, WaitsWillBe
      <4> QED  BY <1>1, <1>2, <1>3, <3>1, <3>2, <4>1, RemovesSee
    <3>3. Watch!NothingStranded' /\ deleteTimer' \in Watch!Timer /\ deleteQueue' \subseteq Paths
      BY <1>1, <2>1, <3>1 DEF Watch!NothingStranded, Watch!Timer
    <3>4. /\ \A n \in ops' : n \in ops \/ (n \in Watch!Op /\ OpShape(n))
          /\ excused' \in BOOLEAN /\ (excused => excused')
      BY <1>1, <1>3, <3>1, RemovesBegin
    <3> QED  BY <1>1, <1>2, <1>3, <2>1, <3>1, <3>2, <3>3, <3>4, WatchStep
  <2>3. CASE deleteTimer # "again"
    <3>1. UNCHANGED <<deleteQueue, ops, excused>>
      BY <1>6, <2>3 DEF Watch!DeleteTimeout
    <3>2. ASSUME Core PROVE Core'
      <4>1. \A p \in Paths : Waits(p) => Waits(p)'
        BY <1>2, <1>4, <2>1, <3>1, WaitsStill
      <4> QED  BY <1>1, <1>2, <3>1, <3>2, <4>1, OthersChange
    <3>3. Watch!NothingStranded' /\ deleteTimer' \in Watch!Timer
      BY <1>1, <2>1, <2>3, <3>1 DEF Watch!NothingStranded, Watch!Timer
    <3> QED  BY <1>1, <1>2, <1>3, <2>1, <3>1, <3>2, <3>3, WatchStep
  <2> QED  BY <2>2, <2>3
<1> QED  BY <1>5, <1>6

\* The same for one handler.
LEMMA OtherBegins ==
  ASSUME Watch!TypeOK, Core, NEW n, Watch!Begin({n}, FALSE), ~ excused', OpKnows(n)',
         \A p \in Paths : p \notin Watch!Touches(n) =>
           local'[p] = local[p] /\ remote'[p] = remote[p] /\ (Waits(p) => Waits(p)'),
         Accounted(n.path)', Accounted(n.to)'
  PROVE  Core'
<1>1. PICK new : new = {n}
  OBVIOUS
<1>2. Watch!Begin(new, FALSE)
  BY <1>1
<1>3. \A n1, n2 \in new : n1 # n2 => Watch!Touches(n1) \cap Watch!Touches(n2) = {}
  BY <1>1
<1>4. \A m \in new : OpKnows(m)'
  BY <1>1
<1>5. \A m \in new : Accounted(m.path)' /\ Accounted(m.to)'
  BY <1>1
<1>6. \A p \in Paths : (\A m \in new : p \notin Watch!Touches(m)) =>
        local'[p] = local[p] /\ remote'[p] = remote[p] /\ (Waits(p) => Waits(p)')
  BY <1>1
<1> QED  BY <1>2, <1>3, <1>4, <1>5, <1>6, OthersBegin

\* The editor renames a file here, and a handler begins to follow.
LEMMA DidRenameStep ==
  ASSUME Watch!WatcherAssumption, WatchInv, Watch!DidRename
  PROVE  WatchInv'
<1>1. /\ Watch!TypeOK /\ Watch!NothingStranded /\ (\A o \in ops : OpShape(o))
      /\ excused \/ Core
  BY DEF WatchInv
<1>2. PICK a \in Paths, b \in Paths : a = moving[1] /\ b = moving[2] /\ a # b
  BY DEF WatchInv, Watch!TypeOK, Watch!DidRename
<1>3. /\ moving' = <<>>
      /\ UNCHANGED <<remote, uploadQueue, deleteQueue, uploadTimer, deleteTimer, acts, left,
                     missed>>
  BY DEF Watch!DidRename, Watch!queues, Watch!counts
<1>4. /\ local \in [Paths -> Watch!Versions] /\ suppressed \subseteq Paths
      /\ uploadQueue \subseteq Paths /\ deleteQueue \subseteq Paths
      /\ uploadTimer \in Watch!Timer /\ deleteTimer \in Watch!Timer
      /\ changes \in Seq(Watch!Event)
      /\ acts \in 0..MaxActs /\ left \subseteq Commands /\ excused \in BOOLEAN
      /\ missed \subseteq Paths
  BY <1>1 DEF Watch!TypeOK
<1>5. Watch!NothingStranded'
  BY <1>1, <1>3 DEF Watch!NothingStranded
<1>6. CASE local[a] = 0
  <2>1. suppressed' = suppressed \ {a, b} /\ UNCHANGED <<local, changes, ops, excused>>
    BY <1>2, <1>6 DEF Watch!DidRename, Watch!disk
  <2>2. ASSUME Core PROVE Core'
    <3>1. \A p \in Paths : Waits(p) => Waits(p)'
      BY <1>3, <2>1, WaitsStill, HeardSame
    <3> QED  BY <1>1, <1>3, <2>1, <2>2, <3>1, OthersChange
  <2> QED  BY <1>1, <1>3, <1>4, <1>5, <2>1, <2>2, WatchStep
<1>7. CASE local[a] # 0
  <2>1. PICK e1, e2, n :
          /\ e1 = [kind |-> "gone", path |-> a, own |-> TRUE]
          /\ e2 = [kind |-> "write", path |-> b, own |-> TRUE]
          /\ n = Watch!NewOp("rename", a, b, "look")
    OBVIOUS
  <2>2. /\ local' = [local EXCEPT ![b] = local[a], ![a] = 0]
        /\ changes' = changes \o <<e1, e2>> /\ suppressed' = suppressed
        /\ Watch!Begin({n}, FALSE)
    BY <1>2, <1>7, <2>1 DEF Watch!DidRename
  <2>3. e1 \in Watch!Event /\ e2 \in Watch!Event
    BY <2>1 DEF Watch!Event
  <2>4. /\ n \in Watch!Op /\ n.kind = "rename" /\ n.path = a /\ n.to = b /\ n.at = "look"
        /\ Watch!Touches(n) = {a, b}
    BY <2>1, NewOpIs
  <2>5. /\ changes' \in Seq(Watch!Event)
        /\ \A p, kind : Heard(p, kind) => Heard(p, kind)'
    <3>1. <<e1, e2>> \in Seq(Watch!Event)
      BY <2>3
    <3>2. changes \o <<e1, e2>> \in Seq(Watch!Event)
      BY <1>4, <3>1
    <3>3. \A p, kind : Heard(p, kind) => Heard(p, kind)'
      BY <1>4, <2>2, <2>3, HeardStillTwo
    <3> QED  BY <2>2, <3>2, <3>3
  <2>6. /\ local' \in [Paths -> Watch!Versions] /\ local'[a] = 0 /\ local'[b] # 0
        /\ \A p \in Paths : p # a /\ p # b => local'[p] = local[p]
    <3>1. 0 \in Watch!Versions
      BY DEF Watch!Versions, Watch!WatcherAssumption
    <3> QED  BY <1>2, <1>4, <1>7, <2>2, <3>1
  <2>7. ops' = ops \cup {n} /\ excused' \in BOOLEAN /\ (excused => excused')
    BY <1>4, <2>2 DEF Watch!Begin
  <2>8. OpShape(n)
    BY <1>2, <2>4 DEF OpShape
  <2>9. ASSUME ~ excused', Core PROVE Core'
    <3>1. OpKnows(n)'
      BY <2>4, <2>6 DEF OpKnows
    <3>2. Accounted(n.path)' /\ Accounted(n.to)'
      BY <2>4, <2>6, <2>7 DEF Accounted, Sends, Clears
    <3>3. \A p \in Paths : p \notin Watch!Touches(n) =>
            local'[p] = local[p] /\ remote'[p] = remote[p] /\ (Waits(p) => Waits(p)')
      BY <1>3, <2>4, <2>5, <2>6, WaitsStill
    <3> QED  BY <1>1, <2>2, <2>9, <3>1, <3>2, <3>3, OtherBegins
  <2> QED  BY <1>1, <1>3, <1>4, <1>5, <2>2, <2>5, <2>6, <2>7, <2>8, <2>9, <2>4, WatchStep
<1> QED  BY <1>6, <1>7

\* A download begins.
LEMMA DownloadStep ==
  ASSUME Watch!WatcherAssumption, WatchInv, NEW q \in Paths, Watch!Download(q)
  PROVE  WatchInv'
<1>1. /\ Watch!TypeOK /\ Watch!NothingStranded /\ (\A o \in ops : OpShape(o))
      /\ excused \/ Core
      /\ moving # <<>> => moving[1] # moving[2]
  BY DEF WatchInv
<1>2. /\ local \in [Paths -> Watch!Versions] /\ suppressed \subseteq Paths
      /\ uploadQueue \subseteq Paths /\ deleteQueue \subseteq Paths
      /\ uploadTimer \in Watch!Timer /\ deleteTimer \in Watch!Timer
      /\ changes \in Seq(Watch!Event) /\ moving \in {<<>>} \cup Paths \X Paths
      /\ acts \in 0..MaxActs /\ left \subseteq Commands /\ excused \in BOOLEAN
      /\ missed \subseteq Paths
  BY <1>1 DEF Watch!TypeOK
<1>3. PICK n : n = Watch!NewOp("download", q, q, "fetch")
  OBVIOUS
<1>4. /\ UNCHANGED <<local, changes, remote, uploadQueue, deleteQueue, uploadTimer, deleteTimer,
                    moving, missed>>
      /\ suppressed' = suppressed \cup {q} /\ Watch!Begin({n}, FALSE)
      /\ acts < MaxActs /\ acts' = acts + 1 /\ left' = left \ {"download"}
  BY <1>3 DEF Watch!Download, Watch!Command, Watch!Act, Watch!disk, Watch!queues
<1>5. /\ n \in Watch!Op /\ n.kind = "download" /\ n.path = q /\ n.to = q /\ n.at = "fetch"
      /\ Watch!Touches(n) = {q, q}
  BY <1>3, NewOpIs
<1>6. /\ ops' = ops \cup {n} /\ excused' \in BOOLEAN /\ (excused => excused') /\ OpShape(n)
      /\ Watch!NothingStranded' /\ acts' \in 0..MaxActs
  <2>1. ops' = ops \cup {n} /\ excused' \in BOOLEAN /\ (excused => excused')
    BY <1>2, <1>4 DEF Watch!Begin
  <2>2. OpShape(n)
    BY <1>5 DEF OpShape
  <2>3. Watch!NothingStranded'
    BY <1>1, <1>4 DEF Watch!NothingStranded
  <2>4. acts' \in 0..MaxActs
    BY <1>2, <1>4 DEF Watch!WatcherAssumption
  <2> QED  BY <2>1, <2>2, <2>3, <2>4
<1>7. ASSUME ~ excused', Core PROVE Core'
  <2>1. \A p \in Paths : Waits(p) => Waits(p)'
    BY <1>4, WaitsStill, HeardSame
  <2>2. \A o \in ops : Watch!Touches(n) \cap Watch!Touches(o) = {}
    BY <1>4, <1>7 DEF Watch!Begin
  <2>3. local[q] = remote[q] \/ Waits(q)
    <3>1. \A o \in ops : ~ Sends(o, q) /\ ~ Clears(o, q)
      BY <1>1, <1>5, <2>2, OpFields DEF Sends, Clears
    <3> QED  BY <1>7, <3>1 DEF Core, Accounted
  <2>4. OpKnows(n)'
    BY <1>5 DEF OpKnows
  <2>5. Accounted(n.path)' /\ Accounted(n.to)'
    BY <1>4, <1>5, <2>1, <2>3 DEF Accounted
  <2>6. \A p \in Paths : p \notin Watch!Touches(n) =>
          local'[p] = local[p] /\ remote'[p] = remote[p] /\ (Waits(p) => Waits(p)')
    BY <1>4, <2>1
  <2> QED  BY <1>1, <1>4, <1>7, <2>4, <2>5, <2>6, OtherBegins
<1> QED  BY <1>1, <1>2, <1>4, <1>5, <1>6, <1>7, WatchStep

\* Another program writes a file, or deletes one.
LEMMA ChangeStep ==
  ASSUME Watch!WatcherAssumption, WatchInv, NEW q \in Paths, Watch!Change(q) \/ Watch!Delete(q)
  PROVE  WatchInv'
<1>1. /\ Watch!TypeOK /\ Watch!NothingStranded /\ (\A o \in ops : OpShape(o))
      /\ excused \/ Core
      /\ moving # <<>> => moving[1] # moving[2]
  BY DEF WatchInv
<1>2. /\ local \in [Paths -> Watch!Versions] /\ suppressed \subseteq Paths
      /\ uploadQueue \subseteq Paths /\ deleteQueue \subseteq Paths
      /\ uploadTimer \in Watch!Timer /\ deleteTimer \in Watch!Timer
      /\ changes \in Seq(Watch!Event) /\ moving \in {<<>>} \cup Paths \X Paths
      /\ acts \in 0..MaxActs /\ left \subseteq Commands /\ excused \in BOOLEAN
      /\ missed \subseteq Paths
  BY <1>1 DEF Watch!TypeOK
<1>3. /\ UNCHANGED <<remote, suppressed, uploadQueue, deleteQueue, uploadTimer, deleteTimer,
                    moving, ops, left, excused, missed>>
      /\ acts < MaxActs /\ acts' = acts + 1
  BY DEF Watch!Change, Watch!Delete, Watch!Act, Watch!queues
<1>4. PICK version, kind :
        /\ local' = [local EXCEPT ![q] = version]
        /\ changes' = Append(changes, [kind |-> kind, path |-> q, own |-> FALSE])
        /\ (version = acts + 2 /\ kind = "write") \/ (version = 0 /\ kind = "gone")
  <2>1. CASE Watch!Change(q)
    BY <2>1 DEF Watch!Change
  <2>2. CASE Watch!Delete(q)
    BY <2>2 DEF Watch!Delete
  <2> QED  BY <2>1, <2>2
<1>5. PICK e : e = [kind |-> kind, path |-> q, own |-> FALSE]
  OBVIOUS
<1>6. e \in Watch!Event /\ e.path = q /\ e.kind = kind /\ ~ e.own
  BY <1>4, <1>5 DEF Watch!Event
<1>7. /\ changes' \in Seq(Watch!Event) /\ Heard(q, kind)'
      /\ \A p, k : Heard(p, k) => Heard(p, k)'
  <2>1. changes' = Append(changes, e)
    BY <1>4, <1>5
  <2> QED  BY <1>2, <1>6, <2>1, HeardStill
<1>8. /\ local' \in [Paths -> Watch!Versions] /\ local'[q] = version
      /\ \A p \in Paths : p # q => local'[p] = local[p]
  <2>1. version \in Watch!Versions
    BY <1>2, <1>3, <1>4 DEF Watch!Versions, Watch!WatcherAssumption
  <2> QED  BY <1>2, <1>4, <2>1
<1>9. ASSUME Core PROVE Core'
  <2>1. version # 0 <=> kind = "write"
    BY <1>2, <1>4
  <2>2. Waits(q)'
    BY <1>4, <1>7, <1>8, <2>1, WaitsWillBe
  <2>3. \A p \in Paths : p # q => (Waits(p) => Waits(p)')
    BY <1>3, <1>7, <1>8, WaitsStill
  <2> QED  BY <1>1, <1>3, <1>8, <1>9, <2>2, <2>3, OthersChange
<1>10. Watch!NothingStranded' /\ acts' \in 0..MaxActs
  BY <1>1, <1>2, <1>3 DEF Watch!NothingStranded, Watch!WatcherAssumption
<1> QED  BY <1>1, <1>2, <1>3, <1>7, <1>8, <1>9, <1>10, WatchStep

\* A rename is announced, or a claim renewed: no file changes.
LEMMA ClaimStep ==
  ASSUME Watch!WatcherAssumption, WatchInv,
         (\E p \in Paths : Watch!Renew(p)) \/ (\E a, b \in Paths : Watch!WillRename(a, b))
  PROVE  WatchInv'
<1>1. /\ Watch!TypeOK /\ Watch!NothingStranded /\ (\A o \in ops : OpShape(o))
      /\ excused \/ Core
      /\ moving # <<>> => moving[1] # moving[2]
  BY DEF WatchInv
<1>2. /\ local \in [Paths -> Watch!Versions] /\ suppressed \subseteq Paths
      /\ uploadQueue \subseteq Paths /\ deleteQueue \subseteq Paths
      /\ uploadTimer \in Watch!Timer /\ deleteTimer \in Watch!Timer
      /\ changes \in Seq(Watch!Event) /\ moving \in {<<>>} \cup Paths \X Paths
      /\ acts \in 0..MaxActs /\ left \subseteq Commands /\ excused \in BOOLEAN
      /\ missed \subseteq Paths
  BY <1>1 DEF Watch!TypeOK
<1>3. UNCHANGED <<local, changes, remote, uploadQueue, deleteQueue, uploadTimer, deleteTimer, ops,
                  excused, missed>>
  BY DEF Watch!Renew, Watch!WillRename, Watch!disk, Watch!queues, Watch!counts
<1>4. /\ suppressed' \subseteq Paths
      /\ moving' \in {<<>>} \cup Paths \X Paths /\ (moving' # <<>> => moving'[1] # moving'[2])
      /\ acts' \in 0..MaxActs /\ left' \subseteq Commands
  <2>1. CASE \E p \in Paths : Watch!Renew(p)
    <3>1. PICK p \in Paths : suppressed' = suppressed \cup {p} /\ UNCHANGED <<moving, acts, left>>
      BY <2>1 DEF Watch!Renew, Watch!counts
    <3> QED  BY <1>1, <1>2, <3>1
  <2>2. CASE \E a, b \in Paths : Watch!WillRename(a, b)
    <3>1. PICK a \in Paths, b \in Paths :
            /\ a # b /\ moving' = <<a, b>> /\ suppressed' = suppressed \cup {a, b}
            /\ acts < MaxActs /\ acts' = acts + 1 /\ left' = left \ {"rename"}
      BY <2>2 DEF Watch!WillRename, Watch!Command, Watch!Act
    <3>2. acts' \in 0..MaxActs
      BY <1>2, <3>1 DEF Watch!WatcherAssumption
    <3> QED  BY <1>2, <3>1, <3>2
  <2> QED  BY <2>1, <2>2
<1>5. ASSUME Core PROVE Core'
  <2>1. \A p \in Paths : Waits(p) => Waits(p)'
    BY <1>3, WaitsStill, HeardSame
  <2> QED  BY <1>1, <1>3, <1>5, <2>1, OthersChange
<1>6. Watch!NothingStranded'
  BY <1>1, <1>3 DEF Watch!NothingStranded
<1> QED  BY <1>1, <1>2, <1>3, <1>4, <1>5, <1>6, WatchStep

\* Each action of the watcher keeps the invariant.
LEMMA WatchNext ==
  ASSUME Watch!WatcherAssumption, WatchInv, Watch!Next
  PROVE  WatchInv'
<1>1. CASE Watch!Deliver \/ Watch!UploadTimeout \/ Watch!DeleteTimeout \/ Watch!DidRename
  BY <1>1, DeliverStep, TimeoutStep, DidRenameStep
<1>2. CASE \E o \in ops : Watch!Step(o)
  BY <1>2, HandlersStep
<1>3. CASE \E p \in Paths : Watch!Renew(p) \/ Watch!Download(p) \/ Watch!Change(p) \/ Watch!Delete(p)
  BY <1>3, ClaimStep, DownloadStep, ChangeStep
<1>4. CASE \E a, b \in Paths : Watch!WillRename(a, b)
  BY <1>4, ClaimStep
<1> QED  BY <1>1, <1>2, <1>3, <1>4 DEF Watch!Next

\* At first the two sides are the same, and nothing is under way.
LEMMA WatchBegins ==
  ASSUME Watch!WatcherAssumption, Watch!Init
  PROVE  WatchInv
<1>1. /\ local \in [Paths -> {0, 1}] /\ remote = local /\ changes = <<>> /\ ops = {}
      /\ acts = 0 /\ left = Commands /\ suppressed = {} /\ excused = FALSE
      /\ uploadQueue = {} /\ deleteQueue = {} /\ uploadTimer = "off" /\ deleteTimer = "off"
      /\ moving = <<>> /\ missed = {}
  BY DEF Watch!Init
<1>2. {0, 1} \subseteq Watch!Versions /\ MaxActs \in Nat
  BY DEF Watch!Versions, Watch!WatcherAssumption
<1>3. local \in [Paths -> Watch!Versions] /\ remote \in [Paths -> Watch!Versions]
  BY <1>1, <1>2
<1>4. Watch!TypeOK
  <2>1. changes \in Seq(Watch!Event) /\ acts \in 0..MaxActs
    BY <1>1, <1>2
  <2> QED  BY <1>1, <1>3, <2>1 DEF Watch!TypeOK, Watch!Timer
<1>5. Watch!NothingStranded /\ Core
  BY <1>1 DEF Watch!NothingStranded, Core, OnePerFile, Accounted
<1> QED  BY <1>1, <1>4, <1>5 DEF WatchInv

\* No variable of the watcher changes when another part moves.
LEMMA WatchStands ==
  ASSUME WatchInv, UNCHANGED watchVars
  PROVE  WatchInv'
<1>1. UNCHANGED <<local, remote, changes, suppressed, uploadQueue, deleteQueue, uploadTimer,
                  deleteTimer, moving, ops, acts, left, excused, missed>>
  BY DEF watchVars
<1>2. Watch!TypeOK' /\ Watch!NothingStranded' /\ (moving # <<>> => moving[1] # moving[2])'
  BY <1>1 DEF WatchInv, Watch!TypeOK, Watch!NothingStranded
<1>3. (\A o \in ops : OpShape(o))'
  BY <1>1 DEF WatchInv, OpShape
<1>4. Core => Core'
  <2>1. \A p : Waits(p)' <=> Waits(p)
    BY <1>1 DEF Waits
  <2>2. OnePerFile' <=> OnePerFile
    BY <1>1 DEF OnePerFile, Watch!Touches
  <2>3. \A o : OpKnows(o)' <=> OpKnows(o)
    BY <1>1, <2>1 DEF OpKnows
  <2>4. \A p : Accounted(p)' <=> Accounted(p)
    BY <1>1, <2>1 DEF Accounted, Sends, Clears
  <2> QED  BY <1>1, <2>2, <2>3, <2>4 DEF Core
<1> QED  BY <1>1, <1>2, <1>3, <1>4 DEF WatchInv

\* With nothing under way nobody is left to see to a file: the two sides are the same.
LEMMA WatchMeans ==
  ASSUME WatchInv
  PROVE  Watch!NothingStranded /\ Watch!Converges
<1>1. Watch!NothingStranded
  BY DEF WatchInv
<1>2. ASSUME Watch!Quiet, ~ excused PROVE remote = local
  <2>1. /\ Core /\ changes = <<>> /\ ops = {} /\ uploadQueue = {} /\ deleteQueue = {}
        /\ local \in [Paths -> Watch!Versions] /\ remote \in [Paths -> Watch!Versions]
    BY <1>2 DEF WatchInv, Watch!Quiet, Watch!TypeOK
  <2>2. ASSUME NEW p \in Paths PROVE local[p] = remote[p]
    <3>1. ~ Waits(p)
      BY <2>1 DEF Waits
    <3> QED  BY <2>1, <3>1 DEF Core, Accounted
  <2> QED  BY <2>1, <2>2
<1> QED  BY <1>1, <1>2 DEF Watch!Converges

-----------------------------------------------------------------------------
\* A rename that uploads has something to upload; one that removes the old name has the file
\* under the new one, or is an exception.
WritesAFile(o) == o.at = "write" => o.got # 0
ArrivedOrMissed(o) ==
  o.kind = "rename" /\ o.at \in {"find", "unlink"} => remote[o.to] # 0 \/ o.to \in missed

NoRename == \A o \in ops : o.kind # "rename"

\* There is one rename at a time: it has not been asked for, or is announced, or is done.
RenameInv ==
  /\ \A o \in ops : WritesAFile(o) /\ ArrivedOrMissed(o)
  /\ \A o, n \in ops : o.kind = "rename" /\ n.kind = "rename" => o = n
  /\ moving # <<>> => NoRename
  /\ "rename" \in left => moving = <<>> /\ NoRename

\* What a step of a handler leaves to be shown.
LEMMA RenameGoes ==
  ASSUME RenameInv, NEW o \in ops,
         Ends(o) \/ \E m : GoesOn(o, m) /\ WritesAFile(m) /\ ArrivedOrMissed(m)',
         missed \subseteq missed', UNCHANGED <<moving, left>>,
         \A n \in ops : n # o /\ n.kind = "rename" /\ remote[n.to] # 0 =>
           remote'[n.to] # 0 \/ n.to \in missed'
  PROVE  RenameInv'
<1>1. ASSUME NEW n \in ops' PROVE WritesAFile(n) /\ ArrivedOrMissed(n)'
  <2>1. CASE n \in ops /\ n # o
    <3>1. WritesAFile(n) /\ ArrivedOrMissed(n)
      BY <2>1 DEF RenameInv
    <3> QED  BY <2>1, <3>1 DEF ArrivedOrMissed
  <2>2. CASE ~ (n \in ops /\ n # o)
    BY <2>2 DEF Ends, GoesOn
  <2> QED  BY <2>1, <2>2
<1>2. ASSUME NEW n \in ops' PROVE n.kind = "rename" => \E k \in ops : k.kind = "rename" /\ (k = n \/ k = o)
  BY DEF Ends, GoesOn
<1>3. NoRename => NoRename'
  BY <1>2 DEF NoRename
<1>4. ASSUME NEW n \in ops', NEW k \in ops', n.kind = "rename", k.kind = "rename" PROVE n = k
  <2>1. \A x, y \in ops : x.kind = "rename" /\ y.kind = "rename" => x = y
    BY DEF RenameInv
  <2> QED  BY <1>4, <2>1 DEF Ends, GoesOn
<1>5. \A n \in ops' : WritesAFile(n)'
  BY <1>1 DEF WritesAFile
<1> QED  BY <1>1, <1>3, <1>4, <1>5 DEF RenameInv

\* Each step of a handler leaves every rename a file under its new name, or an exception.
LEMMA RenameHandlers ==
  ASSUME WatchInv, RenameInv, NEW o \in ops, Watch!Step(o)
  PROVE  RenameInv'
<1>0. /\ o \in Watch!Op /\ o.path \in Paths /\ o.to \in Paths /\ OpShape(o)
      /\ local \in [Paths -> Watch!Versions] /\ remote \in [Paths -> Watch!Versions]
      /\ Watch!TypeOK /\ WritesAFile(o) /\ ArrivedOrMissed(o)
      /\ \A n \in ops : n # o /\ n.kind = "rename" => o.kind # "rename"
  BY OpFields DEF WatchInv, RenameInv, Watch!TypeOK
<1>1. CASE Watch!Read(o)
  <2>1. UNCHANGED <<remote, moving, left, missed>>
    BY <1>1 DEF Watch!Read, Watch!counts
  <2>2. CASE local[o.to] = 0
    BY <1>0, <1>1, <2>1, <2>2, OverIs, RenameGoes DEF Watch!Read
  <2>3. CASE local[o.to] # 0
    <3>1. PICK m : /\ m = [o EXCEPT !.at = "write", !.got = local[o.to]]
                   /\ ops' = (ops \ {o}) \cup {m}
      BY <1>1, <2>3 DEF Watch!Read
    <3>2. GoesOn(o, m) /\ m.at = "write" /\ m.got = local[o.to]
      BY <1>0, <3>1 DEF Watch!Op, GoesOn, Watch!Touches
    <3>3. WritesAFile(m) /\ ArrivedOrMissed(m)'
      BY <2>3, <3>2 DEF WritesAFile, ArrivedOrMissed
    <3> QED  BY <2>1, <3>2, <3>3, RenameGoes
  <2> QED  BY <2>2, <2>3
<1>2. CASE Watch!Write(o)
  <2>1. /\ remote' = [remote EXCEPT ![o.to] = o.got] /\ o.at = "write" /\ Watch!AfterUpload(o)
        /\ UNCHANGED <<moving, left, missed>>
    BY <1>2 DEF Watch!Write, Watch!counts
  <2>2. remote'[o.to] # 0 /\ \A p \in Paths : remote[p] # 0 => remote'[p] # 0
    BY <1>0, <2>1 DEF WritesAFile
  <2>3. \A n \in ops : remote[n.to] # 0 => remote'[n.to] # 0
    BY <1>0, <2>2, OpFields
  <2>4. CASE o.kind # "rename"
    BY <1>0, <2>1, <2>3, <2>4, OverIs, RenameGoes DEF Watch!AfterUpload
  <2>5. CASE o.kind = "rename"
    <3>1. PICK m : GoesOn(o, m) /\ m.at = "find"
      BY <1>0, <2>1, <2>5, GoesIs DEF Watch!AfterUpload
    <3>2. WritesAFile(m) /\ ArrivedOrMissed(m)'
      BY <2>2, <3>1 DEF WritesAFile, ArrivedOrMissed, GoesOn
    <3> QED  BY <2>1, <2>3, <3>1, <3>2, RenameGoes
  <2> QED  BY <2>4, <2>5
<1>3. CASE Watch!NotSent(o)
  <2>1. /\ o.at = "write" /\ Watch!AfterUpload(o) /\ UNCHANGED <<remote, moving, left>>
        /\ missed' = IF o.kind = "rename" THEN missed \cup {o.to} ELSE missed
    BY <1>3 DEF Watch!NotSent
  <2>2. CASE o.kind # "rename"
    BY <1>0, <2>1, <2>2, OverIs, RenameGoes DEF Watch!AfterUpload
  <2>3. CASE o.kind = "rename"
    <3>1. PICK m : GoesOn(o, m) /\ m.at = "find"
      BY <1>0, <2>1, <2>3, GoesIs DEF Watch!AfterUpload
    <3>2. WritesAFile(m) /\ ArrivedOrMissed(m)'
      BY <2>1, <2>3, <3>1 DEF WritesAFile, ArrivedOrMissed, GoesOn
    <3> QED  BY <2>1, <3>1, <3>2, RenameGoes
  <2> QED  BY <2>2, <2>3
<1>4. CASE Watch!Find(o)
  <2>1. o.at = "find" /\ UNCHANGED <<remote, moving, left, missed>>
    BY <1>4 DEF Watch!Find, Watch!counts
  <2>2. CASE remote[o.path] = 0
    BY <1>0, <1>4, <2>1, <2>2, OverIs, RenameGoes DEF Watch!Find
  <2>3. CASE remote[o.path] # 0
    <3>1. PICK m : GoesOn(o, m) /\ m.at = "unlink"
      BY <1>0, <1>4, <2>3, GoesIs DEF Watch!Find
    <3>2. WritesAFile(m) /\ ArrivedOrMissed(m)'
      BY <1>0, <2>1, <3>1 DEF WritesAFile, ArrivedOrMissed, GoesOn
    <3> QED  BY <2>1, <3>1, <3>2, RenameGoes
  <2> QED  BY <2>2, <2>3
<1>5. CASE Watch!Unlink(o)
  <2>1. /\ o.at = "unlink" /\ Ends(o) /\ UNCHANGED <<moving, left>>
        /\ remote' = [remote EXCEPT ![o.path] = 0]
        /\ missed' = IF o.kind = "remove" /\ \E n \in ops : n.kind = "rename" /\ n.to = o.path
                     THEN missed \cup {o.path} ELSE missed
    BY <1>0, <1>5, OverIs DEF Watch!Unlink
  <2>2. ASSUME NEW n \in ops, n # o, n.kind = "rename", remote[n.to] # 0
        PROVE  remote'[n.to] # 0 \/ n.to \in missed'
    <3>1. o.kind = "remove"
      BY <1>0, <2>1, <2>2 DEF OpShape, Watch!Op
    <3> QED  BY <1>0, <2>1, <2>2, <3>1
  <2> QED  BY <2>1, <2>2, RenameGoes
<1>6. CASE Watch!Look(o) \/ Watch!MoveFails(o)
  <2>1. UNCHANGED <<remote, moving, left, missed>>
    BY <1>6 DEF Watch!Look, Watch!MoveFails, Watch!counts
  <2>2. PICK at \in {"move", "read"} : Watch!Goes(o, at)
    BY <1>6 DEF Watch!Look, Watch!MoveFails, Watch!Fallback
  <2>3. PICK m : GoesOn(o, m) /\ m.at = at
    BY <1>0, <2>2, GoesIs
  <2>4. WritesAFile(m) /\ ArrivedOrMissed(m)'
    BY <2>3 DEF WritesAFile, ArrivedOrMissed
  <2> QED  BY <2>1, <2>3, <2>4, RenameGoes
<1>7. CASE Watch!Move(o)
  <2>1. o.at = "move" /\ Ends(o) /\ UNCHANGED <<moving, left, missed>>
    BY <1>0, <1>7, OverIs DEF Watch!Move, Watch!counts
  <2>2. o.kind = "rename"
    BY <1>0, <2>1 DEF OpShape, Watch!Op
  <2> QED  BY <1>0, <2>1, <2>2, RenameGoes
<1>8. CASE Watch!Fetch(o)
  <2>1. UNCHANGED <<remote, moving, left, missed>>
    BY <1>8 DEF Watch!Fetch, Watch!counts
  <2>2. CASE remote[o.path] = 0
    BY <1>0, <1>8, <2>1, <2>2, OverIs, RenameGoes DEF Watch!Fetch
  <2>3. CASE remote[o.path] # 0
    <3>1. PICK m : /\ m = [o EXCEPT !.at = "store", !.got = remote[o.path]]
                   /\ ops' = (ops \ {o}) \cup {m}
      BY <1>8, <2>3 DEF Watch!Fetch
    <3>2. GoesOn(o, m) /\ m.at = "store"
      BY <1>0, <3>1 DEF Watch!Op, GoesOn, Watch!Touches
    <3>3. WritesAFile(m) /\ ArrivedOrMissed(m)'
      BY <3>2 DEF WritesAFile, ArrivedOrMissed
    <3> QED  BY <2>1, <3>2, <3>3, RenameGoes
  <2> QED  BY <2>2, <2>3
<1>9. CASE Watch!Store(o)
  <2>1. Ends(o) /\ UNCHANGED <<remote, moving, left, missed>>
    BY <1>0, <1>9, OverIs DEF Watch!Store, Watch!counts
  <2> QED  BY <2>1, RenameGoes
<1> QED  BY <1>1, <1>2, <1>3, <1>4, <1>5, <1>6, <1>7, <1>8, <1>9 DEF Watch!Step

\* What the other steps leave to be shown: they begin no second rename.
LEMMA RenameOthers ==
  ASSUME RenameInv, UNCHANGED <<remote, missed>>,
         \A n \in ops' : n \in ops \/ (n.kind # "rename" /\ n.at # "write"),
         UNCHANGED moving, left' \subseteq left
  PROVE  RenameInv'
<1>1. \A n \in ops' : WritesAFile(n)' /\ ArrivedOrMissed(n)'
  BY DEF RenameInv, WritesAFile, ArrivedOrMissed
<1>2. \A n \in ops' : n.kind = "rename" => n \in ops
  OBVIOUS
<1>3. NoRename => NoRename'
  BY <1>2 DEF NoRename
<1>4. \A n, k \in ops' : n.kind = "rename" /\ k.kind = "rename" => n = k
  BY <1>2 DEF RenameInv
<1> QED  BY <1>1, <1>3, <1>4 DEF RenameInv

\* Each action of the watcher keeps it.
LEMMA RenameNext ==
  ASSUME Watch!WatcherAssumption, WatchInv, RenameInv, Watch!Next
  PROVE  RenameInv'
<1>1. ASSUME NEW Q, \/ ops' = ops \cup Watch!Uploads(Q) \/ ops' = ops \cup Watch!Removes(Q)
                    \/ ops' = ops
      PROVE  \A n \in ops' : n \in ops \/ (n.kind # "rename" /\ n.at # "write")
  BY <1>1 DEF Watch!Uploads, Watch!Removes, Watch!NewOp
<1>2. CASE Watch!Deliver
  <2>1. UNCHANGED <<remote, moving, left, missed>>
    BY <1>2 DEF Watch!Deliver, Watch!counts
  <2>2. \E Q : \/ ops' = ops \cup Watch!Uploads(Q) \/ ops' = ops \cup Watch!Removes(Q)
               \/ ops' = ops
    BY <1>2 DEF Watch!Deliver, Watch!UploadAtOnce, Watch!UploadAgain, Watch!DeleteAtOnce,
                Watch!DeleteAgain, Watch!doUpload, Watch!doDelete, Watch!Begin
  <2> QED  BY <1>1, <2>1, <2>2, RenameOthers
<1>3. CASE Watch!UploadTimeout \/ Watch!DeleteTimeout
  <2>1. UNCHANGED <<remote, moving, left, missed>>
    BY <1>3 DEF Watch!UploadTimeout, Watch!DeleteTimeout, Watch!counts
  <2>2. \E Q : \/ ops' = ops \cup Watch!Uploads(Q) \/ ops' = ops \cup Watch!Removes(Q)
               \/ ops' = ops
    BY <1>3 DEF Watch!UploadTimeout, Watch!DeleteTimeout, Watch!doUpload, Watch!doDelete, Watch!Begin
  <2> QED  BY <1>1, <2>1, <2>2, RenameOthers
<1>4. CASE Watch!DidRename
  <2>1. /\ moving # <<>> /\ moving' = <<>> /\ UNCHANGED <<remote, left, missed>>
        /\ NoRename /\ "rename" \notin left
    BY <1>4 DEF Watch!DidRename, Watch!counts, RenameInv
  <2>2. PICK n : n = Watch!NewOp("rename", moving[1], moving[2], "look")
    OBVIOUS
  <2>3. n.at = "look" /\ ops' \subseteq ops \cup {n}
    BY <1>4, <2>2 DEF Watch!DidRename, Watch!Begin, Watch!NewOp
  <2>4. \A m \in ops' : WritesAFile(m)' /\ ArrivedOrMissed(m)'
    BY <2>1, <2>3 DEF RenameInv, WritesAFile, ArrivedOrMissed
  <2>5. \A m, k \in ops' : m.kind = "rename" /\ k.kind = "rename" => m = k
    BY <2>1, <2>3 DEF NoRename
  <2> QED  BY <2>1, <2>4, <2>5 DEF RenameInv
<1>5. CASE \E o \in ops : Watch!Step(o)
  BY <1>5, RenameHandlers
<1>6. CASE \E p \in Paths : Watch!Renew(p) \/ Watch!Change(p) \/ Watch!Delete(p)
  <2>1. UNCHANGED <<remote, moving, left, missed, ops>>
    BY <1>6 DEF Watch!Renew, Watch!Change, Watch!Delete, Watch!counts
  <2> QED  BY <2>1, RenameOthers
<1>7. CASE \E p \in Paths : Watch!Download(p)
  <2>1. PICK p \in Paths : Watch!Download(p)
    BY <1>7
  <2>2. /\ UNCHANGED <<remote, moving, missed>> /\ left' \subseteq left
        /\ ops' = ops \cup {Watch!NewOp("download", p, p, "fetch")}
    BY <2>1 DEF Watch!Download, Watch!Begin, Watch!Command
  <2>3. \A n \in ops' : n \in ops \/ (n.kind # "rename" /\ n.at # "write")
    BY <2>2 DEF Watch!NewOp
  <2> QED  BY <2>2, <2>3, RenameOthers
<1>8. CASE \E a, b \in Paths : Watch!WillRename(a, b)
  <2>1. /\ "rename" \in left /\ left' = left \ {"rename"} /\ UNCHANGED <<remote, ops, missed>>
    BY <1>8 DEF Watch!WillRename, Watch!Command
  <2> QED  BY <2>1 DEF RenameInv, NoRename, WritesAFile, ArrivedOrMissed
<1> QED  BY <1>2, <1>3, <1>4, <1>5, <1>6, <1>7, <1>8 DEF Watch!Next

\* At first nothing is under way, and nothing changes when another part moves.
LEMMA RenameBegins ==
  ASSUME Watch!Init
  PROVE  RenameInv
  BY DEF Watch!Init, RenameInv, NoRename

\* Nothing of it changes when another part moves.
LEMMA RenameStands ==
  ASSUME RenameInv, UNCHANGED watchVars
  PROVE  RenameInv'
<1>1. UNCHANGED <<remote, moving, ops, left, missed>>
  BY DEF watchVars
<1> QED  BY <1>1 DEF RenameInv, NoRename, WritesAFile, ArrivedOrMissed

-----------------------------------------------------------------------------
\* What the tree ought to show.
Wanted ==
  CASE filter = "none" -> {"f", "d"} [] filter = "f" -> {"f"}
    [] filter = "g" -> IF treeThere THEN {"d"} ELSE {}

\* A listing that was asked for since the last refresh says what is there, once it is answered.
ListingFits(l) ==
  /\ l.asked <= refreshes
  /\ l.state = "ok" /\ l.asked = refreshes /\ quiet => l.has = treeThere

\* A question of the tree that searches goes by a filter that was set, and, since the last
\* refresh, by listings asked for since.
SearchFits(k) ==
  /\ k.filter # "none" /\ k.epoch <= epoch /\ (k.epoch = epoch => k.filter = filter)
  /\ k.on \in DOMAIN listings
  /\ k.since = refreshes => listings[k.on].asked = refreshes
CallFits(k) ==
  /\ k.since <= refreshes
  /\ k.at = "search" => SearchFits(k)
  /\ k.at = "done" /\ k.since = refreshes /\ quiet => k.shows = Wanted

\* What is remembered was asked for since the last refresh and has not failed.
Remembered(d) ==
  cache[d] # 0 => /\ cache[d] \in DOMAIN listings /\ listings[cache[d]].dir = d
                  /\ listings[cache[d]].asked = refreshes /\ listings[cache[d]].state # "failed"

TreeInv ==
  /\ Tree!TypeOK /\ epoch <= refreshes
  /\ \A l \in DOMAIN listings : ListingFits(listings[l])
  /\ cache # <<>> => \A d \in Tree!Dirs : Remembered(d)
  /\ \A c \in Jobs : CallFits(call[c])

-----------------------------------------------------------------------------
\* The variables have their types.
LEMMA TreeTypes ==
  ASSUME Tree!TreeAssumption, TreeInv
  PROVE  /\ refreshes \in Nat /\ refreshes <= MaxRefreshes /\ epoch \in Nat /\ epoch <= refreshes
         /\ MaxRefreshes \in Nat /\ MaxListings \in Nat /\ MaxChanges \in Nat
         /\ listings \in Seq(Tree!Listing) /\ Len(listings) \in Nat /\ DOMAIN listings = 1..Len(listings)
         /\ \A l \in DOMAIN listings : listings[l] \in Tree!Listing /\ listings[l].asked \in Nat
         /\ \A c \in Jobs : call[c] \in Tree!Call /\ call[c].since \in Nat /\ call[c].epoch \in Nat
<1>1. MaxRefreshes \in Nat /\ MaxListings \in Nat /\ MaxChanges \in Nat
  BY DEF Tree!TreeAssumption
<1>2. Tree!TypeOK /\ epoch <= refreshes
  BY DEF TreeInv
<1>3. listings \in Seq(Tree!Listing) /\ call \in [Jobs -> Tree!Call]
      /\ refreshes \in 0..MaxRefreshes /\ epoch \in 0..MaxRefreshes
  BY <1>2 DEF Tree!TypeOK
<1>4. /\ Len(listings) \in Nat /\ DOMAIN listings = 1..Len(listings)
      /\ \A l \in DOMAIN listings : listings[l] \in Tree!Listing
  BY <1>3
<1>5. \A m \in Tree!Listing : m.asked \in Nat
  BY <1>1 DEF Tree!Listing
<1>6. \A k \in Tree!Call : k.since \in Nat /\ k.epoch \in Nat
  BY <1>1 DEF Tree!Call
<1> QED  BY <1>1, <1>2, <1>3, <1>4, <1>5, <1>6

\* One question goes on, and the rest stands.
LEMMA OneCall ==
  ASSUME Tree!TypeOK, NEW c \in Jobs, NEW r \in Tree!Call, Tree!Set(c, r)
  PROVE  /\ call' \in [Jobs -> Tree!Call] /\ call'[c] = r
         /\ \A k \in Jobs : k # c => call'[k] = call[k]
  BY DEF Tree!TypeOK, Tree!Set

\* A question goes on, and nothing else moves.
LEMMA CallGoes ==
  ASSUME Tree!TreeAssumption, TreeInv, NEW c \in Jobs, NEW r \in Tree!Call, Tree!Set(c, r), CallFits(r),
         UNCHANGED <<treeThere, filter, epoch, refreshes, treeChanges, cache, listings, quiet>>
  PROVE  TreeInv'
<1>1. /\ call' \in [Jobs -> Tree!Call] /\ call'[c] = r
      /\ \A k \in Jobs : k # c => call'[k] = call[k]
  BY OneCall DEF TreeInv
<1>2. Tree!TypeOK'
  BY <1>1 DEF TreeInv, Tree!TypeOK
<1>3. \A k \in Jobs : CallFits(call[k])'
  BY <1>1 DEF TreeInv, CallFits, SearchFits, Wanted
<1>4. /\ (\A l \in DOMAIN listings : ListingFits(listings[l]))'
      /\ (cache # <<>> => \A d \in Tree!Dirs : Remembered(d))'
  BY DEF TreeInv, ListingFits, Remembered, Tree!Dirs
<1> QED  BY <1>2, <1>3, <1>4 DEF TreeInv

\* The record of a question that has found its listing.
LEMMA Found ==
  ASSUME Tree!TreeAssumption, NEW r \in Tree!Call, NEW on \in 0..MaxListings
  PROVE  LET m == [r EXCEPT !.on = on] IN
         /\ m \in Tree!Call /\ m.at = r.at /\ m.since = r.since /\ m.filter = r.filter
         /\ m.epoch = r.epoch /\ m.on = on /\ m.shows = r.shows
  BY DEF Tree!Call

\* A search goes by what is remembered, or asks for one more listing and remembers it.
LEMMA SearchKeeps ==
  ASSUME Tree!TreeAssumption, TreeInv, NEW c \in Jobs, NEW r \in Tree!Call, NEW dir \in Tree!Dirs,
         r.at = "search", r.since <= refreshes, r.filter # "none", r.epoch <= epoch,
         r.epoch = epoch => r.filter = filter,
         Tree!Search(c, r, dir),
         UNCHANGED <<treeThere, filter, epoch, refreshes, treeChanges, quiet>>
  PROVE  TreeInv' /\ call'[c].at = "search"
         /\ \A k \in Jobs : k # c => call'[k] = call[k]
<1>1. PICK known : known = IF cache = <<>> THEN Tree!Empty ELSE cache
  OBVIOUS
<1>2. /\ known \in [Tree!Dirs -> 0..MaxListings]
      /\ \A d \in Tree!Dirs : known[d] # 0 =>
           /\ known[d] \in DOMAIN listings /\ listings[known[d]].dir = d
           /\ listings[known[d]].asked = refreshes /\ listings[known[d]].state # "failed"
  <2>1. CASE cache = <<>>
    BY <1>1, <2>1 DEF Tree!Empty, Tree!TreeAssumption
  <2>2. CASE cache # <<>>
    BY <1>1, <2>2 DEF TreeInv, Tree!TypeOK, Remembered
  <2> QED  BY <2>1, <2>2
<1>3. CASE known[dir] # 0
  <2>1. PICK m : m = [r EXCEPT !.on = known[dir]]
    OBVIOUS
  <2>2. Tree!Set(c, m) /\ cache' = known /\ UNCHANGED listings
    BY <1>1, <1>3, <2>1 DEF Tree!Search
  <2>3. /\ m \in Tree!Call /\ m.at = "search" /\ m.since = r.since /\ m.filter = r.filter
        /\ m.epoch = r.epoch /\ m.on = known[dir]
    BY <1>2, <2>1, Found
  <2>4. /\ call' \in [Jobs -> Tree!Call] /\ call'[c] = m
        /\ \A k \in Jobs : k # c => call'[k] = call[k]
    BY <2>2, <2>3, OneCall DEF TreeInv
  <2>5. Tree!TypeOK'
    BY <1>2, <2>2, <2>4 DEF TreeInv, Tree!TypeOK
  <2>6. \A k \in Jobs : CallFits(call[k])'
    <3> SUFFICES ASSUME NEW k \in Jobs PROVE CallFits(call[k])'
      OBVIOUS
    <3>1. CASE k = c
      BY <1>2, <1>3, <2>2, <2>3, <2>4, <3>1 DEF CallFits, SearchFits
    <3>2. CASE k # c
      BY <2>2, <2>4, <3>2 DEF TreeInv, CallFits, SearchFits, Wanted
    <3> QED  BY <3>1, <3>2
  <2>7. /\ (\A l \in DOMAIN listings : ListingFits(listings[l]))'
        /\ (cache # <<>> => \A d \in Tree!Dirs : Remembered(d))'
    BY <1>2, <2>2 DEF TreeInv, ListingFits, Remembered, Tree!Dirs
  <2> QED  BY <2>3, <2>4, <2>5, <2>6, <2>7 DEF TreeInv
<1>4. CASE known[dir] = 0
  <2>1. PICK m, n : /\ n = [dir |-> dir, asked |-> refreshes, state |-> "pending", has |-> FALSE]
                    /\ m = [r EXCEPT !.on = Len(listings')]
    OBVIOUS
  <2>2. /\ Len(listings) < MaxListings /\ listings' = Append(listings, n)
        /\ cache' = [known EXCEPT ![dir] = Len(listings')] /\ Tree!Set(c, m)
    BY <1>1, <1>4, <2>1 DEF Tree!Search
  <2>3. n \in Tree!Listing /\ n.dir = dir /\ n.asked = refreshes /\ n.state = "pending"
    BY <2>1, TreeTypes DEF Tree!Listing
  <2>4. /\ listings' \in Seq(Tree!Listing) /\ Len(listings') = Len(listings) + 1
        /\ DOMAIN listings' = 1..Len(listings') /\ DOMAIN listings = 1..Len(listings)
        /\ Len(listings) \in Nat /\ Len(listings') <= MaxListings /\ Len(listings') # 0
        /\ \A l \in DOMAIN listings : listings'[l] = listings[l]
        /\ listings'[Len(listings')] = n
    BY <2>2, <2>3, TreeTypes
  <2>5. /\ m \in Tree!Call /\ m.at = "search" /\ m.since = r.since /\ m.filter = r.filter
        /\ m.epoch = r.epoch /\ m.on = Len(listings')
    <3>1. Len(listings') \in 0..MaxListings
      BY <2>4, TreeTypes
    <3>2. PICK on \in 0..MaxListings : on = Len(listings')
      BY <3>1
    <3> QED  BY <2>1, <3>2, Found
  <2>6. /\ call' \in [Jobs -> Tree!Call] /\ call'[c] = m
        /\ \A k \in Jobs : k # c => call'[k] = call[k]
    BY <2>2, <2>5, OneCall DEF TreeInv
  <2>7. cache' \in [Tree!Dirs -> 0..MaxListings] /\ cache'[dir] = Len(listings')
        /\ \A d \in Tree!Dirs : d # dir => cache'[d] = known[d]
    BY <1>2, <2>2, <2>4, TreeTypes
  <2>8. Tree!TypeOK'
    BY <2>4, <2>6, <2>7 DEF TreeInv, Tree!TypeOK
  <2>9. (\A l \in DOMAIN listings : ListingFits(listings[l]))'
    <3> SUFFICES ASSUME NEW l \in DOMAIN listings' PROVE ListingFits(listings[l])'
      OBVIOUS
    <3>1. CASE l \in DOMAIN listings
      BY <2>4, <3>1 DEF TreeInv, ListingFits
    <3>2. CASE l = Len(listings')
      BY <2>3, <2>4, <3>2, TreeTypes DEF ListingFits
    <3> QED  BY <2>4, <3>1, <3>2
  <2>10. (cache # <<>> => \A d \in Tree!Dirs : Remembered(d))'
    <3> SUFFICES ASSUME NEW d \in Tree!Dirs PROVE Remembered(d)'
      BY DEF Tree!Dirs
    <3>1. CASE d = dir
      BY <2>3, <2>4, <2>7, <3>1 DEF Remembered
    <3>2. CASE d # dir
      BY <1>2, <2>4, <2>7, <3>2 DEF Remembered
    <3> QED  BY <3>1, <3>2
  <2>11. \A k \in Jobs : CallFits(call[k])'
    <3> SUFFICES ASSUME NEW k \in Jobs PROVE CallFits(call[k])'
      OBVIOUS
    <3>1. CASE k = c
      BY <2>3, <2>4, <2>5, <2>6, <3>1 DEF CallFits, SearchFits
    <3>2. CASE k # c
      <4>1. CallFits(call[k]) /\ call'[k] = call[k]
        BY <2>6, <3>2 DEF TreeInv
      <4>2. SearchFits(call[k]) => SearchFits(call[k])'
        BY <2>4, <4>1 DEF SearchFits
      <4> QED  BY <4>1, <4>2 DEF CallFits, Wanted
    <3> QED  BY <3>1, <3>2
  <2> QED  BY <2>5, <2>6, <2>8, <2>9, <2>10, <2>11 DEF TreeInv
<1> QED  BY <1>3, <1>4

\* The records that a question becomes.
LEMMA CallRecords ==
  ASSUME Tree!TreeAssumption, TreeInv, NEW k \in Tree!Call
  PROVE  /\ LET r == [k EXCEPT !.at = "search", !.filter = filter, !.epoch = epoch] IN
            /\ r \in Tree!Call /\ r.at = "search" /\ r.filter = filter /\ r.epoch = epoch
            /\ r.since = k.since
         /\ LET r == [k EXCEPT !.at = "failed"] IN
            r \in Tree!Call /\ r.at = "failed" /\ r.since = k.since
  BY TreeTypes DEF TreeInv, Tree!TypeOK, Tree!Call

\* The filter that is set is applied.
LEMMA ApplyKeeps ==
  ASSUME Tree!TreeAssumption, TreeInv, NEW c \in Jobs, Tree!Apply(c),
         UNCHANGED <<treeThere, filter, epoch, refreshes, treeChanges, quiet>>
  PROVE  TreeInv' /\ (call'[c].at = "done" => call'[c].filter = filter)
         /\ \A k \in Jobs : k # c => call'[k] = call[k]
<1>1. PICK r : r = [call[c] EXCEPT !.at = "search", !.filter = filter, !.epoch = epoch]
  OBVIOUS
<1>2. /\ r \in Tree!Call /\ r.at = "search" /\ r.filter = filter /\ r.epoch = epoch
      /\ r.since <= refreshes
  BY <1>1, TreeTypes, CallRecords DEF TreeInv, CallFits
<1>3. CASE filter = "none"
  <2>1. PICK m : m = [r EXCEPT !.at = "done", !.shows = {"f", "d"}]
    OBVIOUS
  <2>2. Tree!Set(c, m) /\ UNCHANGED <<cache, listings>>
    BY <1>1, <1>3, <2>1 DEF Tree!Apply
  <2>3. /\ m \in Tree!Call /\ m.at = "done" /\ m.filter = filter /\ m.since = r.since
        /\ m.shows = {"f", "d"}
    BY <1>2, <2>1 DEF Tree!Call
  <2>4. CallFits(m)
    BY <1>2, <1>3, <2>3 DEF CallFits, Wanted
  <2>5. call'[c] = m /\ \A k \in Jobs : k # c => call'[k] = call[k]
    BY <2>2, <2>3, OneCall DEF TreeInv
  <2>6. TreeInv'
    BY <2>2, <2>3, <2>4, CallGoes
  <2> QED  BY <2>3, <2>5, <2>6
<1>4. CASE filter # "none"
  <2>1. Tree!Search(c, r, "d") /\ "d" \in Tree!Dirs
    BY <1>1, <1>4 DEF Tree!Apply, Tree!Dirs
  <2>2. epoch <= epoch
    BY TreeTypes
  <2>3. TreeInv' /\ call'[c].at = "search" /\ \A k \in Jobs : k # c => call'[k] = call[k]
    BY <1>2, <1>4, <2>1, <2>2, SearchKeeps
  <2> QED  BY <2>3
<1> QED  BY <1>3, <1>4

\* A question of the tree goes on; one that is answered goes by the filter that is set.
LEMMA QuestionStep ==
  ASSUME Tree!TreeAssumption, TreeInv, NEW c \in Jobs,
         Tree!Ask(c) \/ Tree!Listed(c) \/ Tree!ListFails(c) \/ Tree!Descends(c)
  PROVE  /\ TreeInv'
         /\ call'[c].at = "done" => call'[c].filter = filter
         /\ \A k \in Jobs : k # c => call'[k] = call[k]
<1>0. /\ call[c] \in Tree!Call /\ CallFits(call[c]) /\ refreshes \in Nat /\ epoch \in Nat
      /\ refreshes <= MaxRefreshes /\ MaxRefreshes \in Nat
  BY TreeTypes DEF TreeInv
<1>1. CASE Tree!Ask(c)
  <2>1. PICK r : r = [Tree!NoCall EXCEPT !.at = "listing", !.since = refreshes]
    OBVIOUS
  <2>2. Tree!Set(c, r)
        /\ UNCHANGED <<treeThere, filter, epoch, refreshes, treeChanges, cache, listings, quiet>>
    BY <1>1, <2>1 DEF Tree!Ask
  <2>3. r \in Tree!Call /\ r.at = "listing" /\ r.since = refreshes
    <3>1. refreshes \in 0..MaxRefreshes /\ 0 \in 0..MaxListings /\ 0 \in 0..MaxRefreshes
      BY <1>0, TreeTypes
    <3>2. Tree!NoCall \in Tree!Call
      BY <3>1 DEF Tree!NoCall, Tree!Call, Tree!Filters
    <3> QED  BY <2>1, <3>1, <3>2 DEF Tree!Call
  <2>4. CallFits(r)
    BY <1>0, <2>3 DEF CallFits
  <2>5. call'[c] = r /\ \A k \in Jobs : k # c => call'[k] = call[k]
    BY <2>2, <2>3, OneCall DEF TreeInv
  <2>6. TreeInv'
    BY <2>2, <2>3, <2>4, CallGoes
  <2> QED  BY <2>3, <2>5, <2>6
<1>2. CASE Tree!Listed(c)
  BY <1>2, ApplyKeeps DEF Tree!Listed
<1>3. ASSUME Tree!Set(c, [call[c] EXCEPT !.at = "failed"]),
             UNCHANGED <<treeThere, filter, epoch, refreshes, treeChanges, cache, listings, quiet>>
      PROVE  /\ TreeInv'
             /\ call'[c].at = "done" => call'[c].filter = filter
             /\ \A k \in Jobs : k # c => call'[k] = call[k]
  <2>1. PICK r : r = [call[c] EXCEPT !.at = "failed"]
    OBVIOUS
  <2>2. Tree!Set(c, r)
    BY <1>3, <2>1
  <2>3. r \in Tree!Call /\ r.at = "failed" /\ r.since = call[c].since
    BY <1>0, <2>1, CallRecords
  <2>4. CallFits(r)
    BY <1>0, <2>3 DEF CallFits
  <2>5. call'[c] = r /\ \A k \in Jobs : k # c => call'[k] = call[k]
    BY <2>2, <2>3, OneCall DEF TreeInv
  <2>6. TreeInv'
    BY <1>3, <2>2, <2>3, <2>4, CallGoes
  <2> QED  BY <2>3, <2>5, <2>6
<1>4. CASE Tree!ListFails(c)
  BY <1>3, <1>4 DEF Tree!ListFails
<1>5. CASE Tree!Descends(c)
  <2>1. PICK l : l = listings[call[c].on]
    OBVIOUS
  <2>2. /\ call[c].at = "search" /\ SearchFits(call[c])
        /\ UNCHANGED <<treeThere, filter, epoch, refreshes, treeChanges, quiet>>
    BY <1>0, <1>5 DEF Tree!Descends, CallFits
  <2>3. /\ l \in Tree!Listing /\ ListingFits(l)
        /\ call[c].since = refreshes => l.asked = refreshes
    BY <2>1, <2>2, TreeTypes DEF TreeInv, SearchFits
  <2>4. \/ Tree!Set(c, [call[c] EXCEPT !.at = "failed"]) /\ UNCHANGED <<cache, listings>>
        \/ Tree!Search(c, call[c], "e")
        \/ l.state = "ok" /\ l.dir = "e"
           /\ Tree!Filtered(c, IF call[c].filter = "f" THEN {"f"} ELSE IF l.has THEN {"d"} ELSE {})
    BY <1>5, <2>1 DEF Tree!Descends
  <2>5. CASE Tree!Set(c, [call[c] EXCEPT !.at = "failed"]) /\ UNCHANGED <<cache, listings>>
    BY <1>3, <2>2, <2>5
  <2>6. CASE Tree!Search(c, call[c], "e")
    <3>1. "e" \in Tree!Dirs /\ call[c].since <= refreshes
      BY <1>0 DEF Tree!Dirs, CallFits
    <3>2. TreeInv' /\ call'[c].at = "search" /\ \A k \in Jobs : k # c => call'[k] = call[k]
      BY <1>0, <2>2, <2>6, <3>1, SearchKeeps DEF SearchFits
    <3> QED  BY <3>2
  <2>7. CASE l.state = "ok" /\ l.dir = "e"
             /\ Tree!Filtered(c, IF call[c].filter = "f" THEN {"f"} ELSE IF l.has THEN {"d"} ELSE {})
    <3>1. CASE call[c].epoch # epoch
      BY <2>2, <2>7, <3>1, ApplyKeeps DEF Tree!Filtered
    <3>2. CASE call[c].epoch = epoch
      <4>1. PICK found \in SUBSET {"f", "d"} :
              found = IF call[c].filter = "f" THEN {"f"} ELSE IF l.has THEN {"d"} ELSE {}
        OBVIOUS
      <4>2. PICK r : r = [call[c] EXCEPT !.at = "done", !.shows = found]
        OBVIOUS
      <4>3. Tree!Set(c, r) /\ UNCHANGED <<cache, listings>>
        BY <2>7, <3>2, <4>1, <4>2 DEF Tree!Filtered, Tree!Show
      <4>4. /\ r \in Tree!Call /\ r.at = "done" /\ r.filter = call[c].filter
            /\ r.since = call[c].since /\ r.shows = found
        BY <1>0, <4>1, <4>2 DEF Tree!Call
      <4>5. call[c].filter = filter /\ filter \in {"f", "g"}
        BY <2>2, <3>2 DEF SearchFits, TreeInv, Tree!TypeOK, Tree!Filters
      <4>6. CallFits(r)
        BY <1>0, <2>3, <2>7, <4>1, <4>4, <4>5 DEF CallFits, ListingFits, Wanted
      <4>7. call'[c] = r /\ \A k \in Jobs : k # c => call'[k] = call[k]
        BY <4>3, <4>4, OneCall DEF TreeInv
      <4>8. TreeInv'
        BY <2>2, <4>3, <4>4, <4>6, CallGoes
      <4> QED  BY <4>4, <4>5, <4>7, <4>8
    <3> QED  BY <3>1, <3>2
  <2> QED  BY <2>4, <2>5, <2>6, <2>7
<1> QED  BY <1>1, <1>2, <1>4, <1>5

\* A listing is answered or fails: it stands at its place as m.
LEMMA ListingGoes ==
  ASSUME Tree!TreeAssumption, TreeInv, NEW l \in DOMAIN listings, NEW m \in Tree!Listing,
         listings' = [listings EXCEPT ![l] = m],
         m.dir = listings[l].dir, m.asked = listings[l].asked, ListingFits(m),
         cache' = cache \/ (cache # <<>> /\ \E d \in Tree!Dirs : cache' = [cache EXCEPT ![d] = 0]),
         m.state = "failed" => cache' = <<>> \/ \A d \in Tree!Dirs : cache'[d] # l,
         UNCHANGED <<treeThere, filter, epoch, refreshes, treeChanges, call, quiet>>
  PROVE  TreeInv'
<1>1. /\ listings' \in Seq(Tree!Listing) /\ DOMAIN listings' = DOMAIN listings
      /\ Len(listings') = Len(listings) /\ listings'[l] = m
      /\ \A i \in DOMAIN listings : i # l => listings'[i] = listings[i]
  BY TreeTypes
<1>2. cache # <<>> => cache \in [Tree!Dirs -> 0..MaxListings]
  BY DEF TreeInv, Tree!TypeOK
<1>3. MaxListings \in Nat
  BY DEF Tree!TreeAssumption
<1>4. /\ cache' = <<>> \/ cache' \in [Tree!Dirs -> 0..MaxListings]
      /\ cache' # <<>> => cache # <<>> /\ \A d \in Tree!Dirs : cache'[d] # 0 => cache'[d] = cache[d]
  <2>1. CASE cache' = cache
    BY <1>2, <2>1
  <2>2. CASE cache # <<>> /\ \E d \in Tree!Dirs : cache' = [cache EXCEPT ![d] = 0]
    BY <1>2, <1>3, <2>2
  <2> QED  BY <2>1, <2>2
<1>5. Tree!TypeOK'
  BY <1>1, <1>4 DEF TreeInv, Tree!TypeOK
<1>6. (\A i \in DOMAIN listings : ListingFits(listings[i]))'
  BY <1>1 DEF TreeInv, ListingFits
<1>7. (cache # <<>> => \A d \in Tree!Dirs : Remembered(d))'
  <2> SUFFICES ASSUME cache' # <<>>, NEW d \in Tree!Dirs, cache'[d] # 0 PROVE Remembered(d)'
    BY DEF Remembered, Tree!Dirs
  <2>1. cache'[d] = cache[d] /\ Remembered(d)
    BY <1>4 DEF TreeInv
  <2>2. CASE cache[d] = l
    BY <1>1, <2>1, <2>2 DEF Remembered
  <2>3. CASE cache[d] # l
    BY <1>1, <2>1, <2>3 DEF Remembered
  <2> QED  BY <2>2, <2>3
<1>8. (\A c \in Jobs : CallFits(call[c]))'
  <2> SUFFICES ASSUME NEW c \in Jobs PROVE CallFits(call[c])'
    OBVIOUS
  <2>1. CallFits(call[c]) /\ call' = call
    BY DEF TreeInv
  <2>2. SearchFits(call[c]) => SearchFits(call[c])'
    BY <1>1, <2>1 DEF SearchFits
  <2> QED  BY <2>1, <2>2 DEF CallFits, Wanted
<1> QED  BY <1>5, <1>6, <1>7, <1>8 DEF TreeInv

\* The tree is refreshed, with the filter that was set or another one.
LEMMA RefreshedKeeps ==
  ASSUME Tree!TreeAssumption, TreeInv, Tree!Refreshed, filter' \in Tree!Filters,
         epoch' \in {epoch, epoch + 1}, epoch' = epoch => filter' = filter
  PROVE  TreeInv'
<1>1. /\ refreshes \in Nat /\ refreshes < MaxRefreshes /\ refreshes' = refreshes + 1
      /\ MaxRefreshes \in Nat /\ epoch \in Nat /\ epoch <= refreshes
      /\ cache' = <<>> /\ quiet' = TRUE /\ UNCHANGED <<treeThere, treeChanges, listings, call>>
  BY TreeTypes DEF Tree!Refreshed
<1>2. Tree!TypeOK' /\ epoch' <= refreshes'
  BY <1>1 DEF TreeInv, Tree!TypeOK
<1>3. (\A l \in DOMAIN listings : ListingFits(listings[l]))'
  <2>1. \A l \in DOMAIN listings : ListingFits(listings[l]) /\ listings[l].asked \in Nat
    BY TreeTypes DEF TreeInv
  <2> QED  BY <1>1, <2>1 DEF ListingFits
<1>4. (\A c \in Jobs : CallFits(call[c]))'
  <2> SUFFICES ASSUME NEW c \in Jobs PROVE CallFits(call[c])'
    OBVIOUS
  <2>1. CallFits(call[c]) /\ call[c].since \in Nat /\ call[c].epoch \in Nat
    BY TreeTypes DEF TreeInv
  <2> QED  BY <1>1, <2>1 DEF CallFits, SearchFits
<1> QED  BY <1>1, <1>2, <1>3, <1>4 DEF TreeInv

\* Whatever comes about besides the questions.
LEMMA TreeStep ==
  ASSUME Tree!TreeAssumption, TreeInv, Tree!Next
  PROVE  TreeInv'
<1>1. CASE \E c \in Jobs : Tree!Ask(c) \/ Tree!Listed(c) \/ Tree!ListFails(c) \/ Tree!Descends(c)
  BY <1>1, QuestionStep
<1>2. ASSUME NEW l \in DOMAIN listings, Tree!Answers(l) PROVE TreeInv'
  <2>1. PICK m : m = [listings[l] EXCEPT !.state = "ok", !.has = treeThere]
    OBVIOUS
  <2>2. /\ listings' = [listings EXCEPT ![l] = m]
        /\ UNCHANGED <<treeThere, filter, epoch, refreshes, treeChanges, cache, call, quiet>>
    BY <1>2, <2>1 DEF Tree!Answers
  <2>3. /\ m \in Tree!Listing /\ m.dir = listings[l].dir /\ m.asked = listings[l].asked
        /\ m.state = "ok" /\ m.has = treeThere
    BY <2>1, TreeTypes DEF Tree!Listing, TreeInv, Tree!TypeOK
  <2>4. ListingFits(m)
    BY <2>3 DEF TreeInv, ListingFits
  <2> QED  BY <2>2, <2>3, <2>4, ListingGoes
<1>3. ASSUME NEW l \in DOMAIN listings, Tree!Fails(l) PROVE TreeInv'
  <2>1. PICK m : m = [listings[l] EXCEPT !.state = "failed"]
    OBVIOUS
  <2>2. /\ listings' = [listings EXCEPT ![l] = m]
        /\ cache' = IF cache # <<>> /\ listings[l].asked = refreshes
                    THEN [cache EXCEPT ![listings[l].dir] = 0] ELSE cache
        /\ UNCHANGED <<treeThere, filter, epoch, refreshes, treeChanges, call, quiet>>
    BY <1>3, <2>1 DEF Tree!Fails
  <2>3. /\ m \in Tree!Listing /\ m.dir = listings[l].dir /\ m.asked = listings[l].asked
        /\ m.state = "failed" /\ listings[l].dir \in Tree!Dirs
    BY <2>1, TreeTypes DEF Tree!Listing
  <2>4. ListingFits(m)
    BY <2>3 DEF TreeInv, ListingFits
  <2>5. cache' = cache \/ (cache # <<>> /\ \E d \in Tree!Dirs : cache' = [cache EXCEPT ![d] = 0])
    BY <2>2, <2>3
  <2>6. cache' = <<>> \/ \A d \in Tree!Dirs : cache'[d] # l
    <3> SUFFICES ASSUME cache' # <<>>, NEW d \in Tree!Dirs, cache'[d] = l PROVE FALSE
      OBVIOUS
    <3>0. l # 0
      BY TreeTypes
    <3>1. cache # <<>> /\ cache \in [Tree!Dirs -> 0..MaxListings]
      BY <2>2 DEF TreeInv, Tree!TypeOK
    <3>2. Remembered(d)
      BY <3>1 DEF TreeInv
    <3>3. CASE listings[l].asked = refreshes
      <4>1. cache' = [cache EXCEPT ![listings[l].dir] = 0]
        BY <2>2, <3>1, <3>3
      <4>2. d # listings[l].dir /\ cache[d] = l
        BY <2>3, <3>0, <3>1, <4>1
      <4> QED  BY <3>0, <3>2, <4>2 DEF Remembered
    <3>4. CASE listings[l].asked # refreshes
      BY <2>2, <3>0, <3>2, <3>4 DEF Remembered
    <3> QED  BY <3>3, <3>4
  <2> QED  BY <2>2, <2>3, <2>4, <2>5, <2>6, ListingGoes
<1>4. CASE Tree!Refresh
  <2>1. filter \in Tree!Filters
    BY DEF TreeInv, Tree!TypeOK
  <2> QED  BY <1>4, <2>1, RefreshedKeeps DEF Tree!Refresh
<1>5. CASE \E f \in Tree!Filters : Tree!SetFilter(f)
  <2>1. epoch \in Nat
    BY TreeTypes
  <2> QED  BY <1>5, <2>1, RefreshedKeeps DEF Tree!SetFilter
<1>6. CASE Tree!Change
  <2>1. /\ treeChanges \in 0..MaxChanges /\ treeChanges < MaxChanges /\ treeChanges' = treeChanges + 1
        /\ treeThere' \in BOOLEAN /\ quiet' = FALSE /\ MaxChanges \in Nat
        /\ UNCHANGED <<filter, epoch, refreshes, cache, listings, call>>
    BY <1>6 DEF Tree!Change, TreeInv, Tree!TypeOK, Tree!TreeAssumption
  <2>2. Tree!TypeOK' /\ epoch' <= refreshes'
    <3>1. treeChanges' \in 0..MaxChanges
      BY <2>1
    <3> QED  BY <2>1, <3>1 DEF TreeInv, Tree!TypeOK
  <2>3. /\ (\A l \in DOMAIN listings : ListingFits(listings[l]))'
        /\ (\A c \in Jobs : CallFits(call[c]))'
    BY <2>1 DEF TreeInv, ListingFits, CallFits, SearchFits
  <2>4. (cache # <<>> => \A d \in Tree!Dirs : Remembered(d))'
    BY <2>1 DEF TreeInv, Remembered, Tree!Dirs
  <2> QED  BY <2>2, <2>3, <2>4 DEF TreeInv
<1> QED  BY <1>1, <1>2, <1>3, <1>4, <1>5, <1>6 DEF Tree!Next

\* At first nothing is asked, listed or remembered.
LEMMA TreeBegins ==
  ASSUME Tree!TreeAssumption, Tree!Init
  PROVE  TreeInv
<1>1. /\ treeThere \in BOOLEAN /\ filter = "none" /\ epoch = 0 /\ refreshes = 0 /\ treeChanges = 0
      /\ cache = <<>> /\ listings = <<>> /\ call = [c \in Jobs |-> Tree!NoCall] /\ quiet = TRUE
      /\ MaxRefreshes \in Nat /\ MaxListings \in Nat /\ MaxChanges \in Nat
  BY DEF Tree!Init, Tree!TreeAssumption
<1>2. Tree!NoCall \in Tree!Call /\ Tree!NoCall.at = "idle" /\ Tree!NoCall.since = 0
  BY <1>1 DEF Tree!NoCall, Tree!Call, Tree!Filters
<1>3. listings \in Seq(Tree!Listing) /\ Len(listings) = 0 /\ DOMAIN listings = {}
  BY <1>1
<1>4. Tree!TypeOK
  BY <1>1, <1>2, <1>3 DEF Tree!TypeOK, Tree!Filters
<1>5. \A c \in Jobs : CallFits(call[c])
  BY <1>1, <1>2 DEF CallFits
<1> QED  BY <1>1, <1>3, <1>4, <1>5 DEF TreeInv

\* No variable of the tree changes when another part moves.
LEMMA TreeStands ==
  ASSUME TreeInv, UNCHANGED treeVars
  PROVE  TreeInv'
<1>1. UNCHANGED <<treeThere, filter, epoch, refreshes, treeChanges, cache, listings, call, quiet>>
  BY DEF treeVars
<1>2. Tree!TypeOK' /\ epoch' <= refreshes'
  BY <1>1 DEF TreeInv, Tree!TypeOK
<1>3. /\ (\A l \in DOMAIN listings : ListingFits(listings[l]))'
      /\ (\A c \in Jobs : CallFits(call[c]))'
  BY <1>1 DEF TreeInv, ListingFits, CallFits, SearchFits, Wanted
<1>4. (cache # <<>> => \A d \in Tree!Dirs : Remembered(d))'
  BY <1>1 DEF TreeInv, Remembered, Tree!Dirs
<1> QED  BY <1>2, <1>3, <1>4 DEF TreeInv

\* What is shown is what is there, and no failed listing is remembered.
LEMMA TreeMeans ==
  ASSUME TreeInv
  PROVE  Tree!ShowsTheServer /\ Tree!NothingPoisoned
<1>1. Tree!ShowsTheServer
  BY DEF TreeInv, CallFits, Wanted, Tree!ShowsTheServer
<1>2. Tree!NothingPoisoned
  BY DEF TreeInv, Remembered, Tree!NothingPoisoned
<1> QED  BY <1>1, <1>2

\* Only a question that goes on is answered.
LEMMA TreeShows ==
  ASSUME Tree!TreeAssumption, TreeInv, Tree!Next
  PROVE  \A c \in Jobs : call[c].at # "done" /\ call'[c].at = "done" => call'[c].filter = filter
<1>1. CASE \E k \in Jobs : Tree!Ask(k) \/ Tree!Listed(k) \/ Tree!ListFails(k) \/ Tree!Descends(k)
  <2>1. PICK k \in Jobs : Tree!Ask(k) \/ Tree!Listed(k) \/ Tree!ListFails(k) \/ Tree!Descends(k)
    BY <1>1
  <2>2. /\ call'[k].at = "done" => call'[k].filter = filter
        /\ \A c \in Jobs : c # k => call'[c] = call[c]
    BY <2>1, QuestionStep
  <2> QED  BY <2>2
<1>2. CASE UNCHANGED call
  BY <1>2
<1> QED  BY <1>1, <1>2 DEF Tree!Next, Tree!Answers, Tree!Fails, Tree!Refresh, Tree!SetFilter,
                            Tree!Refreshed, Tree!Change

-----------------------------------------------------------------------------
Pending == {"asked", "look", "rename"}

\* A row is in the directory everything goes to, or was overwritten there.
Arrived(i) == place[i] = <<>> \/ Drop!isRemotePathAtOrUnder(target.path, place[i])

\* What was planned at the drop still is.
PlanStands ==
  /\ target = <<>> => picked = {} /\ \A i \in Rows : move[i] = "none"
  /\ target # <<>> =>
       /\ Drop!Skipped(picked, target) \subseteq told
       /\ \A i \in Rows : move[i] # "none" <=> i \in Drop!Moves(picked, target)

\* A row stays where it was until it arrives; one whose move has yet to come has stayed.
PlacesFit ==
  /\ \A i \in Rows : place[i] = i.path \/ (target # <<>> /\ i.root = target.root /\ Arrived(i))
  /\ \A i \in Rows : move[i] \in Pending => place[i] = i.path
  /\ \A i, k \in Rows :
       move[i] = "done" /\ k.root = i.root /\ Drop!isRemotePathAtOrUnder(i.path, k.path) => Arrived(k)

\* A move that failed has been reported.
Reported == \A i \in Rows : move[i] \in {"taken", "failed"} => i \in told

\* A new name that was free when it was looked at still is.
StillFree ==
  /\ Drop!NothingOverwritten
  /\ ~ Drop!SameName /\ ~ blind =>
       \A i \in Rows : move[i] = "rename" => Drop!At(i, Drop!NewPath(target.path, i.path)) = {}

DropInv ==
  /\ Drop!TypeOK /\ PlanStands /\ PlacesFit /\ Reported /\ StillFree
  /\ Drop!NoneVanishes

-----------------------------------------------------------------------------
\* A path is at or under another one when it begins with it.
LEMMA UnderIs ==
  ASSUME NEW S, NEW b \in Seq(S), NEW p \in Seq(S)
  PROVE  Drop!isRemotePathAtOrUnder(b, p) <=> Len(b) <= Len(p) /\ \A n \in 1..Len(b) : p[n] = b[n]
<1>1. CASE Len(b) <= Len(p)
  <2>1. /\ SubSeq(p, 1, Len(b)) \in Seq(S) /\ Len(SubSeq(p, 1, Len(b))) = Len(b)
        /\ \A n \in 1..Len(b) : SubSeq(p, 1, Len(b))[n] = p[n]
    BY <1>1
  <2>2. PICK c : c = SubSeq(p, 1, Len(b))
    OBVIOUS
  <2>3. c \in Seq(S) /\ Len(c) = Len(b) /\ \A n \in 1..Len(b) : c[n] = p[n]
    BY <2>1, <2>2
  <2>4. c = b <=> \A n \in 1..Len(b) : c[n] = b[n]
    BY <2>3
  <2>5. (\A n \in 1..Len(b) : c[n] = b[n]) <=> \A n \in 1..Len(b) : p[n] = b[n]
    BY <2>3
  <2> QED  BY <1>1, <2>2, <2>4, <2>5 DEF Drop!isRemotePathAtOrUnder
<1>2. CASE ~ Len(b) <= Len(p)
  BY <1>2 DEF Drop!isRemotePathAtOrUnder
<1> QED  BY <1>1, <1>2

\* A path is at or under itself.
LEMMA UnderItself ==
  ASSUME NEW S, NEW p \in Seq(S)
  PROVE  Drop!isRemotePathAtOrUnder(p, p)
  BY UnderIs

\* What one sequence and another make.
LEMMA ConcatIs ==
  ASSUME NEW S, NEW q \in Seq(S), NEW s \in Seq(S)
  PROVE  /\ q \o s \in Seq(S) /\ Len(q \o s) = Len(q) + Len(s) /\ Len(s) \in Nat
         /\ \A n \in 1..Len(q) : (q \o s)[n] = q[n]
  OBVIOUS

\* The new name of a path, and what comes below it.
LEMMA NewPathIs ==
  ASSUME NEW S, NEW t \in Seq(S), NEW p \in Seq(S), p # <<>>, NEW s \in Seq(S)
  PROVE  /\ Drop!NewPath(t, p) \in Seq(S) /\ Drop!NewPath(t, p) \o s \in Seq(S)
         /\ Drop!NewPath(t, p) # <<>> /\ Drop!NewPath(t, p) \o s # <<>>
         /\ Drop!dirname(Drop!NewPath(t, p)) = t
         /\ Drop!isRemotePathAtOrUnder(t, Drop!NewPath(t, p) \o s)
<1>1. p[Len(p)] \in S /\ Len(t) \in Nat
  OBVIOUS
<1>2. PICK q : q = Drop!NewPath(t, p)
  OBVIOUS
<1>3. /\ q \in Seq(S) /\ Len(q) = Len(t) + 1 /\ \A n \in 1..Len(t) : q[n] = t[n]
  BY <1>1, <1>2 DEF Drop!NewPath
<1>4. /\ q \o s \in Seq(S) /\ Len(q \o s) = Len(q) + Len(s) /\ Len(s) \in Nat
      /\ \A n \in 1..Len(q) : (q \o s)[n] = q[n]
  BY <1>3, ConcatIs
<1>5. Drop!dirname(q) = t
  <2>1. /\ SubSeq(q, 1, Len(t)) \in Seq(S) /\ Len(SubSeq(q, 1, Len(t))) = Len(t)
        /\ \A n \in 1..Len(t) : SubSeq(q, 1, Len(t))[n] = t[n]
    BY <1>1, <1>3
  <2>2. SubSeq(q, 1, Len(t)) = t
    BY <2>1
  <2> QED  BY <1>1, <1>3, <2>2 DEF Drop!dirname
<1>6. Drop!isRemotePathAtOrUnder(t, q \o s)
  <2>1. PICK r : r = q \o s
    OBVIOUS
  <2>2. r \in Seq(S) /\ Len(t) <= Len(r) /\ \A n \in 1..Len(t) : r[n] = t[n]
    BY <1>1, <1>3, <1>4, <2>1
  <2>3. Drop!isRemotePathAtOrUnder(t, r)
    BY <2>2, UnderIs
  <2> QED  BY <2>1, <2>3
<1>7. q # <<>> /\ q \o s # <<>>
  BY <1>1, <1>3, <1>4
<1> QED  BY <1>2, <1>3, <1>4, <1>5, <1>6, <1>7

\* What comes below one new name is another one only if both are of one name.
LEMMA NewPathsDiffer ==
  ASSUME NEW S, NEW t \in Seq(S), NEW p \in Seq(S), p # <<>>, NEW q \in Seq(S), q # <<>>,
         NEW s \in Seq(S), Drop!NewPath(t, p) \o s = Drop!NewPath(t, q)
  PROVE  p[Len(p)] = q[Len(q)]
<1>1. PICK x \in S, y \in S : x = p[Len(p)] /\ y = q[Len(q)]
  OBVIOUS
<1>2. PICK a, b : a = Append(t, x) /\ b = Append(t, y)
  OBVIOUS
<1>3. /\ a \in Seq(S) /\ Len(a) = Len(t) + 1 /\ a[Len(t) + 1] = x /\ Len(t) \in Nat
      /\ b \in Seq(S) /\ Len(b) = Len(t) + 1 /\ b[Len(t) + 1] = y
  BY <1>2
<1>4. (a \o s)[Len(t) + 1] = a[Len(t) + 1]
  BY <1>3, ConcatIs
<1>5. a \o s = b
  BY <1>1, <1>2 DEF Drop!NewPath
<1> QED  BY <1>1, <1>3, <1>4, <1>5

\* A row of the tree is known by its root and its path.
LEMMA RowIs ==
  ASSUME Drop!DropAssumption, NEW i \in Rows
  PROVE  /\ i.path \in Seq(STRING) /\ i.path # <<>> /\ i # <<>>
         /\ \A j \in Rows : i.root = j.root /\ i.path = j.path => i = j
<1>1. \A j \in Rows : j = [root |-> j.root, path |-> j.path]
  BY DEF Drop!DropAssumption
<1>2. i # <<>>
  <2>1. i = [root |-> i.root, path |-> i.path]
    BY <1>1
  <2>2. "path" \in DOMAIN i
    BY <2>1
  <2>3. DOMAIN <<>> = {}
    OBVIOUS
  <2> QED  BY <2>2, <2>3
<1>3. i.path \in Seq(STRING) /\ i.path # <<>>
  BY DEF Drop!DropAssumption
<1>4. ASSUME NEW j \in Rows, i.root = j.root, i.path = j.path PROVE i = j
  BY <1>1, <1>4
<1> QED  BY <1>2, <1>3, <1>4

\* What is moved, and where it is while its move has yet to come.
LEMMA MoverIs ==
  ASSUME Drop!DropAssumption, DropInv, NEW i \in Rows, move[i] # "none"
  PROVE  /\ target \in Folders /\ target \in Rows /\ target # <<>> /\ target.path \in Seq(STRING)
         /\ i \in picked /\ i.root = target.root /\ Drop!dirname(i.path) # target.path
         /\ ~ Drop!isRemotePathAtOrUnder(i.path, target.path)
         /\ \A o \in picked : ~ (o.path # i.path /\ Drop!isRemotePathAtOrUnder(o.path, i.path))
<1>1. target # <<>> /\ i \in Drop!Moves(picked, target)
  BY DEF DropInv, PlanStands
<1>2. target \in Folders /\ target \in Rows
  BY <1>1 DEF DropInv, Drop!TypeOK, Drop!DropAssumption
<1>3. target.path \in Seq(STRING)
  BY <1>2, RowIs
<1> QED  BY <1>1, <1>2, <1>3 DEF Drop!Moves, Drop!Skipped, Drop!MovesWithAnother

DropMove == {"none", "asked", "look", "rename", "done", "taken", "vanished", "failed", "dropped"}

\* A move goes on, and the rest stands.
LEMMA OneMove ==
  ASSUME Drop!TypeOK, NEW i \in Rows, NEW at \in DropMove, Drop!Set(i, at)
  PROVE  /\ move' \in [Rows -> DropMove] /\ move'[i] = at
         /\ \A j \in Rows : j # i => move'[j] = move[j]
         /\ told' \in {told, told \cup {i}} /\ (at \in {"taken", "vanished", "failed"} => i \in told')
         /\ UNCHANGED <<protocol, picked, target>>
  BY DEF Drop!TypeOK, Drop!Set, DropMove

\* No file has moved.
LEMMA MoveGoes ==
  ASSUME Drop!DropAssumption, DropInv, NEW i \in Rows, move[i] \in Pending,
         NEW at \in {"rename", "taken", "failed"}, Drop!Set(i, at), UNCHANGED place,
         blind' \in BOOLEAN, blind => blind',
         at = "rename" /\ ~ blind' => Drop!At(i, Drop!NewPath(target.path, i.path)) = {}
  PROVE  DropInv'
<1>1. /\ move' \in [Rows -> DropMove] /\ move'[i] = at
      /\ \A j \in Rows : j # i => move'[j] = move[j]
      /\ told' \in {told, told \cup {i}} /\ (at \in {"taken", "failed"} => i \in told')
      /\ UNCHANGED <<protocol, picked, target>>
  BY OneMove DEF DropInv, DropMove
<1>2. move[i] # "none" /\ i \in picked
  BY MoverIs DEF Pending
<1>3. Drop!TypeOK'
  BY <1>1, <1>2 DEF DropInv, Drop!TypeOK, DropMove
<1>4. PlanStands'
  BY <1>1, <1>2, MoverIs DEF DropInv, PlanStands, Pending
<1>5. PlacesFit'
  <2>1. \A j \in Rows : Arrived(j)' <=> Arrived(j)
    BY <1>1 DEF Arrived
  <2>2. \A j \in Rows : /\ move'[j] \in Pending => move[j] \in Pending
                        /\ move'[j] = "done" => move[j] = "done"
    BY <1>1 DEF Pending
  <2> QED  BY <1>1, <2>1, <2>2 DEF DropInv, PlacesFit, Pending
<1>6. Reported'
  BY <1>1 DEF DropInv, Reported
<1>7. StillFree'
  <2>1. Drop!SameName' <=> Drop!SameName
    BY <1>1 DEF Drop!SameName
  <2>2. Drop!NothingOverwritten'
    BY <1>1, <2>1 DEF DropInv, StillFree, Drop!NothingOverwritten
  <2>3. ASSUME ~ Drop!SameName, ~ blind', NEW j \in Rows, move'[j] = "rename"
        PROVE  Drop!At(j, Drop!NewPath(target.path, j.path)) = {}
    BY <1>1, <2>3 DEF DropInv, StillFree
  <2>4. \A j \in Rows : Drop!At(j, Drop!NewPath(target.path, j.path))'
                        = Drop!At(j, Drop!NewPath(target.path, j.path))
    BY <1>1 DEF Drop!At, Drop!NewPath
  <2> QED  BY <2>1, <2>2, <2>3, <2>4 DEF StillFree
<1>8. Drop!NoneVanishes'
  BY <1>1 DEF DropInv, Drop!NoneVanishes
<1> QED  BY <1>3, <1>4, <1>5, <1>6, <1>7, <1>8 DEF DropInv

\* A row is renamed, and what is below it.
LEMMA RenameStep ==
  ASSUME Drop!DropAssumption, DropInv, NEW i \in Rows, Drop!Rename(i)
  PROVE  DropInv'
<1> DEFINE to == Drop!NewPath(target.path, i.path)
           others == Drop!At(i, to)
<1>1. move[i] = "rename" /\ blind' = blind
  BY DEF Drop!Rename
<1>2. /\ target \in Rows /\ target # <<>> /\ target.path \in Seq(STRING) /\ i \in picked
      /\ i.root = target.root
  BY <1>1, MoverIs
<1>3. place[i] = i.path /\ i.path \in Seq(STRING) /\ i.path # <<>>
  BY <1>1, RowIs DEF DropInv, PlacesFit, Pending
<1>4. i \in Drop!At(i, i.path)
  BY <1>3 DEF Drop!At
<1>5. CASE Drop!Set(i, "taken") /\ UNCHANGED place
  BY <1>1, <1>5, MoveGoes DEF Pending, DropInv, Drop!TypeOK
<1>6. CASE /\ Drop!Set(i, "done") /\ (others = {} \/ protocol = "ftp")
           /\ place' = [j \in Rows |-> IF j \in others THEN <<>> ELSE Drop!Renamed(i, to)[j]]
  <2>1. /\ move' \in [Rows -> DropMove] /\ move'[i] = "done"
        /\ \A j \in Rows : j # i => move'[j] = move[j]
        /\ told' \in {told, told \cup {i}}
        /\ UNCHANGED <<protocol, picked, target>>
    BY <1>6, OneMove DEF DropInv, DropMove
  <2>2. \A j \in Rows : place[j] \in Seq(STRING)
    BY DEF DropInv, Drop!TypeOK
  <2>3. ASSUME NEW j \in Rows
        PROVE  IF j \in others THEN place'[j] = <<>>
               ELSE IF j.root = i.root /\ Drop!isRemotePathAtOrUnder(i.path, place[j])
               THEN \E s \in Seq(STRING) : place'[j] = to \o s
               ELSE place'[j] = place[j]
    <3>1. CASE j \in others
      BY <1>6, <3>1
    <3>2. CASE j \notin others
      <4>1. place'[j] = IF j.root = i.root /\ Drop!isRemotePathAtOrUnder(i.path, place[j])
                        THEN to \o SubSeq(place[j], Len(i.path) + 1, Len(place[j])) ELSE place[j]
        BY <1>6, <3>2 DEF Drop!Renamed
      <4>2. SubSeq(place[j], Len(i.path) + 1, Len(place[j])) \in Seq(STRING)
        BY <1>3, <2>2
      <4> QED  BY <3>2, <4>1, <4>2
    <3> QED  BY <3>1, <3>2
  <2>4. \A s \in Seq(STRING) :
          /\ to \o s \in Seq(STRING) /\ to \o s # <<>>
          /\ Drop!isRemotePathAtOrUnder(target.path, to \o s)
    BY <1>2, <1>3, NewPathIs
  <2>5. to # <<>> /\ Drop!dirname(to) = target.path
    <3>1. <<>> \in Seq(STRING)
      OBVIOUS
    <3> QED  BY <1>2, <1>3, <3>1, NewPathIs
  <2> HIDE DEF to, others
  <2>6. \A j \in others : j \in Rows /\ j.root = i.root /\ place[j] = to
    BY DEF others, Drop!At
  <2>7. \A j \in Rows :
          place'[j] = place[j] \/ (place'[j] = <<>> /\ j \in others)
          \/ /\ place'[j] # <<>> /\ place'[j] \in Seq(STRING)
             /\ Drop!isRemotePathAtOrUnder(target.path, place'[j]) /\ j.root = i.root
             /\ \E s \in Seq(STRING) : place'[j] = to \o s
    BY <2>3, <2>4
  <2>8. \A j \in Rows : Arrived(j) => Arrived(j)'
    BY <2>1, <2>7 DEF Arrived
  <2>9. \A j \in Rows : place'[j] \in Seq(STRING)
    <3>1. <<>> \in Seq(STRING)
      OBVIOUS
    <3> QED  BY <2>2, <2>7, <3>1
  <2>10. Drop!TypeOK'
    BY <1>1, <1>2, <2>1, <2>9 DEF DropInv, Drop!TypeOK, DropMove
  <2>11. PlanStands'
    BY <1>1, <1>2, <2>1 DEF DropInv, PlanStands
  <2>12. PlacesFit'
    <3>1. ASSUME NEW j \in Rows
          PROVE  place'[j] = j.path \/ (target' # <<>> /\ j.root = target'.root /\ Arrived(j)')
      BY <1>2, <2>1, <2>6, <2>7, <2>8 DEF DropInv, PlacesFit, Arrived
    <3>2. ASSUME NEW j \in Rows, move'[j] \in Pending PROVE place'[j] = j.path
      <4>1. j # i /\ move[j] \in Pending
        BY <2>1, <3>2 DEF Pending
      <4>2. /\ place[j] = j.path /\ j.root = target.root /\ Drop!dirname(j.path) # target.path
            /\ ~ (i.path # j.path /\ Drop!isRemotePathAtOrUnder(i.path, j.path))
        BY <1>2, <4>1, MoverIs DEF DropInv, PlacesFit, Pending
      <4>3. j \notin others
        BY <2>5, <2>6, <4>2
      <4>4. i.path # j.path
        BY <1>2, <4>1, <4>2, RowIs
      <4> QED  BY <2>3, <4>2, <4>3, <4>4
    <3>3. ASSUME NEW m \in Rows, NEW k \in Rows, move'[m] = "done", k.root = m.root,
                 Drop!isRemotePathAtOrUnder(m.path, k.path)
          PROVE  Arrived(k)'
      <4>1. CASE m # i \/ Arrived(k)
        BY <2>1, <2>8, <3>3, <4>1 DEF DropInv, PlacesFit
      <4>2. CASE m = i /\ ~ Arrived(k)
        <5>1. place[k] = k.path
          BY <4>2 DEF DropInv, PlacesFit
        <5> QED  BY <2>1, <2>3, <2>4, <3>3, <4>2, <5>1 DEF Arrived
      <4> QED  BY <4>1, <4>2
    <3> QED  BY <3>1, <3>2, <3>3 DEF PlacesFit
  <2>13. Reported'
    BY <2>1 DEF DropInv, Reported
  <2>14. Drop!SameName' <=> Drop!SameName
    BY <2>1 DEF Drop!SameName
  <2>15. Drop!NothingOverwritten'
    <3> SUFFICES ASSUME protocol = "sftp" \/ ~ (Drop!SameName \/ blind), NEW j \in Rows
                 PROVE  place'[j] # <<>>
      BY <1>1, <2>1, <2>14 DEF Drop!NothingOverwritten
    <3>1. others = {}
      <4>1. CASE protocol = "sftp"
        BY <1>6, <4>1
      <4>2. CASE ~ Drop!SameName /\ ~ blind
        BY <1>1, <4>2 DEF DropInv, StillFree, others, to
      <4> QED  BY <4>1, <4>2
    <3>2. place[j] # <<>>
      BY DEF DropInv, StillFree, Drop!NothingOverwritten
    <3> QED  BY <2>7, <3>1, <3>2
  <2>16. StillFree'
    <3> SUFFICES ASSUME ~ Drop!SameName, ~ blind, NEW j \in Rows, move'[j] = "rename",
                        NEW k \in Rows, k.root = j.root,
                        place'[k] = Drop!NewPath(target.path, j.path)
                 PROVE  FALSE
      BY <1>1, <2>1, <2>14, <2>15 DEF StillFree, Drop!At, Drop!NewPath
    <3>1. j # i /\ move[j] = "rename" /\ j \in picked /\ j.path \in Seq(STRING) /\ j.path # <<>>
      BY <2>1, MoverIs, RowIs
    <3>2. Drop!At(j, Drop!NewPath(target.path, j.path)) = {}
      BY <3>1 DEF DropInv, StillFree
    <3>3. place'[k] # place[k]
      BY <3>2 DEF Drop!At
    <3>4. place'[k] # <<>>
      <4>1. <<>> \in Seq(STRING)
        OBVIOUS
      <4> QED  BY <1>2, <3>1, <4>1, NewPathIs
    <3>5. PICK s \in Seq(STRING) : place'[k] = to \o s
      BY <2>7, <3>3, <3>4
    <3>6. i.path[Len(i.path)] = j.path[Len(j.path)]
      <4>1. Drop!NewPath(target.path, i.path) \o s = Drop!NewPath(target.path, j.path)
        BY <3>5 DEF to
      <4>2. PICK t, p, q : t = target.path /\ p = i.path /\ q = j.path
        OBVIOUS
      <4>3. p[Len(p)] = q[Len(q)]
        BY <1>2, <1>3, <3>1, <4>1, <4>2, NewPathsDiffer
      <4> QED  BY <4>2, <4>3
    <3> QED  BY <1>2, <3>1, <3>6 DEF Drop!SameName
  <2>17. Drop!NoneVanishes'
    BY <2>1 DEF DropInv, Drop!NoneVanishes
  <2> QED  BY <2>10, <2>11, <2>12, <2>13, <2>16, <2>17 DEF DropInv
<1> QED  BY <1>4, <1>5, <1>6 DEF Drop!Rename

\* The drop: everything is where it was.
LEMMA DropBeginsStep ==
  ASSUME Drop!DropAssumption, DropInv, NEW S \in SUBSET Rows, NEW t \in Folders, Drop!Drop(S, t)
  PROVE  DropInv'
<1>1. /\ target = <<>> /\ picked' = S /\ target' = t /\ told' = Drop!Skipped(S, t)
      /\ move' \in [Rows -> DropMove]
      /\ \A i \in Rows : /\ move'[i] \in {"none", "asked", "look"}
                         /\ move'[i] # "none" <=> i \in Drop!Moves(S, t)
      /\ UNCHANGED <<protocol, place, blind>>
  BY DEF Drop!Drop, DropMove
<1>2. t \in Rows /\ t # <<>>
  BY RowIs DEF Drop!DropAssumption
<1>3. \A i \in Rows : place[i] = i.path /\ place[i] # <<>>
  BY <1>1, RowIs DEF DropInv, PlacesFit
<1>4. Drop!TypeOK'
  <2>1. Drop!Skipped(S, t) \subseteq S
    BY DEF Drop!Skipped
  <2> QED  BY <1>1, <2>1 DEF DropInv, Drop!TypeOK, DropMove
<1>5. PlanStands'
  BY <1>1, <1>2 DEF PlanStands
<1>6. PlacesFit' /\ Reported' /\ Drop!NoneVanishes'
  BY <1>1, <1>3 DEF PlacesFit, Reported, Drop!NoneVanishes
<1>7. StillFree'
  BY <1>1, <1>3 DEF StillFree, Drop!NothingOverwritten
<1> QED  BY <1>4, <1>5, <1>6, <1>7 DEF DropInv

\* The user has answered: no file has moved.
LEMMA AnswerStep ==
  ASSUME Drop!DropAssumption, DropInv, Drop!Confirm \/ Drop!Dismiss
  PROVE  DropInv'
<1>1. PICK at \in {"look", "dropped"} : Drop!Answer(at)
  BY DEF Drop!Confirm, Drop!Dismiss
<1>2. /\ move' = [i \in Rows |-> IF move[i] = "asked" THEN at ELSE move[i]]
      /\ UNCHANGED <<protocol, picked, target, place, told, blind>>
  BY <1>1 DEF Drop!Answer
<1>3. \A i \in Rows : /\ move'[i] \in DropMove
                      /\ move'[i] \in Pending => move[i] \in Pending
                      /\ move'[i] \in {"none", "rename", "done", "taken", "vanished", "failed"}
                           => move'[i] = move[i]
                      /\ move'[i] = "none" <=> move[i] = "none"
  BY <1>2 DEF DropInv, Drop!TypeOK, DropMove, Pending
<1>4. Drop!TypeOK'
  BY <1>2, <1>3 DEF DropInv, Drop!TypeOK, DropMove
<1>5. PlanStands' /\ Reported' /\ Drop!NoneVanishes'
  BY <1>2, <1>3 DEF DropInv, PlanStands, Reported, Drop!NoneVanishes
<1>6. PlacesFit'
  <2>1. \A j \in Rows : Arrived(j)' <=> Arrived(j)
    BY <1>2 DEF Arrived
  <2> QED  BY <1>2, <1>3, <2>1 DEF DropInv, PlacesFit, Pending
<1>7. StillFree'
  <2>1. Drop!SameName' <=> Drop!SameName
    BY <1>2 DEF Drop!SameName
  <2>2. Drop!NothingOverwritten'
    BY <1>2, <2>1 DEF DropInv, StillFree, Drop!NothingOverwritten
  <2>3. \A j \in Rows : Drop!At(j, Drop!NewPath(target.path, j.path))'
                        = Drop!At(j, Drop!NewPath(target.path, j.path))
    BY <1>2 DEF Drop!At, Drop!NewPath
  <2> QED  BY <1>2, <1>3, <2>1, <2>2, <2>3 DEF DropInv, StillFree
<1> QED  BY <1>4, <1>5, <1>6, <1>7 DEF DropInv

\* Each action of a drop keeps the invariant.
LEMMA DropStep ==
  ASSUME Drop!DropAssumption, DropInv, Drop!Next
  PROVE  DropInv'
<1>1. ASSUME NEW i \in Rows, Drop!Look(i) PROVE DropInv'
  <2>1. PICK at \in {"rename", "taken"} :
          /\ Drop!Set(i, at)
          /\ at = "rename" => Drop!At(i, Drop!NewPath(target.path, i.path)) = {}
    <3>1. CASE Drop!At(i, Drop!NewPath(target.path, i.path)) # {}
      BY <1>1, <3>1 DEF Drop!Look
    <3>2. CASE Drop!At(i, Drop!NewPath(target.path, i.path)) = {}
      BY <1>1, <3>2 DEF Drop!Look
    <3> QED  BY <3>1, <3>2
  <2>2. move[i] \in Pending /\ UNCHANGED <<place, blind>> /\ blind \in BOOLEAN
    BY <1>1 DEF Drop!Look, Pending, DropInv, Drop!TypeOK
  <2> QED  BY <2>1, <2>2, MoveGoes
<1>2. ASSUME NEW i \in Rows, Drop!LookFails(i) PROVE DropInv'
  BY <1>2, MoveGoes DEF Drop!LookFails, Pending
<1>3. ASSUME NEW i \in Rows, Drop!Fails(i) PROVE DropInv'
  BY <1>3, MoveGoes DEF Drop!Fails, Pending, DropInv, Drop!TypeOK
<1> QED  BY <1>1, <1>2, <1>3, RenameStep, DropBeginsStep, AnswerStep DEF Drop!Next

\* At first every row is where its path says.
LEMMA DropBegins ==
  ASSUME Drop!DropAssumption, Drop!Init
  PROVE  DropInv
<1>1. /\ protocol \in Protocols /\ picked = {} /\ target = <<>> /\ place = [i \in Rows |-> i.path]
      /\ move = [i \in Rows |-> "none"] /\ told = {} /\ blind = FALSE
  BY DEF Drop!Init
<1>2. \A i \in Rows : place[i] = i.path /\ place[i] \in Seq(STRING) /\ place[i] # <<>> /\ move[i] = "none"
  BY <1>1, RowIs
<1>3. Drop!TypeOK
  BY <1>1, <1>2 DEF Drop!TypeOK
<1> QED  BY <1>1, <1>2, <1>3 DEF DropInv, PlanStands, PlacesFit, Reported, StillFree, Pending,
         Drop!NothingOverwritten, Drop!NoneVanishes

\* No variable of the drop changes when another part moves.
LEMMA DropStands ==
  ASSUME DropInv, UNCHANGED dropVars
  PROVE  DropInv'
<1>1. UNCHANGED <<protocol, picked, target, place, move, told, blind>>
  BY DEF dropVars
<1>2. Drop!TypeOK' /\ PlanStands' /\ Reported' /\ Drop!NoneVanishes'
  BY <1>1 DEF DropInv, Drop!TypeOK, PlanStands, Reported, Drop!NoneVanishes
<1>3. PlacesFit'
  BY <1>1 DEF DropInv, PlacesFit, Arrived
<1>4. StillFree'
  BY <1>1 DEF DropInv, StillFree, Drop!NothingOverwritten, Drop!SameName, Drop!At, Drop!NewPath
<1> QED  BY <1>2, <1>3, <1>4 DEF DropInv

\* Whoever does not move by itself goes with a row that does, and that has arrived or failed.
LEMMA DropMeans ==
  ASSUME Drop!DropAssumption, DropInv
  PROVE  Drop!NothingOverwritten /\ Drop!EverybodyArrives /\ Drop!NoneVanishes
<1>1. Drop!NothingOverwritten /\ Drop!NoneVanishes
  BY DEF DropInv, StillFree
<1>2. Drop!EverybodyArrives
  <2> SUFFICES ASSUME Drop!Over, NEW i \in picked,
                      ~ (\E a \in picked \cap told : a.root = i.root
                                         /\ Drop!isRemotePathAtOrUnder(a.path, i.path)),
                      ~ Drop!MovesByItself(i), ~ (\E a \in picked : move[a] = "dropped")
               PROVE  i.root = target.root /\ Arrived(i)
    BY DEF Drop!EverybodyArrives, Arrived
  <2>1. /\ target # <<>> /\ \A j \in Rows : move[j] \notin Pending
        /\ picked \subseteq Rows /\ move \in [Rows -> DropMove] /\ i \in Rows
    BY DEF Drop!Over, Pending, DropInv, Drop!TypeOK, DropMove
  <2>2. \A o \in Drop!Moves(picked, target) : o \in picked /\ move[o] \in {"done", "taken", "failed"}
    <3> SUFFICES ASSUME NEW o \in Drop!Moves(picked, target)
                 PROVE  o \in picked /\ move[o] \in {"done", "taken", "failed"}
      OBVIOUS
    <3>1. o \in picked /\ o \in Rows
      BY <2>1 DEF Drop!Moves
    <3>2. move[o] # "none" /\ move[o] # "vanished" /\ move[o] # "dropped"
      BY <2>1, <3>1 DEF DropInv, PlanStands, Drop!NoneVanishes
    <3> QED  BY <2>1, <3>1, <3>2 DEF DropMove, Pending
  <2>3. ASSUME NEW o \in Drop!Moves(picked, target), o.root = i.root,
               Drop!isRemotePathAtOrUnder(o.path, i.path)
        PROVE  i.root = target.root /\ Arrived(i)
    <3>1. o \in picked /\ o \in Rows /\ o \notin told
      BY <2>1, <2>2, <2>3
    <3>2. move[o] = "done"
      BY <2>2, <3>1 DEF DropInv, Reported
    <3>3. o.root = target.root
      BY <3>1, <3>2, MoverIs
    <3> QED  BY <2>1, <2>3, <3>1, <3>2, <3>3 DEF DropInv, PlacesFit
  <2>4. CASE Drop!MovesWithAnother(picked, i)
    BY <2>3, <2>4 DEF Drop!MovesWithAnother, Drop!MovesByItself
  <2>5. CASE ~ Drop!MovesWithAnother(picked, i)
    <3>0. Drop!isRemotePathAtOrUnder(i.path, i.path)
      BY <2>1, RowIs, UnderItself
    <3>1. i \notin Drop!Skipped(picked, target)
      BY <2>1, <3>0 DEF DropInv, PlanStands
    <3>2. i.root = target.root
      BY <2>5, <3>1 DEF Drop!Skipped
    <3>3. CASE Drop!dirname(i.path) # target.path
      BY <2>3, <2>5, <3>0, <3>1, <3>3 DEF Drop!Moves
    <3>4. CASE Drop!dirname(i.path) = target.path
      <4>1. CASE place[i] = i.path
        <5>1. i.path \in Seq(STRING) /\ i.path # <<>>
          BY <2>1, RowIs
        <5>2. Drop!isRemotePathAtOrUnder(Drop!dirname(i.path), i.path)
          <6>1. /\ Drop!dirname(i.path) \in Seq(STRING)
                /\ Len(Drop!dirname(i.path)) = Len(i.path) - 1 /\ Len(i.path) \in Nat \ {0}
                /\ \A n \in 1..Len(i.path) - 1 : Drop!dirname(i.path)[n] = i.path[n]
            BY <5>1 DEF Drop!dirname
          <6> QED  BY <5>1, <6>1, UnderIs
        <5> QED  BY <3>2, <3>4, <4>1, <5>2 DEF Arrived
      <4>2. CASE place[i] # i.path
        BY <2>1, <3>2, <4>2 DEF DropInv, PlacesFit
      <4> QED  BY <4>1, <4>2
    <3> QED  BY <3>3, <3>4
  <2> QED  BY <2>4, <2>5
<1> QED  BY <1>1, <1>2

-----------------------------------------------------------------------------
\* The roots that are remembered are those of the service that exists, the open file is from a
\* root of a server, and the status bar is right about it.
WorldFits ==
  /\ roots \in {Editor!NoRoots, Editor!NoneHere} \/ (roots.id # 0 /\ roots.server \in Servers)
  /\ service # 0 /\ roots # Editor!NoRoots => roots = [id |-> service, server |-> server]
  /\ tab # Editor!NoTab => roots # Editor!NoRoots /\ tab.id # 0 /\ tab.server \in Servers
  /\ Editor!BarIsRight

WorldTypes ==
  /\ server \in Servers /\ service \in 0..MaxServices /\ lastService \in 0..MaxServices
  /\ roots \in Editor!Root /\ tab \in Editor!Root /\ readOnly \in BOOLEAN
  /\ bar \in {"none", "blocked", "readOnly", "writable"}

\* A call is of one path unless it is a rename.
CallIsWhole(o) ==
  /\ o.kind \in {"save", "send", "delete"} => o.path = o.to
  /\ o.at \notin {"idle", "done", "failed"} => o.server \in Servers /\ o.kind # "none"
  /\ o.at = "look" => o.kind # "send"
  /\ o.at \in {"put", "putting"} => o.kind \in {"save", "send"}
  /\ o.at = "move" => o.kind # "delete"

\* Two calls that meet have crossed, and a call has crossed with all of its paths or with none.
Crossing ==
  \A a \in Editor!Actors :
    /\ Editor!Touches(a) \subseteq crossed \/ Editor!Touches(a) \cap crossed = {}
    /\ \A b \in Editor!Actors \ {a} :
         Editor!Touches(a) \cap Editor!Touches(b) # {} => Editor!Touches(a) \subseteq crossed

\* Where nobody else is at work, what the next put truncates is not the only copy, and what is to
\* replace the file is whole.
CopyFits(a) ==
  op[a].kind \in {"save", "send"} /\ op[a].path \notin crossed =>
    /\ op[a].at \in {"connect", "look", "put"} =>
         Editor!There(a, op[a].path) \in Editor!Whole \/ temp[op[a].server][op[a].path] = "none"
    /\ op[a].at \in {"unlink", "move"} =>
         Editor!UsesTemp(a) /\ temp[op[a].server][op[a].path] = Editor!Body(a)

EditorInv ==
  /\ Editor!TypeOK /\ WorldFits
  /\ \A a \in Editor!Actors : CallIsWhole(op[a]) /\ CopyFits(a)
  /\ Crossing /\ Editor!NeverHalf /\ Editor!SavesGoHome

\* What a step does to the copies of a file, and to one that it reports as saved.
CopyStays ==
  setup.useTempFile /\ ~ setup.link =>
    \A s \in Servers, p \in Paths :
      \/ p \in crossed' \/ ~ Editor!Copied(remoteFile, temp, s, p) \/ Editor!Copied(remoteFile', temp', s, p)
      \/ \E a \in Editor!Actors : op[a].kind \in {"delete", "rename"} /\ p \in Editor!Touches(a)

SaveIsThere ==
  \A a \in Editor!Actors :
    /\ op'[a].at = "done" /\ op[a].at # "done" /\ op[a].kind \in {"save", "send"}
    /\ op[a].path \notin crossed
    => remoteFile'[op[a].server][op[a].path] = Editor!Body(a)

EditorFits == EditorInv' /\ CopyStays /\ SaveIsThere

-----------------------------------------------------------------------------
\* The variables have their types.
LEMMA EditorTypes ==
  ASSUME Editor!EditorAssumption, EditorInv
  PROVE  /\ setup \in Setups /\ server \in Servers /\ service \in 0..MaxServices
         /\ lastService \in 0..MaxServices /\ MaxServices \in Nat \ {0} /\ MaxActs \in Nat
         /\ roots \in Editor!Root /\ tab \in Editor!Root /\ readOnly \in BOOLEAN
         /\ bar \in {"none", "blocked", "readOnly", "writable"}
         /\ remoteFile \in [Servers -> [Paths -> Editor!Contents]]
         /\ temp \in [Servers -> [Paths -> Editor!Contents]]
         /\ op \in [Editor!Actors -> Editor!Op] /\ editorActs \in 0..MaxActs /\ crossed \subseteq Paths
         /\ setup.useTempFile \in BOOLEAN /\ setup.openSsh \in BOOLEAN /\ setup.link \in BOOLEAN
<1>1. Setups \subseteq [useTempFile : BOOLEAN, openSsh : BOOLEAN, link : BOOLEAN,
                      host : [Servers -> Hosts]]
      /\ MaxServices \in Nat \ {0} /\ MaxActs \in Nat
  BY DEF Editor!EditorAssumption
<1>2. Editor!TypeOK
  BY DEF EditorInv
<1>3. /\ setup \in Setups /\ server \in Servers /\ service \in 0..MaxServices
      /\ lastService \in 0..MaxServices
      /\ roots \in Editor!Root /\ tab \in Editor!Root /\ readOnly \in BOOLEAN
      /\ bar \in {"none", "blocked", "readOnly", "writable"}
      /\ remoteFile \in [Servers -> [Paths -> Editor!Contents]]
      /\ temp \in [Servers -> [Paths -> Editor!Contents]]
      /\ op \in [Editor!Actors -> Editor!Op] /\ editorActs \in 0..MaxActs /\ crossed \subseteq Paths
  BY <1>2 DEF Editor!TypeOK, Editor!Ids
<1> QED  BY <1>1, <1>3

\* The fields of a call.
LEMMA CallFields ==
  ASSUME NEW o \in Editor!Op
  PROVE  /\ o.kind \in {"none", "save", "send", "rename", "delete"}
         /\ o.at \in {"idle", "connect", "look", "put", "putting", "unlink", "move", "done", "failed"}
         /\ o.path \in Paths /\ o.to \in Paths /\ o.root \in Editor!Root
         /\ o.server \in Servers \cup {"none"} /\ o.existed \in BOOLEAN
  BY DEF Editor!Op

\* The roots that a refresh would find.
LEMMA RootIs ==
  ASSUME NEW s \in 0..MaxServices, NEW srv \in Servers,
         NEW r, r = IF s = 0 THEN Editor!NoneHere ELSE [id |-> s, server |-> srv]
  PROVE  /\ s \in Nat /\ r \in Editor!Root /\ r # Editor!NoRoots
         /\ s # 0 => r.id = s /\ r.server = srv /\ r # Editor!NoneHere
  BY DEF Editor!NoneHere, Editor!NoRoots, Editor!Root, Editor!Ids

\* No root and the empty tree.
LEMMA NoRootIs ==
  ASSUME Editor!EditorAssumption
  PROVE  /\ Editor!NoRoots \in Editor!Root /\ Editor!NoneHere \in Editor!Root
         /\ Editor!NoRoots # Editor!NoneHere /\ Editor!NoRoots.id = 0 /\ Editor!NoneHere.id = 0
         /\ Editor!NoTab = Editor!NoRoots
<1>1. 0 \in Editor!Ids
  BY DEF Editor!Ids, Editor!EditorAssumption
<1> QED  BY <1>1 DEF Editor!NoRoots, Editor!NoneHere, Editor!NoTab, Editor!Root

\* What the status bar says.
LEMMA PresentedIs ==
  ASSUME NEW t, NEW r, NEW ro \in BOOLEAN
  PROVE  /\ Editor!Presented(t, r, ro) \in {"none", "blocked", "readOnly", "writable"}
         /\ Editor!Presented(t, r, ro) = "writable"
              <=> t # Editor!NoTab /\ Editor!Resolves(t, r) /\ ~ ro
  BY DEF Editor!Presented

\* The roots of the tree, looked up now.
LEMMA BuiltIs ==
  ASSUME Editor!EditorAssumption, EditorInv
  PROVE  /\ Editor!Built \in Editor!Root /\ Editor!Built # Editor!NoRoots
         /\ roots # Editor!NoRoots => Editor!Built = roots
         /\ Editor!Built # Editor!NoneHere => Editor!Built.id # 0 /\ Editor!Built.server \in Servers
         /\ service # 0 => Editor!Built = [id |-> service, server |-> server]
         /\ service = 0 /\ roots = Editor!NoRoots => Editor!Built = Editor!NoneHere
<1>1. /\ service \in 0..MaxServices /\ server \in Servers /\ roots \in Editor!Root /\ WorldFits
  BY EditorTypes DEF EditorInv
<1>2. PICK r : r = IF service = 0 THEN Editor!NoneHere ELSE [id |-> service, server |-> server]
  OBVIOUS
<1>3. /\ r \in Editor!Root /\ r # Editor!NoRoots /\ (service = 0 => r = Editor!NoneHere)
      /\ service # 0 => r.id = service /\ r.server = server
                       /\ r = [id |-> service, server |-> server]
  BY <1>1, <1>2, RootIs
<1>4. Editor!Built = IF roots # Editor!NoRoots THEN roots ELSE r
  BY <1>2 DEF Editor!Built
<1> QED  BY <1>1, <1>3, <1>4, NoRootIs DEF WorldFits

\* The explorer is refreshed by what exists then.
LEMMA RefreshedFits ==
  ASSUME Editor!EditorAssumption, EditorInv, NEW s \in 0..MaxServices, NEW srv \in Servers,
         Editor!Refreshed(s, srv), service' = s, server' = srv, lastService' \in 0..MaxServices,
         UNCHANGED <<setup, readOnly, tab>>
  PROVE  WorldTypes' /\ WorldFits'
<1>1. PICK r : r = IF s = 0 THEN Editor!NoneHere ELSE [id |-> s, server |-> srv]
  OBVIOUS
<1>2. /\ r \in Editor!Root /\ r # Editor!NoRoots /\ (s = 0 => r = Editor!NoneHere)
      /\ s # 0 => r.id = s /\ r.server = srv /\ r = [id |-> s, server |-> srv]
  BY <1>1, RootIs
<1>3. /\ roots' = IF tab = Editor!NoTab THEN Editor!NoRoots ELSE r
      /\ bar' = Editor!Presented(tab, r, readOnly)
  BY <1>1 DEF Editor!Refreshed
<1>4. readOnly \in BOOLEAN /\ tab \in Editor!Root /\ WorldFits
  BY EditorTypes DEF EditorInv
<1>5. /\ bar' \in {"none", "blocked", "readOnly", "writable"}
      /\ bar' = "writable" <=> tab # Editor!NoTab /\ Editor!Resolves(tab, r) /\ ~ readOnly
  BY <1>3, <1>4, PresentedIs
<1>6. WorldTypes'
  BY <1>2, <1>3, <1>4, <1>5, NoRootIs DEF WorldTypes
<1>7. Editor!BarIsRight'
  <2>1. roots' # Editor!NoRoots => Editor!Built' = roots'
    BY DEF Editor!Built
  <2> QED  BY <1>2, <1>3, <1>4, <1>5, <2>1 DEF Editor!BarIsRight, Editor!Resolves, Editor!SameHost
<1> QED  BY <1>2, <1>3, <1>4, <1>6, <1>7 DEF WorldFits

\* No file changes and no call goes on when a profile, a service or a tab does.
LEMMA WorldGoes ==
  ASSUME Editor!EditorAssumption, EditorInv, UNCHANGED <<setup, remoteFile, temp, op, crossed>>,
         WorldTypes', WorldFits', editorActs' \in 0..MaxActs
  PROVE  EditorFits
<1>1. Editor!TypeOK'
  BY EditorTypes DEF WorldTypes, Editor!TypeOK, Editor!Ids
<1>2. (\A a \in Editor!Actors : CallIsWhole(op[a]) /\ CopyFits(a))'
  <2>1. \A a \in Editor!Actors : CopyFits(a) => CopyFits(a)'
    BY DEF CopyFits, Editor!There, Editor!UsesTemp, Editor!Body
  <2> QED  BY <2>1 DEF EditorInv, CallIsWhole, Editor!Actors
<1>3. Crossing'
  BY DEF EditorInv, Crossing, Editor!Touches, Editor!Actors
<1>4. Editor!NeverHalf' /\ Editor!SavesGoHome'
  BY DEF EditorInv, Editor!NeverHalf, Editor!SavesGoHome, Editor!SameHost, Editor!Actors
<1>5. CopyStays
  BY DEF CopyStays, Editor!Copied
<1>6. SaveIsThere
  BY DEF SaveIsThere
<1> QED  BY <1>1, <1>2, <1>3, <1>4, <1>5, <1>6 DEF EditorFits, EditorInv

\* One more act, within the bound.
LEMMA ActIs ==
  ASSUME Editor!EditorAssumption, EditorInv, Editor!Acts
  PROVE  editorActs' \in 0..MaxActs
  BY EditorTypes DEF Editor!Acts

\* Tabs, profiles, services, filters and the setting that makes remote files read-only.
LEMMA WorldStep ==
  ASSUME Editor!EditorAssumption, EditorInv,
         \/ Editor!Open \/ Editor!Close \/ Editor!ReloadBegins \/ Editor!ConfigDeleted
         \/ Editor!Filter \/ Editor!ToggleReadOnly
         \/ (\E s \in Servers : Editor!SwitchProfile(s)) \/ (\E i \in Editor!Ids : Editor!ReloadEnds(i))
  PROVE  EditorFits
<1> USE DEF Editor!Data
<1>1. /\ server \in Servers /\ service \in 0..MaxServices /\ lastService \in 0..MaxServices
      /\ roots \in Editor!Root /\ tab \in Editor!Root /\ readOnly \in BOOLEAN
      /\ bar \in {"none", "blocked", "readOnly", "writable"} /\ MaxServices \in Nat
      /\ editorActs \in 0..MaxActs /\ WorldFits
  BY EditorTypes DEF EditorInv
<1>2. PICK b : b = Editor!Built
  OBVIOUS
<1>3. /\ b \in Editor!Root /\ b # Editor!NoRoots /\ (roots # Editor!NoRoots => b = roots)
      /\ b # Editor!NoneHere => b.id # 0 /\ b.server \in Servers
      /\ service # 0 => b = [id |-> service, server |-> server]
      /\ service = 0 /\ roots = Editor!NoRoots => b = Editor!NoneHere
  BY <1>2, BuiltIs
<1>4. roots' # Editor!NoRoots => Editor!Built' = roots'
  BY DEF Editor!Built
<1>5. ASSUME Editor!Open PROVE EditorFits
  <2>1. /\ b # Editor!NoneHere /\ roots' = b /\ tab' = b
        /\ bar' = Editor!Presented(b, b, readOnly)
        /\ UNCHANGED <<setup, server, service, lastService, readOnly, remoteFile, temp, op, crossed>>
    BY <1>2, <1>5 DEF Editor!Open
  <2>2. /\ bar' \in {"none", "blocked", "readOnly", "writable"}
        /\ bar' = "writable" <=> b # Editor!NoTab /\ Editor!Resolves(b, b) /\ ~ readOnly
    BY <1>1, <2>1, PresentedIs
  <2>3. WorldTypes'
    BY <1>1, <1>3, <2>1, <2>2 DEF WorldTypes
  <2>4. Editor!BarIsRight'
    BY <1>3, <1>4, <2>1, <2>2 DEF Editor!BarIsRight, Editor!Resolves, Editor!SameHost
  <2>5. WorldFits'
    BY <1>3, <2>1, <2>4, NoRootIs DEF WorldFits
  <2> QED  BY <1>5, <2>1, <2>3, <2>5, ActIs, WorldGoes DEF Editor!Open
<1>6. ASSUME Editor!Close PROVE EditorFits
  <2>1. /\ tab' = Editor!NoTab /\ bar' = "none"
        /\ UNCHANGED <<setup, server, service, lastService, roots, readOnly, remoteFile, temp, op, crossed>>
    BY <1>6 DEF Editor!Close
  <2>2. WorldTypes'
    BY <1>1, <2>1, NoRootIs DEF WorldTypes
  <2>3. WorldFits'
    BY <1>1, <2>1 DEF WorldFits, Editor!BarIsRight
  <2> QED  BY <1>6, <2>1, <2>2, <2>3, ActIs, WorldGoes DEF Editor!Close
<1>7. ASSUME Editor!ReloadBegins PROVE EditorFits
  <2>1. /\ service # 0 /\ service' = 0 /\ 0 \in 0..MaxServices
        /\ Editor!Refreshed(0, server) \/ UNCHANGED <<roots, bar>>
        /\ UNCHANGED <<setup, server, lastService, readOnly, tab, remoteFile, temp, op, crossed>>
    BY <1>1, <1>7 DEF Editor!ReloadBegins
  <2>2. CASE Editor!Refreshed(0, server)
    <3>1. WorldTypes' /\ WorldFits'
      BY <1>1, <2>1, <2>2, RefreshedFits
    <3> QED  BY <1>7, <2>1, <3>1, ActIs, WorldGoes DEF Editor!ReloadBegins
  <2>3. CASE UNCHANGED <<roots, bar>>
    <3>1. service # 0 /\ Editor!BarIsRight
      BY <1>1, <2>1 DEF WorldFits
    <3>2. bar = "writable" <=> tab # Editor!NoTab /\ ~ readOnly /\ Editor!Resolves(tab, b)
      BY <1>2, <3>1 DEF Editor!BarIsRight
    <3>3. tab # Editor!NoTab => Editor!Built' = b
      BY <1>1, <1>3, <1>4, <2>1, <2>3 DEF WorldFits
    <3>4. Editor!BarIsRight'
      BY <2>1, <2>3, <3>2, <3>3 DEF Editor!BarIsRight, Editor!Resolves, Editor!SameHost
    <3>5. WorldTypes' /\ WorldFits'
      BY <1>1, <2>1, <2>3, <3>4 DEF WorldTypes, WorldFits
    <3> QED  BY <1>7, <2>1, <2>3, <3>5, ActIs, WorldGoes DEF Editor!ReloadBegins
  <2> QED  BY <2>1, <2>2, <2>3
<1>8. ASSUME Editor!ConfigDeleted PROVE EditorFits
  <2>1. 0 \in 0..MaxServices
    BY <1>1
  <2>2. WorldTypes' /\ WorldFits'
    BY <1>1, <1>8, <2>1, RefreshedFits DEF Editor!ConfigDeleted
  <2> QED  BY <1>8, <2>2, ActIs, WorldGoes DEF Editor!ConfigDeleted
<1>9. ASSUME Editor!Filter PROVE EditorFits
  <2>1. PICK r : r = IF service = 0 THEN Editor!NoneHere ELSE [id |-> service, server |-> server]
    OBVIOUS
  <2>2. /\ roots' = r
        /\ UNCHANGED <<setup, server, service, lastService, readOnly, tab, bar, remoteFile, temp, op, crossed>>
    BY <1>9, <2>1 DEF Editor!Filter
  <2>3. /\ r \in Editor!Root /\ r # Editor!NoRoots /\ (service = 0 => r = Editor!NoneHere)
        /\ service # 0 => r.id = service /\ r.server = server /\ r = b
    BY <1>1, <1>3, <2>1, RootIs
  <2>4. WorldTypes'
    BY <1>1, <2>2, <2>3 DEF WorldTypes
  <2>5. Editor!BarIsRight'
    <3>1. CASE service = 0
      BY <2>2, <2>3, <3>1 DEF Editor!BarIsRight
    <3>2. CASE service # 0
      <4>1. bar = "writable" <=> tab # Editor!NoTab /\ ~ readOnly /\ Editor!Resolves(tab, b)
        BY <1>1, <1>2, <3>2 DEF WorldFits, Editor!BarIsRight
      <4> QED  BY <1>4, <2>2, <2>3, <3>2, <4>1 DEF Editor!BarIsRight, Editor!Resolves, Editor!SameHost
    <3> QED  BY <3>1, <3>2
  <2>6. WorldFits'
    BY <1>1, <1>3, <2>2, <2>3, <2>5 DEF WorldFits
  <2> QED  BY <1>9, <2>2, <2>4, <2>6, ActIs, WorldGoes DEF Editor!Filter
<1>10. ASSUME Editor!ToggleReadOnly PROVE EditorFits
  <2>1. /\ readOnly' \in BOOLEAN /\ roots' = (IF tab = Editor!NoTab THEN roots ELSE b)
        /\ bar' = Editor!Presented(tab, b, readOnly')
        /\ UNCHANGED <<setup, server, service, lastService, tab, remoteFile, temp, op, crossed>>
    BY <1>1, <1>2, <1>10 DEF Editor!ToggleReadOnly
  <2>2. /\ bar' \in {"none", "blocked", "readOnly", "writable"}
        /\ bar' = "writable" <=> tab # Editor!NoTab /\ Editor!Resolves(tab, b) /\ ~ readOnly'
    BY <2>1, PresentedIs
  <2>3. WorldTypes'
    BY <1>1, <1>3, <2>1, <2>2 DEF WorldTypes
  <2>4. Editor!BarIsRight'
    BY <1>3, <1>4, <2>1, <2>2 DEF Editor!BarIsRight, Editor!Resolves, Editor!SameHost
  <2>5. WorldFits'
    BY <1>1, <1>3, <2>1, <2>4 DEF WorldFits
  <2> QED  BY <1>10, <2>1, <2>3, <2>5, ActIs, WorldGoes DEF Editor!ToggleReadOnly
<1>11. ASSUME NEW s \in Servers, Editor!SwitchProfile(s) PROVE EditorFits
  <2>1. WorldTypes' /\ WorldFits'
    BY <1>1, <1>11, RefreshedFits DEF Editor!SwitchProfile
  <2> QED  BY <1>11, <2>1, ActIs, WorldGoes DEF Editor!SwitchProfile
<1>12. ASSUME NEW i \in Editor!Ids, Editor!ReloadEnds(i) PROVE EditorFits
  <2>1. i \in 0..MaxServices /\ lastService' \in 0..MaxServices
    BY <1>1, <1>12 DEF Editor!ReloadEnds, Editor!Ids
  <2>2. WorldTypes' /\ WorldFits'
    BY <1>1, <1>12, <2>1, RefreshedFits DEF Editor!ReloadEnds
  <2> QED  BY <1>1, <1>12, <2>2, WorldGoes DEF Editor!ReloadEnds
<1> QED  BY <1>5, <1>6, <1>7, <1>8, <1>9, <1>10, <1>11, <1>12

\* A call begins: it has crossed with whoever is at work on one of its paths, and with those
\* who have left something there.
LEMMA CallBegins ==
  ASSUME Editor!EditorAssumption, EditorInv, NEW a \in Editor!Actors,
         NEW kind \in {"save", "send", "rename", "delete"}, NEW p \in Paths, NEW q \in Paths,
         kind # "rename" => p = q, NEW root \in Editor!Root, NEW srv \in Servers, Editor!SameHost(srv, root.server),
         Editor!Begin(a, kind, p, q, root, srv), roots' = roots \/ roots' = Editor!Built
  PROVE  EditorFits
<1>1. /\ op \in [Editor!Actors -> Editor!Op] /\ crossed \subseteq Paths /\ WorldFits
      /\ CopyFits(a) /\ Crossing /\ Editor!NeverHalf
  BY EditorTypes DEF EditorInv
<1>2. PICK n : n = [kind |-> kind, at |-> "connect", path |-> p, to |-> q, root |-> root,
                    server |-> srv, existed |-> FALSE]
  OBVIOUS
<1>3. n \in Editor!Op /\ CallIsWhole(n)
  BY <1>2 DEF Editor!Op, CallIsWhole
<1>4. PICK met, remains :
        /\ met = UNION {Editor!Touches(b) : b \in {b \in Editor!Actors : Editor!Touches(b) \cap {p, q} # {}}}
        /\ remains = {x \in {p, q} : \/ x \in crossed
                                     \/ remoteFile[srv][x] \notin Editor!Whole /\ temp[srv][x] # "none"}
  OBVIOUS
<1>5. /\ Editor!Touches(a) = {} /\ op' = [op EXCEPT ![a] = n] /\ Editor!Acts
      /\ crossed' = crossed \cup met \cup (IF met \cup remains # {} THEN {p, q} ELSE {})
      /\ UNCHANGED <<setup, server, service, lastService, readOnly, tab, bar, remoteFile, temp>>
  BY <1>2, <1>4 DEF Editor!Begin
<1>6. /\ op' \in [Editor!Actors -> Editor!Op] /\ op'[a] = n
      /\ \A b \in Editor!Actors : b # a => op'[b] = op[b]
  BY <1>1, <1>3, <1>5
<1>7. /\ Editor!Touches(a)' = {p, q}
      /\ \A b \in Editor!Actors : b # a => Editor!Touches(b)' = Editor!Touches(b)
  BY <1>2, <1>6 DEF Editor!Touches
<1>8. \A b \in Editor!Actors : Editor!Touches(b) \subseteq Paths
  BY <1>1, CallFields DEF Editor!Touches
<1>9. /\ crossed \subseteq crossed' /\ met \subseteq crossed' /\ crossed' \subseteq Paths
      /\ \A b \in Editor!Actors : Editor!Touches(b) \cap {p, q} # {} => Editor!Touches(b) \subseteq met
      /\ \A x \in met : \E b \in Editor!Actors : x \in Editor!Touches(b) /\ Editor!Touches(b) \cap {p, q} # {}
  BY <1>1, <1>4, <1>5, <1>8
<1>10. Crossing'
  <2>1. ASSUME NEW c \in Editor!Actors
        PROVE  (Editor!Touches(c) \subseteq crossed \/ Editor!Touches(c) \cap crossed = {})'
    <3>1. CASE c = a
      BY <1>4, <1>5, <1>7, <3>1
    <3>2. CASE c # a /\ Editor!Touches(c) \cap {p, q} # {}
      BY <1>7, <1>9, <3>2
    <3>3. CASE c # a /\ Editor!Touches(c) \cap {p, q} = {}
      <4>1. CASE Editor!Touches(c) \subseteq crossed
        BY <1>7, <1>9, <3>3, <4>1
      <4>2. CASE ~ (Editor!Touches(c) \subseteq crossed)
        <5>1. Editor!Touches(c) \cap crossed = {}
          BY <1>1, <4>2 DEF Crossing
        <5>2. Editor!Touches(c) \cap met = {}
          <6> SUFFICES ASSUME NEW x \in Editor!Touches(c), x \in met PROVE FALSE
            OBVIOUS
          <6>1. PICK b \in Editor!Actors : x \in Editor!Touches(b) /\ Editor!Touches(b) \cap {p, q} # {}
            BY <1>9
          <6>2. b # c
            BY <3>3, <6>1
          <6> QED  BY <1>1, <4>2, <6>1, <6>2 DEF Crossing
        <5> QED  BY <1>5, <1>7, <3>3, <5>1, <5>2
      <4> QED  BY <4>1, <4>2
    <3> QED  BY <3>1, <3>2, <3>3
  <2>2. ASSUME NEW c \in Editor!Actors, NEW b \in Editor!Actors \ {c},
               Editor!Touches(c)' \cap Editor!Touches(b)' # {}
        PROVE  Editor!Touches(c)' \subseteq crossed'
    <3>1. CASE c = a
      <4>1. Editor!Touches(b) \cap {p, q} # {}
        BY <1>7, <2>2, <3>1
      <4>2. met # {}
        BY <1>9, <4>1
      <4> QED  BY <1>5, <1>7, <3>1, <4>2
    <3>2. CASE c # a /\ b = a
      BY <1>7, <1>9, <2>2, <3>2
    <3>3. CASE c # a /\ b # a
      BY <1>1, <1>7, <1>9, <2>2, <3>3 DEF Crossing
    <3> QED  BY <3>1, <3>2, <3>3
  <2> QED  BY <2>1, <2>2 DEF Crossing, Editor!Actors
<1>11. (\A c \in Editor!Actors : CallIsWhole(op[c]) /\ CopyFits(c))'
  <2> SUFFICES ASSUME NEW c \in Editor!Actors PROVE CallIsWhole(op'[c]) /\ CopyFits(c)'
    BY DEF Editor!Actors, CallIsWhole
  <2>1. CASE c = a
    <3>1. p \notin crossed' => remoteFile[srv][p] \in Editor!Whole \/ temp[srv][p] = "none"
      BY <1>4, <1>5
    <3> QED  BY <1>2, <1>3, <1>5, <1>6, <2>1, <3>1 DEF CopyFits, Editor!There
  <2>2. CASE c # a
    <3>1. CallIsWhole(op[c]) /\ CopyFits(c)
      BY DEF EditorInv
    <3> QED  BY <1>5, <1>6, <1>9, <2>2, <3>1 DEF CopyFits, Editor!There, Editor!UsesTemp, Editor!Body
  <2> QED  BY <2>1, <2>2
<1>12. Editor!NeverHalf' /\ Editor!SavesGoHome'
  <2>1. Editor!SavesGoHome
    BY DEF EditorInv
  <2> QED  BY <1>1, <1>2, <1>5, <1>6, <1>9, <2>1
           DEF Editor!NeverHalf, Editor!SavesGoHome, Editor!SameHost, Editor!Actors
<1>13. WorldTypes' /\ WorldFits'
  <2>1. PICK b : b = Editor!Built
    OBVIOUS
  <2>2. /\ b \in Editor!Root /\ b # Editor!NoRoots /\ (roots # Editor!NoRoots => b = roots)
        /\ b # Editor!NoneHere => b.id # 0 /\ b.server \in Servers
        /\ service # 0 => b = [id |-> service, server |-> server]
        /\ service = 0 /\ roots = Editor!NoRoots => b = Editor!NoneHere
    BY <2>1, BuiltIs
  <2>3. WorldTypes'
    BY <1>5, <2>1, <2>2, EditorTypes DEF WorldTypes
  <2>4. tab # Editor!NoTab => roots' = roots /\ roots # Editor!NoRoots
    BY <1>1, <2>1, <2>2 DEF WorldFits
  <2>5. Editor!BarIsRight'
    <3>1. Editor!BarIsRight
      BY <1>1 DEF WorldFits
    <3>2. roots' # Editor!NoRoots => Editor!Built' = roots'
      BY DEF Editor!Built
    <3>3. CASE tab = Editor!NoTab
      <4>1. ~ (service = 0 /\ roots' = Editor!NoneHere) => ~ (service = 0 /\ roots = Editor!NoneHere)
        BY <2>1, <2>2
      <4> QED  BY <1>5, <3>1, <3>3, <4>1 DEF Editor!BarIsRight
    <3>4. CASE tab # Editor!NoTab
      <4>1. b = roots /\ roots' = roots /\ Editor!Built' = roots
        BY <2>2, <2>4, <3>2, <3>4
      <4> QED  BY <1>5, <2>1, <3>1, <3>4, <4>1 DEF Editor!BarIsRight, Editor!Resolves, Editor!SameHost
    <3> QED  BY <3>3, <3>4
  <2> QED  BY <1>1, <1>5, <2>1, <2>2, <2>3, <2>4, <2>5 DEF WorldFits
<1>14. Editor!TypeOK'
  BY <1>5, <1>6, <1>9, <1>13, ActIs, EditorTypes DEF WorldTypes, Editor!TypeOK, Editor!Ids
<1>15. CopyStays /\ SaveIsThere
  <2>1. CopyStays
    BY <1>5 DEF CopyStays, Editor!Copied
  <2>2. \A c \in Editor!Actors : op'[c].at = "done" => op'[c] = op[c]
    BY <1>2, <1>6
  <2> QED  BY <2>1, <2>2 DEF SaveIsThere
<1> QED  BY <1>10, <1>11, <1>12, <1>13, <1>14, <1>15 DEF EditorFits, EditorInv

\* A call goes on, and the others stand.
Continues(a) ==
  /\ op' \in [Editor!Actors -> Editor!Op] /\ \A b \in Editor!Actors : b # a => op'[b] = op[b]
  /\ op'[a].kind = op[a].kind /\ op'[a].path = op[a].path /\ op'[a].to = op[a].to
  /\ op'[a].root = op[a].root /\ op'[a].server = op[a].server
  /\ op[a].at \notin {"idle", "done", "failed"} /\ op'[a].at # "idle"
  /\ UNCHANGED <<setup, server, service, lastService, roots, readOnly, tab, bar, editorActs, crossed>>

\* The files are those that there were, but for the paths of the call.
OnlyItsOwn(a) ==
  /\ remoteFile' \in [Servers -> [Paths -> Editor!Contents]]
  /\ temp' \in [Servers -> [Paths -> Editor!Contents]]
  /\ \A s \in Servers, p \in Paths :
       s # op[a].server \/ p \notin {op[a].path, op[a].to}
       => remoteFile'[s][p] = remoteFile[s][p] /\ temp'[s][p] = temp[s][p]

\* What is left to see to in a step of a call: its own files.
LEMMA CallGoesOn ==
  ASSUME Editor!EditorAssumption, EditorInv, NEW a \in Editor!Actors, Continues(a), OnlyItsOwn(a),
         CallIsWhole(op'[a]), CopyFits(a)',
         setup.useTempFile /\ ~ setup.link =>
           /\ \A p \in {op[a].path, op[a].to} : remoteFile'[op[a].server][p] = "part" => p \in crossed
           /\ /\ op[a].kind \in {"save", "send"} /\ op[a].path \notin crossed
              /\ Editor!Copied(remoteFile, temp, op[a].server, op[a].path)
              => Editor!Copied(remoteFile', temp', op[a].server, op[a].path),
         op'[a].at = "done" /\ op[a].kind \in {"save", "send"} /\ op[a].path \notin crossed
           => remoteFile'[op[a].server][op[a].path] = Editor!Body(a)
  PROVE  EditorFits
<1>1. /\ op \in [Editor!Actors -> Editor!Op] /\ crossed \subseteq Paths /\ crossed' = crossed
      /\ setup' = setup /\ Crossing /\ Editor!NeverHalf /\ WorldFits
      /\ op' \in [Editor!Actors -> Editor!Op] /\ \A b \in Editor!Actors : b # a => op'[b] = op[b]
  BY EditorTypes DEF EditorInv, Continues
<1>2. /\ Editor!Touches(a) = {op[a].path, op[a].to} /\ Editor!Touches(a)' \subseteq Editor!Touches(a)
      /\ \A b \in Editor!Actors : b # a => Editor!Touches(b)' = Editor!Touches(b)
  BY DEF Continues, Editor!Touches
<1>3. \A b \in Editor!Actors : Editor!Touches(b)' \subseteq Editor!Touches(b)
  BY <1>2
<1>4. Crossing'
  <2>1. ASSUME NEW b \in Editor!Actors
        PROVE  (Editor!Touches(b) \subseteq crossed \/ Editor!Touches(b) \cap crossed = {})'
    BY <1>1, <1>3 DEF Crossing
  <2>2. ASSUME NEW b \in Editor!Actors, NEW c \in Editor!Actors \ {b},
               Editor!Touches(b)' \cap Editor!Touches(c)' # {}
        PROVE  Editor!Touches(b)' \subseteq crossed'
    BY <1>1, <1>3, <2>2 DEF Crossing
  <2> QED  BY <2>1, <2>2 DEF Crossing, Editor!Actors
<1>5. ASSUME NEW b \in Editor!Actors, b # a PROVE CallIsWhole(op'[b]) /\ CopyFits(b)'
  <2>1. op'[b] = op[b] /\ op[b] \in Editor!Op /\ CallIsWhole(op[b]) /\ CopyFits(b)
    BY <1>1, <1>5 DEF EditorInv
  <2> SUFFICES ASSUME op[b].kind \in {"save", "send"}, op[b].path \notin crossed,
                      op[b].at \in {"connect", "look", "put", "unlink", "move"}
               PROVE  CopyFits(b)'
    BY <1>1, <2>1 DEF CopyFits
  <2>2. op[b].path \in Editor!Touches(b) /\ op[b].server \in Servers /\ op[b].path \in Paths
    BY <2>1, CallFields DEF Editor!Touches, CallIsWhole
  <2>3. op[b].path \notin Editor!Touches(a)
    BY <1>1, <1>5, <2>2 DEF Crossing
  <2>4. /\ remoteFile'[op[b].server][op[b].path] = remoteFile[op[b].server][op[b].path]
        /\ temp'[op[b].server][op[b].path] = temp[op[b].server][op[b].path]
    BY <1>2, <2>2, <2>3 DEF OnlyItsOwn
  <2> QED  BY <1>1, <2>1, <2>4 DEF CopyFits, Editor!There, Editor!UsesTemp, Editor!Body
<1>6. (\A b \in Editor!Actors : CallIsWhole(op[b]) /\ CopyFits(b))'
  <2> SUFFICES ASSUME NEW b \in Editor!Actors PROVE CallIsWhole(op'[b]) /\ CopyFits(b)'
    BY DEF Editor!Actors, CallIsWhole
  <2> QED  BY <1>5
<1>7. Editor!NeverHalf'
  <2> SUFFICES ASSUME setup.useTempFile, ~ setup.link, NEW s \in Servers, NEW p \in Paths,
                      remoteFile'[s][p] = "part"
               PROVE  p \in crossed
    BY <1>1 DEF Editor!NeverHalf
  <2> QED  BY <1>1 DEF Editor!NeverHalf, OnlyItsOwn
<1>8. Editor!TypeOK'
  <2>1. Editor!TypeOK
    BY DEF EditorInv
  <2> QED  BY <1>1, <2>1 DEF Continues, OnlyItsOwn, Editor!TypeOK
<1>9. WorldFits'
  <2>1. Editor!BarIsRight'
    BY <1>1 DEF WorldFits, Continues, Editor!BarIsRight, Editor!Built, Editor!Resolves, Editor!SameHost
  <2> QED  BY <1>1, <2>1 DEF WorldFits, Continues
<1>10. CopyStays
  <2> SUFFICES ASSUME setup.useTempFile, ~ setup.link, NEW s \in Servers, NEW p \in Paths,
                      p \notin crossed, Editor!Copied(remoteFile, temp, s, p),
                      \A b \in Editor!Actors : op[b].kind \in {"delete", "rename"} => p \notin Editor!Touches(b)
               PROVE  Editor!Copied(remoteFile', temp', s, p)
    BY <1>1 DEF CopyStays
  <2>1. CASE s # op[a].server \/ p \notin {op[a].path, op[a].to}
    BY <2>1 DEF OnlyItsOwn, Editor!Copied
  <2>2. CASE s = op[a].server /\ p \in {op[a].path, op[a].to}
    <3>1. op[a] \in Editor!Op /\ CallIsWhole(op[a]) /\ op[a].at \notin {"idle", "done", "failed"}
      BY <1>1 DEF EditorInv, Continues
    <3>2. op[a].kind \in {"save", "send"} /\ p = op[a].path
      BY <1>2, <2>2, <3>1, CallFields DEF CallIsWhole
    <3> QED  BY <2>2, <3>2
  <2> QED  BY <2>1, <2>2
<1>11. SaveIsThere
  BY <1>1 DEF SaveIsThere
<1>12. Editor!SavesGoHome'
  BY DEF EditorInv, Continues, Editor!SavesGoHome, Editor!SameHost, Editor!Actors
<1> QED  BY <1>4, <1>6, <1>7, <1>8, <1>9, <1>10, <1>11, <1>12 DEF EditorFits, EditorInv

\* A file is written.
LEMMA Written ==
  ASSUME NEW f \in [Servers -> [Paths -> Editor!Contents]], NEW s \in Servers, NEW p \in Paths,
         NEW c \in Editor!Contents, NEW g, g = [f EXCEPT ![s][p] = c]
  PROVE  /\ g \in [Servers -> [Paths -> Editor!Contents]] /\ g[s][p] = c
         /\ \A t \in Servers, q \in Paths : t # s \/ q # p => g[t][q] = f[t][q]
  OBVIOUS

\* A call that goes on has the fields of a call.
LEMMA CallAt ==
  ASSUME Editor!EditorAssumption, EditorInv, NEW a \in Editor!Actors,
         op[a].at \notin {"idle", "done", "failed"}
  PROVE  /\ op[a] \in Editor!Op /\ CallIsWhole(op[a]) /\ CopyFits(a) /\ op[a].server \in Servers
         /\ op[a].path \in Paths /\ op[a].to \in Paths
         /\ op[a].kind \in {"save", "send", "rename", "delete"}
<1>1. op[a] \in Editor!Op /\ CallIsWhole(op[a]) /\ CopyFits(a)
  BY EditorTypes DEF EditorInv
<1> QED  BY <1>1, CallFields DEF CallIsWhole

CallStates ==
  {"idle", "connect", "look", "put", "putting", "unlink", "move", "done", "failed"}

\* What becomes of a call that comes from one state to another.
LEMMA GoesOnTo ==
  ASSUME Editor!EditorAssumption, EditorInv, NEW a \in Editor!Actors, NEW from, NEW to \in CallStates,
         from \notin {"idle", "done", "failed"}, to # "idle", Editor!Goes(a, from, to)
  PROVE  /\ Continues(a) /\ op[a].at = from /\ op'[a].at = to /\ op'[a].existed = op[a].existed
         /\ Editor!UsesTemp(a)' = Editor!UsesTemp(a) /\ Editor!Body(a)' = Editor!Body(a)
<1>1. /\ op[a].at = from /\ op' = [op EXCEPT ![a].at = to]
      /\ UNCHANGED <<setup, server, service, lastService, roots, readOnly, tab, bar, editorActs, crossed>>
  BY DEF Editor!Goes, Editor!world
<1>2. op \in [Editor!Actors -> Editor!Op] /\ op[a] \in Editor!Op
  BY EditorTypes
<1>3. PICK n : n = [op[a] EXCEPT !.at = to]
  OBVIOUS
<1>4. /\ n \in Editor!Op /\ n.at = to /\ n.kind = op[a].kind /\ n.path = op[a].path
      /\ n.to = op[a].to /\ n.root = op[a].root /\ n.server = op[a].server
      /\ n.existed = op[a].existed
  BY <1>2, <1>3 DEF Editor!Op, CallStates
<1>5. op' \in [Editor!Actors -> Editor!Op] /\ op'[a] = n /\ \A b \in Editor!Actors : b # a => op'[b] = op[b]
  BY <1>1, <1>2, <1>3, <1>4
<1>6. Continues(a)
  BY <1>1, <1>4, <1>5 DEF Continues
<1>7. Editor!UsesTemp(a)' = Editor!UsesTemp(a) /\ Editor!Body(a)' = Editor!Body(a)
  BY <1>1, <1>4, <1>5 DEF Editor!UsesTemp, Editor!Body
<1> QED  BY <1>1, <1>4, <1>5, <1>6, <1>7

\* A step that writes nothing, and after which nothing more is known of the file.
LEMMA QuietStep ==
  ASSUME Editor!EditorAssumption, EditorInv, NEW a \in Editor!Actors, Continues(a),
         UNCHANGED <<remoteFile, temp>>, CallIsWhole(op'[a]), CopyFits(a)',
         op'[a].at = "done" => op[a].kind \notin {"save", "send"}
  PROVE  EditorFits
<1>1. OnlyItsOwn(a)
  BY EditorTypes DEF OnlyItsOwn
<1>2. /\ op[a].server \in Servers /\ op[a].path \in Paths /\ op[a].to \in Paths
      /\ Editor!NeverHalf
  BY CallAt DEF Continues, EditorInv
<1>3. setup.useTempFile /\ ~ setup.link =>
        \A p \in {op[a].path, op[a].to} : remoteFile'[op[a].server][p] = "part" => p \in crossed
  BY <1>2 DEF Editor!NeverHalf
<1>4. Editor!Copied(remoteFile, temp, op[a].server, op[a].path)
        => Editor!Copied(remoteFile', temp', op[a].server, op[a].path)
  BY DEF Editor!Copied
<1> QED  BY <1>1, <1>3, <1>4, CallGoesOn

\* A request fails.
LEMMA FailsStep ==
  ASSUME Editor!EditorAssumption, EditorInv, NEW a \in Editor!Actors, Editor!Fails(a)
  PROVE  EditorFits
<1>1. PICK from : from = op[a].at
  OBVIOUS
<1>2. from \notin {"idle", "done", "failed"} /\ Editor!Goes(a, from, "failed") /\ UNCHANGED <<remoteFile, temp>>
  BY <1>1 DEF Editor!Fails, Editor!Touches
<1>3. Continues(a) /\ op'[a].at = "failed"
  BY <1>2, GoesOnTo DEF CallStates
<1>4. CallIsWhole(op[a])
  BY <1>1, <1>2, CallAt
<1>5. CallIsWhole(op'[a]) /\ CopyFits(a)'
  BY <1>3, <1>4 DEF CallIsWhole, CopyFits, Continues
<1> QED  BY <1>2, <1>3, <1>5, QuietStep

\* There is a connection.
LEMMA ConnectedStep ==
  ASSUME Editor!EditorAssumption, EditorInv, NEW a \in Editor!Actors, Editor!Connected(a)
  PROVE  EditorFits
<1>1. PICK to : to = CASE op[a].kind = "send" -> "put"
                       [] op[a].kind = "rename" /\ ~ Editor!Resolves(op[a].root, Editor!Built) -> "failed"
                       [] OTHER -> "look"
  OBVIOUS
<1>2. /\ to \in {"put", "failed", "look"} /\ (to = "put" => op[a].kind = "send")
      /\ to = "look" => op[a].kind # "send"
  <2>1. CASE op[a].kind = "send"
    BY <1>1, <2>1
  <2>2. CASE op[a].kind = "rename" /\ ~ Editor!Resolves(op[a].root, Editor!Built)
    BY <1>1, <2>2
  <2>3. CASE ~ (op[a].kind = "send") /\ ~ (op[a].kind = "rename" /\ ~ Editor!Resolves(op[a].root, Editor!Built))
    BY <1>1, <2>3
  <2> QED  BY <2>1, <2>2, <2>3
<1>3. Editor!Goes(a, "connect", to) /\ UNCHANGED <<remoteFile, temp>>
  BY <1>1 DEF Editor!Connected
<1>4. Continues(a) /\ op[a].at = "connect" /\ op'[a].at = to
  BY <1>2, <1>3, GoesOnTo DEF CallStates
<1>5. CallIsWhole(op[a]) /\ CopyFits(a) /\ op[a].server \in Servers
      /\ op[a].kind \in {"save", "send", "rename", "delete"}
  BY <1>4, CallAt
<1>6. CallIsWhole(op'[a])
  BY <1>2, <1>4, <1>5 DEF CallIsWhole, Continues
<1>7. CopyFits(a)'
  BY <1>2, <1>3, <1>4, <1>5 DEF CopyFits, Continues, Editor!There
<1> QED  BY <1>2, <1>3, <1>4, <1>6, <1>7, QuietStep

\* The editor's call has looked at what is there.
LEMMA LookedStep ==
  ASSUME Editor!EditorAssumption, EditorInv, NEW a \in Editor!Actors,
         NEW create \in BOOLEAN, NEW overwrite \in BOOLEAN, Editor!Looked(a, create, overwrite)
  PROVE  EditorFits
<1>1. op[a].at = "look"
  BY DEF Editor!Looked
<1>2. /\ op[a] \in Editor!Op /\ CallIsWhole(op[a]) /\ CopyFits(a) /\ op[a].server \in Servers
      /\ op[a].kind \in {"save", "rename", "delete"} /\ op \in [Editor!Actors -> Editor!Op]
  BY <1>1, CallAt, EditorTypes DEF CallIsWhole
<1>3. PICK found \in BOOLEAN, to \in {"failed", "put", "unlink", "move"} :
        /\ op' = [op EXCEPT ![a].existed = found, ![a].at = to]
        /\ to = "put" => op[a].kind = "save"
        /\ op[a].kind = "save" => to \in {"put", "failed"}
        /\ op[a].kind = "delete" => to # "move"
  <2>1. PICK found \in BOOLEAN : found = (Editor!There(a, op[a].to) # "none")
    OBVIOUS
  <2> QED  BY <1>2, <2>1 DEF Editor!Looked
<1>4. PICK n : n = [op[a] EXCEPT !.existed = found, !.at = to]
  OBVIOUS
<1>5. /\ n \in Editor!Op /\ n.at = to /\ n.kind = op[a].kind /\ n.path = op[a].path
      /\ n.to = op[a].to /\ n.root = op[a].root /\ n.server = op[a].server
  BY <1>2, <1>4 DEF Editor!Op
<1>6. op' = [op EXCEPT ![a] = n]
  BY <1>2, <1>3, <1>4
<1>7. op' \in [Editor!Actors -> Editor!Op] /\ op'[a] = n /\ \A b \in Editor!Actors : b # a => op'[b] = op[b]
  BY <1>2, <1>5, <1>6
<1>8. UNCHANGED <<setup, server, service, lastService, roots, readOnly, tab, bar, editorActs, crossed,
                  remoteFile, temp>>
  BY DEF Editor!Looked, Editor!world
<1>9. Continues(a)
  BY <1>1, <1>5, <1>7, <1>8 DEF Continues
<1>10. CallIsWhole(op'[a])
  BY <1>2, <1>3, <1>5, <1>7 DEF CallIsWhole
<1>11. CopyFits(a)'
  BY <1>1, <1>2, <1>3, <1>5, <1>7, <1>8 DEF CopyFits, Editor!There
<1> QED  BY <1>3, <1>5, <1>7, <1>8, <1>9, <1>10, <1>11, QuietStep

\* The bytes go to the temporary file, or to the file.
LEMMA PutsIs ==
  ASSUME Editor!EditorAssumption, EditorInv, NEW a \in Editor!Actors,
         op[a].at \notin {"idle", "done", "failed"}, NEW c \in Editor!Contents, Editor!Puts(a, c)
  PROVE  /\ OnlyItsOwn(a)
         /\ Editor!UsesTemp(a) => temp'[op[a].server][op[a].path] = c /\ UNCHANGED remoteFile
         /\ ~ Editor!UsesTemp(a) => remoteFile'[op[a].server][op[a].path] = c /\ UNCHANGED temp
         /\ \A p \in Paths : p # op[a].path =>
              remoteFile'[op[a].server][p] = remoteFile[op[a].server][p]
<1>1. op[a].server \in Servers /\ op[a].path \in Paths
  BY CallAt
<1>2. /\ remoteFile \in [Servers -> [Paths -> Editor!Contents]]
      /\ temp \in [Servers -> [Paths -> Editor!Contents]]
  BY EditorTypes
<1>3. PICK s \in Servers, p \in Paths : s = op[a].server /\ p = op[a].path
  BY <1>1
<1>4. CASE Editor!UsesTemp(a)
  <2>1. temp' = [temp EXCEPT ![s][p] = c] /\ UNCHANGED remoteFile
    BY <1>3, <1>4 DEF Editor!Puts, Editor!SetTemp
  <2>2. /\ temp' \in [Servers -> [Paths -> Editor!Contents]] /\ temp'[s][p] = c
        /\ \A t \in Servers, q \in Paths : t # s \/ q # p => temp'[t][q] = temp[t][q]
    BY <1>2, <2>1, Written
  <2> QED  BY <1>2, <1>3, <1>4, <2>1, <2>2 DEF OnlyItsOwn
<1>5. CASE ~ Editor!UsesTemp(a)
  <2>1. remoteFile' = [remoteFile EXCEPT ![s][p] = c] /\ UNCHANGED temp
    BY <1>3, <1>5 DEF Editor!Puts, Editor!SetFile
  <2>2. /\ remoteFile' \in [Servers -> [Paths -> Editor!Contents]] /\ remoteFile'[s][p] = c
        /\ \A t \in Servers, q \in Paths : t # s \/ q # p => remoteFile'[t][q] = remoteFile[t][q]
    BY <1>2, <2>1, Written
  <2> QED  BY <1>2, <1>3, <1>5, <2>1, <2>2 DEF OnlyItsOwn
<1> QED  BY <1>4, <1>5

\* With temporary files and no link, every body goes by its temporary file.
LEMMA TempIsUsed ==
  ASSUME setup.useTempFile, ~ setup.link, NEW a
  PROVE  Editor!UsesTemp(a)
  BY DEF Editor!UsesTemp

\* The open truncates.
LEMMA PutBeginsStep ==
  ASSUME Editor!EditorAssumption, EditorInv, NEW a \in Editor!Actors, Editor!PutBegins(a)
  PROVE  EditorFits
<1>1. Editor!Goes(a, "put", "putting") /\ Editor!Puts(a, "part")
  BY DEF Editor!PutBegins
<1>2. Continues(a) /\ op[a].at = "put" /\ op'[a].at = "putting"
  BY <1>1, GoesOnTo DEF CallStates
<1>3. /\ CallIsWhole(op[a]) /\ CopyFits(a) /\ op[a].server \in Servers /\ op[a].path \in Paths
      /\ op[a].to = op[a].path /\ Editor!NeverHalf
  BY <1>2, CallAt DEF CallIsWhole, EditorInv
<1>4. "part" \in Editor!Contents
  BY DEF Editor!Contents
<1>5. /\ OnlyItsOwn(a)
      /\ Editor!UsesTemp(a) => temp'[op[a].server][op[a].path] = "part" /\ UNCHANGED remoteFile
  BY <1>1, <1>2, <1>4, PutsIs
<1>6. CallIsWhole(op'[a]) /\ CopyFits(a)'
  BY <1>2, <1>3 DEF CallIsWhole, CopyFits, Continues
<1>7. ASSUME setup.useTempFile, ~ setup.link PROVE UNCHANGED remoteFile
  BY <1>5, <1>7, TempIsUsed
<1>8. setup.useTempFile /\ ~ setup.link =>
        \A p \in {op[a].path, op[a].to} : remoteFile'[op[a].server][p] = "part" => p \in crossed
  BY <1>3, <1>7 DEF Editor!NeverHalf
<1>9. ASSUME setup.useTempFile, ~ setup.link, op[a].kind \in {"save", "send"}, op[a].path \notin crossed,
             Editor!Copied(remoteFile, temp, op[a].server, op[a].path)
      PROVE  Editor!Copied(remoteFile', temp', op[a].server, op[a].path)
  <2>1. remoteFile[op[a].server][op[a].path] \in Editor!Whole
    BY <1>2, <1>3, <1>9 DEF CopyFits, Editor!There, Editor!Copied, Editor!Whole
  <2> QED  BY <1>7, <1>9, <2>1 DEF Editor!Copied
<1> QED  BY <1>2, <1>5, <1>6, <1>8, <1>9, CallGoesOn

\* The body is there.
LEMMA PutEndsStep ==
  ASSUME Editor!EditorAssumption, EditorInv, NEW a \in Editor!Actors, Editor!PutEnds(a)
  PROVE  EditorFits
<1>1. PICK to \in {"done", "move", "unlink"} : to = Editor!AfterPut(a)
  BY DEF Editor!AfterPut
<1>2. PICK body \in {"edit", "sent"} : body = Editor!Body(a)
  BY DEF Editor!Body
<1>3. Editor!Goes(a, "putting", to) /\ Editor!Puts(a, body)
  BY <1>1, <1>2 DEF Editor!PutEnds
<1>4. /\ Continues(a) /\ op[a].at = "putting" /\ op'[a].at = to
      /\ Editor!UsesTemp(a)' = Editor!UsesTemp(a) /\ Editor!Body(a)' = body
  BY <1>2, <1>3, GoesOnTo DEF CallStates
<1>5. /\ CallIsWhole(op[a]) /\ op[a].server \in Servers /\ op[a].path \in Paths
      /\ op[a].kind \in {"save", "send"} /\ op[a].to = op[a].path /\ Editor!NeverHalf
  BY <1>4, CallAt DEF CallIsWhole, EditorInv
<1>6. body \in Editor!Contents /\ body \in Editor!Whole
  BY DEF Editor!Contents, Editor!Whole
<1>7. /\ OnlyItsOwn(a)
      /\ Editor!UsesTemp(a) => temp'[op[a].server][op[a].path] = body /\ UNCHANGED remoteFile
      /\ ~ Editor!UsesTemp(a) => remoteFile'[op[a].server][op[a].path] = body
  BY <1>3, <1>4, <1>6, PutsIs
<1>8. to = "done" <=> ~ Editor!UsesTemp(a)
  BY <1>1 DEF Editor!AfterPut
<1>9. CallIsWhole(op'[a])
  BY <1>4, <1>5 DEF CallIsWhole, Continues
<1>10. CopyFits(a)'
  BY <1>4, <1>7, <1>8 DEF CopyFits, Continues
<1>11. setup.useTempFile /\ ~ setup.link =>
         \A p \in {op[a].path, op[a].to} : remoteFile'[op[a].server][p] = "part" => p \in crossed
  BY <1>5, <1>7, TempIsUsed DEF Editor!NeverHalf
<1>12. Editor!Copied(remoteFile', temp', op[a].server, op[a].path)
  BY <1>6, <1>7 DEF Editor!Copied
<1>13. op'[a].at = "done" => remoteFile'[op[a].server][op[a].path] = Editor!Body(a)
  BY <1>2, <1>4, <1>7, <1>8
<1> QED  BY <1>4, <1>7, <1>9, <1>10, <1>11, <1>12, <1>13, CallGoesOn

\* What was in the way, or is to be deleted, is gone.
LEMMA UnlinkedStep ==
  ASSUME Editor!EditorAssumption, EditorInv, NEW a \in Editor!Actors, Editor!Unlinked(a)
  PROVE  EditorFits
<1>1. PICK to \in {"done", "move"} : to = IF op[a].kind = "delete" THEN "done" ELSE "move"
  OBVIOUS
<1>2. Editor!Goes(a, "unlink", to) /\ UNCHANGED temp
  BY <1>1 DEF Editor!Unlinked
<1>3. /\ Continues(a) /\ op[a].at = "unlink" /\ op'[a].at = to
      /\ Editor!UsesTemp(a)' = Editor!UsesTemp(a) /\ Editor!Body(a)' = Editor!Body(a)
  BY <1>2, GoesOnTo DEF CallStates
<1>4. /\ CallIsWhole(op[a]) /\ CopyFits(a) /\ op[a].server \in Servers /\ op[a].path \in Paths
      /\ op[a].to \in Paths /\ Editor!NeverHalf
  BY <1>3, CallAt DEF EditorInv
<1>5. PICK s \in Servers, q \in Paths : s = op[a].server /\ q = op[a].to
  BY <1>4
<1>6. /\ remoteFile \in [Servers -> [Paths -> Editor!Contents]]
      /\ temp \in [Servers -> [Paths -> Editor!Contents]] /\ "none" \in Editor!Contents
  BY EditorTypes DEF Editor!Contents
<1>7. UNCHANGED remoteFile \/ remoteFile' = [remoteFile EXCEPT ![s][q] = "none"]
  BY <1>5 DEF Editor!Unlinked, Editor!SetFile
<1>8. /\ remoteFile' \in [Servers -> [Paths -> Editor!Contents]]
      /\ remoteFile'[s][q] \in {"none", remoteFile[s][q]}
      /\ \A t \in Servers, p \in Paths : t # s \/ p # q => remoteFile'[t][p] = remoteFile[t][p]
  <2>1. CASE UNCHANGED remoteFile
    BY <1>6, <2>1
  <2>2. CASE remoteFile' = [remoteFile EXCEPT ![s][q] = "none"]
    BY <1>6, <2>2, Written
  <2> QED  BY <1>7, <2>1, <2>2
<1>9. OnlyItsOwn(a)
  BY <1>2, <1>5, <1>6, <1>8 DEF OnlyItsOwn
<1>10. CallIsWhole(op'[a])
  BY <1>1, <1>3, <1>4 DEF CallIsWhole, Continues
<1>11. CopyFits(a)'
  BY <1>2, <1>3, <1>4 DEF CopyFits, Continues
<1>12. setup.useTempFile /\ ~ setup.link =>
         \A p \in {op[a].path, op[a].to} : remoteFile'[op[a].server][p] = "part" => p \in crossed
  BY <1>4, <1>5, <1>8 DEF Editor!NeverHalf
<1>13. ASSUME op[a].kind \in {"save", "send"}, op[a].path \notin crossed
       PROVE  Editor!Copied(remoteFile', temp', op[a].server, op[a].path)
  BY <1>2, <1>3, <1>4, <1>13 DEF CopyFits, Editor!Copied, Editor!Body, Editor!Whole
<1> QED  BY <1>1, <1>3, <1>9, <1>10, <1>11, <1>12, <1>13, CallGoesOn

\* The temporary file, or the file, has its new name.
LEMMA MovedStep ==
  ASSUME Editor!EditorAssumption, EditorInv, NEW a \in Editor!Actors, Editor!Moved(a)
  PROVE  EditorFits
<1>1. Editor!Goes(a, "move", "done")
  BY DEF Editor!Moved
<1>2. Continues(a) /\ op[a].at = "move" /\ op'[a].at = "done"
  BY <1>1, GoesOnTo DEF CallStates
<1>3. /\ CallIsWhole(op[a]) /\ CopyFits(a) /\ op[a].server \in Servers /\ op[a].path \in Paths
      /\ op[a].to \in Paths /\ Editor!NeverHalf /\ Crossing
  BY <1>2, CallAt DEF EditorInv
<1>4. PICK s \in Servers, p \in Paths, q \in Paths :
        s = op[a].server /\ p = op[a].path /\ q = op[a].to
  BY <1>3
<1>5. /\ remoteFile \in [Servers -> [Paths -> Editor!Contents]] /\ remoteFile[s][p] \in Editor!Contents
      /\ temp \in [Servers -> [Paths -> Editor!Contents]] /\ temp[s][p] \in Editor!Contents
      /\ "none" \in Editor!Contents
  BY EditorTypes DEF Editor!Contents
<1>6. CallIsWhole(op'[a]) /\ CopyFits(a)'
  BY <1>2, <1>3 DEF CallIsWhole, CopyFits, Continues
<1>7. CASE op[a].kind = "rename"
  <2>1. /\ UNCHANGED temp
        /\ remoteFile' = [remoteFile EXCEPT ![s][q] = remoteFile[s][p], ![s][p] = "none"]
    BY <1>4, <1>7 DEF Editor!Moved, Editor!There
  <2>2. PICK f : f = [remoteFile EXCEPT ![s][q] = remoteFile[s][p]]
    OBVIOUS
  <2>3. /\ f \in [Servers -> [Paths -> Editor!Contents]] /\ f[s][q] = remoteFile[s][p]
        /\ \A t \in Servers, x \in Paths : t # s \/ x # q => f[t][x] = remoteFile[t][x]
    BY <1>5, <2>2, Written
  <2>4. remoteFile' = [f EXCEPT ![s][p] = "none"]
    BY <1>5, <2>1, <2>2
  <2>5. /\ remoteFile' \in [Servers -> [Paths -> Editor!Contents]] /\ remoteFile'[s][p] = "none"
        /\ \A t \in Servers, x \in Paths : t # s \/ x # p => remoteFile'[t][x] = f[t][x]
    BY <1>5, <2>3, <2>4, Written
  <2>6. OnlyItsOwn(a)
    <3>1. ASSUME NEW t \in Servers, NEW x \in Paths, t # s \/ x \notin {p, q}
          PROVE  remoteFile'[t][x] = remoteFile[t][x]
      BY <2>3, <2>5, <3>1
    <3>2. temp' \in [Servers -> [Paths -> Editor!Contents]] /\ temp' = temp
      BY <1>5, <2>1
    <3> QED  BY <1>4, <2>5, <3>1, <3>2 DEF OnlyItsOwn
  <2>7. p \in crossed <=> q \in crossed
    <3>1. Editor!Touches(a) = {p, q}
      BY <1>2, <1>4 DEF Editor!Touches
    <3> QED  BY <1>3, <3>1 DEF Crossing
  <2>8. setup.useTempFile /\ ~ setup.link =>
          \A x \in {p, q} : remoteFile'[s][x] = "part" => x \in crossed
    BY <1>3, <2>3, <2>5, <2>7 DEF Editor!NeverHalf
  <2> QED  BY <1>2, <1>4, <1>6, <1>7, <2>6, <2>8, CallGoesOn
<1>8. CASE op[a].kind # "rename"
  <2>1. /\ temp' = [temp EXCEPT ![s][p] = "none"]
        /\ remoteFile' = [remoteFile EXCEPT ![s][p] = temp[s][p]]
    BY <1>4, <1>8 DEF Editor!Moved, Editor!SetTemp, Editor!SetFile
  <2>2. /\ temp' \in [Servers -> [Paths -> Editor!Contents]]
        /\ \A t \in Servers, x \in Paths : t # s \/ x # p => temp'[t][x] = temp[t][x]
    BY <1>5, <2>1, Written
  <2>3. /\ remoteFile' \in [Servers -> [Paths -> Editor!Contents]] /\ remoteFile'[s][p] = temp[s][p]
        /\ \A t \in Servers, x \in Paths : t # s \/ x # p => remoteFile'[t][x] = remoteFile[t][x]
    BY <1>5, <2>1, Written
  <2>4. OnlyItsOwn(a)
    BY <1>4, <2>2, <2>3 DEF OnlyItsOwn
  <2>5. op[a].kind \in {"save", "send"} /\ p = q
    BY <1>2, <1>3, <1>4, <1>8, CallAt DEF CallIsWhole
  <2>6. p \notin crossed => /\ remoteFile'[s][p] = Editor!Body(a) /\ Editor!Body(a) \in Editor!Whole
                           /\ Editor!Body(a) # "part"
    BY <1>2, <1>3, <1>4, <2>3, <2>5 DEF CopyFits, Editor!Body, Editor!Whole
  <2>7. p \notin crossed => Editor!Copied(remoteFile', temp', s, p)
    BY <2>6 DEF Editor!Copied
  <2> QED  BY <1>2, <1>4, <1>6, <2>4, <2>5, <2>6, <2>7, CallGoesOn
<1> QED  BY <1>7, <1>8

\* Each action keeps the invariant, a copy of every file, and what it says is saved.
LEMMA EditorStep ==
  ASSUME Editor!EditorAssumption, EditorInv, Editor!Next
  PROVE  EditorFits
<1>1. \/ Editor!Open \/ Editor!Close \/ Editor!ReloadBegins \/ Editor!ConfigDeleted
      \/ Editor!Filter \/ Editor!ToggleReadOnly
      \/ (\E s \in Servers : Editor!SwitchProfile(s)) \/ (\E i \in Editor!Ids : Editor!ReloadEnds(i))
      => EditorFits
  BY WorldStep
<1>2. ASSUME NEW kind \in {"save", "rename", "delete"}, NEW p \in Paths, NEW q \in Paths,
             kind # "rename" => p = q, Editor!Call(kind, p, q)
      PROVE  EditorFits
  <2>1. PICK b : b = Editor!Built
    OBVIOUS
  <2>2. /\ tab # Editor!NoTab /\ b # Editor!NoneHere /\ roots' = b
        /\ Editor!SameHost(tab.server, b.server)
        /\ Editor!Begin("editor", kind, p, q, tab, b.server)
    BY <1>2, <2>1 DEF Editor!Call, Editor!Resolves
  <2>3. tab \in Editor!Root /\ b.server \in Servers /\ Editor!SameHost(b.server, tab.server)
    BY <2>1, <2>2, BuiltIs, EditorTypes DEF Editor!SameHost
  <2>4. "editor" \in Editor!Actors
    BY DEF Editor!Actors
  <2>5. PICK srv \in Servers : srv = b.server
    BY <2>2, <2>3
  <2> QED  BY <1>2, <2>1, <2>2, <2>3, <2>4, <2>5, CallBegins
<1>3. ASSUME NEW p \in Paths, Editor!Send(p) PROVE EditorFits
  <2>1. /\ service \in Editor!Ids /\ server \in Servers
    BY EditorTypes DEF Editor!Ids
  <2>2. PICK r : r = [id |-> service, server |-> server]
    OBVIOUS
  <2>3. r \in Editor!Root /\ Editor!SameHost(server, r.server)
    BY <2>1, <2>2 DEF Editor!Root, Editor!SameHost
  <2>4. Editor!Begin("transfer", "send", p, p, r, server) /\ UNCHANGED roots
    BY <1>3, <2>2 DEF Editor!Send
  <2>5. "transfer" \in Editor!Actors
    BY DEF Editor!Actors
  <2> QED  BY <2>1, <2>3, <2>4, <2>5, CallBegins
<1>4. ASSUME NEW a \in Editor!Actors,
             \/ Editor!Connected(a) \/ Editor!PutBegins(a) \/ Editor!PutEnds(a) \/ Editor!Unlinked(a)
             \/ Editor!Moved(a) \/ Editor!Fails(a)
             \/ \E c, o \in BOOLEAN : Editor!Looked(a, c, o)
      PROVE  EditorFits
  BY <1>4, ConnectedStep, PutBeginsStep, PutEndsStep, UnlinkedStep, MovedStep, FailsStep, LookedStep
<1> QED  BY <1>1, <1>2, <1>3, <1>4 DEF Editor!Next

\* At first there is no open file, no call, and no temporary file.
LEMMA EditorBegins ==
  ASSUME Editor!EditorAssumption, Editor!Init
  PROVE  EditorInv
<1>1. /\ setup \in Setups /\ server \in Servers /\ service = 1 /\ lastService = 1
      /\ roots = Editor!NoRoots /\ tab = Editor!NoTab /\ readOnly = FALSE /\ bar = "none"
      /\ temp = [s \in Servers |-> [p \in Paths |-> "none"]]
      /\ op = [a \in Editor!Actors |-> Editor!NoOp] /\ editorActs = 0 /\ crossed = {}
      /\ MaxServices \in Nat \ {0} /\ MaxActs \in Nat /\ Paths # {}
  BY DEF Editor!Init, Editor!EditorAssumption
<1>2. PICK f \in FirstServers : remoteFile = [s \in Servers |-> f]
  BY DEF Editor!Init
<1>3. f \in [Paths -> {"none", "old", "dir"}]
  BY DEF Editor!EditorAssumption
<1>4. /\ remoteFile \in [Servers -> [Paths -> Editor!Contents]]
      /\ temp \in [Servers -> [Paths -> Editor!Contents]]
  BY <1>1, <1>2, <1>3 DEF Editor!Contents
<1>5. Editor!APath \in Paths
  BY <1>1 DEF Editor!APath
<1>6. /\ Editor!NoOp \in Editor!Op /\ Editor!NoOp.at = "idle" /\ Editor!NoOp.kind = "none"
  BY <1>5, NoRootIs DEF Editor!NoOp, Editor!Op, Editor!NoRoots
<1>7. \A a \in Editor!Actors : op[a] = Editor!NoOp
  BY <1>1
<1>8. Editor!TypeOK
  <2>1. service \in Editor!Ids /\ lastService \in Editor!Ids /\ editorActs \in 0..MaxActs
    BY <1>1 DEF Editor!Ids
  <2>2. op \in [Editor!Actors -> Editor!Op]
    BY <1>1, <1>6
  <2> QED  BY <1>1, <1>4, <2>1, <2>2, NoRootIs DEF Editor!TypeOK
<1>9. WorldFits
  BY <1>1 DEF WorldFits, Editor!BarIsRight
<1>10. \A a \in Editor!Actors : CallIsWhole(op[a]) /\ CopyFits(a)
  BY <1>6, <1>7 DEF CallIsWhole, CopyFits
<1>11. Crossing
  BY <1>6, <1>7 DEF Crossing, Editor!Touches
<1>12. Editor!NeverHalf /\ Editor!SavesGoHome
  BY <1>2, <1>3, <1>6, <1>7 DEF Editor!NeverHalf, Editor!SavesGoHome
<1> QED  BY <1>8, <1>9, <1>10, <1>11, <1>12 DEF EditorInv

\* No variable of the editor changes when another part moves.
LEMMA EditorStands ==
  ASSUME Editor!EditorAssumption, EditorInv, UNCHANGED editorVars
  PROVE  EditorFits
<1>1. UNCHANGED <<setup, server, service, lastService, roots, readOnly, tab, bar, remoteFile, temp, op,
                  editorActs, crossed>>
  BY DEF editorVars
<1>2. WorldTypes'
  BY <1>1, EditorTypes DEF WorldTypes
<1>3. WorldFits'
  BY <1>1 DEF EditorInv, WorldFits, Editor!BarIsRight, Editor!Built, Editor!Resolves, Editor!SameHost
<1> QED  BY <1>1, <1>2, <1>3, EditorTypes, WorldGoes

\* What the invariant says of the calls and of the status bar.
LEMMA EditorMeans ==
  ASSUME EditorInv
  PROVE  Editor!SavesGoHome /\ Editor!BarIsRight /\ Editor!NeverHalf
  BY DEF EditorInv, WorldFits

-----------------------------------------------------------------------------
\* What follows a fold over a sequence (configs.forEach, services.forEach): the library's
\* theorems on induction are about operators; these are about sets and functions.
LEMMA SmallestIn ==
  ASSUME NEW T, T \subseteq Nat, T # {}
  PROVE  \E m \in T : \A n \in T : m <= n
<1> DEFINE R == OpToRel(<, Nat)
<1>1. IsWellFoundedOn(R, Nat)
  BY NatLessThanWellFounded
<1>2. \A n, m \in Nat : n < m => <<n, m>> \in R
  BY DEF OpToRel
<1> HIDE DEF R
<1>3. PICK m \in T : \A n \in T : ~ (<<n, m>> \in R)
  BY <1>1, WFMin
<1>4. \A n \in T : ~ (n < m)
  BY <1>2, <1>3
<1>5. \A n \in T : n \in Nat /\ m \in Nat
  OBVIOUS
<1>6. \A n \in T : m <= n
  BY <1>4, <1>5
<1> QED  BY <1>6

\* What holds of 0, and of a number whenever it holds of the one before it, holds of them all.
LEMMA Climbs ==
  ASSUME NEW N \in Nat, NEW G, 0 \in G, \A n \in 1..N : n - 1 \in G => n \in G
  PROVE  \A n \in 0..N : n \in G
<1> DEFINE B == {n \in 0..N : n \notin G}
<1> SUFFICES ASSUME B # {}
             PROVE  FALSE
  OBVIOUS
<1>1. B \subseteq Nat /\ \A n \in B : n \in 0..N /\ n \notin G
  OBVIOUS
<1>2. \A n \in 0..N : n \notin G => n \in B
  OBVIOUS
<1> HIDE DEF B
<1>3. PICK m \in B : \A n \in B : m <= n
  BY <1>1, SmallestIn
<1>4. m \in 1..N /\ m - 1 \in 0..N /\ ~ (m <= m - 1)
  BY <1>1
<1>5. m - 1 \in G
  BY <1>2, <1>3, <1>4
<1> QED  BY <1>1, <1>4, <1>5

\* The services that configs.forEach(createFileService) leaves, one config after the other.
Unfolds(f, first, configs, n) ==
  /\ f = [i \in 0..n |-> f[i]] /\ f[0] = first
  /\ \A i \in 1..n : f[i] = Service!CreateOne(f[i - 1], configs[i])

\* There is such a function, and its last value is what the configs create.
LEMMA CreatedIs ==
  ASSUME NEW configs, Len(configs) \in Nat
  PROVE  \E f : /\ Unfolds(f, [trie |-> trie, profile |-> profile, watchers |-> watchers],
                           configs, Len(configs))
                /\ Service!Created(configs) = f[Len(configs)]
<1> DEFINE first == [trie |-> trie, profile |-> profile, watchers |-> watchers]
           N == Len(configs)
           G == {n \in 0..N : \E f : Unfolds(f, first, configs, n)}
<1>1. 0 \in G
  <2>1. Unfolds([i \in 0..0 |-> first], first, configs, 0)
    BY DEF Unfolds
  <2> QED  BY <2>1
<1>2. ASSUME NEW n \in 1..N, n - 1 \in G PROVE n \in G
  <2>1. PICK f : Unfolds(f, first, configs, n - 1)
    BY <1>2
  <2> DEFINE g == [i \in 0..n |-> IF i = n THEN Service!CreateOne(f[n - 1], configs[n]) ELSE f[i]]
  <2>2. g[0] = first
    BY <2>1 DEF Unfolds
  <2>3. ASSUME NEW i \in 1..n PROVE g[i] = Service!CreateOne(g[i - 1], configs[i])
    <3>1. i - 1 \in 0..n /\ i - 1 # n /\ g[i - 1] = f[i - 1]
      OBVIOUS
    <3>2. CASE i = n
      BY <3>1, <3>2
    <3>3. CASE i # n
      <4>1. i \in 1..(n - 1)
        BY <3>3
      <4>2. f[i] = Service!CreateOne(f[i - 1], configs[i])
        BY <2>1, <4>1 DEF Unfolds
      <4>3. g[i] = f[i]
        BY <3>3
      <4> HIDE DEF g
      <4> QED  BY <3>1, <4>2, <4>3
    <3> QED  BY <3>2, <3>3
  <2>4. Unfolds(g, first, configs, n)
    BY <2>2, <2>3 DEF Unfolds
  <2> QED  BY <2>4
<1>3. N \in G
  <2> HIDE DEF G, N
  <2>1. N \in Nat
    BY DEF N
  <2>2. \A n \in 0..N : n \in G
    BY <1>1, <1>2, <2>1, Climbs
  <2> QED  BY <2>1, <2>2
<1>4. PICK f : Unfolds(f, first, configs, N)
  BY <1>3 DEF G
<1> DEFINE made[n \in 0..N] == IF n = 0 THEN first ELSE Service!CreateOne(made[n - 1], configs[n])
<1>5. f = [n \in 0..N |-> IF n = 0 THEN first ELSE Service!CreateOne(f[n - 1], configs[n])]
  BY <1>4 DEF Unfolds
<1>6. made = [n \in 0..N |-> IF n = 0 THEN first ELSE Service!CreateOne(made[n - 1], configs[n])]
  BY <1>5
<1>7. Service!Created(configs) = made[N]
  BY DEF Service!Created
<1>8. \E h : h = made
  OBVIOUS
<1> HIDE DEF made
<1>9. Unfolds(made, first, configs, N)
  BY <1>6 DEF Unfolds
<1> QED  BY <1>7, <1>9

\* The trie that is left when the services of an order are disposed of, one after the other.
Shrinks(f, order, n) ==
  /\ f = [i \in 0..n |-> f[i]] /\ f[0] = trie
  /\ \A i \in 1..n : f[i] = Service!RemovePath(f[i - 1], order[i])

\* There is such a function, and its last value is the trie without the services of the order.
LEMMA DisposedIs ==
  ASSUME NEW order, Len(order) \in Nat
  PROVE  \E f : Shrinks(f, order, Len(order)) /\ Service!Disposed(order) = f[Len(order)]
<1> DEFINE N == Len(order)
           G == {n \in 0..N : \E f : Shrinks(f, order, n)}
<1>1. 0 \in G
  <2>1. Shrinks([i \in 0..0 |-> trie], order, 0)
    BY DEF Shrinks
  <2> QED  BY <2>1
<1>2. ASSUME NEW n \in 1..N, n - 1 \in G PROVE n \in G
  <2>1. PICK f : Shrinks(f, order, n - 1)
    BY <1>2
  <2> DEFINE g == [i \in 0..n |-> IF i = n THEN Service!RemovePath(f[n - 1], order[n]) ELSE f[i]]
  <2>2. g[0] = trie
    BY <2>1 DEF Shrinks
  <2>3. ASSUME NEW i \in 1..n PROVE g[i] = Service!RemovePath(g[i - 1], order[i])
    <3>1. i - 1 \in 0..n /\ i - 1 # n /\ g[i - 1] = f[i - 1]
      OBVIOUS
    <3>2. CASE i = n
      BY <3>1, <3>2
    <3>3. CASE i # n
      <4>1. i \in 1..(n - 1)
        BY <3>3
      <4>2. f[i] = Service!RemovePath(f[i - 1], order[i])
        BY <2>1, <4>1 DEF Shrinks
      <4>3. g[i] = f[i]
        BY <3>3
      <4> HIDE DEF g
      <4> QED  BY <3>1, <4>2, <4>3
    <3> QED  BY <3>2, <3>3
  <2>4. Shrinks(g, order, n)
    BY <2>2, <2>3 DEF Shrinks
  <2> QED  BY <2>4
<1>3. N \in G
  <2> HIDE DEF G, N
  <2>1. N \in Nat
    BY DEF N
  <2>2. \A n \in 0..N : n \in G
    BY <1>1, <1>2, <2>1, Climbs
  <2> QED  BY <2>1, <2>2
<1>4. PICK f : Shrinks(f, order, N)
  BY <1>3 DEF G
<1> DEFINE rest[n \in 0..N] == IF n = 0 THEN trie ELSE Service!RemovePath(rest[n - 1], order[n])
<1>5. f = [n \in 0..N |-> IF n = 0 THEN trie ELSE Service!RemovePath(f[n - 1], order[n])]
  BY <1>4 DEF Shrinks
<1>6. rest = [n \in 0..N |-> IF n = 0 THEN trie ELSE Service!RemovePath(rest[n - 1], order[n])]
  BY <1>5
<1>7. Service!Disposed(order) = rest[N]
  BY DEF Service!Disposed
<1> HIDE DEF rest
<1>8. Shrinks(rest, order, N)
  BY <1>6 DEF Shrinks
<1> QED  BY <1>7, <1>8

-----------------------------------------------------------------------------
\* The nodes on the way to a path are those that it begins with.
LEMMA BeginsIs ==
  ASSUME NEW S, NEW b \in Seq(S), NEW p \in Seq(S)
  PROVE  Service!IsPrefix(b, p) <=> Len(b) <= Len(p) /\ \A n \in 1..Len(b) : p[n] = b[n]
<1>1. SubSeq(b, 1, Len(b)) = b
  OBVIOUS
<1>2. CASE Len(b) <= Len(p)
  <2>1. /\ SubSeq(p, 1, Len(b)) \in Seq(S) /\ Len(SubSeq(p, 1, Len(b))) = Len(b)
        /\ \A n \in 1..Len(b) : SubSeq(p, 1, Len(b))[n] = p[n]
    BY <1>2
  <2>2. PICK c : c = SubSeq(p, 1, Len(b))
    OBVIOUS
  <2>3. c \in Seq(S) /\ Len(c) = Len(b) /\ \A n \in 1..Len(b) : c[n] = p[n]
    BY <2>1, <2>2
  <2>4. c = b <=> \A n \in 1..Len(b) : c[n] = b[n]
    BY <2>3
  <2>5. (\A n \in 1..Len(b) : c[n] = b[n]) <=> \A n \in 1..Len(b) : p[n] = b[n]
    BY <2>3
  <2>6. Service!IsPrefix(b, p) <=> c = b
    BY <1>1, <1>2, <2>2 DEF Service!IsPrefix
  <2> QED  BY <1>2, <2>4, <2>5, <2>6
<1>3. CASE ~ (Len(b) <= Len(p))
  BY <1>3 DEF Service!IsPrefix
<1> QED  BY <1>2, <1>3

\* The nodes on the way to a path, which is one of them.
LEMMA WayIs ==
  ASSUME NEW S, NEW p \in Seq(S)
  PROVE  /\ Service!Way(p) \subseteq Seq(S)
         /\ \A x \in Seq(S) : x \in Service!Way(p) <=> x # <<>> /\ Service!IsPrefix(x, p)
<1>1. ASSUME NEW n \in 1..Len(p)
      PROVE  /\ SubSeq(p, 1, n) \in Seq(S) /\ Len(SubSeq(p, 1, n)) = n
             /\ \A i \in 1..n : SubSeq(p, 1, n)[i] = p[i]
  OBVIOUS
<1>2. Service!Way(p) \subseteq Seq(S)
  BY <1>1 DEF Service!Way
<1>3. ASSUME NEW x \in Service!Way(p) PROVE x # <<>> /\ Service!IsPrefix(x, p)
  <2>1. PICK n \in 1..Len(p) : x = SubSeq(p, 1, n)
    BY DEF Service!Way
  <2>2. x \in Seq(S) /\ Len(x) = n /\ \A i \in 1..n : p[i] = x[i]
    BY <1>1, <2>1
  <2>3. n \in Nat /\ n # 0 /\ n <= Len(p)
    OBVIOUS
  <2> QED  BY <2>2, <2>3, BeginsIs
<1>4. ASSUME NEW x \in Seq(S), x # <<>>, Service!IsPrefix(x, p) PROVE x \in Service!Way(p)
  <2>1. Len(x) <= Len(p) /\ \A i \in 1..Len(x) : p[i] = x[i]
    BY <1>4, BeginsIs
  <2>2. Len(x) \in 1..Len(p)
    BY <1>4, <2>1
  <2>3. PICK c : c = SubSeq(p, 1, Len(x))
    OBVIOUS
  <2>4. c \in Seq(S) /\ Len(c) = Len(x) /\ \A i \in 1..Len(x) : c[i] = x[i]
    BY <1>1, <2>1, <2>2, <2>3
  <2>5. c = x
    BY <2>4
  <2> QED  BY <2>2, <2>3, <2>5 DEF Service!Way
<1> QED  BY <1>2, <1>3, <1>4

\* Beginning with goes on from path to path,
LEMMA BeginsGoesOn ==
  ASSUME NEW S, NEW a \in Seq(S), NEW b \in Seq(S), NEW c \in Seq(S),
         Service!IsPrefix(a, b), Service!IsPrefix(b, c)
  PROVE  Service!IsPrefix(a, c)
  BY BeginsIs

\* and a path begins with itself.
LEMMA BeginsItself ==
  ASSUME NEW S, NEW a \in Seq(S)
  PROVE  Service!IsPrefix(a, a)
  BY BeginsIs

-----------------------------------------------------------------------------
\* A config whose names are among those of the files, and what the file may be.
OnOff == {"on", "off"}
Bases == Seq(STRING) \ {<<>>}
Known ==
  [base : Bases, on : OnOff, start : Service!Names, profiles : UNION {[D -> OnOff] : D \in SUBSET Service!Names}]
Setting ==
  {f \in [state : {"none", "bad", "good"}, configs : Seq(Known)] : f.state # "good" => f.configs = <<>>}

\* A trie has the nodes above its values, and each value is under its base.
TrieFits(t) ==
  /\ t = [nodes |-> t.nodes, value |-> t.value]
  /\ t.value = [b \in DOMAIN t.value |-> t.value[b]]
  /\ IsFiniteSet(DOMAIN t.value) /\ DOMAIN t.value \subseteq Bases
  /\ \A b \in DOMAIN t.value : t.value[b] \in Known /\ t.value[b].base = b
  /\ t.nodes = {<<>>} \cup UNION {Service!Way(b) : b \in DOMAIN t.value}

\* A node is the root or on the way to a value.
LEMMA NodeIs ==
  ASSUME NEW t, TrieFits(t)
  PROVE  /\ t.nodes \subseteq Seq(STRING)
         /\ \A x \in Seq(STRING) : x # <<>> =>
              (x \in t.nodes <=> \E b \in DOMAIN t.value : Service!IsPrefix(x, b))
<1>1. \A b \in DOMAIN t.value : b \in Seq(STRING)
  BY DEF TrieFits, Bases
<1>2. \A b \in DOMAIN t.value :
        /\ Service!Way(b) \subseteq Seq(STRING)
        /\ \A x \in Seq(STRING) : x \in Service!Way(b) <=> x # <<>> /\ Service!IsPrefix(x, b)
  BY <1>1, WayIs
<1>3. \A x : x \in t.nodes <=> x = <<>> \/ \E b \in DOMAIN t.value : x \in Service!Way(b)
  BY DEF TrieFits
<1>4. <<>> \in Seq(STRING)
  OBVIOUS
<1> HIDE DEF Bases
<1> QED  BY <1>2, <1>3, <1>4

\* All values are reached from the root, and that of a base is what is found for it.
LEMMA TrieFinds ==
  ASSUME NEW t, TrieFits(t)
  PROVE  /\ Service!AllValues(t) = {t.value[b] : b \in DOMAIN t.value}
         /\ \A b \in DOMAIN t.value : Service!FindPrefix(t, b) = {t.value[b]}
<1>1. \A b \in DOMAIN t.value : Service!Way(b) \subseteq t.nodes
  BY DEF TrieFits
<1>2. Service!AllValues(t) = {t.value[b] : b \in DOMAIN t.value}
  BY <1>1 DEF Service!AllValues
<1>3. ASSUME NEW b \in DOMAIN t.value PROVE Service!FindPrefix(t, b) = {t.value[b]}
  <2>1. b \in Seq(STRING) /\ b # <<>>
    BY DEF TrieFits, Bases
  <2>2. b \in Service!Way(b)
    BY <2>1, WayIs, BeginsItself
  <2>3. b \in Service!OnTheWay(t, b)
    BY <1>1, <2>2 DEF Service!OnTheWay, Service!Loaded
  <2>4. \A m \in Service!OnTheWay(t, b) :
          m \in Seq(STRING) /\ Service!IsPrefix(m, b)
    BY <2>1, WayIs DEF Service!OnTheWay
  <2>5. \A m \in Service!OnTheWay(t, b) : Len(m) <= Len(b) /\ (Len(m) = Len(b) => m = b)
    BY <2>1, <2>4, BeginsIs
  <2>6. \A m \in Service!OnTheWay(t, b) : Len(m) \in Nat
    BY <2>4
  <2>7. {n \in Service!OnTheWay(t, b) : \A m \in Service!OnTheWay(t, b) : Len(m) <= Len(n)} = {b}
    BY <2>3, <2>5, <2>6
  <2> QED  BY <2>7 DEF Service!FindPrefix
<1> QED  BY <1>2, <1>3

\* Adding a value keeps the trie whole,
LEMMA AddFits ==
  ASSUME NEW t, TrieFits(t), NEW g \in Known
  PROVE  /\ TrieFits(Service!Add(t, g.base, g))
         /\ DOMAIN Service!Add(t, g.base, g).value = DOMAIN t.value \cup {g.base}
         /\ \A b \in DOMAIN t.value \cup {g.base} :
              Service!Add(t, g.base, g).value[b] = IF b = g.base THEN g ELSE t.value[b]
<1>1. PICK v : v = Service!Put(t.value, g.base, g)
  OBVIOUS
<1>2. /\ v = [k \in DOMAIN v |-> v[k]] /\ DOMAIN v = DOMAIN t.value \cup {g.base}
      /\ \A b \in DOMAIN t.value \cup {g.base} : v[b] = IF b = g.base THEN g ELSE t.value[b]
  BY <1>1 DEF Service!Put
<1>3. PICK n : n = t.nodes \cup Service!Way(g.base)
  OBVIOUS
<1>4. PICK a : a = [nodes |-> n, value |-> v]
  OBVIOUS
<1>5. Service!Add(t, g.base, g) = a
  BY <1>1, <1>3, <1>4 DEF Service!Add
<1>6. a.nodes = n /\ a.value = v /\ a = [nodes |-> a.nodes, value |-> a.value]
  BY <1>4
<1>7. IsFiniteSet(DOMAIN v)
  BY <1>2, FS_AddElement DEF TrieFits
<1>8. g.base \in Bases
  BY DEF Known
<1>9. n = {<<>>} \cup UNION {Service!Way(b) : b \in DOMAIN v}
  BY <1>2, <1>3 DEF TrieFits
<1>10. \A b \in DOMAIN v : v[b] \in Known /\ v[b].base = b
  BY <1>2 DEF TrieFits
<1>11. DOMAIN v \subseteq Bases
  BY <1>2, <1>8 DEF TrieFits
<1>12. TrieFits(a)
  BY <1>2, <1>6, <1>7, <1>9, <1>10, <1>11 DEF TrieFits
<1> QED  BY <1>2, <1>5, <1>6, <1>12

\* and so does removing one, whichever nodes are pruned.
LEMMA RemoveFits ==
  ASSUME NEW t, TrieFits(t), NEW p \in Bases
  PROVE  /\ TrieFits(Service!RemovePath(t, p))
         /\ DOMAIN Service!RemovePath(t, p).value = DOMAIN t.value \ {p}
<1>1. p \in Seq(STRING) /\ p # <<>>
  BY DEF Bases
<1>2. p \in DOMAIN t.value => p \in t.nodes
  BY <1>1, NodeIs, BeginsItself
<1>3. CASE p \notin t.nodes
  <2>1. Service!RemovePath(t, p) = t
    BY <1>3 DEF Service!RemovePath
  <2> QED  BY <1>2, <1>3, <2>1
<1>4. CASE p \in t.nodes
  <2>1. PICK v : v = [node \in DOMAIN t.value \ {p} |-> t.value[node]]
    OBVIOUS
  <2>2. /\ v = [k \in DOMAIN v |-> v[k]] /\ DOMAIN v = DOMAIN t.value \ {p}
        /\ \A b \in DOMAIN v : v[b] = t.value[b]
    BY <2>1
  <2>3. PICK n : n = t.nodes \ Service!Pruned(t, p)
    OBVIOUS
  <2>4. PICK a : a = [nodes |-> n, value |-> v]
    OBVIOUS
  <2>5. Service!RemovePath(t, p) = a
    BY <1>4, <2>1, <2>3, <2>4 DEF Service!RemovePath
  <2>6. a.nodes = n /\ a.value = v /\ a = [nodes |-> a.nodes, value |-> a.value]
    BY <2>4
  <2>7. IsFiniteSet(DOMAIN v)
    BY <2>2, FS_RemoveElement DEF TrieFits
  <2>8. \A b \in DOMAIN v : v[b] \in Known /\ v[b].base = b
    BY <2>2 DEF TrieFits
  <2>9. DOMAIN v \subseteq Bases
    BY <2>2 DEF TrieFits
  <2>10. \A b \in DOMAIN t.value : b \in Seq(STRING) /\ b # <<>>
    BY DEF TrieFits, Bases
  <2>11. ASSUME NEW x \in Service!Pruned(t, p), NEW b \in DOMAIN v PROVE x \notin Service!Way(b)
    <3>1. x \in Service!Way(p) /\ \A o \in t.nodes :
            Service!IsPrefix(x, o) => Service!IsPrefix(o, p) /\ (o = p \/ ~ Service!Loaded(t, o))
      BY <2>11 DEF Service!Pruned
    <3>2. b \in t.nodes /\ Service!Loaded(t, b) /\ b # p
      BY <2>2, <2>10, NodeIs, BeginsItself DEF Service!Loaded
    <3>3. ~ Service!IsPrefix(x, b)
      BY <3>1, <3>2
    <3>4. x \in Seq(STRING) /\ b \in Seq(STRING)
      BY <1>1, <2>2, <2>10, <3>1, WayIs
    <3> QED  BY <3>3, <3>4, WayIs
  <2>12. ASSUME NEW x \in n, x # <<>> PROVE \E b \in DOMAIN v : x \in Service!Way(b)
    <3>1. x \in t.nodes /\ x \notin Service!Pruned(t, p) /\ x \in Seq(STRING)
      BY <2>3, NodeIs
    <3>2. PICK b \in DOMAIN t.value : Service!IsPrefix(x, b)
      BY <2>12, <3>1, NodeIs
    <3>3. CASE b # p
      BY <2>2, <2>10, <2>12, <3>1, <3>2, <3>3, WayIs
    <3>4. CASE b = p
      <4>1. x \in Service!Way(p)
        BY <1>1, <2>12, <3>1, <3>2, <3>4, WayIs
      <4>2. PICK o \in t.nodes : /\ Service!IsPrefix(x, o)
                                 /\ ~ (Service!IsPrefix(o, p) /\ (o = p \/ ~ Service!Loaded(t, o)))
        BY <3>1, <4>1 DEF Service!Pruned
      <4>3. o \in Seq(STRING) /\ o # <<>>
        <5>1. o \in Seq(STRING)
          BY NodeIs
        <5>2. Len(x) # 0 /\ Len(x) <= Len(o) /\ Len(x) \in Nat
          BY <2>12, <3>1, <4>2, <5>1, BeginsIs
        <5> QED  BY <5>1, <5>2
      <4>4. PICK c \in DOMAIN t.value : Service!IsPrefix(o, c)
        BY <4>3, NodeIs
      <4>5. CASE c # p
        <5>1. Service!IsPrefix(x, c)
          BY <2>10, <3>1, <4>2, <4>3, <4>4, BeginsGoesOn
        <5> QED  BY <2>2, <2>10, <2>12, <3>1, <4>5, <5>1, WayIs
      <4>6. CASE c = p
        <5>1. o # p /\ o \in DOMAIN t.value
          BY <4>2, <4>4, <4>6 DEF Service!Loaded
        <5> QED  BY <2>2, <2>12, <3>1, <4>2, <4>3, <5>1, WayIs
      <4> QED  BY <4>5, <4>6
    <3> QED  BY <3>3, <3>4
  <2>13. <<>> \in n
    <3>1. <<>> \notin Service!Way(p)
      BY <1>1, WayIs
    <3>2. <<>> \notin Service!Pruned(t, p)
      BY <3>1 DEF Service!Pruned
    <3> QED  BY <2>3, <3>2 DEF TrieFits
  <2>14. \A b \in DOMAIN v : Service!Way(b) \subseteq t.nodes
    BY <2>2 DEF TrieFits
  <2>15. \A b \in DOMAIN v : Service!Way(b) \subseteq n
    BY <2>3, <2>11, <2>14
  <2>16. n = {<<>>} \cup UNION {Service!Way(b) : b \in DOMAIN v}
    BY <2>12, <2>13, <2>15
  <2>17. TrieFits(a)
    BY <2>2, <2>6, <2>7, <2>8, <2>9, <2>16 DEF TrieFits
  <2> QED  BY <2>2, <2>5, <2>6, <2>17
<1> QED  BY <1>3, <1>4

\* Nothing is left once every service has been disposed of.
LEMMA DisposedFits ==
  ASSUME TrieFits(trie), NEW order \in Service!Orders
  PROVE  TrieFits(Service!Disposed(order)) /\ DOMAIN Service!Disposed(order).value = {}
<1> DEFINE N == Service!Cardinality(DOMAIN trie.value)
<1>1. IsFiniteSet(DOMAIN trie.value) /\ DOMAIN trie.value \subseteq Bases
  BY DEF TrieFits
<1>2. N \in Nat
  BY <1>1, FS_CardinalityType DEF Service!Cardinality, Cardinality
<1>3. order \in [1..N -> DOMAIN trie.value] /\ DOMAIN trie.value \subseteq Service!ToSet(order)
  BY DEF Service!Orders
<1> HIDE DEF N
<1>4. Len(order) = N /\ DOMAIN order = 1..N
  BY <1>2, <1>3
<1>5. PICK f : Shrinks(f, order, N) /\ Service!Disposed(order) = f[N]
  BY <1>2, <1>4, DisposedIs
<1> DEFINE G == {n \in 0..N : TrieFits(f[n]) /\ DOMAIN f[n].value = DOMAIN trie.value \ {order[i] : i \in 1..n}}
<1>6. 0 \in G
  BY <1>2, <1>5 DEF Shrinks
<1>7. ASSUME NEW n \in 1..N, n - 1 \in G PROVE n \in G
  <2>1. f[n] = Service!RemovePath(f[n - 1], order[n]) /\ order[n] \in Bases
    BY <1>1, <1>3, <1>5 DEF Shrinks
  <2>2. PICK t : t = f[n - 1]
    OBVIOUS
  <2>3. TrieFits(t) /\ DOMAIN t.value = DOMAIN trie.value \ {order[i] : i \in 1..(n - 1)}
    BY <1>7, <2>2
  <2>4. TrieFits(f[n]) /\ DOMAIN f[n].value = DOMAIN t.value \ {order[n]}
    BY <2>1, <2>2, <2>3, RemoveFits
  <2>5. {order[i] : i \in 1..n} = {order[i] : i \in 1..(n - 1)} \cup {order[n]}
    BY <1>2
  <2> QED  BY <1>2, <2>3, <2>4, <2>5
<1>8. N \in G
  <2> HIDE DEF G
  <2> QED  BY <1>2, <1>6, <1>7, Climbs
<1>9. {order[i] : i \in 1..N} = Service!ToSet(order)
  BY <1>4 DEF Service!ToSet
<1> QED  BY <1>3, <1>5, <1>8, <1>9

\* Names of profiles.
LEMMA NamesOf ==
  ASSUME NEW g \in Known
  PROVE  /\ Service!ProfilesOf(g) \subseteq Service!Names /\ g.start \in Service!Names
         /\ g.base \in Bases /\ g.on \in OnOff /\ \A p \in Service!ProfilesOf(g) : g.profiles[p] \in OnOff
  BY DEF Known, Service!ProfilesOf

\* Every service has its watcher, under the active profile,
LEMMA RebuiltIs ==
  ASSUME NEW t, NEW p
  PROVE  /\ Service!Rebuilt(t, p) = [b \in DOMAIN t.value |-> Service!Rebuilt(t, p)[b]]
         /\ DOMAIN Service!Rebuilt(t, p) = DOMAIN t.value
         /\ \A b \in DOMAIN t.value : Service!Rebuilt(t, p)[b] = Service!Watcher(t.value[b], p)
  BY DEF Service!Rebuilt

\* which a switch of the profile renews for each of them.
LEMMA RenewedIs ==
  ASSUME NEW t, NEW p, NEW q
  PROVE  Service!Renewed(Service!Rebuilt(t, q), t, p) = Service!Rebuilt(t, p)
<1>1. PICK w : w = Service!Rebuilt(t, q)
  OBVIOUS
<1>2. PICK v : v = Service!Rebuilt(t, p)
  OBVIOUS
<1>3. DOMAIN w = DOMAIN t.value /\ v = [b \in DOMAIN t.value |-> v[b]]
  BY <1>1, <1>2, RebuiltIs
<1>4. Service!Renewed(w, t, p) = [b \in DOMAIN w \cup DOMAIN t.value |-> IF b \in DOMAIN t.value THEN v[b] ELSE w[b]]
  BY <1>2 DEF Service!Renewed
<1> QED  BY <1>1, <1>2, <1>3, <1>4

\* A service that is added is watched like those that are there.
LEMMA PutIsRebuilt ==
  ASSUME NEW t, TrieFits(t), NEW g \in Known, NEW p
  PROVE  Service!Put(Service!Rebuilt(t, p), g.base, Service!Watcher(g, p))
         = Service!Rebuilt(Service!Add(t, g.base, g), p)
<1>1. PICK a : a = Service!Add(t, g.base, g)
  OBVIOUS
<1>2. /\ DOMAIN a.value = DOMAIN t.value \cup {g.base}
      /\ \A b \in DOMAIN a.value : a.value[b] = IF b = g.base THEN g ELSE t.value[b]
  <2>1. /\ DOMAIN Service!Add(t, g.base, g).value = DOMAIN t.value \cup {g.base}
        /\ \A b \in DOMAIN t.value \cup {g.base} :
             Service!Add(t, g.base, g).value[b] = IF b = g.base THEN g ELSE t.value[b]
    BY AddFits
  <2> QED  BY <1>1, <2>1
<1>3. PICK w : w = Service!Rebuilt(t, p)
  OBVIOUS
<1>4. PICK v : v = Service!Rebuilt(a, p)
  OBVIOUS
<1>5. DOMAIN w = DOMAIN t.value /\ \A b \in DOMAIN t.value : w[b] = Service!Watcher(t.value[b], p)
  BY <1>3, RebuiltIs
<1>6. v = [b \in DOMAIN a.value |-> v[b]] /\ \A b \in DOMAIN a.value : v[b] = Service!Watcher(a.value[b], p)
  BY <1>4, RebuiltIs
<1>7. Service!Put(w, g.base, Service!Watcher(g, p))
        = [k \in DOMAIN w \cup {g.base} |-> IF k = g.base THEN Service!Watcher(g, p) ELSE w[k]]
  BY DEF Service!Put
<1>8. \A k \in DOMAIN a.value : v[k] = IF k = g.base THEN Service!Watcher(g, p) ELSE w[k]
  BY <1>2, <1>5, <1>6
<1> QED  BY <1>1, <1>2, <1>3, <1>4, <1>5, <1>6, <1>7, <1>8

\* One config more: its service is there and watched, and the profile is as it was or the one it starts with.
LEMMA OneCreated ==
  ASSUME NEW s, TrieFits(s.trie), NEW g \in Known, NEW r, r = Service!CreateOne(s, g)
  PROVE  /\ TrieFits(r.trie) /\ DOMAIN r.trie.value = DOMAIN s.trie.value \cup {g.base}
         /\ \A b \in DOMAIN r.trie.value : r.trie.value[b] = IF b = g.base THEN g ELSE s.trie.value[b]
         /\ r.profile = s.profile \/ r.profile = g.start
         /\ s.watchers = Service!Rebuilt(s.trie, s.profile) => r.watchers = Service!Rebuilt(r.trie, r.profile)
<1>1. PICK p : p = Service!ProfileFor(g, s.profile)
  OBVIOUS
<1>2. p = s.profile \/ p = g.start
  BY <1>1 DEF Service!ProfileFor
<1>3. PICK before : before = IF p = s.profile THEN s.watchers ELSE Service!Renewed(s.watchers, s.trie, p)
  OBVIOUS
<1>4. r = [trie |-> Service!Add(s.trie, g.base, g), profile |-> p,
           watchers |-> Service!Put(before, g.base, Service!Watcher(g, p))]
  BY <1>1, <1>3 DEF Service!CreateOne
<1>5. /\ r.trie = Service!Add(s.trie, g.base, g) /\ r.profile = p
      /\ r.watchers = Service!Put(before, g.base, Service!Watcher(g, p))
  BY <1>4
<1>6. ASSUME s.watchers = Service!Rebuilt(s.trie, s.profile)
      PROVE  r.watchers = Service!Rebuilt(r.trie, r.profile)
  <2>1. before = Service!Rebuilt(s.trie, p)
    BY <1>3, <1>6, RenewedIs
  <2>2. PICK t : t = s.trie
    OBVIOUS
  <2>3. Service!Put(Service!Rebuilt(t, p), g.base, Service!Watcher(g, p))
          = Service!Rebuilt(Service!Add(t, g.base, g), p)
    BY <2>2, PutIsRebuilt
  <2> QED  BY <1>5, <2>1, <2>2, <2>3
<1>7. /\ TrieFits(r.trie) /\ DOMAIN r.trie.value = DOMAIN s.trie.value \cup {g.base}
      /\ \A b \in DOMAIN r.trie.value : r.trie.value[b] = IF b = g.base THEN g ELSE s.trie.value[b]
  <2>1. PICK t : t = s.trie /\ TrieFits(t)
    OBVIOUS
  <2>2. /\ TrieFits(Service!Add(t, g.base, g))
        /\ DOMAIN Service!Add(t, g.base, g).value = DOMAIN t.value \cup {g.base}
        /\ \A b \in DOMAIN t.value \cup {g.base} :
             Service!Add(t, g.base, g).value[b] = IF b = g.base THEN g ELSE t.value[b]
    BY <2>1, AddFits
  <2>3. PICK a : a = r.trie
    OBVIOUS
  <2>4. a = Service!Add(t, g.base, g)
    BY <1>5, <2>1, <2>3
  <2> QED  BY <2>1, <2>2, <2>3, <2>4
<1> QED  BY <1>2, <1>5, <1>6, <1>7

\* The services of a file are those of its configs, watched under the profile that results.
LEMMA CreatedFits ==
  ASSUME TrieFits(trie), NEW configs \in Seq(Known), NEW r, r = Service!Created(configs)
  PROVE  /\ TrieFits(r.trie)
         /\ DOMAIN r.trie.value = DOMAIN trie.value \cup {configs[i].base : i \in DOMAIN configs}
         /\ \A b \in DOMAIN r.trie.value :
              b \in DOMAIN trie.value \/ \E i \in DOMAIN configs : r.trie.value[b] = configs[i]
         /\ r.profile = profile \/ \E i \in DOMAIN configs : r.profile = configs[i].start
         /\ watchers = Service!Rebuilt(trie, profile) => r.watchers = Service!Rebuilt(r.trie, r.profile)
<1> DEFINE N == Len(configs)
           first == [trie |-> trie, profile |-> profile, watchers |-> watchers]
<1>1. N \in Nat /\ DOMAIN configs = 1..N /\ \A i \in 1..N : configs[i] \in Known
  OBVIOUS
<1>2. PICK f : Unfolds(f, first, configs, N) /\ r = f[N]
  BY <1>1, CreatedIs
<1>3. first.trie = trie /\ first.profile = profile /\ first.watchers = watchers
  OBVIOUS
<1> HIDE DEF N, first
<1> DEFINE Holds(n, s) ==
             /\ TrieFits(s.trie)
             /\ DOMAIN s.trie.value = DOMAIN trie.value \cup {configs[i].base : i \in 1..n}
             /\ \A b \in DOMAIN s.trie.value :
                  b \in DOMAIN trie.value \/ \E i \in 1..n : s.trie.value[b] = configs[i]
             /\ s.profile = profile \/ \E i \in 1..n : s.profile = configs[i].start
             /\ watchers = Service!Rebuilt(trie, profile) => s.watchers = Service!Rebuilt(s.trie, s.profile)
           G == {n \in 0..N : Holds(n, f[n])}
<1>4. 0 \in G
  <2>1. f[0] = first
    BY <1>2 DEF Unfolds
  <2>2. Holds(0, first)
    BY <1>3
  <2> HIDE DEF Holds
  <2> QED  BY <1>1, <2>1, <2>2
<1>5. ASSUME NEW n \in 1..N, n - 1 \in G PROVE n \in G
  <2>1. PICK s : s = f[n - 1]
    OBVIOUS
  <2>2. PICK t : t = f[n]
    OBVIOUS
  <2>3. Holds(n - 1, s)
    <3> HIDE DEF Holds
    <3> QED  BY <1>5, <2>1
  <2>4. t = Service!CreateOne(s, configs[n]) /\ configs[n] \in Known
    BY <1>1, <1>2, <2>1, <2>2 DEF Unfolds
  <2>5. PICK g \in Known : g = configs[n]
    BY <2>4
  <2>6. /\ TrieFits(t.trie) /\ DOMAIN t.trie.value = DOMAIN s.trie.value \cup {g.base}
        /\ \A b \in DOMAIN t.trie.value : t.trie.value[b] = IF b = g.base THEN g ELSE s.trie.value[b]
        /\ t.profile = s.profile \/ t.profile = g.start
        /\ s.watchers = Service!Rebuilt(s.trie, s.profile) => t.watchers = Service!Rebuilt(t.trie, t.profile)
    <3>1. TrieFits(s.trie) /\ t = Service!CreateOne(s, g)
      BY <2>3, <2>4, <2>5
    <3> HIDE DEF Holds, G
    <3> QED  BY <3>1, OneCreated
  <2>7. 1..n = (1..(n - 1)) \cup {n}
    BY <1>1
  <2>8. DOMAIN t.trie.value = DOMAIN trie.value \cup {configs[i].base : i \in 1..n}
    BY <2>3, <2>5, <2>6, <2>7
  <2>9. \A b \in DOMAIN t.trie.value :
          b \in DOMAIN trie.value \/ \E i \in 1..n : t.trie.value[b] = configs[i]
    BY <2>3, <2>5, <2>6, <2>7
  <2>10. t.profile = profile \/ \E i \in 1..n : t.profile = configs[i].start
    BY <2>3, <2>5, <2>6, <2>7
  <2>11. Holds(n, t)
    BY <2>3, <2>5, <2>6, <2>8, <2>9, <2>10
  <2> HIDE DEF Holds
  <2> QED  BY <2>2, <2>11
<1>6. N \in G
  <2> HIDE DEF G
  <2> QED  BY <1>1, <1>4, <1>5, Climbs
<1>7. Holds(N, r)
  <2> HIDE DEF Holds
  <2> QED  BY <1>2, <1>6
<1> QED  BY <1>1, <1>7

-----------------------------------------------------------------------------
ServiceTypes ==
  /\ TrieFits(trie) /\ file \in Setting
  /\ handlers \subseteq [kind : {"start", "reload", "wizard"}, at : {"read", "create"}, got : Setting]
  /\ toggle \subseteq [config : Known, next : OnOff, live : BOOLEAN]
  /\ picker \subseteq Service!Names \cup {"none"}

\* A reload is still to come.
ToCome == timer \/ events # <<>>

\* The services are those of the file.
Serves ==
  /\ DOMAIN trie.value = {file.configs[i].base : i \in DOMAIN file.configs}
  /\ \A b \in DOMAIN trie.value : \E i \in DOMAIN file.configs : trie.value[b] = file.configs[i]

\* What a handler has read is what is there, or it will be read again.
HandlerFits(h) ==
  /\ h.at = "create" => ToCome \/ h.got = file
  /\ h.kind = "wizard" => ToCome

\* The active profile is one of those there are, or is excepted.
ProfileFits == stale \/ unreconciled \/ profile \in available \cup {"none"}

\* While handlers follow each other the services are those of the file, or it will be read.
Follows ==
  /\ handlers = {} => ToCome \/ (Serves /\ ProfileFits)
  /\ handlers # {} => DOMAIN trie.value = {} /\ \A t \in toggle : ~ t.live
  /\ \A h \in handlers : HandlerFits(h) /\ handlers = {h}

\* The last event on its way says whether the file is there.
LastSays == events # <<>> => (events[Len(events)] = "delete" <=> file.state = "none")

ServiceInv ==
  /\ Service!TypeOK /\ ServiceTypes /\ LastSays
  /\ (\E t \in toggle : t.live) => ToCome
  /\ ~ overlapped => Follows
  /\ Service!WatchedAsConfigured

-----------------------------------------------------------------------------
\* What sftp.json may be has the types of the proof,
LEMMA FilesFit ==
  ASSUME Service!ServicesAssumption
  PROVE  Files \subseteq Setting
<1> SUFFICES ASSUME NEW c \in Files PROVE c \in Setting
  OBVIOUS
<1>1. /\ c = [state |-> c.state, configs |-> c.configs] /\ c.state \in {"none", "bad", "good"}
      /\ c.state # "good" => c.configs = <<>>
      /\ c.configs \in Seq(Service!ConfigsIn(c)) /\ \A g \in Service!ConfigsIn(c) : Service!IsConfig(g)
  BY DEF Service!ServicesAssumption
<1>2. ASSUME NEW g \in Service!ConfigsIn(c) PROVE g \in Known
  <2>1. /\ g = [base |-> g.base, on |-> g.on, profiles |-> g.profiles, start |-> g.start]
        /\ g.base \in Bases /\ g.on \in OnOff /\ g.profiles \in [Service!ProfilesOf(g) -> OnOff]
    BY <1>1 DEF Service!IsConfig, Bases, OnOff
  <2>2. Service!ProfilesOf(g) \subseteq Service!Names /\ g.start \in Service!Names
    BY DEF Service!Names
  <2>3. g.profiles \in UNION {[D -> OnOff] : D \in SUBSET Service!Names}
    BY <2>1, <2>2
  <2>4. PICK P : P = UNION {[D -> OnOff] : D \in SUBSET Service!Names}
    OBVIOUS
  <2>5. PICK N : N = Service!Names
    OBVIOUS
  <2>6. g \in [base : Bases, on : OnOff, start : N, profiles : P]
    BY <2>1, <2>2, <2>3, <2>4, <2>5
  <2> QED  BY <2>1, <2>4, <2>5, <2>6 DEF Known
<1>3. c.configs \in Seq(Known)
  <2>1. Service!ConfigsIn(c) \subseteq Known
    BY <1>2
  <2> QED  BY <1>1, <2>1
<1> QED  BY <1>1, <1>3 DEF Setting

\* which say of its configs that each is one.
LEMMA SettingIs ==
  ASSUME NEW f \in Setting
  PROVE  /\ f.configs \in Seq(Known) /\ (f.state # "good" => f.configs = <<>>)
         /\ f.state \in {"none", "bad", "good"} /\ f = [state |-> f.state, configs |-> f.configs]
         /\ \A i \in DOMAIN f.configs : f.configs[i] \in Known
<1>1. f.configs \in Seq(Known) /\ (f.state # "good" => f.configs = <<>>)
      /\ f.state \in {"none", "bad", "good"} /\ f = [state |-> f.state, configs |-> f.configs]
  BY DEF Setting
<1> QED  BY <1>1

\* The indicator and the names of a trie have their types.
LEMMA IndicatorFits ==
  ASSUME NEW t, TrieFits(t), NEW p, NEW path
  PROVE  /\ Service!Indicator(t, p, path) \in {"on", "off", "unknown"}
         /\ Service!Available(t) \subseteq Service!Names
         /\ Service!Available(t) = UNION {Service!ProfilesOf(t.value[b]) : b \in DOMAIN t.value}
<1>1. PICK one : one = IF Service!FindPrefix(t, path) # {} THEN Service!FindPrefix(t, path)
                       ELSE Service!AllValues(t)
  OBVIOUS
<1>2. Service!AllValues(t) = {t.value[b] : b \in DOMAIN t.value}
  BY TrieFinds
<1>3. \A b \in DOMAIN t.value : t.value[b] \in Known
  BY DEF TrieFits
<1>4. Service!FindPrefix(t, path) \subseteq Known
  BY <1>3 DEF Service!FindPrefix, Service!OnTheWay, Service!Loaded
<1>5. one \subseteq Known
  BY <1>1, <1>2, <1>3, <1>4
<1>6. \A g \in Known : Service!Resolved(g, p) \in {"on", "off", "unknown"}
  BY NamesOf DEF Service!Resolved, OnOff
<1>7. Service!Cardinality({}) = 0
  BY FS_EmptySet DEF Service!Cardinality, Cardinality
<1>8. Service!Cardinality(one) = 1 => (CHOOSE c \in one : TRUE) \in one
  BY <1>7
<1>9. Service!Indicator(t, p, path)
        = IF Service!Cardinality(one) = 1 THEN Service!Resolved(CHOOSE c \in one : TRUE, p) ELSE "unknown"
  BY <1>1 DEF Service!Indicator
<1>10. Service!Indicator(t, p, path) \in {"on", "off", "unknown"}
  BY <1>5, <1>6, <1>8, <1>9
<1>11. Service!Available(t) = UNION {Service!ProfilesOf(t.value[b]) : b \in DOMAIN t.value}
  BY <1>2 DEF Service!Available
<1> QED  BY <1>3, <1>10, <1>11, NamesOf

\* The profile that remains is defined, and every watcher is under it.
LEMMA SettleFits ==
  ASSUME NEW t, NEW w, NEW p, TrieFits(t), Service!Settle(t, w, p)
  PROVE  /\ trie' = t /\ available' = Service!Available(t) /\ available' \subseteq Service!Names
         /\ profile' \in available' \cup {"none"}
         /\ w = Service!Rebuilt(t, p) => watchers' = Service!Rebuilt(t, profile')
<1>1. /\ trie' = t /\ available' = Service!Available(t)
      /\ profile' = Service!Reconciled(p, Service!Available(t))
      /\ watchers' = IF profile' = p THEN w ELSE Service!Renewed(w, t, profile')
  BY DEF Service!Settle
<1>2. available' \subseteq Service!Names
  BY <1>1, IndicatorFits
<1>3. profile' \in available' \cup {"none"}
  BY <1>1 DEF Service!Reconciled
<1>4. PICK q : q = profile'
  OBVIOUS
<1>5. w = Service!Rebuilt(t, p) => watchers' = Service!Rebuilt(t, q)
  BY <1>1, <1>4, RenewedIs
<1> QED  BY <1>1, <1>2, <1>3, <1>4, <1>5

\* What follows the disposal of every service.
LEMMA Emptied ==
  ASSUME ServiceInv, NEW t, TrieFits(t), DOMAIN t.value = {}
  PROVE  /\ ~ stale => \A p : Service!WatchersLeft = Service!Rebuilt(t, p)
         /\ Service!Available(t) = {}
         /\ \A x \in Service!Detached : ~ x.live /\ x \in [config : Known, next : OnOff, live : BOOLEAN]
<1>1. ~ stale => DOMAIN watchers = DOMAIN trie.value
  BY RebuiltIs DEF ServiceInv, Service!WatchedAsConfigured
<1>2. PICK w : w = Service!WatchersLeft
  OBVIOUS
<1>3. w = [b \in DOMAIN w |-> w[b]] /\ (~ stale => DOMAIN w = {})
  BY <1>1, <1>2 DEF Service!WatchersLeft
<1>4. ASSUME ~ stale, NEW p PROVE w = Service!Rebuilt(t, p)
  <2>1. PICK v : v = Service!Rebuilt(t, p)
    OBVIOUS
  <2>2. v = [b \in DOMAIN t.value |-> v[b]]
    BY <2>1, RebuiltIs
  <2> QED  BY <1>3, <1>4, <2>1, <2>2
<1>5. Service!Available(t) = {}
  BY IndicatorFits
<1>6. \A x \in Service!Detached : ~ x.live /\ x \in [config : Known, next : OnOff, live : BOOLEAN]
  BY DEF ServiceInv, ServiceTypes, Service!Detached
<1> QED  BY <1>2, <1>4, <1>5, <1>6

-----------------------------------------------------------------------------
\* The variables have their types.
LEMMA ServiceFacts ==
  ASSUME ServiceInv
  PROVE  /\ profile \in Service!Names \cup {"none"} /\ available \subseteq Service!Names
         /\ shown \in {"on", "off", "unknown"} /\ active \in Opened /\ timer \in BOOLEAN
         /\ events \in Seq({"change", "delete"}) /\ overlapped \in BOOLEAN /\ stale \in BOOLEAN
         /\ unreconciled \in BOOLEAN
         /\ TrieFits(trie) /\ file \in Setting /\ picker \subseteq Service!Names \cup {"none"}
         /\ \A h \in handlers : h \in [kind : {"start", "reload", "wizard"}, at : {"read", "create"}, got : Setting]
         /\ \A t \in toggle : t \in [config : Known, next : OnOff, live : BOOLEAN]
  BY DEF ServiceInv, ServiceTypes, Service!TypeOK

\* They have them after a step when what a step may set has them.
LEMMA TypesStay ==
  ASSUME profile' \in Service!Names \cup {"none"}, available' \subseteq Service!Names,
         shown' \in {"on", "off", "unknown"}, active' \in Opened, timer' \in BOOLEAN,
         events' \in Seq({"change", "delete"}), overlapped' \in BOOLEAN, stale' \in BOOLEAN,
         unreconciled' \in BOOLEAN,
         ServiceTypes'
  PROVE  Service!TypeOK'
<1>1. \A h \in handlers' : [kind |-> h.kind, at |-> h.at] \in Service!Handler
  BY DEF ServiceTypes, Service!Handler
<1>2. trie'.nodes = {<<>>} \cup UNION {Service!Way(b) : b \in DOMAIN trie'.value}
  BY DEF ServiceTypes, TrieFits
<1> QED  BY <1>1, <1>2 DEF Service!TypeOK

\* What a reload that is still to come makes good.
LEMMA FollowsStay ==
  ASSUME ServiceInv, ToCome', ToCome \/ UNCHANGED file,
         UNCHANGED <<trie, handlers, overlapped>>, \A t \in toggle' : t \in toggle \/ ~ t.live \/ handlers = {}
  PROVE  ~ overlapped' => Follows'
<1> SUFFICES ASSUME ~ overlapped PROVE Follows'
  OBVIOUS
<1>1. Follows
  BY DEF ServiceInv
<1>2. ASSUME NEW h \in handlers PROVE HandlerFits(h)'
  BY <1>1, <1>2 DEF Follows, HandlerFits, ToCome
<1> QED  BY <1>1, <1>2 DEF Follows, ToCome

\* An event on its way tells of a change of the file.
LEMMA EventIs ==
  ASSUME NEW e \in {"change", "delete"}, events \in Seq({"change", "delete"}), events' = Append(events, e)
  PROVE  /\ events' \in Seq({"change", "delete"}) /\ events' # <<>> /\ events'[Len(events')] = e
<1>1. Len(events') = Len(events) + 1 /\ events' \in Seq({"change", "delete"}) /\ Len(events) \in Nat
  OBVIOUS
<1>2. events'[Len(events) + 1] = e
  OBVIOUS
<1> QED  BY <1>1, <1>2

\* An event taken off leaves the last one, unless it was that.
LEMMA HeadGone ==
  ASSUME events \in Seq({"change", "delete"}), events # <<>>, events' = Tail(events)
  PROVE  /\ events' \in Seq({"change", "delete"})
         /\ events' # <<>> => events'[Len(events')] = events[Len(events)]
         /\ events' = <<>> => events[Len(events)] = Head(events)
<1>1. Len(events) \in Nat /\ Len(events) # 0 /\ Len(events') = Len(events) - 1
  OBVIOUS
<1>2. events' \in Seq({"change", "delete"})
  OBVIOUS
<1>3. ASSUME events' # <<>> PROVE events'[Len(events')] = events[Len(events)]
  <2>1. Len(events') \in 1..Len(events')
    BY <1>2, <1>3
  <2>2. \A i \in 1..Len(events') : events'[i] = events[i + 1]
    BY <1>1
  <2> QED  BY <1>1, <2>1, <2>2
<1>4. ASSUME events' = <<>> PROVE events[Len(events)] = Head(events)
  <2>1. Len(<<>>) = 0 /\ Len(events') = Len(<<>>)
    BY <1>4
  <2>2. Len(events) = 1
    BY <1>1, <2>1
  <2> QED  BY <2>2
<1> QED  BY <1>2, <1>3, <1>4

\* The file is written here or elsewhere, which an event tells of.
LEMMA WriteStep ==
  ASSUME Service!ServicesAssumption, ServiceInv, NEW c \in Files, Service!SaveInEditor(c) \/ Service!ChangeOutside(c)
  PROVE  ServiceInv'
<1>1. PICK e \in {"change", "delete"} : events' = Append(events, e) /\ (e = "delete" <=> c.state = "none")
  BY DEF Service!SaveInEditor, Service!ChangeOutside
<1>2. /\ file' = c /\ timer' \in {TRUE, timer}
      /\ UNCHANGED <<trie, watchers, profile, available, shown, handlers, active, picker, toggle, overlapped, stale, unreconciled>>
  BY ServiceFacts DEF Service!SaveInEditor, Service!ChangeOutside, Service!services, Service!user
<1>3. events' \in Seq({"change", "delete"}) /\ events' # <<>> /\ events'[Len(events')] = e
  BY <1>1, ServiceFacts, EventIs
<1>4. ServiceTypes'
  BY <1>2, FilesFit DEF ServiceInv, ServiceTypes
<1>5. Service!TypeOK'
  BY <1>2, <1>3, <1>4, ServiceFacts, TypesStay
<1>6. ToCome' /\ LastSays'
  BY <1>1, <1>2, <1>3 DEF ToCome, LastSays
<1>7. ~ overlapped' => Follows'
  <2> SUFFICES ASSUME ~ overlapped PROVE Follows'
    BY <1>2
  <2>1. Follows
    BY DEF ServiceInv
  <2>2. ASSUME NEW h \in handlers PROVE HandlerFits(h)'
    BY <1>2, <1>6, <2>1, <2>2 DEF Follows, HandlerFits
  <2> QED  BY <1>2, <1>6, <2>1, <2>2 DEF Follows
<1>8. Service!WatchedAsConfigured'
  BY <1>2 DEF ServiceInv, Service!WatchedAsConfigured
<1> QED  BY <1>4, <1>5, <1>6, <1>7, <1>8 DEF ServiceInv

\* An event of a change schedules a reload.
LEMMA ChangedStep ==
  ASSUME ServiceInv, Service!Changed
  PROVE  ServiceInv'
<1>1. /\ events # <<>> /\ Head(events) = "change" /\ events' = Tail(events) /\ timer' = TRUE
      /\ UNCHANGED <<file, trie, watchers, profile, available, shown, handlers, active, picker, toggle,
                     overlapped, stale, unreconciled>>
  BY DEF Service!Changed, Service!services, Service!user
<1>2. /\ events' \in Seq({"change", "delete"}) /\ (events' # <<>> => events'[Len(events')] = events[Len(events)])
  BY <1>1, ServiceFacts, HeadGone
<1>3. ServiceTypes'
  BY <1>1 DEF ServiceInv, ServiceTypes
<1>4. Service!TypeOK'
  BY <1>1, <1>2, <1>3, ServiceFacts, TypesStay
<1>5. ToCome /\ ToCome' /\ LastSays'
  BY <1>1, <1>2 DEF ToCome, LastSays, ServiceInv
<1>6. ~ overlapped' => Follows'
  BY <1>1, <1>5, FollowsStay
<1>7. Service!WatchedAsConfigured'
  BY <1>1 DEF ServiceInv, Service!WatchedAsConfigured
<1> QED  BY <1>3, <1>4, <1>5, <1>6, <1>7 DEF ServiceInv

\* A deleted file leaves no services.
LEMMA DeletedStep ==
  ASSUME ServiceInv, Service!Deleted
  PROVE  ServiceInv'
<1>1. /\ events # <<>> /\ Head(events) = "delete" /\ events' = Tail(events) /\ timer' = FALSE
      /\ shown' = Service!Indicator(trie', profile', active)
      /\ overlapped' = (overlapped \/ handlers # {}) /\ toggle' = Service!Detached
      /\ unreconciled' = FALSE /\ UNCHANGED <<file, handlers, active, picker, stale>>
  BY DEF Service!Deleted, Service!HandleDelete
<1>2. PICK order \in Service!Orders : Service!Settle(Service!Disposed(order), Service!WatchersLeft, profile)
  BY DEF Service!Deleted, Service!HandleDelete
<1>3. PICK t : t = Service!Disposed(order)
  OBVIOUS
<1>4. TrieFits(t) /\ DOMAIN t.value = {}
  BY <1>3, ServiceFacts, DisposedFits
<1>5. /\ trie' = t /\ available' = Service!Available(t) /\ available' \subseteq Service!Names
      /\ profile' \in available' \cup {"none"}
      /\ Service!WatchersLeft = Service!Rebuilt(t, profile) => watchers' = Service!Rebuilt(t, profile')
  BY <1>2, <1>3, <1>4, SettleFits
<1>6. /\ ~ stale => Service!WatchersLeft = Service!Rebuilt(t, profile)
      /\ \A x \in Service!Detached : ~ x.live /\ x \in [config : Known, next : OnOff, live : BOOLEAN]
  BY <1>4, Emptied
<1>7. /\ events' \in Seq({"change", "delete"}) /\ (events' # <<>> => events'[Len(events')] = events[Len(events)])
      /\ (events' = <<>> => events[Len(events)] = "delete")
  BY <1>1, ServiceFacts, HeadGone
<1>8. ServiceTypes'
  BY <1>1, <1>4, <1>5, <1>6 DEF ServiceInv, ServiceTypes
<1>9. Service!TypeOK'
  <2>1. PICK q : q = profile'
    OBVIOUS
  <2>2. Service!Indicator(t, q, active) \in {"on", "off", "unknown"}
    BY <1>4, IndicatorFits
  <2>3. shown' \in {"on", "off", "unknown"}
    BY <1>1, <1>5, <2>1, <2>2
  <2>4. profile' \in Service!Names \cup {"none"}
    BY <1>5
  <2>5. overlapped' \in BOOLEAN /\ unreconciled' \in BOOLEAN
    BY <1>1
  <2> QED  BY <1>1, <1>5, <1>7, <1>8, <2>3, <2>4, <2>5, ServiceFacts, TypesStay
<1>10. LastSays'
  BY <1>1, <1>7 DEF ServiceInv, LastSays
<1>11. ~ overlapped' => Follows'
  <2> SUFFICES ASSUME ~ overlapped' PROVE Follows'
    OBVIOUS
  <2>1. handlers' = {}
    BY <1>1
  <2>2. ASSUME ~ ToCome' PROVE Serves'
    <3>1. file.state = "none"
      BY <1>1, <1>7, <2>2 DEF ServiceInv, LastSays, ToCome
    <3>2. file.configs = <<>>
      BY <3>1, ServiceFacts, SettingIs
    <3> QED  BY <1>1, <1>4, <1>5, <3>2 DEF Serves
  <2> QED  BY <1>5, <2>1, <2>2 DEF Follows, ProfileFits
<1>12. Service!WatchedAsConfigured'
  BY <1>1, <1>5, <1>6 DEF Service!WatchedAsConfigured
<1> QED  BY <1>1, <1>6, <1>8, <1>9, <1>10, <1>11, <1>12 DEF ServiceInv

\* A reload begins with the disposal of every service.
LEMMA StartStep ==
  ASSUME ServiceInv, NEW kind \in {"reload", "wizard"}, Service!StartReload(kind),
         file' \in Setting, UNCHANGED <<active, picker, stale, unreconciled>>, timer' \in BOOLEAN,
         events' \in Seq({"change", "delete"}), LastSays', kind = "wizard" => ToCome'
  PROVE  ServiceInv'
<1>0. PICK h : h = [kind |-> kind, at |-> "read", got |-> file]
  OBVIOUS
<1>1. PICK order \in Service!Orders : trie' = Service!Disposed(order)
  BY DEF Service!StartReload
<1>2. /\ watchers' = Service!WatchersLeft /\ available' = Service!Available(trie') /\ toggle' = Service!Detached
      /\ handlers' = handlers \cup {h} /\ overlapped' = (handlers # {}) /\ UNCHANGED <<profile, shown>>
  BY <1>0 DEF Service!StartReload
<1>3. PICK t : t = Service!Disposed(order)
  OBVIOUS
<1>4. TrieFits(t) /\ DOMAIN t.value = {} /\ trie' = t
  BY <1>1, <1>3, ServiceFacts, DisposedFits
<1>5. /\ ~ stale => watchers' = Service!Rebuilt(t, profile)
      /\ available' = {}
      /\ \A x \in toggle' : ~ x.live /\ x \in [config : Known, next : OnOff, live : BOOLEAN]
  BY <1>2, <1>4, Emptied
<1>6. h \in [kind : {"start", "reload", "wizard"}, at : {"read", "create"}, got : Setting]
  BY <1>0, ServiceFacts
<1>7. h.kind = kind /\ h.at = "read"
  BY <1>0
<1>8. ServiceTypes'
  BY <1>2, <1>4, <1>5, <1>6 DEF ServiceInv, ServiceTypes
<1>9. Service!TypeOK'
  <2>1. available' \subseteq Service!Names /\ overlapped' \in BOOLEAN
    BY <1>2, <1>5
  <2> QED  BY <1>2, <1>8, <2>1, ServiceFacts, TypesStay
<1>10. ~ overlapped' => Follows'
  <2> SUFFICES ASSUME handlers = {} PROVE Follows'
    BY <1>2
  <2>1. handlers' = {h}
    BY <1>2
  <2>2. HandlerFits(h)'
    BY <1>7 DEF HandlerFits
  <2>3. \A k \in handlers' : k = h
    BY <2>1
  <2> QED  BY <1>4, <1>5, <2>1, <2>2, <2>3 DEF Follows
<1>11. Service!WatchedAsConfigured'
  BY <1>2, <1>4, <1>5 DEF Service!WatchedAsConfigured
<1> QED  BY <1>5, <1>8, <1>9, <1>10, <1>11 DEF ServiceInv

\* A scheduled reload disposes of the services and begins to read.
LEMMA ReloadStep ==
  ASSUME ServiceInv, Service!Reload
  PROVE  ServiceInv'
<1>1. /\ Service!StartReload("reload") /\ timer' = FALSE
      /\ UNCHANGED <<file, events, active, picker, stale, unreconciled>>
  BY DEF Service!Reload
<1>2. LastSays'
  BY <1>1 DEF ServiceInv, LastSays
<1> QED  BY <1>1, <1>2, ServiceFacts, StartStep

\* The wizard writes the file and does the same.
LEMMA WizardStep ==
  ASSUME Service!ServicesAssumption, ServiceInv, NEW c \in Files, Service!WizardReloads(c)
  PROVE  ServiceInv'
<1>1. /\ Service!StartReload("wizard") /\ file' = c /\ c.state = "good" /\ events' = Append(events, "change")
      /\ UNCHANGED <<timer, active, picker, stale, unreconciled>>
  BY DEF Service!WizardReloads
<1>2. events' \in Seq({"change", "delete"}) /\ events' # <<>> /\ events'[Len(events')] = "change"
  BY <1>1, ServiceFacts, EventIs
<1>3. LastSays' /\ ToCome'
  BY <1>1, <1>2 DEF LastSays, ToCome
<1> QED  BY <1>1, <1>2, <1>3, ServiceFacts, FilesFit, StartStep

\* The file is read.
LEMMA ReadStep ==
  ASSUME ServiceInv, NEW h \in handlers, Service!ReadFile(h)
  PROVE  ServiceInv'
<1>1. PICK k : k = [h EXCEPT !.at = "create", !.got = file]
  OBVIOUS
<1>2. /\ handlers' = (handlers \ {h}) \cup {k}
      /\ UNCHANGED <<file, trie, watchers, profile, available, shown, timer, events, active, picker, toggle,
                     overlapped, stale, unreconciled>>
  BY <1>1 DEF Service!ReadFile, Service!services, Service!user
<1>3. h \in [kind : {"start", "reload", "wizard"}, at : {"read", "create"}, got : Setting] /\ file \in Setting
  BY ServiceFacts
<1>4. /\ k \in [kind : {"start", "reload", "wizard"}, at : {"read", "create"}, got : Setting]
      /\ k.kind = h.kind /\ k.at = "create" /\ k.got = file
  BY <1>1, <1>3
<1>5. ServiceTypes'
  BY <1>2, <1>4 DEF ServiceInv, ServiceTypes
<1>6. Service!TypeOK'
  BY <1>2, <1>5, ServiceFacts, TypesStay
<1>7. ~ overlapped' => Follows'
  <2> SUFFICES ASSUME ~ overlapped PROVE Follows'
    BY <1>2
  <2>1. Follows
    BY DEF ServiceInv
  <2>2. HandlerFits(h) /\ handlers = {h} /\ handlers' = {k}
    BY <1>2, <2>1 DEF Follows
  <2>3. HandlerFits(k)'
    BY <1>2, <1>4, <2>2 DEF HandlerFits, ToCome
  <2>4. \A x \in handlers' : x = k
    BY <2>2
  <2> QED  BY <1>2, <2>1, <2>2, <2>3, <2>4 DEF Follows
<1>8. LastSays' /\ ((\E t \in toggle' : t.live) => ToCome') /\ Service!WatchedAsConfigured'
  BY <1>2 DEF ServiceInv, LastSays, ToCome, Service!WatchedAsConfigured
<1> QED  BY <1>5, <1>6, <1>7, <1>8 DEF ServiceInv

\* The services are made of what was read.
LEMMA CreateStep ==
  ASSUME ServiceInv, NEW h \in handlers, Service!Create(h)
  PROVE  ServiceInv'
<1>1. PICK made : made = Service!Created(h.got.configs)
  OBVIOUS
<1>2. /\ h.at = "create" /\ handlers' = handlers \ {h}
      /\ \/ /\ h.kind = "reload" \/ (h.kind = "wizard" /\ h.got.state = "good")
            /\ Service!Settle(made.trie, made.watchers, made.profile) /\ unreconciled' = FALSE
         \/ /\ h.kind = "start" \/ (h.kind = "wizard" /\ h.got.state # "good")
            /\ trie' = made.trie /\ watchers' = made.watchers
            /\ profile' = made.profile /\ available' = Service!Available(made.trie)
            /\ unreconciled' = (unreconciled \/ (h.kind = "start" /\ profile' \notin available' \cup {"none"}))
      /\ shown' \in {shown, Service!Indicator(trie', profile', active)}
      /\ UNCHANGED <<file, timer, events, active, picker, toggle, overlapped, stale>>
  BY <1>1 DEF Service!Create, Service!user
<1>3. h.got \in Setting /\ h.kind \in {"start", "reload", "wizard"}
  BY ServiceFacts
<1>4. PICK configs : configs = h.got.configs
  OBVIOUS
<1>5. configs \in Seq(Known) /\ \A i \in DOMAIN configs : configs[i] \in Known
  BY <1>3, <1>4, SettingIs
<1>6. /\ TrieFits(made.trie)
      /\ DOMAIN made.trie.value = DOMAIN trie.value \cup {configs[i].base : i \in DOMAIN configs}
      /\ \A b \in DOMAIN made.trie.value :
           b \in DOMAIN trie.value \/ \E i \in DOMAIN configs : made.trie.value[b] = configs[i]
      /\ made.profile = profile \/ \E i \in DOMAIN configs : made.profile = configs[i].start
      /\ watchers = Service!Rebuilt(trie, profile) => made.watchers = Service!Rebuilt(made.trie, made.profile)
  BY <1>1, <1>4, <1>5, ServiceFacts, CreatedFits
<1>7. PICK t : t = made.trie
  OBVIOUS
<1>8. made.profile \in Service!Names \cup {"none"}
  BY <1>5, <1>6, ServiceFacts, NamesOf
<1>9. /\ trie' = t /\ available' = Service!Available(t) /\ available' \subseteq Service!Names
      /\ profile' \in available' \cup {"none"} \/ (h.kind # "reload" /\ profile' = made.profile)
      /\ h.kind = "wizard" \/ profile' \in available' \cup {"none"} \/ unreconciled'
      /\ unreconciled' \in BOOLEAN
      /\ made.watchers = Service!Rebuilt(t, made.profile) => watchers' = Service!Rebuilt(t, profile')
  <2>1. CASE Service!Settle(made.trie, made.watchers, made.profile) /\ unreconciled' = FALSE
    BY <1>6, <1>7, <2>1, SettleFits
  <2>2. CASE /\ h.kind = "start" \/ (h.kind = "wizard" /\ h.got.state # "good")
             /\ trie' = made.trie /\ watchers' = made.watchers
             /\ profile' = made.profile /\ available' = Service!Available(made.trie)
             /\ unreconciled' = (unreconciled \/ (h.kind = "start" /\ profile' \notin available' \cup {"none"}))
    BY <1>6, <1>7, <2>2, ServiceFacts, IndicatorFits
  <2> QED  BY <1>2, <2>1, <2>2
<1>10. TrieFits(t)
  BY <1>6, <1>7
<1>11. ServiceTypes'
  BY <1>2, <1>9, <1>10 DEF ServiceInv, ServiceTypes
<1>12. Service!TypeOK'
  <2>1. PICK q : q = profile'
    OBVIOUS
  <2>2. Service!Indicator(t, q, active) \in {"on", "off", "unknown"}
    BY <1>10, IndicatorFits
  <2>3. shown' \in {"on", "off", "unknown"}
    BY <1>2, <1>9, <2>1, <2>2, ServiceFacts
  <2>4. profile' \in Service!Names \cup {"none"}
    BY <1>8, <1>9
  <2> QED  BY <1>2, <1>9, <1>11, <2>3, <2>4, ServiceFacts, TypesStay
<1>13. ~ overlapped' => Follows'
  <2> SUFFICES ASSUME ~ overlapped PROVE Follows'
    BY <1>2
  <2>1. Follows
    BY DEF ServiceInv
  <2>2. HandlerFits(h) /\ handlers' = {} /\ DOMAIN trie.value = {}
    BY <1>2, <2>1 DEF Follows
  <2>3. ASSUME ~ ToCome PROVE Serves' /\ (unreconciled' \/ profile' \in available' \cup {"none"})
    <3>1. h.got = file /\ h.kind # "wizard" /\ configs = file.configs
      BY <1>2, <1>4, <2>2, <2>3 DEF HandlerFits
    <3>2. Serves'
      BY <1>2, <1>6, <1>7, <1>9, <2>2, <3>1 DEF Serves
    <3> QED  BY <1>9, <3>1, <3>2
  <2>4. ToCome' <=> ToCome
    BY <1>2 DEF ToCome
  <2> QED  BY <2>2, <2>3, <2>4 DEF Follows, ProfileFits
<1>14. LastSays' /\ ((\E x \in toggle' : x.live) => ToCome')
  BY <1>2 DEF ServiceInv, LastSays, ToCome
<1>15. Service!WatchedAsConfigured'
  BY <1>2, <1>6, <1>7, <1>9 DEF ServiceInv, Service!WatchedAsConfigured
<1> QED  BY <1>11, <1>12, <1>13, <1>14, <1>15 DEF ServiceInv

-----------------------------------------------------------------------------
\* Another file comes to the front, or the profiles are listed.
LEMMA LookStep ==
  ASSUME ServiceInv, (\E path \in Opened : Service!Focus(path)) \/ Service!OpenPicker
  PROVE  ServiceInv'
<1>1. /\ active' \in Opened /\ shown' \in {shown, Service!Indicator(trie, profile, active')}
      /\ picker' = picker \/ (picker' = available \cup {"none"} /\ available # {})
      /\ UNCHANGED <<file, trie, watchers, profile, available, timer, events, handlers, toggle, overlapped, stale, unreconciled>>
  BY ServiceFacts DEF Service!Focus, Service!OpenPicker, Service!services
<1>2. ServiceTypes'
  BY <1>1, ServiceFacts DEF ServiceInv, ServiceTypes
<1>3. Service!TypeOK'
  <2>1. PICK path : path = active'
    OBVIOUS
  <2>2. shown' \in {"on", "off", "unknown"}
    BY <1>1, <2>1, ServiceFacts, IndicatorFits
  <2> QED  BY <1>1, <1>2, <2>2, ServiceFacts, TypesStay
<1>4. ~ overlapped' => Follows'
  <2> SUFFICES ASSUME ~ overlapped PROVE Follows'
    BY <1>1
  <2>1. Follows
    BY DEF ServiceInv
  <2>2. ASSUME NEW h \in handlers PROVE HandlerFits(h)'
    BY <1>1, <2>1, <2>2 DEF Follows, HandlerFits, ToCome
  <2> QED  BY <1>1, <2>1, <2>2 DEF Follows, ToCome, Serves, ProfileFits
<1>5. LastSays' /\ ((\E x \in toggle' : x.live) => ToCome') /\ Service!WatchedAsConfigured'
  BY <1>1 DEF ServiceInv, LastSays, ToCome, Service!WatchedAsConfigured
<1> QED  BY <1>2, <1>3, <1>4, <1>5 DEF ServiceInv

\* A profile is picked from the list, which a reload may have outdated.
LEMMA PickStep ==
  ASSUME ServiceInv, NEW p \in picker, Service!Pick(p)
  PROVE  ServiceInv'
<1>1. /\ picker' = {} /\ profile' = p /\ watchers' = Service!Switched(p)
      /\ stale' = (stale \/ p \notin available \cup {"none"}) /\ unreconciled' = FALSE
      /\ UNCHANGED <<file, trie, available, shown, active, timer, events, handlers, toggle, overlapped>>
  BY DEF Service!Pick
<1>2. p \in Service!Names \cup {"none"}
  BY ServiceFacts
<1>3. ServiceTypes'
  BY <1>1 DEF ServiceInv, ServiceTypes
<1>4. Service!TypeOK'
  <2>1. stale' \in BOOLEAN /\ unreconciled' \in BOOLEAN
    BY <1>1
  <2> QED  BY <1>1, <1>2, <1>3, <2>1, ServiceFacts, TypesStay
<1>5. ~ overlapped' => Follows'
  <2> SUFFICES ASSUME ~ overlapped PROVE Follows'
    BY <1>1
  <2>1. Follows
    BY DEF ServiceInv
  <2>2. ASSUME NEW h \in handlers PROVE HandlerFits(h)'
    BY <1>1, <2>1, <2>2 DEF Follows, HandlerFits, ToCome
  <2>3. ToCome' <=> ToCome
    BY <1>1 DEF ToCome
  <2>4. Serves' <=> Serves
    BY <1>1 DEF Serves
  <2> QED  BY <1>1, <2>1, <2>2, <2>3, <2>4 DEF Follows, ProfileFits
<1>6. Service!WatchedAsConfigured'
  <2> SUFFICES ASSUME ~ stale PROVE watchers' = Service!Rebuilt(trie, p)
    BY <1>1 DEF Service!WatchedAsConfigured
  <2>1. watchers = Service!Rebuilt(trie, profile)
    BY DEF ServiceInv, Service!WatchedAsConfigured
  <2> QED  BY <1>1, <2>1, RenewedIs DEF Service!Switched
<1>7. LastSays' /\ ((\E x \in toggle' : x.live) => ToCome')
  BY <1>1 DEF ServiceInv, LastSays, ToCome
<1> QED  BY <1>3, <1>4, <1>5, <1>6, <1>7 DEF ServiceInv

\* A toggled config is a config of the same base.
LEMMA WithOnFits ==
  ASSUME NEW g \in Known, NEW on \in OnOff
  PROVE  Service!WithOn(g, on) \in Known /\ Service!WithOn(g, on).base = g.base
  BY DEF Known, Service!WithOn, Service!ProfilesOf

\* The toggle writes the file, which an event tells of.
LEMMA ToggleStep ==
  ASSUME ServiceInv, NEW config \in Service!AllValues(trie), Service!Toggle(config)
  PROVE  ServiceInv'
<1>1. PICK next : next = Service!Flip(Service!Resolved(config, profile))
  OBVIOUS
<1>2. PICK configs : configs = [i \in DOMAIN file.configs |->
          IF file.configs[i].base = config.base THEN Service!WithOn(file.configs[i], next) ELSE file.configs[i]]
  OBVIOUS
<1>3. /\ toggle = {} /\ file.state = "good"
      /\ file' = [file EXCEPT !.configs = configs]
      /\ toggle' = {[config |-> config, next |-> next, live |-> TRUE]} /\ events' = Append(events, "change")
      /\ UNCHANGED <<trie, watchers, profile, available, shown, active, timer, handlers, picker, overlapped, stale, unreconciled>>
  BY <1>1, <1>2 DEF Service!Toggle, Service!services
<1>4. next \in OnOff
  BY <1>1 DEF Service!Flip, OnOff
<1>5. config \in Known /\ DOMAIN trie.value # {}
  BY ServiceFacts, TrieFinds DEF TrieFits
<1>6. file.configs \in Seq(Known) /\ file = [state |-> file.state, configs |-> file.configs]
  BY ServiceFacts, SettingIs
<1>7. configs \in Seq(Known)
  <2>1. PICK n \in Nat : DOMAIN file.configs = 1..n /\ \A i \in 1..n : file.configs[i] \in Known
    BY <1>6
  <2>2. configs \in [1..n -> Known]
    BY <1>2, <1>4, <2>1, WithOnFits
  <2> QED  BY <2>2
<1>8. file' = [state |-> "good", configs |-> configs]
  BY <1>3, <1>6
<1>9. file' \in Setting /\ file'.state = "good"
  BY <1>7, <1>8 DEF Setting
<1>10. events' \in Seq({"change", "delete"}) /\ events' # <<>> /\ events'[Len(events')] = "change"
  BY <1>3, ServiceFacts, EventIs
<1>11. \A x \in toggle' : x \in [config : Known, next : OnOff, live : BOOLEAN]
  <2>1. PICK y : y = [config |-> config, next |-> next, live |-> TRUE]
    OBVIOUS
  <2>2. y \in [config : Known, next : OnOff, live : BOOLEAN]
    BY <1>4, <1>5, <2>1
  <2> QED  BY <1>3, <2>1, <2>2
<1>12. ServiceTypes'
  BY <1>3, <1>9, <1>11 DEF ServiceInv, ServiceTypes
<1>13. Service!TypeOK'
  BY <1>3, <1>10, <1>12, ServiceFacts, TypesStay
<1>14. ToCome' /\ LastSays'
  BY <1>9, <1>10 DEF ToCome, LastSays
<1>15. ~ overlapped' => Follows'
  <2> SUFFICES ASSUME ~ overlapped PROVE Follows'
    BY <1>3
  <2>1. Follows
    BY DEF ServiceInv
  <2>2. handlers' = {}
    BY <1>3, <1>5, <2>1 DEF Follows
  <2> QED  BY <1>14, <2>2 DEF Follows
<1>16. Service!WatchedAsConfigured'
  BY <1>3 DEF ServiceInv, Service!WatchedAsConfigured
<1> QED  BY <1>12, <1>13, <1>14, <1>15, <1>16 DEF ServiceInv

\* The toggle takes effect here, on a service that may have been disposed of.
LEMMA ToggledStep ==
  ASSUME ServiceInv, Service!Toggled
  PROVE  ServiceInv'
<1>1. PICK t \in toggle :
        LET config == Service!WithOn(t.config, t.next) IN
          /\ trie' = IF t.live THEN Service!Add(trie, config.base, config) ELSE trie
          /\ watchers' = Service!Put(watchers, config.base, Service!Watcher(config, profile))
          /\ shown' = t.next /\ stale' = (stale \/ ~ t.live)
  BY DEF Service!Toggled
<1>2. PICK g : g = Service!WithOn(t.config, t.next)
  OBVIOUS
<1>3. /\ trie' = IF t.live THEN Service!Add(trie, g.base, g) ELSE trie
      /\ watchers' = Service!Put(watchers, g.base, Service!Watcher(g, profile))
      /\ shown' = t.next /\ stale' = (stale \/ ~ t.live)
  BY <1>1, <1>2
<1>4. /\ toggle' = {}
      /\ UNCHANGED <<file, profile, available, active, timer, events, handlers, picker, overlapped,
                     unreconciled>>
  BY DEF Service!Toggled
<1>5. t.config \in Known /\ t.next \in OnOff /\ t.live \in BOOLEAN
  BY ServiceFacts
<1>6. g \in Known
  BY <1>2, <1>5, WithOnFits
<1>7. TrieFits(trie)'
  BY <1>3, <1>6, ServiceFacts, AddFits
<1>8. ServiceTypes'
  BY <1>4, <1>7 DEF ServiceInv, ServiceTypes
<1>9. Service!TypeOK'
  <2>1. stale' \in BOOLEAN /\ shown' \in {"on", "off", "unknown"}
    BY <1>3, <1>5 DEF OnOff
  <2> QED  BY <1>4, <1>8, <2>1, ServiceFacts, TypesStay
<1>10. ~ overlapped' => Follows'
  <2> SUFFICES ASSUME ~ overlapped PROVE Follows'
    BY <1>4
  <2>1. Follows
    BY DEF ServiceInv
  <2>2. ToCome' <=> ToCome
    BY <1>4 DEF ToCome
  <2>3. ASSUME NEW h \in handlers PROVE HandlerFits(h)'
    BY <1>4, <2>1, <2>2, <2>3 DEF Follows, HandlerFits
  <2>4. CASE t.live
    <3>1. ToCome /\ handlers = {}
      BY <2>1, <2>4 DEF ServiceInv, Follows
    <3> QED  BY <1>4, <2>2, <3>1 DEF Follows
  <2>5. CASE ~ t.live
    <3>1. UNCHANGED trie
      BY <1>3, <2>5
    <3>2. Serves' <=> Serves
      BY <1>4, <3>1 DEF Serves
    <3>3. stale'
      BY <1>3, <2>5
    <3> QED  BY <1>4, <2>1, <2>2, <2>3, <3>1, <3>2, <3>3 DEF Follows, ProfileFits
  <2> QED  BY <1>5, <2>4, <2>5
<1>11. Service!WatchedAsConfigured'
  <2> SUFFICES ASSUME ~ stale' PROVE watchers' = Service!Rebuilt(trie', profile)
    BY <1>4 DEF Service!WatchedAsConfigured
  <2>1. watchers = Service!Rebuilt(trie, profile)
    BY <1>3 DEF ServiceInv, Service!WatchedAsConfigured
  <2> QED  BY <1>3, <1>6, <2>1, ServiceFacts, PutIsRebuilt
<1>12. LastSays' /\ ((\E x \in toggle' : x.live) => ToCome')
  BY <1>4 DEF ServiceInv, LastSays
<1> QED  BY <1>8, <1>9, <1>10, <1>11, <1>12 DEF ServiceInv

\* Every step keeps it.
LEMMA ServiceStep ==
  ASSUME Service!ServicesAssumption, ServiceInv, Service!Next
  PROVE  ServiceInv'
<1>1. CASE \E c \in Files : Service!SaveInEditor(c) \/ Service!ChangeOutside(c) \/ Service!WizardReloads(c)
  BY <1>1, WriteStep, WizardStep
<1>2. CASE Service!Changed \/ Service!Deleted \/ Service!Reload
  BY <1>2, ChangedStep, DeletedStep, ReloadStep
<1>3. CASE \E h \in handlers : Service!ReadFile(h) \/ Service!Create(h)
  BY <1>3, ReadStep, CreateStep
<1>4. CASE (\E path \in Opened : Service!Focus(path)) \/ Service!OpenPicker
  BY <1>4, LookStep
<1>5. CASE \E p \in picker : Service!Pick(p)
  BY <1>5, PickStep
<1>6. CASE \E config \in Service!AllValues(trie) : Service!Toggle(config)
  BY <1>6, ToggleStep
<1>7. CASE Service!Toggled
  BY <1>7, ToggledStep
<1> QED  BY <1>1, <1>2, <1>3, <1>4, <1>5, <1>6, <1>7 DEF Service!Next

\* It holds at start-up,
LEMMA ServiceBegins ==
  ASSUME Service!ServicesAssumption, Service!Init
  PROVE  ServiceInv
<1>1. /\ file \in FirstSettings /\ trie = [nodes |-> {<<>>}, value |-> <<>>] /\ watchers = <<>>
      /\ profile = "none" /\ available = {} /\ shown = "unknown" /\ active \in Opened
      /\ timer = FALSE /\ events = <<>> /\ picker = {} /\ toggle = {}
      /\ overlapped = FALSE /\ stale = FALSE /\ unreconciled = FALSE
      /\ handlers = {[kind |-> "start", at |-> "read", got |-> file]}
  BY DEF Service!Init, Service!EmptyTrie
<1>2. file \in Setting
  <2>1. file \in Files
    BY <1>1 DEF Service!ServicesAssumption
  <2> QED  BY <2>1, FilesFit
<1>3. PICK none : none = <<>>
  OBVIOUS
<1>4. DOMAIN none = {} /\ none = [b \in DOMAIN none |-> none[b]]
  BY <1>3
<1>5. trie.nodes = {<<>>} /\ trie.value = none /\ trie = [nodes |-> trie.nodes, value |-> trie.value]
  BY <1>1, <1>3
<1>6. TrieFits(trie)
  BY <1>4, <1>5, FS_EmptySet DEF TrieFits
<1>7. PICK h : h = [kind |-> "start", at |-> "read", got |-> file]
  OBVIOUS
<1>8. /\ handlers = {h} /\ h.kind = "start" /\ h.at = "read"
      /\ h \in [kind : {"start", "reload", "wizard"}, at : {"read", "create"}, got : Setting]
  BY <1>1, <1>2, <1>7
<1>9. ServiceTypes
  BY <1>1, <1>2, <1>6, <1>8 DEF ServiceTypes
<1>10. Service!TypeOK
  <2>1. \A k \in handlers : [kind |-> k.kind, at |-> k.at] \in Service!Handler
    BY <1>9 DEF ServiceTypes, Service!Handler
  <2>2. trie.nodes = {<<>>} \cup UNION {Service!Way(b) : b \in DOMAIN trie.value}
    BY <1>6 DEF TrieFits
  <2>3. events \in Seq({"change", "delete"})
    BY <1>1
  <2>4. /\ timer \in BOOLEAN /\ overlapped \in BOOLEAN /\ stale \in BOOLEAN /\ unreconciled \in BOOLEAN
        /\ shown \in {"on", "off", "unknown"}
    BY <1>1
  <2>5. profile \in Service!Names \cup {"none"} /\ available \subseteq Service!Names /\ active \in Opened
    BY <1>1
  <2> QED  BY <2>1, <2>2, <2>3, <2>4, <2>5 DEF Service!TypeOK
<1>11. Follows
  <2>1. HandlerFits(h)
    BY <1>1, <1>2, <1>8 DEF HandlerFits
  <2>2. \A k \in handlers : k = h
    BY <1>8
  <2> QED  BY <1>1, <1>4, <1>5, <1>8, <2>1, <2>2 DEF Follows
<1>12. watchers = Service!Rebuilt(trie, profile)
  <2>1. PICK v : v = Service!Rebuilt(trie, profile)
    OBVIOUS
  <2>2. v = [b \in DOMAIN trie.value |-> v[b]]
    BY <2>1, RebuiltIs
  <2> QED  BY <1>1, <1>3, <1>4, <1>5, <2>1, <2>2
<1> QED  BY <1>1, <1>9, <1>10, <1>11, <1>12 DEF ServiceInv, LastSays, Service!WatchedAsConfigured

\* and while the services rest.
LEMMA ServiceStands ==
  ASSUME ServiceInv, UNCHANGED serviceVars
  PROVE  ServiceInv'
<1>1. UNCHANGED <<file, trie, watchers, profile, available, shown, active, timer, events,
                  handlers, picker, toggle, overlapped, stale, unreconciled>>
  BY DEF serviceVars
<1>2. ServiceTypes'
  BY <1>1 DEF ServiceInv, ServiceTypes
<1>3. Service!TypeOK'
  BY <1>1, <1>2, ServiceFacts, TypesStay
<1>4. ToCome' <=> ToCome
  BY <1>1 DEF ToCome
<1>5. Serves' <=> Serves
  BY <1>1 DEF Serves
<1>6. \A h \in handlers : HandlerFits(h) => HandlerFits(h)'
  BY <1>1, <1>4 DEF HandlerFits
<1>7. Follows => Follows'
  BY <1>1, <1>4, <1>5, <1>6 DEF Follows, ProfileFits
<1> QED  BY <1>1, <1>2, <1>3, <1>4, <1>7 DEF ServiceInv, LastSays, Service!WatchedAsConfigured

\* The services are those of the file once nothing is on its way.
LEMMA ServiceMeans ==
  ASSUME ServiceInv
  PROVE  Service!ServesTheFile /\ Service!WatchedAsConfigured /\ Service!ProfileIsDefined
<1>1. ASSUME Service!Quiet, ~ overlapped PROVE Serves /\ ProfileFits
  BY <1>1 DEF ServiceInv, Follows, ToCome, Service!Quiet
<1>2. ASSUME Service!Quiet, ~ overlapped
      PROVE  /\ {c.base : c \in Service!AllValues(trie)} = {c.base : c \in Service!ConfigsIn(file)}
             /\ \A c \in Service!AllValues(trie) :
                  c \in Service!ConfigsIn(file) /\ Service!FindPrefix(trie, c.base) = {c}
  <2>1. /\ DOMAIN trie.value = {file.configs[i].base : i \in DOMAIN file.configs}
        /\ \A b \in DOMAIN trie.value : \E i \in DOMAIN file.configs : trie.value[b] = file.configs[i]
    BY <1>1, <1>2 DEF Serves
  <2>2. /\ Service!AllValues(trie) = {trie.value[b] : b \in DOMAIN trie.value}
        /\ \A b \in DOMAIN trie.value : Service!FindPrefix(trie, b) = {trie.value[b]}
    BY ServiceFacts, TrieFinds
  <2>3. \A b \in DOMAIN trie.value : trie.value[b].base = b
    BY ServiceFacts DEF TrieFits
  <2>4. Service!ConfigsIn(file) = {file.configs[i] : i \in DOMAIN file.configs}
    BY DEF Service!ConfigsIn, Service!ToSet
  <2>5. {c.base : c \in Service!AllValues(trie)} = DOMAIN trie.value
    BY <2>2, <2>3
  <2>6. {c.base : c \in Service!ConfigsIn(file)} = {file.configs[i].base : i \in DOMAIN file.configs}
    BY <2>4
  <2>7. \A c \in Service!AllValues(trie) :
          c \in Service!ConfigsIn(file) /\ Service!FindPrefix(trie, c.base) = {c}
    BY <2>1, <2>2, <2>3, <2>4
  <2> QED  BY <2>1, <2>5, <2>6, <2>7
<1>3. Service!ServesTheFile
  BY <1>2 DEF Service!ServesTheFile
<1>4. Service!ProfileIsDefined
  BY <1>1 DEF Service!ProfileIsDefined, ProfileFits
<1> QED  BY <1>3, <1>4 DEF ServiceInv

-----------------------------------------------------------------------------
\* Each part keeps its invariant: it takes its own steps or stands still.
LEMMA NextIs ==
  ASSUME [Next]_vars
  PROVE  /\ Watch!Next \/ UNCHANGED watchVars
         /\ Guard!Next \/ UNCHANGED guardVars
         /\ Service!Next \/ UNCHANGED serviceVars
         /\ Tree!Next \/ UNCHANGED treeVars
         /\ Drop!Next \/ UNCHANGED dropVars
         /\ Editor!Next \/ UNCHANGED editorVars
         /\ UNCHANGED part
  BY DEF Next, Moves, vars

\* What the guard goes by holds in every state, whichever part moves.
THEOREM GuardHolds == Spec => []GuardInv
<1>1. Init => GuardInv
  BY WorkspaceAssumption, GuardBegins DEF Init
<1>2. GuardInv /\ [Next]_vars => GuardInv'
  BY WorkspaceAssumption, GuardStep, GuardStands, NextIs
<1> QED  BY <1>1, <1>2, PTL DEF Spec

\* Nobody's change on the server is overwritten unasked, unless it came after the guard had looked
\* or cannot be known from what it compares, and nobody is asked about his own while all take
\* baselines (conflictCheck.ts), for every number of commands, contents, sizes, saves and seconds.
THEOREM ConflictAsked == Spec => []ConflictIsAsked
<1>1. GuardInv => ConflictIsAsked
  BY GuardMeans DEF ConflictIsAsked
<1> QED  BY <1>1, GuardHolds, PTL

\* Every file that differs is seen to by somebody, whichever part moves (fileWatcher.ts).
THEOREM WatchHolds == Spec => []WatchInv
<1>1. Init => WatchInv
  BY WorkspaceAssumption, WatchBegins DEF Init
<1>2. WatchInv /\ [Next]_vars => WatchInv'
  BY WorkspaceAssumption, WatchNext, WatchStands, NextIs
<1> QED  BY <1>1, <1>2, PTL DEF Spec

\* When the watcher has nothing left to do the server has what the disk has, and no change
\* waits in a queue that nobody will empty (fileWatcher.ts), for every set of files.
THEOREM WatcherConverging == Spec => []WatcherConverges
<1>1. WatchInv => WatcherConverges
  BY WatchMeans DEF WatcherConverges
<1> QED  BY <1>1, WatchHolds, PTL

\* A rename that removes the old name has its file under the new one, or is an exception,
\* whatever events were dropped, handlers met and other transfers failed (renameRemote.ts).
THEOREM RenameHolds == Spec => []RenameInv
<1>1. Init => RenameInv
  BY RenameBegins DEF Init
<1>2. WatchInv /\ RenameInv /\ [Next]_vars => RenameInv'
  BY WorkspaceAssumption, RenameNext, RenameStands, NextIs
<1> QED  BY <1>1, <1>2, WatchHolds, PTL DEF Spec

\* A rename made up for by an upload removes the old name from the server only when the
\* server has the file under the new one, whatever else is under way (fileWatcher.ts:197);
\* the exceptions are that its own upload was not sent, and that a removal of what had the new
\* name before was in progress beside it.
THEOREM OnlyCopySurviving == Spec => OnlyCopySurvives
<1>1. RenameInv /\ [Next]_vars =>
        [\A o \in ops \ ops' : o.kind = "rename" /\ o.at = "unlink"
                               => remote[o.to] # 0 \/ o.to \in missed]_(Watch!vars)
  BY NextIs DEF RenameInv, ArrivedOrMissed, watchVars, Watch!vars
<1> QED  BY <1>1, RenameHolds, PTL DEF Spec, OnlyCopySurvives, Watch!OnlyCopySurvives

\* What the tree goes by holds in every state, whichever part moves (treeDataProvider.ts).
THEOREM TreeHolds == Spec => []TreeInv
<1>1. Init => TreeInv
  BY WorkspaceAssumption, TreeBegins DEF Init
<1>2. TreeInv /\ [Next]_vars => TreeInv'
  BY WorkspaceAssumption, TreeStep, TreeStands, NextIs
<1> QED  BY <1>1, <1>2, PTL DEF Spec

\* The tree shows what the server has under the filter that is set, for every number of
\* questions, listings, refreshes and changes (treeDataProvider.ts).
THEOREM TreeCurrent == Spec => TreeIsCurrent
<1>1. TreeInv => (part = "tree" => Tree!ShowsTheServer /\ Tree!NothingPoisoned)
  BY TreeMeans
<1>2. TreeInv /\ [Next]_vars =>
        [\A c \in Jobs : call[c].at # "done" /\ call'[c].at = "done"
                        => call'[c].filter = filter]_(Tree!vars)
  BY WorkspaceAssumption, TreeShows, NextIs DEF treeVars, Tree!vars
<1> QED  BY <1>1, <1>2, TreeHolds, PTL DEF Spec, TreeIsCurrent, Tree!ShowsTheFilter

\* What was planned at a drop stands, and every row is where it was or has arrived, whichever
\* part moves (dragAndDrop.ts, renameRemote.ts).
THEOREM DropHolds == Spec => []DropInv
<1>1. Init => DropInv
  BY WorkspaceAssumption, DropBegins DEF Init
<1>2. DropInv /\ [Next]_vars => DropInv'
  BY WorkspaceAssumption, DropStep, DropStands, NextIs
<1> QED  BY <1>1, <1>2, PTL DEF Spec

\* The remembered roots are those of the service that exists, a call is of the host its file was
\* opened from, and what it needs of the copies of its file is there, whichever part moves
\* (remoteFileSystemProvider.ts, transferTask.ts).
THEOREM EditorHolds == Spec => []EditorInv
<1>1. Init => EditorInv
  BY WorkspaceAssumption, EditorBegins DEF Init
<1>2. EditorInv /\ [Next]_vars => EditorInv'
  BY WorkspaceAssumption, EditorStep, EditorStands, NextIs DEF EditorFits
<1> QED  BY <1>1, <1>2, PTL DEF Spec

\* A save reaches the host and port its file came from and the status bar says so, a file that is
\* replaced survives under one name, what is reported as saved is there, and what is dragged
\* arrives or the user is told (remoteFileSystemProvider.ts, dragAndDrop.ts), for every set of
\* servers, of hosts they share, of paths and rows. Excepted are, of the bar, a filter typed while
\* sftp.json is read; of the copies, links, paths two were at work on or that a failure has left,
\* and what is deleted or named by a rename; of a drop over FTP, two rows of one name and a look
\* that failed; and of its report, a drop that is dismissed and a row whose folder stays behind.
THEOREM RemoteFilesSafe == Spec => RemoteFilesAreSafe
<1>1. EditorInv => (part = "editor" => Editor!SavesGoHome /\ Editor!BarIsRight /\ Editor!NeverHalf)
  BY EditorMeans
<1>2. DropInv => (part = "drop" => /\ Drop!NothingOverwritten /\ Drop!EverybodyArrives
                                   /\ Drop!NoneVanishes)
  BY WorkspaceAssumption, DropMeans
<1>3. EditorInv /\ [Next]_vars => CopyStays /\ SaveIsThere
  BY WorkspaceAssumption, EditorStep, EditorStands, NextIs DEF EditorFits
<1>4. EditorInv /\ [Next]_vars =>
        [setup.useTempFile /\ ~ setup.link =>
           \A s \in Servers, p \in Paths :
             \/ p \in crossed' \/ ~ Editor!Copied(remoteFile, temp, s, p) \/ Editor!Copied(remoteFile', temp', s, p)
             \/ \E a \in Editor!Actors : op[a].kind \in {"delete", "rename"} /\ p \in Editor!Touches(a)]_(Editor!vars)
  BY <1>3 DEF CopyStays
<1>5. EditorInv /\ [Next]_vars =>
        [\A a \in Editor!Actors :
           /\ op'[a].at = "done" /\ op[a].at # "done" /\ op[a].kind \in {"save", "send"}
           /\ op[a].path \notin crossed
           => remoteFile'[op[a].server][op[a].path] = Editor!Body(a)]_(Editor!vars)
  BY <1>3 DEF SaveIsThere
<1> QED  BY <1>1, <1>2, <1>4, <1>5, EditorHolds, DropHolds, PTL
         DEF Spec, RemoteFilesAreSafe, Editor!KeepsACopy, Editor!SavedIsThere

\* The services are those of sftp.json, or a reload is still to come, or two handlers have met,
\* whichever part moves (fileActivityMonitor.ts, serviceManager).
THEOREM ServiceHolds == Spec => []ServiceInv
<1>1. Init => ServiceInv
  BY WorkspaceAssumption, ServiceBegins DEF Init
<1>2. ServiceInv /\ [Next]_vars => ServiceInv'
  BY WorkspaceAssumption, ServiceStep, ServiceStands, NextIs
<1> QED  BY <1>1, <1>2, PTL DEF Spec

\* No variable leaves its type; and the services, their watchers and the active profile are those
\* of sftp.json, whatever was saved, deleted, picked and toggled meanwhile, for every file of any
\* number of configs and every depth of their paths, the one at start-up too
\* (fileActivityMonitor.ts, serviceManager). Excepted are runs in which two handlers read the file
\* at once or it was deleted while one did (`overlapped`) and those in which a choice was made for
\* what a reload had replaced (`stale`); and, of the profile, start-up's until it is reconciled.
THEOREM ServicesFollowing == Spec => []ServicesFollowTheFile
<1> DEFINE PartFits == part \in {"watch", "guard", "service", "tree", "drop", "editor"}
<1>1. Init => PartFits
  BY WorkspaceAssumption DEF Init
<1>2. PartFits /\ [Next]_vars => PartFits'
  BY NextIs
<1>3. PartFits /\ WatchInv /\ GuardInv /\ ServiceInv /\ TreeInv /\ DropInv /\ EditorInv => TypeOK
  BY DEF TypeOK, WatchInv, Core, GuardInv, ServiceInv, TreeInv, DropInv, EditorInv
<1>4. PartFits /\ WatchInv /\ GuardInv /\ ServiceInv /\ TreeInv /\ DropInv /\ EditorInv
        => ServicesFollowTheFile
  BY <1>3, ServiceMeans DEF ServicesFollowTheFile
<1> QED  BY <1>1, <1>2, <1>4, WatchHolds, GuardHolds, ServiceHolds, TreeHolds, DropHolds, EditorHolds,
            PTL DEF Spec
=============================================================================
