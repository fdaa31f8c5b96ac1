-------------------------- MODULE TransferRun_proofs ---------------------------
(* What holds of a transfer for every number of attempts, every number of       *)
(* blocks and every set of options.  The invariant has three layers: Shape      *)
(* (types), Control (attempts, promises and the watchdog) and Data (where the   *)
(* bytes are).  A step of a body is reduced to BodyMoves and FilesMove, from    *)
(* which the first two layers follow; the third is proved action by action.     *)
EXTENDS TransferRun, SequenceTheorems, TLAPS

Settled == {"idle", "done"}
Before == {"idle", "mode", "opening"}       \* the upload target is not open yet
Lost == {"spent", "mute"}
Verdicts == {"none", "ok", "io", "aborted"}

\* The handle a body works on is that of a file.
Open(a) == body[a].at \notin Before \cup {"done"} => body[a].fd \in 1..Len(content)

Shape ==
    /\ TypeOK
    /\ \A a \in Tries : Open(a)

\* Attempts follow one another, and a body is where its run is.
Order ==
    \A a \in Tries :
        /\ a > attempt => run[a] = "queued"
        /\ a < attempt => run[a] \in {"failed", "stalled"}
        /\ run[a] \in {"queued", "skipped"} <=> body[a].at = "idle"
        /\ body[a].at = "done" => run[a] # "running"
        /\ body[a].at = "mode" => body[a].path = "parallel"

\* Until a run has stalled, cancel() reaches the stream of the current attempt.
Handled ==
    ~Stalled /\ handle # 0 =>
        handle = attempt /\ body[handle].path = "stream" /\ body[handle].at \notin Before

Control == Order /\ OnlyStallsLinger /\ TimerIsCurrent /\ Handled /\ Watched

\* Where the bytes are, while the current attempt is alone with the file.
IsUpload(i) == i # 0 /\ i = UploadInode
Written(b) ==
    \/ b.at \in {"times", "unlinking", "renaming"}
    \/ b.at = "closing" /\ b.path = "parallel" /\ b.verdict = "ok"
Placed(b) ==
    b.verdict = "ok" /\ (b.at = "done" \/ (b.at = "closing" /\ b.path = "stream"))
Bytes(b) ==
    /\ b.at \in {"mode", "opening"} => b.put = {}
    /\ b.at \in {"chmod", "copying"} =>
         IsUpload(b.fd) /\ b.put \subseteq content[b.fd] /\ content[b.fd] \subseteq Blocks
    /\ Written(b) => IsUpload(b.fd) /\ content[b.fd] = Blocks
    /\ Placed(b) => target # 0 /\ content[target] = Blocks
    /\ b.at \in {"unlinking", "renaming"} => option.temp
    /\ b.at = "unlinking" => ~option.atomic

Place ==
    option.temp =>
        /\ target # 0 => content[target] \in {Old, Blocks}
        /\ target = 0 => ~option.atomic
        /\ temp # 0 => temp # target

Data ==
    ~Stalled =>
        /\ Bytes(body[attempt])
        /\ run[attempt] = "resolved" => body[attempt].at = "done" /\ body[attempt].verdict = "ok"
        /\ Place

RunInv == Shape /\ Control /\ Data

-------------------------------------------------------------------------------
(* A step of one body, seen from the task: what it may do to the flags and the  *)
(* promises the attempts share.                                                 *)
BodyMoves(a) ==
    /\ body[a].at \notin Settled
    /\ body'[a] \in BodyType /\ body' = [body EXCEPT ![a] = body'[a]]
    /\ body'[a].at \notin {"idle", "mode"}
    /\ cancelled /\ body[a].path = "parallel" => body'[a].path = "parallel"
    /\ body[a].path = "stream" /\ body[a].at \notin Before =>
         /\ body'[a].path = "stream" /\ body'[a].at \notin Before
         /\ body[a].stream \in Lost => body'[a].stream \in Lost
    /\ IF body'[a].at = "done" /\ run[a] = "running"
       THEN /\ run' = [run EXCEPT ![a] = IF body'[a].verdict = "ok" THEN "resolved" ELSE "failed"]
            /\ timer' = FALSE
       ELSE /\ run' = run
            /\ timer' = timer \/ timer' = (timer \/ run[attempt] = "running")
    /\ \/ handle' = handle
       \/ /\ handle' = a /\ body[a].at = "opening"
          /\ body'[a].path = "stream" /\ body'[a].at \in {"chmod", "copying"}
    /\ UNCHANGED <<option, attempt, cancelled, dead>>

(* The same step, seen from the files.                                          *)
FilesMove(a) ==
    /\ content' \in Seq(SUBSET (Blocks \cup Old)) /\ Len(content') >= Len(content)
    /\ target' \in 0..Len(content') /\ temp' \in 0..Len(content')
    /\ body'[a].at \notin Before \cup {"done"} => body'[a].fd \in 1..Len(content')

(* Opening for writing empties the upload file, which may be new.               *)
LEMMA OpenedFile ==
    ASSUME Shape, NEW i \in 1..(Len(content) + 1), OpenTruncates(i)
    PROVE  /\ content' \in Seq(SUBSET (Blocks \cup Old)) /\ Len(content') >= Len(content)
           /\ i \in 1..Len(content')
           /\ target' \in 0..Len(content') /\ temp' \in 0..Len(content')
           /\ content'[i] = {} /\ i = IF option.temp THEN temp' ELSE target'
           /\ \A j \in 1..Len(content) : j # i => content'[j] = content[j]
           /\ IF option.temp THEN target' = target ELSE temp' = temp
           /\ option.temp => i = temp \/ i = Len(content) + 1
  <1> DEFINE S == SUBSET (Blocks \cup Old)
  <1>1. content \in Seq(S) /\ {} \in S /\ target \in 0..Len(content) /\ temp \in 0..Len(content)
    BY DEF Shape, TypeOK
  <1>2. Len(content) \in Nat BY <1>1, LenProperties
  <1> HIDE DEF S
  <1>3. CASE UploadInode # 0
    <2>1. i = UploadInode /\ content' = [content EXCEPT ![i] = {}]
          /\ target' = target /\ temp' = temp
      BY <1>3 DEF OpenTruncates
    <2>2. i \in 1..Len(content) BY <1>1, <1>2, <1>3, <2>1 DEF UploadInode
    <2>3. /\ content' \in Seq(S) /\ Len(content') = Len(content)
          /\ \A j \in 1..Len(content) : content'[j] = IF j = i THEN {} ELSE content[j]
      BY <1>1, <2>1, <2>2, ExceptSeq
    <2> QED BY <1>1, <1>2, <2>1, <2>2, <2>3 DEF UploadInode, S
  <1>4. CASE UploadInode = 0
    <2>1. i = Len(content) + 1 /\ content' = Append(content, {})
      BY <1>4 DEF OpenTruncates
    <2>2. IF option.temp THEN temp' = i /\ target' = target ELSE target' = i /\ temp' = temp
      BY <1>4 DEF OpenTruncates
    <2>3. /\ content' \in Seq(S) /\ Len(content') = Len(content) + 1
          /\ \A j \in 1..Len(content) : content'[j] = content[j]
          /\ content'[Len(content) + 1] = {}
      BY <1>1, <2>1, AppendProperties
    <2> QED BY <1>1, <1>2, <2>1, <2>2, <2>3 DEF S
  <1> QED BY <1>3, <1>4

(* A block that lands changes the file of its body only.                        *)
LEMMA LandedBlock ==
    ASSUME Shape, NEW a \in Tries, body[a].at = "copying", NEW b \in Blocks, Lands(a, b)
    PROVE  /\ content' \in Seq(SUBSET (Blocks \cup Old)) /\ Len(content') = Len(content)
           /\ body[a].fd \in 1..Len(content)
           /\ content'[body[a].fd] = content[body[a].fd] \cup {b}
           /\ \A j \in 1..Len(content) : j # body[a].fd => content'[j] = content[j]
  <1> DEFINE S == SUBSET (Blocks \cup Old)
             i == body[a].fd
             e == content[i] \cup {b}
  <1>1. content \in Seq(S) /\ i \in 1..Len(content)
    BY DEF Shape, TypeOK, Open, Before
  <1>2. content[i] \in S BY <1>1, ElementOfSeq
  <1>3. e \in S BY <1>2
  <1>4. content' = [content EXCEPT ![i] = e] BY DEF Lands
  <1> HIDE DEF S, e
  <1>5. /\ content' \in Seq(S) /\ Len(content') = Len(content)
        /\ \A j \in 1..Len(content) : content'[j] = IF j = i THEN e ELSE content[j]
    BY <1>1, <1>3, <1>4, ExceptSeq
  <1> QED BY <1>1, <1>5 DEF S, e

(* What a record keeps when some of its fields are set.                         *)
LEMMA Became ==
    ASSUME Shape, NEW a \in Tries, NEW r \in BodyType, Becomes(a, r)
    PROVE  /\ body' \in [Tries -> BodyType] /\ body'[a] = r
           /\ body' = [body EXCEPT ![a] = body'[a]]
           /\ \A c \in Tries : c # a => body'[c] = body[c]
  BY DEF Shape, TypeOK, Becomes
LEMMA SetAtVerdict ==
    ASSUME NEW b \in BodyType, NEW to \in {"closing", "done"}, NEW v \in Verdicts
    PROVE  [b EXCEPT !.at = to, !.verdict = v] \in BodyType
  BY Zenon DEF BodyType, Verdicts
LEMMA SetStart ==
    ASSUME NEW t \in 0..Attempts
    PROVE  [NotBegun EXCEPT !.at = "opening", !.stream = "fresh", !.token = t] \in BodyType
  BY DEF BodyType, NotBegun

(* The ways a body goes on: it is over, ...                                     *)
LEMMA EndsMoves ==
    ASSUME Shape, NEW a \in Tries, body[a].at \notin Settled,
           NEW v \in Verdicts, Ends(a, v), option' = option
    PROVE  BodyMoves(a) /\ body'[a].at = "done" /\ body'[a].verdict = v
  <1> DEFINE r == [body[a] EXCEPT !.at = "done", !.verdict = v]
  <1>1. body[a] \in BodyType BY DEF Shape, TypeOK
  <1>2. r \in BodyType BY <1>1, SetAtVerdict
  <1>3. Becomes(a, r) BY DEF Ends
  <1>4. /\ r.at = "done" /\ r.verdict = v
        /\ r.path = body[a].path /\ r.stream = body[a].stream
    BY <1>1 DEF BodyType
  <1> HIDE DEF r
  <1>5. body'[a] = r /\ body' = [body EXCEPT ![a] = body'[a]] BY <1>2, <1>3, Became
  <1>6. IF run[a] = "running"
        THEN /\ run' = [run EXCEPT ![a] = IF v = "ok" THEN "resolved" ELSE "failed"]
             /\ timer' = FALSE
        ELSE run' = run /\ timer' = timer
    BY DEF Ends
  <1>7. UNCHANGED <<option, attempt, cancelled, handle, dead>> BY DEF Ends
  <1>8. BodyMoves(a) BY <1>2, <1>4, <1>5, <1>6, <1>7 DEF BodyMoves, Before
  <1> QED BY <1>4, <1>5, <1>8

(* ... or it is begun again as a stream, ...                                    *)
LEMMA StartsMoves ==
    ASSUME Shape, NEW a \in Tries, body[a].at \notin Settled, body[a].path = "parallel",
           ~cancelled, StartsStream(a), option' = option
    PROVE  BodyMoves(a) /\ body'[a].at = "opening" /\ body'[a].put = {}
  <1> DEFINE r == [NotBegun EXCEPT !.at = "opening", !.stream = "fresh", !.token = body[a].token]
  <1>1. body[a].token \in 0..Attempts BY DEF Shape, TypeOK, BodyType
  <1>2. r \in BodyType BY <1>1, SetStart
  <1>3. Becomes(a, r) /\ task' = task BY DEF StartsStream
  <1>4. r.at = "opening" /\ r.put = {} BY DEF NotBegun
  <1> HIDE DEF r
  <1>5. body'[a] = r /\ body' = [body EXCEPT ![a] = body'[a]] BY <1>2, <1>3, Became
  <1> QED BY <1>2, <1>3, <1>4, <1>5 DEF BodyMoves, task

(* ... or it sets some fields and goes to a later step.                         *)
LEMMA GoesMoves ==
    ASSUME Shape, NEW a \in Tries, body[a].at \notin Settled,
           NEW r \in BodyType, Becomes(a, r), task' = task, option' = option,
           r.at \notin Settled \cup {"mode"}, r.path = body[a].path,
           r.at = "opening" => r.path = "parallel" \/ body[a].at = "opening",
           r.stream = body[a].stream \/ r.stream = "spent" \/ r.stream = Piped(body[a].stream)
    PROVE  BodyMoves(a) /\ body'[a] = r
  <1>1. body'[a] = r /\ body' = [body EXCEPT ![a] = body'[a]] BY Became
  <1>2. body[a].stream \in Lost => r.stream \in Lost BY DEF Lost, Piped, Shape, TypeOK, BodyType
  <1> QED BY <1>1, <1>2 DEF BodyMoves, task, Before, Settled

LEMMA FailsMoves ==
    ASSUME Shape, NEW a \in Tries, body[a].at \notin Settled,
           NEW v \in Verdicts \ {"ok"}, Fails(a, v), option' = option
    PROVE  /\ BodyMoves(a)
           /\ \/ body'[a].at = "opening" /\ body'[a].put = {}
              \/ body'[a].at = "done" /\ body'[a].verdict # "ok"
  <1>1. CASE body[a].path = "parallel" /\ ~cancelled /\ v # "aborted"
    BY <1>1, StartsMoves DEF Fails
  <1>2. CASE ~(body[a].path = "parallel" /\ ~cancelled /\ v # "aborted")
    <2>1. Ends(a, v) BY <1>2 DEF Fails
    <2> QED BY <2>1, EndsMoves
  <1> QED BY <1>1, <1>2

(* Files nobody touched are as they were for a body that has its own open.      *)
LEMMA SameFiles ==
    ASSUME Shape, NEW a \in Tries, files' = files,
           body'[a].at \in Before \cup {"done"}
             \/ (body[a].at \notin Before \cup {"done"} /\ body'[a].fd = body[a].fd)
    PROVE  FilesMove(a)
  <1>1. content \in Seq(SUBSET (Blocks \cup Old)) /\ target \in 0..Len(content)
        /\ temp \in 0..Len(content)
    BY DEF Shape, TypeOK
  <1>2. Len(content) \in Nat BY <1>1, LenProperties
  <1> QED BY <1>1, <1>2 DEF FilesMove, files, Shape, Open

(* Each step of a body is such a move.                                          *)
LEMMA ModeAnswersMoves ==
    ASSUME Shape, Order, NEW a \in Tries, ModeAnswers(a)
    PROVE  /\ BodyMoves(a) /\ FilesMove(a) /\ files' = files /\ body[a].at = "mode"
           /\ body'[a].at = "opening" /\ body'[a].put = body[a].put
  <1> DEFINE r == [body[a] EXCEPT !.at = "opening", !.token = attempt]
  <1>1. body[a] \in BodyType /\ attempt \in 0..Attempts /\ body[a].at = "mode"
    BY DEF Shape, TypeOK, Tries, ModeAnswers
  <1>2. r \in BodyType BY <1>1, Zenon DEF BodyType
  <1>3. r.at = "opening" /\ r.path = body[a].path /\ r.stream = body[a].stream
        /\ r.put = body[a].put
    BY <1>1 DEF BodyType
  <1>4. Becomes(a, r) /\ task' = task /\ files' = files /\ option' = option
    BY DEF ModeAnswers, task, files
  <1>5. body[a].path = "parallel" BY <1>1 DEF Order
  <1> HIDE DEF r
  <1>6. BodyMoves(a) /\ body'[a] = r
    BY <1>1, <1>2, <1>3, <1>4, <1>5, GoesMoves DEF Settled
  <1> QED BY <1>1, <1>3, <1>4, <1>6, SameFiles DEF Before
LEMMA BegunCopy ==
    ASSUME NEW b \in BodyType
    PROVE  LET r == CopyBegun(b) IN
           /\ r \in BodyType /\ r.path = b.path /\ r.fd = b.fd /\ r.put = b.put
           /\ r.stream \in {b.stream, Piped(b.stream)}
           /\ \/ r.at = "copying"
              \/ r.at = "closing" /\ r.verdict = "aborted" /\ b.path # "stream"
  <1> DEFINE q == [b EXCEPT !.at = "closing", !.verdict = "aborted"]
             r == [b EXCEPT !.at = "copying"]
             s == [b EXCEPT !.at = "copying", !.stream = Piped(@)]
  <1>1. Piped(b.stream) \in {"piped", "mute"} BY DEF Piped
  <1>2. q \in BodyType BY SetAtVerdict DEF Verdicts
  <1>3. r \in BodyType BY Zenon DEF BodyType
  <1>4. s \in BodyType BY <1>1, Zenon DEF BodyType
  <1>5. /\ q.at = "closing" /\ q.verdict = "aborted" /\ q.path = b.path
        /\ q.stream = b.stream /\ q.fd = b.fd /\ q.put = b.put
        /\ r.at = "copying" /\ r.path = b.path
        /\ r.stream = b.stream /\ r.fd = b.fd /\ r.put = b.put
        /\ s.at = "copying" /\ s.path = b.path
        /\ s.stream = Piped(b.stream) /\ s.fd = b.fd /\ s.put = b.put
    BY DEF BodyType
  <1>6. CopyBegun(b) \in {q, r, s} /\ (b.path = "stream" => CopyBegun(b) = s)
    BY Zenon DEF CopyBegun
  <1> HIDE DEF q, r, s
  <1> QED BY <1>2, <1>3, <1>4, <1>5, <1>6
LEMMA ChmodAnswersMoves ==
    ASSUME Shape, NEW a \in Tries, ChmodAnswers(a)
    PROVE  /\ BodyMoves(a) /\ FilesMove(a) /\ files' = files /\ body[a].at = "chmod"
           /\ body'[a].fd = body[a].fd /\ body'[a].put = body[a].put
           /\ body'[a].at = "copying"
                \/ (body'[a].at = "closing" /\ body'[a].verdict = "aborted")
  <1> DEFINE r == CopyBegun(body[a])
  <1>1. body[a] \in BodyType /\ body[a].at = "chmod" BY DEF Shape, TypeOK, ChmodAnswers
  <1>2. /\ r \in BodyType /\ r.path = body[a].path /\ r.fd = body[a].fd
        /\ r.put = body[a].put /\ r.stream \in {body[a].stream, Piped(body[a].stream)}
        /\ r.at = "copying" \/ (r.at = "closing" /\ r.verdict = "aborted")
    BY <1>1, BegunCopy
  <1>3. Becomes(a, r) /\ task' = task /\ files' = files /\ option' = option
    BY DEF ChmodAnswers, task, files
  <1> HIDE DEF r
  <1>4. BodyMoves(a) /\ body'[a] = r BY <1>1, <1>2, <1>3, GoesMoves DEF Settled
  <1> QED BY <1>1, <1>2, <1>3, <1>4, SameFiles DEF Before
LEMMA ChunkFailsMoves ==
    ASSUME Shape, NEW a \in Tries, ChunkFails(a)
    PROVE  /\ BodyMoves(a) /\ FilesMove(a) /\ files' = files /\ body[a].at = "copying"
           /\ \/ /\ body'[a].at = "copying" /\ body'[a].fd = body[a].fd
                 /\ body'[a].put = body[a].put
              \/ body'[a].at = "closing" /\ body'[a].verdict = "io"
  <1> DEFINE r == [body[a] EXCEPT !.failed = TRUE]
             q == [body[a] EXCEPT !.failed = TRUE, !.at = "closing", !.verdict = "io"]
  <1>1. body[a] \in BodyType /\ body[a].at = "copying" BY DEF Shape, TypeOK, ChunkFails
  <1>2. r \in BodyType BY <1>1, Zenon DEF BodyType
  <1>3. q \in BodyType BY <1>1, Zenon DEF BodyType
  <1>4. r.at = "copying" /\ r.path = body[a].path /\ r.stream = body[a].stream
        /\ r.fd = body[a].fd /\ r.put = body[a].put
    BY <1>1 DEF BodyType
  <1>5. q.at = "closing" /\ q.path = body[a].path /\ q.stream = body[a].stream
        /\ q.fd = body[a].fd /\ q.verdict = "io"
    BY <1>1 DEF BodyType
  <1>6. Becomes(a, r) \/ Becomes(a, q) BY DEF ChunkFails
  <1>7. task' = task /\ files' = files /\ option' = option BY DEF ChunkFails, task, files
  <1> HIDE DEF r, q
  <1>8. CASE Becomes(a, r)
    <2>1. BodyMoves(a) /\ body'[a] = r BY <1>1, <1>2, <1>4, <1>7, <1>8, GoesMoves DEF Settled
    <2> QED BY <1>1, <1>4, <1>7, <2>1, SameFiles DEF Before
  <1>9. CASE Becomes(a, q)
    <2>1. BodyMoves(a) /\ body'[a] = q BY <1>1, <1>3, <1>5, <1>7, <1>9, GoesMoves DEF Settled
    <2> QED BY <1>1, <1>5, <1>7, <2>1, SameFiles DEF Before
  <1> QED BY <1>6, <1>8, <1>9
LEMMA SourceFailsMoves ==
    ASSUME Shape, NEW a \in Tries, SourceFails(a)
    PROVE  /\ BodyMoves(a) /\ FilesMove(a) /\ files' = files
           /\ \/ /\ body[a].at \in {"opening", "chmod"} /\ body'[a].at = body[a].at
                 /\ body'[a].fd = body[a].fd /\ body'[a].put = body[a].put
              \/ body[a].at = "copying" /\ body'[a].at = "closing" /\ body'[a].verdict = "io"
  <1> DEFINE r == [body[a] EXCEPT !.stream = "spent"]
             q == [body[a] EXCEPT !.stream = "spent", !.at = "closing", !.verdict = "io"]
  <1>1. body[a] \in BodyType /\ body[a].at \in {"opening", "chmod", "copying"}
    BY DEF Shape, TypeOK, SourceFails
  <1>2. r \in BodyType BY <1>1, Zenon DEF BodyType
  <1>3. q \in BodyType BY <1>1, Zenon DEF BodyType
  <1>4. r.at = body[a].at /\ r.path = body[a].path /\ r.stream = "spent"
        /\ r.fd = body[a].fd /\ r.put = body[a].put
    BY <1>1 DEF BodyType
  <1>5. q.at = "closing" /\ q.path = body[a].path /\ q.stream = "spent"
        /\ q.fd = body[a].fd /\ q.verdict = "io"
    BY <1>1 DEF BodyType
  <1>6. (body[a].at \in {"opening", "chmod"} /\ Becomes(a, r))
          \/ (body[a].at = "copying" /\ Becomes(a, q))
    BY DEF SourceFails
  <1>7. task' = task /\ files' = files /\ option' = option BY DEF SourceFails, task, files
  <1> HIDE DEF r, q
  <1>8. CASE body[a].at \in {"opening", "chmod"} /\ Becomes(a, r)
    <2>1. BodyMoves(a) /\ body'[a] = r BY <1>2, <1>4, <1>7, <1>8, GoesMoves DEF Settled
    <2> QED BY <1>4, <1>7, <1>8, <2>1, SameFiles DEF Before
  <1>9. CASE body[a].at = "copying" /\ Becomes(a, q)
    <2>1. BodyMoves(a) /\ body'[a] = q BY <1>3, <1>5, <1>7, <1>9, GoesMoves DEF Settled
    <2> QED BY <1>5, <1>7, <1>9, <2>1, SameFiles DEF Before
  <1> QED BY <1>6, <1>8, <1>9

(* The steps that move bytes or open the target touch more than their body.     *)
LEMMA StepMoves ==
    ASSUME Shape, NEW a \in Tries, body[a].at \notin Settled,
           NEW r \in BodyType, Becomes(a, r), run' = run,
           timer' = timer \/ timer' = (timer \/ run[attempt] = "running"),
           \/ handle' = handle
           \/ handle' = a /\ body[a].at = "opening" /\ r.path = "stream"
                /\ r.at \in {"chmod", "copying"},
           UNCHANGED <<option, attempt, cancelled, dead>>,
           r.at \notin Settled \cup {"mode", "opening"}, r.path = body[a].path,
           r.stream = body[a].stream \/ r.stream = "spent" \/ r.stream = Piped(body[a].stream)
    PROVE  BodyMoves(a) /\ body'[a] = r
  <1>1. body'[a] = r /\ body' = [body EXCEPT ![a] = body'[a]] BY Became
  <1>2. body[a].stream \in Lost => r.stream \in Lost BY DEF Lost, Piped, Shape, TypeOK, BodyType
  <1> QED BY <1>1, <1>2 DEF BodyMoves, Before, Settled
LEMMA OpenAnswersMoves ==
    ASSUME Shape, NEW a \in Tries, OpenAnswers(a)
    PROVE  /\ BodyMoves(a) /\ FilesMove(a) /\ body[a].at = "opening"
           /\ \E i \in 1..(Len(content) + 1) :
                OpenTruncates(i) /\ body'[a].fd = i /\ body'[a].put = body[a].put
           /\ body'[a].at \in {"chmod", "copying"}
                \/ (body'[a].at = "closing" /\ body'[a].verdict = "aborted")
  <1>1. PICK i \in 1..(Len(content) + 1) :
        /\ OpenTruncates(i)
        /\ \/ Becomes(a, [body[a] EXCEPT !.fd = i, !.at = "chmod"])
           \/ Becomes(a, CopyBegun([body[a] EXCEPT !.fd = i]))
    BY DEF OpenAnswers
  <1> DEFINE q == [body[a] EXCEPT !.fd = i, !.at = "chmod"]
             b == [body[a] EXCEPT !.fd = i]
             r == CopyBegun(b)
  <1>2. body[a] \in BodyType /\ body[a].at = "opening" /\ content \in Seq(SUBSET (Blocks \cup Old))
    BY DEF Shape, TypeOK, OpenAnswers
  <1>3. i \in Nat BY <1>2, LenProperties
  <1>4. q \in BodyType BY <1>2, <1>3, Zenon DEF BodyType
  <1>5. b \in BodyType BY <1>2, <1>3, Zenon DEF BodyType
  <1>6. /\ q.at = "chmod" /\ q.path = body[a].path /\ q.stream = body[a].stream
        /\ q.fd = i /\ q.put = body[a].put
        /\ b.path = body[a].path /\ b.stream = body[a].stream /\ b.fd = i /\ b.put = body[a].put
    BY <1>2 DEF BodyType
  <1>7. Becomes(a, q) \/ Becomes(a, r) BY <1>1
  <1> HIDE DEF q, b
  <1>8. /\ r \in BodyType /\ r.path = body[a].path /\ r.fd = i /\ r.put = body[a].put
        /\ r.stream \in {body[a].stream, Piped(body[a].stream)}
        /\ \/ r.at = "copying"
           \/ r.at = "closing" /\ r.verdict = "aborted" /\ body[a].path # "stream"
    BY <1>5, <1>6, BegunCopy
  <1> HIDE DEF r
  <1>9. /\ UNCHANGED <<option, attempt, run, cancelled, timer, dead>>
        /\ handle' = IF body[a].path = "stream" THEN a ELSE handle
    BY DEF OpenAnswers
  <1>10. BodyMoves(a) /\ body'[a] \in {q, r}
    <2>1. CASE Becomes(a, q)
      BY <1>2, <1>4, <1>6, <1>9, <2>1, StepMoves DEF Settled
    <2>2. CASE Becomes(a, r) /\ r.at = "copying"
      BY <1>2, <1>8, <1>9, <2>2, StepMoves DEF Settled
    <2>3. CASE Becomes(a, r) /\ r.at = "closing"
      BY <1>2, <1>8, <1>9, <2>3, StepMoves DEF Settled
    <2> QED BY <1>7, <1>8, <2>1, <2>2, <2>3
  <1>11. body'[a].fd = i /\ body'[a].put = body[a].put
         /\ (body'[a].at \in {"chmod", "copying"}
               \/ (body'[a].at = "closing" /\ body'[a].verdict = "aborted"))
    BY <1>6, <1>8, <1>10
  <1>12. FilesMove(a) BY <1>1, <1>11, OpenedFile DEF FilesMove
  <1> QED BY <1>1, <1>2, <1>10, <1>11, <1>12
LEMMA OpenFailsMoves ==
    ASSUME Shape, NEW a \in Tries, OpenFails(a)
    PROVE  /\ BodyMoves(a) /\ FilesMove(a)
           /\ \/ body'[a].at = "opening" /\ body'[a].put = {}
              \/ body'[a].at = "done" /\ body'[a].verdict # "ok"
           /\ files' = files \/ \E i \in 1..(Len(content) + 1) : OpenTruncates(i)
  <1>1. body[a].at = "opening" /\ Fails(a, "io") /\ option' = option
        /\ (files' = files \/ \E i \in 1..(Len(content) + 1) : OpenTruncates(i))
    BY DEF OpenFails, files
  <1>2. BodyMoves(a)
        /\ ((body'[a].at = "opening" /\ body'[a].put = {}) \/ (body'[a].at = "done" /\ body'[a].verdict # "ok"))
    BY <1>1, FailsMoves DEF Settled, Verdicts
  <1>3. FilesMove(a)
    <2>1. CASE files' = files BY <1>2, <2>1, SameFiles DEF Before
    <2>2. CASE \E i \in 1..(Len(content) + 1) : OpenTruncates(i)
      BY <1>2, <2>2, OpenedFile DEF FilesMove, Before
    <2> QED BY <1>1, <2>1, <2>2
  <1> QED BY <1>1, <1>2, <1>3
LEMMA ChunkLandsMoves ==
    ASSUME Shape, NEW a \in Tries, NEW b \in Blocks, ChunkLands(a, b)
    PROVE  /\ BodyMoves(a) /\ FilesMove(a) /\ body[a].at = "copying" /\ Lands(a, b)
           /\ body'[a].fd = body[a].fd /\ body'[a].put = body[a].put \cup {b}
           /\ body'[a].path = body[a].path
           /\ body'[a].at = "copying"
                \/ (/\ body'[a].at = "closing"
                    /\ body'[a].verdict = "ok" => body'[a].put = Blocks)
  <1> DEFINE r == [body[a] EXCEPT !.put = @ \cup {b}]
             q == [body[a] EXCEPT !.put = @ \cup {b}, !.at = "closing",
                          !.verdict = IF body[a].failed THEN "io" ELSE "ok"]
  <1>1. body[a] \in BodyType /\ body[a].at = "copying" /\ Lands(a, b)
    BY DEF Shape, TypeOK, ChunkLands
  <1>2. body[a].put \cup {b} \in SUBSET Blocks BY <1>1 DEF BodyType
  <1>3. (IF body[a].failed THEN "io" ELSE "ok") \in {"none", "ok", "io", "aborted"} OBVIOUS
  <1>4. r \in BodyType BY <1>1, <1>2, Zenon DEF BodyType
  <1>5. q \in BodyType BY <1>1, <1>2, <1>3, Zenon DEF BodyType
  <1>6. r.at = "copying" /\ r.path = body[a].path /\ r.stream = body[a].stream
        /\ r.fd = body[a].fd /\ r.put = body[a].put \cup {b}
    BY <1>1 DEF BodyType
  <1>7. q.at = "closing" /\ q.path = body[a].path /\ q.stream = body[a].stream
        /\ q.fd = body[a].fd /\ q.put = body[a].put \cup {b}
        /\ (q.verdict = "ok" => ~body[a].failed)
    BY <1>1 DEF BodyType
  <1>8. Becomes(a, r) \/ (Becomes(a, q) /\ (body[a].failed \/ body[a].put \cup {b} = Blocks))
    BY DEF ChunkLands
  <1>9. UNCHANGED <<option, attempt, run, cancelled, handle, dead, target, temp>>
        /\ timer' = (timer \/ run[attempt] = "running")
    BY DEF ChunkLands, Rearmed
  <1> HIDE DEF r, q
  <1>10. CASE Becomes(a, r)
    <2>1. BodyMoves(a) /\ body'[a] = r BY <1>1, <1>4, <1>6, <1>9, <1>10, StepMoves DEF Settled
    <2>2. FilesMove(a) BY <1>1, <1>6, <1>9, <2>1, LandedBlock DEF FilesMove, Shape, TypeOK
    <2> QED BY <1>1, <1>6, <2>1, <2>2
  <1>11. CASE Becomes(a, q) /\ (body[a].failed \/ body[a].put \cup {b} = Blocks)
    <2>1. BodyMoves(a) /\ body'[a] = q BY <1>1, <1>5, <1>7, <1>9, <1>11, StepMoves DEF Settled
    <2>2. FilesMove(a) BY <1>1, <1>7, <1>9, <2>1, LandedBlock DEF FilesMove, Shape, TypeOK
    <2> QED BY <1>1, <1>7, <1>11, <2>1, <2>2
  <1> QED BY <1>8, <1>10, <1>11
LEMMA StreamMovesMoves ==
    ASSUME Shape, NEW a \in Tries, StreamMoves(a)
    PROVE  /\ BodyMoves(a) /\ FilesMove(a) /\ body[a].at = "copying"
           /\ \E b \in Blocks : Lands(a, b) /\ body'[a].put = body[a].put \cup {b}
           /\ body'[a].at = "copying" /\ body'[a].fd = body[a].fd
  <1>1. PICK b \in Blocks : Lands(a, b) /\ Becomes(a, [body[a] EXCEPT !.put = @ \cup {b}])
    BY DEF StreamMoves
  <1> DEFINE r == [body[a] EXCEPT !.put = @ \cup {b}]
  <1>2. body[a] \in BodyType /\ body[a].at = "copying" BY DEF Shape, TypeOK, StreamMoves
  <1>3. body[a].put \cup {b} \in SUBSET Blocks BY <1>2 DEF BodyType
  <1>4. r \in BodyType BY <1>2, <1>3, Zenon DEF BodyType
  <1>5. r.at = "copying" /\ r.path = body[a].path /\ r.stream = body[a].stream
        /\ r.fd = body[a].fd /\ r.put = body[a].put \cup {b}
    BY <1>2 DEF BodyType
  <1>6. UNCHANGED <<option, attempt, run, cancelled, handle, dead, target, temp>>
        /\ timer' = (timer \/ run[attempt] = "running")
    BY DEF StreamMoves, Rearmed
  <1>7. Becomes(a, r) BY <1>1
  <1> HIDE DEF r
  <1>8. BodyMoves(a) /\ body'[a] = r BY <1>2, <1>4, <1>5, <1>6, <1>7, StepMoves DEF Settled
  <1>9. FilesMove(a) BY <1>1, <1>2, <1>5, <1>6, <1>8, LandedBlock DEF FilesMove, Shape, TypeOK
  <1> QED BY <1>1, <1>2, <1>5, <1>8, <1>9

(* The steps that only name the next one.                                       *)
LEMMA GoesOn ==
    ASSUME Shape, NEW a \in Tries, body[a].at \notin Before \cup Settled,
           NEW to \in {"times", "unlinking", "renaming", "closing"}, Goes(a, to),
           task' = task, option' = option
    PROVE  /\ BodyMoves(a)
           /\ body'[a].at = to /\ body'[a].fd = body[a].fd
           /\ body'[a].path = body[a].path /\ body'[a].verdict = body[a].verdict
  <1> DEFINE r == [body[a] EXCEPT !.at = to]
  <1>1. body[a] \in BodyType BY DEF Shape, TypeOK
  <1>2. r \in BodyType BY <1>1, Zenon DEF BodyType
  <1>3. /\ r.at = to /\ r.path = body[a].path /\ r.stream = body[a].stream
        /\ r.fd = body[a].fd /\ r.verdict = body[a].verdict
    BY <1>1 DEF BodyType
  <1>4. Becomes(a, r) BY DEF Goes
  <1> HIDE DEF r
  <1>5. BodyMoves(a) /\ body'[a] = r BY <1>1, <1>2, <1>3, <1>4, GoesMoves DEF Settled
  <1> QED BY <1>3, <1>5
LEMMA GoesOnWith ==
    ASSUME Shape, NEW a \in Tries, body[a].at \notin Before \cup Settled,
           NEW v \in Verdicts, GoesWith(a, "closing", v),
           task' = task, option' = option
    PROVE  /\ BodyMoves(a)
           /\ body'[a].at = "closing" /\ body'[a].fd = body[a].fd
           /\ body'[a].path = body[a].path /\ body'[a].verdict = v
  <1> DEFINE r == [body[a] EXCEPT !.at = "closing", !.verdict = v]
  <1>1. body[a] \in BodyType BY DEF Shape, TypeOK
  <1>2. r \in BodyType BY <1>1, SetAtVerdict
  <1>3. /\ r.at = "closing" /\ r.path = body[a].path /\ r.stream = body[a].stream
        /\ r.fd = body[a].fd /\ r.verdict = v
    BY <1>1 DEF BodyType
  <1>4. Becomes(a, r) BY DEF GoesWith
  <1> HIDE DEF r
  <1>5. BodyMoves(a) /\ body'[a] = r BY <1>1, <1>2, <1>3, <1>4, GoesMoves DEF Settled
  <1> QED BY <1>3, <1>5
LEMMA FlushedMoves ==
    ASSUME Shape, NEW a \in Tries, Flushed(a)
    PROVE  /\ BodyMoves(a) /\ FilesMove(a) /\ files' = files
           /\ body[a].at = "copying" /\ body[a].put = Blocks
           /\ body'[a].at = "times" /\ body'[a].fd = body[a].fd
  <1>1. body[a].at = "copying" /\ body[a].put = Blocks /\ Goes(a, "times")
        /\ task' = task /\ files' = files /\ option' = option
    BY DEF Flushed, task, files
  <1>2. BodyMoves(a) /\ body'[a].at = "times" /\ body'[a].fd = body[a].fd
    BY <1>1, GoesOn DEF Before, Settled
  <1> QED BY <1>1, <1>2, SameFiles DEF Before
LEMMA StreamFailsMoves ==
    ASSUME Shape, NEW a \in Tries, StreamFails(a)
    PROVE  /\ BodyMoves(a) /\ FilesMove(a) /\ files' = files /\ body[a].at = "copying"
           /\ body'[a].at = "closing" /\ body'[a].verdict = "io"
  <1>1. body[a].at = "copying" /\ GoesWith(a, "closing", "io")
        /\ task' = task /\ files' = files /\ option' = option
    BY DEF StreamFails, task, files
  <1>2. BodyMoves(a) /\ body'[a].at = "closing" /\ body'[a].verdict = "io"
        /\ body'[a].fd = body[a].fd
    BY <1>1, GoesOnWith DEF Before, Settled, Verdicts
  <1> QED BY <1>1, <1>2, SameFiles DEF Before
LEMMA DeliversMoves ==
    ASSUME Shape, NEW a \in Tries, body[a].at \notin Before \cup Settled, Delivers(a),
           option' = option
    PROVE  /\ BodyMoves(a) /\ body'[a].verdict = "ok"
           /\ \/ body'[a].at = "done"
              \/ /\ body'[a].at = "closing" /\ body'[a].fd = body[a].fd
                 /\ body[a].path = "stream" /\ body'[a].path = "stream"
  <1>1. CASE body[a].path = "parallel" BY <1>1, EndsMoves DEF Delivers, Verdicts
  <1>2. CASE body[a].path # "parallel"
    <2>1. body[a].path = "stream" BY <1>2 DEF Shape, TypeOK, BodyType
    <2> QED BY <1>2, <2>1, GoesOnWith DEF Delivers, Verdicts
  <1> QED BY <1>1, <1>2
LEMMA CloseAnswersMoves ==
    ASSUME Shape, NEW a \in Tries, CloseAnswers(a)
    PROVE  /\ BodyMoves(a) /\ FilesMove(a) /\ files' = files /\ body[a].at = "closing"
           /\ \/ /\ body'[a].at = "times" /\ body'[a].fd = body[a].fd
                 /\ body[a].path = "parallel" /\ body[a].verdict = "ok"
              \/ body'[a].at = "opening" /\ body'[a].put = {}
              \/ /\ body'[a].at = "done"
                 /\ body'[a].verdict = "ok" => body[a].path = "stream" /\ body[a].verdict = "ok"
  <1>1. body[a].at = "closing" /\ files' = files /\ option' = option
    BY DEF CloseAnswers, files
  <1>2. body[a].verdict \in Verdicts /\ body[a].path \in {"parallel", "stream"}
    BY DEF Verdicts, Shape, TypeOK, BodyType
  <1>3. CASE body[a].path = "parallel" /\ body[a].verdict = "ok"
    <2>1. Goes(a, "times") /\ task' = task BY <1>3 DEF CloseAnswers
    <2>2. BodyMoves(a) /\ body'[a].at = "times" /\ body'[a].fd = body[a].fd
      BY <1>1, <2>1, GoesOn DEF Before, Settled
    <2>3. FilesMove(a) BY <1>1, <2>2, SameFiles DEF Before
    <2> QED BY <1>1, <1>3, <2>2, <2>3
  <1>4. CASE body[a].path = "parallel" /\ body[a].verdict # "ok"
    <2>1. Fails(a, body[a].verdict) BY <1>4 DEF CloseAnswers
    <2>2. BodyMoves(a)
          /\ ((body'[a].at = "opening" /\ body'[a].put = {}) \/ (body'[a].at = "done" /\ body'[a].verdict # "ok"))
      BY <1>1, <1>2, <1>4, <2>1, FailsMoves DEF Settled
    <2>3. FilesMove(a) BY <1>1, <2>2, SameFiles DEF Before
    <2> QED BY <1>1, <2>2, <2>3
  <1>5. CASE body[a].path = "stream"
    <2>1. PICK v \in {body[a].verdict, "io"} : Ends(a, v) BY <1>5 DEF CloseAnswers
    <2>2. BodyMoves(a) /\ body'[a].at = "done" /\ body'[a].verdict = v
      BY <1>1, <1>2, <2>1, EndsMoves DEF Settled, Verdicts
    <2>3. FilesMove(a) BY <1>1, <2>2, SameFiles DEF Before
    <2> QED BY <1>1, <1>5, <2>1, <2>2, <2>3
  <1> QED BY <1>2, <1>3, <1>4, <1>5
LEMMA TimesAnswersMoves ==
    ASSUME Shape, NEW a \in Tries, TimesAnswers(a)
    PROVE  /\ BodyMoves(a) /\ FilesMove(a) /\ files' = files /\ body[a].at = "times"
           /\ IF option.temp
              THEN /\ body'[a].fd = body[a].fd
                   /\ body'[a].at = IF option.atomic THEN "renaming" ELSE "unlinking"
              ELSE body'[a].at = "done" \/ (body'[a].at = "closing" /\ body'[a].path = "stream")
  <1>1. body[a].at = "times" /\ files' = files /\ option' = option
    BY DEF TimesAnswers, files
  <1>2. CASE option.temp
    <2>1. Goes(a, IF option.atomic THEN "renaming" ELSE "unlinking") /\ task' = task
      BY <1>2 DEF TimesAnswers
    <2>2. /\ BodyMoves(a) /\ body'[a].fd = body[a].fd
          /\ body'[a].at = IF option.atomic THEN "renaming" ELSE "unlinking"
      BY <1>1, <2>1, GoesOn DEF Before, Settled
    <2>3. FilesMove(a) BY <1>1, <2>2, SameFiles DEF Before
    <2> QED BY <1>1, <1>2, <2>2, <2>3
  <1>3. CASE ~option.temp
    <2>1. Delivers(a) BY <1>3 DEF TimesAnswers
    <2>2. /\ BodyMoves(a)
          /\ \/ body'[a].at = "done"
             \/ /\ body'[a].at = "closing" /\ body'[a].fd = body[a].fd
                /\ body'[a].path = "stream"
      BY <1>1, <2>1, DeliversMoves DEF Before, Settled
    <2>3. FilesMove(a) BY <1>1, <2>2, SameFiles DEF Before
    <2> QED BY <1>1, <1>3, <2>2, <2>3
  <1> QED BY <1>2, <1>3
LEMMA UnlinkAnswersMoves ==
    ASSUME Shape, NEW a \in Tries, UnlinkAnswers(a)
    PROVE  /\ BodyMoves(a) /\ FilesMove(a) /\ body[a].at = "unlinking"
           /\ content' = content /\ temp' = temp /\ target' \in {0, target}
           /\ body'[a].at = "renaming" /\ body'[a].fd = body[a].fd
  <1>1. body[a].at = "unlinking" /\ Goes(a, "renaming") /\ task' = task /\ option' = option
        /\ content' = content /\ temp' = temp /\ target' \in {0, target}
    BY DEF UnlinkAnswers, task
  <1>2. BodyMoves(a) /\ body'[a].at = "renaming" /\ body'[a].fd = body[a].fd
    BY <1>1, GoesOn DEF Before, Settled
  <1>3. content \in Seq(SUBSET (Blocks \cup Old)) /\ target \in 0..Len(content)
        /\ temp \in 0..Len(content) /\ body[a].fd \in 1..Len(content)
    BY <1>1 DEF Shape, TypeOK, Open, Before
  <1>4. Len(content) \in Nat BY <1>3, LenProperties
  <1>5. FilesMove(a) BY <1>1, <1>2, <1>3, <1>4 DEF FilesMove
  <1> QED BY <1>1, <1>2, <1>5
LEMMA RenamesFiles ==
    ASSUME Shape, NEW a \in Tries, Renames \/ files' = files,
           body'[a].at \in Before \cup {"done"}
             \/ (body[a].at \notin Before \cup {"done"} /\ body'[a].fd = body[a].fd)
    PROVE  FilesMove(a)
  <1>1. content \in Seq(SUBSET (Blocks \cup Old)) /\ target \in 0..Len(content)
        /\ temp \in 0..Len(content)
    BY DEF Shape, TypeOK
  <1>2. Len(content) \in Nat BY <1>1, LenProperties
  <1> QED BY <1>1, <1>2 DEF FilesMove, Renames, files, Shape, Open
LEMMA RenameAnswersMoves ==
    ASSUME Shape, NEW a \in Tries, RenameAnswers(a)
    PROVE  /\ BodyMoves(a) /\ FilesMove(a) /\ body[a].at = "renaming" /\ Renames
           /\ body'[a].at = "done" \/ (body'[a].at = "closing" /\ body'[a].path = "stream")
  <1>1. body[a].at = "renaming" /\ Renames /\ Delivers(a) /\ option' = option
    BY DEF RenameAnswers
  <1>2. /\ BodyMoves(a)
        /\ \/ body'[a].at = "done"
           \/ /\ body'[a].at = "closing" /\ body'[a].fd = body[a].fd
              /\ body'[a].path = "stream"
    BY <1>1, DeliversMoves DEF Before, Settled
  <1>3. FilesMove(a) BY <1>1, <1>2, RenamesFiles DEF Before
  <1> QED BY <1>1, <1>2, <1>3
LEMMA RenameFailsMoves ==
    ASSUME Shape, NEW a \in Tries, RenameFails(a)
    PROVE  /\ BodyMoves(a) /\ FilesMove(a) /\ body[a].at = "renaming"
           /\ Renames \/ files' = files
           /\ \/ body'[a].at = "opening" /\ body'[a].put = {}
              \/ body'[a].at \in {"closing", "done"} /\ body'[a].verdict # "ok"
  <1>1. body[a].at = "renaming" /\ (Renames \/ files' = files) /\ option' = option
    BY DEF RenameFails, files
  <1>2. CASE body[a].path = "parallel"
    <2>1. Fails(a, "io") BY <1>2 DEF RenameFails
    <2>2. BodyMoves(a)
          /\ ((body'[a].at = "opening" /\ body'[a].put = {}) \/ (body'[a].at = "done" /\ body'[a].verdict # "ok"))
      BY <1>1, <2>1, FailsMoves DEF Settled, Verdicts
    <2>3. FilesMove(a) BY <1>1, <2>2, RenamesFiles DEF Before
    <2> QED BY <1>1, <2>2, <2>3
  <1>3. CASE body[a].path # "parallel"
    <2>1. GoesWith(a, "closing", "io") /\ task' = task BY <1>3 DEF RenameFails
    <2>2. BodyMoves(a) /\ body'[a].at = "closing" /\ body'[a].fd = body[a].fd
          /\ body'[a].verdict = "io"
      BY <1>1, <2>1, GoesOnWith DEF Before, Settled, Verdicts
    <2>3. FilesMove(a) BY <1>1, <2>2, RenamesFiles DEF Before
    <2> QED BY <1>1, <2>2, <2>3
  <1> QED BY <1>2, <1>3

LEMMA BodyStep ==
    ASSUME Shape, Order, NEW a \in Tries, Timed(a) \/ Untimed(a)
    PROVE  BodyMoves(a) /\ FilesMove(a)
  <1>1. CASE Timed(a)
    BY <1>1, ModeAnswersMoves, ChmodAnswersMoves, TimesAnswersMoves, UnlinkAnswersMoves,
       RenameAnswersMoves, RenameFailsMoves, OpenAnswersMoves, OpenFailsMoves,
       CloseAnswersMoves DEF Timed
  <1>2. CASE Untimed(a)
    BY <1>2, ChunkLandsMoves, ChunkFailsMoves, StreamMovesMoves, FlushedMoves,
       StreamFailsMoves, SourceFailsMoves, OpenAnswersMoves, OpenFailsMoves,
       CloseAnswersMoves DEF Untimed
  <1> QED BY <1>1, <1>2

(* A step of a body keeps the types ...                                         *)
LEMMA BodyKeepsShape ==
    ASSUME Shape, NEW a \in Tries, BodyMoves(a), FilesMove(a)
    PROVE  Shape'
  <1>1. /\ option' \in Options /\ attempt' \in Tries /\ cancelled' \in BOOLEAN
        /\ dead' \subseteq Tries
    BY DEF Shape, TypeOK, BodyMoves
  <1>2. run' \in [Tries -> {"queued", "running", "skipped", "resolved", "failed", "stalled"}]
    BY DEF Shape, TypeOK, BodyMoves
  <1>3. timer' \in BOOLEAN BY DEF Shape, TypeOK, BodyMoves
  <1>4. handle' \in 0..Attempts BY DEF Shape, TypeOK, BodyMoves, Tries
  <1>5. body' \in [Tries -> BodyType] BY DEF Shape, TypeOK, BodyMoves
  <1>6. /\ content' \in Seq(SUBSET (Blocks \cup Old))
        /\ target' \in 0..Len(content') /\ temp' \in 0..Len(content')
    BY DEF FilesMove
  <1>7. TypeOK' BY <1>1, <1>2, <1>3, <1>4, <1>5, <1>6 DEF TypeOK, BodyType, Tries, Blocks, Old
  <1>8. ASSUME NEW c \in Tries PROVE Open(c)'
    <2>1. CASE c = a BY <2>1 DEF FilesMove, Open, Before
    <2>2. CASE c # a
      <3>1. body'[c] = body[c] BY <2>2 DEF BodyMoves, Shape, TypeOK
      <3>2. Len(content) \in Nat /\ Len(content') \in Nat
        BY <1>6, LenProperties DEF Shape, TypeOK
      <3> QED BY <3>1, <3>2 DEF FilesMove, Open, Shape, Before
    <2> QED BY <2>1, <2>2
  <1> QED BY <1>7, <1>8 DEF Shape, Tries

(* A body that still works is that of the current run or of one that stalled.   *)
LEMMA WhoWorks ==
    ASSUME RunAssumption, Shape, Order, OnlyStallsLinger,
           NEW a \in Tries, body[a].at \notin Settled
    PROVE  /\ run[a] \in {"running", "stalled"} /\ a <= attempt
           /\ run[a] = "running" => a = attempt
           /\ ~Stalled => a = attempt /\ run[a] = "running"
  <1>1. run[a] \in {"running", "stalled"} BY DEF OnlyStallsLinger, Settled
  <1>2. a \in Nat /\ attempt \in Nat BY DEF Shape, TypeOK, Tries, RunAssumption
  <1>3. a <= attempt BY <1>1, <1>2 DEF Order
  <1>4. run[a] = "running" => a = attempt BY <1>2, <1>3 DEF Order
  <1> QED BY <1>1, <1>3, <1>4 DEF Stalled

(* ... and the bookkeeping of the attempts.                                     *)
LEMMA BodyKeepsControl ==
    ASSUME RunAssumption, Shape, Control, NEW a \in Tries, BodyMoves(a)
    PROVE  Control'
  <1>1. /\ body[a].at \notin Settled /\ body'[a].at \notin {"idle", "mode"}
        /\ \A c \in Tries : c # a => body'[c] = body[c]
        /\ UNCHANGED <<option, attempt, cancelled, dead>>
    BY DEF BodyMoves, Shape, TypeOK
  <1>2. /\ run[a] \in {"running", "stalled"} /\ a <= attempt
        /\ run[a] = "running" => a = attempt
        /\ ~Stalled => a = attempt /\ run[a] = "running"
    BY <1>1, WhoWorks DEF Control
  <1>3. a \in Nat /\ attempt \in Nat BY DEF Shape, TypeOK, Tries, RunAssumption
  <1>4. /\ \A c \in Tries : c # a => run'[c] = run[c]
        /\ IF body'[a].at = "done" /\ run[a] = "running"
           THEN run'[a] \in {"resolved", "failed"} /\ timer' = FALSE
           ELSE run' = run
    BY DEF BodyMoves, Shape, TypeOK
  <1>5. Stalled' => Stalled BY <1>4 DEF Stalled
  <1>6. Stalled => Stalled'
    <2>1. ASSUME NEW c \in Tries, run[c] = "stalled" PROVE run'[c] = "stalled"
      BY <1>4, <2>1
    <2> QED BY <2>1 DEF Stalled, Tries
  <1>7. Order'
    <2>1. ASSUME NEW c \in Tries
          PROVE  /\ c > attempt => run'[c] = "queued"
                 /\ c < attempt => run'[c] \in {"failed", "stalled"}
                 /\ run'[c] \in {"queued", "skipped"} <=> body'[c].at = "idle"
                 /\ body'[c].at = "done" => run'[c] # "running"
                 /\ body'[c].at = "mode" => body'[c].path = "parallel"
      <3>1. CASE c = a BY <1>1, <1>2, <1>3, <1>4, <3>1
      <3>2. CASE c # a BY <1>1, <1>4, <3>2 DEF Control, Order
      <3> QED BY <3>1, <3>2
    <2> QED BY <1>1, <2>1 DEF Order, Tries
  <1>8. OnlyStallsLinger'
    <2>1. ASSUME NEW c \in Tries, body'[c].at \notin {"idle", "done"}
          PROVE  run'[c] \in {"running", "stalled"}
      <3>1. CASE c = a BY <1>2, <1>4, <2>1, <3>1
      <3>2. CASE c # a BY <1>1, <1>4, <2>1, <3>2 DEF Control, OnlyStallsLinger
      <3> QED BY <3>1, <3>2
    <2> QED BY <2>1 DEF OnlyStallsLinger, Tries
  <1>9. TimerIsCurrent'
    BY <1>1, <1>4 DEF BodyMoves, Control, TimerIsCurrent
  <1>10. Handled'
    <2> SUFFICES ASSUME ~Stalled', handle' # 0
                 PROVE  /\ handle' = attempt /\ body'[handle'].path = "stream"
                        /\ body'[handle'].at \notin Before
      BY <1>1 DEF Handled, Before
    <2>1. a = attempt BY <1>2, <1>6
    <2>2. CASE handle' = handle
      BY <1>6, <2>1, <2>2 DEF Control, Handled, BodyMoves
    <2>3. CASE handle' = a /\ body'[a].path = "stream" /\ body'[a].at \in {"chmod", "copying"}
      BY <2>1, <2>3 DEF Before
    <2> QED BY <2>2, <2>3 DEF BodyMoves
  <1>11. Watched'
    <2> SUFFICES ASSUME run'[attempt] = "running", ~cancelled, ~Stalled'
                 PROVE  timer' \/ (handle' # 0 /\ body'[handle'].stream \in Lost)
      BY <1>1 DEF Watched, SourceLost, Lost
    <2>1. a = attempt /\ run[a] = "running" BY <1>2, <1>6
    <2>2. timer' = timer \/ timer' = TRUE BY <1>4, <2>1 DEF BodyMoves
    <2>3. timer \/ (handle # 0 /\ body[handle].stream \in Lost)
      BY <1>6, <2>1 DEF Control, Watched, SourceLost, Lost
    <2>4. CASE timer BY <2>2, <2>4
    <2>5. CASE handle # 0 /\ body[handle].stream \in Lost
      <3>1. handle = a /\ body[a].path = "stream" /\ body[a].at \notin Before
        BY <1>6, <2>1, <2>5 DEF Control, Handled
      <3>2. handle' = a /\ body'[a].stream \in Lost
        BY <2>5, <3>1 DEF BodyMoves, Before
      <3>3. a # 0 BY DEF Tries
      <3> QED BY <3>2, <3>3
    <2> QED BY <2>3, <2>4, <2>5
  <1> QED BY <1>7, <1>8, <1>9, <1>10, <1>11 DEF Control

-------------------------------------------------------------------------------
(* An interrupted body is where it was, or closes what it was copying to.       *)
LEMMA InterruptedBody ==
    ASSUME Shape, body' = Interrupted, NEW c \in Tries
    PROVE  /\ body'[c] \in BodyType
           /\ body'[c].path = body[c].path /\ body'[c].fd = body[c].fd
           /\ body'[c].stream \in {body[c].stream, "spent"}
           /\ \/ body'[c].at = body[c].at /\ body'[c].verdict = body[c].verdict
                   /\ body'[c].put = body[c].put
              \/ body[c].at = "copying" /\ body'[c].at = "closing" /\ body'[c].verdict # "ok"
  <1> DEFINE q == [body[c] EXCEPT !.stream = "spent", !.at = "closing", !.verdict = "aborted"]
             r == [body[c] EXCEPT !.stream = "spent"]
             v == IF body[c].failed THEN "io" ELSE "aborted"
             s == [body[c] EXCEPT !.at = "closing", !.verdict = v]
  <1>1. body[c] \in BodyType BY DEF Shape, TypeOK
  <1>2. v \in {"io", "aborted"} OBVIOUS
  <1>3. q \in BodyType BY <1>1, Zenon DEF BodyType
  <1>4. r \in BodyType BY <1>1, Zenon DEF BodyType
  <1>5. body'[c] = IF c = handle
                   THEN (IF body[c].at = "copying" THEN q ELSE r)
                   ELSE (IF body[c].path = "parallel" /\ body[c].at = "copying"
                              /\ body[c].token = attempt
                         THEN s ELSE body[c])
    BY Zenon DEF Interrupted, Aborted, Unblocked
  <1> HIDE DEF v
  <1>6. s \in BodyType BY <1>1, <1>2, SetAtVerdict DEF Verdicts
  <1>7. /\ q.at = "closing" /\ q.verdict = "aborted" /\ q.path = body[c].path
        /\ q.fd = body[c].fd /\ q.stream = "spent"
        /\ r.at = body[c].at /\ r.verdict = body[c].verdict /\ r.path = body[c].path
        /\ r.fd = body[c].fd /\ r.stream = "spent" /\ r.put = body[c].put
    BY <1>1 DEF BodyType
  <1>8. s.at = "closing" /\ s.verdict = v /\ s.path = body[c].path
        /\ s.fd = body[c].fd /\ s.stream = body[c].stream
    BY <1>1 DEF BodyType
  <1> HIDE DEF q, r, s
  <1> QED BY <1>1, <1>2, <1>3, <1>4, <1>5, <1>6, <1>7, <1>8

LEMMA InterruptedShape ==
    ASSUME Shape, body' = Interrupted, SourceCancelled, files' = files,
           UNCHANGED <<option, attempt, handle>>, cancelled' \in BOOLEAN, timer' \in BOOLEAN,
           run' \in [Tries -> {"queued", "running", "skipped", "resolved", "failed", "stalled"}]
    PROVE  Shape'
  <1>1. body' \in [Tries -> BodyType]
    <2>1. \A c \in Tries : body'[c] \in BodyType BY InterruptedBody
    <2>2. body' = [c \in Tries |-> body'[c]] BY DEF Interrupted
    <2> QED BY <2>1, <2>2, Zenon
  <1>2. dead' \subseteq Tries BY DEF SourceCancelled, Shape, TypeOK
  <1>3. TypeOK'
    BY <1>1, <1>2 DEF Shape, TypeOK, files, BodyType, Tries, Blocks, Old
  <1>4. ASSUME NEW c \in Tries PROVE Open(c)'
    <2>1. /\ body'[c].fd = body[c].fd
          /\ body'[c].at = body[c].at \/ body[c].at = "copying"
      BY InterruptedBody
    <2> QED BY <2>1 DEF Open, Before, Shape, files
  <1> QED BY <1>3, <1>4 DEF Shape, Tries

LEMMA StartKeeps ==
    ASSUME RunAssumption, Shape, Control, Start
    PROVE  Shape' /\ Control'
  <1>1. /\ run[attempt] = "queued" /\ attempt \in Tries
        /\ UNCHANGED <<option, attempt, cancelled, handle, dead, files>>
    BY DEF Start, Shape, TypeOK
  <1>2. body[attempt].at = "idle" BY <1>1 DEF Control, Order
  <1>3. ~Stalled => handle = 0 BY <1>2 DEF Control, Handled, Before
  <1>4. ~timer BY <1>1 DEF Control, TimerIsCurrent
  <1>5. CASE cancelled
    <2>1. run' = [run EXCEPT ![attempt] = "skipped"] /\ timer' = timer /\ body' = body
      BY <1>5 DEF Start
    <2>2. TypeOK'
      BY <1>1, <2>1 DEF Shape, TypeOK, files, BodyType, Tries, Blocks, Old
    <2>3. Shape' BY <1>1, <2>1, <2>2 DEF Shape, Open, files, Before, Tries
    <2>4. /\ run'[attempt] = "skipped"
          /\ \A c \in Tries : c # attempt => run'[c] = run[c]
      BY <1>1, <2>1 DEF Shape, TypeOK
    <2>5. Stalled <=> Stalled'
      <3>1. \A c \in Tries : run[c] = "stalled" <=> run'[c] = "stalled" BY <1>1, <2>4
      <3> QED BY <3>1 DEF Stalled, Tries
    <2>6. Order' BY <1>1, <1>2, <2>1, <2>4 DEF Control, Order, Tries, RunAssumption
    <2>7. OnlyStallsLinger' BY <1>1, <1>2, <2>1, <2>4 DEF Control, OnlyStallsLinger, Tries
    <2> QED BY <1>1, <1>3, <1>4, <2>1, <2>3, <2>4, <2>5, <2>6, <2>7
            DEF Control, TimerIsCurrent, Handled, Watched
  <1>6. CASE ~cancelled
    <2> DEFINE p == [NotBegun EXCEPT !.at = "opening", !.stream = "fresh"]
               q == [NotBegun EXCEPT !.at = "mode", !.path = "parallel"]
               s == [NotBegun EXCEPT !.at = "opening", !.path = "parallel", !.token = attempt]
    <2>1. /\ run' = [run EXCEPT ![attempt] = "running"] /\ timer' = TRUE
          /\ Becomes(attempt, p) \/ Becomes(attempt, q) \/ Becomes(attempt, s)
      BY <1>6 DEF Start
    <2>2. attempt \in 0..Attempts BY <1>1 DEF Tries
    <2>3. NotBegun \in BodyType /\ p.at = "opening" /\ q.at = "mode" /\ q.path = "parallel"
      BY DEF BodyType, NotBegun, RunAssumption
    <2>4. p \in BodyType BY <2>3, Zenon DEF BodyType
    <2>5. q \in BodyType BY <2>3, Zenon DEF BodyType
    <2>6. s \in BodyType /\ s.at = "opening" BY <2>2 DEF BodyType, NotBegun
    <2> HIDE DEF p, q, s
    <2>7. /\ body' \in [Tries -> BodyType]
          /\ \/ body'[attempt].at = "opening"
             \/ body'[attempt].at = "mode" /\ body'[attempt].path = "parallel"
          /\ \A c \in Tries : c # attempt => body'[c] = body[c]
      BY <1>1, <2>1, <2>3, <2>6, <2>4, <2>5, Became
    <2>8. /\ run' \in [Tries -> {"queued", "running", "skipped", "resolved", "failed", "stalled"}]
          /\ run'[attempt] = "running"
          /\ \A c \in Tries : c # attempt => run'[c] = run[c]
      BY <1>1, <2>1 DEF Shape, TypeOK
    <2>9. TypeOK'
      BY <1>1, <2>1, <2>7, <2>8 DEF Shape, TypeOK, files, BodyType, Tries, Blocks, Old
    <2>10. ASSUME NEW c \in Tries PROVE Open(c)'
      <3>1. CASE c = attempt BY <2>7, <3>1 DEF Open, Before
      <3>2. CASE c # attempt BY <1>1, <2>7, <3>2 DEF Open, Before, Shape, files
      <3> QED BY <3>1, <3>2
    <2>11. Shape' BY <2>9, <2>10 DEF Shape, Tries
    <2>12. Stalled <=> Stalled'
      <3>1. \A c \in Tries : run[c] = "stalled" <=> run'[c] = "stalled" BY <1>1, <2>8
      <3> QED BY <3>1 DEF Stalled, Tries
    <2>13. Order' BY <1>1, <2>7, <2>8 DEF Control, Order, Tries, RunAssumption
    <2>14. OnlyStallsLinger' BY <1>1, <2>7, <2>8 DEF Control, OnlyStallsLinger, Tries
    <2> QED BY <1>1, <1>3, <2>1, <2>8, <2>11, <2>12, <2>13, <2>14
            DEF Control, TimerIsCurrent, Handled, Watched
  <1> QED BY <1>5, <1>6

LEMMA CancelKeeps ==
    ASSUME RunAssumption, Shape, Control, Cancel
    PROVE  Shape' /\ Control'
  <1>1. /\ cancelled' = TRUE /\ timer' = FALSE /\ body' = Interrupted /\ SourceCancelled
        /\ UNCHANGED <<option, attempt, run, handle, files>>
    BY DEF Cancel
  <1>2. Shape' BY <1>1, InterruptedShape DEF Shape, TypeOK, files
  <1>3. \A c \in Tries : /\ body'[c].path = body[c].path
                         /\ body'[c].at = body[c].at
                              \/ (body[c].at = "copying" /\ body'[c].at = "closing")
    BY <1>1, InterruptedBody
  <1>4. Order' BY <1>1, <1>3 DEF Control, Order, Tries
  <1>5. OnlyStallsLinger' BY <1>1, <1>3 DEF Control, OnlyStallsLinger, Tries
  <1>6. Handled' BY <1>1, <1>3 DEF Control, Handled, Stalled, Before, Shape, TypeOK, Tries
  <1> QED BY <1>1, <1>2, <1>4, <1>5, <1>6 DEF Control, TimerIsCurrent, Watched

LEMMA StallKeeps ==
    ASSUME RunAssumption, Shape, Control, Stall
    PROVE  Shape' /\ Control'
  <1>1. /\ timer' = FALSE /\ UNCHANGED <<option, attempt, cancelled, handle, files>>
        /\ run[attempt] = "running" /\ attempt \in Tries
    BY DEF Stall, Control, TimerIsCurrent, Shape, TypeOK
  <1>2. CASE AbortThrows
    <2>1. UNCHANGED <<run, body, dead>> BY <1>2 DEF Stall
    <2>2. TypeOK' BY <1>1, <2>1 DEF Shape, TypeOK, files, BodyType, Tries, Blocks, Old
    <2>3. Shape' BY <1>1, <2>1, <2>2 DEF Shape, Open, files, Before, Tries
    <2>4. SourceLost' BY <1>1, <1>2, <2>1 DEF AbortThrows, SourceLost
    <2> QED BY <1>1, <2>1, <2>3, <2>4
            DEF Control, Order, OnlyStallsLinger, TimerIsCurrent, Handled, Watched, Stalled,
                Before, Tries
  <1>3. CASE ~AbortThrows
    <2>1. run' = [run EXCEPT ![attempt] = "stalled"] /\ body' = Interrupted /\ SourceCancelled
      BY <1>3 DEF Stall
    <2>2. /\ run' \in [Tries -> {"queued", "running", "skipped", "resolved", "failed", "stalled"}]
          /\ run'[attempt] = "stalled"
          /\ \A c \in Tries : c # attempt => run'[c] = run[c]
      BY <1>1, <2>1 DEF Shape, TypeOK
    <2>3. Shape' BY <1>1, <2>1, <2>2, InterruptedShape DEF Shape, TypeOK, files
    <2>4. \A c \in Tries : /\ body'[c].path = body[c].path
                           /\ body'[c].at = body[c].at
                                \/ (body[c].at = "copying" /\ body'[c].at = "closing")
      BY <2>1, InterruptedBody
    <2>5. Stalled' BY <1>1, <2>2 DEF Stalled, Tries
    <2>6. Order' BY <1>1, <2>2, <2>4 DEF Control, Order, Tries, RunAssumption
    <2>7. OnlyStallsLinger' BY <1>1, <2>2, <2>4 DEF Control, OnlyStallsLinger, Tries
    <2> QED BY <1>1, <2>3, <2>5, <2>6, <2>7 DEF Control, TimerIsCurrent, Handled, Watched
  <1> QED BY <1>2, <1>3

LEMMA RetryKeeps ==
    ASSUME RunAssumption, Shape, Control, Retry
    PROVE  Shape' /\ Control'
  <1>1. /\ run[attempt] \in {"failed", "stalled"} /\ attempt < Attempts
        /\ attempt' = attempt + 1 /\ handle' = 0
        /\ UNCHANGED <<option, run, cancelled, timer, dead, body, files>>
    BY DEF Retry
  <1>2. attempt \in Tries /\ attempt + 1 \in Tries /\ attempt + 1 > attempt
    BY <1>1 DEF Shape, TypeOK, Tries, RunAssumption
  <1>3. run[attempt + 1] = "queued" BY <1>2 DEF Control, Order
  <1>4. ~timer BY <1>1 DEF Control, TimerIsCurrent
  <1>5. TypeOK'
    BY <1>1, <1>2, RunAssumption DEF Shape, TypeOK, files, BodyType, Tries, Blocks, Old
  <1>6. Shape' BY <1>1, <1>5 DEF Shape, Open, files, Before, Tries
  <1>7. Order'
    <2>1. ASSUME NEW c \in Tries
          PROVE  /\ c > attempt + 1 => run[c] = "queued"
                 /\ c < attempt + 1 => run[c] \in {"failed", "stalled"}
      BY <1>1, <1>2 DEF Control, Order, Tries, RunAssumption
    <2> QED BY <1>1, <2>1 DEF Control, Order, Tries
  <1> QED BY <1>1, <1>3, <1>4, <1>6, <1>7
          DEF Control, OnlyStallsLinger, TimerIsCurrent, Handled, Watched, Tries

-------------------------------------------------------------------------------
LEMMA InitHolds ==
    ASSUME RunAssumption, Init
    PROVE  Shape /\ Control
  <1>1. NotBegun \in BodyType /\ NotBegun.at = "idle"
    BY DEF BodyType, NotBegun, RunAssumption
  <1>2. \A c \in Tries : body[c] = NotBegun /\ run[c] = "queued" BY DEF Init
  <1>3. 1 \in Tries BY RunAssumption DEF Tries
  <1>4. content \in Seq(SUBSET (Blocks \cup Old)) /\ Len(content) = 1 BY DEF Init
  <1>5. TypeOK
    <2>1. body \in [Tries -> BodyType] BY <1>1 DEF Init
    <2>2. /\ option \in Options /\ attempt \in Tries /\ cancelled \in BOOLEAN
          /\ timer \in BOOLEAN /\ dead \subseteq Tries
          /\ run \in [Tries -> {"queued", "running", "skipped", "resolved", "failed", "stalled"}]
      BY <1>3 DEF Init
    <2>4. handle \in 0..Attempts BY RunAssumption DEF Init, RunAssumption
    <2>3. target \in 0..Len(content) /\ temp \in 0..Len(content) BY <1>4 DEF Init
    <2> QED BY <1>4, <2>1, <2>2, <2>3, <2>4 DEF TypeOK
  <1>6. Shape BY <1>1, <1>2, <1>5 DEF Shape, Open, Before
  <1>7. \A c \in Tries : ~(c < attempt) BY DEF Init, Tries
  <1> QED BY <1>1, <1>2, <1>3, <1>6, <1>7
          DEF Init, Control, Order, OnlyStallsLinger, TimerIsCurrent, Handled, Watched

LEMMA NextKeeps ==
    ASSUME RunAssumption, Shape, Control, [Next]_vars
    PROVE  Shape' /\ Control'
  <1>1. ASSUME NEW a \in Tries, Timed(a) \/ Untimed(a) PROVE Shape' /\ Control'
    BY <1>1, BodyStep, BodyKeepsShape, BodyKeepsControl DEF Control
  <1>2. CASE UNCHANGED vars
    <2>1. UNCHANGED <<option, attempt, run, cancelled, handle, timer, dead, body,
                      content, target, temp>>
      BY <1>2 DEF vars, task, files
    <2>2. TypeOK' BY <2>1 DEF Shape, TypeOK, BodyType, Tries, Blocks, Old
    <2>3. Shape' BY <2>1, <2>2 DEF Shape, Open, Before, Tries
    <2> QED BY <2>1, <2>3
            DEF Control, Order, OnlyStallsLinger, TimerIsCurrent, Handled, Watched,
                Stalled, SourceLost, Before, Tries
  <1> QED BY <1>1, <1>2, StartKeeps, CancelKeeps, StallKeeps, RetryKeeps DEF Next

-------------------------------------------------------------------------------
(* The files, as long as the current body has them for itself.                  *)
Alone(a) == Shape /\ Bytes(body[a]) /\ Place

(* A step that touches no file keeps the target whole.                          *)
LEMMA PlaceKept ==
    ASSUME Place, files' = files, option' = option
    PROVE  Place'
  BY DEF Place, files

(* Opening empties the upload file, never the target of a temporary one.        *)
LEMMA PlaceOpened ==
    ASSUME Shape, Place, NEW i \in 1..(Len(content) + 1), OpenTruncates(i), option' = option
    PROVE  Place' /\ (IsUpload(i))' /\ content'[i] = {}
  <1>1. /\ content \in Seq(SUBSET (Blocks \cup Old)) /\ target \in 0..Len(content)
        /\ temp \in 0..Len(content)
    BY DEF Shape, TypeOK
  <1>2. Len(content) \in Nat BY <1>1, LenProperties
  <1>3. /\ content'[i] = {} /\ i = IF option.temp THEN temp' ELSE target'
        /\ \A j \in 1..Len(content) : j # i => content'[j] = content[j]
        /\ option.temp => target' = target /\ (i = temp \/ i = Len(content) + 1)
    BY OpenedFile
  <1>4. (IsUpload(i))' BY <1>2, <1>3 DEF IsUpload, UploadInode
  <1>5. Place'
    <2> SUFFICES ASSUME option.temp
                 PROVE  /\ target' # 0 => content'[target'] \in {Old, Blocks}
                        /\ target' = 0 => ~option.atomic
                        /\ temp' # 0 => temp' # target'
      BY DEF Place, Old, Blocks
    <2>1. target' = target /\ temp' = i /\ target # i
      BY <1>1, <1>2, <1>3 DEF Place
    <2>2. target # 0 => content'[target] = content[target] BY <1>1, <1>2, <1>3, <2>1
    <2> QED BY <2>1, <2>2 DEF Place
  <1> QED BY <1>3, <1>4, <1>5

(* A block lands in the upload file, never in the target of a temporary one.    *)
LEMMA PlaceLanded ==
    ASSUME NEW a \in Tries, Alone(a), body[a].at = "copying", NEW b \in Blocks, Lands(a, b),
           UNCHANGED <<option, target, temp>>
    PROVE  /\ Place' /\ body[a].fd # 0 /\ body[a].fd = UploadInode'
           /\ body[a].put \cup {b} \subseteq content'[body[a].fd]
           /\ content'[body[a].fd] \subseteq Blocks
  <1> DEFINE i == body[a].fd
  <1>1. /\ i \in 1..Len(content) /\ content'[i] = content[i] \cup {b}
        /\ \A j \in 1..Len(content) : j # i => content'[j] = content[j]
    BY LandedBlock DEF Alone
  <1>2. IsUpload(i) /\ body[a].put \subseteq content[i] /\ content[i] \subseteq Blocks
    BY DEF Alone, Bytes
  <1>3. target \in 0..Len(content) /\ temp \in 0..Len(content) BY DEF Alone, Shape, TypeOK
  <1> HIDE DEF i
  <1>4. i # 0 /\ i = UploadInode' BY <1>2 DEF IsUpload, UploadInode
  <1>5. Place'
    <2> SUFFICES ASSUME option.temp
                 PROVE  /\ target # 0 => content'[target] \in {Old, Blocks}
                        /\ target = 0 => ~option.atomic
                        /\ temp # 0 => temp # target
      BY DEF Place, Old, Blocks
    <2>1. i = temp /\ target # i BY <1>2 DEF IsUpload, UploadInode, Alone, Place
    <2>2. target # 0 => content'[target] = content[target] BY <1>1, <1>3, <2>1
    <2> QED BY <2>2 DEF Alone, Place
  <1> QED BY <1>1, <1>2, <1>4, <1>5 DEF i

(* Each step of that body keeps the bytes where they belong.                    *)
LEMMA OpensKeepBytes ==
    ASSUME NEW a \in Tries, Alone(a), Order, option' = option,
           ModeAnswers(a) \/ OpenAnswers(a) \/ OpenFails(a) \/ ChmodAnswers(a) \/ SourceFails(a)
    PROVE  (Bytes(body[a]))' /\ Place'
  <1>1. CASE ModeAnswers(a)
    BY <1>1, ModeAnswersMoves, PlaceKept DEF Alone, Bytes, Written, Placed
  <1>2. CASE OpenAnswers(a)
    <2>1. /\ body[a].at = "opening"
          /\ body'[a].at \in {"chmod", "copying"}
               \/ (body'[a].at = "closing" /\ body'[a].verdict = "aborted")
      BY <1>2, OpenAnswersMoves DEF Alone
    <2>2. PICK i \in 1..(Len(content) + 1) :
            OpenTruncates(i) /\ body'[a].fd = i /\ body'[a].put = body[a].put
      BY <1>2, OpenAnswersMoves DEF Alone
    <2>3. Place' /\ (IsUpload(i))' /\ content'[i] = {} BY <2>2, PlaceOpened DEF Alone
    <2>4. body'[a].put = {} BY <2>1, <2>2 DEF Alone, Bytes
    <2> QED BY <2>1, <2>2, <2>3, <2>4 DEF Bytes, Written, Placed, IsUpload
  <1>3. CASE OpenFails(a)
    <2>1. /\ \/ body'[a].at = "opening" /\ body'[a].put = {}
             \/ body'[a].at = "done" /\ body'[a].verdict # "ok"
          /\ files' = files \/ \E i \in 1..(Len(content) + 1) : OpenTruncates(i)
      BY <1>3, OpenFailsMoves DEF Alone
    <2>2. Place' BY <2>1, PlaceKept, PlaceOpened DEF Alone
    <2> QED BY <2>1, <2>2 DEF Bytes, Written, Placed
  <1>4. CASE ChmodAnswers(a)
    <2>1. /\ body[a].at = "chmod" /\ body'[a].fd = body[a].fd
          /\ body'[a].put = body[a].put /\ files' = files
          /\ body'[a].at = "copying"
               \/ (body'[a].at = "closing" /\ body'[a].verdict = "aborted")
      BY <1>4, ChmodAnswersMoves DEF Alone
    <2> QED BY <2>1, PlaceKept DEF Alone, Bytes, Written, Placed, IsUpload, UploadInode, files
  <1>5. CASE SourceFails(a)
    <2>1. /\ files' = files
          /\ \/ /\ body[a].at \in {"opening", "chmod"} /\ body'[a].at = body[a].at
                /\ body'[a].fd = body[a].fd /\ body'[a].put = body[a].put
             \/ body[a].at = "copying" /\ body'[a].at = "closing" /\ body'[a].verdict = "io"
      BY <1>5, SourceFailsMoves DEF Alone
    <2> QED BY <2>1, PlaceKept DEF Alone, Bytes, Written, Placed, IsUpload, UploadInode, files
  <1> QED BY <1>1, <1>2, <1>3, <1>4, <1>5

LEMMA CopiesKeepBytes ==
    ASSUME NEW a \in Tries, Alone(a), option' = option,
           \/ \E b \in Blocks : ChunkLands(a, b)
           \/ ChunkFails(a) \/ StreamMoves(a) \/ Flushed(a) \/ StreamFails(a)
    PROVE  (Bytes(body[a]))' /\ Place'
  <1>1. ASSUME NEW b \in Blocks, ChunkLands(a, b) PROVE (Bytes(body[a]))' /\ Place'
    <2>1. /\ body[a].at = "copying" /\ Lands(a, b)
          /\ body'[a].fd = body[a].fd /\ body'[a].put = body[a].put \cup {b}
          /\ body'[a].at = "copying"
               \/ (/\ body'[a].at = "closing"
                   /\ body'[a].verdict = "ok" => body'[a].put = Blocks)
      BY <1>1, ChunkLandsMoves DEF Alone
    <2>2. UNCHANGED <<option, target, temp>> /\ body'[a].path = "parallel"
      BY <1>1, ChunkLandsMoves DEF ChunkLands, Alone
    <2>3. /\ Place' /\ body[a].fd # 0 /\ body[a].fd = UploadInode'
          /\ body'[a].put \subseteq content'[body[a].fd]
          /\ content'[body[a].fd] \subseteq Blocks
      BY <2>1, <2>2, PlaceLanded
    <2> QED BY <2>1, <2>2, <2>3 DEF Bytes, Written, Placed, IsUpload
  <1>2. CASE StreamMoves(a)
    <2>1. /\ body[a].at = "copying" /\ body'[a].at = "copying" /\ body'[a].fd = body[a].fd
          /\ UNCHANGED <<option, target, temp>>
      BY <1>2, StreamMovesMoves DEF Alone, StreamMoves
    <2>2. PICK b \in Blocks : Lands(a, b) /\ body'[a].put = body[a].put \cup {b}
      BY <1>2, StreamMovesMoves DEF Alone
    <2>3. /\ Place' /\ body[a].fd # 0 /\ body[a].fd = UploadInode'
          /\ body'[a].put \subseteq content'[body[a].fd]
          /\ content'[body[a].fd] \subseteq Blocks
      BY <2>1, <2>2, PlaceLanded
    <2> QED BY <2>1, <2>2, <2>3 DEF Bytes, Written, Placed, IsUpload
  <1>3. CASE ChunkFails(a)
    <2>1. /\ files' = files /\ body[a].at = "copying"
          /\ \/ /\ body'[a].at = "copying" /\ body'[a].fd = body[a].fd
                /\ body'[a].put = body[a].put
             \/ body'[a].at = "closing" /\ body'[a].verdict = "io"
      BY <1>3, ChunkFailsMoves DEF Alone
    <2> QED BY <2>1, PlaceKept DEF Alone, Bytes, Written, Placed, IsUpload, UploadInode, files
  <1>4. CASE Flushed(a)
    <2>1. /\ files' = files /\ body[a].at = "copying" /\ body[a].put = Blocks
          /\ body'[a].at = "times" /\ body'[a].fd = body[a].fd
      BY <1>4, FlushedMoves DEF Alone
    <2>2. IsUpload(body[a].fd) /\ content[body[a].fd] = Blocks BY <2>1 DEF Alone, Bytes
    <2> QED BY <2>1, <2>2, PlaceKept
            DEF Alone, Bytes, Written, Placed, IsUpload, UploadInode, files
  <1>5. CASE StreamFails(a)
    BY <1>5, StreamFailsMoves, PlaceKept DEF Alone, Bytes, Written, Placed
  <1> QED BY <1>1, <1>2, <1>3, <1>4, <1>5

LEMMA DeliveriesKeepBytes ==
    ASSUME NEW a \in Tries, Alone(a), option' = option,
           \/ CloseAnswers(a) \/ TimesAnswers(a) \/ UnlinkAnswers(a)
           \/ RenameAnswers(a) \/ RenameFails(a)
    PROVE  (Bytes(body[a]))' /\ Place'
  <1> USE DEF Alone
  <1>1. CASE CloseAnswers(a)
    <2>1. /\ files' = files /\ body[a].at = "closing"
          /\ \/ /\ body'[a].at = "times" /\ body'[a].fd = body[a].fd
                /\ body[a].path = "parallel" /\ body[a].verdict = "ok"
             \/ body'[a].at = "opening" /\ body'[a].put = {}
             \/ /\ body'[a].at = "done"
                /\ body'[a].verdict = "ok" => body[a].path = "stream" /\ body[a].verdict = "ok"
      BY <1>1, CloseAnswersMoves
    <2>2. body[a].path = "parallel" /\ body[a].verdict = "ok" => Written(body[a])
      BY <2>1 DEF Written
    <2>3. body[a].path = "stream" /\ body[a].verdict = "ok" => Placed(body[a])
      BY <2>1 DEF Placed
    <2> QED BY <2>1, <2>2, <2>3, PlaceKept
            DEF Bytes, Written, Placed, IsUpload, UploadInode, files
  <1>2. CASE TimesAnswers(a)
    <2>1. /\ files' = files /\ body[a].at = "times"
          /\ IF option.temp
             THEN /\ body'[a].fd = body[a].fd
                  /\ body'[a].at = IF option.atomic THEN "renaming" ELSE "unlinking"
             ELSE body'[a].at = "done" \/ (body'[a].at = "closing" /\ body'[a].path = "stream")
      BY <1>2, TimesAnswersMoves
    <2>2. IsUpload(body[a].fd) /\ content[body[a].fd] = Blocks BY <2>1 DEF Bytes, Written
    <2> QED BY <2>1, <2>2, PlaceKept
            DEF Bytes, Written, Placed, IsUpload, UploadInode, files
  <1>3. CASE UnlinkAnswers(a)
    <2>1. /\ body[a].at = "unlinking" /\ content' = content /\ temp' = temp
          /\ target' \in {0, target} /\ body'[a].at = "renaming" /\ body'[a].fd = body[a].fd
      BY <1>3, UnlinkAnswersMoves
    <2>2. /\ IsUpload(body[a].fd) /\ content[body[a].fd] = Blocks
          /\ option.temp /\ ~option.atomic
      BY <2>1 DEF Bytes, Written
    <2>3. Place' BY <2>1, <2>2 DEF Place, Old, Blocks
    <2> QED BY <2>1, <2>2, <2>3 DEF Bytes, Written, Placed, IsUpload, UploadInode
  <1>4. CASE RenameAnswers(a)
    <2>1. /\ body[a].at = "renaming" /\ Renames
          /\ body'[a].at = "done" \/ (body'[a].at = "closing" /\ body'[a].path = "stream")
      BY <1>4, RenameAnswersMoves
    <2>2. option.temp /\ IsUpload(body[a].fd) /\ content[body[a].fd] = Blocks
      BY <2>1 DEF Bytes, Written
    <2>3. target' # 0 /\ content'[target'] = Blocks /\ temp' = 0
      BY <2>1, <2>2 DEF Renames, IsUpload, UploadInode
    <2>4. Place' BY <2>3 DEF Place, Old, Blocks
    <2> QED BY <2>1, <2>3, <2>4 DEF Bytes, Written, Placed
  <1>5. CASE RenameFails(a)
    <2>1. /\ body[a].at = "renaming" /\ (Renames \/ files' = files)
          /\ \/ body'[a].at = "opening" /\ body'[a].put = {}
             \/ body'[a].at \in {"closing", "done"} /\ body'[a].verdict # "ok"
      BY <1>5, RenameFailsMoves
    <2>2. option.temp /\ IsUpload(body[a].fd) /\ content[body[a].fd] = Blocks
      BY <2>1 DEF Bytes, Written
    <2>3. Place'
      <3>1. CASE Renames
        <4>1. target' # 0 /\ content'[target'] = Blocks /\ temp' = 0
          BY <2>2, <3>1 DEF Renames, IsUpload, UploadInode
        <4> QED BY <4>1 DEF Place, Old, Blocks
      <3> QED BY <2>1, <3>1, PlaceKept
    <2> QED BY <2>1, <2>3 DEF Bytes, Written, Placed
  <1> QED BY <1>1, <1>2, <1>3, <1>4, <1>5

LEMMA BodyKeepsData ==
    ASSUME RunAssumption, Shape, Control, Data, NEW a \in Tries, Timed(a) \/ Untimed(a)
    PROVE  Data'
  <1> SUFFICES ASSUME ~Stalled'
               PROVE  /\ (Bytes(body[attempt]))' /\ Place'
                      /\ run'[attempt'] = "resolved" =>
                           body'[attempt'].at = "done" /\ body'[attempt'].verdict = "ok"
    BY DEF Data
  <1>1. BodyMoves(a) BY BodyStep DEF Control
  <1>2. body[a].at \notin Settled /\ attempt' = attempt /\ option' = option
    BY <1>1 DEF BodyMoves
  <1>3. ~Stalled
    <2>1. ASSUME NEW c \in Tries, run[c] = "stalled" PROVE run'[c] = "stalled"
      BY <1>1, <2>1 DEF BodyMoves, Shape, TypeOK
    <2> QED BY <2>1 DEF Stalled, Tries
  <1>4. a = attempt /\ run[a] = "running" BY <1>2, <1>3, WhoWorks DEF Control
  <1>5. Alone(a) BY <1>3, <1>4 DEF Alone, Data
  <1>6. (Bytes(body[a]))' /\ Place'
    BY <1>2, <1>5, OpensKeepBytes, CopiesKeepBytes, DeliveriesKeepBytes
    DEF Timed, Untimed, Control
  <1>7. run'[a] = "resolved" => body'[a].at = "done" /\ body'[a].verdict = "ok"
    BY <1>1, <1>4 DEF BodyMoves, Shape, TypeOK
  <1>8. (Bytes(body[attempt]))' BY <1>2, <1>4, <1>6
  <1> QED BY <1>2, <1>4, <1>6, <1>7, <1>8

LEMMA TaskKeepsData ==
    ASSUME RunAssumption, Shape, Control, Data, Start \/ Cancel \/ Stall \/ Retry
    PROVE  Data'
  <1> SUFFICES ASSUME ~Stalled'
               PROVE  /\ (Bytes(body[attempt]))' /\ Place'
                      /\ run'[attempt'] = "resolved" =>
                           body'[attempt'].at = "done" /\ body'[attempt'].verdict = "ok"
    BY DEF Data
  <1>1. attempt \in Tries BY DEF Shape, TypeOK
  <1>2. CASE Start
    <2>1. /\ run[attempt] = "queued" /\ run'[attempt] \in {"skipped", "running"}
          /\ \A c \in Tries : c # attempt => run'[c] = run[c]
          /\ attempt' = attempt /\ files' = files /\ option' = option
      BY <1>1, <1>2 DEF Start, Shape, TypeOK
    <2>2. ~Stalled
      <3>1. ASSUME NEW c \in Tries, run[c] = "stalled" PROVE run'[c] = "stalled"
        BY <2>1, <3>1
      <3> QED BY <3>1 DEF Stalled, Tries
    <2>3. Place' BY <2>1, <2>2, PlaceKept DEF Data
    <2>4. body[attempt].at = "idle" BY <1>1, <2>1 DEF Control, Order
    <2>5. \/ body'[attempt].at = "idle"
          \/ body'[attempt].at \in {"mode", "opening"} /\ body'[attempt].put = {}
      <3>1. CASE body' = body BY <2>4, <3>1
      <3>2. CASE body' # body
        <4> DEFINE
              p == [NotBegun EXCEPT !.at = "opening", !.stream = "fresh"]
              q == [NotBegun EXCEPT !.at = "mode", !.path = "parallel"]
              r == [NotBegun EXCEPT !.at = "opening", !.path = "parallel", !.token = attempt]
        <4>1. Becomes(attempt, p) \/ Becomes(attempt, q) \/ Becomes(attempt, r)
          BY <1>2, <3>2 DEF Start
        <4>2. /\ p.at = "opening" /\ p.put = {} /\ q.at = "mode" /\ q.put = {}
              /\ r.at = "opening" /\ r.put = {}
          BY DEF NotBegun
        <4> HIDE DEF p, q, r
        <4>3. body'[attempt] \in {p, q, r} BY <1>1, <4>1 DEF Becomes, Shape, TypeOK
        <4> QED BY <4>2, <4>3
      <3> QED BY <3>1, <3>2
    <2> QED BY <2>1, <2>3, <2>5 DEF Bytes, Written, Placed
  <1>3. CASE Cancel
    <2>1. UNCHANGED <<option, attempt, run, handle, files>> /\ body' = Interrupted
          /\ run[attempt] # "resolved"
      BY <1>3 DEF Cancel
    <2>2. ~Stalled BY <2>1 DEF Stalled, Tries
    <2>3. Bytes(body[attempt]) /\ Place BY <2>2 DEF Data
    <2>4. /\ body'[attempt].path = body[attempt].path /\ body'[attempt].fd = body[attempt].fd
          /\ \/ /\ body'[attempt].at = body[attempt].at
                /\ body'[attempt].verdict = body[attempt].verdict
                /\ body'[attempt].put = body[attempt].put
             \/ body'[attempt].at = "closing" /\ body'[attempt].verdict # "ok"
      BY <1>1, <2>1, InterruptedBody
    <2>5. (Bytes(body[attempt]))'
      BY <2>1, <2>3, <2>4 DEF Bytes, Written, Placed, IsUpload, UploadInode, files
    <2> QED BY <2>1, <2>3, <2>5, PlaceKept
  <1>4. CASE Stall
    <2>1. run[attempt] = "running" BY <1>4 DEF Stall, Control, TimerIsCurrent
    <2>2. AbortThrows
      <3>1. CASE ~AbortThrows
        <4>1. run'[attempt] = "stalled" BY <1>1, <1>4, <3>1 DEF Stall, Shape, TypeOK
        <4> QED BY <1>1, <4>1 DEF Stalled, Tries
      <3> QED BY <3>1
    <2>3. UNCHANGED <<option, attempt, run, body, files>> BY <1>4, <2>2 DEF Stall
    <2>4. ~Stalled BY <2>3 DEF Stalled, Tries
    <2>5. Bytes(body[attempt]) /\ Place BY <2>4 DEF Data
    <2>6. (Bytes(body[attempt]))'
      BY <2>3, <2>5 DEF Bytes, Written, Placed, IsUpload, UploadInode, files
    <2> QED BY <2>1, <2>3, <2>5, <2>6, PlaceKept
  <1>5. CASE Retry
    <2>1. /\ attempt < Attempts /\ attempt' = attempt + 1
          /\ UNCHANGED <<option, run, body, files>>
      BY <1>5 DEF Retry
    <2>2. attempt + 1 \in Tries /\ attempt + 1 > attempt
      BY <1>1, <2>1 DEF Tries, RunAssumption
    <2>3. run[attempt + 1] = "queued" /\ body[attempt + 1].at = "idle"
      BY <2>2 DEF Control, Order
    <2>4. ~Stalled BY <2>1 DEF Stalled, Tries
    <2>5. Place' BY <2>1, <2>4, PlaceKept DEF Data
    <2> QED BY <2>1, <2>3, <2>5 DEF Bytes, Written, Placed
  <1> QED BY <1>2, <1>3, <1>4, <1>5

(* All of it together.                                                          *)
LEMMA RunInvHolds == Spec => []RunInv
  <1>1. Init => RunInv
    <2> SUFFICES ASSUME Init PROVE RunInv OBVIOUS
    <2>1. Shape /\ Control BY InitHolds, RunAssumption
    <2>2. body[attempt].at = "idle" /\ run[attempt] = "queued"
      BY RunAssumption DEF Init, NotBegun, Tries, RunAssumption
    <2>3. target = 1 /\ content[1] = Old /\ temp = 0 BY DEF Init
    <2>4. Bytes(body[attempt]) BY <2>2 DEF Bytes, Written, Placed
    <2>5. Place BY <2>3 DEF Place
    <2> QED BY <2>1, <2>2, <2>4, <2>5 DEF RunInv, Data
  <1>2. RunInv /\ [Next]_vars => RunInv'
    <2> SUFFICES ASSUME RunInv, [Next]_vars PROVE RunInv' OBVIOUS
    <2> USE RunAssumption DEF RunInv
    <2>1. Shape' /\ Control' BY NextKeeps
    <2>2. ASSUME NEW a \in Tries, Timed(a) \/ Untimed(a) PROVE Data'
      BY <2>2, BodyKeepsData
    <2>3. ASSUME Start \/ Cancel \/ Stall \/ Retry PROVE Data'
      BY <2>3, TaskKeepsData
    <2>4. ASSUME UNCHANGED vars PROVE Data'
      <3>1. UNCHANGED <<option, attempt, run, body, files>>
        BY <2>4 DEF vars, task
      <3>2. Stalled' => Stalled BY <3>1 DEF Stalled, Tries
      <3>3. CASE Stalled' BY <3>3 DEF Data
      <3>4. CASE ~Stalled'
        <4>1. Bytes(body[attempt]) /\ Place
              /\ (run[attempt] = "resolved" =>
                    body[attempt].at = "done" /\ body[attempt].verdict = "ok")
          BY <3>1, <3>4 DEF Data, Stalled, Tries
        <4>2. (Bytes(body[attempt]))'
          BY <3>1, <4>1 DEF Bytes, Written, Placed, IsUpload, UploadInode, files
        <4> QED BY <3>1, <4>1, <4>2, PlaceKept DEF Data
      <3> QED BY <3>3, <3>4
    <2> QED BY <2>1, <2>2, <2>3, <2>4 DEF Next
  <1> QED BY <1>1, <1>2, PTL DEF Spec

-------------------------------------------------------------------------------
(* The state of a run keeps its types, whatever answers, fails or stalls.       *)
THEOREM RunTypes == Spec => []TypeOK
  <1>1. RunInv => TypeOK BY DEF RunInv, Shape
  <1> QED BY <1>1, RunInvHolds, PTL

(* The watchdog never fires on a run that is over or was never begun, although  *)
(* a body that outlived its run arms it at every progress report.               *)
THEOREM WatchdogIsCurrent == Spec => []TimerIsCurrent
  <1>1. RunInv => TimerIsCurrent BY DEF RunInv, Control
  <1> QED BY <1>1, RunInvHolds, PTL

(* A run is watched until it settles, unless its source has failed.             *)
THEOREM RunIsWatched == Spec => []Watched
  <1>1. RunInv => Watched BY DEF RunInv, Control
  <1> QED BY <1>1, RunInvHolds, PTL

(* Of the runs that are over only a stalled one has a body at work.             *)
THEOREM BodiesEnd == Spec => []OnlyStallsLinger
  <1>1. RunInv => OnlyStallsLinger BY DEF RunInv, Control
  <1> QED BY <1>1, RunInvHolds, PTL

(* A transfer that reports success has put the whole file at the target.        *)
THEOREM UploadDelivers == Spec => []Delivered
  <1>1. RunInv => Delivered
    <2> SUFFICES ASSUME RunInv, ~Stalled, NEW a \in Tries, run[a] = "resolved"
                 PROVE  target # 0 /\ content[target] = Blocks
      BY DEF Delivered
    <2>1. a = attempt
      <3>1. ~(a > attempt) /\ ~(a < attempt) BY DEF RunInv, Control, Order
      <3>2. a \in Nat /\ attempt \in Nat
        BY RunAssumption DEF RunInv, Shape, TypeOK, Tries, RunAssumption
      <3> QED BY <3>1, <3>2
    <2>2. Placed(body[attempt]) BY <2>1 DEF RunInv, Data, Placed
    <2> QED BY <2>2 DEF RunInv, Data, Bytes
  <1> QED BY <1>1, RunInvHolds, PTL

(* With a temporary file the target is the old file or the new one, never a part. *)
THEOREM TargetIsWhole == Spec => []NeverHalf
  <1>1. RunInv => NeverHalf BY DEF RunInv, Data, Place, NeverHalf
  <1> QED BY <1>1, RunInvHolds, PTL
================================================================================
