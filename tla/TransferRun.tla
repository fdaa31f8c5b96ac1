------------------------------ MODULE TransferRun ------------------------------
(***************************************************************************)
(* TransferTask.run: one upload, its stall watchdog, its cancellation, and   *)
(* the attempts the scheduler makes of it.                                  *)
(*                                                                         *)
(* An attempt runs a body (_run) under a watchdog (_withStallWatchdog).  The *)
(* body opens the upload target, moves the bytes (as parallel chunks, as one *)
(* stream, or as a stream after the chunks failed), sets the times, renames  *)
(* a temporary file into place.  When the watchdog fires the attempt is over *)
(* but its body is not: it still awaits its request, and acts on the answer, *)
(* beside the next attempt of the same task object.                         *)
(*                                                                         *)
(* A file is an inode holding the set of blocks written since it was last    *)
(* truncated; a write lands the right bytes (ParallelCopy!ByteFaithful).     *)
(***************************************************************************)
EXTENDS Integers, Sequences

CONSTANTS
    Attempts,      \* runs of the task: 1 + config.retry.attempts
    NumBlocks,     \* pieces the file is moved in
    Options        \* transfer options: [parallel, preserve, temp, atomic : BOOLEAN]

ASSUME RunAssumption ==
    /\ Attempts \in Nat \ {0}
    /\ NumBlocks \in Nat \ {0}
    /\ Options \subseteq [parallel : BOOLEAN, preserve : BOOLEAN,
                          temp : BOOLEAN, atomic : BOOLEAN]

Tries == 1..Attempts
Blocks == 1..NumBlocks
Old == {0}         \* what the target held before

VARIABLES
    option,
    attempt,       \* the current attempt; reset() begins a new one
    run,           \* per attempt, the promise of run()
    cancelled,     \* _cancelled
    handle,        \* _handle: the body whose source stream it is, 0 for none
    timer,         \* _stallTimer is armed
    dead,          \* attempts whose _cancelTokenSource was cancelled
    body,          \* per attempt, where _run is
    content,       \* the inodes
    target, temp   \* the inode at the target path and at its ".new", 0 for none

task == <<attempt, run, cancelled, handle, timer, dead>>
files == <<content, target, temp>>
vars == <<option, task, body, files>>

NotBegun == [at |-> "idle", path |-> "stream", fd |-> 0, put |-> {}, failed |-> FALSE,
             verdict |-> "none", stream |-> "none", token |-> 0]

Init ==
    /\ option \in Options
    /\ attempt = 1 /\ run = [a \in Tries |-> "queued"]
    /\ cancelled = FALSE /\ handle = 0 /\ timer = FALSE /\ dead = {}
    /\ body = [a \in Tries |-> NotBegun]
    /\ content = <<Old>> /\ target = 1 /\ temp = 0

-------------------------------------------------------------------------------
\* Mutant: the upload opens the target itself although a temporary file is asked for.
UploadsInPlace == target

\* The target, or the temporary file beside it.
UploadInode == IF option.temp THEN temp ELSE target

\* open(uploadTarget, 'w') at the server: truncates the file or creates it.
OpenTruncates(i) ==
    IF UploadInode # 0
    THEN /\ i = UploadInode
         /\ content' = [content EXCEPT ![i] = {}]
         /\ UNCHANGED <<target, temp>>
    ELSE /\ i = Len(content) + 1
         /\ content' = Append(content, {})
         /\ IF option.temp THEN temp' = i /\ UNCHANGED target
                           ELSE target' = i /\ UNCHANGED temp

Becomes(a, b) == body' = [body EXCEPT ![a] = b]

\* The body's promise settles, and with it the run if the watchdog has not.
Ends(a, verdict) ==
    /\ Becomes(a, [body[a] EXCEPT !.at = "done", !.verdict = verdict])
    /\ IF run[a] = "running"
       THEN /\ run' = [run EXCEPT ![a] = IF verdict = "ok" THEN "resolved" ELSE "failed"]
            /\ timer' = FALSE
       ELSE UNCHANGED <<run, timer>>
    /\ UNCHANGED <<attempt, cancelled, handle, dead>>

\* The streamed upload: the source is opened beside the target.
StartsStream(a) ==
    /\ Becomes(a, [NotBegun EXCEPT !.at = "opening", !.stream = "fresh",
                                   !.token = body[a].token])
    /\ UNCHANGED task

\* The catch of _run: a failure of the chunked upload that is neither a cancel
\* nor an abort is retried once as a stream.
Fails(a, verdict) ==
    IF body[a].path = "parallel" /\ ~cancelled /\ verdict # "aborted"
    THEN StartsStream(a)
    ELSE Ends(a, verdict)

Goes(a, to) == Becomes(a, [body[a] EXCEPT !.at = to])
GoesWith(a, to, verdict) == Becomes(a, [body[a] EXCEPT !.at = to, !.verdict = verdict])

\* run(): skipped if cancelled while it waited, else the watchdog is armed.
Start ==
    /\ run[attempt] = "queued"
    /\ IF cancelled
       THEN /\ run' = [run EXCEPT ![attempt] = "skipped"]
            /\ UNCHANGED <<timer, body>>
       ELSE /\ run' = [run EXCEPT ![attempt] = "running"]
            /\ timer' = TRUE
            /\ Becomes(attempt,
                  IF ~option.parallel
                  THEN [NotBegun EXCEPT !.at = "opening", !.stream = "fresh"]
                  ELSE IF option.preserve
                  THEN [NotBegun EXCEPT !.at = "mode", !.path = "parallel"]
                  ELSE [NotBegun EXCEPT !.at = "opening", !.path = "parallel",
                                        !.token = attempt])
    /\ UNCHANGED <<option, attempt, cancelled, handle, dead, files>>

\* perserveTargetMode: the target's mode is known, or the fallback is used; only
\* now is the token taken, from the source of whatever attempt is current.
ModeAnswers(a) ==
    /\ body[a].at = "mode"
    /\ Becomes(a, [body[a] EXCEPT !.at = "opening", !.token = attempt])
    /\ UNCHANGED <<option, task, files>>

\* pipe() and the 'error' listener: a source that has already failed stays mute.
Piped(stream) == IF stream = "fresh" THEN "piped" ELSE "mute"

\* The copy begins: the chunks unless their token is cancelled already, or the pipe.
CopyBegun(b) ==
    IF b.path = "stream" THEN [b EXCEPT !.at = "copying", !.stream = Piped(@)]
    ELSE IF b.token \in dead THEN [b EXCEPT !.at = "closing", !.verdict = "aborted"]
    ELSE [b EXCEPT !.at = "copying"]

\* The upload target is open, and a stream known to cancel().  The copy begins,
\* after an fchmod if there is a mode.
OpenAnswers(a) ==
    /\ body[a].at = "opening"
    /\ \E i \in 1..(Len(content) + 1) :
        /\ OpenTruncates(i)
        /\ \/ Becomes(a, [body[a] EXCEPT !.fd = i, !.at = "chmod"])
           \/ Becomes(a, CopyBegun([body[a] EXCEPT !.fd = i]))
    /\ handle' = IF body[a].path = "stream" THEN a ELSE handle
    /\ UNCHANGED <<option, attempt, run, cancelled, timer, dead>>

\* Refused, lost with the connection, or timed out: it may have truncated.
OpenFails(a) ==
    /\ body[a].at = "opening"
    /\ \/ UNCHANGED files
       \/ \E i \in 1..(Len(content) + 1) : OpenTruncates(i)
    /\ Fails(a, "io")
    /\ UNCHANGED option

ChmodAnswers(a) ==
    /\ body[a].at = "chmod"
    /\ Becomes(a, CopyBegun(body[a]))
    /\ UNCHANGED <<option, task, files>>

\* Mutant: _reportProgress stops the watchdog without arming it again.
ArmedOnce == timer' = FALSE

\* Mutant: it arms the watchdog although no run is watched.
ArmedAlways == timer' = TRUE

\* _reportProgress re-arms the watchdog of whatever attempt is running.
Rearmed == timer' = (timer \/ run[attempt] = "running")

Lands(a, b) == content' = [content EXCEPT ![body[a].fd] = @ \cup {b}]

\* A chunk lands.  The copy ends with the last chunk or, once one has failed,
\* when no other is in flight.
ChunkLands(a, b) ==
    /\ body[a].at = "copying" /\ body[a].path = "parallel"
    /\ b \notin body[a].put
    /\ Lands(a, b) /\ Rearmed
    /\ \/ /\ body[a].failed \/ body[a].put \cup {b} # Blocks
          /\ Becomes(a, [body[a] EXCEPT !.put = @ \cup {b}])
       \/ /\ body[a].failed \/ body[a].put \cup {b} = Blocks
          /\ Becomes(a, [body[a] EXCEPT !.put = @ \cup {b}, !.at = "closing",
                          !.verdict = IF body[a].failed THEN "io" ELSE "ok"])
    /\ UNCHANGED <<option, attempt, run, cancelled, handle, dead, target, temp>>
ChunkFails(a) ==
    /\ body[a].at = "copying" /\ body[a].path = "parallel"
    /\ body[a].put # Blocks
    /\ \/ Becomes(a, [body[a] EXCEPT !.failed = TRUE])
       \/ Becomes(a, [body[a] EXCEPT !.failed = TRUE, !.at = "closing", !.verdict = "io"])
    /\ UNCHANGED <<option, task, files>>

\* The stream moves its next block; ends once the server has acknowledged all;
\* its writer fails; its source fails, which nobody hears before put() listens.
StreamMoves(a) ==
    /\ body[a].at = "copying" /\ body[a].stream = "piped"
    /\ \E b \in Blocks \ body[a].put :
        /\ 1..(b - 1) \subseteq body[a].put
        /\ Lands(a, b)
        /\ Becomes(a, [body[a] EXCEPT !.put = @ \cup {b}])
    /\ Rearmed
    /\ UNCHANGED <<option, attempt, run, cancelled, handle, dead, target, temp>>

\* Mutant: the writer's 'finish' is taken for the end of the source.
FlushedEarly(a) ==
    /\ body[a].at = "copying" /\ body[a].stream = "piped"
    /\ body[a].put # {}
    /\ Goes(a, "times")
    /\ UNCHANGED <<option, task, files>>

Flushed(a) ==
    /\ body[a].at = "copying" /\ body[a].stream = "piped"
    /\ body[a].put = Blocks
    /\ Goes(a, "times")
    /\ UNCHANGED <<option, task, files>>
\* Mutant: the run is rejected before the handle is closed.
StreamFailsAtOnce(a) ==
    /\ body[a].at = "copying" /\ body[a].path = "stream"
    /\ GoesWith(a, "closing", "io")
    /\ run' = [run EXCEPT ![a] = IF @ = "running" THEN "failed" ELSE @]
    /\ timer' = (timer /\ run[a] # "running")
    /\ UNCHANGED <<option, attempt, cancelled, handle, dead, files>>

StreamFails(a) ==
    /\ body[a].at = "copying" /\ body[a].path = "stream"
    /\ GoesWith(a, "closing", "io")
    /\ UNCHANGED <<option, task, files>>
SourceFails(a) ==
    /\ body[a].stream \in {"fresh", "piped"} /\ body[a].put # Blocks
    /\ \/ /\ body[a].at \in {"opening", "chmod"}
          /\ Becomes(a, [body[a] EXCEPT !.stream = "spent"])
       \/ /\ body[a].at = "copying"
          /\ Becomes(a, [body[a] EXCEPT !.stream = "spent", !.at = "closing",
                                  !.verdict = "io"])
    /\ UNCHANGED <<option, task, files>>

\* The chunked upload closes its handles before anything else; a failed close
\* is swallowed.  The stream closes last, and a failed close is its failure.
CloseAnswers(a) ==
    /\ body[a].at = "closing"
    /\ IF body[a].path = "parallel"
       THEN IF body[a].verdict = "ok"
            THEN Goes(a, "times") /\ UNCHANGED task
            ELSE Fails(a, body[a].verdict)
       ELSE Ends(a, body[a].verdict) \/ Ends(a, "io")
    /\ UNCHANGED <<option, files>>

\* The last remote step of the body is done.
Delivers(a) ==
    IF body[a].path = "parallel" THEN Ends(a, "ok")
    ELSE GoesWith(a, "closing", "ok") /\ UNCHANGED task

\* futimes, whose failure is only logged; then the rename, if there is one.
TimesAnswers(a) ==
    /\ body[a].at = "times"
    /\ IF option.temp
       THEN Goes(a, IF option.atomic THEN "renaming" ELSE "unlinking") /\ UNCHANGED task
       ELSE Delivers(a)
    /\ UNCHANGED <<option, files>>

\* The old target is removed; a failure is ignored.
UnlinkAnswers(a) ==
    /\ body[a].at = "unlinking"
    /\ target' \in {0, target}
    /\ Goes(a, "renaming")
    /\ UNCHANGED <<option, task, content, temp>>

\* renameAtomic replaces the target, rename needs its path free.
Renames ==
    /\ temp # 0 /\ (option.atomic \/ target = 0)
    /\ target' = temp /\ temp' = 0
    /\ UNCHANGED content
RenameAnswers(a) ==
    /\ body[a].at = "renaming"
    /\ Renames /\ Delivers(a)
    /\ UNCHANGED option
RenameFails(a) ==
    /\ body[a].at = "renaming"
    /\ Renames \/ UNCHANGED files
    /\ IF body[a].path = "parallel" THEN Fails(a, "io")
       ELSE GoesWith(a, "closing", "io") /\ UNCHANGED task
    /\ UNCHANGED option

-------------------------------------------------------------------------------
\* abortReadableStream(_handle): the 'error' event ends a put() that listens,
\* and is the only one anybody listens to.
Aborted(b) ==
    IF b.at = "copying" THEN [b EXCEPT !.stream = "spent", !.at = "closing",
                                       !.verdict = "aborted"]
    ELSE [b EXCEPT !.stream = "spent"]

\* Cancelling the source of attempt t's token: every chunk in flight rejects.
Unblocked(b, t) ==
    IF b.path = "parallel" /\ b.at = "copying" /\ b.token = t
    THEN [b EXCEPT !.at = "closing", !.verdict = IF b.failed THEN "io" ELSE "aborted"]
    ELSE b

\* What cancel() and the watchdog do to the bodies.
Interrupted == [a \in Tries |->
    IF a = handle THEN Aborted(body[a]) ELSE Unblocked(body[a], attempt)]
SourceCancelled ==
    dead' = dead \cup (IF \E a \in Tries : body'[a].token = attempt THEN {attempt} ELSE {})

\* An 'error' event on a stream nobody listens to any more throws.
AbortThrows == handle # 0 /\ body[handle].stream = "spent"

\* cancel(): also of a task that waits for its retry.
Cancel ==
    /\ run[attempt] \in {"queued", "running"} /\ ~cancelled
    /\ cancelled' = TRUE /\ timer' = FALSE
    /\ body' = Interrupted /\ SourceCancelled
    /\ UNCHANGED <<option, attempt, run, handle, files>>

\* _onStall: aborts the stream, cancels the token, rejects the run.  It gets no
\* further than the abort if that throws.
Stall ==
    /\ timer
    /\ timer' = FALSE
    /\ IF AbortThrows
       THEN UNCHANGED <<run, body, dead>>
       ELSE /\ run' = [run EXCEPT ![attempt] = "stalled"]
            /\ body' = Interrupted /\ SourceCancelled
    /\ UNCHANGED <<option, attempt, cancelled, handle, files>>

\* Mutant: the retry budget is not checked.
RetryWithoutBudget ==
    /\ run[attempt] \in {"failed", "stalled"} /\ ~cancelled
    /\ attempt' = attempt + 1
    /\ handle' = 0
    /\ UNCHANGED <<option, run, cancelled, timer, dead, body, files>>

\* A failed or stalled run is retried, by the scheduler or the user: reset().
Retry ==
    /\ run[attempt] \in {"failed", "stalled"} /\ ~cancelled
    /\ attempt < Attempts
    /\ attempt' = attempt + 1
    /\ handle' = 0
    /\ UNCHANGED <<option, run, cancelled, timer, dead, body, files>>

-------------------------------------------------------------------------------
\* The requests that have a deadline (operationTimeout).
Timed(a) ==
    \/ ModeAnswers(a) \/ ChmodAnswers(a) \/ TimesAnswers(a)
    \/ UnlinkAnswers(a) \/ RenameAnswers(a) \/ RenameFails(a)
    \/ body[a].path = "stream" /\ (OpenAnswers(a) \/ OpenFails(a) \/ CloseAnswers(a))

\* Those that have none: the bytes, and the chunked upload's own open and close.
Untimed(a) ==
    \/ \E b \in Blocks : ChunkLands(a, b)
    \/ ChunkFails(a) \/ StreamMoves(a) \/ Flushed(a) \/ StreamFails(a) \/ SourceFails(a)
    \/ body[a].path = "parallel" /\ (OpenAnswers(a) \/ OpenFails(a) \/ CloseAnswers(a))

Next ==
    \/ Start \/ Cancel \/ Stall \/ Retry
    \/ \E a \in Tries : Timed(a) \/ Untimed(a)

Spec == Init /\ [][Next]_vars

\* Timers fire and timed requests answer; the server may fall silent otherwise.
FairSpec == Spec /\ WF_vars(Start) /\ WF_vars(Stall) /\ \A a \in Tries : WF_vars(Timed(a))

-------------------------------------------------------------------------------
BodyType ==
    [at : {"idle", "mode", "opening", "chmod", "copying", "times", "unlinking", "renaming",
           "closing", "done"},
     path : {"parallel", "stream"}, fd : Nat, put : SUBSET Blocks, failed : BOOLEAN,
     verdict : {"none", "ok", "io", "aborted"},
     stream : {"none", "fresh", "piped", "mute", "spent"}, token : 0..Attempts]

TypeOK ==
    /\ option \in Options
    /\ attempt \in Tries
    /\ run \in [Tries -> {"queued", "running", "skipped", "resolved", "failed", "stalled"}]
    /\ cancelled \in BOOLEAN /\ handle \in 0..Attempts /\ timer \in BOOLEAN
    /\ dead \subseteq Tries
    /\ body \in [Tries -> BodyType]
    /\ content \in Seq(SUBSET (Blocks \cup Old))
    /\ target \in 0..Len(content) /\ temp \in 0..Len(content)

Stalled == \E a \in Tries : run[a] = "stalled"

\* The whole file is at the target once run() resolves, whatever failed before,
\* and stays there; only the body of a stalled run can still take it away.
Delivered ==
    ~Stalled /\ (\E a \in Tries : run[a] = "resolved")
        => target # 0 /\ content[target] = Blocks

\* With a temporary file a reader of the target finds the old file or the new
\* one, never a part; with an atomic rename he always finds one of the two.
NeverHalf ==
    ~Stalled /\ option.temp =>
        /\ target # 0 => content[target] \in {Old, Blocks}
        /\ target = 0 => ~option.atomic

\* The source has failed when nobody listened, or its failure is spent: the next
\* abort throws, or already has.
SourceLost == handle # 0 /\ body[handle].stream \in {"spent", "mute"}

\* A run nobody cancelled is watched at every moment, whichever of its steps it
\* is in, unless its source has failed, or a body that outlived its own attempt
\* has put its stream in the place of this one's.
Watched ==
    run[attempt] = "running" /\ ~cancelled /\ ~Stalled => timer \/ SourceLost

\* The watchdog never fires on a run that is over or was never begun, however
\* late a body of an earlier attempt reports progress.
TimerIsCurrent == timer => run[attempt] = "running"

\* A run settles only when its body has, the handles it closes included: no
\* attempt but a stalled one leaves a body behind to meet the next.
OnlyStallsLinger ==
    \A a \in Tries : body[a].at \notin {"idle", "done"} => run[a] \in {"running", "stalled"}

\* With the watchdog on, a run settles although the server never answers again,
\* unless it is cancelled or its source has failed.
Settles ==
    \A a \in Tries : run[a] = "running" ~> run[a] # "running" \/ cancelled \/ SourceLost

\* The body of a stalled run makes no fresh attempt of its own.
NoFallbackAfterStall ==
    [][\A a \in Tries : run[a] = "stalled" /\ body[a].path = "parallel"
            => body'[a].path = "parallel"]_vars

\* The temporary file keeps a half-written file from the target's readers.
NeverHalfEver ==
    option.temp /\ target # 0 => content[target] \in {Old, Blocks}
===============================================================================
