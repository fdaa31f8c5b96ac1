-------------------------- MODULE TransferScheduling --------------------------
(***************************************************************************)
(* How one FileService runs its transfers.                                  *)
(*                                                                         *)
(* Every command (upload, download, sync, Retry Transfer) makes a batch: a   *)
(* local Scheduler that stays paused while the directory walk fills it and  *)
(* is started by run().  All batches of the service share one gate          *)
(* (TransferSchedulerGroup) that caps how many transfers run at once.  A    *)
(* failed transfer may wait out a backoff, reconnect, and be queued again;  *)
(* the user may cancel one transfer, stop one batch, or cancel everything.  *)
(*                                                                         *)
(* The program is single threaded.  An event (a callback of the network, a  *)
(* timer, a command) runs to completion together with the promise           *)
(* continuations it releases; these are the actions GateDone, Park and      *)
(* Report, and every other action waits until none of them is due (Settled).*)
(***************************************************************************)
EXTENDS Integers, Sequences, FiniteSets

CONSTANTS
    Tasks,        \* the TransferTask objects a walk may create
    MaxBatches,   \* bound: transfer schedulers created in one behaviour
    Limits,       \* values of the "concurrency" setting
    MaxRetries,   \* the "retry.attempts" setting
    Faults        \* which disturbances happen, a subset of AllFaults

AllFaults == {"cancelTask", "stop", "cancelAll", "walkFails", "reconnectFails"}
NoLimit == 0      \* undefined: no ceiling held back, no scheduler yet

ASSUME SchedulingAssumption ==
    /\ IsFiniteSet(Tasks)
    /\ MaxBatches \in Nat
    /\ Limits \subseteq Nat \ {0}
    /\ Limits # {}
    /\ MaxRetries \in Nat
    /\ Faults \subseteq AllFaults

\* Batches are numbered in the order they are created, which is the order of
\* FileService._transferSchedulers.
Batches == 1..MaxBatches

(* Where a task is: "local" in its batch's queue, "gate" in the gate's       *)
(* queue, "running" inside the gate, "settled" its ticket settled and the    *)
(* slot not yet free, "released" the slot free and onTaskDone not yet called,*)
(* "backoff"/"reconnect" in retryTimers, "reported" AFTER_TRANSFER emitted,  *)
(* "dropped" thrown away by scheduler.empty().                               *)
Places == {"new", "local", "gate", "running", "settled", "released",
           "backoff", "reconnect", "reported", "dropped"}
Stages == {"unborn", "walking", "running", "over"}
Results == {"ok", "retryable", "fatal"}
Rows == {"none", "queued", "transferring", "error"}

VARIABLES
    place, owner, result, attempts,      \* per task
    cancelled, ticketCancelled,          \* TransferTask._cancelled; the GateTicket's flag
    row,                                 \* the task's row in the Transfers view
    reports,                             \* history: AFTER_TRANSFERs since QUEUE_TRANSFER
    pendingTasks,                        \* FileService._pendingTransferTasks
    stage, limit, localQueue,            \* per batch
    stopped, ended,                      \* batches with isStopped; batches that called endBatch
    schedulers,                          \* FileService._transferSchedulers
    staleReconnects,                     \* reconnects still awaited by a stopped batch
    gateQueue, gateLimit, heldLimit      \* the shared gate, and _pendingConcurrency

taskVars == <<place, owner, result, attempts, cancelled, ticketCancelled,
              row, reports, pendingTasks>>
batchVars == <<stage, limit, localQueue, stopped, ended, schedulers, staleReconnects>>
gateVars == <<gateQueue, gateLimit, heldLimit>>
vars == <<taskVars, batchVars, gateVars>>

Init ==
    /\ place = [t \in Tasks |-> "new"]
    /\ owner = [t \in Tasks |-> 0]
    /\ result = [t \in Tasks |-> "ok"]
    /\ attempts = [t \in Tasks |-> 0]
    /\ cancelled = {} /\ ticketCancelled = {} /\ pendingTasks = {}
    /\ row = [t \in Tasks |-> "none"]
    /\ reports = [t \in Tasks |-> 0]
    /\ stage = [b \in Batches |-> "unborn"]
    /\ limit = [b \in Batches |-> NoLimit]
    /\ localQueue = [b \in Batches |-> <<>>]
    /\ stopped = {} /\ ended = {} /\ schedulers = {} /\ staleReconnects = {}
    /\ gateQueue = <<>> /\ gateLimit \in Limits /\ heldLimit = NoLimit

-------------------------------------------------------------------------------
(* Derived state. *)

TasksAt(S) == {t \in Tasks : place[t] \in S}
Occupied == TasksAt({"running", "settled"})                \* the gate's _pendingCount
InRetry(b, p) == {t \in Tasks : owner[t] = b /\ p[t] \in {"backoff", "reconnect"}}
LocalPending(b, p) ==                                      \* the batch's _pendingCount
    {t \in Tasks : owner[t] = b /\ p[t] \in {"gate", "running", "settled", "released"}}
ActiveBatches == {b \in Batches : stage[b] # "unborn" /\ b \notin ended}
Settled == TasksAt({"settled", "released"}) = {}
RangeOf(s) == {s[i] : i \in DOMAIN s}
Smaller(m, n) == IF m <= n THEN m ELSE n
Larger(m, n) == IF m <= n THEN n ELSE m

-------------------------------------------------------------------------------
(* Scheduler.add / Scheduler.start on the gate: of the tickets ts, in order,  *)
(* as many are admitted as the ceiling leaves room for; the rest wait.        *)

Admitted(ts, ceiling) ==
    SubSeq(ts, 1, Smaller(Len(ts), Larger(0, ceiling - Cardinality(Occupied))))

Waiting(ts, ceiling) == SubSeq(ts, Len(Admitted(ts, ceiling)) + 1, Len(ts))

\* Mutant: neither the ticket's nor the task's cancelled flag is looked at.
EntersAsIfFresh(t) == "running"

\* TransferTask.run returns at once when the task was cancelled while queued.
EntersAs(t) == IF t \in cancelled \cup ticketCancelled THEN "settled" ELSE "running"

\* queueTask's run: onTaskStart, then schedule() through the gate.  p and r are
\* the places and rows before; BEFORE_TRANSFER marks the row "transferring".
PlacesAfter(p, ts, ceiling) ==
    [t \in Tasks |-> IF t \in RangeOf(Admitted(ts, ceiling)) THEN EntersAs(t)
                     ELSE IF t \in RangeOf(ts) THEN "gate" ELSE p[t]]
RowsAfter(r, ts, ceiling) ==
    [t \in Tasks |-> IF t \in RangeOf(Admitted(ts, ceiling)) THEN "transferring" ELSE r[t]]

Dispatch(p, r, ts, ceiling) ==
    /\ place' = PlacesAfter(p, ts, ceiling)
    /\ row' = RowsAfter(r, ts, ceiling)
    /\ result' = [t \in Tasks |-> IF t \in RangeOf(ts) THEN "ok" ELSE result[t]]
    /\ gateQueue' = gateQueue \o Waiting(ts, ceiling)

\* TransferSchedulerGroup.setConcurrency.
CeilingFor(c) == IF ActiveBatches = {} THEN c ELSE gateLimit
HeldFor(c) == IF ActiveBatches = {} THEN heldLimit ELSE c

\* Mutants: the held ceiling is applied when any batch ends; or never.
AnyToEnd(S) == S # {}

\* The function beginBatch returns, called by every batch of S.
LastToEnd(S) == S # {} /\ ActiveBatches \subseteq S
EndBatch(S) ==
    /\ ended' = ended \cup S
    /\ IF LastToEnd(S) /\ heldLimit # NoLimit
       THEN gateLimit' = heldLimit /\ heldLimit' = NoLimit
       ELSE UNCHANGED <<gateLimit, heldLimit>>

\* finishRun: settles run() unless a task of the batch sits in retryTimers.
CanFinish(b, p) == stage[b] = "running" /\ InRetry(b, p) = {}
Finish(S) ==
    /\ stage' = [b \in Batches |-> IF b \in S THEN "over" ELSE stage[b]]
    /\ EndBatch(S)
FinishRun(b, p) ==
    LET S == IF CanFinish(b, p) THEN {b} ELSE {}
    IN  Finish(S) /\ schedulers' = schedulers \ S

-------------------------------------------------------------------------------
(* A batch is created, filled by its walk, and run. *)

\* createTransferScheduler by a file handler.
CreateBatch(b, c) ==
    /\ Settled
    /\ stage[b] = "unborn" /\ \A a \in 1..(b - 1) : stage[a] # "unborn"
    /\ stage' = [stage EXCEPT ![b] = "walking"]
    /\ limit' = [limit EXCEPT ![b] = c]
    /\ schedulers' = schedulers \cup {b}
    /\ gateLimit' = CeilingFor(c) /\ heldLimit' = HeldFor(c)
    /\ UNCHANGED <<taskVars, localQueue, stopped, ended, staleReconnects, gateQueue>>

\* add(): the walk found a file.  After stop() it is a no-op.
AddTask(b, t) ==
    /\ Settled
    /\ stage[b] = "walking" /\ b \notin stopped
    /\ place[t] = "new"
    /\ place' = [place EXCEPT ![t] = "local"]
    /\ owner' = [owner EXCEPT ![t] = b]
    /\ row' = [row EXCEPT ![t] = "queued"]
    /\ localQueue' = [localQueue EXCEPT ![b] = Append(@, t)]
    /\ UNCHANGED <<result, attempts, cancelled, ticketCancelled, reports, pendingTasks,
                   stage, limit, stopped, ended, schedulers, staleReconnects, gateVars>>

\* run() with work: start() dispatches up to the batch's own concurrency.
RunBatch(b) ==
    LET n == Smaller(limit[b], Len(localQueue[b]))
        ts == SubSeq(localQueue[b], 1, n)
    IN  /\ Settled
        /\ stage[b] = "walking" /\ b \notin stopped /\ localQueue[b] # <<>>
        /\ stage' = [stage EXCEPT ![b] = "running"]
        /\ localQueue' = [localQueue EXCEPT ![b] = SubSeq(@, n + 1, Len(@))]
        /\ pendingTasks' = pendingTasks \cup RangeOf(ts)
        /\ Dispatch(place, row, ts, gateLimit)
        /\ UNCHANGED <<owner, attempts, cancelled, ticketCancelled, reports, limit,
                       stopped, ended, schedulers, staleReconnects, gateLimit, heldLimit>>

\* run() with nothing queued: nothing to do, the batch is over.
RunEmptyBatch(b) ==
    /\ Settled
    /\ stage[b] = "walking" /\ b \notin stopped /\ localQueue[b] = <<>>
    /\ Finish({b})
    /\ schedulers' = schedulers \ {b}
    /\ UNCHANGED <<taskVars, limit, localQueue, stopped, staleReconnects, gateQueue>>

\* run() after stop(): resolves at once, without ending the batch.
RunStoppedBatch(b) ==
    /\ Settled
    /\ stage[b] = "walking" /\ b \in stopped
    /\ stage' = [stage EXCEPT ![b] = "over"]
    /\ UNCHANGED <<taskVars, limit, localQueue, stopped, ended, schedulers,
                   staleReconnects, gateVars>>

\* The walk throws (a listing failed): the handler rejects and run() is never called.
WalkFails(b) ==
    /\ "walkFails" \in Faults
    /\ Settled
    /\ stage[b] = "walking"
    /\ stage' = [stage EXCEPT ![b] = "over"]
    /\ UNCHANGED <<taskVars, limit, localQueue, stopped, ended, schedulers,
                   staleReconnects, gateVars>>

\* sftp.retryTransfer on a failed row: one event creates, fills and runs a batch.
RetryCommand(b, t, c) ==
    /\ Settled
    /\ stage[b] = "unborn" /\ \A a \in 1..(b - 1) : stage[a] # "unborn"
    /\ row[t] = "error"
    /\ stage' = [stage EXCEPT ![b] = "running"]
    /\ limit' = [limit EXCEPT ![b] = c]
    /\ schedulers' = schedulers \cup {b}
    /\ gateLimit' = CeilingFor(c) /\ heldLimit' = HeldFor(c)
    /\ owner' = [owner EXCEPT ![t] = b]
    /\ attempts' = [attempts EXCEPT ![t] = 0]
    /\ reports' = [reports EXCEPT ![t] = 0]
    /\ pendingTasks' = pendingTasks \cup {t}
    /\ Dispatch(place, [row EXCEPT ![t] = "queued"], <<t>>, CeilingFor(c))
    /\ UNCHANGED <<cancelled, ticketCancelled, localQueue, stopped, ended, staleReconnects>>

-------------------------------------------------------------------------------
(* A transfer settles; its ticket frees the gate; the batch hears of it. *)

TransferEnds(t, r) ==
    /\ Settled
    /\ place[t] = "running"
    /\ place' = [place EXCEPT ![t] = "settled"]
    /\ result' = [result EXCEPT ![t] = r]
    /\ UNCHANGED <<owner, attempts, cancelled, ticketCancelled, row, reports,
                   pendingTasks, batchVars, gateVars>>

\* Mutant: the finally block frees the slot and forgets _next.
GateDoneWithoutNext(t) ==
    /\ place[t] = "settled"
    /\ place' = [place EXCEPT ![t] = "released"]
    /\ UNCHANGED <<owner, result, attempts, cancelled, ticketCancelled, row, reports,
                   pendingTasks, batchVars, gateVars>>

\* The gate's _runTask finally: the slot is freed and _next dispatches one ticket.
GateDone(t) ==
    LET p == [place EXCEPT ![t] = "released"]
        u == Head(gateQueue)
    IN  /\ place[t] = "settled"
        /\ IF gateQueue = <<>>
           THEN place' = p /\ UNCHANGED <<row, gateQueue>>
           ELSE /\ place' = [p EXCEPT ![u] = EntersAs(u)]
                /\ row' = IF u \in ticketCancelled THEN row
                          ELSE [row EXCEPT ![u] = "transferring"]
                /\ gateQueue' = Tail(gateQueue)
        /\ UNCHANGED <<owner, result, attempts, cancelled, ticketCancelled, reports,
                       pendingTasks, batchVars, gateLimit, heldLimit>>

\* The local _next after task t is done: the next queued task starts, or the
\* scheduler goes idle and finishRun is called.
LocalNext(t, p, r) ==
    LET b == owner[t]
        u == Head(localQueue[b])
    IN  IF localQueue[b] # <<>>
        THEN /\ Dispatch(p, r, <<u>>, gateLimit)
             /\ localQueue' = [localQueue EXCEPT ![b] = Tail(@)]
             /\ pendingTasks' = (pendingTasks \ {t}) \cup {u}
             /\ UNCHANGED <<stage, ended, schedulers, gateLimit, heldLimit>>
        ELSE /\ place' = p /\ row' = r
             /\ pendingTasks' = pendingTasks \ {t}
             /\ IF LocalPending(b, p) = {}
                THEN FinishRun(b, p)
                ELSE UNCHANGED <<stage, ended, schedulers, gateLimit, heldLimit>>
             /\ UNCHANGED <<localQueue, gateQueue, result>>

\* Mutant: a stopped batch still retries.
WillRetryWhenStopped(t) == result[t] = "retryable" /\ attempts[t] < MaxRetries

WillRetry(t) ==
    /\ result[t] = "retryable"
    /\ owner[t] \notin stopped /\ t \notin cancelled
    /\ attempts[t] < MaxRetries

\* onTaskDone, first half: reset() and wait out the backoff.
Park(t) ==
    /\ place[t] = "released" /\ WillRetry(t)
    /\ attempts' = [attempts EXCEPT ![t] = @ + 1]
    /\ LocalNext(t, [place EXCEPT ![t] = "backoff"], row)
    /\ UNCHANGED <<owner, cancelled, ticketCancelled, reports, limit, stopped, staleReconnects>>

\* AFTER_TRANSFER, as the Transfers view and the counters hear it.
ReportedRow(t, failed) == IF failed /\ t \notin cancelled THEN "error" ELSE "none"

\* onTaskDone, second half.
Report(t) ==
    /\ place[t] = "released" /\ ~WillRetry(t)
    /\ reports' = [reports EXCEPT ![t] = @ + 1]
    /\ ticketCancelled' = ticketCancelled \ {t}
    /\ LocalNext(t, [place EXCEPT ![t] = "reported"],
                 [row EXCEPT ![t] = ReportedRow(t, result[t] # "ok")])
    /\ UNCHANGED <<owner, attempts, cancelled, limit, stopped, staleReconnects>>

-------------------------------------------------------------------------------
(* Backoff and reconnect. *)

TimerFires(t) ==
    /\ Settled
    /\ place[t] = "backoff"
    /\ place' = [place EXCEPT ![t] = "reconnect"]
    /\ UNCHANGED <<owner, result, attempts, cancelled, ticketCancelled, row, reports,
                   pendingTasks, batchVars, gateVars>>

\* getRemoteFileSystem resolved: queueTask again, behind whatever is queued.
ReconnectSucceeds(t) ==
    LET b == owner[t]
        room == Cardinality(LocalPending(b, place)) < limit[b]
    IN  /\ Settled
        /\ place[t] = "reconnect"
        /\ IF room
           THEN /\ Dispatch(place, row, <<t>>, gateLimit)
                /\ pendingTasks' = pendingTasks \cup {t}
                /\ UNCHANGED localQueue
           ELSE /\ place' = [place EXCEPT ![t] = "local"]
                /\ localQueue' = [localQueue EXCEPT ![b] = Append(@, t)]
                /\ UNCHANGED <<row, result, pendingTasks, gateQueue>>
        /\ UNCHANGED <<owner, attempts, cancelled, ticketCancelled, reports, stage, limit,
                       stopped, ended, schedulers, staleReconnects, gateLimit, heldLimit>>


\* getRemoteFileSystem rejected: the task is reported and finishRun called.
ReconnectFails(t) ==
    LET p == [place EXCEPT ![t] = "reported"]
    IN  /\ "reconnectFails" \in Faults
        /\ Settled
        /\ place[t] = "reconnect"
        /\ place' = p
        /\ row' = [row EXCEPT ![t] = ReportedRow(t, TRUE)]
        /\ reports' = [reports EXCEPT ![t] = @ + 1]
        /\ FinishRun(owner[t], p)
        /\ UNCHANGED <<owner, result, attempts, cancelled, ticketCancelled, pendingTasks,
                       limit, localQueue, stopped, staleReconnects, gateQueue>>

\* Mutant: without the isStopped check a late reconnect reports its task again.
StaleReconnectReports(b, t) ==
    /\ Settled
    /\ <<b, t>> \in staleReconnects
    /\ staleReconnects' = staleReconnects \ {<<b, t>>}
    /\ reports' = [reports EXCEPT ![t] = @ + 1]
    /\ FinishRun(b, place)
    /\ UNCHANGED <<place, owner, result, attempts, cancelled, ticketCancelled, row,
                   pendingTasks, limit, localQueue, stopped, gateQueue>>

\* A reconnect that ends, either way, after stop() already dealt with its task.
StaleReconnectEnds(b, t) ==
    /\ Settled
    /\ <<b, t>> \in staleReconnects
    /\ staleReconnects' = staleReconnects \ {<<b, t>>}
    /\ FinishRun(b, place)
    /\ UNCHANGED <<taskVars, limit, localQueue, stopped, gateQueue>>

-------------------------------------------------------------------------------
(* Cancellation. *)

\* sftp.cancelTransfer on one row.
CancelTask(t) ==
    /\ "cancelTask" \in Faults
    /\ Settled
    /\ row[t] \in {"queued", "transferring"} /\ t \notin cancelled
    /\ cancelled' = cancelled \cup {t}
    /\ UNCHANGED <<place, owner, result, attempts, ticketCancelled, row, reports,
                   pendingTasks, batchVars, gateVars>>

\* stop() of every batch of S; more is what else is cancelled in the same event.
StopBatches(S, more) ==
    LET ticketed == {t \in Tasks : owner[t] \in S /\ place[t] \in {"gate", "running"}}
        abandoned == {t \in Tasks : owner[t] \in S /\ place[t] \in {"backoff", "reconnect"}}
        emptied == {t \in Tasks : owner[t] \in S /\ place[t] = "local"}
    IN  /\ stopped' = stopped \cup S
        /\ ticketCancelled' = ticketCancelled \cup ticketed
        /\ cancelled' = cancelled \cup ticketed \cup abandoned \cup more
        /\ place' = [t \in Tasks |-> IF t \in abandoned THEN "reported"
                                     ELSE IF t \in emptied THEN "dropped" ELSE place[t]]
        /\ row' = [t \in Tasks |-> IF t \in abandoned THEN "none" ELSE row[t]]
        /\ reports' = [t \in Tasks |-> IF t \in abandoned THEN reports[t] + 1 ELSE reports[t]]
        /\ staleReconnects' = staleReconnects
               \cup {<<owner[t], t>> : t \in {u \in abandoned : place[u] = "reconnect"}}
        /\ localQueue' = [b \in Batches |-> IF b \in S THEN <<>> ELSE localQueue[b]]
        /\ UNCHANGED <<owner, result, attempts, limit, gateQueue>>

\* Mutants: stop() does not wait for pending tasks; or never ends the batch itself.
EndsWhateverIsPending(b) == stage[b] = "running"

\* stop() ends the batch at once when none of its tasks is pending.
EndsWhenStopped(b) == stage[b] = "running" /\ LocalPending(b, place) = {}

\* The Cancel button of a batch's progress notification.
Stop(b) ==
    LET done == IF EndsWhenStopped(b) THEN {b} ELSE {}
    IN  /\ "stop" \in Faults
        /\ Settled
        /\ stage[b] \in {"walking", "running"} /\ b \notin stopped
        /\ StopBatches({b}, {})
        /\ Finish(done)
        /\ schedulers' = schedulers \ done
        /\ UNCHANGED pendingTasks

\* Array.forEach over _transferSchedulers: a stop() that removes its own batch
\* from the array shifts the next one into its index, and it is passed over.
Visited ==
    LET Before(a, b) == a < b /\ ~\E m \in schedulers : a < m /\ m < b
        visited[b \in Batches] ==
            \A a \in 1..(b - 1) :
                (a \in schedulers /\ Before(a, b)) => ~(visited[a] /\ EndsWhenStopped(a))
    IN  {b \in schedulers : visited[b]}

\* FileService.cancelTransferTasks, from sftp.cancelAllTransfer.
CancelAll ==
    /\ "cancelAll" \in Faults
    /\ Settled
    /\ schedulers # {}
    /\ StopBatches(Visited, pendingTasks)
    /\ Finish({b \in Visited : EndsWhenStopped(b)})
    /\ schedulers' = {}
    /\ pendingTasks' = {}

-------------------------------------------------------------------------------
BatchStep(b) ==
    \/ \E c \in Limits : CreateBatch(b, c)
    \/ \E t \in Tasks : AddTask(b, t)
    \/ RunBatch(b) \/ RunEmptyBatch(b) \/ RunStoppedBatch(b) \/ WalkFails(b)
    \/ \E t \in Tasks, c \in Limits : RetryCommand(b, t, c)
    \/ \E t \in Tasks : StaleReconnectEnds(b, t)
    \/ Stop(b)

TaskStep(t) ==
    \/ \E r \in Results : TransferEnds(t, r)
    \/ GateDone(t) \/ Park(t) \/ Report(t)
    \/ TimerFires(t) \/ ReconnectSucceeds(t) \/ ReconnectFails(t)
    \/ CancelTask(t)

Next == (\E b \in Batches : BatchStep(b)) \/ (\E t \in Tasks : TaskStep(t)) \/ CancelAll

Spec == Init /\ [][Next]_vars

\* Every accepted transfer settles (the stall watchdog and operationTimeout turn
\* silence into an error), promise continuations run, timers fire, a reconnect
\* resolves or rejects, and a walk returns or throws.
Fairness ==
    /\ \A t \in Tasks :
         /\ WF_vars(\E r \in Results : TransferEnds(t, r))
         /\ WF_vars(GateDone(t)) /\ WF_vars(Park(t) \/ Report(t))
         /\ WF_vars(TimerFires(t))
         /\ WF_vars(ReconnectSucceeds(t) \/ ReconnectFails(t))
    /\ \A b \in Batches :
         /\ WF_vars(RunBatch(b) \/ RunEmptyBatch(b) \/ RunStoppedBatch(b) \/ WalkFails(b))
         /\ \A t \in Tasks : WF_vars(StaleReconnectEnds(b, t))

FairSpec == Spec /\ Fairness

-------------------------------------------------------------------------------
(* Properties. *)

TypeOK ==
    /\ place \in [Tasks -> Places]
    /\ owner \in [Tasks -> Batches \cup {0}]
    /\ result \in [Tasks -> Results]
    /\ attempts \in [Tasks -> 0..MaxRetries]
    /\ cancelled \subseteq Tasks /\ ticketCancelled \subseteq Tasks
    /\ pendingTasks \subseteq Tasks
    /\ row \in [Tasks -> Rows]
    /\ reports \in [Tasks -> Nat]
    /\ stage \in [Batches -> Stages]
    /\ limit \in [Batches -> Limits \cup {NoLimit}]
    /\ localQueue \in [Batches -> Seq(Tasks)]
    /\ stopped \subseteq Batches /\ ended \subseteq Batches /\ schedulers \subseteq Batches
    /\ staleReconnects \subseteq Batches \X Tasks
    /\ gateQueue \in Seq(Tasks)
    /\ gateLimit \in Limits /\ heldLimit \in Limits \cup {NoLimit}

\* The service never runs more transfers at once than the ceiling in force,
\* whichever batches, retries and settings changes are in flight.
GateCeiling == Cardinality(Occupied) <= gateLimit

\* No slot of the gate idles while a ticket waits for it.  (_next dispatches one
\* ticket per completion and setConcurrency dispatches none, so a slot lost once
\* would stay lost.)
GateConserves == gateQueue # <<>> => Cardinality(Occupied) >= gateLimit

\* Nor does a started batch leave a task in its own queue while it has spare
\* concurrency.
BatchConserves ==
    \A b \in Batches :
        stage[b] = "running" /\ localQueue[b] # <<>>
          => Cardinality(LocalPending(b, place)) >= limit[b]

\* A batch that told its command it is finished has no task left anywhere:
\* "settle run(), but only once every task is accounted for".
Accounted ==
    \A b \in ended : \A t \in Tasks :
        owner[t] = b => place[t] \in {"reported", "dropped"}

\* AFTER_TRANSFER is emitted at most once for each time a task is queued,
\* however stop(), a reconnect and a completion race for it.
ReportedOnce == \A t \in Tasks :
    reports[t] = IF place[t] = "reported" THEN 1 ELSE 0

\* The bookkeeping the code keeps in five places agrees: a queue holds exactly
\* the tasks that wait in it, once each, and a stopped batch has nothing left
\* that could still be started (its gate tickets are all cancelled).
QueuesAgree ==
    /\ \A b \in Batches :
         /\ \A i \in 1..Len(localQueue[b]) :
              place[localQueue[b][i]] = "local" /\ owner[localQueue[b][i]] = b
         /\ \A i, j \in 1..Len(localQueue[b]) :
              i # j => localQueue[b][i] # localQueue[b][j]
    /\ \A i \in 1..Len(gateQueue) : place[gateQueue[i]] = "gate"
    /\ \A i, j \in 1..Len(gateQueue) : i # j => gateQueue[i] # gateQueue[j]

StoppedIsDrained ==
    \A b \in stopped :
        /\ stage[b] # "unborn" /\ localQueue[b] = <<>>
        /\ \A t \in Tasks : owner[t] = b =>
             /\ place[t] \notin {"local", "backoff", "reconnect"}
             /\ place[t] = "gate" => t \in ticketCancelled

\* A task that has been queued has a batch, a failed row (the only kind that
\* offers Retry) belongs to a task nothing else still holds, and only batches
\* that exist can be stopped.
Linked ==
    /\ \A t \in Tasks :
         /\ place[t] # "new" => owner[t] \in Batches
         /\ row[t] = "error" => place[t] = "reported"
    /\ \A b \in schedulers : stage[b] # "unborn"

SchedulingInv == TypeOK /\ QueuesAgree /\ StoppedIsDrained /\ ReportedOnce /\ Linked

\* The ceiling never changes under work a batch has queued in, or has had
\* admitted by, the gate.
CeilingChangesWhenIdle ==
    [][gateLimit' # gateLimit => gateQueue = <<>> /\ Occupied = {}]_vars

\* stop() is final: no task of a stopped batch starts to transfer afterwards,
\* not from the gate's queue, nor from a timer, nor from a late reconnect.
StopIsFinal ==
    [][\A t \in Tasks : place[t] # "running" /\ place'[t] = "running"
                            => owner'[t] \notin stopped']_vars

\* Cancel All Transfers leaves nothing of the service that may still start: "remove
\* tasks not start" (fileService.ts:549).  It does not hold: FindPassedOver.
CancelAllReachesAll ==
    [][CancelAll => \A t \in Tasks : owner[t] \in schedulers => place'[t] # "local"]_vars

\* A batch whose command is over has released its share of the gate, so a held
\* concurrency setting can still take effect.
OverMeansEnded == \A b \in Batches : stage[b] = "over" => b \in ended

\* However many batches there are, together they keep to the limit of the service,
\* and none waits for a place that is free (transferSchedulerGroup.ts).
GateIsShared == GateCeiling /\ GateConserves /\ BatchConserves

\* The queues and the schedulers agree on who waits and who runs, a stopped scheduler
\* keeps nothing, and no task waits for its batch in vain when it comes back for a
\* retry (scheduler.ts).
QueuesAreTrue == TypeOK /\ QueuesAgree /\ StoppedIsDrained /\ BatchConserves


\* Every queued task is reported in the end, unless stop() threw it away or its walk
\* threw before run().
EveryTaskReported ==
    \A t \in Tasks :
        place[t] = "local" ~>
            \/ place[t] = "reported"
            \/ place[t] = "dropped" /\ owner[t] \in stopped
            \/ place[t] = "local" /\ stage[owner[t]] = "over" /\ owner[t] \notin ended

\* A concurrency setting held back while batches are active takes effect, if every
\* batch that is over has told the gate.
HeldLimitApplied == []OverMeansEnded => (heldLimit # NoLimit ~> heldLimit = NoLimit)

=============================================================================
