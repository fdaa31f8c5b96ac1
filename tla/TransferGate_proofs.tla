------------------------ MODULE TransferGate_proofs ------------------------
(* The numbers of TransferScheduling: how many transfers the gate and a batch  *)
(* hold, and when the gate's ceiling may move.  Every result is for any number *)
(* of tasks, batches and settings.                                             *)
EXTENDS TransferScheduling_proofs

-------------------------------------------------------------------------------
(* Counting. *)

(* A queue without repetitions holds as many tasks as it is long. *)
LEMMA DistinctCount ==
    ASSUME NEW S, NEW s \in Seq(S), \A i, j \in 1..Len(s) : i # j => s[i] # s[j]
    PROVE  IsFiniteSet(RangeOf(s)) /\ Cardinality(RangeOf(s)) = Len(s)
  <1>1. Len(s) \in Nat /\ DOMAIN s = 1..Len(s) /\ RangeOf(s) = {s[i] : i \in 1..Len(s)}
    BY DEF RangeOf
  <1> DEFINE f == [i \in 1..Len(s) |-> s[i]]
  <1>2. f \in Bijection(1..Len(s), RangeOf(s))
    <2>1. f \in [1..Len(s) -> RangeOf(s)] BY <1>1
    <2>2. f \in Injection(1..Len(s), RangeOf(s)) BY <2>1 DEF Injection, IsInjective
    <2>3. f \in Surjection(1..Len(s), RangeOf(s)) BY <1>1, <2>1 DEF Surjection
    <2> QED BY <2>2, <2>3 DEF Bijection
  <1>3. ExistsBijection(1..Len(s), RangeOf(s)) BY <1>2 DEF ExistsBijection
  <1>4. IsFiniteSet(1..Len(s)) BY <1>1, FS_Interval
  <1> QED BY <1>1, <1>3, <1>4, FS_Bijection, FS_CountingElements

(* Putting u in the place of t keeps the number. *)
LEMMA ReplaceCount ==
    ASSUME NEW P, IsFiniteSet(P), NEW t \in P, NEW u, u \notin P
    PROVE  Cardinality((P \ {t}) \cup {u}) = Cardinality(P)
  <1>1. IsFiniteSet(P \ {t}) /\ Cardinality(P \ {t}) = Cardinality(P) - 1
    BY FS_RemoveElement
  <1>2. Cardinality((P \ {t}) \cup {u}) = Cardinality(P) - 1 + 1 BY <1>1, FS_AddElement
  <1>3. Cardinality(P) \in Nat BY FS_CardinalityType
  <1> QED BY <1>2, <1>3

LEMMA InRange ==
    ASSUME NEW S, NEW s \in Seq(S)
    PROVE  /\ \A k \in 1..Len(s) : s[k] \in RangeOf(s)
           /\ \A x \in RangeOf(s) : \E k \in 1..Len(s) : x = s[k]
  <1>1. DOMAIN s = 1..Len(s) OBVIOUS
  <1> QED BY <1>1 DEF RangeOf

InEither(q, a, w) == \A x \in RangeOf(q) : x \in RangeOf(a) \/ x \in RangeOf(w)

(* Both halves of a queue, and nothing besides, make the queue. *)
LEMMA CutCovers ==
    ASSUME NEW S, NEW q \in Seq(S), NEW n \in 0..Len(q)
    PROVE  /\ Len(SubSeq(q, 1, n)) = n /\ Len(SubSeq(q, n + 1, Len(q))) = Len(q) - n
           /\ InEither(q, SubSeq(q, 1, n), SubSeq(q, n + 1, Len(q)))
  <1> DEFINE a == SubSeq(q, 1, n)
             w == SubSeq(q, n + 1, Len(q))
  <1>1. /\ a \in Seq(S) /\ Len(a) = n - 1 + 1
        /\ \A i \in 1..(n - 1 + 1) : a[i] = q[1 + i - 1]
    <2>1. 1 \in 1..(Len(q) + 1) /\ n \in (1 - 1)..Len(q) OBVIOUS
    <2> QED BY <2>1, SubSeqFacts
  <1>2. /\ w \in Seq(S) /\ Len(w) = Len(q) - (n + 1) + 1
        /\ \A i \in 1..(Len(q) - (n + 1) + 1) : w[i] = q[(n + 1) + i - 1]
    <2>1. n + 1 \in 1..(Len(q) + 1) /\ Len(q) \in ((n + 1) - 1)..Len(q) OBVIOUS
    <2> QED BY <2>1, SubSeqFacts
  <1> HIDE DEF a, w
  <1>3. ASSUME NEW k \in 1..Len(q) PROVE q[k] \in RangeOf(a) \/ q[k] \in RangeOf(w)
    <2>1. CASE k <= n
      <3>1. k \in 1..Len(a) /\ a[k] = q[k] BY <1>1, <2>1
      <3>2. a[k] \in RangeOf(a) BY <1>1, <3>1, InRange
      <3> QED BY <3>1, <3>2
    <2>2. CASE k > n
      <3>1. k - n \in 1..Len(w) /\ (n + 1) + (k - n) - 1 = k BY <1>2, <2>2
      <3>2. k - n \in 1..(Len(q) - (n + 1) + 1) BY <1>2, <3>1
      <3>3. w[k - n] = q[k] BY <1>2, <3>1, <3>2
      <3>4. w[k - n] \in RangeOf(w) BY <1>2, <3>1, InRange
      <3> QED BY <3>3, <3>4
    <2> QED BY <2>1, <2>2
  <1>4. \A x \in RangeOf(q) : x \in RangeOf(a) \/ x \in RangeOf(w) BY <1>3, InRange
  <1>5. Len(a) = n /\ Len(w) = Len(q) - n BY <1>1, <1>2
  <1> QED BY <1>1, <1>2, <1>4, <1>5 DEF InEither, a, w

LEMMA TailCovers ==
    ASSUME NEW S, NEW q \in Seq(S), q # <<>>
    PROVE  /\ Head(q) \in RangeOf(q)
           /\ \A x \in RangeOf(q) : x = Head(q) \/ x \in RangeOf(Tail(q))
  <1>1. /\ Len(q) \in Nat /\ Len(q) >= 1 /\ Head(q) = q[1] /\ Tail(q) \in Seq(S)
        /\ Len(Tail(q)) = Len(q) - 1
        /\ \A i \in 1..(Len(q) - 1) : Tail(q)[i] = q[i + 1]
    BY TailFacts
  <1>2. ASSUME NEW k \in 1..Len(q) PROVE q[k] = Head(q) \/ q[k] \in RangeOf(Tail(q))
    <2>1. CASE k = 1 BY <1>1, <2>1
    <2>2. CASE k # 1
      <3>1. k - 1 \in 1..(Len(q) - 1) /\ (k - 1) + 1 = k BY <1>1, <2>2
      <3>2. Tail(q)[k - 1] = q[k] BY <1>1, <3>1
      <3>3. Tail(q)[k - 1] \in RangeOf(Tail(q)) BY <1>1, <3>1, InRange
      <3> QED BY <3>2, <3>3
    <2> QED BY <2>1, <2>2
  <1>3. 1 \in 1..Len(q) BY <1>1
  <1> QED BY <1>1, <1>2, <1>3 DEF RangeOf

LEMMA AppendCovers ==
    ASSUME NEW S, NEW q \in Seq(S), NEW t \in S
    PROVE  /\ t \in RangeOf(Append(q, t))
           /\ \A x \in RangeOf(q) : x \in RangeOf(Append(q, t))
  <1>1. /\ Append(q, t) \in Seq(S) /\ Len(Append(q, t)) = Len(q) + 1 /\ Len(q) \in Nat
        /\ Append(q, t)[Len(q) + 1] = t
        /\ \A i \in 1..Len(q) : Append(q, t)[i] = q[i]
    BY AppendFacts
  <1>2. \A i \in 1..Len(q) : i \in 1..Len(Append(q, t)) BY <1>1
  <1>3. Len(q) + 1 \in 1..Len(Append(q, t)) BY <1>1
  <1> QED BY <1>1, <1>2, <1>3 DEF RangeOf

LEMMA PendingFinite ==
    ASSUME NEW b, NEW p
    PROVE  IsFiniteSet(LocalPending(b, p)) /\ Cardinality(LocalPending(b, p)) \in Nat
  <1>1. LocalPending(b, p) \in SUBSET Tasks BY DEF LocalPending
  <1>2. IsFiniteSet(LocalPending(b, p)) BY <1>1, FS_Subset, SchedulingAssumption
  <1> QED BY <1>2, FS_CardinalityType

LEMMA LimitsAreNumbers ==
    /\ \A c \in Limits \cup {NoLimit} : c \in Nat
    /\ \A c \in Limits : c \in Nat /\ c >= 1
  BY SchedulingAssumption DEF NoLimit

-------------------------------------------------------------------------------
(* Where the tasks of a batch are. *)

\* A task has an owner once it is queued, a waiting one is in its owner's queue, a batch
\* whose walk is not over has started nothing, and one that has ended is over.
Placed ==
    /\ \A t \in Tasks :
         /\ place[t] = "new" => owner[t] = 0
         /\ place[t] = "local" => t \in RangeOf(localQueue[owner[t]])
         /\ owner[t] \in Batches =>
              /\ stage[owner[t]] # "unborn"
              /\ stage[owner[t]] = "walking" => place[t] \in {"local", "dropped"}
    /\ \A b \in Batches : stage[b] # "unborn" => limit[b] \in Limits
    /\ \A b \in ended : stage[b] = "over"

ConservesAt(b) ==
    stage[b] = "running" /\ localQueue[b] # <<>>
      => Cardinality(LocalPending(b, place)) >= limit[b]

QueuesInv == SchedulingInv /\ Placed /\ BatchConserves

PendingPlaces == {"gate", "running", "settled", "released"}
IsPending(t, b, o, p) == o[t] = b /\ p[t] \in PendingPlaces

(* A batch that keeps its tasks in the gate, and gets no new ones to wait, has *)
(* no more spare concurrency than before.                                      *)
LEMMA ConservesKept ==
    ASSUME BatchConserves, NEW b \in Batches,
           stage'[b] = "running" => stage[b] = "running",
           localQueue'[b] # <<>> => localQueue[b] # <<>>,
           stage[b] = "running" => limit'[b] = limit[b],
           \A t \in Tasks : IsPending(t, b, owner, place) <=> IsPending(t, b, owner', place')
    PROVE  ConservesAt(b)'
  <1>1. LocalPending(b, place)' = LocalPending(b, place)
    BY DEF LocalPending, IsPending, PendingPlaces
  <1> QED BY <1>1 DEF BatchConserves, ConservesAt

LEMMA ConservesEverywhere ==
    ASSUME \A b \in Batches : ConservesAt(b)'
    PROVE  BatchConserves'
  BY DEF BatchConserves, ConservesAt

\* A step that moves no task into or out of a batch's queue or its concurrency.
QuietStep ==
    /\ owner' = owner /\ localQueue' = localQueue
    /\ \A b \in Batches :
         /\ stage'[b] = "running" => stage[b] = "running"
         /\ stage'[b] = "walking" => stage[b] \in {"unborn", "walking"}
         /\ stage[b] # "unborn" => stage'[b] # "unborn" /\ limit'[b] = limit[b]
         /\ stage'[b] # "unborn" => limit'[b] \in Limits
    /\ \A b \in ended' : stage'[b] = "over"
    /\ \A t \in Tasks :
         /\ place[t] \in {"new", "local", "dropped"} => place'[t] = place[t]
         /\ place'[t] \in {"new", "local"} => place[t] = place'[t]
         /\ place[t] \in PendingPlaces <=> place'[t] \in PendingPlaces

LEMMA QuietStepKeeps ==
    ASSUME QueuesInv, QuietStep
    PROVE  Placed' /\ BatchConserves'
  <1>1. BatchConserves'
    <2>1. ASSUME NEW b \in Batches PROVE ConservesAt(b)'
      <3>1. BatchConserves BY DEF QueuesInv
      <3>2. \A t \in Tasks : IsPending(t, b, owner, place) <=> IsPending(t, b, owner', place')
        BY DEF QuietStep, IsPending
      <3>3. /\ stage'[b] = "running" => stage[b] = "running"
            /\ localQueue'[b] # <<>> => localQueue[b] # <<>>
            /\ stage[b] = "running" => limit'[b] = limit[b]
        BY DEF QuietStep
      <3> QED BY <3>1, <3>2, <3>3, ConservesKept
    <2> QED BY <2>1, ConservesEverywhere
  <1>2. ASSUME NEW t \in Tasks
        PROVE  /\ place'[t] = "new" => owner'[t] = 0
               /\ place'[t] = "local" => t \in RangeOf(localQueue'[owner'[t]])
               /\ owner'[t] \in Batches =>
                    /\ stage'[owner'[t]] # "unborn"
                    /\ stage'[owner'[t]] = "walking" => place'[t] \in {"local", "dropped"}
    BY DEF QueuesInv, Placed, QuietStep
  <1>3. /\ \A b \in Batches : stage'[b] # "unborn" => limit'[b] \in Limits
        /\ \A b \in ended' : stage'[b] = "over"
    BY DEF QuietStep
  <1>4. Placed' BY <1>2, <1>3 DEF Placed
  <1> QED BY <1>1, <1>4

LEMMA FinishIsQuiet ==
    ASSUME QueuesInv, NEW S \in SUBSET Batches, Finish(S),
           \A b \in S : stage[b] # "unborn"
    PROVE  /\ \A b \in Batches :
                /\ stage'[b] \in {"running", "walking"} => stage'[b] = stage[b]
                /\ stage[b] # "unborn" <=> stage'[b] # "unborn"
           /\ \A b \in ended' : stage'[b] = "over"
  BY DEF QueuesInv, SchedulingInv, TypeOK, Placed, Finish, EndBatch

LEMMA QuietBatchSteps ==
    ASSUME QueuesInv, NEW b \in Batches,
           \/ \E c \in Limits : CreateBatch(b, c)
           \/ RunEmptyBatch(b) \/ RunStoppedBatch(b) \/ WalkFails(b)
           \/ \E t \in Tasks : StaleReconnectEnds(b, t)
    PROVE  QuietStep
  <1> USE DEF taskVars, batchVars, gateVars
  <1>1. /\ stage \in [Batches -> Stages] /\ limit \in [Batches -> Limits \cup {NoLimit}]
        /\ ended \subseteq Batches
        /\ \A a \in Batches : stage[a] # "unborn" => limit[a] \in Limits
        /\ \A a \in ended : stage[a] = "over"
    BY DEF QueuesInv, SchedulingInv, TypeOK, Placed
  <1>2. ASSUME NEW c \in Limits, CreateBatch(b, c) PROVE QuietStep
    BY <1>1, <1>2 DEF CreateBatch, QuietStep
  <1>3. CASE RunEmptyBatch(b)
    BY <1>1, <1>3 DEF RunEmptyBatch, Finish, EndBatch, QuietStep
  <1>4. CASE RunStoppedBatch(b)
    BY <1>1, <1>4 DEF RunStoppedBatch, QuietStep
  <1>5. CASE WalkFails(b)
    BY <1>1, <1>5 DEF WalkFails, QuietStep
  <1>6. ASSUME NEW t \in Tasks, StaleReconnectEnds(b, t) PROVE QuietStep
    <2> DEFINE S == IF CanFinish(b, place) THEN {b} ELSE {}
    <2>1. Finish(S) /\ S \in SUBSET Batches /\ UNCHANGED <<place, owner, localQueue, limit>>
      BY <1>6 DEF StaleReconnectEnds, FinishRun
    <2>2. \A a \in S : stage[a] # "unborn" BY DEF CanFinish
    <2> HIDE DEF S
    <2> QED BY <1>1, <2>1, <2>2, FinishIsQuiet DEF QuietStep
  <1> QED BY <1>2, <1>3, <1>4, <1>5, <1>6

LEMMA QuietTaskSteps ==
    ASSUME QueuesInv, NEW t \in Tasks,
           \/ \E r \in Results : TransferEnds(t, r)
           \/ GateDone(t) \/ TimerFires(t) \/ ReconnectFails(t) \/ CancelTask(t)
    PROVE  QuietStep
  <1> USE DEF taskVars, batchVars, gateVars
  <1>1. /\ place \in [Tasks -> Places] /\ gateQueue \in Seq(Tasks)
        /\ \A a \in Batches : stage[a] # "unborn" => limit[a] \in Limits
        /\ \A a \in ended : stage[a] = "over"
    BY DEF QueuesInv, SchedulingInv, TypeOK, Placed
  <1>2. ASSUME NEW r \in Results, TransferEnds(t, r) PROVE QuietStep
    BY <1>1, <1>2 DEF TransferEnds, QuietStep, PendingPlaces
  <1>3. CASE GateDone(t)
    <2>1. CASE gateQueue = <<>>
      BY <1>1, <1>3, <2>1 DEF GateDone, QuietStep, PendingPlaces
    <2>2. CASE gateQueue # <<>>
      <3>1. Head(gateQueue) \in Tasks /\ place[Head(gateQueue)] = "gate"
        BY <1>1, <2>2, TailFacts DEF QueuesInv, SchedulingInv, QueuesAgree
      <3>2. EntersAs(Head(gateQueue)) \in {"running", "settled"} BY DEF EntersAs
      <3> QED BY <1>1, <1>3, <2>2, <3>1, <3>2 DEF GateDone, QuietStep, PendingPlaces
    <2> QED BY <2>1, <2>2
  <1>4. CASE TimerFires(t)
    BY <1>1, <1>4 DEF TimerFires, QuietStep, PendingPlaces
  <1>5. CASE ReconnectFails(t)
    <2> DEFINE p == [place EXCEPT ![t] = "reported"]
               S == IF CanFinish(owner[t], p) THEN {owner[t]} ELSE {}
    <2>1. /\ Finish(S) /\ place' = p /\ place[t] = "reconnect"
          /\ UNCHANGED <<owner, localQueue, limit>>
      BY <1>5 DEF ReconnectFails, FinishRun
    <2>2. S \in SUBSET Batches /\ \A a \in S : stage[a] # "unborn"
      BY <2>1 DEF CanFinish, QueuesInv, SchedulingInv, Linked
    <2> HIDE DEF S
    <2> QED BY <1>1, <2>1, <2>2, FinishIsQuiet DEF QuietStep, PendingPlaces
  <1>6. CASE CancelTask(t) BY <1>1, <1>6 DEF CancelTask, QuietStep
  <1> QED BY <1>2, <1>3, <1>4, <1>5, <1>6

-------------------------------------------------------------------------------
(* The steps that move tasks between the queues. *)

LEMMA AddTaskPlaced ==
    ASSUME QueuesInv, NEW b \in Batches, NEW t \in Tasks, AddTask(b, t)
    PROVE  Placed' /\ BatchConserves'
  <1>1. /\ place \in [Tasks -> Places] /\ owner \in [Tasks -> Batches \cup {0}]
        /\ localQueue \in [Batches -> Seq(Tasks)]
    BY DEF QueuesInv, SchedulingInv, TypeOK
  <1>2. /\ stage[b] = "walking" /\ place[t] = "new"
        /\ place' = [place EXCEPT ![t] = "local"] /\ owner' = [owner EXCEPT ![t] = b]
        /\ localQueue' = [localQueue EXCEPT ![b] = Append(localQueue[b], t)]
        /\ UNCHANGED <<stage, limit, ended>>
    BY DEF AddTask
  <1>3. /\ localQueue'[b] = Append(localQueue[b], t)
        /\ \A a \in Batches \ {b} : localQueue'[a] = localQueue[a]
        /\ place'[t] = "local" /\ owner'[t] = b
        /\ \A s \in Tasks \ {t} : place'[s] = place[s] /\ owner'[s] = owner[s]
    BY <1>1, <1>2
  <1>4. /\ t \in RangeOf(localQueue'[b])
        /\ \A x \in RangeOf(localQueue[b]) : x \in RangeOf(localQueue'[b])
    BY <1>1, <1>3, AppendCovers
  <1>5. ASSUME NEW a \in Batches PROVE ConservesAt(a)'
    <2>1. CASE a = b BY <1>2, <2>1 DEF ConservesAt
    <2>2. CASE a # b
      <3>1. \A s \in Tasks : IsPending(s, a, owner, place) <=> IsPending(s, a, owner', place')
        BY <1>2, <1>3, <2>2 DEF IsPending, PendingPlaces
      <3>2. /\ BatchConserves /\ stage'[a] = stage[a] /\ limit'[a] = limit[a]
            /\ localQueue'[a] = localQueue[a]
        BY <1>2, <1>3, <2>2 DEF QueuesInv
      <3> QED BY <3>1, <3>2, ConservesKept
    <2> QED BY <2>1, <2>2
  <1>6. ASSUME NEW s \in Tasks
        PROVE  /\ place'[s] = "new" => owner'[s] = 0
               /\ place'[s] = "local" => s \in RangeOf(localQueue'[owner'[s]])
               /\ owner'[s] \in Batches =>
                    /\ stage'[owner'[s]] # "unborn"
                    /\ stage'[owner'[s]] = "walking" => place'[s] \in {"local", "dropped"}
    <2>1. CASE s = t BY <1>2, <1>3, <1>4, <2>1
    <2>2. CASE s # t
      <3>1. place'[s] = "local" => owner[s] \in Batches /\ s \in RangeOf(localQueue[owner[s]])
        BY <1>3, <2>2 DEF QueuesInv, Placed, SchedulingInv, Linked
      <3> QED BY <1>2, <1>3, <1>4, <2>2, <3>1 DEF QueuesInv, Placed
    <2> QED BY <2>1, <2>2
  <1>7. Placed' BY <1>2, <1>6 DEF QueuesInv, Placed
  <1> QED BY <1>5, <1>7, ConservesEverywhere

\* The gate takes the tickets ts of batch b, or queues them.
Taken(b, ts) ==
    /\ \A t \in RangeOf(ts) :
         t \in Tasks /\ owner'[t] = b /\ place'[t] \in {"gate", "running", "settled"}
    /\ \A t \in Tasks \ RangeOf(ts) : place'[t] = place[t]

\* What becomes of tasks that are dispatched.
LEMMA DispatchTakes ==
    ASSUME SchedulingInv, NEW ts \in Seq(Tasks),
           \A i, j \in 1..Len(ts) : i # j => ts[i] # ts[j],
           \A i \in 1..Len(ts) : place[ts[i]] # "gate",
           Dispatch(place, row, ts, gateLimit)
    PROVE  /\ \A t \in Tasks \ RangeOf(ts) : place'[t] = place[t]
           /\ \A t \in RangeOf(ts) : t \in Tasks /\ place'[t] \in {"gate", "running", "settled"}
  <1>1. TypeOK /\ QueuesAgree BY DEF SchedulingInv
  <1>2. place \in [Tasks -> Places] /\ row \in [Tasks -> Rows] /\ gateLimit \in Nat
    BY <1>1, LimitsAreNumbers DEF TypeOK
  <1>3. \A i \in 1..Len(gateQueue) : place[gateQueue[i]] = "gate" BY <1>1 DEF QueuesAgree
  <1>4. /\ \A t \in Tasks \ RangeOf(ts) : place'[t] = place[t] /\ row'[t] = row[t]
        /\ \A t \in RangeOf(ts) :
             /\ t \in Tasks
             /\ place'[t] \in {"gate", "running", "settled"}
             /\ place'[t] = "running" => t \notin cancelled \cup ticketCancelled
             /\ row'[t] \in {"transferring", row[t]}
    BY <1>1, <1>2, <1>3, DispatchFacts
  <1> QED BY <1>4

LEMMA RunBatchTakes ==
    ASSUME SchedulingInv, NEW b \in Batches, RunBatch(b)
    PROVE  \E n \in 0..Len(localQueue[b]), ts \in Seq(Tasks), w \in Seq(Tasks) :
             /\ n = Smaller(limit[b], Len(localQueue[b]))
             /\ ts = SubSeq(localQueue[b], 1, n)
             /\ w = SubSeq(localQueue[b], n + 1, Len(localQueue[b]))
             /\ localQueue' = [localQueue EXCEPT ![b] = w]
             /\ CutInTwo(localQueue[b], ts, w)
             /\ Taken(b, ts)
             /\ \A t \in RangeOf(ts) : place[t] = "local" /\ owner[t] = b
             /\ Len(ts) = n /\ Cardinality(RangeOf(ts)) = n
             /\ Len(w) = Len(localQueue[b]) - n
             /\ \A x \in RangeOf(localQueue[b]) : x \in RangeOf(ts) \/ x \in RangeOf(w)
  <1> DEFINE q == localQueue[b]
             n == Smaller(limit[b], Len(q))
             ts == SubSeq(q, 1, n)
             w == SubSeq(q, n + 1, Len(q))
  <1>1. /\ TypeOK /\ QueuesAgree /\ q \in Seq(Tasks) /\ Len(q) \in Nat
        /\ limit[b] \in Nat /\ gateLimit \in Nat
        /\ place \in [Tasks -> Places] /\ row \in [Tasks -> Rows]
    BY LimitsAreNumbers DEF SchedulingInv, TypeOK
  <1>2. n \in 0..Len(q) BY <1>1 DEF Smaller
  <1>3. /\ localQueue' = [localQueue EXCEPT ![b] = w] /\ owner' = owner
        /\ Dispatch(place, row, ts, gateLimit)
    BY DEF RunBatch
  <1>4. /\ \A i \in 1..Len(q) : q[i] \in Tasks /\ place[q[i]] = "local" /\ owner[q[i]] = b
        /\ \A i, j \in 1..Len(q) : i # j => q[i] # q[j]
    BY <1>1 DEF QueuesAgree
  <1> HIDE DEF n
  <1>5. ts \in Seq(Tasks) /\ w \in Seq(Tasks) /\ CutInTwo(q, ts, w)
    BY <1>1, <1>2, <1>4, CutFacts
  <1>6. Len(ts) = n /\ Len(w) = Len(q) - n /\ InEither(q, ts, w)
    <2> HIDE DEF q
    <2>1. /\ Len(SubSeq(q, 1, n)) = n /\ Len(SubSeq(q, n + 1, Len(q))) = Len(q) - n
          /\ InEither(q, SubSeq(q, 1, n), SubSeq(q, n + 1, Len(q)))
      BY <1>1, <1>2, CutCovers
    <2> QED BY <2>1
  <1> HIDE DEF ts, w, q
  <1>7. \A i \in 1..Len(ts) : ts[i] \in Tasks /\ place[ts[i]] = "local" /\ owner[ts[i]] = b
    BY <1>4, <1>5 DEF CutInTwo
  <1>8. \A i, j \in 1..Len(ts) : i # j => ts[i] # ts[j] BY <1>5 DEF CutInTwo
  <1>9. \A t \in RangeOf(ts) : t \in Tasks /\ place[t] = "local" /\ owner[t] = b
    BY <1>5, <1>7, InRange
  <1>10. /\ \A t \in Tasks \ RangeOf(ts) : place'[t] = place[t]
         /\ \A t \in RangeOf(ts) : t \in Tasks /\ place'[t] \in {"gate", "running", "settled"}
    <2>1. \A i \in 1..Len(ts) : place[ts[i]] # "gate" BY <1>7
    <2> QED BY <1>3, <1>5, <1>8, <2>1, DispatchTakes
  <1>11. Taken(b, ts) BY <1>3, <1>9, <1>10 DEF Taken
  <1>12. Cardinality(RangeOf(ts)) = n BY <1>5, <1>6, <1>8, DistinctCount
  <1>13. n = Smaller(limit[b], Len(q)) /\ ts = SubSeq(q, 1, n) /\ w = SubSeq(q, n + 1, Len(q))
    BY DEF n, ts, w
  <1> QED BY <1>2, <1>3, <1>5, <1>6, <1>9, <1>11, <1>12, <1>13 DEF q, InEither

LEMMA RunBatchPlaced ==
    ASSUME QueuesInv, NEW b \in Batches, RunBatch(b)
    PROVE  Placed' /\ BatchConserves'
  <1>1. /\ SchedulingInv /\ Placed /\ BatchConserves /\ TypeOK /\ Linked
        /\ localQueue \in [Batches -> Seq(Tasks)] /\ stage \in [Batches -> Stages]
    BY DEF QueuesInv, SchedulingInv, TypeOK
  <1>2. PICK n \in 0..Len(localQueue[b]), ts \in Seq(Tasks), w \in Seq(Tasks) :
             /\ n = Smaller(limit[b], Len(localQueue[b]))
             /\ ts = SubSeq(localQueue[b], 1, n)
             /\ w = SubSeq(localQueue[b], n + 1, Len(localQueue[b]))
             /\ localQueue' = [localQueue EXCEPT ![b] = w]
             /\ CutInTwo(localQueue[b], ts, w)
             /\ Taken(b, ts)
             /\ \A t \in RangeOf(ts) : place[t] = "local" /\ owner[t] = b
             /\ Len(ts) = n /\ Cardinality(RangeOf(ts)) = n
             /\ Len(w) = Len(localQueue[b]) - n
             /\ \A x \in RangeOf(localQueue[b]) : x \in RangeOf(ts) \/ x \in RangeOf(w)
    <2>1. SchedulingInv BY <1>1
    <2> QED BY <2>1, RunBatchTakes
  <1>3. /\ stage[b] = "walking" /\ stage' = [stage EXCEPT ![b] = "running"]
        /\ UNCHANGED <<owner, limit, ended>>
    BY DEF RunBatch
  <1>4. /\ localQueue'[b] = w /\ \A a \in Batches \ {b} : localQueue'[a] = localQueue[a]
        /\ stage'[b] = "running" /\ \A a \in Batches \ {b} : stage'[a] = stage[a]
    BY <1>1, <1>2, <1>3
  <1>5. ASSUME NEW a \in Batches PROVE ConservesAt(a)'
    <2>1. CASE a = b
      <3>1. SUFFICES ASSUME localQueue'[b] # <<>>
                     PROVE  Cardinality(LocalPending(b, place)') >= limit'[b]
        BY <2>1 DEF ConservesAt
      <3>2. n = limit[b] /\ limit[b] \in Nat
        <4>1. limit[b] \in Nat /\ Len(localQueue[b]) \in Nat
          BY <1>1, LimitsAreNumbers DEF TypeOK
        <4>2. Len(w) # 0 BY <1>4, <3>1
        <4> QED BY <1>2, <4>1, <4>2 DEF Smaller
      <3>3. RangeOf(ts) \subseteq LocalPending(b, place)'
        BY <1>2 DEF Taken, LocalPending
      <3>4. LocalPending(b, place)' \in SUBSET Tasks BY DEF LocalPending
      <3>5. /\ IsFiniteSet(LocalPending(b, place)')
            /\ Cardinality(LocalPending(b, place)') \in Nat
        BY <3>4, FS_Subset, FS_CardinalityType, SchedulingAssumption
      <3>6. Cardinality(RangeOf(ts)) <= Cardinality(LocalPending(b, place)')
        BY <3>3, <3>5, FS_Subset
      <3> QED BY <1>2, <1>3, <3>2, <3>5, <3>6
    <2>2. CASE a # b
      <3>1. \A s \in Tasks : IsPending(s, a, owner, place) <=> IsPending(s, a, owner', place')
        BY <1>2, <1>3, <2>2 DEF IsPending, Taken
      <3>2. /\ stage'[a] = stage[a] /\ limit'[a] = limit[a] /\ localQueue'[a] = localQueue[a]
        BY <1>3, <1>4, <2>2
      <3> QED BY <1>1, <3>1, <3>2, ConservesKept
    <2> QED BY <2>1, <2>2
  <1>6. ASSUME NEW s \in Tasks
        PROVE  /\ place'[s] = "new" => owner'[s] = 0
               /\ place'[s] = "local" => s \in RangeOf(localQueue'[owner'[s]])
               /\ owner'[s] \in Batches =>
                    /\ stage'[owner'[s]] # "unborn"
                    /\ stage'[owner'[s]] = "walking" => place'[s] \in {"local", "dropped"}
    <2>1. CASE s \in RangeOf(ts) BY <1>2, <1>3, <1>4, <2>1 DEF Taken
    <2>2. CASE s \notin RangeOf(ts)
      <3>1. place'[s] = place[s] /\ owner'[s] = owner[s] BY <1>2, <1>3, <2>2 DEF Taken
      <3>2. place[s] = "local" => owner[s] \in Batches /\ s \in RangeOf(localQueue[owner[s]])
        BY <1>1 DEF Placed, Linked
      <3>3. place[s] = "local" => s \in RangeOf(localQueue'[owner[s]])
        BY <1>2, <1>4, <2>2, <3>2
      <3> QED BY <1>1, <1>4, <3>1, <3>3 DEF Placed
    <2> QED BY <2>1, <2>2
  <1>7. /\ \A a \in Batches : stage'[a] # "unborn" => limit'[a] \in Limits
        /\ \A a \in ended' : stage'[a] = "over"
    BY <1>1, <1>3, <1>4 DEF Placed, TypeOK
  <1>8. Placed' BY <1>6, <1>7 DEF Placed
  <1> QED BY <1>5, <1>8, ConservesEverywhere

LEMMA RetryCommandPlaced ==
    ASSUME QueuesInv, NEW b \in Batches, NEW t \in Tasks, NEW c \in Limits,
           RetryCommand(b, t, c)
    PROVE  Placed' /\ BatchConserves'
  <1>1. /\ SchedulingInv /\ Placed /\ BatchConserves
        /\ owner \in [Tasks -> Batches \cup {0}] /\ row \in [Tasks -> Rows]
        /\ stage \in [Batches -> Stages] /\ limit \in [Batches -> Limits \cup {NoLimit}]
        /\ localQueue \in [Batches -> Seq(Tasks)] /\ ended \subseteq Batches
    BY DEF QueuesInv, SchedulingInv, TypeOK
  <1>2. /\ stage[b] = "unborn" /\ row[t] = "error"
        /\ stage' = [stage EXCEPT ![b] = "running"] /\ limit' = [limit EXCEPT ![b] = c]
        /\ owner' = [owner EXCEPT ![t] = b] /\ localQueue' = localQueue /\ ended' = ended
        /\ Dispatch(place, [row EXCEPT ![t] = "queued"], <<t>>, CeilingFor(c))
    BY DEF RetryCommand
  <1>3. place[t] = "reported" BY <1>1, <1>2 DEF SchedulingInv, Linked
  <1>4. /\ \A s \in Tasks \ {t} : place'[s] = place[s] /\ owner'[s] = owner[s]
        /\ place'[t] \in {"gate", "running", "settled"} /\ owner'[t] = b
    <2>1. [row EXCEPT ![t] = "queued"] \in [Tasks -> Rows] BY <1>1 DEF Rows
    <2>2. CeilingFor(c) \in Nat
      BY <1>1, SchedulingAssumption DEF CeilingFor, SchedulingInv, TypeOK
    <2>3. place[t] \notin {"local", "gate"} BY <1>3
    <2>4. /\ \A s \in Tasks \ {t} : place'[s] = place[s]
          /\ place'[t] \in {"gate", "running", "settled"}
      BY <1>1, <1>2, <2>1, <2>2, <2>3, DispatchOneFacts
    <2> QED BY <1>1, <1>2, <2>4
  <1>5. localQueue[b] = <<>>
    <2>1. SUFFICES ASSUME localQueue[b] # <<>> PROVE FALSE OBVIOUS
    <2>2. localQueue[b] \in Seq(Tasks) /\ 1 \in 1..Len(localQueue[b])
      BY <1>1, <2>1, TailFacts
    <2>3. localQueue[b][1] \in Tasks /\ owner[localQueue[b][1]] = b
      BY <2>2 DEF QueuesInv, SchedulingInv, QueuesAgree
    <2> QED BY <1>1, <1>2, <2>3 DEF Placed
  <1>6. ASSUME NEW a \in Batches PROVE ConservesAt(a)'
    <2>1. CASE a = b BY <1>2, <1>5, <2>1 DEF ConservesAt
    <2>2. CASE a # b
      <3>1. \A s \in Tasks : IsPending(s, a, owner, place) <=> IsPending(s, a, owner', place')
        BY <1>3, <1>4, <2>2 DEF IsPending, PendingPlaces
      <3>2. stage'[a] = stage[a] /\ limit'[a] = limit[a] /\ localQueue'[a] = localQueue[a]
        BY <1>1, <1>2, <2>2
      <3> QED BY <1>1, <3>1, <3>2, ConservesKept
    <2> QED BY <2>1, <2>2
  <1>7. ASSUME NEW s \in Tasks
        PROVE  /\ place'[s] = "new" => owner'[s] = 0
               /\ place'[s] = "local" => s \in RangeOf(localQueue'[owner'[s]])
               /\ owner'[s] \in Batches =>
                    /\ stage'[owner'[s]] # "unborn"
                    /\ stage'[owner'[s]] = "walking" => place'[s] \in {"local", "dropped"}
    <2>1. stage'[b] = "running" /\ \A a \in Batches \ {b} : stage'[a] = stage[a]
      BY <1>1, <1>2
    <2>2. CASE s = t BY <1>4, <2>1, <2>2
    <2>3. CASE s # t BY <1>1, <1>2, <1>4, <2>1, <2>3 DEF Placed
    <2> QED BY <2>2, <2>3
  <1>8. /\ \A a \in Batches : stage'[a] # "unborn" => limit'[a] \in Limits
        /\ \A a \in ended' : stage'[a] = "over"
    BY <1>1, <1>2 DEF Placed
  <1>9. Placed' BY <1>7, <1>8 DEF Placed
  <1> QED BY <1>6, <1>9, ConservesEverywhere

LEMMA ReconnectSucceedsPlaced ==
    ASSUME QueuesInv, NEW t \in Tasks, ReconnectSucceeds(t)
    PROVE  Placed' /\ BatchConserves'
  <1>1. /\ SchedulingInv /\ Placed /\ BatchConserves /\ owner[t] \in Batches
        /\ place \in [Tasks -> Places] /\ row \in [Tasks -> Rows]
        /\ localQueue \in [Batches -> Seq(Tasks)] /\ place[t] = "reconnect"
        /\ gateLimit \in Nat /\ limit[owner[t]] \in Nat
    BY LimitsAreNumbers
       DEF QueuesInv, SchedulingInv, TypeOK, Linked, ReconnectSucceeds
  <1>2. PICK b \in Batches : b = owner[t] BY <1>1
  <1>3. UNCHANGED <<owner, stage, limit, ended>> BY DEF ReconnectSucceeds
  <1>4. CASE Cardinality(LocalPending(b, place)) < limit[b]
    <2>1. Dispatch(place, row, <<t>>, gateLimit) /\ localQueue' = localQueue
      BY <1>2, <1>4 DEF ReconnectSucceeds
    <2>2. /\ \A s \in Tasks \ {t} : place'[s] = place[s]
          /\ place'[t] \in {"gate", "running", "settled"}
      BY <1>1, <2>1, DispatchOneFacts
    <2>3. ASSUME NEW a \in Batches PROVE ConservesAt(a)'
      <3>1. CASE a = b
        <4>1. SUFFICES ASSUME stage'[b] = "running" /\ localQueue'[b] # <<>> PROVE FALSE
          BY <3>1 DEF ConservesAt
        <4>2. Cardinality(LocalPending(b, place)) >= limit[b]
          BY <1>1, <1>3, <2>1, <4>1 DEF BatchConserves
        <4>3. Cardinality(LocalPending(b, place)) \in Nat BY PendingFinite
        <4> QED BY <1>1, <1>2, <1>4, <4>2, <4>3
      <3>2. CASE a # b
        <4>1. \A s \in Tasks : IsPending(s, a, owner, place) <=> IsPending(s, a, owner', place')
          BY <1>2, <1>3, <2>2, <3>2 DEF IsPending
        <4> QED BY <1>1, <1>3, <2>1, <4>1, ConservesKept
      <3> QED BY <3>1, <3>2
    <2>4. ASSUME NEW s \in Tasks
          PROVE  /\ place'[s] = "new" => owner'[s] = 0
                 /\ place'[s] = "local" => s \in RangeOf(localQueue'[owner'[s]])
                 /\ owner'[s] \in Batches =>
                      /\ stage'[owner'[s]] # "unborn"
                      /\ stage'[owner'[s]] = "walking" => place'[s] \in {"local", "dropped"}
      BY <1>1, <1>3, <2>1, <2>2 DEF Placed
    <2>5. Placed' BY <1>1, <1>3, <2>4 DEF Placed
    <2> QED BY <2>3, <2>5, ConservesEverywhere
  <1>5. CASE ~(Cardinality(LocalPending(b, place)) < limit[b])
    <2>1. /\ place' = [place EXCEPT ![t] = "local"]
          /\ localQueue' = [localQueue EXCEPT ![b] = Append(localQueue[b], t)]
      BY <1>2, <1>5 DEF ReconnectSucceeds
    <2>2. /\ localQueue'[b] = Append(localQueue[b], t)
          /\ \A a \in Batches \ {b} : localQueue'[a] = localQueue[a]
          /\ place'[t] = "local" /\ \A s \in Tasks \ {t} : place'[s] = place[s]
      BY <1>1, <2>1
    <2>3. /\ t \in RangeOf(localQueue'[b])
          /\ \A x \in RangeOf(localQueue[b]) : x \in RangeOf(localQueue'[b])
      BY <1>1, <2>2, AppendCovers
    <2>4. ASSUME NEW a \in Batches PROVE ConservesAt(a)'
      <3>1. \A s \in Tasks : IsPending(s, a, owner, place) <=> IsPending(s, a, owner', place')
        BY <1>1, <1>3, <2>2 DEF IsPending, PendingPlaces
      <3>2. CASE a = b
        <4>1. LocalPending(b, place)' = LocalPending(b, place)
          BY <3>1, <3>2 DEF LocalPending, IsPending, PendingPlaces
        <4>2. Cardinality(LocalPending(b, place)) \in Nat BY PendingFinite
        <4>3. Cardinality(LocalPending(b, place)) >= limit[b] BY <1>1, <1>2, <1>5, <4>2
        <4> QED BY <1>3, <3>2, <4>1, <4>3 DEF ConservesAt
      <3>3. CASE a # b BY <1>1, <1>3, <2>2, <3>1, <3>3, ConservesKept
      <3> QED BY <3>2, <3>3
    <2>5. ASSUME NEW s \in Tasks
          PROVE  /\ place'[s] = "new" => owner'[s] = 0
                 /\ place'[s] = "local" => s \in RangeOf(localQueue'[owner'[s]])
                 /\ owner'[s] \in Batches =>
                      /\ stage'[owner'[s]] # "unborn"
                      /\ stage'[owner'[s]] = "walking" => place'[s] \in {"local", "dropped"}
      <3>1. CASE s = t BY <1>1, <1>2, <1>3, <2>2, <2>3, <3>1 DEF Placed
      <3>2. CASE s # t
        <4>1. place[s] = "local" => owner[s] \in Batches /\ s \in RangeOf(localQueue[owner[s]])
          BY <1>1 DEF Placed, SchedulingInv, Linked
        <4>2. place'[s] = "local" => s \in RangeOf(localQueue'[owner[s]])
          BY <2>2, <2>3, <3>2, <4>1
        <4> QED BY <1>1, <1>3, <2>2, <3>2, <4>2 DEF Placed
      <3> QED BY <3>1, <3>2
    <2>6. Placed' BY <1>1, <1>3, <2>5 DEF Placed
    <2> QED BY <2>4, <2>6, ConservesEverywhere
  <1> QED BY <1>4, <1>5

\* When task t is done its place is x; either the next task u of its batch goes to the
\* gate, or none is queued and the batch may be over.
NextStarts(t, x, u) ==
    /\ localQueue[owner[t]] # <<>> /\ u = Head(localQueue[owner[t]])
    /\ place[u] = "local" /\ owner[u] = owner[t] /\ u # t
    /\ place'[t] = x /\ place'[u] \in {"gate", "running", "settled"}
    /\ \A s \in Tasks \ {t, u} : place'[s] = place[s]
    /\ localQueue' = [localQueue EXCEPT ![owner[t]] = Tail(@)]
    /\ UNCHANGED <<stage, ended, schedulers, gateLimit, heldLimit>>

NoneStarts(t, x) ==
    /\ localQueue[owner[t]] = <<>>
    /\ place' = [place EXCEPT ![t] = x]
    /\ UNCHANGED <<localQueue, gateQueue>>
    /\ IF LocalPending(owner[t], place') = {}
       THEN FinishRun(owner[t], place')
       ELSE UNCHANGED <<stage, ended, schedulers, gateLimit, heldLimit>>

LEMMA LocalNextCases ==
    ASSUME SchedulingInv, NEW t \in Tasks, place[t] = "released", owner' = owner,
           NEW x \in {"backoff", "reported"},
           NEW r \in [Tasks -> Rows],
           LocalNext(t, [place EXCEPT ![t] = x], r)
    PROVE  NoneStarts(t, x) \/ \E u \in Tasks : NextStarts(t, x, u)
  <1>1. /\ TypeOK /\ QueuesAgree /\ place \in [Tasks -> Places] /\ owner[t] \in Batches
        /\ localQueue \in [Batches -> Seq(Tasks)] /\ gateLimit \in Nat
    BY LimitsAreNumbers DEF SchedulingInv, TypeOK, Linked
  <1>2. PICK b \in Batches : b = owner[t] BY <1>1
  <1>3. PICK q \in Seq(Tasks) : q = localQueue[b] BY <1>1
  <1>4. CASE q = <<>>
    <2>1. /\ place' = [place EXCEPT ![t] = x]
          /\ UNCHANGED <<localQueue, gateQueue>>
          /\ IF LocalPending(b, [place EXCEPT ![t] = x]) = {}
             THEN FinishRun(b, [place EXCEPT ![t] = x])
             ELSE UNCHANGED <<stage, ended, schedulers, gateLimit, heldLimit>>
      BY <1>2, <1>3, <1>4 DEF LocalNext
    <2>2. /\ LocalPending(b, place') = LocalPending(b, [place EXCEPT ![t] = x])
          /\ FinishRun(b, place') <=> FinishRun(b, [place EXCEPT ![t] = x])
      BY <2>1
    <2> QED BY <1>2, <1>3, <1>4, <2>1, <2>2 DEF NoneStarts
  <1>5. CASE q # <<>>
    <2>1. PICK u \in Tasks : u = Head(q) BY <1>5, TailFacts
    <2>2. PICK p \in [Tasks -> Places] : p = [place EXCEPT ![t] = x]
      BY <1>1 DEF Places
    <2>3. /\ Dispatch(p, r, <<u>>, gateLimit)
          /\ localQueue' = [localQueue EXCEPT ![b] = Tail(@)]
          /\ UNCHANGED <<stage, ended, schedulers, gateLimit, heldLimit>>
      BY <1>2, <1>3, <1>5, <2>1, <2>2 DEF LocalNext
    <2>4. place[u] = "local" /\ owner[u] = b
      <3>1. u = q[1] /\ 1 \in 1..Len(q) BY <1>5, <2>1, TailFacts
      <3> QED BY <1>1, <1>3, <3>1 DEF QueuesAgree
    <2>5. u # t BY <2>4
    <2>6. p[t] = x /\ \A s \in Tasks \ {t} : p[s] = place[s] BY <1>1, <2>2
    <2>7. /\ <<u>> \in Seq(Tasks) /\ Len(<<u>>) = 1 /\ <<u>>[1] = u /\ RangeOf(<<u>>) = {u}
      BY DEF RangeOf
    <2>8. /\ \A i, j \in 1..Len(<<u>>) : i # j => <<u>>[i] # <<u>>[j]
          /\ \A i \in 1..Len(<<u>>) : place[<<u>>[i]] # "gate"
      BY <2>4, <2>7
    <2>9. \A i \in 1..Len(gateQueue) : p[gateQueue[i]] = "gate"
      BY <1>1, <2>6, SMTT(40) DEF QueuesAgree, TypeOK
    <2>12. TypeOK /\ QueuesAgree /\ gateLimit \in Nat BY <1>1
    <2>10. /\ place' \in [Tasks -> Places] /\ row' \in [Tasks -> Rows]
           /\ result' \in [Tasks -> Results] /\ gateQueue' \in Seq(Tasks)
           /\ \A s \in Tasks \ RangeOf(<<u>>) : place'[s] = p[s] /\ row'[s] = r[s]
           /\ \A s \in RangeOf(<<u>>) :
                /\ s \in Tasks
                /\ place'[s] \in {"gate", "running", "settled"}
                /\ place'[s] = "running" => s \notin cancelled \cup ticketCancelled
                /\ row'[s] \in {"transferring", r[s]}
           /\ \A i \in 1..Len(gateQueue') : place'[gateQueue'[i]] = "gate"
           /\ \A i, j \in 1..Len(gateQueue') : i # j => gateQueue'[i] # gateQueue'[j]
      BY <2>3, <2>7, <2>8, <2>9, <2>12, DispatchFacts
    <2>11. /\ place'[t] = x /\ place'[u] \in {"gate", "running", "settled"}
           /\ \A s \in Tasks \ {t, u} : place'[s] = place[s]
      BY <2>5, <2>6, <2>7, <2>10
    <2> QED BY <1>2, <1>3, <1>5, <2>1, <2>3, <2>4, <2>5, <2>11 DEF NextStarts
  <1> QED BY <1>4, <1>5

LEMMA DoneCases ==
    ASSUME SchedulingInv, NEW t \in Tasks, Park(t) \/ Report(t)
    PROVE  \E x \in {"backoff", "reported"} :
             /\ place[t] = "released" /\ UNCHANGED <<owner, limit>>
             /\ x = "backoff" <=> WillRetry(t)
             /\ x = "backoff" => Park(t)
             /\ NoneStarts(t, x) \/ \E u \in Tasks : NextStarts(t, x, u)
  <1>1. row \in [Tasks -> Rows] BY DEF SchedulingInv, TypeOK
  <1>2. CASE Park(t)
    <2>1. /\ place[t] = "released" /\ WillRetry(t) /\ owner' = owner /\ limit' = limit
          /\ LocalNext(t, [place EXCEPT ![t] = "backoff"], row)
      BY <1>2 DEF Park
    <2>2. NoneStarts(t, "backoff") \/ \E u \in Tasks : NextStarts(t, "backoff", u)
      BY <1>1, <2>1, LocalNextCases
    <2> QED BY <1>2, <2>1, <2>2
  <1>3. CASE Report(t)
    <2> DEFINE r == [row EXCEPT ![t] = ReportedRow(t, result[t] # "ok")]
    <2>1. /\ place[t] = "released" /\ ~WillRetry(t) /\ owner' = owner /\ limit' = limit
          /\ LocalNext(t, [place EXCEPT ![t] = "reported"], r)
      BY <1>3 DEF Report
    <2>2. r \in [Tasks -> Rows] BY <1>1 DEF ReportedRow, Rows
    <2> HIDE DEF r
    <2>3. NoneStarts(t, "reported") \/ \E u \in Tasks : NextStarts(t, "reported", u)
      BY <2>1, <2>2, LocalNextCases
    <2> QED BY <2>1, <2>3
  <1> QED BY <1>2, <1>3

LEMMA DonePlaced ==
    ASSUME QueuesInv, NEW t \in Tasks, Park(t) \/ Report(t)
    PROVE  Placed' /\ BatchConserves'
  <1>1. /\ SchedulingInv /\ Placed /\ BatchConserves
        /\ place \in [Tasks -> Places] /\ localQueue \in [Batches -> Seq(Tasks)]
        /\ owner[t] \in Batches \cup {0} /\ stage \in [Batches -> Stages]
    BY DEF QueuesInv, SchedulingInv, TypeOK
  <1>2. PICK x \in {"backoff", "reported"} :
          /\ place[t] = "released" /\ UNCHANGED <<owner, limit>>
          /\ x = "backoff" <=> WillRetry(t)
          /\ x = "backoff" => Park(t)
          /\ NoneStarts(t, x) \/ \E u \in Tasks : NextStarts(t, x, u)
    BY <1>1, DoneCases
  <1>3. PICK b \in Batches : b = owner[t]
    BY <1>1, <1>2 DEF SchedulingInv, Linked
  <1>4. CASE NoneStarts(t, x)
    <2>1. /\ localQueue[b] = <<>> /\ localQueue' = localQueue
          /\ place'[t] = x /\ \A s \in Tasks \ {t} : place'[s] = place[s]
      BY <1>1, <1>3, <1>4 DEF NoneStarts
    <2>2. /\ \A a \in Batches :
                /\ stage'[a] \in {"running", "walking"} => stage'[a] = stage[a]
                /\ stage[a] # "unborn" <=> stage'[a] # "unborn"
          /\ \A a \in ended' : stage'[a] = "over"
      <3>1. CASE UNCHANGED <<stage, ended>> BY <1>1, <3>1 DEF Placed
      <3>2. CASE FinishRun(b, place')
        <4>1. PICK S \in SUBSET Batches : S = IF CanFinish(b, place') THEN {b} ELSE {}
          OBVIOUS
        <4>2. Finish(S) /\ \A a \in S : stage[a] # "unborn"
          BY <3>2, <4>1 DEF FinishRun, CanFinish
        <4> QED BY <4>2, FinishIsQuiet
      <3> QED BY <1>3, <1>4, <3>1, <3>2 DEF NoneStarts
    <2>3. ASSUME NEW a \in Batches PROVE ConservesAt(a)'
      <3>1. CASE a = b BY <2>1, <3>1 DEF ConservesAt
      <3>2. CASE a # b
        <4>1. \A s \in Tasks : IsPending(s, a, owner, place) <=> IsPending(s, a, owner', place')
          BY <1>2, <1>3, <2>1, <3>2 DEF IsPending
        <4> QED BY <1>1, <1>2, <2>1, <2>2, <4>1, ConservesKept
      <3> QED BY <3>1, <3>2
    <2>4. ASSUME NEW s \in Tasks
          PROVE  /\ place'[s] = "new" => owner'[s] = 0
                 /\ place'[s] = "local" => s \in RangeOf(localQueue'[owner'[s]])
                 /\ owner'[s] \in Batches =>
                      /\ stage'[owner'[s]] # "unborn"
                      /\ stage'[owner'[s]] = "walking" => place'[s] \in {"local", "dropped"}
      BY <1>1, <1>2, <1>3, <2>1, <2>2 DEF Placed
    <2>5. Placed' BY <1>1, <1>2, <2>2, <2>4 DEF Placed
    <2> QED BY <2>3, <2>5, ConservesEverywhere
  <1>5. ASSUME NEW u \in Tasks, NextStarts(t, x, u) PROVE Placed' /\ BatchConserves'
    <2>1. /\ localQueue[b] # <<>> /\ u = Head(localQueue[b])
          /\ place[u] = "local" /\ owner[u] = b /\ u # t
          /\ place'[t] = x /\ place'[u] \in {"gate", "running", "settled"}
          /\ \A s \in Tasks \ {t, u} : place'[s] = place[s]
          /\ localQueue'[b] = Tail(localQueue[b])
          /\ \A a \in Batches \ {b} : localQueue'[a] = localQueue[a]
          /\ UNCHANGED <<stage, ended>>
      BY <1>1, <1>3, <1>5 DEF NextStarts
    <2>2. \A y \in RangeOf(localQueue[b]) : y = u \/ y \in RangeOf(localQueue'[b])
      BY <1>1, <2>1, TailCovers
    <2>3. ASSUME NEW a \in Batches PROVE ConservesAt(a)'
      <3>1. CASE a = b
        <4>1. SUFFICES ASSUME stage'[b] = "running"
                       PROVE  Cardinality(LocalPending(b, place)') >= limit'[b]
          BY <3>1 DEF ConservesAt
        <4>2. Cardinality(LocalPending(b, place)) >= limit[b]
          BY <1>1, <2>1, <4>1 DEF BatchConserves
        <4>3. t \in LocalPending(b, place) /\ u \notin LocalPending(b, place)
          BY <1>2, <1>3, <2>1 DEF LocalPending
        <4>4. LocalPending(b, place)' = (LocalPending(b, place) \ {t}) \cup {u}
          <5>1. \A s \in Tasks :
                   (owner'[s] = b /\ place'[s] \in PendingPlaces)
                      <=> \/ s = u
                          \/ s # t /\ owner[s] = b /\ place[s] \in PendingPlaces
            BY <1>2, <1>3, <2>1 DEF PendingPlaces
          <5> QED BY <2>1, <5>1 DEF LocalPending, PendingPlaces
        <4>5. IsFiniteSet(LocalPending(b, place)) BY PendingFinite
        <4>6. Cardinality((LocalPending(b, place) \ {t}) \cup {u})
                = Cardinality(LocalPending(b, place))
          BY <4>3, <4>5, ReplaceCount
        <4> QED BY <1>2, <4>2, <4>4, <4>6
      <3>2. CASE a # b
        <4>1. \A s \in Tasks : IsPending(s, a, owner, place) <=> IsPending(s, a, owner', place')
          BY <1>2, <1>3, <2>1, <3>2 DEF IsPending
        <4> QED BY <1>1, <1>2, <2>1, <3>2, <4>1, ConservesKept
      <3> QED BY <3>1, <3>2
    <2>4. ASSUME NEW s \in Tasks
          PROVE  /\ place'[s] = "new" => owner'[s] = 0
                 /\ place'[s] = "local" => s \in RangeOf(localQueue'[owner'[s]])
                 /\ owner'[s] \in Batches =>
                      /\ stage'[owner'[s]] # "unborn"
                      /\ stage'[owner'[s]] = "walking" => place'[s] \in {"local", "dropped"}
      <3>1. CASE s \in {t, u} BY <1>1, <1>2, <1>3, <2>1, <3>1 DEF Placed
      <3>2. CASE s \notin {t, u}
        <4>1. place[s] = "local" => owner[s] \in Batches /\ s \in RangeOf(localQueue[owner[s]])
          BY <1>1 DEF Placed, SchedulingInv, Linked
        <4>2. place[s] = "local" => s \in RangeOf(localQueue'[owner[s]])
          BY <2>1, <2>2, <3>2, <4>1
        <4> QED BY <1>1, <1>2, <2>1, <3>2, <4>2 DEF Placed
      <3> QED BY <3>1, <3>2
    <2>5. Placed' BY <1>1, <1>2, <2>1, <2>4 DEF Placed
    <2> QED BY <2>3, <2>5, ConservesEverywhere
  <1> QED BY <1>2, <1>4, <1>5

LEMMA StopBatchesPlaced ==
    ASSUME QueuesInv, NEW S \in SUBSET Batches, \A b \in S : stage[b] # "unborn",
           NEW more, NEW done \in SUBSET S, StopBatches(S, more), Finish(done)
    PROVE  Placed' /\ BatchConserves'
  <1>1. /\ Placed /\ BatchConserves /\ Linked /\ place \in [Tasks -> Places]
        /\ localQueue \in [Batches -> Seq(Tasks)]
    BY DEF QueuesInv, SchedulingInv, TypeOK
  <1>2. /\ \A t \in Tasks :
             /\ place[t] \in {"backoff", "reconnect"} /\ owner[t] \in S => place'[t] = "reported"
             /\ place[t] = "local" /\ owner[t] \in S => place'[t] = "dropped"
             /\ ~(owner[t] \in S /\ place[t] \in {"local", "backoff", "reconnect"})
                   => place'[t] = place[t]
        /\ \A b \in S : localQueue'[b] = <<>>
        /\ \A b \in Batches \ S : localQueue'[b] = localQueue[b]
        /\ UNCHANGED <<owner, limit>>
    BY <1>1 DEF StopBatches
  <1>3. /\ \A b \in Batches :
             /\ stage'[b] \in {"running", "walking"} => stage'[b] = stage[b]
             /\ stage[b] # "unborn" <=> stage'[b] # "unborn"
        /\ \A b \in ended' : stage'[b] = "over"
    BY FinishIsQuiet
  <1>4. ASSUME NEW a \in Batches PROVE ConservesAt(a)'
    <2>1. CASE a \in S BY <1>2, <2>1 DEF ConservesAt
    <2>2. CASE a \notin S
      <3>1. \A s \in Tasks : IsPending(s, a, owner, place) <=> IsPending(s, a, owner', place')
        BY <1>2, <2>2 DEF IsPending
      <3> QED BY <1>1, <1>2, <1>3, <2>2, <3>1, ConservesKept
    <2> QED BY <2>1, <2>2
  <1>5. ASSUME NEW s \in Tasks
        PROVE  /\ place'[s] = "new" => owner'[s] = 0
               /\ place'[s] = "local" => s \in RangeOf(localQueue'[owner'[s]])
               /\ owner'[s] \in Batches =>
                    /\ stage'[owner'[s]] # "unborn"
                    /\ stage'[owner'[s]] = "walking" => place'[s] \in {"local", "dropped"}
    BY <1>1, <1>2, <1>3 DEF Placed, Linked
  <1>6. Placed' BY <1>1, <1>2, <1>3, <1>5 DEF Placed
  <1> QED BY <1>4, <1>6, ConservesEverywhere

\* What Stop(b) or CancelAll does to the set S of batches it stops.
StopsSome(S, done) ==
    /\ \A b \in S : stage[b] # "unborn"
    /\ done = {b \in S : EndsWhenStopped(b)}
    /\ Finish(done)
    /\ StopBatches(S, {}) \/ StopBatches(S, pendingTasks)

LEMMA StopIsSome ==
    ASSUME SchedulingInv, NEW b \in Batches, Stop(b)
    PROVE  \E done \in SUBSET {b} : StopsSome({b}, done)
  <1>1. /\ stage[b] # "unborn" /\ StopBatches({b}, {})
        /\ Finish(IF EndsWhenStopped(b) THEN {b} ELSE {})
    BY DEF Stop
  <1>2. (IF EndsWhenStopped(b) THEN {b} ELSE {}) = {a \in {b} : EndsWhenStopped(a)}
    OBVIOUS
  <1>3. Finish({a \in {b} : EndsWhenStopped(a)}) BY <1>1, <1>2
  <1>4. StopsSome({b}, {a \in {b} : EndsWhenStopped(a)})
    BY <1>1, <1>3 DEF StopsSome
  <1> QED BY <1>4

LEMMA CancelAllIsSome ==
    ASSUME SchedulingInv, CancelAll
    PROVE  Visited \in SUBSET Batches /\ \E done \in SUBSET Visited : StopsSome(Visited, done)
  <1>1. /\ StopBatches(Visited, pendingTasks)
        /\ Finish({b \in Visited : EndsWhenStopped(b)})
    BY DEF CancelAll
  <1>2. Visited \subseteq schedulers BY DEF Visited
  <1>3. Visited \subseteq Batches /\ \A b \in Visited : stage[b] # "unborn"
    BY <1>2 DEF SchedulingInv, TypeOK, Linked
  <1>4. StopsSome(Visited, {b \in Visited : EndsWhenStopped(b)})
    BY <1>1, <1>3 DEF StopsSome
  <1> QED BY <1>3, <1>4

LEMMA StopsSomePlaced ==
    ASSUME QueuesInv, NEW S \in SUBSET Batches, NEW done \in SUBSET S, StopsSome(S, done)
    PROVE  Placed' /\ BatchConserves'
  <1>1. Finish(done) /\ \A b \in S : stage[b] # "unborn" BY DEF StopsSome
  <1>2. CASE StopBatches(S, {}) BY <1>1, <1>2, StopBatchesPlaced
  <1>3. CASE StopBatches(S, pendingTasks) BY <1>1, <1>3, StopBatchesPlaced
  <1> QED BY <1>2, <1>3 DEF StopsSome

LEMMA QueuesNext ==
    ASSUME QueuesInv, [Next]_vars
    PROVE  QueuesInv'
  <1>1. SchedulingInv' BY NextInv DEF QueuesInv
  <1>2. ASSUME QuietStep PROVE Placed' /\ BatchConserves' BY <1>2, QuietStepKeeps
  <1>3. CASE UNCHANGED vars
    <2>1. QuietStep
      BY <1>3 DEF vars, taskVars, batchVars, gateVars, QuietStep, QueuesInv, Placed
    <2> QED BY <1>1, <1>2, <2>1 DEF QueuesInv
  <1>4. CASE CancelAll
    <2>1. SchedulingInv BY DEF QueuesInv
    <2>2. PICK S \in SUBSET Batches : S = Visited BY <1>4, <2>1, CancelAllIsSome
    <2>3. PICK done \in SUBSET S : StopsSome(S, done) BY <1>4, <2>1, <2>2, CancelAllIsSome
    <2>4. Placed' /\ BatchConserves' BY <2>3, StopsSomePlaced
    <2> QED BY <1>1, <2>4 DEF QueuesInv
  <1>5. ASSUME NEW b \in Batches, BatchStep(b) PROVE Placed' /\ BatchConserves'
    <2>1. CASE \/ \E c \in Limits : CreateBatch(b, c)
               \/ RunEmptyBatch(b) \/ RunStoppedBatch(b) \/ WalkFails(b)
               \/ \E t \in Tasks : StaleReconnectEnds(b, t)
      BY <1>2, <2>1, QuietBatchSteps
    <2>2. ASSUME NEW t \in Tasks, AddTask(b, t) PROVE Placed' /\ BatchConserves'
      BY <2>2, AddTaskPlaced
    <2>3. CASE RunBatch(b) BY <2>3, RunBatchPlaced
    <2>4. ASSUME NEW t \in Tasks, NEW c \in Limits, RetryCommand(b, t, c)
          PROVE  Placed' /\ BatchConserves'
      BY <2>4, RetryCommandPlaced
    <2>5. CASE Stop(b)
      <3>1. PICK done \in SUBSET {b} : StopsSome({b}, done)
        BY <2>5, StopIsSome DEF QueuesInv
      <3> QED BY <3>1, StopsSomePlaced
    <2> QED BY <1>5, <2>1, <2>2, <2>3, <2>4, <2>5 DEF BatchStep
  <1>6. ASSUME NEW t \in Tasks, TaskStep(t) PROVE Placed' /\ BatchConserves'
    <2>1. CASE \/ \E r \in Results : TransferEnds(t, r)
               \/ GateDone(t) \/ TimerFires(t) \/ ReconnectFails(t) \/ CancelTask(t)
      BY <1>2, <2>1, QuietTaskSteps
    <2>2. CASE Park(t) \/ Report(t) BY <2>2, DonePlaced
    <2>3. CASE ReconnectSucceeds(t) BY <2>3, ReconnectSucceedsPlaced
    <2> QED BY <1>6, <2>1, <2>2, <2>3 DEF TaskStep
  <1> QED BY <1>1, <1>3, <1>4, <1>5, <1>6 DEF Next, QueuesInv

LEMMA QueuesInit == Init => QueuesInv
  <1>1. Init => SchedulingInv BY InitInv
  <1>2. ASSUME Init PROVE Placed /\ BatchConserves
    BY <1>2 DEF Init, Placed, BatchConserves, Batches
  <1> QED BY <1>1, <1>2 DEF QueuesInv

THEOREM QueuesInvariant == Spec => []QueuesInv
  BY QueuesInit, QueuesNext, PTL DEF Spec

(* For any number of tasks, batches and settings, and whatever is stopped, cancelled   *)
(* or fails: the queues hold exactly the tasks that wait in them, a stopped batch keeps *)
(* nothing it could start, and a running batch that still has a task in its queue uses *)
(* its whole concurrency, so a retry that comes back late never waits in vain.         *)
THEOREM QueuesStayTrue == Spec => []QueuesAreTrue
  <1>1. QueuesInv => QueuesAreTrue
    BY DEF QueuesInv, SchedulingInv, QueuesAreTrue
  <1> QED BY <1>1, QueuesInvariant, PTL

-------------------------------------------------------------------------------
(* What a step does to the gate. *)

AtGate == {"gate", "running", "settled"}
InSlot == {"running", "settled"}

GateSame == gateQueue' = gateQueue /\ Occupied' = Occupied

\* Tickets ts ask for a place; c is the ceiling they meet.
GateTakes(ts, c) ==
    /\ ts \in Seq(Tasks) /\ c = gateLimit'
    /\ \A i, j \in 1..Len(ts) : i # j => ts[i] # ts[j]
    /\ \A t \in RangeOf(ts) : t \notin Occupied
    /\ Occupied' = Occupied \cup RangeOf(Admitted(ts, c))
    /\ gateQueue' = gateQueue \o Waiting(ts, c)

\* A slot is given back, to the first in the queue if there is one.
GateFrees ==
    /\ gateLimit' = gateLimit
    /\ \/ gateQueue' = <<>> /\ gateQueue = <<>> /\ Occupied' \subseteq Occupied
       \/ gateQueue # <<>> /\ Cardinality(Occupied') = Cardinality(Occupied)

\* What the gate holds stays with its batch and is not yet reported.
HeldKept ==
    \A t \in Tasks : place[t] \in AtGate
        => owner'[t] = owner[t] /\ place'[t] \notin {"reported", "dropped"}

\* The ceiling moves only when every active batch has ended.
CeilingKept == gateLimit' # gateLimit => ActiveBatches \subseteq ended'

GateStep ==
    /\ HeldKept /\ CeilingKept
    /\ GateSame \/ GateFrees \/ \E ts \in Seq(Tasks), c \in Nat : GateTakes(ts, c)

LEMMA OccupiedFinite == IsFiniteSet(Occupied) /\ Cardinality(Occupied) \in Nat
  <1>1. Occupied \in SUBSET Tasks BY DEF Occupied, TasksAt
  <1> QED BY <1>1, FS_Subset, FS_CardinalityType, SchedulingAssumption

(* The tickets let in are as many as the ceiling leaves room for.              *)
LEMMA AdmittedFacts ==
    ASSUME NEW ts \in Seq(Tasks), NEW c \in Nat,
           \A i, j \in 1..Len(ts) : i # j => ts[i] # ts[j],
           \A t \in RangeOf(ts) : t \notin Occupied
    PROVE  \E n \in 0..Len(ts) :
             /\ n = Smaller(Len(ts), Larger(0, c - Cardinality(Occupied)))
             /\ Len(Waiting(ts, c)) = Len(ts) - n
             /\ Waiting(ts, c) \in Seq(Tasks)
             /\ Cardinality(Occupied \cup RangeOf(Admitted(ts, c))) = Cardinality(Occupied) + n
  <1>1. PICK n \in Nat : n = Smaller(Len(ts), Larger(0, c - Cardinality(Occupied)))
    BY OccupiedFinite DEF Smaller, Larger
  <1>2. n \in 0..Len(ts) BY <1>1, OccupiedFinite DEF Smaller, Larger
  <1>3. PICK a \in Seq(Tasks) : a = SubSeq(ts, 1, n)
    <2>1. 1 \in 1..(Len(ts) + 1) /\ n \in (1 - 1)..Len(ts) BY <1>2
    <2> QED BY <2>1, SubSeqFacts
  <1>4. a = Admitted(ts, c) BY <1>1, <1>3 DEF Admitted
  <1>5. Len(a) = n /\ \A i \in 1..n : a[i] = ts[i] /\ i \in 1..Len(ts)
    <2>1. 1 \in 1..(Len(ts) + 1) /\ n \in (1 - 1)..Len(ts) /\ n - 1 + 1 = n BY <1>2
    <2>2. /\ Len(SubSeq(ts, 1, n)) = n - 1 + 1
          /\ \A i \in 1..(n - 1 + 1) : SubSeq(ts, 1, n)[i] = ts[1 + i - 1]
      BY <2>1, SubSeqFacts
    <2> QED BY <1>2, <1>3, <2>1, <2>2
  <1>6. Cardinality(RangeOf(a)) = n /\ IsFiniteSet(RangeOf(a)) BY <1>5, DistinctCount
  <1>7. RangeOf(a) \cap Occupied = {}
    <2>1. ASSUME NEW x \in RangeOf(a) PROVE x \in RangeOf(ts)
      <3>1. PICK k \in 1..Len(a) : x = a[k] BY InRange
      <3>2. k \in 1..Len(ts) /\ x = ts[k] BY <1>5, <3>1
      <3> QED BY <3>2, InRange
    <2> QED BY <2>1
  <1>8. Cardinality(Occupied \cup RangeOf(a)) = Cardinality(Occupied) + n
    <2>1. Cardinality(Occupied \cup RangeOf(a))
            = Cardinality(Occupied) + Cardinality(RangeOf(a))
              - Cardinality(Occupied \cap RangeOf(a))
      BY <1>6, OccupiedFinite, FS_Union
    <2>2. Cardinality(Occupied \cap RangeOf(a)) = 0
      <3>1. Occupied \cap RangeOf(a) = {} BY <1>7
      <3> QED BY <3>1, FS_EmptySet
    <2> QED BY <1>6, <2>1, <2>2, OccupiedFinite
  <1>9. Waiting(ts, c) \in Seq(Tasks) /\ Len(Waiting(ts, c)) = Len(ts) - n
    <2>1. Len(Admitted(ts, c)) = n BY <1>4, <1>5
    <2>2. /\ Waiting(ts, c) \in Seq(Tasks)
          /\ \E m \in 0..Len(ts) :
               Len(Admitted(ts, c)) = m /\ Len(Waiting(ts, c)) = Len(ts) - m
      BY SplitFacts
    <2> QED BY <2>1, <2>2
  <1> QED BY <1>1, <1>2, <1>4, <1>8, <1>9

GateHolds == GateCeiling /\ GateConserves

(* No step overfills the gate or leaves a free place to a waiting ticket,       *)
(* provided a moved ceiling finds the gate idle.                                *)
LEMMA GateStepHolds ==
    ASSUME SchedulingInv, SchedulingInv', GateHolds, GateStep,
           gateLimit' # gateLimit => Occupied = {} /\ gateQueue = <<>>
    PROVE  GateHolds'
  <1>1. gateLimit \in Nat /\ gateLimit' \in Nat /\ gateQueue \in Seq(Tasks)
    BY LimitsAreNumbers DEF SchedulingInv, TypeOK
  <1>2. /\ Cardinality(Occupied) <= gateLimit
        /\ gateQueue # <<>> => Cardinality(Occupied) >= gateLimit
        /\ Cardinality(Occupied) \in Nat
    BY OccupiedFinite DEF GateHolds, GateCeiling, GateConserves
  <1>3. Cardinality({}) = 0 BY FS_EmptySet
  <1>4. PICK n \in Nat : n = Cardinality(Occupied) BY <1>2
  <1>5. n <= gateLimit' /\ (gateQueue # <<>> => n >= gateLimit')
    <2>1. CASE gateLimit' = gateLimit BY <1>2, <1>4, <2>1
    <2>2. CASE gateLimit' # gateLimit BY <1>1, <1>3, <1>4, <2>2
    <2> QED BY <2>1, <2>2
  <1>6. CASE GateSame
    BY <1>4, <1>5, <1>6 DEF GateSame, GateHolds, GateCeiling, GateConserves
  <1>7. CASE GateFrees
    <2>1. CASE gateQueue' = <<>> /\ Occupied' \subseteq Occupied
      <3>1. Cardinality(Occupied') <= n /\ Cardinality(Occupied') \in Nat
        BY <1>4, <2>1, OccupiedFinite, FS_Subset, FS_CardinalityType
      <3> QED BY <1>1, <1>5, <2>1, <3>1 DEF GateHolds, GateCeiling, GateConserves
    <2>2. CASE gateQueue # <<>> /\ Cardinality(Occupied') = Cardinality(Occupied)
      BY <1>4, <1>5, <2>2 DEF GateHolds, GateCeiling, GateConserves
    <2> QED BY <1>7, <2>1, <2>2 DEF GateFrees
  <1>8. ASSUME NEW ts \in Seq(Tasks), NEW c \in Nat, GateTakes(ts, c) PROVE GateHolds'
    <2>1. PICK k \in 0..Len(ts) :
             /\ k = Smaller(Len(ts), Larger(0, c - Cardinality(Occupied)))
             /\ Len(Waiting(ts, c)) = Len(ts) - k
             /\ Waiting(ts, c) \in Seq(Tasks)
             /\ Cardinality(Occupied \cup RangeOf(Admitted(ts, c))) = Cardinality(Occupied) + k
      BY <1>8, AdmittedFacts DEF GateTakes
    <2>2. Cardinality(Occupied') = n + k /\ c = gateLimit' BY <1>4, <1>8, <2>1 DEF GateTakes
    <2>3. k = Smaller(Len(ts), Larger(0, c - n)) /\ Len(ts) \in Nat BY <1>4, <2>1
    <2>4. /\ n + k <= c
          /\ k < Len(ts) => n + k = c
      <3>1. n <= c BY <1>5, <2>2
      <3> QED BY <2>3, <3>1 DEF Smaller, Larger
    <2>5. ASSUME gateQueue' # <<>> PROVE n + k >= gateLimit'
      <3>1. PICK w \in Seq(Tasks) : w = Waiting(ts, c) BY <2>1
      <3>2. gateQueue' = gateQueue \o w BY <1>8, <3>1 DEF GateTakes
      <3>3. CASE gateQueue # <<>> BY <1>1, <1>5, <2>1, <3>3
      <3>4. CASE gateQueue = <<>>
        <4>1. w # <<>> BY <2>5, <3>2, <3>4, <3>1
        <4>2. Len(w) # 0 BY <3>1, <4>1
        <4>3. k < Len(ts) BY <2>1, <2>3, <3>1, <4>2
        <4> QED BY <2>2, <2>4, <4>3
      <3> QED BY <3>3, <3>4
    <2> QED BY <2>2, <2>4, <2>5 DEF GateHolds, GateCeiling, GateConserves
  <1> QED BY <1>6, <1>7, <1>8 DEF GateStep

(* A batch that has ended and is whole holds nothing of the gate, so when the   *)
(* last active batch ends the gate is idle.                                     *)
LEMMA IdleWhenCeilingMoves ==
    ASSUME QueuesInv, GateStep, Accounted, Accounted', gateLimit' # gateLimit
    PROVE  Occupied = {} /\ gateQueue = <<>>
  <1>1. ASSUME NEW t \in Tasks, place[t] \in AtGate PROVE FALSE
    <2>1. owner[t] \in Batches /\ stage[owner[t]] # "unborn"
      BY <1>1 DEF AtGate, QueuesInv, SchedulingInv, Linked, Placed
    <2>2. owner[t] \notin ended BY <1>1 DEF Accounted, AtGate
    <2>3. owner[t] \in ended'
      BY <2>1, <2>2 DEF ActiveBatches, GateStep, CeilingKept
    <2>4. owner'[t] = owner[t] /\ place'[t] \notin {"reported", "dropped"}
      BY <1>1 DEF GateStep, HeldKept
    <2> QED BY <2>3, <2>4 DEF Accounted
  <1>2. Occupied = {} BY <1>1 DEF Occupied, TasksAt, AtGate
  <1>3. gateQueue = <<>>
    <2>1. SUFFICES ASSUME gateQueue # <<>> PROVE FALSE OBVIOUS
    <2>2. gateQueue \in Seq(Tasks) BY DEF QueuesInv, SchedulingInv, TypeOK
    <2>3. 1 \in 1..Len(gateQueue) /\ gateQueue[1] \in Tasks BY <2>1, <2>2, TailFacts
    <2>4. place[gateQueue[1]] = "gate" BY <2>3 DEF QueuesInv, SchedulingInv, QueuesAgree
    <2> QED BY <1>1, <2>3, <2>4 DEF AtGate
  <1> QED BY <1>2, <1>3

(* Every step is a gate step. *)

LEMMA SlotsKept ==
    ASSUME \A t \in Tasks : place[t] \in InSlot <=> place'[t] \in InSlot,
           gateQueue' = gateQueue
    PROVE  GateSame
  BY DEF GateSame, Occupied, TasksAt, InSlot

LEMMA FinishCeiling ==
    ASSUME NEW S, Finish(S)
    PROVE  CeilingKept
  BY DEF Finish, EndBatch, LastToEnd, CeilingKept

LEMMA DispatchGate ==
    ASSUME NEW p \in [Tasks -> Places], NEW r, NEW ts \in Seq(Tasks), NEW c \in Nat,
           \A i, j \in 1..Len(ts) : i # j => ts[i] # ts[j],
           \A t \in RangeOf(ts) : place[t] \notin AtGate,
           \A t \in Tasks \ RangeOf(ts) : place[t] \in InSlot <=> p[t] \in InSlot,
           c = gateLimit',
           Dispatch(p, r, ts, c)
    PROVE  GateTakes(ts, c)
  <1>1. /\ place' = [t \in Tasks |-> IF t \in RangeOf(Admitted(ts, c)) THEN EntersAs(t)
                                     ELSE IF t \in RangeOf(ts) THEN "gate" ELSE p[t]]
        /\ gateQueue' = gateQueue \o Waiting(ts, c)
    BY DEF Dispatch, PlacesAfter
  <1>2. \A t \in RangeOf(Admitted(ts, c)) : t \in RangeOf(ts) BY AdmittedIsPart
  <1>3. \A t \in RangeOf(ts) : t \in Tasks /\ t \notin Occupied
    <2>1. \A t \in RangeOf(ts) : t \in Tasks BY InRange
    <2> QED BY <2>1 DEF Occupied, TasksAt, AtGate
  <1>4. \A t \in Tasks : place'[t] \in InSlot <=>
                            place[t] \in InSlot \/ t \in RangeOf(Admitted(ts, c))
    <2> SUFFICES ASSUME NEW t \in Tasks
                 PROVE  place'[t] \in InSlot <=>
                            place[t] \in InSlot \/ t \in RangeOf(Admitted(ts, c))
      OBVIOUS
    <2>1. CASE t \in RangeOf(Admitted(ts, c)) BY <1>1, <2>1 DEF EntersAs, InSlot
    <2>2. CASE t \notin RangeOf(Admitted(ts, c)) /\ t \in RangeOf(ts)
      BY <1>1, <2>2 DEF InSlot, AtGate
    <2>3. CASE t \notin RangeOf(Admitted(ts, c)) /\ t \notin RangeOf(ts)
      BY <1>1, <2>3
    <2> QED BY <2>1, <2>2, <2>3
  <1>5. Occupied' = Occupied \cup RangeOf(Admitted(ts, c))
    BY <1>2, <1>3, <1>4 DEF Occupied, TasksAt, InSlot
  <1> QED BY <1>1, <1>3, <1>5 DEF GateTakes

(* The same for a single ticket, which then is nowhere else.                   *)
LEMMA DispatchOneGate ==
    ASSUME NEW p \in [Tasks -> Places], NEW r, NEW u \in Tasks, NEW c \in Nat,
           place[u] \notin AtGate,
           \A t \in Tasks \ {u} : place[t] \in InSlot <=> p[t] \in InSlot,
           c = gateLimit',
           Dispatch(p, r, <<u>>, c)
    PROVE  \E ts \in Seq(Tasks), d \in Nat : GateTakes(ts, d)
  <1>1. /\ <<u>> \in Seq(Tasks) /\ RangeOf(<<u>>) = {u}
        /\ \A i, j \in 1..Len(<<u>>) : i # j => <<u>>[i] # <<u>>[j]
    BY DEF RangeOf
  <1>2. /\ \A t \in RangeOf(<<u>>) : place[t] \notin AtGate
        /\ \A t \in Tasks \ RangeOf(<<u>>) : place[t] \in InSlot <=> p[t] \in InSlot
    BY <1>1
  <1>3. GateTakes(<<u>>, c) BY <1>1, <1>2, DispatchGate
  <1> QED BY <1>1, <1>3

LEMMA BatchGate ==
    ASSUME QueuesInv, NEW b \in Batches, BatchStep(b)
    PROVE  GateStep
  <1> USE DEF taskVars, batchVars, gateVars
  <1>1. /\ SchedulingInv /\ place \in [Tasks -> Places] /\ owner \in [Tasks -> Batches \cup {0}]
        /\ row \in [Tasks -> Rows] /\ gateLimit \in Nat
    BY LimitsAreNumbers DEF QueuesInv, SchedulingInv, TypeOK
  <1>2. ASSUME UNCHANGED <<place, owner, gateQueue>>, CeilingKept PROVE GateStep
    <2>1. GateSame BY <1>2, SlotsKept
    <2>2. HeldKept BY <1>2 DEF HeldKept, AtGate
    <2> QED BY <1>2, <2>1, <2>2 DEF GateStep
  <1>3. ASSUME NEW c \in Limits, CreateBatch(b, c) PROVE GateStep
    <2>1. CeilingKept BY <1>3 DEF CreateBatch, CeilingFor, CeilingKept
    <2> QED BY <1>2, <1>3, <2>1 DEF CreateBatch
  <1>4. ASSUME NEW t \in Tasks, AddTask(b, t) PROVE GateStep
    <2>1. /\ place[t] = "new" /\ place'[t] = "local" /\ owner' = [owner EXCEPT ![t] = b]
          /\ \A s \in Tasks \ {t} : place'[s] = place[s] /\ owner'[s] = owner[s]
          /\ UNCHANGED <<gateQueue, gateLimit>>
      BY <1>1, <1>4 DEF AddTask
    <2>2. GateSame BY <2>1, SlotsKept DEF InSlot
    <2>3. HeldKept /\ CeilingKept BY <2>1 DEF HeldKept, AtGate, CeilingKept
    <2> QED BY <2>2, <2>3 DEF GateStep
  <1>5. CASE RunBatch(b)
    <2>1. PICK n \in 0..Len(localQueue[b]), ts \in Seq(Tasks), w \in Seq(Tasks) :
             /\ n = Smaller(limit[b], Len(localQueue[b]))
             /\ ts = SubSeq(localQueue[b], 1, n)
             /\ w = SubSeq(localQueue[b], n + 1, Len(localQueue[b]))
             /\ localQueue' = [localQueue EXCEPT ![b] = w]
             /\ CutInTwo(localQueue[b], ts, w)
             /\ Taken(b, ts)
             /\ \A t \in RangeOf(ts) : place[t] = "local" /\ owner[t] = b
             /\ Len(ts) = n /\ Cardinality(RangeOf(ts)) = n
             /\ Len(w) = Len(localQueue[b]) - n
             /\ \A x \in RangeOf(localQueue[b]) : x \in RangeOf(ts) \/ x \in RangeOf(w)
      BY <1>1, <1>5, RunBatchTakes
    <2>2. Dispatch(place, row, ts, gateLimit) /\ UNCHANGED <<owner, gateLimit>>
      BY <1>5, <2>1 DEF RunBatch
    <2>3. \A i, j \in 1..Len(ts) : i # j => ts[i] # ts[j] BY <2>1 DEF CutInTwo
    <2>4. /\ \A t \in RangeOf(ts) : place[t] \notin AtGate
          /\ \A t \in Tasks \ RangeOf(ts) : place[t] \in InSlot <=> place[t] \in InSlot
      BY <2>1 DEF AtGate
    <2>5. gateLimit = gateLimit' BY <2>2
    <2>6. GateTakes(ts, gateLimit) BY <1>1, <2>2, <2>3, <2>4, <2>5, DispatchGate
    <2>7. HeldKept /\ CeilingKept
      BY <2>1, <2>2 DEF Taken, HeldKept, AtGate, CeilingKept
    <2> QED BY <1>1, <2>6, <2>7 DEF GateStep
  <1>6. CASE RunEmptyBatch(b)
    <2>1. CeilingKept BY <1>6, FinishCeiling DEF RunEmptyBatch
    <2> QED BY <1>2, <1>6, <2>1 DEF RunEmptyBatch
  <1>7. CASE RunStoppedBatch(b)
    BY <1>2, <1>7 DEF RunStoppedBatch, CeilingKept
  <1>8. CASE WalkFails(b)
    BY <1>2, <1>8 DEF WalkFails, CeilingKept
  <1>9. ASSUME NEW t \in Tasks, NEW c \in Limits, RetryCommand(b, t, c) PROVE GateStep
    <2>1. /\ row[t] = "error" /\ owner' = [owner EXCEPT ![t] = b]
          /\ gateLimit' = CeilingFor(c)
          /\ Dispatch(place, [row EXCEPT ![t] = "queued"], <<t>>, CeilingFor(c))
      BY <1>9 DEF RetryCommand
    <2>2. place[t] = "reported" BY <1>1, <2>1 DEF SchedulingInv, Linked
    <2>3. CeilingFor(c) \in Nat BY <1>1, LimitsAreNumbers DEF CeilingFor
    <2>4. PICK d \in Nat : d = CeilingFor(c) BY <2>3
    <2>5. place[t] \notin AtGate BY <2>2 DEF AtGate
    <2>6. \E ts \in Seq(Tasks), e \in Nat : GateTakes(ts, e)
      <3>1. d = gateLimit' /\ Dispatch(place, [row EXCEPT ![t] = "queued"], <<t>>, d)
        BY <2>1, <2>4
      <3>2. \A s \in Tasks \ {t} : place[s] \in InSlot <=> place[s] \in InSlot OBVIOUS
      <3> QED BY <1>1, <2>5, <3>1, <3>2, DispatchOneGate
    <2>7. CeilingKept BY <2>1 DEF CeilingFor, CeilingKept
    <2>8. HeldKept
      <3>1. [row EXCEPT ![t] = "queued"] \in [Tasks -> Rows] BY <1>1 DEF Rows
      <3>2. place[t] \notin {"local", "gate"} BY <2>2
      <3>3. \A s \in Tasks \ {t} : place'[s] = place[s]
        BY <1>1, <2>1, <2>3, <3>1, <3>2, DispatchOneFacts
      <3> QED BY <1>1, <2>1, <2>2, <3>3 DEF HeldKept, AtGate
    <2> QED BY <2>6, <2>7, <2>8 DEF GateStep
  <1>10. ASSUME NEW t \in Tasks, StaleReconnectEnds(b, t) PROVE GateStep
    <2>1. CeilingKept BY <1>10, FinishCeiling DEF StaleReconnectEnds, FinishRun
    <2> QED BY <1>2, <1>10, <2>1 DEF StaleReconnectEnds
  <1>11. CASE Stop(b)
    <2>1. CeilingKept BY <1>11, FinishCeiling DEF Stop
    <2>2. /\ \A t \in Tasks : place[t] \in AtGate => place'[t] = place[t]
          /\ \A t \in Tasks : place'[t] \in AtGate => place'[t] = place[t]
          /\ UNCHANGED <<owner, gateQueue>>
      BY <1>1, <1>11 DEF Stop, StopBatches, AtGate
    <2>3. GateSame BY <2>2, SlotsKept DEF AtGate, InSlot
    <2>4. HeldKept BY <2>2 DEF HeldKept, AtGate
    <2> QED BY <2>1, <2>3, <2>4 DEF GateStep
  <1> QED BY <1>3, <1>4, <1>5, <1>6, <1>7, <1>8, <1>9, <1>10, <1>11 DEF BatchStep

LEMMA TaskGate ==
    ASSUME QueuesInv, NEW t \in Tasks, TaskStep(t)
    PROVE  GateStep
  <1> USE DEF taskVars, batchVars, gateVars
  <1>1. /\ SchedulingInv /\ TypeOK /\ place \in [Tasks -> Places]
        /\ row \in [Tasks -> Rows] /\ gateLimit \in Nat /\ gateQueue \in Seq(Tasks)
    BY LimitsAreNumbers DEF QueuesInv, SchedulingInv, TypeOK
  <1>2. ASSUME UNCHANGED <<owner, gateQueue>>, CeilingKept,
               \A s \in Tasks : place[s] \in InSlot <=> place'[s] \in InSlot,
               \A s \in Tasks : place[s] \in AtGate => place'[s] \notin {"reported", "dropped"}
        PROVE GateStep
    <2>1. GateSame BY <1>2, SlotsKept
    <2>2. HeldKept BY <1>2 DEF HeldKept
    <2> QED BY <1>2, <2>1, <2>2 DEF GateStep
  <1>3. ASSUME NEW r \in Results, TransferEnds(t, r) PROVE GateStep
    BY <1>1, <1>2, <1>3 DEF TransferEnds, CeilingKept, InSlot, AtGate
  <1>4. CASE GateDone(t)
    <2>1. place[t] = "settled" /\ UNCHANGED <<owner, gateLimit>> BY <1>4 DEF GateDone
    <2>2. CASE gateQueue = <<>>
      <3>1. place' = [place EXCEPT ![t] = "released"] /\ gateQueue' = gateQueue
        BY <1>4, <2>2 DEF GateDone
      <3>2. Occupied' \subseteq Occupied BY <1>1, <3>1 DEF Occupied, TasksAt
      <3>3. HeldKept /\ CeilingKept BY <1>1, <2>1, <3>1 DEF HeldKept, CeilingKept, AtGate
      <3> QED BY <2>1, <2>2, <3>1, <3>2, <3>3 DEF GateStep, GateFrees
    <2>3. CASE gateQueue # <<>>
      <3>1. PICK u \in Tasks : u = Head(gateQueue) /\ place[u] = "gate"
        BY <1>1, <2>3, TailFacts DEF SchedulingInv, QueuesAgree
      <3>2. place' = [[place EXCEPT ![t] = "released"] EXCEPT ![u] = EntersAs(u)]
        BY <1>4, <2>3, <3>1 DEF GateDone
      <3>3. /\ u # t /\ place'[t] = "released" /\ place'[u] \in InSlot
            /\ \A s \in Tasks \ {t, u} : place'[s] = place[s]
        BY <1>1, <2>1, <3>1, <3>2 DEF EntersAs, InSlot
      <3>4. Occupied' = (Occupied \ {t}) \cup {u}
        BY <2>1, <3>1, <3>3 DEF Occupied, TasksAt, InSlot
      <3>5. t \in Occupied /\ u \notin Occupied BY <2>1, <3>1 DEF Occupied, TasksAt
      <3>6. Cardinality(Occupied') = Cardinality(Occupied)
        BY <3>4, <3>5, OccupiedFinite, ReplaceCount
      <3>7. HeldKept /\ CeilingKept
        BY <2>1, <3>3 DEF HeldKept, CeilingKept, AtGate, InSlot
      <3> QED BY <2>1, <2>3, <3>6, <3>7 DEF GateStep, GateFrees
    <2> QED BY <2>2, <2>3
  <1>5. CASE Park(t) \/ Report(t)
    <2>1. PICK x \in {"backoff", "reported"} :
            /\ place[t] = "released" /\ UNCHANGED <<owner, limit>>
            /\ x = "backoff" <=> WillRetry(t)
            /\ x = "backoff" => Park(t)
            /\ NoneStarts(t, x) \/ \E u \in Tasks : NextStarts(t, x, u)
      BY <1>1, <1>5, DoneCases
    <2>2. CASE NoneStarts(t, x)
      <3>1. gateQueue' = gateQueue /\ place' = [place EXCEPT ![t] = x]
        BY <2>2 DEF NoneStarts
      <3>2. CeilingKept
        BY <2>2, FinishCeiling DEF NoneStarts, FinishRun, CeilingKept
      <3> QED BY <1>1, <1>2, <2>1, <3>1, <3>2 DEF InSlot, AtGate
    <2>3. ASSUME NEW u \in Tasks, NextStarts(t, x, u) PROVE GateStep
      <3>1. /\ place[u] = "local" /\ place'[t] = x
            /\ place'[u] \in {"gate", "running", "settled"}
            /\ \A s \in Tasks \ {t, u} : place'[s] = place[s]
            /\ gateLimit' = gateLimit
            /\ localQueue[owner[t]] # <<>> /\ u = Head(localQueue[owner[t]])
        BY <2>3 DEF NextStarts
      <3>2. HeldKept /\ CeilingKept BY <2>1, <3>1 DEF HeldKept, CeilingKept, AtGate
      <3>3. PICK y \in {"backoff", "reported"} :
              \E r : Dispatch([place EXCEPT ![t] = y], r, <<u>>, gateLimit)
        BY <1>5, <3>1 DEF Park, Report, LocalNext
      <3>4. PICK p \in [Tasks -> Places] : p = [place EXCEPT ![t] = y]
        BY <1>1 DEF Places
      <3>5. PICK r : Dispatch(p, r, <<u>>, gateLimit) BY <3>3, <3>4
      <3>6. \A s \in Tasks \ {u} : place[s] \in InSlot <=> p[s] \in InSlot
        BY <1>1, <2>1, <3>4 DEF InSlot
      <3>7. place[u] \notin AtGate BY <3>1 DEF AtGate
      <3>8. \E ts \in Seq(Tasks), e \in Nat : GateTakes(ts, e)
        <4>1. gateLimit = gateLimit' BY <3>1
        <4> QED BY <1>1, <3>5, <3>6, <3>7, <4>1, DispatchOneGate
      <3> QED BY <3>2, <3>8 DEF GateStep
    <2> QED BY <2>1, <2>2, <2>3
  <1>6. CASE TimerFires(t)
    BY <1>1, <1>2, <1>6 DEF TimerFires, CeilingKept, InSlot, AtGate
  <1>7. CASE ReconnectSucceeds(t)
    <2>1. place[t] = "reconnect" /\ UNCHANGED <<owner, gateLimit>>
      BY <1>7 DEF ReconnectSucceeds
    <2>2. CASE place' = [place EXCEPT ![t] = "local"] /\ gateQueue' = gateQueue
      BY <1>1, <1>2, <2>1, <2>2 DEF CeilingKept, InSlot, AtGate
    <2>3. CASE Dispatch(place, row, <<t>>, gateLimit)
      <3>1. place[t] \notin AtGate BY <2>1 DEF AtGate
      <3>2. gateLimit = gateLimit' /\ \A s \in Tasks \ {t} :
               place[s] \in InSlot <=> place[s] \in InSlot
        BY <2>1
      <3>3. \E ts \in Seq(Tasks), e \in Nat : GateTakes(ts, e)
        BY <1>1, <2>3, <3>1, <3>2, DispatchOneGate
      <3>4. place[t] \notin {"local", "gate"} BY <2>1
      <3>5. \A s \in Tasks \ {t} : place'[s] = place[s]
        BY <1>1, <2>3, <3>4, DispatchOneFacts
      <3>6. HeldKept /\ CeilingKept BY <2>1, <3>5 DEF HeldKept, CeilingKept, AtGate
      <3> QED BY <3>3, <3>6 DEF GateStep
    <2> QED BY <1>7, <2>2, <2>3 DEF ReconnectSucceeds
  <1>8. CASE ReconnectFails(t)
    <2>1. CeilingKept BY <1>8, FinishCeiling DEF ReconnectFails, FinishRun
    <2> QED BY <1>1, <1>2, <1>8, <2>1 DEF ReconnectFails, InSlot, AtGate
  <1>9. CASE CancelTask(t)
    BY <1>1, <1>2, <1>9 DEF CancelTask, CeilingKept, InSlot, AtGate
  <1> QED BY <1>3, <1>4, <1>5, <1>6, <1>7, <1>8, <1>9 DEF TaskStep

LEMMA NextGate ==
    ASSUME QueuesInv, [Next]_vars
    PROVE  GateStep
  <1>1. CASE UNCHANGED vars
    <2>1. UNCHANGED <<place, owner, gateQueue, gateLimit>>
      BY <1>1 DEF vars, taskVars, batchVars, gateVars
    <2>2. GateSame BY <2>1, SlotsKept
    <2>3. HeldKept /\ CeilingKept BY <2>1 DEF HeldKept, AtGate, CeilingKept
    <2> QED BY <2>2, <2>3 DEF GateStep
  <1>2. CASE CancelAll
    <2>1. CeilingKept BY <1>2, FinishCeiling DEF CancelAll
    <2>2. /\ \A t \in Tasks : place[t] \in AtGate => place'[t] = place[t]
          /\ \A t \in Tasks : place'[t] \in AtGate => place'[t] = place[t]
          /\ UNCHANGED <<owner, gateQueue>>
      BY <1>2 DEF CancelAll, StopBatches, AtGate, QueuesInv, SchedulingInv, TypeOK
    <2>3. GateSame BY <2>2, SlotsKept DEF AtGate, InSlot
    <2>4. HeldKept BY <2>2 DEF HeldKept, AtGate
    <2> QED BY <2>1, <2>3, <2>4 DEF GateStep
  <1> QED BY <1>1, <1>2, BatchGate, TaskGate DEF Next

(* A transfer never runs past the ceiling and no ticket waits for a free place, in any *)
(* behaviour in which a batch that has ended is whole.  That is the only condition:     *)
(* stops, retries, reconnects and settings changes are all allowed.                     *)
THEOREM GateSharedWhenAccounted == Spec /\ []Accounted => []GateIsShared
  <1>1. Init => GateHolds
    <2> SUFFICES ASSUME Init PROVE GateHolds OBVIOUS
    <2>1. Occupied = {} BY DEF Init, Occupied, TasksAt
    <2>2. Cardinality(Occupied) = 0 BY <2>1, FS_EmptySet
    <2>3. gateLimit \in Nat /\ gateQueue = <<>> BY LimitsAreNumbers DEF Init
    <2> QED BY <2>2, <2>3 DEF GateHolds, GateCeiling, GateConserves
  <1>2. QueuesInv /\ QueuesInv' /\ Accounted /\ Accounted' /\ GateHolds /\ [Next]_vars
          => GateHolds'
    <2> SUFFICES ASSUME QueuesInv, QueuesInv', Accounted, Accounted', GateHolds, [Next]_vars
                 PROVE  GateHolds'
      OBVIOUS
    <2>1. GateStep BY NextGate
    <2>2. gateLimit' # gateLimit => Occupied = {} /\ gateQueue = <<>>
      BY <2>1, IdleWhenCeilingMoves
    <2> QED BY <2>1, <2>2, GateStepHolds DEF QueuesInv
  <1>3. QueuesInv /\ GateHolds => GateIsShared BY DEF QueuesInv, GateHolds, GateIsShared
  <1> QED BY <1>1, <1>2, <1>3, QueuesInvariant, PTL DEF Spec

(* In the same behaviours a new concurrency setting is never applied under a transfer  *)
(* the gate holds or has queued.                                                       *)
THEOREM CeilingMovesWhenIdle == Spec /\ []Accounted => CeilingChangesWhenIdle
  <1>1. QueuesInv /\ Accounted /\ Accounted' /\ [Next]_vars
          => [gateLimit' # gateLimit => gateQueue = <<>> /\ Occupied = {}]_vars
    BY NextGate, IdleWhenCeilingMoves
  <1> QED BY <1>1, QueuesInvariant, PTL DEF Spec, CeilingChangesWhenIdle

-------------------------------------------------------------------------------
(* When a batch that has ended is whole. *)

\* The retry budget is 0, or nothing stops a batch or loses the server while a task of it
\* waits to be retried.  Outside this, Accounted is false: see the README.
RetriesUndisturbed ==
    MaxRetries = 0 \/ Faults \cap {"stop", "cancelAll", "reconnectFails"} = {}

Gone == {"reported", "dropped"}
Retrying == {"backoff", "reconnect"}

WholeInv ==
    /\ RetriesUndisturbed
    /\ QueuesInv /\ Accounted
    /\ staleReconnects = {}
    /\ MaxRetries = 0 => \A t \in Tasks : place[t] \notin Retrying

(* The batches of S end; the tasks of the others that have ended stay gone.    *)
LEMMA AccountedKept ==
    ASSUME Accounted, NEW S, ended' \subseteq ended \cup S,
           \A t \in Tasks : owner'[t] \in ended =>
               owner[t] = owner'[t] /\ (place[t] \in Gone => place'[t] \in Gone),
           \A t \in Tasks : owner'[t] \in S => place'[t] \in Gone
    PROVE  Accounted'
  BY DEF Accounted, Gone

\* The rest of WholeInv: nothing waits out a retry that is cut short.
RetriesKept ==
    /\ staleReconnects' = {}
    /\ MaxRetries = 0 => \A t \in Tasks : place'[t] \notin Retrying

(* stop() ends a batch only when nothing of it is pending, so with no task in a *)
(* retry nothing of it is left.                                                *)
LEMMA StopsWhole ==
    ASSUME QueuesInv, Accounted, staleReconnects = {}, MaxRetries = 0,
           \A t \in Tasks : place[t] \notin Retrying,
           NEW S \in SUBSET Batches, NEW done \in SUBSET S, StopsSome(S, done)
    PROVE  Accounted' /\ RetriesKept
  <1>1. /\ Placed /\ place \in [Tasks -> Places]
        /\ done = {b \in S : EndsWhenStopped(b)} /\ ended' = ended \cup done
    BY DEF QueuesInv, SchedulingInv, TypeOK, StopsSome, Finish, EndBatch
  <1>2. PICK more : StopBatches(S, more) BY DEF StopsSome
  <1>3. /\ \A t \in Tasks :
             /\ place[t] = "local" /\ owner[t] \in S => place'[t] = "dropped"
             /\ ~(owner[t] \in S /\ place[t] = "local") => place'[t] = place[t]
        /\ owner' = owner /\ staleReconnects' = {}
    BY <1>1, <1>2 DEF StopBatches, Retrying
  <1>4. ASSUME NEW t \in Tasks, owner[t] \in done PROVE place'[t] \in Gone
    <2>1. /\ owner[t] \in S /\ LocalPending(owner[t], place) = {} /\ owner[t] \in Batches
      BY <1>1, <1>4 DEF EndsWhenStopped
    <2>2. place[t] \notin {"gate", "running", "settled", "released"}
      BY <2>1 DEF LocalPending
    <2>3. place[t] # "new" BY <1>1, <2>1 DEF Placed, Batches
    <2>4. place[t] \in {"local", "reported", "dropped"}
      BY <1>1, <2>2, <2>3 DEF Places, Retrying
    <2> QED BY <1>3, <2>1, <2>4 DEF Gone
  <1>5. Accounted' BY <1>1, <1>3, <1>4, AccountedKept DEF Gone
  <1>6. RetriesKept BY <1>3 DEF RetriesKept, Retrying
  <1> QED BY <1>5, <1>6

LEMMA BatchWhole ==
    ASSUME WholeInv, QueuesInv', NEW b \in Batches, BatchStep(b)
    PROVE  Accounted' /\ RetriesKept
  <1> USE DEF taskVars, batchVars, gateVars
  <1>1. /\ QueuesInv /\ SchedulingInv /\ Placed /\ Accounted /\ staleReconnects = {}
        /\ MaxRetries = 0 => \A t \in Tasks : place[t] \notin Retrying
        /\ place \in [Tasks -> Places] /\ owner \in [Tasks -> Batches \cup {0}]
        /\ row \in [Tasks -> Rows] /\ gateLimit \in Nat
        /\ localQueue \in [Batches -> Seq(Tasks)]
    BY LimitsAreNumbers DEF WholeInv, QueuesInv, SchedulingInv, TypeOK
  <1>2. ASSUME UNCHANGED <<place, owner, ended, staleReconnects>>
        PROVE  Accounted' /\ RetriesKept
    BY <1>1, <1>2 DEF Accounted, RetriesKept
  <1>3. ASSUME stage[b] # "over" PROVE b \notin ended BY <1>1, <1>3 DEF Placed
  <1>4. ASSUME NEW c \in Limits, CreateBatch(b, c) PROVE Accounted' /\ RetriesKept
    BY <1>2, <1>4 DEF CreateBatch
  <1>5. ASSUME NEW t \in Tasks, AddTask(b, t) PROVE Accounted' /\ RetriesKept
    <2>1. /\ stage[b] = "walking" /\ place[t] = "new" /\ place'[t] = "local"
          /\ owner'[t] = b /\ UNCHANGED <<ended, staleReconnects>>
          /\ \A s \in Tasks \ {t} : place'[s] = place[s] /\ owner'[s] = owner[s]
      BY <1>1, <1>5 DEF AddTask
    <2>2. b \notin ended BY <1>3, <2>1
    <2>3. Accounted' BY <1>1, <2>1, <2>2 DEF Accounted
    <2>4. RetriesKept BY <1>1, <2>1 DEF RetriesKept, Retrying
    <2> QED BY <2>3, <2>4
  <1>6. CASE RunBatch(b)
    <2>1. PICK n \in 0..Len(localQueue[b]), ts \in Seq(Tasks), w \in Seq(Tasks) :
             /\ n = Smaller(limit[b], Len(localQueue[b]))
             /\ ts = SubSeq(localQueue[b], 1, n)
             /\ w = SubSeq(localQueue[b], n + 1, Len(localQueue[b]))
             /\ localQueue' = [localQueue EXCEPT ![b] = w]
             /\ CutInTwo(localQueue[b], ts, w)
             /\ Taken(b, ts)
             /\ \A t \in RangeOf(ts) : place[t] = "local" /\ owner[t] = b
             /\ Len(ts) = n /\ Cardinality(RangeOf(ts)) = n
             /\ Len(w) = Len(localQueue[b]) - n
             /\ \A x \in RangeOf(localQueue[b]) : x \in RangeOf(ts) \/ x \in RangeOf(w)
      BY <1>1, <1>6, RunBatchTakes
    <2>2. UNCHANGED <<owner, ended, staleReconnects>> /\ stage[b] = "walking"
      BY <1>6 DEF RunBatch
    <2>3. b \notin ended BY <1>3, <2>2
    <2>4. Accounted' BY <1>1, <2>1, <2>2, <2>3 DEF Accounted, Taken
    <2>5. RetriesKept BY <1>1, <2>1, <2>2 DEF RetriesKept, Retrying, Taken
    <2> QED BY <2>4, <2>5
  <1>7. CASE RunEmptyBatch(b)
    <2>1. /\ stage[b] = "walking" /\ localQueue[b] = <<>> /\ ended' = ended \cup {b}
          /\ UNCHANGED <<place, owner, staleReconnects>>
      BY <1>7 DEF RunEmptyBatch, Finish, EndBatch
    <2>2. RangeOf(localQueue[b]) = {} BY <2>1 DEF RangeOf
    <2>3. \A t \in Tasks : owner[t] = b => place[t] = "dropped"
      BY <1>1, <2>1, <2>2 DEF Placed
    <2>4. Accounted' BY <1>1, <2>1, <2>3 DEF Accounted
    <2> QED BY <1>1, <2>1, <2>4 DEF RetriesKept
  <1>8. CASE RunStoppedBatch(b) BY <1>2, <1>8 DEF RunStoppedBatch
  <1>9. CASE WalkFails(b) BY <1>2, <1>9 DEF WalkFails
  <1>10. ASSUME NEW t \in Tasks, NEW c \in Limits, RetryCommand(b, t, c)
         PROVE  Accounted' /\ RetriesKept
    <2>1. /\ stage[b] = "unborn" /\ row[t] = "error" /\ owner' = [owner EXCEPT ![t] = b]
          /\ Dispatch(place, [row EXCEPT ![t] = "queued"], <<t>>, CeilingFor(c))
          /\ UNCHANGED <<ended, staleReconnects>>
      BY <1>10 DEF RetryCommand
    <2>2. place[t] = "reported" /\ b \notin ended
      BY <1>1, <1>3, <2>1 DEF SchedulingInv, Linked
    <2>3. /\ \A s \in Tasks \ {t} : place'[s] = place[s] /\ owner'[s] = owner[s]
          /\ place'[t] \in {"gate", "running", "settled"} /\ owner'[t] = b
      <3>1. [row EXCEPT ![t] = "queued"] \in [Tasks -> Rows] BY <1>1 DEF Rows
      <3>2. CeilingFor(c) \in Nat BY <1>1, LimitsAreNumbers DEF CeilingFor
      <3>3. place[t] \notin {"local", "gate"} BY <2>2
      <3>4. /\ \A s \in Tasks \ {t} : place'[s] = place[s]
            /\ place'[t] \in {"gate", "running", "settled"}
        BY <1>1, <2>1, <3>1, <3>2, <3>3, DispatchOneFacts
      <3> QED BY <1>1, <2>1, <3>4
    <2>4. Accounted' BY <1>1, <2>1, <2>2, <2>3 DEF Accounted
    <2>5. RetriesKept BY <1>1, <2>1, <2>3 DEF RetriesKept, Retrying
    <2> QED BY <2>4, <2>5
  <1>11. ASSUME NEW t \in Tasks, StaleReconnectEnds(b, t) PROVE Accounted' /\ RetriesKept
    BY <1>1, <1>11 DEF StaleReconnectEnds
  <1>12. CASE Stop(b)
    <2>1. PICK done \in SUBSET {b} : StopsSome({b}, done) BY <1>1, <1>12, StopIsSome
    <2>2. MaxRetries = 0
      BY <1>12 DEF WholeInv, RetriesUndisturbed, Stop
    <2>3. Stop(b) BY <1>12
    <2> QED BY <1>1, <2>1, <2>2, StopsWhole
  <1> QED BY <1>4, <1>5, <1>6, <1>7, <1>8, <1>9, <1>10, <1>11, <1>12 DEF BatchStep

LEMMA TaskWhole ==
    ASSUME WholeInv, QueuesInv', NEW t \in Tasks, TaskStep(t)
    PROVE  Accounted' /\ RetriesKept
  <1> USE DEF taskVars, batchVars, gateVars
  <1>1. /\ QueuesInv /\ SchedulingInv /\ Placed /\ Accounted /\ staleReconnects = {}
        /\ MaxRetries = 0 => \A s \in Tasks : place[s] \notin Retrying
        /\ place \in [Tasks -> Places] /\ row \in [Tasks -> Rows] /\ gateLimit \in Nat
        /\ gateQueue \in Seq(Tasks)
    BY LimitsAreNumbers DEF WholeInv, QueuesInv, SchedulingInv, TypeOK
  <1>2. ASSUME place[t] \notin Gone PROVE owner[t] \notin ended
    BY <1>1, <1>2 DEF Accounted, Gone
  <1>3. ASSUME NEW r \in Results, TransferEnds(t, r) PROVE Accounted' /\ RetriesKept
    <2>1. /\ \A s \in Tasks : place'[s] = place[s] \/ place[s] \notin Gone
          /\ \A s \in Tasks : place'[s] \in Retrying => place[s] \in Retrying
          /\ UNCHANGED <<owner, ended, staleReconnects>>
      BY <1>1, <1>3 DEF TransferEnds, Gone, Retrying
    <2> QED BY <1>1, <2>1 DEF Accounted, Gone, RetriesKept
  <1>4. CASE GateDone(t)
    <2>1. place[t] = "settled" /\ UNCHANGED <<owner, ended, staleReconnects>>
      BY <1>4 DEF GateDone
    <2>2. /\ \A s \in Tasks : place'[s] = place[s] \/ place[s] \notin Gone
          /\ \A s \in Tasks : place'[s] \in Retrying => place[s] \in Retrying
      <3>1. CASE gateQueue = <<>>
        BY <1>1, <1>4, <2>1, <3>1 DEF GateDone, Gone, Retrying
      <3>2. CASE gateQueue # <<>>
        <4>1. PICK u \in Tasks : u = Head(gateQueue) /\ place[u] = "gate"
          BY <1>1, <3>2, TailFacts DEF SchedulingInv, QueuesAgree
        <4>2. place' = [[place EXCEPT ![t] = "released"] EXCEPT ![u] = EntersAs(u)]
          BY <1>4, <3>2, <4>1 DEF GateDone
        <4> QED BY <1>1, <2>1, <4>1, <4>2 DEF EntersAs, Gone, Retrying
      <3> QED BY <3>1, <3>2
    <2> QED BY <1>1, <2>1, <2>2 DEF Accounted, Gone, RetriesKept
  <1>5. CASE Park(t) \/ Report(t)
    <2>1. PICK x \in {"backoff", "reported"} :
            /\ place[t] = "released" /\ UNCHANGED <<owner, limit>>
            /\ x = "backoff" <=> WillRetry(t)
            /\ x = "backoff" => Park(t)
            /\ NoneStarts(t, x) \/ \E u \in Tasks : NextStarts(t, x, u)
      BY <1>1, <1>5, DoneCases
    <2>2. PICK b \in Batches : b = owner[t]
      BY <1>1, <2>1 DEF SchedulingInv, Linked
    <2>3. b \notin ended BY <1>2, <2>1, <2>2 DEF Gone
    <2>4. staleReconnects' = {} BY <1>1, <1>5 DEF Park, Report
    <2>5. MaxRetries = 0 => x = "reported"
      <3>1. attempts[t] \in 0..MaxRetries BY <1>1 DEF SchedulingInv, TypeOK
      <3>2. MaxRetries = 0 => ~WillRetry(t) BY <3>1 DEF WillRetry
      <3> QED BY <2>1, <3>2
    <2>6. CASE NoneStarts(t, x)
      <3>1. /\ localQueue[b] = <<>> /\ localQueue' = localQueue
            /\ place'[t] = x /\ \A s \in Tasks \ {t} : place'[s] = place[s]
            /\ \/ LocalPending(b, place') = {} /\ FinishRun(b, place')
               \/ ended' = ended
        BY <1>1, <2>2, <2>6 DEF NoneStarts
      <3>2. RetriesKept BY <1>1, <2>4, <2>5, <3>1 DEF RetriesKept, Retrying
      <3>3. CASE ended' = ended
        BY <1>1, <2>1, <2>2, <2>3, <3>1, <3>2, <3>3 DEF Accounted
      <3>4. CASE LocalPending(b, place') = {} /\ FinishRun(b, place')
        <4>1. PICK S \in SUBSET Batches : S = IF CanFinish(b, place') THEN {b} ELSE {}
          OBVIOUS
        <4>2. ended' = ended \cup S BY <3>4, <4>1 DEF FinishRun, Finish, EndBatch
        <4>3. ASSUME NEW s \in Tasks, owner'[s] \in S PROVE place'[s] \in Gone
          <5>1. S = {b} /\ InRetry(b, place') = {} /\ owner[s] = b
            BY <2>1, <4>1, <4>3 DEF CanFinish
          <5>2. place'[s] \notin {"gate", "running", "settled", "released"}
            BY <3>4, <5>1 DEF LocalPending
          <5>3. place'[s] \notin {"backoff", "reconnect"} BY <5>1 DEF InRetry
          <5>4. RangeOf(localQueue'[b]) = {} BY <3>1 DEF RangeOf
          <5>5. place'[s] \notin {"new", "local"}
            <6>1. Placed' BY DEF QueuesInv
            <6>2. owner'[s] = b BY <2>1, <5>1
            <6> QED BY <5>4, <6>1, <6>2 DEF Placed, Batches
          <5>6. place'[s] \in Places BY <1>1, <2>1, <3>1 DEF Places
          <5> QED BY <5>2, <5>3, <5>5, <5>6 DEF Places, Gone
        <4>4. \A s \in Tasks : owner'[s] \in ended =>
                 owner[s] = owner'[s] /\ (place[s] \in Gone => place'[s] \in Gone)
          BY <2>1, <2>2, <2>3, <3>1 DEF Gone
        <4>5. Accounted' BY <1>1, <4>2, <4>3, <4>4, AccountedKept
        <4> QED BY <3>2, <4>5
      <3> QED BY <3>1, <3>3, <3>4
    <2>7. ASSUME NEW u \in Tasks, NextStarts(t, x, u) PROVE Accounted' /\ RetriesKept
      <3>1. /\ owner[u] = b /\ place'[u] \in {"gate", "running", "settled"}
            /\ place'[t] = x /\ \A s \in Tasks \ {t, u} : place'[s] = place[s]
            /\ ended' = ended
        BY <2>2, <2>7 DEF NextStarts
      <3>2. Accounted' BY <1>1, <2>1, <2>2, <2>3, <3>1 DEF Accounted
      <3>3. RetriesKept
        BY <1>1, <2>4, <2>5, <3>1 DEF RetriesKept, Retrying
      <3> QED BY <3>2, <3>3
    <2> QED BY <2>1, <2>6, <2>7
  <1>6. CASE TimerFires(t)
    <2>1. /\ \A s \in Tasks : place'[s] = place[s] \/ place[s] \notin Gone
          /\ \A s \in Tasks : place'[s] \in Retrying => place[s] \in Retrying
          /\ UNCHANGED <<owner, ended, staleReconnects>>
      BY <1>1, <1>6 DEF TimerFires, Gone, Retrying
    <2> QED BY <1>1, <2>1 DEF Accounted, Gone, RetriesKept
  <1>7. CASE ReconnectSucceeds(t)
    <2>1. place[t] = "reconnect" /\ UNCHANGED <<owner, ended, staleReconnects>>
      BY <1>7 DEF ReconnectSucceeds
    <2>2. owner[t] \notin ended BY <1>2, <2>1 DEF Gone
    <2>3. place'[t] \notin Retrying /\ \A s \in Tasks \ {t} : place'[s] = place[s]
      <3>1. CASE place' = [place EXCEPT ![t] = "local"] BY <1>1, <3>1 DEF Retrying
      <3>2. CASE Dispatch(place, row, <<t>>, gateLimit)
        <4>1. place[t] \notin {"local", "gate"} BY <2>1
        <4>2. /\ \A s \in Tasks \ {t} : place'[s] = place[s]
              /\ place'[t] \in {"gate", "running", "settled"}
          BY <1>1, <3>2, <4>1, DispatchOneFacts
        <4> QED BY <4>2 DEF Retrying
      <3> QED BY <1>7, <3>1, <3>2 DEF ReconnectSucceeds
    <2>4. Accounted' BY <1>1, <2>1, <2>2, <2>3 DEF Accounted
    <2>5. RetriesKept BY <1>1, <2>1, <2>3 DEF RetriesKept
    <2> QED BY <2>4, <2>5
  <1>8. CASE ReconnectFails(t)
    \* Impossible: nothing is reconnecting, or no reconnect fails.
    BY <1>1, <1>8 DEF WholeInv, RetriesUndisturbed, ReconnectFails, Retrying
  <1>9. CASE CancelTask(t)
    BY <1>1, <1>9 DEF CancelTask, Accounted, RetriesKept
  <1> QED BY <1>3, <1>4, <1>5, <1>6, <1>7, <1>8, <1>9 DEF TaskStep

LEMMA WholeNext ==
    ASSUME WholeInv, [Next]_vars
    PROVE  WholeInv'
  <1>1. QueuesInv' BY QueuesNext DEF WholeInv
  <1>2. Accounted' /\ RetriesKept
    <2>1. CASE UNCHANGED vars
      BY <2>1 DEF vars, taskVars, batchVars, gateVars, WholeInv, Accounted, RetriesKept
    <2>2. CASE CancelAll
      <3>1. SchedulingInv BY DEF WholeInv, QueuesInv
      <3>2. PICK S \in SUBSET Batches : S = Visited BY <2>2, <3>1, CancelAllIsSome
      <3>3. PICK done \in SUBSET S : StopsSome(S, done) BY <2>2, <3>1, <3>2, CancelAllIsSome
      <3>4. MaxRetries = 0 BY <2>2 DEF WholeInv, RetriesUndisturbed, CancelAll
      <3>5. QueuesInv /\ Accounted /\ staleReconnects = {}
            /\ \A t \in Tasks : place[t] \notin Retrying
        BY <3>4 DEF WholeInv
      <3> QED BY <3>3, <3>4, <3>5, StopsWhole
    <2> QED BY <1>1, <2>1, <2>2, BatchWhole, TaskWhole DEF Next
  <1> QED BY <1>1, <1>2 DEF WholeInv, RetriesKept

LEMMA WholeAlways == Spec /\ RetriesUndisturbed => []WholeInv
  <1>1. Init /\ RetriesUndisturbed => WholeInv
    <2> SUFFICES ASSUME Init, RetriesUndisturbed PROVE WholeInv OBVIOUS
    <2>1. QueuesInv BY QueuesInit
    <2>2. Accounted BY DEF Init, Accounted
    <2> QED BY <2>1, <2>2 DEF Init, WholeInv, Retrying
  <1>2. WholeInv /\ [Next]_vars => WholeInv' BY WholeNext
  <1> QED BY <1>1, <1>2, PTL DEF Spec

(* With retries off, or with nothing that stops a batch or loses the server during a   *)
(* retry, a batch that told its command it is finished has every one of its tasks       *)
(* reported or dropped.  Outside it the code breaks that promise, as the run FindEndedEarly *)
(* shows.                                                                              *)
THEOREM EndedBatchesAreWhole == Spec /\ RetriesUndisturbed => []Accounted
  <1>1. WholeInv => Accounted BY DEF WholeInv
  <1> QED BY <1>1, WholeAlways, PTL

(* There the gate is shared as promised, for every number of tasks and batches.        *)
THEOREM GateShared == Spec /\ RetriesUndisturbed => []GateIsShared
  BY EndedBatchesAreWhole, GateSharedWhenAccounted, PTL

THEOREM CeilingIdle == Spec /\ RetriesUndisturbed => CeilingChangesWhenIdle
  BY EndedBatchesAreWhole, CeilingMovesWhenIdle, PTL

-------------------------------------------------------------------------------
(* A running batch has a task on its way. *)

BusyPlaces == PendingPlaces \cup {"backoff", "reconnect"}

BusyAt(b) == stage[b] = "running" =>
    \E t \in Tasks : owner[t] = b /\ place[t] \in BusyPlaces
Busy == \A b \in Batches : BusyAt(b)

LEMMA BusyKept ==
    ASSUME Busy, NEW b \in Batches, stage'[b] = "running" => stage[b] = "running",
           \A t \in Tasks : owner[t] = b /\ place[t] \in BusyPlaces
                                => owner'[t] = b /\ place'[t] \in BusyPlaces
    PROVE  BusyAt(b)'
  BY DEF Busy, BusyAt

(* A batch that loses a task for good, and does not end with it, has another.  *)
LEMMA BusyUnlessFinished ==
    ASSUME NEW b \in Batches, FinishRun(b, place'), owner' = owner
    PROVE  BusyAt(b)'
  <1>1. PICK S \in SUBSET Batches : S = IF CanFinish(b, place') THEN {b} ELSE {}
    OBVIOUS
  <1>2. stage' = [a \in Batches |-> IF a \in S THEN "over" ELSE stage[a]]
    BY <1>1 DEF FinishRun, Finish
  <1>3. CASE CanFinish(b, place') BY <1>1, <1>2, <1>3 DEF BusyAt
  <1>4. CASE ~CanFinish(b, place')
    <2>1. stage'[b] = "running" => InRetry(b, place') # {}
      BY <1>1, <1>2, <1>4 DEF CanFinish
    <2> QED BY <2>1 DEF InRetry, BusyAt, BusyPlaces
  <1> QED BY <1>3, <1>4

LEMMA StopsBusy ==
    ASSUME QueuesInv, Busy, NEW S \in SUBSET Batches, NEW done \in SUBSET S, StopsSome(S, done)
    PROVE  Busy'
  <1>1. /\ stage' = [a \in Batches |-> IF a \in done THEN "over" ELSE stage[a]]
        /\ done = {b \in S : EndsWhenStopped(b)}
    BY DEF StopsSome, Finish
  <1>2. PICK more : StopBatches(S, more) BY DEF StopsSome
  <1>3. /\ \A t \in Tasks : ~(owner[t] \in S /\ place[t] \in {"local", "backoff", "reconnect"})
                               => place'[t] = place[t]
        /\ owner' = owner
    BY <1>2 DEF StopBatches, QueuesInv, SchedulingInv, TypeOK
  <1>4. ASSUME NEW b \in Batches PROVE BusyAt(b)'
    <2>1. CASE b \notin S
      BY <1>1, <1>3, <2>1, BusyKept
    <2>2. CASE b \in S
      <3>1. SUFFICES ASSUME stage'[b] = "running"
                     PROVE  \E t \in Tasks : owner'[t] = b /\ place'[t] \in BusyPlaces
        BY DEF BusyAt
      <3>2. stage[b] = "running" /\ ~EndsWhenStopped(b) BY <1>1, <2>2, <3>1
      <3>3. PICK t \in LocalPending(b, place) : TRUE BY <3>2 DEF EndsWhenStopped
      <3> QED BY <1>3, <3>3 DEF LocalPending, BusyPlaces, PendingPlaces
    <2> QED BY <2>1, <2>2
  <1> QED BY <1>4 DEF Busy, BusyAt

LEMMA BusyNext ==
    ASSUME QueuesInv, Busy, [Next]_vars
    PROVE  Busy'
  <1> USE DEF taskVars, batchVars, gateVars
  <1>1. /\ SchedulingInv /\ Placed /\ place \in [Tasks -> Places]
        /\ owner \in [Tasks -> Batches \cup {0}] /\ stage \in [Batches -> Stages]
        /\ row \in [Tasks -> Rows] /\ gateLimit \in Nat /\ gateQueue \in Seq(Tasks)
        /\ localQueue \in [Batches -> Seq(Tasks)]
    BY LimitsAreNumbers DEF QueuesInv, SchedulingInv, TypeOK
  <1>2. ASSUME \A b \in Batches : stage'[b] = "running" => stage[b] = "running",
               \A t \in Tasks : place[t] \in BusyPlaces
                                  => owner'[t] = owner[t] /\ place'[t] \in BusyPlaces
        PROVE  Busy'
    <2>1. ASSUME NEW b \in Batches PROVE BusyAt(b)' BY <1>2, BusyKept
    <2> QED BY <2>1 DEF Busy, BusyAt
  <1>3. CASE UNCHANGED vars BY <1>2, <1>3 DEF vars
  <1>4. CASE CancelAll
    <2>1. PICK S \in SUBSET Batches : S = Visited BY <1>1, <1>4, CancelAllIsSome
    <2>2. PICK done \in SUBSET S : StopsSome(S, done) BY <1>1, <1>4, <2>1, CancelAllIsSome
    <2> QED BY <2>2, StopsBusy
  <1>5. ASSUME NEW b \in Batches, BatchStep(b) PROVE Busy'
    <2>1. CASE \/ \E c \in Limits : CreateBatch(b, c)
               \/ RunEmptyBatch(b) \/ RunStoppedBatch(b) \/ WalkFails(b)
               \/ \E t \in Tasks : StaleReconnectEnds(b, t)
      <3>1. QuietStep BY <2>1, QuietBatchSteps
      <3>2. place' = place
        BY <2>1 DEF CreateBatch, RunEmptyBatch, RunStoppedBatch, WalkFails, StaleReconnectEnds
      <3> QED BY <1>2, <3>1, <3>2 DEF QuietStep
    <2>2. ASSUME NEW t \in Tasks, AddTask(b, t) PROVE Busy'
      BY <1>1, <1>2, <2>2 DEF AddTask, BusyPlaces, PendingPlaces
    <2>3. CASE RunBatch(b)
      <3>1. PICK n \in 0..Len(localQueue[b]), ts \in Seq(Tasks), w \in Seq(Tasks) :
               /\ n = Smaller(limit[b], Len(localQueue[b]))
               /\ ts = SubSeq(localQueue[b], 1, n)
               /\ w = SubSeq(localQueue[b], n + 1, Len(localQueue[b]))
               /\ localQueue' = [localQueue EXCEPT ![b] = w]
               /\ CutInTwo(localQueue[b], ts, w)
               /\ Taken(b, ts)
               /\ \A t \in RangeOf(ts) : place[t] = "local" /\ owner[t] = b
               /\ Len(ts) = n /\ Cardinality(RangeOf(ts)) = n
               /\ Len(w) = Len(localQueue[b]) - n
               /\ \A x \in RangeOf(localQueue[b]) : x \in RangeOf(ts) \/ x \in RangeOf(w)
        BY <1>1, <2>3, RunBatchTakes
      <3>2. /\ stage[b] = "walking" /\ localQueue[b] # <<>> /\ owner' = owner
            /\ stage' = [stage EXCEPT ![b] = "running"]
        BY <2>3 DEF RunBatch
      <3>3. n >= 1
        <4>1. limit[b] \in Nat /\ limit[b] >= 1
          BY <1>1, <3>2, LimitsAreNumbers DEF Placed
        <4>2. Len(localQueue[b]) \in Nat /\ Len(localQueue[b]) >= 1
          BY <1>1, <3>2, TailFacts
        <4> QED BY <3>1, <4>1, <4>2 DEF Smaller
      <3>4. 1 \in 1..Len(ts) BY <3>1, <3>3
      <3>5. ts[1] \in RangeOf(ts) BY <3>4, InRange
      <3>6. ASSUME NEW a \in Batches PROVE BusyAt(a)'
        <4>1. CASE a = b
          BY <3>1, <3>5, <4>1 DEF Taken, BusyAt, BusyPlaces, PendingPlaces
        <4>2. CASE a # b
          <5>1. stage'[a] = stage[a] BY <1>1, <3>2, <4>2
          <5>2. \A t \in Tasks : owner[t] = a => t \notin RangeOf(ts) BY <3>1, <4>2
          <5> QED BY <3>1, <3>2, <5>1, <5>2, BusyKept DEF Taken
        <4> QED BY <4>1, <4>2
      <3> QED BY <3>6 DEF Busy, BusyAt
    <2>4. ASSUME NEW t \in Tasks, NEW c \in Limits, RetryCommand(b, t, c) PROVE Busy'
      <3>1. /\ row[t] = "error" /\ owner' = [owner EXCEPT ![t] = b]
            /\ Dispatch(place, [row EXCEPT ![t] = "queued"], <<t>>, CeilingFor(c))
            /\ stage' = [stage EXCEPT ![b] = "running"]
        BY <2>4 DEF RetryCommand
      <3>2. place[t] = "reported" BY <1>1, <3>1 DEF SchedulingInv, Linked
      <3>3. [row EXCEPT ![t] = "queued"] \in [Tasks -> Rows] BY <1>1 DEF Rows
      <3>4. CeilingFor(c) \in Nat BY <1>1, LimitsAreNumbers DEF CeilingFor
      <3>5. place[t] \notin {"local", "gate"} BY <3>2
      <3>6. /\ \A s \in Tasks \ {t} : place'[s] = place[s]
            /\ place'[t] \in {"gate", "running", "settled"}
        BY <1>1, <3>1, <3>3, <3>4, <3>5, DispatchOneFacts
      <3>7. ASSUME NEW a \in Batches PROVE BusyAt(a)'
        <4>1. CASE a = b
          <5>1. owner'[t] = b BY <1>1, <3>1
          <5> QED BY <3>6, <4>1, <5>1 DEF BusyAt, BusyPlaces, PendingPlaces
        <4>2. CASE a # b
          <5>1. stage'[a] = stage[a] BY <1>1, <3>1, <4>2
          <5>2. \A s \in Tasks : owner[s] = a /\ place[s] \in BusyPlaces
                                   => owner'[s] = a /\ place'[s] \in BusyPlaces
            BY <1>1, <3>1, <3>2, <3>6 DEF BusyPlaces, PendingPlaces
          <5> QED BY <5>1, <5>2, BusyKept
        <4> QED BY <4>1, <4>2
      <3> QED BY <3>7 DEF Busy, BusyAt
    <2>5. CASE Stop(b)
      <3>1. PICK done \in SUBSET {b} : StopsSome({b}, done) BY <1>1, <2>5, StopIsSome
      <3> QED BY <3>1, StopsBusy
    <2> QED BY <1>5, <2>1, <2>2, <2>3, <2>4, <2>5 DEF BatchStep
  <1>6. ASSUME NEW t \in Tasks, TaskStep(t) PROVE Busy'
    <2>1. CASE \/ \E r \in Results : TransferEnds(t, r)
               \/ GateDone(t) \/ TimerFires(t) \/ CancelTask(t)
      <3>1. QuietStep BY <2>1, QuietTaskSteps
      <3>2. \A s \in Tasks : place[s] \in Retrying => place'[s] \in Retrying
        <4>1. CASE \E r \in Results : TransferEnds(t, r)
          BY <1>1, <4>1 DEF TransferEnds, Retrying
        <4>2. CASE GateDone(t)
          <5>1. gateQueue # <<>> => Head(gateQueue) \in Tasks /\ place[Head(gateQueue)] = "gate"
            BY <1>1, TailFacts DEF SchedulingInv, QueuesAgree
          <5> QED BY <1>1, <4>2, <5>1 DEF GateDone, Retrying
        <4>3. CASE TimerFires(t) BY <1>1, <4>3 DEF TimerFires, Retrying
        <4>4. CASE CancelTask(t) BY <4>4 DEF CancelTask, Retrying
        <4> QED BY <2>1, <4>1, <4>2, <4>3, <4>4
      <3> QED BY <1>2, <3>1, <3>2 DEF QuietStep, BusyPlaces, Retrying
    <2>2. CASE Park(t) \/ Report(t)
      <3>1. PICK x \in {"backoff", "reported"} :
              /\ place[t] = "released" /\ UNCHANGED <<owner, limit>>
              /\ x = "backoff" <=> WillRetry(t)
              /\ x = "backoff" => Park(t)
              /\ NoneStarts(t, x) \/ \E u \in Tasks : NextStarts(t, x, u)
        BY <1>1, <2>2, DoneCases
      <3>2. PICK b \in Batches : b = owner[t]
        BY <1>1, <3>1 DEF SchedulingInv, Linked
      <3>3. CASE NoneStarts(t, x)
        <4>1. /\ \A s \in Tasks \ {t} : place'[s] = place[s]
              /\ IF LocalPending(b, place') = {} THEN FinishRun(b, place') ELSE stage' = stage
          BY <1>1, <3>2, <3>3 DEF NoneStarts
        <4>2. \A a \in Batches : stage'[a] = "running" => stage[a] = "running"
          BY <1>1, <4>1 DEF FinishRun, Finish
        <4>3. ASSUME NEW a \in Batches PROVE BusyAt(a)'
          <5>1. CASE a # b BY <3>1, <3>2, <4>1, <4>2, <5>1, BusyKept
          <5>2. CASE a = b /\ LocalPending(b, place') = {}
            BY <3>1, <4>1, <5>2, BusyUnlessFinished
          <5>3. CASE a = b /\ LocalPending(b, place') # {}
            <6>1. PICK s \in Tasks : owner[s] = b
                     /\ place'[s] \in {"gate", "running", "settled", "released"}
              BY <5>3 DEF LocalPending
            <6> QED BY <3>1, <5>3, <6>1 DEF BusyAt, BusyPlaces, PendingPlaces
          <5> QED BY <5>1, <5>2, <5>3
        <4> QED BY <4>3 DEF Busy, BusyAt
      <3>4. ASSUME NEW u \in Tasks, NextStarts(t, x, u) PROVE Busy'
        <4>1. /\ owner[u] = b /\ place'[u] \in {"gate", "running", "settled"}
              /\ \A s \in Tasks \ {t, u} : place'[s] = place[s] /\ stage' = stage
          BY <3>2, <3>4 DEF NextStarts
        <4>2. stage' = stage BY <3>4 DEF NextStarts
        <4>3. ASSUME NEW a \in Batches PROVE BusyAt(a)'
          <5>1. CASE a = b
            BY <3>1, <4>1, <5>1 DEF BusyAt, BusyPlaces, PendingPlaces
          <5>2. CASE a # b BY <3>1, <3>2, <4>1, <4>2, <5>2, BusyKept
          <5> QED BY <5>1, <5>2
        <4> QED BY <4>3 DEF Busy, BusyAt
      <3> QED BY <3>1, <3>3, <3>4
    <2>3. CASE ReconnectSucceeds(t)
      <3>1. place[t] = "reconnect" /\ UNCHANGED <<owner, stage>>
        BY <2>3 DEF ReconnectSucceeds
      <3>2. PICK b \in Batches : b = owner[t]
        BY <1>1, <3>1 DEF SchedulingInv, Linked
      <3>3. CASE Cardinality(LocalPending(b, place)) < limit[b]
        <4>1. Dispatch(place, row, <<t>>, gateLimit)
          BY <2>3, <3>2, <3>3 DEF ReconnectSucceeds
        <4>2. place[t] \notin {"local", "gate"} BY <3>1
        <4>3. /\ \A s \in Tasks \ {t} : place'[s] = place[s]
              /\ place'[t] \in {"gate", "running", "settled"}
          BY <1>1, <4>1, <4>2, DispatchOneFacts
        <4> QED BY <1>2, <3>1, <4>3 DEF BusyPlaces, PendingPlaces
      <3>4. CASE ~(Cardinality(LocalPending(b, place)) < limit[b])
        \* The batch is full, so another task of it is pending.
        <4>1. place' = [place EXCEPT ![t] = "local"]
          BY <2>3, <3>2, <3>4 DEF ReconnectSucceeds
        <4>2. PICK s \in Tasks : owner[s] = b /\ place[s] \in PendingPlaces
          <5>1. limit[b] \in Nat /\ limit[b] >= 1
            BY <1>1, <3>1, <3>2, LimitsAreNumbers DEF Placed
          <5>2. Cardinality(LocalPending(b, place)) \in Nat BY PendingFinite
          <5>3. LocalPending(b, place) # {}
            BY <3>4, <5>1, <5>2, FS_EmptySet
          <5> QED BY <5>3 DEF LocalPending, PendingPlaces
        <4>3. s # t BY <3>1, <4>2 DEF PendingPlaces
        <4>4. ASSUME NEW a \in Batches PROVE BusyAt(a)'
          <5>1. CASE a = b
            BY <1>1, <3>1, <4>1, <4>2, <4>3, <5>1 DEF BusyAt, BusyPlaces
          <5>2. CASE a # b BY <1>1, <3>1, <3>2, <4>1, <5>2, BusyKept
          <5> QED BY <5>1, <5>2
        <4> QED BY <4>4 DEF Busy, BusyAt
      <3> QED BY <3>3, <3>4
    <2>4. CASE ReconnectFails(t)
      <3>1. /\ place[t] = "reconnect" /\ UNCHANGED owner
            /\ place' = [place EXCEPT ![t] = "reported"] /\ FinishRun(owner[t], place')
        BY <2>4 DEF ReconnectFails
      <3>2. PICK b \in Batches : b = owner[t]
        BY <1>1, <3>1 DEF SchedulingInv, Linked
      <3>3. \A a \in Batches : stage'[a] = "running" => stage[a] = "running"
        BY <1>1, <3>1 DEF FinishRun, Finish
      <3>4. ASSUME NEW a \in Batches PROVE BusyAt(a)'
        <4>1. CASE a = b BY <3>1, <3>2, <4>1, BusyUnlessFinished
        <4>2. CASE a # b BY <1>1, <3>1, <3>2, <3>3, <4>2, BusyKept
        <4> QED BY <4>1, <4>2
      <3> QED BY <3>4 DEF Busy, BusyAt
    <2> QED BY <1>6, <2>1, <2>2, <2>3, <2>4 DEF TaskStep
  <1> QED BY <1>3, <1>4, <1>5, <1>6 DEF Next


THEOREM RunningBatchesAreBusy == Spec => []Busy
  <1>1. Init => Busy BY DEF Init, Busy, BusyAt
  <1>2. QueuesInv /\ Busy /\ [Next]_vars => Busy' BY BusyNext
  <1> QED BY <1>1, <1>2, QueuesInvariant, PTL DEF Spec
=============================================================================
