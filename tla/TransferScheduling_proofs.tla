----------------------- MODULE TransferScheduling_proofs -----------------------
(* What holds of TransferScheduling for every set of tasks, number of batches, *)
(* concurrency settings, retry budget and combination of disturbances.         *)
EXTENDS TransferScheduling, FiniteSetTheorems, SequenceTheorems, TLAPS

(* The sequence facts the queues need. *)

LEMMA SubSeqFacts ==
    ASSUME NEW S, NEW s \in Seq(S), NEW m \in 1..(Len(s) + 1), NEW n \in (m - 1)..Len(s)
    PROVE  /\ SubSeq(s, m, n) \in Seq(S)
           /\ Len(SubSeq(s, m, n)) = n - m + 1
           /\ \A i \in 1..(n - m + 1) : SubSeq(s, m, n)[i] = s[m + i - 1]
  OBVIOUS

LEMMA ConcatFacts ==
    ASSUME NEW S, NEW s \in Seq(S), NEW r \in Seq(S)
    PROVE  /\ s \o r \in Seq(S)
           /\ Len(s \o r) = Len(s) + Len(r)
           /\ \A i \in 1..Len(s) : (s \o r)[i] = s[i]
           /\ \A i \in (Len(s) + 1)..(Len(s) + Len(r)) : (s \o r)[i] = r[i - Len(s)]
  OBVIOUS

LEMMA TailFacts ==
    ASSUME NEW S, NEW s \in Seq(S), s # <<>>
    PROVE  /\ Len(s) \in Nat /\ Len(s) >= 1
           /\ Head(s) = s[1] /\ Head(s) \in S
           /\ Tail(s) \in Seq(S) /\ Len(Tail(s)) = Len(s) - 1
           /\ \A i \in 1..(Len(s) - 1) : Tail(s)[i] = s[i + 1]
  OBVIOUS

LEMMA AppendFacts ==
    ASSUME NEW S, NEW s \in Seq(S), NEW x \in S
    PROVE  /\ Append(s, x) \in Seq(S) /\ Len(Append(s, x)) = Len(s) + 1
           /\ Append(s, x)[Len(s) + 1] = x
           /\ \A i \in 1..Len(s) : Append(s, x)[i] = s[i]
  OBVIOUS

(* Cutting a sequence of distinct elements in two. *)
CutInTwo(q, a, w) ==
    /\ \A i \in 1..Len(a) : \E k \in 1..Len(q) : a[i] = q[k]
    /\ \A i \in 1..Len(w) : \E k \in 1..Len(q) : w[i] = q[k]
    /\ \A i, j \in 1..Len(a) : i # j => a[i] # a[j]
    /\ \A i, j \in 1..Len(w) : i # j => w[i] # w[j]
    /\ \A i \in 1..Len(w), j \in 1..Len(a) : w[i] # a[j]

LEMMA CutFacts ==
    ASSUME NEW S, NEW q \in Seq(S), NEW n \in 0..Len(q),
           \A i, j \in 1..Len(q) : i # j => q[i] # q[j],
           NEW a, a = SubSeq(q, 1, n),
           NEW w, w = SubSeq(q, n + 1, Len(q))
    PROVE  a \in Seq(S) /\ w \in Seq(S) /\ CutInTwo(q, a, w)
  <1>1. /\ a \in Seq(S) /\ Len(a) = n
        /\ \A i \in 1..n : a[i] = q[i] /\ i \in 1..Len(q)
    <2>1. 1 \in 1..(Len(q) + 1) /\ n \in (1 - 1)..Len(q) /\ n - 1 + 1 = n OBVIOUS
    <2>2. /\ SubSeq(q, 1, n) \in Seq(S) /\ Len(SubSeq(q, 1, n)) = n - 1 + 1
          /\ \A i \in 1..(n - 1 + 1) : SubSeq(q, 1, n)[i] = q[1 + i - 1]
      BY <2>1, SubSeqFacts
    <2>3. \A i \in 1..n : i \in 1..Len(q) /\ 1 + i - 1 = i OBVIOUS
    <2> QED BY <2>1, <2>2, <2>3
  <1>2. /\ w \in Seq(S) /\ Len(w) = Len(q) - n
        /\ \A i \in 1..Len(w) : w[i] = q[n + i] /\ n + i \in 1..Len(q) /\ n + i > n
    <2>1. /\ n + 1 \in 1..(Len(q) + 1) /\ Len(q) \in ((n + 1) - 1)..Len(q)
          /\ Len(q) - (n + 1) + 1 = Len(q) - n
      OBVIOUS
    <2>2. /\ SubSeq(q, n + 1, Len(q)) \in Seq(S)
          /\ Len(SubSeq(q, n + 1, Len(q))) = Len(q) - (n + 1) + 1
          /\ \A i \in 1..(Len(q) - (n + 1) + 1) :
               SubSeq(q, n + 1, Len(q))[i] = q[(n + 1) + i - 1]
      BY <2>1, SubSeqFacts
    <2>3. \A i \in 1..(Len(q) - n) : n + i \in 1..Len(q) /\ (n + 1) + i - 1 = n + i /\ n + i > n
      OBVIOUS
    <2> QED BY <2>1, <2>2, <2>3
  <1>3. \A i, j \in 1..Len(a) : i # j => a[i] # a[j] BY <1>1
  <1>4. \A i, j \in 1..Len(w) : i # j => w[i] # w[j]
    <2> TAKE i \in 1..Len(w), j \in 1..Len(w)
    <2>1. i # j => n + i # n + j BY <1>2
    <2> QED BY <1>2, <2>1
  <1>5. \A i \in 1..Len(w), j \in 1..Len(a) : w[i] # a[j]
    <2> TAKE i \in 1..Len(w), j \in 1..Len(a)
    <2>1. n + i # j BY <1>1, <1>2
    <2> QED BY <1>1, <1>2, <2>1
  <1>6. /\ \A i \in 1..Len(a) : \E k \in 1..Len(q) : a[i] = q[k]
        /\ \A i \in 1..Len(w) : \E k \in 1..Len(q) : w[i] = q[k]
    BY <1>1, <1>2
  <1> QED BY <1>1, <1>2, <1>3, <1>4, <1>5, <1>6 DEF CutInTwo

LEMMA OccupiedCount == Cardinality(Occupied) \in Nat
  <1>1. IsFiniteSet(Occupied)
    BY SchedulingAssumption, FS_Subset DEF Occupied, TasksAt
  <1> QED BY <1>1, FS_CardinalityType

(* Admitted and Waiting split the tickets. *)
LEMMA SplitFacts ==
    ASSUME NEW ts \in Seq(Tasks), NEW c \in Nat
    PROVE  /\ Admitted(ts, c) \in Seq(Tasks) /\ Waiting(ts, c) \in Seq(Tasks)
           /\ \E n \in 0..Len(ts) :
                /\ Len(Admitted(ts, c)) = n /\ Len(Waiting(ts, c)) = Len(ts) - n
                /\ \A i \in 1..n : Admitted(ts, c)[i] = ts[i]
                /\ \A i \in 1..(Len(ts) - n) : Waiting(ts, c)[i] = ts[n + i]
  <1> DEFINE n == Smaller(Len(ts), Larger(0, c - Cardinality(Occupied)))
  <1>1. n \in 0..Len(ts) BY OccupiedCount DEF Smaller, Larger
  <1>2. Admitted(ts, c) = SubSeq(ts, 1, n) BY DEF Admitted
  <1> HIDE DEF n
  <1>3. /\ Admitted(ts, c) \in Seq(Tasks) /\ Len(Admitted(ts, c)) = n
        /\ \A i \in 1..n : Admitted(ts, c)[i] = ts[i]
    BY <1>1, <1>2, SubSeqFacts
  <1>4. Waiting(ts, c) = SubSeq(ts, n + 1, Len(ts)) BY <1>3 DEF Waiting
  <1>5. /\ Waiting(ts, c) \in Seq(Tasks) /\ Len(Waiting(ts, c)) = Len(ts) - n
        /\ \A i \in 1..(Len(ts) - n) : Waiting(ts, c)[i] = ts[n + i]
    <2>1. n + 1 \in 1..(Len(ts) + 1) /\ Len(ts) \in n..Len(ts) /\ (n + 1) - 1 = n
      BY <1>1
    <2>2. /\ SubSeq(ts, n + 1, Len(ts)) \in Seq(Tasks)
          /\ Len(SubSeq(ts, n + 1, Len(ts))) = Len(ts) - (n + 1) + 1
          /\ \A i \in 1..(Len(ts) - (n + 1) + 1) :
               SubSeq(ts, n + 1, Len(ts))[i] = ts[(n + 1) + i - 1]
      BY <2>1, SubSeqFacts
    <2> QED BY <1>1, <1>4, <2>2
  <1> QED BY <1>1, <1>3, <1>5

(* What is admitted of ts is part of ts. *)
LEMMA AdmittedIsPart ==
    ASSUME NEW ts \in Seq(Tasks), NEW c \in Nat
    PROVE  \A t \in RangeOf(Admitted(ts, c)) : t \in RangeOf(ts)
  <1>1. PICK n \in 0..Len(ts) :
          Len(Admitted(ts, c)) = n /\ \A i \in 1..n : Admitted(ts, c)[i] = ts[i]
    BY SplitFacts
  <1>2. Admitted(ts, c) \in Seq(Tasks) BY SplitFacts
  <1>3. \A i \in 1..n : i \in 1..Len(ts) OBVIOUS
  <1> QED BY <1>1, <1>2, <1>3 DEF RangeOf

-------------------------------------------------------------------------------
(* What dispatching the tickets ts through the gate does, whoever calls it.  *)
LEMMA DispatchFacts ==
    ASSUME TypeOK, QueuesAgree,
           NEW p \in [Tasks -> Places], NEW r \in [Tasks -> Rows],
           NEW ts \in Seq(Tasks), NEW c \in Nat,
           \A i, j \in 1..Len(ts) : i # j => ts[i] # ts[j],
           \A i \in 1..Len(ts) : place[ts[i]] # "gate",
           \A i \in 1..Len(gateQueue) : p[gateQueue[i]] = "gate",
           Dispatch(p, r, ts, c)
    PROVE  /\ place' \in [Tasks -> Places] /\ row' \in [Tasks -> Rows]
           /\ result' \in [Tasks -> Results] /\ gateQueue' \in Seq(Tasks)
           /\ \A t \in Tasks \ RangeOf(ts) : place'[t] = p[t] /\ row'[t] = r[t]
           /\ \A t \in RangeOf(ts) :
                /\ t \in Tasks
                /\ place'[t] \in {"gate", "running", "settled"}
                /\ place'[t] = "running" => t \notin cancelled \cup ticketCancelled
                /\ row'[t] \in {"transferring", r[t]}
           /\ \A i \in 1..Len(gateQueue') : place'[gateQueue'[i]] = "gate"
           /\ \A i, j \in 1..Len(gateQueue') : i # j => gateQueue'[i] # gateQueue'[j]
  <1> DEFINE in == Admitted(ts, c)
             out == Waiting(ts, c)
  <1>1. PICK n \in 0..Len(ts) :
            /\ Len(in) = n /\ Len(out) = Len(ts) - n
            /\ \A i \in 1..n : in[i] = ts[i]
            /\ \A i \in 1..(Len(ts) - n) : out[i] = ts[n + i]
    BY SplitFacts
  <1>2. in \in Seq(Tasks) /\ out \in Seq(Tasks) BY SplitFacts
  <1>3. gateQueue \in Seq(Tasks) BY DEF TypeOK
  <1>4. /\ place' = [t \in Tasks |-> IF t \in RangeOf(in) THEN EntersAs(t)
                                     ELSE IF t \in RangeOf(ts) THEN "gate" ELSE p[t]]
        /\ row' = [t \in Tasks |-> IF t \in RangeOf(in) THEN "transferring" ELSE r[t]]
        /\ result' = [t \in Tasks |-> IF t \in RangeOf(ts) THEN "ok" ELSE result[t]]
        /\ gateQueue' = gateQueue \o out
    BY DEF Dispatch, PlacesAfter, RowsAfter
  <1> HIDE DEF in, out
  <1>5. /\ RangeOf(in) = {ts[i] : i \in 1..n} /\ RangeOf(ts) = {ts[i] : i \in 1..Len(ts)}
        /\ RangeOf(in) \subseteq RangeOf(ts) /\ RangeOf(ts) \subseteq Tasks
    <2>1. DOMAIN in = 1..n /\ DOMAIN ts = 1..Len(ts) BY <1>1, <1>2
    <2>2. RangeOf(in) = {in[i] : i \in 1..n} /\ RangeOf(ts) = {ts[i] : i \in 1..Len(ts)}
      BY <2>1 DEF RangeOf
    <2>3. {in[i] : i \in 1..n} = {ts[i] : i \in 1..n} BY <1>1
    <2>4. \A i \in 1..n : i \in 1..Len(ts) BY <1>1
    <2>5. \A i \in 1..Len(ts) : ts[i] \in Tasks OBVIOUS
    <2> QED BY <2>2, <2>3, <2>4, <2>5, ZenonT(60)
  <1>6. /\ gateQueue' \in Seq(Tasks)
        /\ Len(gateQueue') = Len(gateQueue) + (Len(ts) - n)
        /\ \A i \in 1..Len(gateQueue) : gateQueue'[i] = gateQueue[i]
        /\ \A i \in (Len(gateQueue) + 1)..Len(gateQueue') :
             gateQueue'[i] = ts[n + (i - Len(gateQueue))]
    <2>1. \A i \in (Len(gateQueue) + 1)..(Len(gateQueue) + Len(out)) :
             (gateQueue \o out)[i] = out[i - Len(gateQueue)]
      BY <1>2, <1>3, ConcatFacts
    <2>2. /\ gateQueue \o out \in Seq(Tasks)
          /\ Len(gateQueue \o out) = Len(gateQueue) + Len(out)
          /\ \A i \in 1..Len(gateQueue) : (gateQueue \o out)[i] = gateQueue[i]
      BY <1>2, <1>3, ConcatFacts
    <2>3. Len(gateQueue) \in Nat /\ Len(ts) - n \in Nat BY <1>1, <1>3
    <2>4. gateQueue' = gateQueue \o out BY <1>4
    <2>5. \A i \in (Len(gateQueue) + 1)..(Len(gateQueue) + (Len(ts) - n)) :
             /\ i - Len(gateQueue) \in 1..(Len(ts) - n)
             /\ out[i - Len(gateQueue)] = ts[n + (i - Len(gateQueue))]
      <3> TAKE i \in (Len(gateQueue) + 1)..(Len(gateQueue) + (Len(ts) - n))
      <3>1. i - Len(gateQueue) \in 1..(Len(ts) - n) BY <2>3
      <3> QED BY <1>1, <3>1
    <2> QED BY <1>1, <2>1, <2>2, <2>4, <2>5
  <1>7. /\ place' \in [Tasks -> Places] /\ row' \in [Tasks -> Rows]
        /\ result' \in [Tasks -> Results]
    BY <1>4 DEF TypeOK, EntersAs, Places, Rows, Results
  <1>8. \A t \in Tasks \ RangeOf(ts) : place'[t] = p[t] /\ row'[t] = r[t]
    BY <1>4, <1>5
  <1>9. \A t \in RangeOf(ts) :
            /\ t \in Tasks
            /\ place'[t] \in {"gate", "running", "settled"}
            /\ place'[t] = "running" => t \notin cancelled \cup ticketCancelled
            /\ row'[t] \in {"transferring", r[t]}
    BY <1>4, <1>5 DEF EntersAs
  <1>10. \A i \in 1..Len(gateQueue') : place'[gateQueue'[i]] = "gate"
    <2> SUFFICES ASSUME NEW i \in 1..Len(gateQueue') PROVE place'[gateQueue'[i]] = "gate"
      OBVIOUS
    <2>1. CASE i \in 1..Len(gateQueue)
      <3>1. gateQueue[i] \in Tasks /\ place[gateQueue[i]] = "gate" /\ p[gateQueue[i]] = "gate"
        BY <1>3, <2>1 DEF QueuesAgree
      <3>2. gateQueue[i] \notin RangeOf(ts) BY <1>5, <3>1
      <3> QED BY <1>4, <1>5, <1>6, <2>1, <3>1, <3>2
    <2>2. CASE i \in (Len(gateQueue) + 1)..Len(gateQueue')
      <3> DEFINE k == n + (i - Len(gateQueue))
      <3>1. k \in 1..Len(ts) /\ k > n BY <1>1, <1>3, <1>6, <2>2
      <3>2. gateQueue'[i] = ts[k] BY <1>6, <2>2
      <3> HIDE DEF k
      <3>3. ts[k] \in RangeOf(ts) /\ ts[k] \notin RangeOf(in)
        BY <1>5, <3>1
      <3> QED BY <1>4, <1>5, <3>2, <3>3
    <2> QED BY <1>3, <1>6, <2>1, <2>2
  <1>11. \A i, j \in 1..Len(gateQueue') : i # j => gateQueue'[i] # gateQueue'[j]
    <2>1. \A i \in 1..Len(gateQueue), k \in 1..Len(ts) : gateQueue[i] # ts[k]
      BY DEF QueuesAgree
    <2>2. \A i, j \in 1..Len(gateQueue) : i # j => gateQueue[i] # gateQueue[j]
      BY DEF QueuesAgree
    <2> DEFINE m == Len(gateQueue)
               q == gateQueue'
    <2>3. m \in Nat /\ Len(q) \in Nat /\ Len(q) = m + (Len(ts) - n) /\ Len(ts) \in Nat
      BY <1>1, <1>3, <1>6
    <2>4. \A i \in 1..Len(q) : i <= m \/ n + (i - m) \in 1..Len(ts)
      BY <2>3
    <2>5. \A i \in 1..m : q[i] = gateQueue[i]
      BY <1>6
    <2>6. \A i \in (m + 1)..Len(q) : q[i] = ts[n + (i - m)]
      BY <1>6
    <2> HIDE DEF q, m
    <2>7. SUFFICES ASSUME NEW i \in 1..Len(q), NEW j \in 1..Len(q), i # j
                   PROVE  q[i] # q[j]
      BY DEF q
    <2>8. \A k \in 1..m, l \in 1..Len(ts) : gateQueue[k] # ts[l] BY <2>1 DEF m
    <2>9. \A k, l \in 1..m : k # l => gateQueue[k] # gateQueue[l] BY <2>2 DEF m
    <2>10. CASE i <= m /\ j <= m
      <3>1. i \in 1..m /\ j \in 1..m BY <2>3, <2>7, <2>10
      <3> QED BY <2>5, <2>7, <2>9, <3>1
    <2>11. CASE i > m /\ j > m
      <3>1. /\ i \in (m + 1)..Len(q) /\ j \in (m + 1)..Len(q)
            /\ n + (i - m) \in 1..Len(ts) /\ n + (j - m) \in 1..Len(ts)
            /\ n + (i - m) # n + (j - m)
        BY <2>3, <2>4, <2>7, <2>11
      <3>2. q[i] = ts[n + (i - m)] /\ q[j] = ts[n + (j - m)] BY <2>6, <3>1
      <3> QED BY <3>1, <3>2
    <2>12. CASE i <= m /\ j > m
      <3>1. i \in 1..m /\ j \in (m + 1)..Len(q) /\ n + (j - m) \in 1..Len(ts)
        BY <2>3, <2>4, <2>7, <2>12
      <3>2. q[i] = gateQueue[i] /\ q[j] = ts[n + (j - m)] BY <2>5, <2>6, <3>1
      <3> QED BY <2>8, <3>1, <3>2
    <2>13. CASE i > m /\ j <= m
      <3>1. j \in 1..m /\ i \in (m + 1)..Len(q) /\ n + (i - m) \in 1..Len(ts)
        BY <2>3, <2>4, <2>7, <2>13
      <3>2. q[j] = gateQueue[j] /\ q[i] = ts[n + (i - m)] BY <2>5, <2>6, <3>1
      <3> QED BY <2>8, <3>1, <3>2
    <2> QED BY <2>3, <2>7, <2>10, <2>11, <2>12, <2>13
  <1> QED BY <1>6, <1>7, <1>8, <1>9, <1>10, <1>11

(* Ending batches keeps the batch variables well typed. *)
LEMMA FinishFacts ==
    ASSUME TypeOK, NEW S \in SUBSET Batches, Finish(S)
    PROVE  /\ stage' \in [Batches -> Stages] /\ ended' \subseteq Batches
           /\ gateLimit' \in Limits /\ heldLimit' \in Limits \cup {NoLimit}
           /\ \A b \in Batches : stage[b] # "unborn" => stage'[b] # "unborn"
           /\ \A b \in Batches : stage'[b] # "running" => stage'[b] = stage[b] \/ b \in S
  <1>1. /\ stage' \in [Batches -> Stages]
        /\ \A b \in Batches : stage[b] # "unborn" => stage'[b] # "unborn"
        /\ \A b \in Batches : stage'[b] # "running" => stage'[b] = stage[b] \/ b \in S
    BY DEF TypeOK, Finish, Stages
  <1>2. ended' \subseteq Batches /\ gateLimit' \in Limits /\ heldLimit' \in Limits \cup {NoLimit}
    BY DEF TypeOK, Finish, EndBatch
  <1> QED BY <1>1, <1>2

(* What LocalNext does when task t goes to x with the rows r. *)
LocalNextEffect(t, x, r) ==
    /\ place' \in [Tasks -> Places] /\ row' \in [Tasks -> Rows]
    /\ result' \in [Tasks -> Results] /\ pendingTasks' \subseteq Tasks
    /\ gateQueue' \in Seq(Tasks) /\ localQueue' \in [Batches -> Seq(Tasks)]
    /\ stage' \in [Batches -> Stages] /\ ended' \subseteq Batches
    /\ schedulers' \subseteq schedulers
    /\ gateLimit' \in Limits /\ heldLimit' \in Limits \cup {NoLimit}
    /\ \A b \in Batches : stage[b] # "unborn" => stage'[b] # "unborn"
    /\ place'[t] = x /\ row'[t] = r[t]
    /\ \A s \in Tasks \ {t} :
         \/ place'[s] = place[s] /\ row'[s] = row[s]
         \/ /\ place[s] = "local" /\ owner[s] \notin stopped
            /\ place'[s] \in {"gate", "running", "settled"}
            /\ place'[s] = "running" => s \notin cancelled \cup ticketCancelled
            /\ row'[s] \in {"transferring", row[s]}
    /\ \A b \in stopped : localQueue'[b] = <<>>
    /\ owner' = owner => QueuesAgree'

(* One finished task, and the task of its batch that starts in its place. *)
LEMMA LocalNextFacts ==
    ASSUME SchedulingInv, NEW t \in Tasks, place[t] = "released",
           NEW x \in {"backoff", "reported"},
           NEW r \in [Tasks -> Rows], \A s \in Tasks \ {t} : r[s] = row[s],
           LocalNext(t, [place EXCEPT ![t] = x], r)
    PROVE  LocalNextEffect(t, x, r)
  <1> DEFINE b == owner[t]
             p == [place EXCEPT ![t] = x]
             q == localQueue[b]
             u == Head(q)
  <1>1. /\ b \in Batches /\ localQueue \in [Batches -> Seq(Tasks)] /\ q \in Seq(Tasks)
        /\ gateQueue \in Seq(Tasks) /\ place \in [Tasks -> Places] /\ row \in [Tasks -> Rows]
        /\ result \in [Tasks -> Results] /\ pendingTasks \subseteq Tasks
        /\ stage \in [Batches -> Stages] /\ ended \subseteq Batches /\ stopped \subseteq Batches
        /\ gateLimit \in Limits /\ heldLimit \in Limits \cup {NoLimit}
        /\ schedulers \subseteq Batches
    BY DEF SchedulingInv, TypeOK, Linked
  <1>2. /\ p \in [Tasks -> Places] /\ p[t] = x
        /\ \A s \in Tasks \ {t} : p[s] = place[s]
        /\ x \notin {"gate", "local"}
    BY <1>1 DEF Places
  <1>3. gateLimit \in Nat BY <1>1, SchedulingAssumption
  <1>4. /\ \A i \in 1..Len(gateQueue) : p[gateQueue[i]] = "gate" /\ gateQueue[i] # t
        /\ \A i \in 1..Len(gateQueue) : gateQueue[i] \in Tasks
    BY <1>1, <1>2 DEF SchedulingInv, QueuesAgree
  <1>5. CASE q # <<>>
    <2>1. /\ Dispatch(p, r, <<u>>, gateLimit)
          /\ localQueue' = [localQueue EXCEPT ![b] = Tail(@)]
          /\ pendingTasks' = (pendingTasks \ {t}) \cup {u}
          /\ UNCHANGED <<stage, ended, schedulers, gateLimit, heldLimit>>
      BY <1>5 DEF LocalNext
    <2>2. /\ u \in Tasks /\ u = q[1] /\ 1 \in 1..Len(q) /\ Len(q) \in Nat
          /\ Tail(q) \in Seq(Tasks) /\ Len(Tail(q)) = Len(q) - 1
          /\ \A i \in 1..(Len(q) - 1) : Tail(q)[i] = q[i + 1]
      BY <1>1, <1>5, TailFacts
    <2>3. /\ \A i \in 1..Len(q) : place[q[i]] = "local" /\ owner[q[i]] = b
          /\ \A i, j \in 1..Len(q) : i # j => q[i] # q[j]
      BY <1>1 DEF SchedulingInv, QueuesAgree
    <2>4. place[u] = "local" /\ owner[u] = b /\ u # t BY <2>2, <2>3
    <2>5. b \notin stopped BY <1>1, <1>5 DEF SchedulingInv, StoppedIsDrained
    <2>6. /\ <<u>> \in Seq(Tasks) /\ Len(<<u>>) = 1 /\ <<u>>[1] = u /\ RangeOf(<<u>>) = {u}
      BY <2>2 DEF RangeOf
    <2>7. /\ \A i, j \in 1..Len(<<u>>) : i # j => <<u>>[i] # <<u>>[j]
          /\ \A i \in 1..Len(<<u>>) : place[<<u>>[i]] # "gate"
      BY <2>4, <2>6
    <2>8. /\ place' \in [Tasks -> Places] /\ row' \in [Tasks -> Rows]
          /\ result' \in [Tasks -> Results] /\ gateQueue' \in Seq(Tasks)
          /\ \A s \in Tasks \ RangeOf(<<u>>) : place'[s] = p[s] /\ row'[s] = r[s]
          /\ \A s \in RangeOf(<<u>>) :
                /\ s \in Tasks
                /\ place'[s] \in {"gate", "running", "settled"}
                /\ place'[s] = "running" => s \notin cancelled \cup ticketCancelled
                /\ row'[s] \in {"transferring", r[s]}
          /\ \A i \in 1..Len(gateQueue') : place'[gateQueue'[i]] = "gate"
          /\ \A i, j \in 1..Len(gateQueue') : i # j => gateQueue'[i] # gateQueue'[j]
      <3>1. TypeOK /\ QueuesAgree BY DEF SchedulingInv
      <3>2. \A i \in 1..Len(gateQueue) : p[gateQueue[i]] = "gate" BY <1>4
      <3> HIDE DEF p, u
      <3> QED BY <1>2, <1>3, <2>1, <2>6, <2>7, <3>1, <3>2, DispatchFacts
    <2>9. /\ \A s \in Tasks \ {u} : place'[s] = p[s] /\ row'[s] = r[s]
          /\ place'[u] \in {"gate", "running", "settled"}
          /\ place'[u] = "running" => u \notin cancelled \cup ticketCancelled
          /\ row'[u] \in {"transferring", row[u]}
      BY <2>4, <2>6, <2>8, <2>2
    <2>10. /\ localQueue' \in [Batches -> Seq(Tasks)] /\ localQueue'[b] = Tail(q)
           /\ \A a \in Batches \ {b} : localQueue'[a] = localQueue[a]
      BY <1>1, <2>1, <2>2
    <2>11. \A a \in stopped : localQueue'[a] = <<>>
      BY <1>1, <2>5, <2>10 DEF SchedulingInv, StoppedIsDrained
    <2>12. ASSUME owner' = owner PROVE QueuesAgree'
      <3>1. ASSUME NEW a \in Batches
            PROVE  /\ \A i \in 1..Len(localQueue'[a]) :
                        place'[localQueue'[a][i]] = "local" /\ owner'[localQueue'[a][i]] = a
                   /\ \A i, j \in 1..Len(localQueue'[a]) :
                        i # j => localQueue'[a][i] # localQueue'[a][j]
        <4>1. CASE a = b
          <5>1. \A i \in 1..(Len(q) - 1) : i + 1 \in 1..Len(q) /\ i + 1 # 1 BY <2>2
          <5>2. \A i \in 1..(Len(q) - 1) :
                   Tail(q)[i] # u /\ place[Tail(q)[i]] = "local" /\ owner[Tail(q)[i]] = b
            BY <2>2, <2>3, <5>1
          <5>3. \A i \in 1..(Len(q) - 1) : Tail(q)[i] \in Tasks \ {u, t}
            <6> TAKE i \in 1..(Len(q) - 1)
            <6>1. i \in 1..Len(Tail(q)) BY <2>2
            <6>2. Tail(q)[i] \in Tasks BY <2>2, <6>1
            <6>3. Tail(q)[i] # u /\ place[Tail(q)[i]] = "local" BY <5>2
            <6> QED BY <6>2, <6>3
          <5>4. \A i, j \in 1..(Len(q) - 1) : i # j => Tail(q)[i] # Tail(q)[j]
            BY <2>2, <2>3, <5>1, SMTT(40)
          <5> DEFINE w == Tail(q)
          <5>5. localQueue'[a] = w /\ Len(w) = Len(q) - 1 BY <2>2, <2>10, <4>1
          <5> HIDE DEF w, p, q, u, b
          <5>6. \A s \in Tasks \ {u, t} : place'[s] = place[s] /\ owner'[s] = owner[s]
            BY <1>2, <2>9, <2>12
          <5>7. \A i \in 1..Len(w) : place'[w[i]] = "local" /\ owner'[w[i]] = a
            BY <4>1, <5>2, <5>3, <5>5, <5>6 DEF w
          <5>8. \A i, j \in 1..Len(w) : i # j => w[i] # w[j] BY <5>4, <5>5 DEF w
          <5> QED BY <5>5, <5>7, <5>8
        <4>2. CASE a # b
          <5>1. localQueue'[a] = localQueue[a] /\ localQueue[a] \in Seq(Tasks)
            BY <1>1, <2>10, <4>2
          <5>2. /\ \A i \in 1..Len(localQueue[a]) :
                     place[localQueue[a][i]] = "local" /\ owner[localQueue[a][i]] = a
                /\ \A i, j \in 1..Len(localQueue[a]) :
                     i # j => localQueue[a][i] # localQueue[a][j]
            BY DEF SchedulingInv, QueuesAgree
          <5>3. \A i \in 1..Len(localQueue[a]) : localQueue[a][i] \in Tasks \ {u, t}
            BY <2>4, <4>2, <5>1, <5>2
          <5> QED BY <1>2, <2>9, <2>12, <5>1, <5>2, <5>3
        <4> QED BY <4>1, <4>2
      <3> QED BY <2>8, <3>1 DEF QueuesAgree
    <2> HIDE DEF b, p, q, u
    <2> QED
      BY <1>1, <1>2, <2>1, <2>2, <2>4, <2>5, <2>8, <2>9, <2>10, <2>11, <2>12 DEF LocalNextEffect
  <1>6. CASE q = <<>>
    <2>1. /\ place' = p /\ row' = r /\ pendingTasks' = pendingTasks \ {t}
          /\ IF LocalPending(b, p) = {}
             THEN FinishRun(b, p)
             ELSE UNCHANGED <<stage, ended, schedulers, gateLimit, heldLimit>>
          /\ UNCHANGED <<localQueue, gateQueue, result>>
      BY <1>6 DEF LocalNext
    <2>2. /\ stage' \in [Batches -> Stages] /\ ended' \subseteq Batches
          /\ schedulers' \subseteq schedulers
          /\ gateLimit' \in Limits /\ heldLimit' \in Limits \cup {NoLimit}
          /\ \A a \in Batches : stage[a] # "unborn" => stage'[a] # "unborn"
      <3>1. CASE LocalPending(b, p) = {}
        <4> DEFINE S == IF CanFinish(b, p) THEN {b} ELSE {}
        <4>1. Finish(S) /\ schedulers' = schedulers \ S BY <2>1, <3>1 DEF FinishRun
        <4>2. S \in SUBSET Batches BY <1>1
        <4>3. TypeOK BY DEF SchedulingInv
        <4> HIDE DEF S
        <4> QED BY <4>1, <4>2, <4>3, FinishFacts
      <3>2. CASE LocalPending(b, p) # {} BY <1>1, <2>1, <3>2
      <3> QED BY <3>1, <3>2
    <2>3. \A a \in stopped : localQueue'[a] = <<>>
      BY <2>1 DEF SchedulingInv, StoppedIsDrained
    <2>4. ASSUME owner' = owner PROVE QueuesAgree'
      <3>1. \A a \in Batches : \A i \in 1..Len(localQueue[a]) :
               localQueue[a][i] \in Tasks /\ localQueue[a][i] # t
        BY <1>1 DEF SchedulingInv, QueuesAgree
      <3> QED BY <1>2, <1>4, <2>1, <2>4, <3>1 DEF SchedulingInv, QueuesAgree
    <2> HIDE DEF b, p, q, u
    <2> QED BY <1>1, <1>2, <2>1, <2>2, <2>3, <2>4 DEF LocalNextEffect
  <1> QED BY <1>5, <1>6

-------------------------------------------------------------------------------
(* Every action preserves the invariant. *)

LEMMA CreateBatchInv ==
    ASSUME SchedulingInv, NEW b \in Batches, NEW c \in Limits, CreateBatch(b, c)
    PROVE  SchedulingInv'
  <1> USE DEF taskVars, batchVars, gateVars
  <1>1. TypeOK'
    BY DEF SchedulingInv, TypeOK, Places, Stages, Results, Rows, CreateBatch, CeilingFor, HeldFor
  <1>2. QueuesAgree'
    BY DEF SchedulingInv, TypeOK, QueuesAgree, CreateBatch, CeilingFor, HeldFor
  <1>3. StoppedIsDrained'
    BY DEF SchedulingInv, TypeOK, StoppedIsDrained, CreateBatch, CeilingFor, HeldFor
  <1>4. ReportedOnce'
    BY DEF SchedulingInv, TypeOK, ReportedOnce, CreateBatch, CeilingFor, HeldFor
  <1>5. Linked'
    BY DEF SchedulingInv, TypeOK, Linked, CreateBatch, CeilingFor, HeldFor
  <1> QED BY <1>1, <1>2, <1>3, <1>4, <1>5 DEF SchedulingInv

LEMMA RunStoppedBatchInv ==
    ASSUME SchedulingInv, NEW b \in Batches, RunStoppedBatch(b)
    PROVE  SchedulingInv'
  <1> USE DEF taskVars, batchVars, gateVars
  <1>1. TypeOK'
    BY DEF SchedulingInv, TypeOK, Places, Stages, Results, Rows, RunStoppedBatch
  <1>2. QueuesAgree'
    BY DEF SchedulingInv, TypeOK, QueuesAgree, RunStoppedBatch
  <1>3. StoppedIsDrained'
    BY DEF SchedulingInv, TypeOK, StoppedIsDrained, RunStoppedBatch
  <1>4. ReportedOnce'
    BY DEF SchedulingInv, TypeOK, ReportedOnce, RunStoppedBatch
  <1>5. Linked'
    BY DEF SchedulingInv, TypeOK, Linked, RunStoppedBatch
  <1> QED BY <1>1, <1>2, <1>3, <1>4, <1>5 DEF SchedulingInv

LEMMA WalkFailsInv ==
    ASSUME SchedulingInv, NEW b \in Batches, WalkFails(b)
    PROVE  SchedulingInv'
  <1> USE DEF taskVars, batchVars, gateVars
  <1>1. TypeOK'
    BY DEF SchedulingInv, TypeOK, Places, Stages, Results, Rows, WalkFails
  <1>2. QueuesAgree'
    BY DEF SchedulingInv, TypeOK, QueuesAgree, WalkFails
  <1>3. StoppedIsDrained'
    BY DEF SchedulingInv, TypeOK, StoppedIsDrained, WalkFails
  <1>4. ReportedOnce'
    BY DEF SchedulingInv, TypeOK, ReportedOnce, WalkFails
  <1>5. Linked'
    BY DEF SchedulingInv, TypeOK, Linked, WalkFails
  <1> QED BY <1>1, <1>2, <1>3, <1>4, <1>5 DEF SchedulingInv

LEMMA TransferEndsInv ==
    ASSUME SchedulingInv, NEW t \in Tasks, NEW r \in Results, TransferEnds(t, r)
    PROVE  SchedulingInv'
  <1> USE DEF taskVars, batchVars, gateVars
  <1>1. TypeOK'
    BY DEF SchedulingInv, TypeOK, Places, Stages, Results, Rows, TransferEnds
  <1>2. QueuesAgree'
    BY DEF SchedulingInv, TypeOK, QueuesAgree, TransferEnds
  <1>3. StoppedIsDrained'
    BY DEF SchedulingInv, TypeOK, StoppedIsDrained, TransferEnds
  <1>4. ReportedOnce'
    BY DEF SchedulingInv, TypeOK, ReportedOnce, TransferEnds
  <1>5. Linked'
    BY DEF SchedulingInv, TypeOK, Linked, TransferEnds
  <1> QED BY <1>1, <1>2, <1>3, <1>4, <1>5 DEF SchedulingInv

LEMMA TimerFiresInv ==
    ASSUME SchedulingInv, NEW t \in Tasks, TimerFires(t)
    PROVE  SchedulingInv'
  <1> USE DEF taskVars, batchVars, gateVars
  <1>1. TypeOK'
    BY DEF SchedulingInv, TypeOK, Places, Stages, Results, Rows, TimerFires
  <1>2. QueuesAgree'
    BY SMTT(40) DEF SchedulingInv, TypeOK, QueuesAgree, TimerFires
  <1>3. StoppedIsDrained'
    BY DEF SchedulingInv, TypeOK, StoppedIsDrained, TimerFires
  <1>4. ReportedOnce'
    BY DEF SchedulingInv, TypeOK, ReportedOnce, TimerFires
  <1>5. Linked'
    BY DEF SchedulingInv, TypeOK, Linked, TimerFires
  <1> QED BY <1>1, <1>2, <1>3, <1>4, <1>5 DEF SchedulingInv

LEMMA CancelTaskInv ==
    ASSUME SchedulingInv, NEW t \in Tasks, CancelTask(t)
    PROVE  SchedulingInv'
  <1> USE DEF taskVars, batchVars, gateVars
  <1>1. TypeOK'
    BY DEF SchedulingInv, TypeOK, Places, Stages, Results, Rows, CancelTask
  <1>2. QueuesAgree'
    BY DEF SchedulingInv, TypeOK, QueuesAgree, CancelTask
  <1>3. StoppedIsDrained'
    BY DEF SchedulingInv, TypeOK, StoppedIsDrained, CancelTask
  <1>4. ReportedOnce'
    BY DEF SchedulingInv, TypeOK, ReportedOnce, CancelTask
  <1>5. Linked'
    BY DEF SchedulingInv, TypeOK, Linked, CancelTask
  <1> QED BY <1>1, <1>2, <1>3, <1>4, <1>5 DEF SchedulingInv

LEMMA RunEmptyBatchInv ==
    ASSUME SchedulingInv, NEW b \in Batches, RunEmptyBatch(b)
    PROVE  SchedulingInv'
  <1> USE DEF taskVars, batchVars, gateVars
  <1>1. TypeOK'
    BY DEF SchedulingInv, TypeOK, Places, Stages, Results, Rows, RunEmptyBatch, Finish, EndBatch
  <1>2. QueuesAgree'
    BY DEF SchedulingInv, TypeOK, QueuesAgree, RunEmptyBatch, Finish, EndBatch
  <1>3. StoppedIsDrained'
    BY DEF SchedulingInv, TypeOK, StoppedIsDrained, RunEmptyBatch, Finish, EndBatch
  <1>4. ReportedOnce'
    BY DEF SchedulingInv, TypeOK, ReportedOnce, RunEmptyBatch, Finish, EndBatch
  <1>5. Linked'
    BY DEF SchedulingInv, TypeOK, Linked, RunEmptyBatch, Finish, EndBatch
  <1> QED BY <1>1, <1>2, <1>3, <1>4, <1>5 DEF SchedulingInv

LEMMA StaleReconnectEndsInv ==
    ASSUME SchedulingInv, NEW b \in Batches, NEW t \in Tasks, StaleReconnectEnds(b, t)
    PROVE  SchedulingInv'
  <1> USE DEF taskVars, batchVars, gateVars
  <1>1. TypeOK'
    <2> DEFINE S == IF CanFinish(b, place) THEN {b} ELSE {}
    <2>1. Finish(S) /\ S \in SUBSET Batches /\ schedulers' = schedulers \ S
      BY DEF StaleReconnectEnds, FinishRun
    <2>2. TypeOK BY DEF SchedulingInv
    <2> HIDE DEF S
    <2>3. /\ stage' \in [Batches -> Stages] /\ ended' \subseteq Batches
          /\ gateLimit' \in Limits /\ heldLimit' \in Limits \cup {NoLimit}
      BY <2>1, <2>2, FinishFacts
    <2> QED BY <2>1, <2>2, <2>3 DEF TypeOK, StaleReconnectEnds
  <1>2. QueuesAgree'
    BY DEF SchedulingInv, TypeOK, QueuesAgree, StaleReconnectEnds, FinishRun, Finish, EndBatch
  <1>3. StoppedIsDrained'
    BY DEF SchedulingInv, TypeOK, StoppedIsDrained, StaleReconnectEnds, FinishRun, Finish, EndBatch
  <1>4. ReportedOnce'
    BY DEF SchedulingInv, TypeOK, ReportedOnce, StaleReconnectEnds, FinishRun, Finish, EndBatch
  <1>5. Linked'
    BY DEF SchedulingInv, TypeOK, Linked, StaleReconnectEnds, FinishRun, Finish, EndBatch
  <1> QED BY <1>1, <1>2, <1>3, <1>4, <1>5 DEF SchedulingInv

LEMMA ReconnectFailsInv ==
    ASSUME SchedulingInv, NEW t \in Tasks, ReconnectFails(t)
    PROVE  SchedulingInv'
  <1> USE DEF taskVars, batchVars, gateVars
  <1>1. TypeOK'
    <2> DEFINE p == [place EXCEPT ![t] = "reported"]
               S == IF CanFinish(owner[t], p) THEN {owner[t]} ELSE {}
    <2>1. Finish(S) /\ S \in SUBSET Batches /\ schedulers' = schedulers \ S
      BY DEF ReconnectFails, FinishRun, SchedulingInv, Linked
    <2>2. TypeOK BY DEF SchedulingInv
    <2>3. /\ place' \in [Tasks -> Places] /\ row' \in [Tasks -> Rows]
          /\ reports' \in [Tasks -> Nat]
      BY <2>2 DEF TypeOK, ReconnectFails, ReportedRow, Places, Rows
    <2> HIDE DEF S
    <2>4. /\ stage' \in [Batches -> Stages] /\ ended' \subseteq Batches
          /\ gateLimit' \in Limits /\ heldLimit' \in Limits \cup {NoLimit}
      BY <2>1, <2>2, FinishFacts
    <2> QED BY <2>1, <2>2, <2>3, <2>4 DEF TypeOK, ReconnectFails
  <1>2. QueuesAgree'
    BY DEF SchedulingInv, TypeOK, QueuesAgree, ReconnectFails, FinishRun, Finish, EndBatch, ReportedRow
  <1>3. StoppedIsDrained'
    BY DEF SchedulingInv, TypeOK, StoppedIsDrained, ReconnectFails, FinishRun, Finish, EndBatch, ReportedRow
  <1>4. ReportedOnce'
    BY DEF SchedulingInv, TypeOK, ReportedOnce, ReconnectFails, FinishRun, Finish, EndBatch, ReportedRow
  <1>5. Linked'
    BY DEF SchedulingInv, TypeOK, Linked, ReconnectFails, FinishRun, Finish, EndBatch, ReportedRow
  <1> QED BY <1>1, <1>2, <1>3, <1>4, <1>5 DEF SchedulingInv

LEMMA AddTaskInv ==
    ASSUME SchedulingInv, NEW b \in Batches, NEW t \in Tasks, AddTask(b, t)
    PROVE  SchedulingInv'
  <1> USE DEF taskVars, batchVars, gateVars
  <1> DEFINE q == localQueue[b]
             w == Append(q, t)
  <1>1. /\ q \in Seq(Tasks) /\ Len(q) \in Nat /\ w \in Seq(Tasks) /\ Len(w) = Len(q) + 1
        /\ w[Len(q) + 1] = t /\ \A i \in 1..Len(q) : w[i] = q[i]
    BY AppendFacts DEF SchedulingInv, TypeOK
  <1>2. /\ localQueue' = [localQueue EXCEPT ![b] = w] /\ place[t] = "new"
        /\ place' = [place EXCEPT ![t] = "local"] /\ owner' = [owner EXCEPT ![t] = b]
        /\ gateQueue' = gateQueue /\ b \notin stopped /\ stopped' = stopped
    BY DEF AddTask
  <1>3. /\ localQueue \in [Batches -> Seq(Tasks)] /\ place \in [Tasks -> Places]
        /\ owner \in [Tasks -> Batches \cup {0}] /\ gateQueue \in Seq(Tasks)
    BY DEF SchedulingInv, TypeOK
  <1>4. TypeOK'
    BY <1>1, <1>2 DEF SchedulingInv, TypeOK, Places, Rows, AddTask
  <1>5. QueuesAgree'
    <2>1. ASSUME NEW a \in Batches
          PROVE  /\ \A i \in 1..Len(localQueue[a]) :
                      /\ localQueue[a][i] # t
                      /\ localQueue[a][i] \in Tasks
                      /\ place[localQueue[a][i]] = "local" /\ owner[localQueue[a][i]] = a
                 /\ \A i, j \in 1..Len(localQueue[a]) :
                      i # j => localQueue[a][i] # localQueue[a][j]
      BY <1>2, <1>3 DEF SchedulingInv, QueuesAgree
    <2>2. ASSUME NEW a \in Batches
          PROVE  /\ \A i \in 1..Len(localQueue'[a]) :
                      place'[localQueue'[a][i]] = "local" /\ owner'[localQueue'[a][i]] = a
                 /\ \A i, j \in 1..Len(localQueue'[a]) :
                      i # j => localQueue'[a][i] # localQueue'[a][j]
      <3>1. CASE a = b
        <4>1. localQueue'[a] = w BY <1>2, <1>3, <3>1
        <4>2. \A i \in 1..Len(q) : w[i] # t /\ place'[w[i]] = "local" /\ owner'[w[i]] = b
          BY <1>1, <1>2, <1>3, <2>1
        <4>3. \A i, j \in 1..Len(q) : i # j => w[i] # w[j] BY <1>1, <2>1
        <4>4. place'[t] = "local" /\ owner'[t] = b BY <1>2, <1>3
        <4> HIDE DEF w, q
        <4>5. \A i \in 1..Len(w) : i \in 1..Len(q) \/ i = Len(q) + 1 BY <1>1
        <4>6. \A i \in 1..Len(w) : place'[w[i]] = "local" /\ owner'[w[i]] = b
          BY <1>1, <4>2, <4>4, <4>5
        <4>7. \A i, j \in 1..Len(w) : i # j => w[i] # w[j]
          BY <1>1, <4>2, <4>3, <4>5
        <4> QED BY <3>1, <4>1, <4>6, <4>7
      <3>2. CASE a # b BY <1>2, <1>3, <2>1, <3>2
      <3> QED BY <3>1, <3>2
    <2>3. \A i \in 1..Len(gateQueue) : gateQueue[i] \in Tasks /\ gateQueue[i] # t
      BY <1>2, <1>3 DEF SchedulingInv, QueuesAgree
    <2> QED BY <1>2, <1>3, <2>2, <2>3 DEF SchedulingInv, QueuesAgree
  <1>6. StoppedIsDrained'
    BY <1>2 DEF SchedulingInv, TypeOK, StoppedIsDrained, AddTask
  <1>7. ReportedOnce'
    BY DEF SchedulingInv, TypeOK, ReportedOnce, AddTask
  <1>8. Linked'
    BY DEF SchedulingInv, TypeOK, Linked, AddTask
  <1> QED BY <1>4, <1>5, <1>6, <1>7, <1>8 DEF SchedulingInv

LEMMA GateDoneInv ==
    ASSUME SchedulingInv, NEW t \in Tasks, GateDone(t)
    PROVE  SchedulingInv'
  <1> USE DEF taskVars, batchVars, gateVars
  <1>1. CASE gateQueue = <<>>
    <2>1. TypeOK' BY <1>1 DEF SchedulingInv, TypeOK, GateDone, Places
    <2>2. QueuesAgree' BY <1>1 DEF SchedulingInv, TypeOK, QueuesAgree, GateDone
    <2>3. StoppedIsDrained' BY <1>1 DEF SchedulingInv, TypeOK, StoppedIsDrained, GateDone
    <2>4. ReportedOnce' BY <1>1 DEF SchedulingInv, TypeOK, ReportedOnce, GateDone
    <2>5. Linked' BY <1>1 DEF SchedulingInv, TypeOK, Linked, GateDone
    <2> QED BY <2>1, <2>2, <2>3, <2>4, <2>5 DEF SchedulingInv
  <1>2. CASE gateQueue # <<>>
    <2> DEFINE u == Head(gateQueue)
               w == Tail(gateQueue)
    <2>1. /\ u \in Tasks /\ u = gateQueue[1] /\ 1 \in 1..Len(gateQueue)
          /\ w \in Seq(Tasks) /\ Len(w) = Len(gateQueue) - 1 /\ Len(gateQueue) \in Nat
          /\ \A i \in 1..(Len(gateQueue) - 1) : w[i] = gateQueue[i + 1]
      BY <1>2, TailFacts DEF SchedulingInv, TypeOK
    <2>2. place[u] = "gate" /\ place[t] = "settled" /\ u # t
      BY <2>1 DEF SchedulingInv, QueuesAgree, GateDone
    <2>3. /\ place' = [[place EXCEPT ![t] = "released"] EXCEPT ![u] = EntersAs(u)]
          /\ row' = IF u \in ticketCancelled THEN row ELSE [row EXCEPT ![u] = "transferring"]
          /\ gateQueue' = w
          /\ UNCHANGED <<owner, result, attempts, cancelled, ticketCancelled, reports,
                         pendingTasks, batchVars, gateLimit, heldLimit>>
      BY <1>2 DEF GateDone
    <2>4. \A i \in 1..Len(w) : w[i] \in Tasks /\ place[w[i]] = "gate" /\ w[i] # u
      <3>1. \A i \in 1..(Len(gateQueue) - 1) : i + 1 \in 1..Len(gateQueue) /\ i + 1 # 1
        BY <2>1
      <3> QED BY <2>1, <3>1 DEF SchedulingInv, QueuesAgree
    <2>5. \A i, j \in 1..Len(w) : i # j => w[i] # w[j]
      <3>1. \A i \in 1..(Len(gateQueue) - 1) : i + 1 \in 1..Len(gateQueue)
        BY <2>1
      <3> QED BY <2>1, <3>1 DEF SchedulingInv, QueuesAgree
    <2> HIDE DEF u, w
    <2>11. owner' = owner /\ localQueue' = localQueue BY <2>3
    <2>6. TypeOK'
      BY <2>1, <2>3 DEF SchedulingInv, TypeOK, Places, Rows, EntersAs
    <2>7. QueuesAgree'
      <3>1. \A i \in 1..Len(gateQueue') : place'[gateQueue'[i]] = "gate"
        BY <2>2, <2>3, <2>4 DEF SchedulingInv, TypeOK
      <3>2. \A a \in Batches : \A i \in 1..Len(localQueue[a]) :
               /\ localQueue[a][i] \in Tasks \ {t, u}
               /\ place[localQueue[a][i]] = "local" /\ owner[localQueue[a][i]] = a
        BY <2>2 DEF SchedulingInv, TypeOK, QueuesAgree
      <3>3. \A s \in Tasks \ {t, u} : place'[s] = place[s]
        BY <2>3 DEF SchedulingInv, TypeOK
      <3>4. \A a \in Batches : \A i \in 1..Len(localQueue'[a]) :
               place'[localQueue'[a][i]] = "local" /\ owner'[localQueue'[a][i]] = a
        BY <2>11, <3>2, <3>3
      <3>5. \A a \in Batches : \A i, j \in 1..Len(localQueue'[a]) :
               i # j => localQueue'[a][i] # localQueue'[a][j]
        BY <2>11 DEF SchedulingInv, QueuesAgree
      <3>6. \A i, j \in 1..Len(gateQueue') : i # j => gateQueue'[i] # gateQueue'[j]
        BY <2>3, <2>5
      <3> QED BY <3>1, <3>4, <3>5, <3>6 DEF QueuesAgree
    <2>8. StoppedIsDrained'
      BY <2>1, <2>2, <2>3 DEF SchedulingInv, TypeOK, StoppedIsDrained, EntersAs
    <2>9. ReportedOnce'
      BY <2>1, <2>2, <2>3 DEF SchedulingInv, TypeOK, ReportedOnce, EntersAs
    <2>10. Linked'
      BY <2>1, <2>2, <2>3 DEF SchedulingInv, TypeOK, Linked, EntersAs
    <2> QED BY <2>6, <2>7, <2>8, <2>9, <2>10 DEF SchedulingInv
  <1> QED BY <1>1, <1>2

LEMMA ParkInv ==
    ASSUME SchedulingInv, NEW t \in Tasks, Park(t)
    PROVE  SchedulingInv'
  <1>1. /\ place[t] = "released" /\ WillRetry(t)
        /\ attempts' = [attempts EXCEPT ![t] = @ + 1]
        /\ LocalNext(t, [place EXCEPT ![t] = "backoff"], row)
        /\ UNCHANGED <<owner, cancelled, ticketCancelled, reports, limit, stopped,
                       staleReconnects>>
    BY DEF Park
  <1>2. /\ row \in [Tasks -> Rows] /\ \A s \in Tasks \ {t} : row[s] = row[s]
        /\ "backoff" \in {"backoff", "reported"}
    BY DEF SchedulingInv, TypeOK
  <1>3. LocalNextEffect(t, "backoff", row)
    BY <1>1, <1>2, LocalNextFacts
  <1>4. TypeOK'
    <2>1. attempts' \in [Tasks -> 0..MaxRetries]
      BY <1>1, SchedulingAssumption DEF SchedulingInv, TypeOK, WillRetry
    <2> QED BY <1>1, <1>3, <2>1 DEF SchedulingInv, TypeOK, LocalNextEffect
  <1>5. QueuesAgree' BY <1>1, <1>3 DEF LocalNextEffect
  <1>6. StoppedIsDrained'
    BY <1>1, <1>3 DEF SchedulingInv, TypeOK, StoppedIsDrained, WillRetry, LocalNextEffect
  <1>7. ReportedOnce'
    BY <1>1, <1>3 DEF SchedulingInv, TypeOK, ReportedOnce, LocalNextEffect
  <1>8. Linked'
    BY <1>1, <1>3 DEF SchedulingInv, TypeOK, Linked, LocalNextEffect
  <1> QED BY <1>4, <1>5, <1>6, <1>7, <1>8 DEF SchedulingInv

LEMMA ReportInv ==
    ASSUME SchedulingInv, NEW t \in Tasks, Report(t)
    PROVE  SchedulingInv'
  <1> DEFINE r == [row EXCEPT ![t] = ReportedRow(t, result[t] # "ok")]
  <1>1. /\ place[t] = "released"
        /\ reports' = [reports EXCEPT ![t] = @ + 1]
        /\ ticketCancelled' = ticketCancelled \ {t}
        /\ LocalNext(t, [place EXCEPT ![t] = "reported"], r)
        /\ UNCHANGED <<owner, attempts, cancelled, limit, stopped, staleReconnects>>
    BY DEF Report
  <1>2. /\ r \in [Tasks -> Rows] /\ \A s \in Tasks \ {t} : r[s] = row[s]
        /\ "reported" \in {"backoff", "reported"}
    BY DEF SchedulingInv, TypeOK, ReportedRow, Rows
  <1> HIDE DEF r
  <1>3. LocalNextEffect(t, "reported", r)
    BY <1>1, <1>2, LocalNextFacts
  <1>4. TypeOK'
    <2>1. reports' \in [Tasks -> Nat] /\ ticketCancelled' \subseteq Tasks
      BY <1>1 DEF SchedulingInv, TypeOK
    <2> QED BY <1>1, <1>3, <2>1 DEF SchedulingInv, TypeOK, LocalNextEffect
  <1>5. QueuesAgree' BY <1>1, <1>3 DEF LocalNextEffect
  <1>6. StoppedIsDrained'
    BY <1>1, <1>3 DEF SchedulingInv, TypeOK, StoppedIsDrained, LocalNextEffect
  <1>7. ReportedOnce'
    <2>1. \A s \in Tasks : reports[s] = IF place[s] = "reported" THEN 1 ELSE 0
      BY DEF SchedulingInv, ReportedOnce
    <2>2. reports'[t] = reports[t] + 1 /\ \A s \in Tasks \ {t} : reports'[s] = reports[s]
      BY <1>1 DEF SchedulingInv, TypeOK
    <2>3. /\ place'[t] = "reported"
          /\ \A s \in Tasks \ {t} : place'[s] = "reported" <=> place[s] = "reported"
      BY <1>3 DEF LocalNextEffect
    <2>4. reports[t] = 0 BY <1>1, <2>1
    <2> QED BY <2>1, <2>2, <2>3, <2>4 DEF ReportedOnce
  <1>8. Linked'
    BY <1>1, <1>3 DEF SchedulingInv, TypeOK, Linked, LocalNextEffect
  <1> QED BY <1>4, <1>5, <1>6, <1>7, <1>8 DEF SchedulingInv

LEMMA RunBatchInv ==
    ASSUME SchedulingInv, NEW b \in Batches, RunBatch(b)
    PROVE  SchedulingInv'
  <1> DEFINE q == localQueue[b]
             n == Smaller(limit[b], Len(q))
             ts == SubSeq(q, 1, n)
             w == SubSeq(q, n + 1, Len(q))
  <1>1. /\ stage[b] = "walking" /\ b \notin stopped
        /\ stage' = [stage EXCEPT ![b] = "running"]
        /\ localQueue' = [localQueue EXCEPT ![b] = w]
        /\ pendingTasks' = pendingTasks \cup RangeOf(ts)
        /\ Dispatch(place, row, ts, gateLimit)
        /\ UNCHANGED <<owner, attempts, cancelled, ticketCancelled, reports, limit,
                       stopped, ended, schedulers, staleReconnects, gateLimit, heldLimit>>
    BY DEF RunBatch
  <1>2. /\ q \in Seq(Tasks) /\ Len(q) \in Nat /\ limit[b] \in Nat /\ gateLimit \in Nat
        /\ place \in [Tasks -> Places] /\ row \in [Tasks -> Rows]
        /\ localQueue \in [Batches -> Seq(Tasks)]
        /\ TypeOK /\ QueuesAgree
    <2>1. TypeOK /\ QueuesAgree BY DEF SchedulingInv
    <2>2. limit \in [Batches -> Limits \cup {0}] /\ gateLimit \in Limits
      BY <2>1 DEF TypeOK, NoLimit
    <2>3. Limits \subseteq Nat BY SchedulingAssumption
    <2>4. limit[b] \in Limits \cup {0} BY <2>2
    <2>5. gateLimit \in Nat BY <2>2, <2>3
    <2>6. \A c \in Limits \cup {0} : c \in Nat BY <2>3
    <2>7. limit[b] \in Nat BY <2>4, <2>6
    <2> QED BY <2>1, <2>5, <2>7 DEF TypeOK
  <1>3. /\ \A i \in 1..Len(q) : q[i] \in Tasks /\ place[q[i]] = "local" /\ owner[q[i]] = b
        /\ \A i, j \in 1..Len(q) : i # j => q[i] # q[j]
    BY <1>2 DEF QueuesAgree
  <1>4. n \in 0..Len(q) BY <1>2 DEF Smaller
  <1> HIDE DEF q, n
  <1> HIDE DEF ts, w
  <1>5. /\ ts \in Seq(Tasks) /\ w \in Seq(Tasks)
        /\ \A i \in 1..Len(ts) : \E k \in 1..Len(q) : ts[i] = q[k]
        /\ \A i \in 1..Len(w) : \E k \in 1..Len(q) : w[i] = q[k]
        /\ \A i, j \in 1..Len(ts) : i # j => ts[i] # ts[j]
        /\ \A i, j \in 1..Len(w) : i # j => w[i] # w[j]
        /\ \A i \in 1..Len(w), j \in 1..Len(ts) : w[i] # ts[j]
    <2>1. q \in Seq(Tasks) /\ n \in 0..Len(q) BY <1>2, <1>4
    <2>2. \A i, j \in 1..Len(q) : i # j => q[i] # q[j] BY <1>3
    <2>3. ts = SubSeq(q, 1, n) /\ w = SubSeq(q, n + 1, Len(q)) BY DEF ts, w
    <2>4. ts \in Seq(Tasks) /\ w \in Seq(Tasks) /\ CutInTwo(q, ts, w)
      BY <2>1, <2>2, <2>3, CutFacts
    <2> QED BY <2>4 DEF CutInTwo
  <1>6. ASSUME NEW i \in 1..Len(ts)
        PROVE  ts[i] \in Tasks /\ place[ts[i]] = "local" /\ owner[ts[i]] = b
    <2>1. PICK k \in 1..Len(q) : ts[i] = q[k] BY <1>5
    <2> QED BY <1>3, <2>1
  <1>7. ASSUME NEW i \in 1..Len(w)
        PROVE  w[i] \in Tasks /\ place[w[i]] = "local" /\ owner[w[i]] = b
    <2>1. PICK k \in 1..Len(q) : w[i] = q[k] BY <1>5
    <2> QED BY <1>3, <2>1
  <1>8. RangeOf(ts) \subseteq Tasks /\ RangeOf(ts) = {ts[i] : i \in 1..Len(ts)}
    <2>1. RangeOf(ts) = {ts[i] : i \in 1..Len(ts)} BY <1>5 DEF RangeOf
    <2> QED BY <1>6, <2>1
  <1>9. /\ place' \in [Tasks -> Places] /\ row' \in [Tasks -> Rows]
        /\ result' \in [Tasks -> Results] /\ gateQueue' \in Seq(Tasks)
        /\ \A t \in Tasks \ RangeOf(ts) : place'[t] = place[t] /\ row'[t] = row[t]
        /\ \A t \in RangeOf(ts) :
             /\ t \in Tasks
             /\ place'[t] \in {"gate", "running", "settled"}
             /\ place'[t] = "running" => t \notin cancelled \cup ticketCancelled
             /\ row'[t] \in {"transferring", row[t]}
        /\ \A i \in 1..Len(gateQueue') : place'[gateQueue'[i]] = "gate"
        /\ \A i, j \in 1..Len(gateQueue') : i # j => gateQueue'[i] # gateQueue'[j]
    <2>1. \A i \in 1..Len(gateQueue) : place[gateQueue[i]] = "gate"
      BY <1>2 DEF QueuesAgree
    <2>2. \A i \in 1..Len(ts) : place[ts[i]] # "gate" BY <1>6
    <2>3. \A i, j \in 1..Len(ts) : i # j => ts[i] # ts[j] BY <1>5
    <2> QED BY <1>1, <1>2, <1>5, <2>1, <2>2, <2>3, DispatchFacts
  <1>10. \A t \in RangeOf(ts) : place[t] = "local" /\ owner[t] = b
    BY <1>6, <1>8
  <1>11. TypeOK'
    BY <1>1, <1>2, <1>5, <1>8, <1>9 DEF TypeOK, Stages
  <1>12. QueuesAgree'
    <2>1. ASSUME NEW a \in Batches
          PROVE  /\ \A i \in 1..Len(localQueue'[a]) :
                      place'[localQueue'[a][i]] = "local" /\ owner'[localQueue'[a][i]] = a
                 /\ \A i, j \in 1..Len(localQueue'[a]) :
                      i # j => localQueue'[a][i] # localQueue'[a][j]
      <3>1. CASE a = b
        <4>1. localQueue'[a] = w BY <1>1, <1>2, <3>1
        <4>2. \A i \in 1..Len(w) : w[i] \in Tasks \ RangeOf(ts) BY <1>5, <1>7, <1>8
        <4>3. \A i \in 1..Len(w) : place'[w[i]] = "local" /\ owner'[w[i]] = a
          BY <1>1, <1>7, <1>9, <3>1, <4>2
        <4> QED BY <1>5, <4>1, <4>3
      <3>2. CASE a # b
        <4>1. localQueue'[a] = localQueue[a] /\ localQueue[a] \in Seq(Tasks)
          BY <1>1, <1>2, <3>2
        <4>2. /\ \A i \in 1..Len(localQueue[a]) :
                   place[localQueue[a][i]] = "local" /\ owner[localQueue[a][i]] = a
              /\ \A i, j \in 1..Len(localQueue[a]) :
                   i # j => localQueue[a][i] # localQueue[a][j]
          BY <1>2 DEF QueuesAgree
        <4>3. \A i \in 1..Len(localQueue[a]) : localQueue[a][i] \in Tasks \ RangeOf(ts)
          BY <1>10, <3>2, <4>1, <4>2
        <4> QED BY <1>1, <1>9, <4>1, <4>2, <4>3
      <3> QED BY <3>1, <3>2
    <2> QED BY <1>9, <2>1 DEF QueuesAgree
  <1>13. StoppedIsDrained'
    BY <1>1, <1>2, <1>9, <1>10 DEF SchedulingInv, TypeOK, StoppedIsDrained
  <1>14. ReportedOnce'
    BY <1>1, <1>9, <1>10 DEF SchedulingInv, ReportedOnce
  <1>15. Linked'
    BY <1>1, <1>2, <1>9, <1>10 DEF SchedulingInv, TypeOK, Linked
  <1> QED BY <1>11, <1>12, <1>13, <1>14, <1>15 DEF SchedulingInv

(* A single task t, in no queue, sent through the gate by itself. *)
LEMMA DispatchOneFacts ==
    ASSUME SchedulingInv, NEW t \in Tasks, place[t] \notin {"local", "gate"},
           NEW r \in [Tasks -> Rows], NEW c \in Nat,
           Dispatch(place, r, <<t>>, c)
    PROVE  /\ place' \in [Tasks -> Places] /\ row' \in [Tasks -> Rows]
           /\ result' \in [Tasks -> Results] /\ gateQueue' \in Seq(Tasks)
           /\ \A s \in Tasks \ {t} : place'[s] = place[s] /\ row'[s] = r[s]
           /\ place'[t] \in {"gate", "running", "settled"}
           /\ place'[t] = "running" => t \notin cancelled \cup ticketCancelled
           /\ row'[t] \in {"transferring", r[t]}
           /\ (localQueue' = localQueue /\ \A s \in Tasks \ {t} : owner'[s] = owner[s])
                 => QueuesAgree'
  <1>1. TypeOK /\ QueuesAgree /\ place \in [Tasks -> Places]
    BY DEF SchedulingInv, TypeOK
  <1>2. /\ <<t>> \in Seq(Tasks) /\ Len(<<t>>) = 1 /\ <<t>>[1] = t /\ RangeOf(<<t>>) = {t}
    BY DEF RangeOf
  <1>3. /\ \A i, j \in 1..Len(<<t>>) : i # j => <<t>>[i] # <<t>>[j]
        /\ \A i \in 1..Len(<<t>>) : place[<<t>>[i]] # "gate"
    BY <1>2
  <1>4. \A i \in 1..Len(gateQueue) : place[gateQueue[i]] = "gate"
    BY <1>1 DEF QueuesAgree
  <1>5. /\ place' \in [Tasks -> Places] /\ row' \in [Tasks -> Rows]
        /\ result' \in [Tasks -> Results] /\ gateQueue' \in Seq(Tasks)
        /\ \A s \in Tasks \ RangeOf(<<t>>) : place'[s] = place[s] /\ row'[s] = r[s]
        /\ \A s \in RangeOf(<<t>>) :
              /\ s \in Tasks
              /\ place'[s] \in {"gate", "running", "settled"}
              /\ place'[s] = "running" => s \notin cancelled \cup ticketCancelled
              /\ row'[s] \in {"transferring", r[s]}
        /\ \A i \in 1..Len(gateQueue') : place'[gateQueue'[i]] = "gate"
        /\ \A i, j \in 1..Len(gateQueue') : i # j => gateQueue'[i] # gateQueue'[j]
    BY <1>1, <1>2, <1>3, <1>4, DispatchFacts
  <1>6. ASSUME localQueue' = localQueue, \A s \in Tasks \ {t} : owner'[s] = owner[s]
        PROVE  QueuesAgree'
    <2>1. \A b \in Batches : \A i \in 1..Len(localQueue[b]) :
             /\ localQueue[b][i] \in Tasks \ {t}
             /\ place[localQueue[b][i]] = "local" /\ owner[localQueue[b][i]] = b
      BY <1>1 DEF TypeOK, QueuesAgree
    <2>2. \A b \in Batches : \A i, j \in 1..Len(localQueue[b]) :
             i # j => localQueue[b][i] # localQueue[b][j]
      BY <1>1 DEF QueuesAgree
    <2>3. \A s \in Tasks \ {t} : place'[s] = place[s] BY <1>2, <1>5
    <2>4. \A b \in Batches : \A i \in 1..Len(localQueue'[b]) :
             place'[localQueue'[b][i]] = "local" /\ owner'[localQueue'[b][i]] = b
      BY <1>6, <2>1, <2>3
    <2>5. \A b \in Batches : \A i, j \in 1..Len(localQueue'[b]) :
             i # j => localQueue'[b][i] # localQueue'[b][j]
      BY <1>6, <2>2
    <2> QED BY <1>5, <2>4, <2>5 DEF QueuesAgree
  <1> QED BY <1>2, <1>5, <1>6

LEMMA RetryCommandInv ==
    ASSUME SchedulingInv, NEW b \in Batches, NEW t \in Tasks, NEW c \in Limits,
           RetryCommand(b, t, c)
    PROVE  SchedulingInv'
  <1> DEFINE r == [row EXCEPT ![t] = "queued"]
  <1>1. /\ stage[b] = "unborn" /\ row[t] = "error"
        /\ stage' = [stage EXCEPT ![b] = "running"]
        /\ limit' = [limit EXCEPT ![b] = c]
        /\ schedulers' = schedulers \cup {b}
        /\ gateLimit' = CeilingFor(c) /\ heldLimit' = HeldFor(c)
        /\ owner' = [owner EXCEPT ![t] = b]
        /\ attempts' = [attempts EXCEPT ![t] = 0]
        /\ reports' = [reports EXCEPT ![t] = 0]
        /\ pendingTasks' = pendingTasks \cup {t}
        /\ Dispatch(place, r, <<t>>, CeilingFor(c))
        /\ UNCHANGED <<cancelled, ticketCancelled, localQueue, stopped, ended, staleReconnects>>
    BY DEF RetryCommand
  <1>2. /\ CeilingFor(c) \in Limits /\ HeldFor(c) \in Limits \cup {NoLimit}
        /\ CeilingFor(c) \in Nat
    BY SchedulingAssumption DEF SchedulingInv, TypeOK, CeilingFor, HeldFor
  <1>3. place[t] = "reported" /\ b \notin stopped
    BY <1>1 DEF SchedulingInv, Linked, StoppedIsDrained
  <1>4. r \in [Tasks -> Rows] /\ r[t] = "queued" /\ \A s \in Tasks \ {t} : r[s] = row[s]
    BY DEF SchedulingInv, TypeOK, Rows
  <1>5. \A s \in Tasks \ {t} : owner'[s] = owner[s]
    BY <1>1 DEF SchedulingInv, TypeOK
  <1> HIDE DEF r
  <1>6. /\ place' \in [Tasks -> Places] /\ row' \in [Tasks -> Rows]
        /\ result' \in [Tasks -> Results] /\ gateQueue' \in Seq(Tasks)
        /\ \A s \in Tasks \ {t} : place'[s] = place[s] /\ row'[s] = r[s]
        /\ place'[t] \in {"gate", "running", "settled"}
        /\ row'[t] \in {"transferring", r[t]}
        /\ (localQueue' = localQueue /\ \A s \in Tasks \ {t} : owner'[s] = owner[s])
              => QueuesAgree'
    BY <1>1, <1>2, <1>3, <1>4, DispatchOneFacts
  <1>7. TypeOK'
    <2>1. attempts' \in [Tasks -> 0..MaxRetries]
      <3>1. 0 \in 0..MaxRetries BY SchedulingAssumption
      <3>2. attempts \in [Tasks -> 0..MaxRetries] BY DEF SchedulingInv, TypeOK
      <3> QED BY <1>1, <3>1, <3>2
    <2>2. owner' \in [Tasks -> Batches \cup {0}] /\ reports' \in [Tasks -> Nat]
      BY <1>1 DEF SchedulingInv, TypeOK
    <2>3. stage' \in [Batches -> Stages] BY <1>1 DEF SchedulingInv, TypeOK, Stages
    <2>4. limit' \in [Batches -> Limits \cup {NoLimit}]
      BY <1>1 DEF SchedulingInv, TypeOK
    <2>5. /\ pendingTasks' \subseteq Tasks /\ schedulers' \subseteq Batches
          /\ gateLimit' \in Limits /\ heldLimit' \in Limits \cup {NoLimit}
      BY <1>1, <1>2 DEF SchedulingInv, TypeOK
    <2>6. /\ cancelled' \subseteq Tasks /\ ticketCancelled' \subseteq Tasks
          /\ localQueue' \in [Batches -> Seq(Tasks)]
          /\ stopped' \subseteq Batches /\ ended' \subseteq Batches
          /\ staleReconnects' \subseteq Batches \X Tasks
      BY <1>1 DEF SchedulingInv, TypeOK
    <2> QED BY <1>6, <2>1, <2>2, <2>3, <2>4, <2>5, <2>6 DEF TypeOK
  <1>8. QueuesAgree' BY <1>1, <1>5, <1>6
  <1>9. StoppedIsDrained'
    BY <1>1, <1>3, <1>6 DEF SchedulingInv, TypeOK, StoppedIsDrained
  <1>10. ReportedOnce'
    BY <1>1, <1>6 DEF SchedulingInv, TypeOK, ReportedOnce
  <1>11. Linked'
    BY <1>1, <1>4, <1>6 DEF SchedulingInv, TypeOK, Linked
  <1> QED BY <1>7, <1>8, <1>9, <1>10, <1>11 DEF SchedulingInv

LEMMA ReconnectSucceedsInv ==
    ASSUME SchedulingInv, NEW t \in Tasks, ReconnectSucceeds(t)
    PROVE  SchedulingInv'
  <1> DEFINE b == owner[t]
             q == localQueue[b]
             w == Append(q, t)
  <1>1. /\ place[t] = "reconnect" /\ b \in Batches /\ b \notin stopped
        /\ UNCHANGED <<owner, attempts, cancelled, ticketCancelled, reports, stage, limit,
                       stopped, ended, schedulers, staleReconnects, gateLimit, heldLimit>>
    BY DEF ReconnectSucceeds, SchedulingInv, Linked, StoppedIsDrained
  <1>2. /\ localQueue \in [Batches -> Seq(Tasks)] /\ place \in [Tasks -> Places]
        /\ row \in [Tasks -> Rows] /\ gateLimit \in Limits /\ Limits \subseteq Nat
        /\ owner \in [Tasks -> Batches \cup {0}] /\ gateQueue \in Seq(Tasks)
    BY SchedulingAssumption DEF SchedulingInv, TypeOK
  <1>3. CASE Cardinality(LocalPending(b, place)) < limit[b]
    <2>1. /\ Dispatch(place, row, <<t>>, gateLimit)
          /\ pendingTasks' = pendingTasks \cup {t} /\ localQueue' = localQueue
      BY <1>3 DEF ReconnectSucceeds
    <2>2. gateLimit \in Nat BY <1>2
    <2>3. /\ place' \in [Tasks -> Places] /\ row' \in [Tasks -> Rows]
          /\ result' \in [Tasks -> Results] /\ gateQueue' \in Seq(Tasks)
          /\ \A s \in Tasks \ {t} : place'[s] = place[s] /\ row'[s] = row[s]
          /\ place'[t] \in {"gate", "running", "settled"}
          /\ row'[t] \in {"transferring", row[t]}
          /\ (localQueue' = localQueue /\ \A s \in Tasks \ {t} : owner'[s] = owner[s])
                => QueuesAgree'
      <3> HIDE DEF b
      <3> QED BY <1>1, <1>2, <2>1, <2>2, DispatchOneFacts
    <2> HIDE DEF b
    <2>4. TypeOK' BY <1>1, <2>1, <2>3 DEF SchedulingInv, TypeOK
    <2>5. QueuesAgree' BY <1>1, <2>1, <2>3
    <2>6. StoppedIsDrained'
      BY <1>1, <2>1, <2>3 DEF SchedulingInv, TypeOK, StoppedIsDrained, b
    <2>7. ReportedOnce' BY <1>1, <2>3 DEF SchedulingInv, ReportedOnce
    <2>8. Linked' BY <1>1, <2>3 DEF SchedulingInv, Linked, b
    <2> QED BY <2>4, <2>5, <2>6, <2>7, <2>8 DEF SchedulingInv
  <1>4. CASE ~(Cardinality(LocalPending(b, place)) < limit[b])
    <2>1. /\ place' = [place EXCEPT ![t] = "local"]
          /\ localQueue' = [localQueue EXCEPT ![b] = w]
          /\ UNCHANGED <<row, result, pendingTasks, gateQueue>>
      BY <1>4 DEF ReconnectSucceeds
    <2>2. /\ q \in Seq(Tasks) /\ Len(q) \in Nat /\ w \in Seq(Tasks) /\ Len(w) = Len(q) + 1
          /\ w[Len(q) + 1] = t /\ \A i \in 1..Len(q) : w[i] = q[i]
      BY <1>1, <1>2, AppendFacts
    <2>3. TypeOK' BY <1>1, <2>1, <2>2 DEF SchedulingInv, TypeOK, Places
    <2>4. QueuesAgree'
      <3>1. ASSUME NEW a \in Batches
            PROVE  /\ \A i \in 1..Len(localQueue[a]) :
                        /\ localQueue[a][i] \in Tasks \ {t}
                        /\ place[localQueue[a][i]] = "local" /\ owner[localQueue[a][i]] = a
                   /\ \A i, j \in 1..Len(localQueue[a]) :
                        i # j => localQueue[a][i] # localQueue[a][j]
        BY <1>1, <1>2 DEF SchedulingInv, QueuesAgree
      <3>2. ASSUME NEW a \in Batches
            PROVE  /\ \A i \in 1..Len(localQueue'[a]) :
                        place'[localQueue'[a][i]] = "local" /\ owner'[localQueue'[a][i]] = a
                   /\ \A i, j \in 1..Len(localQueue'[a]) :
                        i # j => localQueue'[a][i] # localQueue'[a][j]
        <4>1. CASE a = b
          <5>1. localQueue'[a] = w BY <1>1, <1>2, <2>1, <4>1
          <5>2. \A i \in 1..Len(q) : w[i] # t /\ place'[w[i]] = "local" /\ owner'[w[i]] = b
            BY <1>1, <1>2, <2>1, <2>2, <3>1
          <5>3. \A i, j \in 1..Len(q) : i # j => w[i] # w[j] BY <1>1, <2>2, <3>1
          <5>4. place'[t] = "local" /\ owner'[t] = b BY <1>1, <1>2, <2>1
          <5> HIDE DEF w, q, b
          <5>5. \A i \in 1..Len(w) : i \in 1..Len(q) \/ i = Len(q) + 1 BY <2>2
          <5>6. \A i \in 1..Len(w) : place'[w[i]] = "local" /\ owner'[w[i]] = b
            BY <2>2, <5>2, <5>4, <5>5
          <5>7. \A i, j \in 1..Len(w) : i # j => w[i] # w[j]
            BY <2>2, <5>2, <5>3, <5>5
          <5> QED BY <4>1, <5>1, <5>6, <5>7
        <4>2. CASE a # b
          <5> HIDE DEF b
          <5> QED BY <1>1, <1>2, <2>1, <3>1, <4>2
        <4> QED BY <4>1, <4>2
      <3>3. \A i \in 1..Len(gateQueue) : gateQueue[i] \in Tasks /\ gateQueue[i] # t
        BY <1>1, <1>2 DEF SchedulingInv, QueuesAgree
      <3> QED BY <1>2, <2>1, <3>2, <3>3 DEF SchedulingInv, QueuesAgree
    <2>5. StoppedIsDrained'
      BY <1>1, <1>2, <2>1 DEF SchedulingInv, TypeOK, StoppedIsDrained
    <2>6. ReportedOnce' BY <1>1, <2>1 DEF SchedulingInv, TypeOK, ReportedOnce
    <2>7. Linked' BY <1>1, <2>1 DEF SchedulingInv, TypeOK, Linked
    <2> QED BY <2>3, <2>4, <2>5, <2>6, <2>7 DEF SchedulingInv
  <1> QED BY <1>3, <1>4

-------------------------------------------------------------------------------
(* stop() and cancelTransferTasks. *)

(* What StopBatches(S, more) and the endings of some batches of S do.         *)
LEMMA StopBatchesInv ==
    ASSUME SchedulingInv, NEW S, S \subseteq schedulers \cup {b \in Batches : stage[b] # "unborn"},
           NEW more, more \subseteq Tasks, NEW done, done \subseteq S,
           StopBatches(S, more), Finish(done),
           schedulers' \subseteq schedulers, pendingTasks' \subseteq pendingTasks
    PROVE  SchedulingInv'
  <1> DEFINE ticketed == {t \in Tasks : owner[t] \in S /\ place[t] \in {"gate", "running"}}
             abandoned == {t \in Tasks : owner[t] \in S /\ place[t] \in {"backoff", "reconnect"}}
             emptied == {t \in Tasks : owner[t] \in S /\ place[t] = "local"}
             late == {<<owner[t], t>> : t \in {u \in abandoned : place[u] = "reconnect"}}
  <1>1. /\ stopped' = stopped \cup S
        /\ ticketCancelled' = ticketCancelled \cup ticketed
        /\ cancelled' = cancelled \cup ticketed \cup abandoned \cup more
        /\ place' = [t \in Tasks |-> IF t \in abandoned THEN "reported"
                                     ELSE IF t \in emptied THEN "dropped" ELSE place[t]]
        /\ row' = [t \in Tasks |-> IF t \in abandoned THEN "none" ELSE row[t]]
        /\ reports' = [t \in Tasks |-> IF t \in abandoned THEN reports[t] + 1 ELSE reports[t]]
        /\ staleReconnects' = staleReconnects \cup late
        /\ localQueue' = [b \in Batches |-> IF b \in S THEN <<>> ELSE localQueue[b]]
        /\ UNCHANGED <<owner, result, attempts, limit, gateQueue>>
    BY DEF StopBatches
  <1>2. TypeOK /\ QueuesAgree /\ StoppedIsDrained /\ ReportedOnce /\ Linked
    BY DEF SchedulingInv
  <1>3. S \subseteq Batches /\ \A b \in S : stage[b] # "unborn"
    BY <1>2 DEF TypeOK, Linked
  <1>4. /\ stage' = [b \in Batches |-> IF b \in done THEN "over" ELSE stage[b]]
        /\ stage' \in [Batches -> Stages] /\ ended' \subseteq Batches
        /\ gateLimit' \in Limits /\ heldLimit' \in Limits \cup {NoLimit}
    BY <1>2, <1>3 DEF Finish, EndBatch, TypeOK, Stages
  <1>5. TypeOK'
    <2>1. late \subseteq Batches \X Tasks BY <1>3
    <2>2. /\ place' \in [Tasks -> Places] /\ row' \in [Tasks -> Rows]
          /\ reports' \in [Tasks -> Nat]
      <3> HIDE DEF abandoned, emptied
      <3> QED BY <1>1, <1>2 DEF TypeOK, Places, Rows
    <2>3. ticketCancelled' \subseteq Tasks /\ cancelled' \subseteq Tasks
      BY <1>1, <1>2 DEF TypeOK
    <2>4. <<>> \in Seq(Tasks) OBVIOUS
    <2>5. localQueue' \in [Batches -> Seq(Tasks)]
      BY <1>1, <1>2, <2>4 DEF TypeOK
    <2> HIDE DEF late, abandoned, emptied, ticketed
    <2>6. /\ stopped' \subseteq Batches /\ schedulers' \subseteq Batches
          /\ staleReconnects' \subseteq Batches \X Tasks /\ pendingTasks' \subseteq Tasks
      BY <1>1, <1>2, <1>3, <2>1 DEF TypeOK
    <2>7. /\ owner' \in [Tasks -> Batches \cup {0}] /\ result' \in [Tasks -> Results]
          /\ attempts' \in [Tasks -> 0..MaxRetries] /\ gateQueue' \in Seq(Tasks)
          /\ limit' \in [Batches -> Limits \cup {NoLimit}]
      BY <1>1, <1>2 DEF TypeOK
    <2> QED BY <1>4, <2>2, <2>3, <2>5, <2>6, <2>7 DEF TypeOK
  <1>6. QueuesAgree'
    <2>1. ASSUME NEW a \in Batches
          PROVE  /\ \A i \in 1..Len(localQueue'[a]) :
                      place'[localQueue'[a][i]] = "local" /\ owner'[localQueue'[a][i]] = a
                 /\ \A i, j \in 1..Len(localQueue'[a]) :
                      i # j => localQueue'[a][i] # localQueue'[a][j]
      <3>1. CASE a \in S
        BY <1>1, <3>1
      <3>2. CASE a \notin S
        <4>1. localQueue'[a] = localQueue[a] /\ localQueue[a] \in Seq(Tasks)
          BY <1>1, <1>2, <3>2 DEF TypeOK
        <4>2. /\ \A i \in 1..Len(localQueue[a]) : localQueue[a][i] \in Tasks /\
                   place[localQueue[a][i]] = "local" /\ owner[localQueue[a][i]] = a
              /\ \A i, j \in 1..Len(localQueue[a]) :
                   i # j => localQueue[a][i] # localQueue[a][j]
          BY <1>2, <4>1 DEF QueuesAgree
        <4>3. \A t \in Tasks : owner[t] = a => place'[t] = place[t]
          BY <1>1, <3>2
        <4> QED BY <1>1, <4>1, <4>2, <4>3
      <3> QED BY <3>1, <3>2
    <2>2. \A t \in Tasks : place[t] = "gate" => place'[t] = "gate" BY <1>1
    <2>3. \A i \in 1..Len(gateQueue) : gateQueue[i] \in Tasks /\ place[gateQueue[i]] = "gate"
      BY <1>2 DEF QueuesAgree, TypeOK
    <2> QED BY <1>1, <1>2, <2>1, <2>2, <2>3 DEF QueuesAgree
  <1>7. StoppedIsDrained'
    <2> SUFFICES ASSUME NEW b \in stopped'
                 PROVE  /\ stage'[b] # "unborn" /\ localQueue'[b] = <<>>
                        /\ \A t \in Tasks : owner'[t] = b =>
                             /\ place'[t] \notin {"local", "backoff", "reconnect"}
                             /\ place'[t] = "gate" => t \in ticketCancelled'
      BY DEF StoppedIsDrained
    <2>1. b \in Batches /\ (b \in stopped \/ b \in S)
      BY <1>1, <1>2, <1>3 DEF TypeOK
    <2>2. stage[b] # "unborn" BY <1>2, <1>3, <2>1 DEF StoppedIsDrained
    <2>3. stage'[b] # "unborn" BY <1>4, <2>1, <2>2
    <2>4. localQueue'[b] = <<>> BY <1>1, <1>2, <2>1 DEF StoppedIsDrained
    <2>5. ASSUME NEW t \in Tasks, owner'[t] = b
          PROVE  /\ place'[t] \notin {"local", "backoff", "reconnect"}
                 /\ place'[t] = "gate" => t \in ticketCancelled'
      <3>1. owner[t] = b BY <1>1, <2>5
      <3>2. CASE b \in S BY <1>1, <3>1, <3>2
      <3>3. CASE b \in stopped BY <1>1, <1>2, <3>1, <3>3 DEF StoppedIsDrained
      <3> QED BY <2>1, <3>2, <3>3
    <2> QED BY <2>3, <2>4, <2>5
  <1>8. ReportedOnce' BY <1>1, <1>2 DEF ReportedOnce, TypeOK
  <1>9. Linked'
    <2>1. \A b \in schedulers' : b \in Batches /\ stage[b] # "unborn"
      BY <1>2 DEF Linked, TypeOK
    <2>2. \A b \in schedulers' : stage'[b] # "unborn" BY <1>4, <2>1
    <2>3. ASSUME NEW t \in Tasks
          PROVE  /\ place'[t] # "new" => owner'[t] \in Batches
                 /\ row'[t] = "error" => place'[t] = "reported"
      BY <1>1, <1>2 DEF Linked
    <2> QED BY <2>2, <2>3 DEF Linked
  <1> QED BY <1>5, <1>6, <1>7, <1>8, <1>9 DEF SchedulingInv

LEMMA StopInv ==
    ASSUME SchedulingInv, NEW b \in Batches, Stop(b)
    PROVE  SchedulingInv'
  <1> DEFINE done == IF EndsWhenStopped(b) THEN {b} ELSE {}
  <1>1. /\ stage[b] \in {"walking", "running"}
        /\ StopBatches({b}, {}) /\ Finish(done)
        /\ schedulers' = schedulers \ done /\ pendingTasks' = pendingTasks
    BY DEF Stop
  <1>2. done \subseteq {b} OBVIOUS
  <1> HIDE DEF done
  <1> QED BY <1>1, <1>2, StopBatchesInv

LEMMA CancelAllInv ==
    ASSUME SchedulingInv, CancelAll
    PROVE  SchedulingInv'
  <1>1. /\ StopBatches(Visited, pendingTasks)
        /\ Finish({b \in Visited : EndsWhenStopped(b)})
        /\ schedulers' = {} /\ pendingTasks' = {}
    BY DEF CancelAll
  <1>2. Visited \subseteq schedulers BY DEF Visited
  <1>3. pendingTasks \subseteq Tasks BY DEF SchedulingInv, TypeOK
  <1>4. {b \in Visited : EndsWhenStopped(b)} \subseteq Visited OBVIOUS
  <1> QED BY <1>1, <1>2, <1>3, <1>4, StopBatchesInv

-------------------------------------------------------------------------------
(* The theorems. *)

LEMMA InitInv == Init => SchedulingInv
  <1> SUFFICES ASSUME Init PROVE SchedulingInv OBVIOUS
  <1>1. TypeOK
    <2>1. 0 \in 0..MaxRetries BY SchedulingAssumption
    <2>2. <<>> \in Seq(Tasks) OBVIOUS
    <2>3. attempts \in [Tasks -> 0..MaxRetries] BY <2>1 DEF Init
    <2>4. localQueue \in [Batches -> Seq(Tasks)] BY <2>2 DEF Init
    <2>5. /\ place \in [Tasks -> Places] /\ row \in [Tasks -> Rows]
          /\ result \in [Tasks -> Results] /\ stage \in [Batches -> Stages]
      BY DEF Init, Places, Rows, Results, Stages
    <2> QED BY <2>2, <2>3, <2>4, <2>5 DEF Init, TypeOK
  <1>2. QueuesAgree BY DEF Init, QueuesAgree
  <1>3. StoppedIsDrained BY DEF Init, StoppedIsDrained
  <1>4. ReportedOnce BY DEF Init, ReportedOnce
  <1>5. Linked BY DEF Init, Linked
  <1> QED BY <1>1, <1>2, <1>3, <1>4, <1>5 DEF SchedulingInv

LEMMA UnchangedInv ==
    ASSUME SchedulingInv, UNCHANGED vars
    PROVE  SchedulingInv'
  <1>1. UNCHANGED <<place, owner, result, attempts, cancelled, ticketCancelled, row,
                    reports, pendingTasks, stage, limit, localQueue, stopped, ended,
                    schedulers, staleReconnects, gateQueue, gateLimit, heldLimit>>
    BY DEF vars, taskVars, batchVars, gateVars
  <1>2. TypeOK' BY <1>1 DEF SchedulingInv, TypeOK
  <1>3. QueuesAgree' BY <1>1 DEF SchedulingInv, QueuesAgree
  <1>4. StoppedIsDrained' BY <1>1 DEF SchedulingInv, StoppedIsDrained
  <1>5. ReportedOnce' BY <1>1 DEF SchedulingInv, ReportedOnce
  <1>6. Linked' BY <1>1 DEF SchedulingInv, Linked
  <1> QED BY <1>2, <1>3, <1>4, <1>5, <1>6 DEF SchedulingInv

(* Every step of the service keeps the invariant: one case per action.        *)
LEMMA NextInv ==
    ASSUME SchedulingInv, [Next]_vars
    PROVE  SchedulingInv'
  <1>1. CASE UNCHANGED vars BY <1>1, UnchangedInv
  <1>2. CASE CancelAll BY <1>2, CancelAllInv
  <1>3. ASSUME NEW b \in Batches, BatchStep(b) PROVE SchedulingInv'
    <2>1. ASSUME NEW c \in Limits, CreateBatch(b, c) PROVE SchedulingInv'
      BY <2>1, CreateBatchInv
    <2>2. ASSUME NEW t \in Tasks, AddTask(b, t) PROVE SchedulingInv' BY <2>2, AddTaskInv
    <2>3. CASE RunBatch(b) BY <2>3, RunBatchInv
    <2>4. CASE RunEmptyBatch(b) BY <2>4, RunEmptyBatchInv
    <2>5. CASE RunStoppedBatch(b) BY <2>5, RunStoppedBatchInv
    <2>6. CASE WalkFails(b) BY <2>6, WalkFailsInv
    <2>7. ASSUME NEW t \in Tasks, NEW c \in Limits, RetryCommand(b, t, c)
          PROVE  SchedulingInv'
      BY <2>7, RetryCommandInv
    <2>8. ASSUME NEW t \in Tasks, StaleReconnectEnds(b, t) PROVE SchedulingInv'
      BY <2>8, StaleReconnectEndsInv
    <2>9. CASE Stop(b) BY <2>9, StopInv
    <2> QED BY <1>3, <2>1, <2>2, <2>3, <2>4, <2>5, <2>6, <2>7, <2>8, <2>9 DEF BatchStep
  <1>4. ASSUME NEW t \in Tasks, TaskStep(t) PROVE SchedulingInv'
    <2>1. ASSUME NEW r \in Results, TransferEnds(t, r) PROVE SchedulingInv'
      BY <2>1, TransferEndsInv
    <2>2. CASE GateDone(t) BY <2>2, GateDoneInv
    <2>3. CASE Park(t) BY <2>3, ParkInv
    <2>4. CASE Report(t) BY <2>4, ReportInv
    <2>5. CASE TimerFires(t) BY <2>5, TimerFiresInv
    <2>6. CASE ReconnectSucceeds(t) BY <2>6, ReconnectSucceedsInv
    <2>7. CASE ReconnectFails(t) BY <2>7, ReconnectFailsInv
    <2>8. CASE CancelTask(t) BY <2>8, CancelTaskInv
    <2> QED BY <1>4, <2>1, <2>2, <2>3, <2>4, <2>5, <2>6, <2>7, <2>8 DEF TaskStep
  <1> QED BY <1>1, <1>2, <1>3, <1>4 DEF Next

(* The inductive invariant holds in every reachable state.                    *)
THEOREM SchedulingInvariant == Spec => []SchedulingInv
  <1>1. Init => SchedulingInv BY InitInv
  <1>2. SchedulingInv /\ [Next]_vars => SchedulingInv' BY NextInv
  <1> QED BY <1>1, <1>2, PTL DEF Spec

(* For any number of tasks, batches and retries, AFTER_TRANSFER is emitted    *)
(* once per queued task: a stop(), a late reconnect and a completion that     *)
(* race for a task never report it twice.                                     *)
THEOREM AfterTransferOnce == Spec => []ReportedOnce
  <1>1. SchedulingInv => ReportedOnce BY DEF SchedulingInv
  <1> QED BY <1>1, SchedulingInvariant, PTL

(* Type correctness of every reachable state.                                 *)
THEOREM TypeCorrect == Spec => []TypeOK
  <1>1. SchedulingInv => TypeOK BY DEF SchedulingInv
  <1> QED BY <1>1, SchedulingInvariant, PTL

-------------------------------------------------------------------------------
(* No step starts a transfer of a stopped batch. *)

StartsNothingStopped ==
    \A t \in Tasks : place[t] # "running" /\ place'[t] = "running"
                          => owner'[t] \notin stopped'

LEMMA BatchStartsFinal ==
    ASSUME SchedulingInv, NEW b \in Batches, BatchStep(b)
    PROVE  StartsNothingStopped
  <1>1. TypeOK /\ QueuesAgree /\ StoppedIsDrained /\ Linked BY DEF SchedulingInv
  <1>2. ASSUME place' = place PROVE StartsNothingStopped
    BY <1>2 DEF StartsNothingStopped
  <1>3. ASSUME NEW c \in Limits, CreateBatch(b, c) PROVE StartsNothingStopped
    BY <1>2, <1>3 DEF CreateBatch, taskVars
  <1>4. ASSUME NEW t \in Tasks, AddTask(b, t) PROVE StartsNothingStopped
    BY <1>1, <1>4 DEF AddTask, StartsNothingStopped, TypeOK
  <1>5. CASE RunBatch(b)
    <2> DEFINE n == Smaller(limit[b], Len(localQueue[b]))
               ts == SubSeq(localQueue[b], 1, n)
    <2>1. /\ b \notin stopped /\ Dispatch(place, row, ts, gateLimit)
          /\ owner' = owner /\ stopped' = stopped
      BY <1>5 DEF RunBatch
    <2>2. n \in 0..Len(localQueue[b]) /\ localQueue[b] \in Seq(Tasks)
      <3>1. localQueue[b] \in Seq(Tasks) /\ limit[b] \in Limits \cup {0}
        BY <1>1 DEF TypeOK, NoLimit
      <3>2. \A c \in Limits \cup {0} : c \in Nat BY SchedulingAssumption
      <3>3. limit[b] \in Nat BY <3>1, <3>2
      <3> QED BY <3>1, <3>3 DEF Smaller
    <2> HIDE DEF n
    <2>3. /\ Len(localQueue[b]) \in Nat /\ n \in Nat /\ Len(ts) = n
          /\ ts \in Seq(Tasks) /\ \A i \in 1..n : ts[i] = localQueue[b][i]
      <3>1. n \in (1 - 1)..Len(localQueue[b]) /\ 1 \in 1..(Len(localQueue[b]) + 1)
        BY <2>2
      <3>2. /\ ts \in Seq(Tasks) /\ Len(ts) = n - 1 + 1
            /\ \A i \in 1..(n - 1 + 1) : ts[i] = localQueue[b][1 + i - 1]
        BY <2>2, <3>1, SubSeqFacts
      <3> QED BY <2>2, <3>2
    <2>4. \A t \in RangeOf(ts) : owner[t] = b
      BY <1>1, <2>2, <2>3 DEF RangeOf, QueuesAgree
    <2>5. \A t \in RangeOf(Admitted(ts, gateLimit)) : t \in RangeOf(ts)
      BY <2>1, <2>3, AdmittedIsPart, <1>1, SchedulingAssumption DEF TypeOK
    <2>6. \A t \in Tasks : place'[t] = "running" => place[t] = "running" \/ t \in RangeOf(ts)
      BY <2>1, <2>5 DEF Dispatch, PlacesAfter
    <2> QED BY <2>1, <2>4, <2>6 DEF StartsNothingStopped
  <1>6. CASE RunEmptyBatch(b) BY <1>2, <1>6 DEF RunEmptyBatch, taskVars
  <1>7. CASE RunStoppedBatch(b) BY <1>2, <1>7 DEF RunStoppedBatch, taskVars
  <1>8. CASE WalkFails(b) BY <1>2, <1>8 DEF WalkFails, taskVars
  <1>9. ASSUME NEW t \in Tasks, NEW c \in Limits, RetryCommand(b, t, c)
        PROVE  StartsNothingStopped
    <2>1. /\ stage[b] = "unborn" /\ owner' = [owner EXCEPT ![t] = b] /\ stopped' = stopped
          /\ Dispatch(place, [row EXCEPT ![t] = "queued"], <<t>>, CeilingFor(c))
      BY <1>9 DEF RetryCommand
    <2>2. b \notin stopped BY <1>1, <2>1 DEF StoppedIsDrained
    <2>3. <<t>> \in Seq(Tasks) /\ RangeOf(<<t>>) = {t} BY DEF RangeOf
    <2>4. CeilingFor(c) \in Nat BY <1>1, SchedulingAssumption DEF CeilingFor, TypeOK
    <2>5. \A s \in RangeOf(Admitted(<<t>>, CeilingFor(c))) : s = t
      BY <2>3, <2>4, AdmittedIsPart
    <2>6. \A s \in Tasks : place'[s] = "running" => place[s] = "running" \/ s = t
      BY <2>1, <2>3, <2>5 DEF Dispatch, PlacesAfter
    <2>7. owner'[t] = b BY <1>1, <2>1 DEF TypeOK
    <2> QED BY <2>1, <2>2, <2>6, <2>7 DEF StartsNothingStopped
  <1>10. ASSUME NEW t \in Tasks, StaleReconnectEnds(b, t) PROVE StartsNothingStopped
    BY <1>2, <1>10 DEF StaleReconnectEnds, taskVars
  <1>11. CASE Stop(b)
    BY <1>11 DEF Stop, StopBatches, StartsNothingStopped
  <1> QED BY <1>3, <1>4, <1>5, <1>6, <1>7, <1>8, <1>9, <1>10, <1>11 DEF BatchStep

LEMMA TaskStartsFinal ==
    ASSUME SchedulingInv, NEW t \in Tasks, TaskStep(t)
    PROVE  StartsNothingStopped
  <1>1. TypeOK /\ QueuesAgree /\ StoppedIsDrained /\ Linked BY DEF SchedulingInv
  <1>2. ASSUME place' = place PROVE StartsNothingStopped
    BY <1>2 DEF StartsNothingStopped
  <1>3. ASSUME NEW r \in Results, TransferEnds(t, r) PROVE StartsNothingStopped
    BY <1>1, <1>3 DEF TransferEnds, StartsNothingStopped, TypeOK
  <1>4. CASE GateDone(t)
    <2>1. owner' = owner /\ stopped' = stopped /\ place[t] = "settled"
      BY <1>4 DEF GateDone, batchVars
    <2>2. CASE gateQueue = <<>>
      BY <1>1, <1>4, <2>1, <2>2 DEF GateDone, StartsNothingStopped, TypeOK
    <2>3. CASE gateQueue # <<>>
      <3> DEFINE u == Head(gateQueue)
      <3>1. u \in Tasks /\ place[u] = "gate"
        BY <1>1, <2>3, TailFacts DEF TypeOK, QueuesAgree
      <3>2. place' = [[place EXCEPT ![t] = "released"] EXCEPT ![u] = EntersAs(u)]
        BY <1>4, <2>3 DEF GateDone
      <3> HIDE DEF u
      <3>3. EntersAs(u) = "running" => owner[u] \notin stopped
        BY <1>1, <3>1 DEF StoppedIsDrained, EntersAs
      <3>4. \A s \in Tasks \ {u} : place'[s] = "running" => place[s] = "running"
        BY <1>1, <3>2 DEF TypeOK
      <3>5. place'[u] = EntersAs(u) BY <1>1, <3>1, <3>2 DEF TypeOK
      <3> QED BY <2>1, <3>3, <3>4, <3>5 DEF StartsNothingStopped
    <2> QED BY <2>2, <2>3
  <1>5. CASE Park(t)
    <2>1. /\ place[t] = "released" /\ owner' = owner /\ stopped' = stopped
          /\ LocalNext(t, [place EXCEPT ![t] = "backoff"], row)
      BY <1>5 DEF Park
    <2>2. /\ row \in [Tasks -> Rows] /\ \A s \in Tasks \ {t} : row[s] = row[s]
          /\ "backoff" \in {"backoff", "reported"}
      BY <1>1 DEF TypeOK
    <2>3. LocalNextEffect(t, "backoff", row) BY <2>1, <2>2, LocalNextFacts
    <2> QED BY <2>1, <2>3 DEF LocalNextEffect, StartsNothingStopped
  <1>6. CASE Report(t)
    <2> DEFINE r == [row EXCEPT ![t] = ReportedRow(t, result[t] # "ok")]
    <2>1. /\ place[t] = "released" /\ owner' = owner /\ stopped' = stopped
          /\ LocalNext(t, [place EXCEPT ![t] = "reported"], r)
      BY <1>6 DEF Report
    <2>2. /\ r \in [Tasks -> Rows] /\ \A s \in Tasks \ {t} : r[s] = row[s]
          /\ "reported" \in {"backoff", "reported"}
      BY <1>1 DEF TypeOK, ReportedRow, Rows
    <2> HIDE DEF r
    <2>3. LocalNextEffect(t, "reported", r) BY <2>1, <2>2, LocalNextFacts
    <2> QED BY <2>1, <2>3 DEF LocalNextEffect, StartsNothingStopped
  <1>7. CASE TimerFires(t)
    BY <1>1, <1>7 DEF TimerFires, StartsNothingStopped, TypeOK
  <1>8. CASE ReconnectSucceeds(t)
    <2>1. /\ place[t] = "reconnect" /\ owner' = owner /\ stopped' = stopped
          /\ owner[t] \notin stopped
      BY <1>1, <1>8 DEF ReconnectSucceeds, StoppedIsDrained
    <2>2. \A s \in Tasks \ {t} : place'[s] = "running" => place[s] = "running"
      <3>1. CASE place' = [place EXCEPT ![t] = "local"] BY <1>1, <3>1 DEF TypeOK
      <3>2. CASE Dispatch(place, row, <<t>>, gateLimit)
        <4>1. <<t>> \in Seq(Tasks) /\ RangeOf(<<t>>) = {t} BY DEF RangeOf
        <4>2. gateLimit \in Nat BY <1>1, SchedulingAssumption DEF TypeOK
        <4>3. \A s \in RangeOf(Admitted(<<t>>, gateLimit)) : s = t
          BY <4>1, <4>2, AdmittedIsPart
        <4> QED BY <3>2, <4>1, <4>3 DEF Dispatch, PlacesAfter
      <3> QED BY <1>8, <3>1, <3>2 DEF ReconnectSucceeds
    <2> QED BY <2>1, <2>2 DEF StartsNothingStopped
  <1>9. CASE ReconnectFails(t)
    BY <1>1, <1>9 DEF ReconnectFails, StartsNothingStopped, TypeOK
  <1>10. CASE CancelTask(t) BY <1>2, <1>10 DEF CancelTask
  <1> QED BY <1>3, <1>4, <1>5, <1>6, <1>7, <1>8, <1>9, <1>10 DEF TaskStep

(* stop() is final for every number of batches and tasks: no timer, reconnect *)
(* or freed slot starts a transfer of a stopped batch afterwards.             *)
THEOREM NothingStartsAfterStop == Spec => StopIsFinal
  <1>1. SchedulingInv /\ [Next]_vars =>
           [\A t \in Tasks : place[t] # "running" /\ place'[t] = "running"
                                 => owner'[t] \notin stopped']_vars
    <2> SUFFICES ASSUME SchedulingInv, [Next]_vars, ~ UNCHANGED vars
                 PROVE  StartsNothingStopped
      BY DEF StartsNothingStopped
    <2>1. ASSUME NEW b \in Batches, BatchStep(b) PROVE StartsNothingStopped
      BY <2>1, BatchStartsFinal
    <2>2. ASSUME NEW t \in Tasks, TaskStep(t) PROVE StartsNothingStopped
      BY <2>2, TaskStartsFinal
    <2>3. CASE CancelAll
      BY <2>3 DEF CancelAll, StopBatches, StartsNothingStopped
    <2> QED BY <2>1, <2>2, <2>3 DEF Next
  <1> QED BY <1>1, SchedulingInvariant, PTL DEF Spec, StopIsFinal
=============================================================================
