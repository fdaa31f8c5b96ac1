----------------------------- MODULE FdLimiter -----------------------------
(***************************************************************************)
(* limitOpenFilesOnRemote (core/remote-client/sshClient.ts): the hooks     *)
(* around open, opendir and close that hold back requests for a file       *)
(* descriptor.  The counter follows the answers, not the requests.         *)
(***************************************************************************)
EXTENDS Naturals, Sequences, FiniteSets

CONSTANTS Calls,       \* open and opendir calls
          MaxOpenFds   \* MAX_OPEN_FD_NUM

FdAssumption == IsFiniteSet(Calls) /\ MaxOpenFds \in Nat \ {0}

VARIABLES opened,  \* _opendFdNum
          queued,  \* _queuedFdRequireCall
          pops,    \* microtasks of answered closes that have not run
          fd       \* per call: where its descriptor is

vars == <<opened, queued, pops, fd>>

TypeOK ==
  /\ opened \in Nat /\ pops \in Nat
  /\ queued \in Seq(Calls)
  /\ fd \in [Calls -> {"none", "queued", "asked", "held", "closing", "closed", "failed"}]

Init == opened = 0 /\ queued = <<>> /\ pops = 0 /\ fd = [c \in Calls |-> "none"]

In(S) == {c \in Calls : fd[c] \in S}
Now(c, from, to) == fd[c] = from /\ fd' = [fd EXCEPT ![c] = to]

\* requestFileDescriptor: sent at once below the limit ...
Open(c) ==
  /\ opened < MaxOpenFds
  /\ Now(c, "none", "asked")
  /\ UNCHANGED <<opened, queued, pops>>

\* ... and put off at it.
PutOff(c) ==
  /\ opened >= MaxOpenFds
  /\ Now(c, "none", "queued")
  /\ queued' = Append(queued, c)
  /\ UNCHANGED <<opened, pops>>

\* The answer raises the counter, whether it is a descriptor or a refusal.
Opened(c) ==
  /\ Now(c, "asked", "held") \/ Now(c, "asked", "failed")
  /\ opened' = opened + 1
  /\ UNCHANGED <<queued, pops>>

Close(c) == Now(c, "held", "closing") /\ UNCHANGED <<opened, queued, pops>>

\* Mutant: the counter is left to the call that takes the place.
ClosedKept(c) ==
  /\ Now(c, "closing", "closed")
  /\ pops' = pops + 1
  /\ opened' = IF queued = <<>> THEN opened - 1 ELSE opened
  /\ UNCHANGED queued

\* releaseFileDescriptor: close is answered; the queue is left to a microtask, so that
\* the caller's callback goes first.
Closed(c) ==
  /\ Now(c, "closing", "closed")
  /\ pops' = pops + 1
  /\ opened' = opened - 1
  /\ UNCHANGED queued

\* The last of the queue is sent, without another look at the limit.
Pop ==
  /\ pops > 0
  /\ pops' = pops - 1
  /\ IF queued = <<>> THEN UNCHANGED <<queued, fd>>
     ELSE /\ Now(queued[Len(queued)], "queued", "asked")
          /\ queued' = SubSeq(queued, 1, Len(queued) - 1)
  /\ UNCHANGED opened

Next == Pop \/ \E c \in Calls : Open(c) \/ PutOff(c) \/ Opened(c) \/ Close(c) \/ Closed(c)

Spec == Init /\ [][Next]_vars

-----------------------------------------------------------------------------
\* The counter is what it says once every request has its answer: the descriptors that
\* are open, and, which is the flaw of it, those that never were.
CounterAccounts == opened = Cardinality(In({"held", "closing", "failed"}))

\* A call that is put off has somebody to wait for: a request that will be answered, a
\* descriptor that will be closed, or a microtask. The exception are refused requests,
\* whose place in the counter nobody gives back (sshClient.ts:281).
SomebodyReleases ==
  queued # <<>> /\ In({"failed"}) = {} => pops > 0 \/ In({"asked", "held", "closing"}) # {}
=============================================================================
