------------------------------ MODULE Limiter ------------------------------
(***************************************************************************)
(* createLimiter of utils.ts, which bounds the remote requests of a walk,  *)
(* a comparison and a content hash: a counter and a queue of closures.     *)
(***************************************************************************)
EXTENDS Naturals, Sequences, SequencesExt

CONSTANTS Calls,  \* run(fn): the calls made
          Limit   \* what createLimiter is given

LimiterAssumption == Limit \in Nat

\* Math.max(1, limit)
width == IF Limit = 0 THEN 1 ELSE Limit

VARIABLES active,   \* the counter
          waiting,  \* the queue of take closures
          call,     \* per call: where its promise is
          granted   \* history: the calls let through, oldest first

vars == <<active, waiting, call, granted>>

TypeOK ==
  /\ active \in 0..width
  /\ waiting \in Seq(Calls) /\ granted \in Seq(Calls)
  /\ call \in [Calls -> {"new", "waiting", "acquired", "running", "done"}]

Init ==
  /\ active = 0 /\ waiting = <<>> /\ granted = <<>>
  /\ call = [c \in Calls |-> "new"]

Acquire(c) ==
  /\ call[c] = "new"
  /\ \/ /\ active < width
        /\ active' = active + 1
        /\ granted' = Append(granted, c)
        /\ call' = [call EXCEPT ![c] = "acquired"]
        /\ UNCHANGED waiting
     \/ /\ active >= width
        /\ waiting' = Append(waiting, c)
        /\ call' = [call EXCEPT ![c] = "waiting"]
        /\ UNCHANGED <<active, granted>>

\* The resolved promise calls fn.
Begin(c) ==
  /\ call[c] = "acquired"
  /\ call' = [call EXCEPT ![c] = "running"]
  /\ UNCHANGED <<active, waiting, granted>>

\* Mutant: the last of the queue is let through, not the first.
NextLast(q) == Len(q)

\* waiting.shift(): where in the queue the next one is.
NextWaiting(q) == 1

Without(s, c) == RemoveAt(s, CHOOSE i \in DOMAIN s : s[i] = c)

\* fn's promise settles either way: release() counts down, and lets the next one take,
\* which counts up again.
Release(c) ==
  /\ call[c] = "running"
  /\ \/ /\ waiting = <<>>
        /\ active' = active - 1
        /\ granted' = Without(granted, c)
        /\ call' = [call EXCEPT ![c] = "done"]
        /\ UNCHANGED waiting
     \/ /\ waiting # <<>>
        /\ LET next == NextWaiting(waiting) IN
             /\ waiting' = RemoveAt(waiting, next)
             /\ granted' = Append(Without(granted, c), waiting[next])
             /\ call' = [call EXCEPT ![c] = "done", ![waiting[next]] = "acquired"]
        /\ UNCHANGED active

Next == \E c \in Calls : Acquire(c) \/ Begin(c) \/ Release(c)

Spec == Init /\ [][Next]_vars

-----------------------------------------------------------------------------
\* The counter and the queue implement the line: as many as the width at once, first
\* come first served, and no place left empty while a call waits.
Abstract == INSTANCE Semaphore WITH
  Callers <- Calls, Width <- width, line <- granted \o waiting,
  inside <- {c \in Calls : call[c] \in {"acquired", "running"}}
ImplementsSemaphore == Abstract!Spec
=============================================================================
