----------------------------- MODULE ParallelCopy -----------------------------
(***************************************************************************)
(* parallelCopy: one file copied as concurrent, positional chunks.          *)
(*                                                                         *)
(* Workers claim chunks from a shared offset.  A worker reads into its own   *)
(* buffer (the answer may be short), writes what it read at the same         *)
(* position, and goes on until its chunk is done.  The first error stops     *)
(* further claims but not the chunks in flight; a cancellation abandons      *)
(* every request in flight at once, and an abandoned request may still be    *)
(* answered, or take effect at the target, later.                            *)
(*                                                                         *)
(* A byte is its position in the source: the target is right at p when it    *)
(* holds p.                                                                  *)
(***************************************************************************)
EXTENDS Integers, FiniteSets

CONSTANTS
    Size,          \* bytes to copy, as the directory walk listed them
    ChunkSize,
    Concurrency    \* workers asked for

ASSUME CopyAssumption ==
    /\ Size \in Nat
    /\ ChunkSize \in Nat \ {0}
    /\ Concurrency \in Nat \ {0}

Workers == 1..Concurrency
Positions == 0..(Size - 1)
BufferIndexes == 0..(ChunkSize - 1)
Blank == -1       \* a byte nothing has been written to

VARIABLES
    phase,         \* "new", "copying", then the verdict of the promise
    nextOffset, transferred, firstError, cancelled,
    pc,            \* per worker: which request it awaits, "gone" once returned
    offset, done, got, buffer,    \* its chunk, the loop's counters, its buffer
    late,          \* the request it abandoned, if that is still out
    target         \* the file written to

vars == <<phase, nextOffset, transferred, firstError, cancelled,
          pc, offset, done, got, buffer, late, target>>

Init ==
    /\ phase = "new" /\ nextOffset = 0 /\ transferred = 0
    /\ firstError = "none" /\ cancelled = FALSE
    /\ pc = [w \in Workers |-> "gone"]
    /\ offset = [w \in Workers |-> 0]
    /\ done = [w \in Workers |-> 0]
    /\ got = [w \in Workers |-> 0]
    /\ buffer = [w \in Workers |-> [i \in BufferIndexes |-> Blank]]
    /\ late = [w \in Workers |-> "none"]
    /\ target = [p \in Positions |-> Blank]

-------------------------------------------------------------------------------
LengthAt(o) == IF ChunkSize <= Size - o THEN ChunkSize ELSE Size - o
InFlight(w) == pc[w] \in {"reading", "writing"}
FirstOffset(w) == (w - 1) * ChunkSize

\* The early returns, then every worker claims its first chunk and reads.
Begin ==
    /\ phase = "new"
    /\ IF Size = 0 \/ cancelled
       THEN /\ phase' = IF Size = 0 THEN "ok" ELSE "aborted"
            /\ UNCHANGED <<pc, offset, nextOffset>>
       ELSE /\ phase' = "copying"
            /\ pc' = [w \in Workers |-> IF FirstOffset(w) < Size THEN "reading" ELSE "gone"]
            /\ offset' = [w \in Workers |-> IF FirstOffset(w) < Size THEN FirstOffset(w) ELSE 0]
            /\ nextOffset' = IF Concurrency * ChunkSize <= Size
                             THEN Concurrency * ChunkSize ELSE Size
    /\ UNCHANGED <<transferred, firstError, cancelled, done, got, buffer, late, target>>

\* Mutant: a chunk resumed after a short read is read from its start again.
FilledFromStart(w, n) ==
    [buffer EXCEPT ![w] = [i \in BufferIndexes |->
        IF i < n THEN offset[w] + i ELSE buffer[w][i]]]

\* n bytes arrive in w's buffer; got bytes of the buffer land at the target.
Filled(w, n) ==
    [buffer EXCEPT ![w] = [i \in BufferIndexes |->
        IF i < n THEN offset[w] + done[w] + i ELSE buffer[w][i]]]
Landed(w) ==
    [p \in Positions |->
        IF offset[w] + done[w] <= p /\ p < offset[w] + done[w] + got[w]
        THEN buffer[w][p - offset[w] - done[w]] ELSE target[p]]

ReadAnswers(w, n) ==
    /\ pc[w] = "reading"
    /\ n <= LengthAt(offset[w]) - done[w]
    /\ buffer' = Filled(w, n)
    /\ got' = [got EXCEPT ![w] = n]
    /\ pc' = [pc EXCEPT ![w] = "writing"]
    /\ UNCHANGED <<phase, nextOffset, transferred, firstError, cancelled, offset, done,
                   late, target>>

\* claim(), and the read of the chunk if there is one.
Claim(w) ==
    IF firstError # "none" \/ nextOffset >= Size
    THEN /\ pc' = [pc EXCEPT ![w] = "gone"]
         /\ UNCHANGED <<offset, done, nextOffset>>
    ELSE /\ pc' = [pc EXCEPT ![w] = "reading"]
         /\ offset' = [offset EXCEPT ![w] = nextOffset]
         /\ done' = [done EXCEPT ![w] = 0]
         /\ nextOffset' = nextOffset + LengthAt(nextOffset)

\* Mutants: a short read counts as the whole chunk; progress counts what was asked.
WriteAnswersOnce(w) ==
    /\ pc[w] = "writing"
    /\ target' = Landed(w)
    /\ transferred' = transferred + got[w]
    /\ Claim(w)
    /\ UNCHANGED <<phase, firstError, cancelled, got, buffer, late>>

WriteAnswers(w) ==
    /\ pc[w] = "writing"
    /\ target' = Landed(w)
    /\ transferred' = transferred + got[w]
    /\ IF done[w] + got[w] < LengthAt(offset[w])
       THEN /\ pc' = [pc EXCEPT ![w] = "reading"]
            /\ done' = [done EXCEPT ![w] = @ + got[w]]
            /\ UNCHANGED <<offset, nextOffset>>
       ELSE Claim(w)
    /\ UNCHANGED <<phase, firstError, cancelled, got, buffer, late>>

\* A request is refused, or a read finds the file ended; a refused write may
\* have landed all the same.
RequestFails(w) ==
    /\ InFlight(w)
    /\ firstError' = IF firstError = "none" THEN "io" ELSE firstError
    /\ pc' = [pc EXCEPT ![w] = "gone"]
    /\ target' \in {target} \cup {Landed(x) : x \in {w} \cap {v \in Workers : pc[v] = "writing"}}
    /\ UNCHANGED <<phase, nextOffset, transferred, cancelled, offset, done, got, buffer, late>>

\* Mutants: chunk I/O is not raced against the token; an abort forgets an
\* earlier error.
CancelUnraced ==
    /\ phase \in {"new", "copying"} /\ ~cancelled
    /\ cancelled' = TRUE
    /\ UNCHANGED <<phase, nextOffset, transferred, firstError, pc, offset, done, got,
                   buffer, late, target>>
CancelOverError ==
    /\ phase \in {"new", "copying"} /\ ~cancelled
    /\ cancelled' = TRUE
    /\ firstError' = IF \E w \in Workers : InFlight(w) THEN "aborted" ELSE firstError
    /\ pc' = [w \in Workers |-> "gone"]
    /\ late' = [w \in Workers |-> IF InFlight(w) THEN pc[w] ELSE late[w]]
    /\ UNCHANGED <<phase, nextOffset, transferred, offset, done, got, buffer, target>>

\* The token is cancelled: abortable() rejects every request in flight.
Cancel ==
    /\ phase \in {"new", "copying"} /\ ~cancelled
    /\ cancelled' = TRUE
    /\ firstError' = IF firstError = "none" /\ \E w \in Workers : InFlight(w)
                     THEN "aborted" ELSE firstError
    /\ pc' = [w \in Workers |-> "gone"]
    /\ late' = [w \in Workers |-> IF InFlight(w) THEN pc[w] ELSE late[w]]
    /\ UNCHANGED <<phase, nextOffset, transferred, offset, done, got, buffer, target>>

\* An abandoned request takes effect although nobody waits for it any more.
LateRead(w, n) ==
    /\ late[w] = "reading"
    /\ n <= LengthAt(offset[w]) - done[w]
    /\ buffer' = Filled(w, n)
    /\ late' = [late EXCEPT ![w] = "none"]
    /\ UNCHANGED <<phase, nextOffset, transferred, firstError, cancelled, pc, offset, done,
                   got, target>>
LateWrite(w) ==
    /\ late[w] = "writing"
    /\ target' = Landed(w)
    /\ late' = [late EXCEPT ![w] = "none"]
    /\ UNCHANGED <<phase, nextOffset, transferred, firstError, cancelled, pc, offset, done,
                   got, buffer>>

\* Mutant: a worker that fails rejects Promise.all, which waits for nobody else.
AllBackOrFailed == firstError # "none" \/ \A w \in Workers : ~InFlight(w)

\* Promise.all over the workers, none of which rejects.
AllBack == \A w \in Workers : ~InFlight(w)
Settle ==
    /\ phase = "copying" /\ AllBack
    /\ phase' = IF firstError = "io" THEN "failed"
                ELSE IF firstError = "aborted" \/ cancelled THEN "aborted" ELSE "ok"
    /\ UNCHANGED <<nextOffset, transferred, firstError, cancelled, pc, offset, done, got,
                   buffer, late, target>>

-------------------------------------------------------------------------------
WorkerStep(w) ==
    \/ \E n \in 1..ChunkSize : ReadAnswers(w, n) \/ LateRead(w, n)
    \/ WriteAnswers(w) \/ RequestFails(w) \/ LateWrite(w)

Next == Begin \/ Cancel \/ Settle \/ \E w \in Workers : WorkerStep(w)

Spec == Init /\ [][Next]_vars

\* The continuation of Promise.all runs; no request need ever be answered.
FairSpec == Spec /\ WF_vars(Settle)

-------------------------------------------------------------------------------
TypeOK ==
    /\ phase \in {"new", "copying", "ok", "failed", "aborted"}
    /\ nextOffset \in 0..Size /\ transferred \in 0..Size
    /\ firstError \in {"none", "io", "aborted"} /\ cancelled \in BOOLEAN
    /\ pc \in [Workers -> {"reading", "writing", "gone"}]
    /\ offset \in [Workers -> Nat] /\ done \in [Workers -> Nat] /\ got \in [Workers -> Nat]
    /\ buffer \in [Workers -> [BufferIndexes -> Positions \cup {Blank}]]
    /\ late \in [Workers -> {"none", "reading", "writing"}]
    /\ target \in [Positions -> Positions \cup {Blank}]

\* Whatever is short, fails, is abandoned or lands late, no byte of the target
\* ever holds another byte's content (the workers' reused buffers never leak
\* one chunk into another).
ByteFaithful == \A p \in Positions : target[p] \in {Blank, p}

\* parallelCopy resolves only when the whole file is there.
OkIsWhole == phase = "ok" => \A p \in Positions : target[p] = p

\* Progress never runs ahead of the bytes at the target, and ends at the size.
ProgressIsReal ==
    /\ transferred <= Cardinality({p \in Positions : target[p] # Blank})
    /\ phase = "ok" => transferred = Size

\* Unless the copy was cancelled, nothing of it is under way once it has
\* settled: what makes it "safe to redo from scratch" as a plain stream.
SettledIsQuiet ==
    phase \in {"ok", "failed"} /\ ~cancelled
        => \A w \in Workers : pc[w] = "gone" /\ late[w] = "none"

\* No variable leaves its type, the progress shown is of bytes that were written, and a
\* copy that has settled starts nothing more (parallelTransfer.ts).
ProgressIsTrue == TypeOK /\ ProgressIsReal /\ SettledIsQuiet

\* A cancelled copy settles although the server never answers again.
CancelSettles == cancelled /\ phase = "copying" ~> phase \in {"failed", "aborted"}

\* What TransferTask._run relies on.
Contract == INSTANCE CopyContract WITH failed <- firstError = "io"
ImplementsContract == Contract!FairSpec
=============================================================================
