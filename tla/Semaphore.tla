----------------------------- MODULE Semaphore -----------------------------
(***************************************************************************)
(* What a limiter promises: the callers stand in one line, in the order    *)
(* they came, and exactly the first Width of them are let through.         *)
(***************************************************************************)
EXTENDS Naturals, Sequences, SequencesExt

CONSTANTS Callers, Width

VARIABLES line,   \* who has asked and has not finished
          inside  \* who is let through

vars == <<line, inside>>

FirstOf(s) == ToSet(SubSeq(s, 1, IF Len(s) < Width THEN Len(s) ELSE Width))

Init == line = <<>> /\ inside = {}

Come(c) == c \notin ToSet(line) /\ line' = Append(line, c)
Leave(c) == c \in inside /\ \E i \in DOMAIN line : line[i] = c /\ line' = RemoveAt(line, i)

Next == (\E c \in Callers : Come(c) \/ Leave(c)) /\ inside' = FirstOf(line')

Spec == Init /\ [][Next]_vars
=============================================================================
