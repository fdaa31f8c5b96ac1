-------------------------- MODULE ParallelCopy_proofs --------------------------
(* What holds of parallelCopy for every file size, chunk size and number of    *)
(* workers, and that it keeps the contract its caller relies on.               *)
EXTENDS ParallelCopy, FiniteSetTheorems, TLAPS

Shape ==
    /\ phase \in {"new", "copying", "ok", "failed", "aborted"}
    /\ nextOffset \in 0..Size
    /\ firstError \in {"none", "io", "aborted"} /\ cancelled \in BOOLEAN
    /\ pc \in [Workers -> {"reading", "writing", "gone"}]
    /\ offset \in [Workers -> Nat] /\ done \in [Workers -> Nat] /\ got \in [Workers -> Nat]
    /\ buffer \in [Workers -> [BufferIndexes -> Int]]
    /\ late \in [Workers -> {"none", "reading", "writing"}]
    /\ target \in [Positions -> Int]

Pending(w) == InFlight(w) \/ late[w] # "none"

\* A worker with a request out is inside its chunk, and what it is about to
\* write is what belongs there.
ChunkOf(w) ==
    /\ Pending(w) => offset[w] < Size /\ done[w] < LengthAt(offset[w])
    /\ pc[w] = "writing" \/ late[w] = "writing" =>
         /\ got[w] <= LengthAt(offset[w]) - done[w]
         /\ \A i \in BufferIndexes : i < got[w] => buffer[w][i] = offset[w] + done[w] + i

\* Who may have a request out, and when.
Alive ==
    /\ \A w \in Workers : InFlight(w) => phase = "copying" /\ ~cancelled /\ late[w] = "none"
    /\ \A w \in Workers : late[w] # "none" => cancelled
    /\ firstError = "aborted" => cancelled
    /\ phase = "new" => firstError = "none" /\ \A w \in Workers : done[w] = 0

Clean == firstError = "none" /\ ~cancelled

\* While all goes well, every byte claimed is at the target or in a worker's
\* hands, and a worker only goes when there is nothing left to claim.
Covered ==
    phase = "copying" /\ Clean =>
        /\ \A p \in Positions : p < nextOffset =>
             \/ target[p] = p
             \/ \E w \in Workers :
                  InFlight(w) /\ offset[w] + done[w] <= p /\ p < offset[w] + LengthAt(offset[w])
        /\ nextOffset = Size \/ \A w \in Workers : InFlight(w)

CopyInv ==
    /\ Shape
    /\ \A w \in Workers : ChunkOf(w)
    /\ Alive
    /\ Covered
    /\ ByteFaithful
    /\ OkIsWhole

(* A worker's write puts right bytes in place and disturbs no other.           *)
LEMMA LandedIsRight ==
    ASSUME Shape, ByteFaithful, NEW w \in Workers, ChunkOf(w),
           pc[w] = "writing" \/ late[w] = "writing"
    PROVE  /\ Landed(w) \in [Positions -> Int]
           /\ \A p \in Positions : Landed(w)[p] \in {Blank, p}
           /\ \A p \in Positions : target[p] = p => Landed(w)[p] = p
           /\ \A p \in Positions :
                offset[w] + done[w] <= p /\ p < offset[w] + done[w] + got[w] => Landed(w)[p] = p
  <1>1. /\ offset[w] \in Nat /\ done[w] \in Nat /\ got[w] \in Nat
        /\ Size \in Nat /\ ChunkSize \in Nat /\ ChunkSize > 0
    BY CopyAssumption DEF Shape
  <1>2. /\ got[w] <= LengthAt(offset[w]) - done[w] /\ offset[w] < Size
        /\ \A i \in BufferIndexes : i < got[w] => buffer[w][i] = offset[w] + done[w] + i
    BY DEF ChunkOf, Pending, InFlight
  <1>3. LengthAt(offset[w]) \in Int /\ LengthAt(offset[w]) <= ChunkSize
    BY <1>1 DEF LengthAt
  <1>4. ASSUME NEW p \in Positions,
               offset[w] + done[w] <= p, p < offset[w] + done[w] + got[w]
        PROVE  buffer[w][p - offset[w] - done[w]] = p
    <2>1. p \in Int /\ p - offset[w] - done[w] \in Int BY <1>1 DEF Positions
    <2>2. p - offset[w] - done[w] < got[w] /\ 0 <= p - offset[w] - done[w]
      BY <1>1, <1>4, <2>1
    <2>3. p - offset[w] - done[w] \in BufferIndexes
      BY <1>1, <1>2, <1>3, <2>1, <2>2 DEF BufferIndexes
    <2>4. buffer[w][p - offset[w] - done[w]] = offset[w] + done[w] + (p - offset[w] - done[w])
      BY <1>2, <2>2, <2>3
    <2> QED BY <1>1, <2>1, <2>4
  <1>5. ASSUME NEW p \in Positions
        PROVE  /\ Landed(w)[p] \in Int /\ Landed(w)[p] \in {Blank, p}
               /\ target[p] = p => Landed(w)[p] = p
               /\ offset[w] + done[w] <= p /\ p < offset[w] + done[w] + got[w]
                    => Landed(w)[p] = p
    BY <1>4, p \in Int DEF Landed, ByteFaithful, Shape, Positions
  <1>6. Landed(w) \in [Positions -> Int] BY <1>5 DEF Landed
  <1> QED BY <1>5, <1>6

(* n bytes read at the place the chunk has got to.                             *)
LEMMA FilledIsRight ==
    ASSUME Shape, NEW w \in Workers, NEW n \in 1..ChunkSize
    PROVE  /\ Filled(w, n) \in [Workers -> [BufferIndexes -> Int]]
           /\ \A v \in Workers \ {w} : Filled(w, n)[v] = buffer[v]
           /\ \A i \in BufferIndexes : i < n => Filled(w, n)[w][i] = offset[w] + done[w] + i
  <1> DEFINE f == [i \in BufferIndexes |->
                     IF i < n THEN offset[w] + done[w] + i ELSE buffer[w][i]]
  <1>1. f \in [BufferIndexes -> Int]
    BY CopyAssumption DEF Shape, BufferIndexes
  <1>2. Filled(w, n) = [buffer EXCEPT ![w] = f] BY DEF Filled
  <1>3. \A i \in BufferIndexes : i < n => f[i] = offset[w] + done[w] + i OBVIOUS
  <1> HIDE DEF f
  <1> QED BY <1>1, <1>2, <1>3 DEF Shape

-------------------------------------------------------------------------------
LEMMA CopyInitInv == ASSUME Init PROVE CopyInv
  <1>1. 0 \in 0..Size BY CopyAssumption
  <1>2. Shape
    <2>1. Blank \in Int BY DEF Blank
    <2>2. [i \in BufferIndexes |-> Blank] \in [BufferIndexes -> Int] BY <2>1
    <2>3. buffer \in [Workers -> [BufferIndexes -> Int]] BY <2>2 DEF Init
    <2>4. target \in [Positions -> Int] BY <2>1 DEF Init
    <2> QED BY <1>1, <2>3, <2>4 DEF Init, Shape
  <1>3. \A w \in Workers : ChunkOf(w) BY DEF Init, ChunkOf, Pending, InFlight
  <1>4. Alive BY DEF Init, Alive, InFlight
  <1>5. Covered BY DEF Init, Covered
  <1>6. ByteFaithful /\ OkIsWhole BY DEF Init, ByteFaithful, OkIsWhole
  <1> QED BY <1>2, <1>3, <1>4, <1>5, <1>6 DEF CopyInv

(* The first claims cover an initial part of the file: byte p belongs to        *)
(* worker p \div ChunkSize + 1.                                                *)
LEMMA FirstClaims ==
    ASSUME NEW p \in Nat, p < Concurrency * ChunkSize
    PROVE  \E w \in Workers : FirstOffset(w) <= p /\ p < FirstOffset(w) + ChunkSize
  <1> DEFINE q == p \div ChunkSize
  <1>1. ChunkSize \in Nat /\ ChunkSize > 0 /\ Concurrency \in Nat /\ Concurrency > 0
    BY CopyAssumption
  <1>2. q \in Nat /\ q * ChunkSize <= p /\ p < q * ChunkSize + ChunkSize
    BY <1>1
  <1>3. q < Concurrency
    <2>1. ASSUME q >= Concurrency PROVE FALSE
      <3>1. q * ChunkSize >= Concurrency * ChunkSize BY <1>1, <1>2, <2>1
      <3> QED BY <1>1, <1>2, <3>1
    <2> QED BY <1>1, <1>2, <2>1
  <1> HIDE DEF q
  <1>4. q + 1 \in Workers BY <1>1, <1>2, <1>3 DEF Workers
  <1>5. FirstOffset(q + 1) = q * ChunkSize BY <1>2 DEF FirstOffset
  <1> QED BY <1>2, <1>4, <1>5

LEMMA BeginInv == ASSUME CopyInv, Begin PROVE CopyInv'
  <1>1. /\ Shape /\ Alive /\ ByteFaithful /\ \A w \in Workers : ChunkOf(w) BY DEF CopyInv
  <1>2. /\ phase = "new" /\ UNCHANGED <<transferred, firstError, cancelled, done, got, buffer,
                                        late, target>>
    BY DEF Begin
  <1>3. ByteFaithful' BY <1>1, <1>2 DEF ByteFaithful
  <1>4. Size \in Nat /\ ChunkSize \in Nat /\ ChunkSize > 0 /\ Concurrency \in Nat
        /\ Concurrency > 0
    BY CopyAssumption
  <1>5. CASE Size = 0 \/ cancelled
    <2>1. /\ phase' = IF Size = 0 THEN "ok" ELSE "aborted"
          /\ UNCHANGED <<pc, offset, nextOffset>>
      BY <1>5 DEF Begin
    <2>2. Shape' BY <1>1, <1>2, <2>1 DEF Shape
    <2>3. \A w \in Workers : ChunkOf(w)'
      BY <1>1, <1>2, <2>1 DEF ChunkOf, Pending, InFlight
    <2>4. Alive' BY <1>1, <1>2, <2>1 DEF Alive, InFlight
    <2>5. Covered' BY <2>1 DEF Covered
    <2>6. OkIsWhole'
      <3>1. Size = 0 => Positions = {} BY DEF Positions
      <3> QED BY <2>1, <3>1 DEF OkIsWhole
    <2> QED BY <1>3, <2>2, <2>3, <2>4, <2>5, <2>6 DEF CopyInv
  <1>6. CASE ~(Size = 0 \/ cancelled)
    <2>1. /\ phase' = "copying"
          /\ pc' = [w \in Workers |-> IF FirstOffset(w) < Size THEN "reading" ELSE "gone"]
          /\ offset' = [w \in Workers |-> IF FirstOffset(w) < Size THEN FirstOffset(w) ELSE 0]
          /\ nextOffset' = IF Concurrency * ChunkSize <= Size
                           THEN Concurrency * ChunkSize ELSE Size
      BY <1>6 DEF Begin
    <2>2. \A w \in Workers : FirstOffset(w) \in Nat
      <3> TAKE w \in Workers
      <3>1. w \in Int /\ w >= 1 BY DEF Workers
      <3>2. w - 1 \in Nat BY <3>1
      <3> QED BY <1>4, <3>2 DEF FirstOffset
    <2>3. Concurrency * ChunkSize \in Nat BY <1>4
    <2>4. nextOffset' \in 0..Size BY <1>4, <2>1, <2>3
    <2>5. /\ offset' \in [Workers -> Nat]
          /\ pc' \in [Workers -> {"reading", "writing", "gone"}]
      BY <2>1, <2>2
    <2>6. Shape' BY <1>1, <1>2, <2>1, <2>4, <2>5 DEF Shape
    <2>7. \A w \in Workers : late[w] = "none" /\ done'[w] = done[w]
      BY <1>1, <1>2, <1>6 DEF Alive
    <2>8. firstError' = "none" /\ cancelled' = FALSE
      BY <1>1, <1>2, <1>6 DEF Alive, Shape
    <2>9. \A w \in Workers : done'[w] = 0 BY <1>1, <1>2 DEF Alive
    <2>10. \A w \in Workers : ChunkOf(w)'
      <3> TAKE w \in Workers
      <3>1. late'[w] = "none" /\ pc'[w] # "writing" BY <1>2, <2>1, <2>7
      <3>2. CASE FirstOffset(w) < Size
        <4>1. offset'[w] = FirstOffset(w) /\ done'[w] = 0 BY <2>1, <2>9, <3>2
        <4>2. 0 < LengthAt(FirstOffset(w)) BY <1>4, <2>2, <3>2 DEF LengthAt
        <4> QED BY <3>1, <3>2, <4>1, <4>2 DEF ChunkOf
      <3>3. CASE ~(FirstOffset(w) < Size)
        BY <2>1, <3>1, <3>3 DEF ChunkOf, Pending, InFlight
      <3> QED BY <3>2, <3>3
    <2>11. Alive' BY <1>2, <2>1, <2>7, <2>8 DEF Alive, InFlight
    <2>12. Covered'
      <3>1. ASSUME NEW p \in Positions, p < nextOffset'
            PROVE  \E w \in Workers :
                     InFlight(w)' /\ offset'[w] + done'[w] <= p
                     /\ p < offset'[w] + LengthAt(offset'[w])
        <4>1. p \in Nat /\ p < Size BY <1>4 DEF Positions
        <4>2. p < Concurrency * ChunkSize BY <1>4, <2>1, <2>3, <3>1, <4>1
        <4>3. PICK w \in Workers : FirstOffset(w) <= p /\ p < FirstOffset(w) + ChunkSize
          BY <4>1, <4>2, FirstClaims
        <4>4. FirstOffset(w) < Size BY <1>4, <2>2, <4>1, <4>3
        <4>5. offset'[w] = FirstOffset(w) /\ pc'[w] = "reading" /\ done'[w] = 0
          BY <2>1, <2>9, <4>4
        <4>6. p < FirstOffset(w) + LengthAt(FirstOffset(w))
          BY <1>4, <2>2, <4>1, <4>3 DEF LengthAt
        <4>7. FirstOffset(w) + 0 <= p BY <2>2, <4>1, <4>3
        <4> QED BY <4>5, <4>6, <4>7 DEF InFlight
      <3>2. nextOffset' = Size \/ \A w \in Workers : InFlight(w)'
        <4>1. CASE Concurrency * ChunkSize <= Size
          <5>1. ASSUME NEW w \in Workers PROVE FirstOffset(w) < Size
            <6>1. w \in Int /\ 1 <= w /\ w <= Concurrency BY <1>4 DEF Workers
            <6>2. (w - 1) * ChunkSize = w * ChunkSize - ChunkSize BY <1>4, <6>1
            <6>3. w * ChunkSize <= Concurrency * ChunkSize BY <1>4, <6>1
            <6> QED BY <1>4, <4>1, <6>1, <6>2, <6>3 DEF FirstOffset
          <5> QED BY <2>1, <5>1 DEF InFlight
        <4>2. CASE ~(Concurrency * ChunkSize <= Size) BY <2>1, <4>2
        <4> QED BY <4>1, <4>2
      <3> QED BY <3>1, <3>2 DEF Covered
    <2>13. OkIsWhole' BY <2>1 DEF OkIsWhole
    <2> QED BY <1>3, <2>6, <2>10, <2>11, <2>12, <2>13 DEF CopyInv
  <1> QED BY <1>5, <1>6

LEMMA ReadAnswersInv ==
    ASSUME CopyInv, NEW w \in Workers, NEW n \in 1..ChunkSize, ReadAnswers(w, n)
    PROVE  CopyInv'
  <1>1. /\ Shape /\ Alive /\ ByteFaithful /\ Covered /\ OkIsWhole
        /\ \A v \in Workers : ChunkOf(v)
    BY DEF CopyInv
  <1>2. /\ pc[w] = "reading" /\ n <= LengthAt(offset[w]) - done[w]
        /\ buffer' = Filled(w, n) /\ got' = [got EXCEPT ![w] = n]
        /\ pc' = [pc EXCEPT ![w] = "writing"]
        /\ UNCHANGED <<phase, nextOffset, transferred, firstError, cancelled, offset, done,
                       late, target>>
    BY DEF ReadAnswers
  <1>3. /\ Filled(w, n) \in [Workers -> [BufferIndexes -> Int]]
        /\ \A v \in Workers \ {w} : Filled(w, n)[v] = buffer[v]
        /\ \A i \in BufferIndexes : i < n => Filled(w, n)[w][i] = offset[w] + done[w] + i
    BY <1>1, FilledIsRight
  <1>4. n \in Nat BY CopyAssumption
  <1>5. Shape' BY <1>1, <1>2, <1>3, <1>4 DEF Shape
  <1>6. \A v \in Workers : ChunkOf(v)'
    <2>1. ChunkOf(w)' BY <1>1, <1>2, <1>3 DEF ChunkOf, Pending, InFlight, Shape
    <2>2. \A v \in Workers \ {w} : ChunkOf(v)'
      BY <1>1, <1>2, <1>3 DEF ChunkOf, Pending, InFlight, Shape
    <2> QED BY <2>1, <2>2
  <1>7. \A v \in Workers : InFlight(v)' <=> InFlight(v)
    BY <1>1, <1>2 DEF InFlight, Shape
  <1>8. Alive' BY <1>1, <1>2, <1>7 DEF Alive
  <1>9. Covered' BY <1>1, <1>2, <1>7 DEF Covered, Clean
  <1>10. ByteFaithful' /\ OkIsWhole' BY <1>1, <1>2 DEF ByteFaithful, OkIsWhole
  <1> QED BY <1>5, <1>6, <1>8, <1>9, <1>10 DEF CopyInv

LEMMA LateReadInv ==
    ASSUME CopyInv, NEW w \in Workers, NEW n \in 1..ChunkSize, LateRead(w, n)
    PROVE  CopyInv'
  <1>1. /\ Shape /\ Alive /\ ByteFaithful /\ Covered /\ OkIsWhole
        /\ \A v \in Workers : ChunkOf(v)
    BY DEF CopyInv
  <1>2. /\ late[w] = "reading" /\ buffer' = Filled(w, n)
        /\ late' = [late EXCEPT ![w] = "none"]
        /\ UNCHANGED <<phase, nextOffset, transferred, firstError, cancelled, pc, offset, done,
                       got, target>>
    BY DEF LateRead
  <1>3. /\ Filled(w, n) \in [Workers -> [BufferIndexes -> Int]]
        /\ \A v \in Workers \ {w} : Filled(w, n)[v] = buffer[v]
    BY <1>1, FilledIsRight
  <1>4. Shape' BY <1>1, <1>2, <1>3 DEF Shape
  <1>5. ~InFlight(w) BY <1>1, <1>2 DEF Alive
  <1>6. \A v \in Workers : ChunkOf(v)'
    <2>1. ChunkOf(w)' BY <1>1, <1>2, <1>5 DEF ChunkOf, Pending, InFlight, Shape
    <2>2. \A v \in Workers \ {w} : ChunkOf(v)'
      BY <1>1, <1>2, <1>3 DEF ChunkOf, Pending, InFlight, Shape
    <2> QED BY <2>1, <2>2
  <1>7. Alive' BY <1>1, <1>2 DEF Alive, InFlight, Shape
  <1>8. Covered' BY <1>1, <1>2 DEF Covered, Clean, InFlight
  <1>9. ByteFaithful' /\ OkIsWhole' BY <1>1, <1>2 DEF ByteFaithful, OkIsWhole
  <1> QED BY <1>4, <1>6, <1>7, <1>8, <1>9 DEF CopyInv

LEMMA LateWriteInv ==
    ASSUME CopyInv, NEW w \in Workers, LateWrite(w)
    PROVE  CopyInv'
  <1>1. /\ Shape /\ Alive /\ ByteFaithful /\ Covered /\ OkIsWhole
        /\ \A v \in Workers : ChunkOf(v)
    BY DEF CopyInv
  <1>2. /\ late[w] = "writing" /\ target' = Landed(w)
        /\ late' = [late EXCEPT ![w] = "none"]
        /\ UNCHANGED <<phase, nextOffset, transferred, firstError, cancelled, pc, offset, done,
                       got, buffer>>
    BY DEF LateWrite
  <1>3. /\ target' \in [Positions -> Int]
        /\ \A p \in Positions : target'[p] \in {Blank, p}
        /\ \A p \in Positions : target[p] = p => target'[p] = p
    BY <1>1, <1>2, LandedIsRight
  <1>4. Shape' BY <1>1, <1>2, <1>3 DEF Shape
  <1>5. \A v \in Workers : ChunkOf(v)'
    BY <1>1, <1>2 DEF ChunkOf, Pending, InFlight, Shape
  <1>6. Alive' BY <1>1, <1>2 DEF Alive, InFlight, Shape
  <1>7. cancelled' BY <1>1, <1>2 DEF Alive
  <1>8. Covered' BY <1>7 DEF Covered, Clean
  <1>9. ByteFaithful' /\ OkIsWhole' BY <1>1, <1>2, <1>3 DEF ByteFaithful, OkIsWhole
  <1> QED BY <1>4, <1>5, <1>6, <1>8, <1>9 DEF CopyInv

LEMMA RequestFailsInv ==
    ASSUME CopyInv, NEW w \in Workers, RequestFails(w)
    PROVE  CopyInv'
  <1>1. /\ Shape /\ Alive /\ ByteFaithful /\ Covered /\ OkIsWhole
        /\ \A v \in Workers : ChunkOf(v)
    BY DEF CopyInv
  <1>2. /\ InFlight(w) /\ firstError' = IF firstError = "none" THEN "io" ELSE firstError
        /\ pc' = [pc EXCEPT ![w] = "gone"]
        /\ UNCHANGED <<phase, nextOffset, transferred, cancelled, offset, done, got, buffer,
                       late>>
    BY DEF RequestFails
  <1>3. target' = target \/ (target' = Landed(w) /\ pc[w] = "writing")
    BY DEF RequestFails
  <1>4. /\ target' \in [Positions -> Int]
        /\ \A p \in Positions : target'[p] \in {Blank, p}
    <2>1. CASE target' = target BY <1>1, <2>1 DEF Shape, ByteFaithful
    <2>2. CASE target' = Landed(w) /\ pc[w] = "writing" BY <1>1, <2>2, LandedIsRight
    <2> QED BY <1>3, <2>1, <2>2
  <1>5. phase = "copying" /\ ~cancelled BY <1>1, <1>2 DEF Alive
  <1>6. Shape' BY <1>1, <1>2, <1>4 DEF Shape
  <1>7. \A v \in Workers : ChunkOf(v)'
    BY <1>1, <1>2 DEF ChunkOf, Pending, InFlight, Shape
  <1>8. firstError' # "none" BY <1>1, <1>2
  <1>9. Alive' BY <1>1, <1>2, <1>5 DEF Alive, InFlight, Shape
  <1>10. Covered' BY <1>8 DEF Covered, Clean
  <1>11. ByteFaithful' /\ OkIsWhole' BY <1>2, <1>4, <1>5 DEF ByteFaithful, OkIsWhole
  <1> QED BY <1>6, <1>7, <1>9, <1>10, <1>11 DEF CopyInv

LEMMA CancelInv == ASSUME CopyInv, Cancel PROVE CopyInv'
  <1>1. /\ Shape /\ Alive /\ ByteFaithful /\ Covered /\ OkIsWhole
        /\ \A v \in Workers : ChunkOf(v)
    BY DEF CopyInv
  <1>2. /\ phase \in {"new", "copying"} /\ cancelled' = TRUE
        /\ firstError' = IF firstError = "none" /\ \E w \in Workers : InFlight(w)
                         THEN "aborted" ELSE firstError
        /\ pc' = [w \in Workers |-> "gone"]
        /\ late' = [w \in Workers |-> IF InFlight(w) THEN pc[w] ELSE late[w]]
        /\ UNCHANGED <<phase, nextOffset, transferred, offset, done, got, buffer, target>>
    BY DEF Cancel
  <1>3. Shape' BY <1>1, <1>2 DEF Shape, InFlight
  <1>4. \A v \in Workers : ChunkOf(v)'
    BY <1>1, <1>2 DEF ChunkOf, Pending, InFlight, Shape
  <1>5. \A v \in Workers : ~InFlight(v)' BY <1>2 DEF InFlight
  <1>6. phase = "new" => firstError' = "none" /\ \A v \in Workers : done'[v] = 0
    BY <1>1, <1>2 DEF Alive
  <1>7. Alive' BY <1>1, <1>2, <1>5, <1>6 DEF Alive
  <1>8. Covered' BY <1>2 DEF Covered, Clean
  <1>9. ByteFaithful' /\ OkIsWhole' BY <1>1, <1>2 DEF ByteFaithful, OkIsWhole
  <1> QED BY <1>3, <1>4, <1>7, <1>8, <1>9 DEF CopyInv

(* Claimed whole, nobody at work, no error: the file is there.                 *)
LEMMA SettleInv == ASSUME CopyInv, Settle PROVE CopyInv'
  <1>1. /\ Shape /\ Alive /\ ByteFaithful /\ Covered /\ OkIsWhole
        /\ \A v \in Workers : ChunkOf(v)
    BY DEF CopyInv
  <1>2. /\ phase = "copying" /\ \A w \in Workers : ~InFlight(w)
        /\ phase' = IF firstError = "io" THEN "failed"
                    ELSE IF firstError = "aborted" \/ cancelled THEN "aborted" ELSE "ok"
        /\ UNCHANGED <<nextOffset, transferred, firstError, cancelled, pc, offset, done, got,
                       buffer, late, target>>
    BY DEF Settle, AllBack
  <1>3. Shape' BY <1>1, <1>2 DEF Shape
  <1>4. \A v \in Workers : ChunkOf(v)'
    BY <1>1, <1>2 DEF ChunkOf, Pending, InFlight
  <1>5. Alive' BY <1>1, <1>2 DEF Alive, InFlight
  <1>6. Covered' BY <1>2 DEF Covered
  <1>7. ByteFaithful' BY <1>1, <1>2 DEF ByteFaithful
  <1>8. OkIsWhole'
    <2>1. SUFFICES ASSUME phase' = "ok" PROVE \A p \in Positions : target'[p] = p
      BY DEF OkIsWhole
    <2>2. Clean BY <1>1, <1>2, <2>1 DEF Clean, Shape
    <2>3. 1 \in Workers BY CopyAssumption DEF Workers
    <2>4. nextOffset = Size BY <1>1, <1>2, <2>2, <2>3 DEF Covered
    <2>5. \A p \in Positions : p < nextOffset BY <2>4, CopyAssumption DEF Positions
    <2> QED BY <1>1, <1>2, <2>2, <2>5 DEF Covered
  <1> QED BY <1>3, <1>4, <1>5, <1>6, <1>7, <1>8 DEF CopyInv

LEMMA CopyUnchangedInv == ASSUME CopyInv, UNCHANGED vars PROVE CopyInv'
  <1>1. /\ Shape /\ Alive /\ ByteFaithful /\ Covered /\ OkIsWhole
        /\ \A v \in Workers : ChunkOf(v)
    BY DEF CopyInv
  <1>2. /\ phase' = phase /\ nextOffset' = nextOffset /\ transferred' = transferred
        /\ firstError' = firstError /\ cancelled' = cancelled /\ pc' = pc
        /\ offset' = offset /\ done' = done /\ got' = got /\ buffer' = buffer
        /\ late' = late /\ target' = target
    BY DEF vars
  <1>3. Shape' BY <1>1, <1>2 DEF Shape
  <1>4. \A v \in Workers : ChunkOf(v)' BY <1>1, <1>2 DEF ChunkOf, Pending, InFlight
  <1>5. Alive' BY <1>1, <1>2 DEF Alive, InFlight
  <1>6. Covered' BY <1>1, <1>2 DEF Covered, Clean, InFlight
  <1>7. ByteFaithful' /\ OkIsWhole' BY <1>1, <1>2 DEF ByteFaithful, OkIsWhole
  <1> QED BY <1>3, <1>4, <1>5, <1>6, <1>7 DEF CopyInv

LEMMA WriteAnswersInv ==
    ASSUME CopyInv, NEW w \in Workers, WriteAnswers(w)
    PROVE  CopyInv'
  <1>1. /\ Shape /\ Alive /\ ByteFaithful /\ Covered /\ OkIsWhole
        /\ \A v \in Workers : ChunkOf(v)
    BY DEF CopyInv
  <1>2. /\ pc[w] = "writing" /\ target' = Landed(w)
        /\ UNCHANGED <<phase, firstError, cancelled, got, buffer, late>>
    BY DEF WriteAnswers
  <1>3. /\ phase = "copying" /\ ~cancelled /\ \A v \in Workers : late[v] = "none"
    BY <1>1, <1>2 DEF Alive, InFlight
  <1>4. /\ target' \in [Positions -> Int]
        /\ \A p \in Positions : target'[p] \in {Blank, p}
        /\ \A p \in Positions : target[p] = p => target'[p] = p
        /\ \A p \in Positions :
             offset[w] + done[w] <= p /\ p < offset[w] + done[w] + got[w] => target'[p] = p
    BY <1>1, <1>2, LandedIsRight
  <1>5. /\ Size \in Nat /\ ChunkSize \in Nat /\ ChunkSize > 0
        /\ nextOffset \in Nat /\ nextOffset <= Size
        /\ offset[w] \in Nat /\ done[w] \in Nat /\ got[w] \in Nat
    BY <1>1, CopyAssumption DEF Shape
  <1>6. /\ offset[w] < Size /\ LengthAt(offset[w]) \in Int
        /\ 0 < LengthAt(nextOffset) \/ nextOffset = Size
        /\ LengthAt(nextOffset) \in Int /\ LengthAt(nextOffset) <= Size - nextOffset
    BY <1>1, <1>2, <1>5 DEF ChunkOf, Pending, InFlight, LengthAt
  <1>7. ByteFaithful' /\ OkIsWhole' BY <1>2, <1>3, <1>4 DEF ByteFaithful, OkIsWhole
  (* Whatever w does next: the others do not move, and what w leaves behind is there. *)
  <1>8. ASSUME pc' \in [Workers -> {"reading", "writing", "gone"}],
               \A v \in Workers \ {w} :
                  pc'[v] = pc[v] /\ offset'[v] = offset[v] /\ done'[v] = done[v],
               pc'[w] # "writing"
        PROVE  /\ Alive'
               /\ \A v \in Workers \ {w} : ChunkOf(v)'
    <2>1. \A v \in Workers : late'[v] = "none" BY <1>2, <1>3
    <2>2. Alive' BY <1>1, <1>2, <1>3, <1>8, <2>1 DEF Alive, InFlight
    <2>3. \A v \in Workers \ {w} : ChunkOf(v)'
      BY <1>1, <1>2, <1>8, <2>1 DEF ChunkOf, Pending, InFlight
    <2> QED BY <2>2, <2>3
  <1>9. ASSUME NEW p \in Positions, p < nextOffset, Clean
        PROVE  \/ target'[p] = p
               \/ \E v \in Workers \ {w} :
                     InFlight(v) /\ offset[v] + done[v] <= p /\ p < offset[v] + LengthAt(offset[v])
               \/ offset[w] + done[w] + got[w] <= p /\ p < offset[w] + LengthAt(offset[w])
    <2>1. \/ target[p] = p
          \/ \E v \in Workers :
               InFlight(v) /\ offset[v] + done[v] <= p /\ p < offset[v] + LengthAt(offset[v])
      BY <1>1, <1>3, <1>9 DEF Covered
    <2>2. CASE target[p] = p BY <1>4, <2>2
    <2>3. CASE \E v \in Workers :
               InFlight(v) /\ offset[v] + done[v] <= p /\ p < offset[v] + LengthAt(offset[v])
      <3>1. PICK v \in Workers :
               InFlight(v) /\ offset[v] + done[v] <= p /\ p < offset[v] + LengthAt(offset[v])
        BY <2>3
      <3>2. CASE v # w BY <3>1, <3>2
      <3>3. CASE v = w
        <4>1. p \in Int BY <1>5 DEF Positions
        <4>2. CASE p < offset[w] + done[w] + got[w] BY <1>4, <3>1, <3>3, <4>2
        <4>3. CASE offset[w] + done[w] + got[w] <= p BY <3>1, <3>3, <4>3
        <4> QED BY <1>5, <4>1, <4>2, <4>3
      <3> QED BY <3>2, <3>3
    <2> QED BY <2>1, <2>2, <2>3
  <1>10. CASE done[w] + got[w] < LengthAt(offset[w])
    <2>1. /\ pc' = [pc EXCEPT ![w] = "reading"] /\ done' = [done EXCEPT ![w] = @ + got[w]]
          /\ offset' = offset /\ nextOffset' = nextOffset
      BY <1>10 DEF WriteAnswers
    <2>2. Shape' BY <1>1, <1>2, <1>4, <1>5, <2>1 DEF Shape
    <2>3. /\ pc'[w] = "reading" /\ done'[w] = done[w] + got[w]
          /\ \A v \in Workers \ {w} : pc'[v] = pc[v] /\ done'[v] = done[v]
      BY <1>1, <2>1 DEF Shape
    <2>4. Alive' /\ \A v \in Workers \ {w} : ChunkOf(v)'
      <3>1. pc' \in [Workers -> {"reading", "writing", "gone"}] BY <2>2 DEF Shape
      <3> QED BY <1>8, <2>1, <2>3, <3>1
    <2>5. ChunkOf(w)' BY <1>2, <1>3, <1>6, <1>10, <2>1, <2>3 DEF ChunkOf
    <2>6. Covered'
      <3>1. SUFFICES ASSUME Clean'
                     PROVE  /\ \A p \in Positions : p < nextOffset' =>
                                 \/ target'[p] = p
                                 \/ \E v \in Workers :
                                      /\ InFlight(v)' /\ offset'[v] + done'[v] <= p
                                      /\ p < offset'[v] + LengthAt(offset'[v])
                            /\ nextOffset' = Size \/ \A v \in Workers : InFlight(v)'
        BY DEF Covered
      <3>2. Clean BY <1>2, <3>1 DEF Clean
      <3>3. \A v \in Workers : InFlight(v) => InFlight(v)' BY <2>3 DEF InFlight
      <3>4. nextOffset' = Size \/ \A v \in Workers : InFlight(v)'
        BY <1>1, <1>3, <2>1, <3>2, <3>3 DEF Covered
      <3>5. ASSUME NEW p \in Positions, p < nextOffset'
            PROVE  \/ target'[p] = p
                   \/ \E v \in Workers :
                        /\ InFlight(v)' /\ offset'[v] + done'[v] <= p
                        /\ p < offset'[v] + LengthAt(offset'[v])
        <4>1. InFlight(w)' BY <2>3 DEF InFlight
        <4>2. p \in Int BY <1>5 DEF Positions
        <4>3. CASE offset[w] + done[w] + got[w] <= p /\ p < offset[w] + LengthAt(offset[w])
          BY <1>5, <2>1, <2>3, <4>1, <4>2, <4>3
        <4>4. CASE \E v \in Workers \ {w} :
                     InFlight(v) /\ offset[v] + done[v] <= p /\ p < offset[v] + LengthAt(offset[v])
          BY <2>1, <2>3, <3>3, <4>4
        <4> QED BY <1>9, <2>1, <3>2, <3>5, <4>3, <4>4
      <3> QED BY <3>4, <3>5
    <2> QED BY <1>7, <2>2, <2>4, <2>5, <2>6 DEF CopyInv
  <1>11. CASE ~(done[w] + got[w] < LengthAt(offset[w]))
    <2>1. Claim(w) BY <1>11 DEF WriteAnswers
    (* w's old chunk is complete. *)
    <2>2. ASSUME NEW p \in Positions, p < nextOffset, Clean
          PROVE  \/ target'[p] = p
                 \/ \E v \in Workers \ {w} :
                     InFlight(v) /\ offset[v] + done[v] <= p /\ p < offset[v] + LengthAt(offset[v])
      <3>1. p \in Int BY <1>5 DEF Positions
      <3>2. ~(offset[w] + done[w] + got[w] <= p /\ p < offset[w] + LengthAt(offset[w]))
        BY <1>5, <1>6, <1>11, <3>1
      <3> QED BY <1>9, <2>2, <3>2
    <2>3. CASE firstError # "none" \/ nextOffset >= Size
      <3>1. pc' = [pc EXCEPT ![w] = "gone"] /\ UNCHANGED <<offset, done, nextOffset>>
        BY <2>1, <2>3 DEF Claim
      <3>2. Shape' BY <1>1, <1>2, <1>4, <3>1 DEF Shape
      <3>3. pc'[w] = "gone" /\ \A v \in Workers \ {w} : pc'[v] = pc[v]
        BY <1>1, <3>1 DEF Shape
      <3>4. Alive' /\ \A v \in Workers \ {w} : ChunkOf(v)'
        <4>1. pc' \in [Workers -> {"reading", "writing", "gone"}] BY <3>2 DEF Shape
        <4> QED BY <1>8, <3>1, <3>3, <4>1
      <3>5. ChunkOf(w)' BY <1>2, <1>3, <3>3 DEF ChunkOf, Pending, InFlight
      <3>6. Covered'
        <4>1. CASE firstError # "none" BY <1>2, <4>1 DEF Covered, Clean
        <4>2. CASE firstError = "none"
          <5>1. nextOffset' = Size BY <1>5, <2>3, <3>1, <4>2
          <5>2. Clean BY <1>3, <4>2 DEF Clean
          <5>3. ASSUME NEW p \in Positions, p < nextOffset'
                PROVE  \/ target'[p] = p
                       \/ \E v \in Workers :
                            /\ InFlight(v)' /\ offset'[v] + done'[v] <= p
                            /\ p < offset'[v] + LengthAt(offset'[v])
            BY <2>2, <3>1, <3>3, <5>2, <5>3 DEF InFlight
          <5> QED BY <5>1, <5>3 DEF Covered
        <4> QED BY <4>1, <4>2
      <3> QED BY <1>7, <3>2, <3>4, <3>5, <3>6 DEF CopyInv
    <2>4. CASE firstError = "none" /\ nextOffset < Size
      <3>1. /\ pc' = [pc EXCEPT ![w] = "reading"]
            /\ offset' = [offset EXCEPT ![w] = nextOffset]
            /\ done' = [done EXCEPT ![w] = 0]
            /\ nextOffset' = nextOffset + LengthAt(nextOffset)
        BY <1>5, <2>1, <2>4 DEF Claim
      <3>2. nextOffset' \in 0..Size BY <1>5, <1>6, <2>4, <3>1
      <3>3. Shape' BY <1>1, <1>2, <1>4, <1>5, <3>1, <3>2 DEF Shape
      <3>4. /\ pc'[w] = "reading" /\ offset'[w] = nextOffset /\ done'[w] = 0
            /\ \A v \in Workers \ {w} :
                 pc'[v] = pc[v] /\ offset'[v] = offset[v] /\ done'[v] = done[v]
        BY <1>1, <3>1 DEF Shape
      <3>5. Alive' /\ \A v \in Workers \ {w} : ChunkOf(v)'
        <4>1. pc' \in [Workers -> {"reading", "writing", "gone"}] BY <3>3 DEF Shape
        <4> QED BY <1>8, <3>4, <4>1
      <3>6. ChunkOf(w)'
        <4>1. 0 < LengthAt(nextOffset) BY <1>5, <1>6, <2>4
        <4>2. offset'[w] < Size /\ done'[w] < LengthAt(offset'[w]) BY <2>4, <3>4, <4>1
        <4> QED BY <1>2, <1>3, <3>4, <4>2 DEF ChunkOf
      <3>7. Covered'
        <4>1. Clean BY <1>3, <2>4 DEF Clean
        <4>2. \A v \in Workers : InFlight(v)'
          BY <1>1, <1>3, <1>5, <2>4, <3>4, <4>1 DEF Covered, InFlight
        <4>3. ASSUME NEW p \in Positions, p < nextOffset'
              PROVE  \/ target'[p] = p
                     \/ \E v \in Workers :
                          /\ InFlight(v)' /\ offset'[v] + done'[v] <= p
                          /\ p < offset'[v] + LengthAt(offset'[v])
          <5>1. p \in Int BY <1>5 DEF Positions
          <5>2. CASE p < nextOffset BY <2>2, <3>4, <4>1, <4>2, <5>2
          <5>3. CASE nextOffset <= p
            BY <1>5, <3>1, <3>4, <4>2, <4>3, <5>1, <5>3
          <5> QED BY <1>5, <5>1, <5>2, <5>3
        <4> QED BY <4>2, <4>3 DEF Covered
      <3> QED BY <1>7, <3>3, <3>5, <3>6, <3>7 DEF CopyInv
    <2> QED BY <1>1, <1>5, <2>3, <2>4 DEF Shape
  <1> QED BY <1>10, <1>11

-------------------------------------------------------------------------------
LEMMA CopyNextInv == ASSUME CopyInv, [Next]_vars PROVE CopyInv'
  <1>1. CASE Begin BY <1>1, BeginInv
  <1>2. CASE Cancel BY <1>2, CancelInv
  <1>3. CASE Settle BY <1>3, SettleInv
  <1>4. CASE \E w \in Workers : WorkerStep(w)
    <2>1. PICK w \in Workers : WorkerStep(w) BY <1>4
    <2>2. CASE \E n \in 1..ChunkSize : ReadAnswers(w, n) \/ LateRead(w, n)
      BY <2>2, ReadAnswersInv, LateReadInv
    <2>3. CASE WriteAnswers(w) BY <2>3, WriteAnswersInv
    <2>4. CASE RequestFails(w) BY <2>4, RequestFailsInv
    <2>5. CASE LateWrite(w) BY <2>5, LateWriteInv
    <2> QED BY <2>1, <2>2, <2>3, <2>4, <2>5 DEF WorkerStep
  <1>5. CASE UNCHANGED vars BY <1>5, CopyUnchangedInv
  <1> QED BY <1>1, <1>2, <1>3, <1>4, <1>5 DEF Next

(* The inductive invariant: see Covered for why a settled copy is whole.       *)
THEOREM CopyInvariant == Spec => []CopyInv
  <1>1. Init => CopyInv BY CopyInitInv
  <1>2. CopyInv /\ [Next]_vars => CopyInv' BY CopyNextInv
  <1> QED BY <1>1, <1>2, PTL DEF Spec

(* For every size, chunk size and concurrency, with short reads, failures,     *)
(* cancellations and late effects: no byte lands in another byte's place.      *)
THEOREM BytesLandInPlace == Spec => []ByteFaithful
  <1>1. CopyInv => ByteFaithful BY DEF CopyInv
  <1> QED BY <1>1, CopyInvariant, PTL

(* ... and parallelCopy (parallelTransfer.ts:60) resolves only over a whole file. *)
THEOREM ResolvedIsWhole == Spec => []OkIsWhole
  <1>1. CopyInv => OkIsWhole BY DEF CopyInv
  <1> QED BY <1>1, CopyInvariant, PTL

(* Safety part of ImplementsContract: workers, chunks and offsets hide a       *)
(* machine with one verdict, which names the first error.                      *)
THEOREM CopyKeepsContract == Spec => Contract!Spec
  <1>1. Init => Contract!Init BY DEF Init, Contract!Init
  <1>2. CopyInv /\ [Next]_vars => [Contract!Next]_(Contract!vars)
    <2>1. SUFFICES ASSUME CopyInv, [Next]_vars PROVE [Contract!Next]_(Contract!vars)
      OBVIOUS
    <2>2. Shape /\ Alive BY <2>1 DEF CopyInv
    <2>3. CASE Begin
      BY <2>2, <2>3 DEF Begin, Contract!Next, Contract!Begin, Shape
    <2>4. CASE Cancel
      BY <2>2, <2>4 DEF Cancel, Contract!Next, Contract!Cancel, Shape
    <2>5. CASE Settle
      BY <2>2, <2>5 DEF Settle, Contract!Next, Contract!Settle, Shape, Alive
    <2>6. CASE \E w \in Workers : WorkerStep(w)
      <3>1. PICK w \in Workers : WorkerStep(w) BY <2>6
      <3>2. CASE \E n \in 1..ChunkSize : ReadAnswers(w, n) \/ LateRead(w, n)
        BY <3>2 DEF ReadAnswers, LateRead, Contract!vars
      <3>3. CASE WriteAnswers(w) BY <3>3 DEF WriteAnswers, Contract!vars
      <3>4. CASE RequestFails(w)
        <4>1. phase = "copying" /\ ~cancelled BY <2>2, <3>4 DEF RequestFails, Alive
        <4>2. firstError # "aborted" BY <2>2, <4>1 DEF Alive
        <4>3. firstError' = "io" BY <2>2, <3>4, <4>2 DEF RequestFails, Shape
        <4> QED BY <3>4, <4>1, <4>3 DEF RequestFails, Contract!Next, Contract!RequestFails
      <3>5. CASE LateWrite(w) BY <3>5 DEF LateWrite, Contract!vars
      <3> QED BY <3>1, <3>2, <3>3, <3>4, <3>5 DEF WorkerStep
    <2>7. CASE UNCHANGED vars BY <2>7 DEF vars, Contract!vars
    <2> QED BY <2>1, <2>3, <2>4, <2>5, <2>6, <2>7 DEF Next
  <1> QED BY <1>1, <1>2, CopyInvariant, PTL DEF Spec, Contract!Spec
-------------------------------------------------------------------------------
(* Progress counts bytes, not requests: transferred is the number of bytes of   *)
(* some set that is at the target and in nobody's hands.                        *)

\* What worker w has still to write of its chunk.
Left(w) == {p \in Positions : offset[w] + done[w] <= p /\ p < offset[w] + LengthAt(offset[w])}

\* The bytes of C are those that were counted.
CountedBy(C) ==
    /\ Cardinality(C) = transferred
    /\ \A p \in C : target[p] = p /\ p < nextOffset
    /\ \A w \in Workers : InFlight(w) => C \cap Left(w) = {}
    /\ phase = "copying" /\ Clean =>
         \A p \in Positions : p < nextOffset =>
             p \in C \/ \E w \in Workers : InFlight(w) /\ p \in Left(w)
    /\ phase = "ok" => C = Positions
    /\ phase = "new" => C = {}

\* No two workers hold a common byte, and none holds an unclaimed one.
Separate ==
    /\ \A w \in Workers : InFlight(w) => offset[w] + LengthAt(offset[w]) <= nextOffset
    /\ \A v, w \in Workers : v # w /\ InFlight(v) /\ InFlight(w) =>
         \/ offset[v] + LengthAt(offset[v]) <= offset[w]
         \/ offset[w] + LengthAt(offset[w]) <= offset[v]

BuffersHoldBytes ==
    \A w \in Workers : \A i \in BufferIndexes : buffer[w][i] \in Positions \cup {Blank}

CountInv ==
    /\ \E C \in SUBSET Positions : CountedBy(C)
    /\ Separate
    /\ BuffersHoldBytes

LEMMA PositionsFinite ==
    /\ IsFiniteSet(Positions) /\ Cardinality(Positions) = Size
    /\ \A C \in SUBSET Positions : IsFiniteSet(C) /\ Cardinality(C) \in 0..Size
  <1>1. Size \in Nat /\ Size - 1 \in Int BY CopyAssumption
  <1>2. /\ IsFiniteSet(0..(Size - 1))
        /\ Cardinality(0..(Size - 1)) = IF 0 > Size - 1 THEN 0 ELSE Size - 1 - 0 + 1
    BY <1>1, FS_Interval
  <1>3. IsFiniteSet(Positions) /\ Cardinality(Positions) = Size BY <1>1, <1>2 DEF Positions
  <1>4. ASSUME NEW C \in SUBSET Positions
        PROVE  IsFiniteSet(C) /\ Cardinality(C) \in 0..Size
    <2>1. IsFiniteSet(C) /\ Cardinality(C) <= Cardinality(Positions) BY <1>3, FS_Subset
    <2>2. Cardinality(C) \in Nat BY <2>1, FS_CardinalityType
    <2> QED BY <1>1, <1>3, <2>1, <2>2
  <1> QED BY <1>3, <1>4

(* A stretch of n bytes none of which was counted adds n to the count.         *)
LEMMA StretchCounts ==
    ASSUME NEW C \in SUBSET Positions, NEW a \in Nat, NEW n \in Nat, a + n <= Size,
           NEW D \in SUBSET Positions, C \cap D = {},
           \A p \in Positions : p \in D <=> a <= p /\ p < a + n
    PROVE  C \cup D \in SUBSET Positions /\ Cardinality(C \cup D) = Cardinality(C) + n
  <1>1. Size \in Nat BY CopyAssumption
  <1>2. D = a..(a + n - 1)
    <2>1. ASSUME NEW p \in D PROVE p \in a..(a + n - 1)
      <3>1. p \in Positions /\ a <= p /\ p < a + n OBVIOUS
      <3>2. p \in Int BY <1>1, <3>1 DEF Positions
      <3> QED BY <3>1, <3>2
    <2>2. ASSUME NEW p \in a..(a + n - 1) PROVE p \in D
      <3>1. p \in Int /\ a <= p /\ p < a + n OBVIOUS
      <3>2. p \in Positions BY <1>1, <3>1 DEF Positions
      <3> QED BY <3>1, <3>2
    <2> QED BY <2>1, <2>2
  <1>3. a + n - 1 \in Int OBVIOUS
  <1>4. /\ IsFiniteSet(a..(a + n - 1))
        /\ Cardinality(a..(a + n - 1)) = IF a > a + n - 1 THEN 0 ELSE a + n - 1 - a + 1
    BY <1>3, FS_Interval
  <1>5. IsFiniteSet(D) /\ Cardinality(D) = n
    <2>1. (IF a > a + n - 1 THEN 0 ELSE a + n - 1 - a + 1) = n OBVIOUS
    <2> QED BY <1>2, <1>4, <2>1, Zenon
  <1>6. IsFiniteSet(C) /\ Cardinality(C) \in Nat BY <1>1, PositionsFinite
  <1>7. Cardinality(C \cup D) = Cardinality(C) + Cardinality(D) - Cardinality(C \cap D)
    BY <1>5, <1>6, FS_Union
  <1>8. Cardinality(C \cap D) = 0 BY FS_EmptySet
  <1> QED BY <1>5, <1>6, <1>7, <1>8

LEMMA InitCounts == ASSUME Init PROVE CountInv
  <1>1. CountedBy({})
    BY FS_EmptySet DEF Init, CountedBy
  <1>2. Separate BY DEF Init, Separate, InFlight
  <1>3. BuffersHoldBytes BY DEF Init, BuffersHoldBytes
  <1> QED BY <1>1, <1>2, <1>3 DEF CountInv

(* A step that counts nothing and gives no worker more to write.               *)
LEMMA CountsKept ==
    ASSUME CopyInv, CountInv,
           transferred' = transferred, nextOffset' = nextOffset, offset' = offset,
           done' = done,
           \A p \in Positions : target[p] = p => target'[p] = p,
           \A w \in Workers : InFlight(w)' => InFlight(w),
           phase' = "new" => phase = "new",
           phase' = "copying" /\ Clean' =>
               phase = "copying" /\ Clean /\ \A w \in Workers : InFlight(w) => InFlight(w)',
           phase' = "ok" =>
               \/ phase = "ok"
               \/ phase = "copying" /\ Clean /\ \A w \in Workers : ~InFlight(w)
    PROVE  (\E C \in SUBSET Positions : CountedBy(C)') /\ Separate'
  <1>1. PICK C \in SUBSET Positions : CountedBy(C) BY DEF CountInv
  <1>2. \A w \in Workers : Left(w)' = Left(w) BY DEF Left, LengthAt
  <1>3. phase' = "ok" => C = Positions
    <2>1. CASE phase = "ok" BY <1>1, <2>1 DEF CountedBy
    <2>2. CASE phase = "copying" /\ Clean /\ \A w \in Workers : ~InFlight(w)
      <3>1. 1 \in Workers BY CopyAssumption DEF Workers
      <3>2. nextOffset = Size BY <2>2, <3>1 DEF CopyInv, Covered
      <3>3. \A p \in Positions : p < nextOffset BY <3>2, CopyAssumption DEF Positions
      <3> QED BY <1>1, <2>2, <3>3 DEF CountedBy
    <2> QED BY <2>1, <2>2
  <1>4. /\ Cardinality(C) = transferred'
        /\ \A p \in C : target'[p] = p /\ p < nextOffset'
        /\ \A w \in Workers : InFlight(w)' => C \cap Left(w)' = {}
        /\ phase' = "new" => C = {}
    BY <1>1, <1>2 DEF CountedBy
  <1>5. ASSUME phase' = "copying", Clean', NEW p \in Positions, p < nextOffset'
        PROVE  p \in C \/ \E w \in Workers : InFlight(w)' /\ p \in Left(w)'
    BY <1>1, <1>2, <1>5 DEF CountedBy
  <1>6. CountedBy(C)' BY <1>3, <1>4, <1>5 DEF CountedBy
  <1>7. Separate' BY DEF CountInv, Separate, LengthAt
  <1> QED BY <1>6, <1>7

LEMMA BeginCounts == ASSUME CopyInv, CopyInv', CountInv, Begin PROVE CountInv'
  <1>1. Shape /\ Alive /\ Shape' /\ Alive' /\ Covered' BY DEF CopyInv
  <1>2. /\ phase = "new" /\ transferred' = transferred /\ buffer' = buffer
        /\ target' = target /\ done' = done
    BY DEF Begin
  <1>3. /\ Size \in Nat /\ ChunkSize \in Nat /\ ChunkSize > 0 /\ Concurrency \in Nat
    BY CopyAssumption
  <1>4. CountedBy({})
    <2>1. PICK C \in SUBSET Positions : CountedBy(C) BY DEF CountInv
    <2>2. C = {} BY <1>2, <2>1 DEF CountedBy
    <2> QED BY <2>1, <2>2
  <1>5. BuffersHoldBytes' BY <1>2 DEF CountInv, BuffersHoldBytes
  <1>6. transferred' = 0 BY <1>2, <1>4, FS_EmptySet DEF CountedBy
  <1>7. \A w \in Workers : ~InFlight(w) BY <1>1, <1>2 DEF Alive
  <1>8. CASE Size = 0 \/ cancelled
    <2>1. phase' = (IF Size = 0 THEN "ok" ELSE "aborted") /\ pc' = pc
      BY <1>8 DEF Begin
    <2>2. \A w \in Workers : ~InFlight(w)' BY <1>7, <2>1 DEF InFlight
    <2>3. Size = 0 => Positions = {} BY DEF Positions
    <2>4. CountedBy({})' BY <1>6, <2>1, <2>2, <2>3, FS_EmptySet DEF CountedBy
    <2>5. Separate' BY <2>2 DEF Separate
    <2> QED BY <1>5, <2>4, <2>5 DEF CountInv
  <1>9. CASE ~(Size = 0 \/ cancelled)
    <2>1. /\ phase' = "copying"
          /\ pc' = [w \in Workers |-> IF FirstOffset(w) < Size THEN "reading" ELSE "gone"]
          /\ offset' = [w \in Workers |-> IF FirstOffset(w) < Size THEN FirstOffset(w) ELSE 0]
          /\ nextOffset' = IF Concurrency * ChunkSize <= Size
                           THEN Concurrency * ChunkSize ELSE Size
      BY <1>9 DEF Begin
    <2>2. \A w \in Workers : InFlight(w)' => FirstOffset(w) < Size /\ offset'[w] = FirstOffset(w)
      BY <2>1 DEF InFlight
    <2>3. \A w \in Workers : done'[w] = 0 BY <1>1, <1>2 DEF Alive
    (* By Covered', every byte claimed is in the hands of a worker, or there already. *)
    <2>4. ASSUME NEW p \in Positions, p < nextOffset'
          PROVE  \E w \in Workers : InFlight(w)' /\ p \in Left(w)'
      <3>1. p \in Nat /\ p < Size BY <1>3 DEF Positions
      <3>2. Concurrency * ChunkSize \in Nat BY <1>3
      <3>3. p < Concurrency * ChunkSize BY <1>3, <2>1, <2>4, <3>1, <3>2
      <3>4. PICK w \in Workers : FirstOffset(w) <= p /\ p < FirstOffset(w) + ChunkSize
        BY <3>1, <3>3, FirstClaims
      <3>5. FirstOffset(w) \in Int BY <1>3 DEF FirstOffset, Workers
      <3>6. FirstOffset(w) < Size BY <1>3, <3>1, <3>4, <3>5
      <3>7. offset'[w] = FirstOffset(w) /\ InFlight(w)' BY <2>1, <3>6 DEF InFlight
      <3>8. p < FirstOffset(w) + LengthAt(FirstOffset(w)) /\ FirstOffset(w) + 0 <= p
        BY <1>3, <3>1, <3>4, <3>5 DEF LengthAt
      <3> QED BY <2>3, <3>7, <3>8 DEF Left, LengthAt
    <2>5. CountedBy({})'
      BY <1>6, <2>1, <2>4, FS_EmptySet DEF CountedBy
    <2>6. ASSUME NEW v \in Workers, NEW w \in Workers, v < w
          PROVE  FirstOffset(v) + ChunkSize <= FirstOffset(w)
      <3>1. v \in Int /\ w \in Int /\ 1 <= w - v BY <1>3, <2>6 DEF Workers
      <3>2. \A k \in Nat : 1 <= k => ChunkSize <= k * ChunkSize BY <1>3
      <3>3. ChunkSize <= (w - v) * ChunkSize BY <3>1, <3>2
      <3>4. (w - 1) * ChunkSize = (v - 1) * ChunkSize + (w - v) * ChunkSize BY <1>3, <3>1
      <3>5. (v - 1) * ChunkSize \in Int /\ (w - v) * ChunkSize \in Int BY <1>3, <3>1
      <3> QED BY <1>3, <3>3, <3>4, <3>5 DEF FirstOffset
    <2>7. \A w \in Workers : FirstOffset(w) \in Int /\ LengthAt(FirstOffset(w)) \in Int
                             /\ LengthAt(FirstOffset(w)) <= ChunkSize
      BY <1>3 DEF FirstOffset, Workers, LengthAt
    <2>8. ASSUME NEW w \in Workers, InFlight(w)'
          PROVE  offset'[w] + LengthAt(offset'[w]) <= nextOffset'
      <3>1. offset'[w] = FirstOffset(w) /\ FirstOffset(w) < Size BY <2>2, <2>8
      <3>2. CASE Concurrency * ChunkSize <= Size
        <4>1. w \in Int /\ 1 <= w /\ w <= Concurrency BY <1>3 DEF Workers
        <4>2. w * ChunkSize <= Concurrency * ChunkSize BY <1>3, <4>1
        <4>3. (w - 1) * ChunkSize = w * ChunkSize - ChunkSize /\ w * ChunkSize \in Int
          BY <1>3, <4>1
        <4> QED BY <1>3, <2>1, <2>7, <3>1, <3>2, <4>2, <4>3 DEF FirstOffset
      <3>3. CASE ~(Concurrency * ChunkSize <= Size)
        <4>1. FirstOffset(w) + LengthAt(FirstOffset(w)) <= Size
          BY <1>3, <2>7 DEF LengthAt
        <4> QED BY <2>1, <3>1, <3>3, <4>1
      <3> QED BY <3>2, <3>3
    <2>9. ASSUME NEW v \in Workers, NEW w \in Workers, v # w, InFlight(v)', InFlight(w)'
          PROVE  \/ offset'[v] + LengthAt(offset'[v]) <= offset'[w]
                 \/ offset'[w] + LengthAt(offset'[w]) <= offset'[v]
      <3>1. v < w \/ w < v BY <1>3, <2>9 DEF Workers
      <3>2. offset'[v] = FirstOffset(v) /\ offset'[w] = FirstOffset(w) BY <2>2, <2>9
      <3> QED BY <1>3, <2>6, <2>7, <3>1, <3>2
    <2>10. Separate'
      <3>1. \A w \in Workers : LengthAt(offset[w])' = LengthAt(offset'[w]) BY DEF LengthAt
      <3> QED BY <2>8, <2>9, <3>1 DEF Separate
    <2> QED BY <1>5, <2>5, <2>10 DEF CountInv
  <1> QED BY <1>8, <1>9

(* A write is answered: what landed was in w's hands alone, and is counted.    *)
LEMMA WriteAnswersCounts ==
    ASSUME CopyInv, CopyInv', CountInv, NEW w \in Workers, WriteAnswers(w)
    PROVE  CountInv'
  <1>1. Shape /\ Alive /\ ByteFaithful /\ ChunkOf(w) /\ Shape' BY DEF CopyInv
  <1>2. /\ pc[w] = "writing" /\ target' = Landed(w) /\ transferred' = transferred + got[w]
        /\ UNCHANGED <<phase, firstError, cancelled, got, buffer, late>>
    BY DEF WriteAnswers
  <1>3. phase = "copying" BY <1>1, <1>2 DEF Alive, InFlight
  <1>4. /\ Size \in Nat /\ ChunkSize \in Nat /\ ChunkSize > 0
        /\ nextOffset \in Nat /\ nextOffset <= Size
        /\ offset[w] \in Nat /\ done[w] \in Nat /\ got[w] \in Nat
    BY <1>1, CopyAssumption DEF Shape
  <1>5. /\ \A p \in Positions : target[p] = p => target'[p] = p
        /\ \A p \in Positions :
             offset[w] + done[w] <= p /\ p < offset[w] + done[w] + got[w] => target'[p] = p
    BY <1>1, <1>2, LandedIsRight
  <1>6. /\ got[w] <= LengthAt(offset[w]) - done[w]
        /\ LengthAt(offset[w]) \in Int /\ offset[w] + LengthAt(offset[w]) <= Size
        /\ LengthAt(nextOffset) \in Int /\ nextOffset + LengthAt(nextOffset) <= Size
        /\ nextOffset < Size => 0 < LengthAt(nextOffset)
    BY <1>1, <1>2, <1>4 DEF ChunkOf, LengthAt
  <1>7. Separate /\ BuffersHoldBytes /\ \E C \in SUBSET Positions : CountedBy(C) BY DEF CountInv
  <1>8. InFlight(w) /\ offset[w] + LengthAt(offset[w]) <= nextOffset
    BY <1>2, <1>7 DEF InFlight, Separate
  <1>9. PICK C \in SUBSET Positions : CountedBy(C) BY <1>7
  <1>landed. PICK D \in SUBSET Positions :
           D = {p \in Positions : offset[w] + done[w] <= p /\ p < offset[w] + done[w] + got[w]}
    OBVIOUS
  <1>counted. PICK E \in SUBSET Positions : E = C \cup D OBVIOUS
  <1>10. D \subseteq Left(w)
    <2> SUFFICES ASSUME NEW p \in D PROVE p \in Left(w) OBVIOUS
    <2>1. p \in Int BY <1>4, <1>landed DEF Positions
    <2> QED BY <1>4, <1>6, <1>landed, <2>1 DEF Left
  <1>11. C \cap D = {} BY <1>8, <1>9, <1>10 DEF CountedBy
  <1>12. E \in SUBSET Positions /\ Cardinality(E) = transferred'
    <2>1. PICK a \in Nat : a = offset[w] + done[w] BY <1>4
    <2>2. PICK n \in Nat : n = got[w] BY <1>4
    <2>3. a + n <= Size BY <1>4, <1>6, <2>1, <2>2
    <2>4. \A p \in Positions : p \in D <=> a <= p /\ p < a + n BY <1>landed, <2>1, <2>2
    <2>5. C \cup D \in SUBSET Positions /\ Cardinality(C \cup D) = Cardinality(C) + n
      BY <1>11, <2>3, <2>4, StretchCounts, ZenonT(60)
    <2> QED BY <1>2, <1>9, <1>counted, <2>2, <2>5 DEF CountedBy
  <1>13. \A p \in E : target'[p] = p /\ p < nextOffset
    <2>1. \A p \in C : p \in Positions /\ target'[p] = p /\ p < nextOffset
      BY <1>5, <1>9 DEF CountedBy
    <2>2. ASSUME NEW p \in D PROVE target'[p] = p /\ p < nextOffset
      <3>1. p \in Int BY <1>4, <1>landed DEF Positions
      <3> QED BY <1>4, <1>5, <1>6, <1>8, <1>landed, <3>1
    <2> QED BY <1>counted, <2>1, <2>2
  <1>14. BuffersHoldBytes' BY <1>2, <1>7 DEF BuffersHoldBytes
  <1>15. \A v \in Workers : offset[v] \in Nat /\ LengthAt(offset[v]) \in Int /\ done[v] \in Nat
    BY <1>1, <1>4 DEF Shape, LengthAt
  (* The others' chunks are disjoint from w's. *)
  <1>16. ASSUME NEW v \in Workers, v # w, InFlight(v) PROVE E \cap Left(v) = {}
    <2>1. C \cap Left(v) = {} BY <1>9, <1>16 DEF CountedBy
    <2>2. ASSUME NEW p \in D, p \in Left(v) PROVE FALSE
      <3>1. p \in Int /\ p \in Left(w) BY <1>4, <1>10, <2>2 DEF Positions
      <3>2. \/ offset[v] + LengthAt(offset[v]) <= offset[w]
            \/ offset[w] + LengthAt(offset[w]) <= offset[v]
        BY <1>7, <1>8, <1>16 DEF Separate
      <3> QED BY <1>4, <1>6, <1>15, <1>landed, <2>2, <3>1, <3>2 DEF Left
    <2> QED BY <1>counted, <2>1, <2>2
  <1>17. ASSUME \A v \in Workers \ {w} :
                   pc'[v] = pc[v] /\ offset'[v] = offset[v] /\ done'[v] = done[v]
         PROVE  \A v \in Workers \ {w} :
                   /\ InFlight(v)' <=> InFlight(v)
                   /\ Left(v)' = Left(v) /\ LengthAt(offset[v])' = LengthAt(offset[v])
    BY <1>17 DEF InFlight, Left, LengthAt
  <1>18. CASE done[w] + got[w] < LengthAt(offset[w])
    <2>1. /\ pc' = [pc EXCEPT ![w] = "reading"] /\ done' = [done EXCEPT ![w] = @ + got[w]]
          /\ offset' = offset /\ nextOffset' = nextOffset
      BY <1>18 DEF WriteAnswers
    <2>2. /\ pc'[w] = "reading" /\ done'[w] = done[w] + got[w]
          /\ \A v \in Workers \ {w} : pc'[v] = pc[v] /\ done'[v] = done[v]
      BY <1>1, <2>1 DEF Shape
    <2>3. \A v \in Workers \ {w} : (InFlight(v)' <=> InFlight(v)) /\ Left(v)' = Left(v)
      BY <1>17, <2>1, <2>2
    <2>4. InFlight(w)' BY <2>2 DEF InFlight
    <2>5. Left(w)' = Left(w) \ D
      <3>1. \A p \in Positions : p \in Int BY <1>4 DEF Positions
      <3> QED BY <1>4, <1>6, <1>landed, <2>1, <2>2, <3>1 DEF Left, LengthAt
    <2>6. E \cap Left(w)' = {} BY <1>8, <1>9, <1>counted, <2>5 DEF CountedBy
    <2>7. ASSUME Clean', NEW p \in Positions, p < nextOffset'
          PROVE  p \in E \/ \E v \in Workers : InFlight(v)' /\ p \in Left(v)'
      <3>1. Clean BY <1>2, <2>7 DEF Clean
      <3>2. p \in C \/ \E v \in Workers : InFlight(v) /\ p \in Left(v)
        BY <1>3, <1>9, <2>1, <2>7, <3>1 DEF CountedBy
      <3>3. CASE p \in C BY <1>counted, <3>3
      <3>4. CASE \E v \in Workers : InFlight(v) /\ p \in Left(v)
        BY <1>counted, <2>3, <2>4, <2>5, <3>4
      <3> QED BY <3>2, <3>3, <3>4
    <2>8. \A v \in Workers : InFlight(v)' => E \cap Left(v)' = {}
      BY <1>16, <2>3, <2>6
    <2>9. CountedBy(E)'
      BY <1>2, <1>3, <1>12, <1>13, <2>1, <2>7, <2>8 DEF CountedBy
    <2>10. \A v \in Workers : LengthAt(offset[v])' = LengthAt(offset[v]) /\ (InFlight(v)' => InFlight(v))
      BY <1>8, <2>1, <2>3 DEF LengthAt
    <2>11. Separate' BY <1>7, <2>1, <2>10 DEF Separate
    <2> QED BY <1>12, <1>14, <2>9, <2>11 DEF CountInv
  <1>19. CASE ~(done[w] + got[w] < LengthAt(offset[w]))
    <2>1. Claim(w) BY <1>19 DEF WriteAnswers
    <2>2. Left(w) = D
      <3>1. \A p \in Positions : p \in Int BY <1>4 DEF Positions
      <3>2. done[w] + got[w] = LengthAt(offset[w]) BY <1>4, <1>6, <1>19
      <3>3. offset[w] + LengthAt(offset[w]) = offset[w] + done[w] + got[w] BY <1>4, <1>6, <3>2
      <3> QED BY <1>landed, <3>3 DEF Left
    <2>3. ASSUME Clean', NEW p \in Positions, p < nextOffset
          PROVE  p \in E \/ \E v \in Workers \ {w} : InFlight(v) /\ p \in Left(v)
      <3>1. Clean BY <1>2, <2>3 DEF Clean
      <3>2. p \in C \/ \E v \in Workers : InFlight(v) /\ p \in Left(v)
        BY <1>3, <1>9, <2>3, <3>1 DEF CountedBy
      <3> QED BY <1>counted, <2>2, <3>2
    <2>4. CASE firstError # "none" \/ nextOffset >= Size
      <3>1. pc' = [pc EXCEPT ![w] = "gone"] /\ UNCHANGED <<offset, done, nextOffset>>
        BY <2>1, <2>4 DEF Claim
      <3>2. pc'[w] = "gone" /\ \A v \in Workers \ {w} : pc'[v] = pc[v]
        BY <1>1, <3>1 DEF Shape
      <3>3. \A v \in Workers \ {w} : (InFlight(v)' <=> InFlight(v)) /\ Left(v)' = Left(v)
        BY <1>17, <3>1, <3>2
      <3>4. ~InFlight(w)' BY <3>2 DEF InFlight
      <3>5. ASSUME Clean', NEW p \in Positions, p < nextOffset'
            PROVE  p \in E \/ \E v \in Workers : InFlight(v)' /\ p \in Left(v)'
        BY <2>3, <3>1, <3>3, <3>5
      <3>6. \A v \in Workers : InFlight(v)' => E \cap Left(v)' = {}
        BY <1>16, <3>3, <3>4
      <3>7. CountedBy(E)'
        BY <1>2, <1>3, <1>12, <1>13, <3>1, <3>5, <3>6 DEF CountedBy
      <3>8. \A v \in Workers : LengthAt(offset[v])' = LengthAt(offset[v]) /\ (InFlight(v)' => InFlight(v))
        BY <3>1, <3>3, <3>4 DEF LengthAt
      <3>9. Separate' BY <1>7, <3>1, <3>8 DEF Separate
      <3> QED BY <1>12, <1>14, <3>7, <3>9 DEF CountInv
    <2>5. CASE ~(firstError # "none" \/ nextOffset >= Size)
      <3>1. /\ pc' = [pc EXCEPT ![w] = "reading"]
            /\ offset' = [offset EXCEPT ![w] = nextOffset]
            /\ done' = [done EXCEPT ![w] = 0]
            /\ nextOffset' = nextOffset + LengthAt(nextOffset)
        BY <2>1, <2>5 DEF Claim
      <3>2. /\ pc'[w] = "reading" /\ offset'[w] = nextOffset /\ done'[w] = 0
            /\ \A v \in Workers \ {w} :
                 pc'[v] = pc[v] /\ offset'[v] = offset[v] /\ done'[v] = done[v]
        BY <1>1, <3>1 DEF Shape
      <3>3. \A v \in Workers \ {w} :
              /\ InFlight(v)' <=> InFlight(v)
              /\ Left(v)' = Left(v) /\ LengthAt(offset[v])' = LengthAt(offset[v])
        BY <1>17, <3>2
      <3>4. InFlight(w)' BY <3>2 DEF InFlight
      <3>5. Left(w)' = {p \in Positions : nextOffset <= p /\ p < nextOffset'}
        <4>1. LengthAt(offset[w])' = LengthAt(nextOffset) BY <3>2 DEF LengthAt
        <4>2. nextOffset + 0 = nextOffset BY <1>4
        <4> QED BY <3>1, <3>2, <4>1, <4>2 DEF Left
      <3>6. nextOffset < nextOffset' /\ nextOffset' \in Int BY <1>4, <1>6, <2>5, <3>1
      <3>7. E \cap Left(w)' = {}
        <4>1. \A p \in Positions : p \in Int BY <1>4 DEF Positions
        <4>2. \A p \in E : p < nextOffset /\ p \in Positions BY <1>12, <1>13
        <4> QED BY <1>4, <3>5, <4>1, <4>2
      <3>8. ASSUME Clean', NEW p \in Positions, p < nextOffset'
            PROVE  p \in E \/ \E v \in Workers : InFlight(v)' /\ p \in Left(v)'
        <4>1. p \in Int BY <1>4 DEF Positions
        <4>2. CASE p < nextOffset BY <2>3, <3>3, <3>8, <4>2
        <4>3. CASE nextOffset <= p BY <3>4, <3>5, <3>8, <4>3
        <4> QED BY <1>4, <4>1, <4>2, <4>3
      <3>9. \A v \in Workers : InFlight(v)' => E \cap Left(v)' = {}
        BY <1>16, <3>3, <3>7
      <3>10. \A p \in E : target'[p] = p /\ p < nextOffset'
        <4>1. \A p \in E : p \in Int BY <1>4, <1>12 DEF Positions
        <4> QED BY <1>4, <1>13, <3>6, <4>1
      <3>11. CountedBy(E)'
        BY <1>2, <1>3, <1>12, <3>8, <3>9, <3>10 DEF CountedBy
      <3>12. \A v \in Workers \ {w} : InFlight(v) =>
               /\ offset[v] + LengthAt(offset[v]) <= nextOffset'
               /\ offset[v] + LengthAt(offset[v]) <= nextOffset
        BY <1>4, <1>7, <1>15, <3>6 DEF Separate
      <3>13. LengthAt(offset[w])' = LengthAt(nextOffset) BY <3>2 DEF LengthAt
      <3>14. Separate'
        <4>1. \A v \in Workers : InFlight(v)' =>
                 offset'[v] + LengthAt(offset[v])' <= nextOffset'
          BY <1>4, <1>6, <3>1, <3>2, <3>3, <3>12, <3>13
        <4>2. ASSUME NEW u \in Workers, NEW v \in Workers, u # v, InFlight(u)', InFlight(v)'
              PROVE  \/ offset'[u] + LengthAt(offset[u])' <= offset'[v]
                     \/ offset'[v] + LengthAt(offset[v])' <= offset'[u]
          <5>1. CASE u = w BY <3>2, <3>3, <3>12, <4>2, <5>1
          <5>2. CASE v = w BY <3>2, <3>3, <3>12, <4>2, <5>2
          <5>3. CASE u # w /\ v # w BY <1>7, <3>2, <3>3, <4>2, <5>3 DEF Separate
          <5> QED BY <5>1, <5>2, <5>3
        <4> QED BY <4>1, <4>2 DEF Separate
      <3> QED BY <1>12, <1>14, <3>11, <3>14 DEF CountInv
    <2> QED BY <2>4, <2>5
  <1> QED BY <1>18, <1>19

(* What a read brings is bytes of the file.                                    *)
LEMMA FilledWithBytes ==
    ASSUME Shape, BuffersHoldBytes, NEW w \in Workers, NEW n \in 1..ChunkSize,
           n <= LengthAt(offset[w]) - done[w], buffer' = Filled(w, n)
    PROVE  BuffersHoldBytes'
  <1>1. /\ Size \in Nat /\ ChunkSize \in Nat /\ offset[w] \in Nat /\ done[w] \in Nat
    BY CopyAssumption DEF Shape
  <1>2. ASSUME NEW i \in BufferIndexes, i < n
        PROVE  offset[w] + done[w] + i \in Positions
    <2>1. i \in Int /\ 0 <= i BY <1>1 DEF BufferIndexes
    <2>2. n <= Size - offset[w] - done[w] BY <1>1 DEF LengthAt
    <2> QED BY <1>1, <1>2, <2>1, <2>2 DEF Positions
  <1>3. ASSUME NEW i \in BufferIndexes
        PROVE  Filled(w, n)[w][i] \in Positions \cup {Blank}
    <2>1. Filled(w, n)[w] = [j \in BufferIndexes |->
             IF j < n THEN offset[w] + done[w] + j ELSE buffer[w][j]]
      BY DEF Filled, Shape
    <2>2. Filled(w, n)[w][i] = IF i < n THEN offset[w] + done[w] + i ELSE buffer[w][i]
      BY <2>1
    <2> QED BY <1>2, <2>2 DEF BuffersHoldBytes
  <1>4. \A v \in Workers \ {w} : Filled(w, n)[v] = buffer[v] BY FilledIsRight
  <1> QED BY <1>3, <1>4 DEF BuffersHoldBytes

LEMMA WorkerCounts ==
    ASSUME CopyInv, CopyInv', CountInv, NEW w \in Workers, WorkerStep(w)
    PROVE  CountInv'
  <1>1. Shape /\ Alive /\ ByteFaithful /\ ChunkOf(w) BY DEF CopyInv
  <1>2. BuffersHoldBytes BY DEF CountInv
  <1>3. ASSUME NEW n \in 1..ChunkSize, ReadAnswers(w, n) PROVE CountInv'
    <2>1. /\ pc[w] = "reading" /\ n <= LengthAt(offset[w]) - done[w]
          /\ buffer' = Filled(w, n) /\ pc' = [pc EXCEPT ![w] = "writing"]
          /\ UNCHANGED <<phase, nextOffset, transferred, firstError, cancelled, offset,
                         done, late, target>>
      BY <1>3 DEF ReadAnswers
    <2>2. \A v \in Workers : InFlight(v)' <=> InFlight(v) BY <1>1, <2>1 DEF InFlight, Shape
    <2>3. BuffersHoldBytes' BY <1>1, <1>2, <2>1, FilledWithBytes
    <2>4. Clean' <=> Clean BY <2>1 DEF Clean
    <2> QED BY <2>1, <2>2, <2>3, <2>4, CountsKept DEF CountInv
  <1>4. ASSUME NEW n \in 1..ChunkSize, LateRead(w, n) PROVE CountInv'
    <2>1. /\ n <= LengthAt(offset[w]) - done[w] /\ buffer' = Filled(w, n)
          /\ UNCHANGED <<phase, nextOffset, transferred, firstError, cancelled, pc, offset,
                         done, target>>
      BY <1>4 DEF LateRead
    <2>2. \A v \in Workers : InFlight(v)' <=> InFlight(v) BY <2>1 DEF InFlight
    <2>3. BuffersHoldBytes' BY <1>1, <1>2, <2>1, FilledWithBytes
    <2>4. Clean' <=> Clean BY <2>1 DEF Clean
    <2> QED BY <2>1, <2>2, <2>3, <2>4, CountsKept DEF CountInv
  <1>5. CASE WriteAnswers(w) BY <1>5, WriteAnswersCounts
  <1>6. CASE RequestFails(w)
    <2>1. /\ InFlight(w) /\ firstError' = IF firstError = "none" THEN "io" ELSE firstError
          /\ pc' = [pc EXCEPT ![w] = "gone"]
          /\ UNCHANGED <<phase, nextOffset, transferred, cancelled, offset, done, buffer>>
      BY <1>6 DEF RequestFails
    <2>2. target' = target \/ (target' = Landed(w) /\ pc[w] = "writing")
      BY <1>6 DEF RequestFails
    <2>3. \A p \in Positions : target[p] = p => target'[p] = p
      BY <1>1, <2>2, LandedIsRight
    <2>4. \A v \in Workers : InFlight(v)' => InFlight(v) BY <1>1, <2>1 DEF InFlight, Shape
    <2>5. ~Clean' BY <1>1, <2>1 DEF Clean
    <2>6. phase = "copying" BY <1>1, <2>1 DEF Alive
    <2>7. BuffersHoldBytes' BY <1>2, <2>1 DEF BuffersHoldBytes
    <2> QED BY <2>1, <2>3, <2>4, <2>5, <2>6, <2>7, CountsKept DEF CountInv
  <1>7. CASE LateWrite(w)
    <2>1. /\ late[w] = "writing" /\ target' = Landed(w)
          /\ UNCHANGED <<phase, nextOffset, transferred, firstError, cancelled, pc, offset,
                         done, buffer>>
      BY <1>7 DEF LateWrite
    <2>2. \A p \in Positions : target[p] = p => target'[p] = p
      BY <1>1, <2>1, LandedIsRight
    <2>3. \A v \in Workers : InFlight(v)' <=> InFlight(v) BY <2>1 DEF InFlight
    <2>4. BuffersHoldBytes' BY <1>2, <2>1 DEF BuffersHoldBytes
    <2>5. Clean' <=> Clean BY <2>1 DEF Clean
    <2> QED BY <2>1, <2>2, <2>3, <2>4, <2>5, CountsKept DEF CountInv
  <1> QED BY <1>3, <1>4, <1>5, <1>6, <1>7 DEF WorkerStep

LEMMA NextCounts == ASSUME CopyInv, CopyInv', CountInv, [Next]_vars PROVE CountInv'
  <1>1. Shape /\ Alive BY DEF CopyInv
  <1>2. CASE Begin BY <1>2, BeginCounts
  <1>3. CASE Cancel
    <2>1. /\ phase' = phase /\ cancelled' = TRUE /\ pc' = [w \in Workers |-> "gone"]
          /\ UNCHANGED <<nextOffset, transferred, offset, done, buffer, target>>
          /\ phase \in {"new", "copying"}
      BY <1>3 DEF Cancel
    <2>2. \A v \in Workers : ~InFlight(v)' BY <2>1 DEF InFlight
    <2>3. BuffersHoldBytes' BY <2>1 DEF CountInv, BuffersHoldBytes
    <2>4. ~Clean' BY <2>1 DEF Clean
    <2> QED BY <2>1, <2>2, <2>3, <2>4, CountsKept DEF CountInv
  <1>4. CASE Settle
    <2>1. /\ phase = "copying" /\ \A w \in Workers : ~InFlight(w)
          /\ phase' = IF firstError = "io" THEN "failed"
                      ELSE IF firstError = "aborted" \/ cancelled THEN "aborted" ELSE "ok"
          /\ UNCHANGED <<nextOffset, transferred, pc, offset, done, buffer, target>>
      BY <1>4 DEF Settle, AllBack
    <2>2. \A v \in Workers : InFlight(v)' <=> InFlight(v) BY <2>1 DEF InFlight
    <2>3. BuffersHoldBytes' BY <2>1 DEF CountInv, BuffersHoldBytes
    <2>4. phase' = "ok" => Clean BY <1>1, <2>1 DEF Clean, Shape
    <2> QED BY <2>1, <2>2, <2>3, <2>4, CountsKept DEF CountInv
  <1>5. CASE \E w \in Workers : WorkerStep(w) BY <1>5, WorkerCounts
  <1>6. CASE UNCHANGED vars
    <2>1. UNCHANGED <<phase, nextOffset, transferred, firstError, cancelled, pc, offset,
                      done, buffer, target>>
      BY <1>6 DEF vars
    <2>2. \A v \in Workers : InFlight(v)' <=> InFlight(v) BY <2>1 DEF InFlight
    <2>3. BuffersHoldBytes' BY <2>1 DEF CountInv, BuffersHoldBytes
    <2>4. Clean' <=> Clean BY <2>1 DEF Clean
    <2> QED BY <2>1, <2>2, <2>3, <2>4, CountsKept DEF CountInv
  <1> QED BY <1>2, <1>3, <1>4, <1>5, <1>6 DEF Next

THEOREM CountInvariant == Spec => []CountInv
  <1>1. Init => CountInv BY InitCounts
  <1>2. CopyInv /\ CopyInv' /\ CountInv /\ [Next]_vars => CountInv' BY NextCounts
  <1> QED BY <1>1, <1>2, CopyInvariant, PTL DEF Spec

(* Every variable keeps its type; the progress bar never runs ahead of the      *)
(* bytes written and ends at the size of the file (parallelTransfer.ts:97);    *)
(* and a copy that settled without being cancelled has nothing under way, so   *)
(* it may be redone as a plain stream.                                         *)
THEOREM ProgressIsHonest == Spec => []ProgressIsTrue
  <1>1. CopyInv /\ CountInv => ProgressIsTrue
    <2> SUFFICES ASSUME CopyInv, CountInv PROVE ProgressIsTrue OBVIOUS
    <2>1. Shape /\ Alive /\ ByteFaithful BY DEF CopyInv
    <2>2. PICK C \in SUBSET Positions : CountedBy(C) BY DEF CountInv
    <2>3. transferred \in 0..Size BY <2>2, PositionsFinite DEF CountedBy
    <2>4. TypeOK
      <3>1. target \in [Positions -> Positions \cup {Blank}] BY <2>1 DEF Shape, ByteFaithful
      <3>2. buffer \in [Workers -> [BufferIndexes -> Positions \cup {Blank}]]
        BY <2>1 DEF CountInv, BuffersHoldBytes, Shape
      <3> QED BY <2>1, <2>3, <3>1, <3>2 DEF TypeOK, Shape
    <2>5. ProgressIsReal
      <3> DEFINE W == {p \in Positions : target[p] # Blank}
      <3>1. IsFiniteSet(W) /\ Cardinality(W) \in 0..Size BY PositionsFinite
      <3>2. C \in SUBSET W
        <4>1. \A p \in Positions : p # Blank BY CopyAssumption DEF Positions, Blank
        <4> QED BY <2>2, <4>1 DEF CountedBy
      <3>3. Cardinality(C) <= Cardinality(W) BY <3>1, <3>2, FS_Subset
      <3>4. phase = "ok" => transferred = Size BY <2>2, PositionsFinite DEF CountedBy
      <3> QED BY <2>2, <3>3, <3>4 DEF ProgressIsReal, CountedBy
    <2>6. SettledIsQuiet
      BY <2>1 DEF SettledIsQuiet, Alive, InFlight, Shape
    <2> QED BY <2>4, <2>5, <2>6 DEF ProgressIsTrue
  <1> QED BY <1>1, CopyInvariant, CountInvariant, PTL
===============================================================================
