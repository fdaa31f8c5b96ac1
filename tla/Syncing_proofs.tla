--------------------------- MODULE Syncing_proofs ---------------------------
(* A sync and what it compares with, for any trees no deeper than three, any       *)
(* options, files, hashers and width: the limiter as the semaphore it is, the      *)
(* content hashes and the walk, each with its inductive invariant, and then the    *)
(* properties of Syncing.                                                           *)
EXTENDS Syncing, FiniteSetTheorems, SequenceTheorems, TLAPS

-------------------------------------------------------------------------------
(* The limiter. *)

Held == {"acquired", "running"}

(* The counter counts the calls let through, the queue is empty unless that is     *)
(* all there may be, and a call stands in one of the two where its promise says.   *)
SlotsInv ==
  /\ Slots!TypeOK
  /\ active = Len(granted) /\ (waiting # <<>> => active = Slots!width)
  /\ \A i, j \in DOMAIN granted : granted[i] = granted[j] => i = j
  /\ \A i, j \in DOMAIN waiting : waiting[i] = waiting[j] => i = j
  /\ \A c \in Calls : /\ call[c] \in Held <=> \E i \in DOMAIN granted : granted[i] = c
                      /\ call[c] = "waiting" <=> \E i \in DOMAIN waiting : waiting[i] = c

LEMMA WidthIsPositive == Slots!width \in Nat \ {0}
  BY SyncingAssumption DEF Slots!LimiterAssumption, Slots!width

Cut(s, n) == SubSeq(s, 1, n - 1) \o SubSeq(s, n + 1, Len(s))

LEMMA CutIsRemoveAt ==
    ASSUME NEW s, NEW n
    PROVE  Slots!RemoveAt(s, n) = Cut(s, n) /\ Slots!Abstract!RemoveAt(s, n) = Cut(s, n)
  BY DEF Slots!RemoveAt, Slots!Abstract!RemoveAt, Cut

LEMMA SubSeqFacts ==
    ASSUME NEW S, NEW s \in Seq(S), NEW m \in 1..(Len(s) + 1), NEW n \in (m - 1)..Len(s)
    PROVE  /\ SubSeq(s, m, n) \in Seq(S)
           /\ Len(SubSeq(s, m, n)) = n - m + 1
           /\ \A i \in 1..(n - m + 1) : SubSeq(s, m, n)[i] = s[m + i - 1]
  OBVIOUS

LEMMA ConcatFacts ==
    ASSUME NEW S, NEW s \in Seq(S), NEW r \in Seq(S)
    PROVE  /\ s \o r \in Seq(S)
           /\ Len(s \o r) = Len(s) + Len(r)
           /\ \A i \in 1..Len(s) : (s \o r)[i] = s[i]
           /\ \A i \in (Len(s) + 1)..(Len(s) + Len(r)) : (s \o r)[i] = r[i - Len(s)]
  OBVIOUS

(* What is left of a sequence without its element n.                               *)
LEMMA CutFacts ==
    ASSUME NEW S, NEW s \in Seq(S), NEW n \in 1..Len(s)
    PROVE  /\ Cut(s, n) \in Seq(S) /\ Len(Cut(s, n)) = Len(s) - 1
           /\ \A k \in 1..(Len(s) - 1) : Cut(s, n)[k] = IF k < n THEN s[k] ELSE s[k + 1]
  <1> DEFINE a == SubSeq(s, 1, n - 1)
             b == SubSeq(s, n + 1, Len(s))
  <1>0. Len(s) \in Nat BY LenProperties
  <1>1. /\ a \in Seq(S) /\ Len(a) = n - 1 /\ \A k \in 1..(n - 1) : a[k] = s[k]
        /\ b \in Seq(S) /\ Len(b) = Len(s) - n /\ \A k \in 1..(Len(s) - n) : b[k] = s[n + k]
    <2>1. 1 \in 1..(Len(s) + 1) /\ n - 1 \in (1 - 1)..Len(s) BY <1>0
    <2>2. /\ a \in Seq(S) /\ Len(a) = (n - 1) - 1 + 1
          /\ \A k \in 1..((n - 1) - 1 + 1) : a[k] = s[1 + k - 1]
      BY <2>1, SubSeqFacts
    <2>3. n + 1 \in 1..(Len(s) + 1) /\ Len(s) \in ((n + 1) - 1)..Len(s) BY <1>0
    <2>4. /\ b \in Seq(S) /\ Len(b) = Len(s) - (n + 1) + 1
          /\ \A k \in 1..(Len(s) - (n + 1) + 1) : b[k] = s[(n + 1) + k - 1]
      BY <2>3, SubSeqFacts
    <2> HIDE DEF a, b
    <2>5. \A k \in 1..(n - 1) : k \in 1..((n - 1) - 1 + 1) /\ 1 + k - 1 = k BY <1>0
    <2>6. \A k \in 1..(Len(s) - n) : k \in 1..(Len(s) - (n + 1) + 1) /\ (n + 1) + k - 1 = n + k BY <1>0
    <2>7. Len(a) = n - 1 /\ Len(b) = Len(s) - n BY <1>0, <2>2, <2>4
    <2> QED BY <2>2, <2>4, <2>5, <2>6, <2>7
  <1> HIDE DEF a, b
  <1>3. /\ a \o b \in Seq(S) /\ Len(a \o b) = Len(a) + Len(b)
        /\ \A k \in 1..Len(a) : (a \o b)[k] = a[k]
        /\ \A k \in (Len(a) + 1)..(Len(a) + Len(b)) : (a \o b)[k] = b[k - Len(a)]
    BY <1>1, ConcatFacts, ZenonT(60)
  <1>4. Cut(s, n) = a \o b BY DEF Cut, a, b
  <1>5. PICK t : t = a \o b OBVIOUS
  <1>9. t \in Seq(S) /\ Len(t) = Len(a) + Len(b) BY <1>3, <1>5
  <1>10. Len(a) = n - 1 /\ Len(b) = Len(s) - n BY <1>1
  <1>6. t \in Seq(S) /\ Len(t) = Len(s) - 1 BY <1>0, <1>9, <1>10
  <1>7. ASSUME NEW k \in 1..(Len(s) - 1) PROVE t[k] = IF k < n THEN s[k] ELSE s[k + 1]
    <2>1. CASE k < n
      <3>1. k \in 1..Len(a) /\ k \in 1..(n - 1) BY <1>0, <1>1, <2>1
      <3>2. t[k] = a[k] BY <1>3, <1>5, <3>1
      <3>3. a[k] = s[k] BY <1>1, <3>1
      <3> QED BY <2>1, <3>2, <3>3
    <2>2. CASE k >= n
      <3>1. k \in (Len(a) + 1)..(Len(a) + Len(b)) BY <1>0, <1>1, <2>2
      <3>2. t[k] = b[k - Len(a)] BY <1>3, <1>5, <3>1
      <3>3. k - Len(a) \in 1..(Len(s) - n) /\ n + (k - Len(a)) = k + 1 BY <1>0, <1>1, <2>2
      <3>4. b[k - Len(a)] = s[n + (k - Len(a))] BY <1>1, <3>3
      <3> QED BY <1>0, <2>2, <3>2, <3>3, <3>4
    <2> QED BY <1>0, <2>1, <2>2
  <1> QED BY <1>4, <1>5, <1>6, <1>7

LEMMA CutOut ==
    ASSUME NEW S, NEW s \in Seq(S), NEW n \in 1..Len(s), NEW t, t = Cut(s, n),
           \A i, j \in DOMAIN s : s[i] = s[j] => i = j
    PROVE  /\ \A i, j \in DOMAIN t : t[i] = t[j] => i = j
           /\ \A c : (\E i \in DOMAIN t : t[i] = c) <=> (c # s[n] /\ \E i \in DOMAIN s : s[i] = c)
  <1>1. /\ t \in Seq(S) /\ Len(t) = Len(s) - 1
        /\ \A k \in 1..(Len(s) - 1) : t[k] = IF k < n THEN s[k] ELSE s[k + 1]
    BY CutFacts
  <1>2. /\ DOMAIN t = 1..(Len(s) - 1) /\ DOMAIN s = 1..Len(s) /\ Len(s) \in Nat
    BY <1>1, LenProperties
  <1> DEFINE at(k) == IF k < n THEN k ELSE k + 1
  <1>6. \A k \in DOMAIN t : at(k) \in DOMAIN s /\ t[k] = s[at(k)] BY <1>1, <1>2
  <1>7. \A k, m \in DOMAIN t : at(k) = at(m) => k = m BY <1>2
  <1>3. ASSUME NEW i \in DOMAIN t, NEW j \in DOMAIN t, t[i] = t[j] PROVE i = j
    <2>1. s[at(i)] = s[at(j)] /\ at(i) \in DOMAIN s /\ at(j) \in DOMAIN s BY <1>3, <1>6
    <2> HIDE DEF at
    <2>2. at(i) = at(j) BY <2>1
    <2> QED BY <1>7, <2>2
  <1>4. ASSUME NEW i \in DOMAIN t PROVE t[i] # s[n] /\ \E k \in DOMAIN s : s[k] = t[i]
    <2>1. CASE i < n BY <1>1, <1>2, <2>1
    <2>2. CASE i >= n BY <1>1, <1>2, <2>2
    <2> QED BY <1>2, <2>1, <2>2
  <1>5. ASSUME NEW k \in DOMAIN s, k # n PROVE \E i \in DOMAIN t : t[i] = s[k]
    <2>1. CASE k < n
      <3>1. k \in DOMAIN t /\ t[k] = s[k] BY <1>1, <1>2, <2>1
      <3> QED BY <3>1
    <2>2. CASE k > n
      <3>1. k - 1 \in DOMAIN t /\ t[k - 1] = s[(k - 1) + 1] BY <1>1, <1>2, <2>2
      <3>2. (k - 1) + 1 = k BY <1>2
      <3> QED BY <3>1, <3>2
    <2> QED BY <1>2, <1>5, <2>1, <2>2
  <1>8. n \in DOMAIN s BY <1>2
  <1> HIDE DEF at
  <1>9. ASSUME NEW c
        PROVE  (\E i \in DOMAIN t : t[i] = c) <=> (c # s[n] /\ \E i \in DOMAIN s : s[i] = c)
    BY <1>4, <1>5
  <1> QED BY <1>3, <1>9

(* A call that is let through is taken out of those at its one place.              *)
LEMMA WithoutIsCut ==
    ASSUME NEW s \in Seq(Calls), NEW c, \E i \in DOMAIN s : s[i] = c
    PROVE  \E n \in 1..Len(s) : s[n] = c /\ Slots!Without(s, c) = Cut(s, n)
  <1> DEFINE n == CHOOSE i \in DOMAIN s : s[i] = c
  <1>1. n \in DOMAIN s /\ s[n] = c OBVIOUS
  <1>2. DOMAIN s = 1..Len(s) BY LenProperties
  <1>3. Slots!Without(s, c) = Cut(s, n) BY CutIsRemoveAt DEF Slots!Without
  <1> QED BY <1>1, <1>2, <1>3

LEMMA PutLast ==
    ASSUME NEW s \in Seq(Calls), NEW c \in Calls, NEW t, t = Append(s, c)
    PROVE  /\ t \in Seq(Calls) /\ Len(t) = Len(s) + 1 /\ t # <<>>
           /\ t[Len(s) + 1] = c /\ \A i \in 1..Len(s) : t[i] = s[i]
           /\ DOMAIN t = 1..(Len(s) + 1) /\ DOMAIN s = 1..Len(s) /\ Len(s) \in Nat
           /\ \A d : (\E i \in DOMAIN t : t[i] = d) <=> (d = c \/ \E i \in DOMAIN s : s[i] = d)
  <1>1. /\ t \in Seq(Calls) /\ Len(t) = Len(s) + 1 /\ t[Len(s) + 1] = c
        /\ \A i \in 1..Len(s) : t[i] = s[i]
    BY AppendProperties
  <1>2. DOMAIN t = 1..(Len(s) + 1) /\ DOMAIN s = 1..Len(s) /\ Len(s) \in Nat
    BY <1>1, LenProperties
  <1>3. t # <<>> BY <1>1, <1>2
  <1>4. \A d : (\E i \in DOMAIN t : t[i] = d) <=> (d = c \/ \E i \in DOMAIN s : s[i] = d)
    BY <1>1, <1>2
  <1> QED BY <1>1, <1>2, <1>3, <1>4

LEMMA PutLastIsNew ==
    ASSUME NEW s \in Seq(Calls), NEW c \in Calls, NEW t, t = Append(s, c),
           \A i, j \in DOMAIN s : s[i] = s[j] => i = j, \A i \in DOMAIN s : s[i] # c
    PROVE  \A i, j \in DOMAIN t : t[i] = t[j] => i = j
  <1>1. /\ t[Len(s) + 1] = c /\ \A i \in 1..Len(s) : t[i] = s[i]
        /\ DOMAIN t = 1..(Len(s) + 1) /\ DOMAIN s = 1..Len(s) /\ Len(s) \in Nat
    BY PutLast
  <1> QED BY <1>1

LEMMA SlotsInit == Slots!Init => SlotsInv
  <1> SUFFICES ASSUME Slots!Init PROVE SlotsInv OBVIOUS
  <1>1. DOMAIN granted = {} /\ DOMAIN waiting = {} /\ Len(granted) = 0 BY DEF Slots!Init
  <1> QED BY <1>1, WidthIsPositive DEF Slots!Init, SlotsInv, Slots!TypeOK, Held

LEMMA SlotsNext ==
    ASSUME SlotsInv, Slots!Next
    PROVE  SlotsInv'
  <1> USE DEF Held
  <1>1. /\ active \in 0..Slots!width /\ waiting \in Seq(Calls) /\ granted \in Seq(Calls)
        /\ call \in [Calls -> {"new", "waiting", "acquired", "running", "done"}]
        /\ active = Len(granted) /\ (waiting # <<>> => active = Slots!width)
        /\ \A i, j \in DOMAIN granted : granted[i] = granted[j] => i = j
        /\ \A i, j \in DOMAIN waiting : waiting[i] = waiting[j] => i = j
        /\ \A c \in Calls : /\ call[c] \in Held <=> \E i \in DOMAIN granted : granted[i] = c
                            /\ call[c] = "waiting" <=> \E i \in DOMAIN waiting : waiting[i] = c
    BY DEF SlotsInv, Slots!TypeOK
  <1>2. Slots!width' = Slots!width /\ Slots!width \in Nat \ {0} BY WidthIsPositive DEF Slots!width
  <1>3. ASSUME NEW c \in Calls, Slots!Acquire(c) PROVE SlotsInv'
    <2>1. call[c] = "new" BY <1>3 DEF Slots!Acquire
    <2>2. ASSUME active < Slots!width, active' = active + 1, granted' = Append(granted, c),
                 call' = [call EXCEPT ![c] = "acquired"], waiting' = waiting
          PROVE  SlotsInv'
      <3>1. waiting = <<>> BY <1>1, <2>2
      <3>2. \A i \in DOMAIN granted : granted[i] # c BY <1>1, <2>1
      <3>3. /\ granted' \in Seq(Calls) /\ Len(granted') = Len(granted) + 1
            /\ \A d : (\E i \in DOMAIN granted' : granted'[i] = d)
                      <=> (d = c \/ \E i \in DOMAIN granted : granted[i] = d)
        <4>1. granted \in Seq(Calls) /\ granted' = Append(granted, c) BY <1>1, <2>2
        <4> QED BY ONLY <4>1, c \in Calls, PutLast
      <3>6. \A i, j \in DOMAIN granted' : granted'[i] = granted'[j] => i = j
        BY <1>1, <2>2, <3>2, PutLastIsNew
      <3>4. call' \in [Calls -> {"new", "waiting", "acquired", "running", "done"}] BY <1>1, <2>2
      <3>5. \A d \in Calls : call'[d] = IF d = c THEN "acquired" ELSE call[d] BY <1>1, <2>2
      <3> QED BY <1>1, <1>2, <2>1, <2>2, <3>1, <3>3, <3>4, <3>5, <3>6 DEF SlotsInv, Slots!TypeOK
    <2>3. ASSUME active >= Slots!width, waiting' = Append(waiting, c),
                 call' = [call EXCEPT ![c] = "waiting"], active' = active, granted' = granted
          PROVE  SlotsInv'
      <3>1. active = Slots!width BY <1>1, <1>2, <2>3
      <3>2. \A i \in DOMAIN waiting : waiting[i] # c BY <1>1, <2>1
      <3>3. /\ waiting' \in Seq(Calls)
            /\ \A d : (\E i \in DOMAIN waiting' : waiting'[i] = d)
                      <=> (d = c \/ \E i \in DOMAIN waiting : waiting[i] = d)
        <4>1. waiting \in Seq(Calls) /\ waiting' = Append(waiting, c) BY <1>1, <2>3
        <4> QED BY ONLY <4>1, c \in Calls, PutLast
      <3>6. \A i, j \in DOMAIN waiting' : waiting'[i] = waiting'[j] => i = j
        BY <1>1, <2>3, <3>2, PutLastIsNew
      <3>4. call' \in [Calls -> {"new", "waiting", "acquired", "running", "done"}] BY <1>1, <2>3
      <3>5. \A d \in Calls : call'[d] = IF d = c THEN "waiting" ELSE call[d] BY <1>1, <2>3
      <3> QED BY <1>1, <1>2, <2>1, <2>3, <3>1, <3>3, <3>4, <3>5, <3>6, SMTT(40) DEF SlotsInv, Slots!TypeOK
    <2> QED BY <1>3, <2>2, <2>3 DEF Slots!Acquire
  <1>4. ASSUME NEW c \in Calls, Slots!Begin(c) PROVE SlotsInv'
    <2>1. /\ call[c] = "acquired" /\ call' = [call EXCEPT ![c] = "running"]
          /\ UNCHANGED <<active, waiting, granted>>
      BY <1>4 DEF Slots!Begin
    <2>2. call' \in [Calls -> {"new", "waiting", "acquired", "running", "done"}] BY <1>1, <2>1
    <2>3. \A d \in Calls : call'[d] = IF d = c THEN "running" ELSE call[d] BY <1>1, <2>1
    <2> QED BY <1>1, <1>2, <2>1, <2>2, <2>3 DEF SlotsInv, Slots!TypeOK
  <1>5. ASSUME NEW c \in Calls, Slots!Release(c) PROVE SlotsInv'
    <2>1. call[c] = "running" /\ \E i \in DOMAIN granted : granted[i] = c
      BY <1>1, <1>5 DEF Slots!Release
    <2>2. PICK n \in 1..Len(granted) : granted[n] = c /\ Slots!Without(granted, c) = Cut(granted, n)
      BY <1>1, <2>1, WithoutIsCut
    <2>3. PICK g : g = Cut(granted, n) OBVIOUS
    <2>7. g \in Seq(Calls) /\ Len(g) = Len(granted) - 1 BY <1>1, <2>3, CutFacts, ZenonT(60)
    <2>8. \A i, j \in DOMAIN granted : granted[i] = granted[j] => i = j BY <1>1
    <2>9. granted \in Seq(Calls) BY <1>1
    <2>10. /\ \A i, j \in DOMAIN g : g[i] = g[j] => i = j
           /\ \A d : (\E i \in DOMAIN g : g[i] = d)
                     <=> (d # granted[n] /\ \E i \in DOMAIN granted : granted[i] = d)
      BY ONLY <2>3, <2>8, <2>9, n \in 1..Len(granted), CutOut
    <2>4. /\ g \in Seq(Calls) /\ Len(g) = Len(granted) - 1
          /\ \A i, j \in DOMAIN g : g[i] = g[j] => i = j
          /\ \A d : (\E i \in DOMAIN g : g[i] = d) <=> (d # c /\ \E i \in DOMAIN granted : granted[i] = d)
      BY <2>2, <2>7, <2>10
    <2>5. ASSUME waiting = <<>>, active' = active - 1, granted' = g, waiting' = waiting,
                 call' = [call EXCEPT ![c] = "done"]
          PROVE  SlotsInv'
      <3>1. call' \in [Calls -> {"new", "waiting", "acquired", "running", "done"}] BY <1>1, <2>5
      <3>2. \A d \in Calls : call'[d] = IF d = c THEN "done" ELSE call[d] BY <1>1, <2>5
      <3>3. active' \in 0..Slots!width /\ active' = Len(g) BY <1>1, <1>2, <2>4, <2>5
      <3>4. ASSUME NEW d \in Calls
            PROVE  /\ call'[d] \in Held <=> \E i \in DOMAIN granted' : granted'[i] = d
                   /\ call'[d] = "waiting" <=> \E i \in DOMAIN waiting' : waiting'[i] = d
        <4>1. \A i \in DOMAIN waiting : FALSE BY <2>5
        <4>2. ~ (call[d] = "waiting") /\ waiting' = waiting BY <1>1, <2>5, <4>1
        <4>3. (\E i \in DOMAIN granted' : granted'[i] = d) <=> (d # c /\ call[d] \in Held)
          <5>1. call[d] \in Held <=> \E i \in DOMAIN granted : granted[i] = d BY <1>1
          <5>2. (\E i \in DOMAIN g : g[i] = d) <=> (d # c /\ \E i \in DOMAIN granted : granted[i] = d)
            BY <2>4
          <5> HIDE DEF Held
          <5>3. granted' = g BY <2>5
          <5> QED BY <5>1, <5>2, <5>3
        <4> QED BY <2>1, <3>2, <4>1, <4>2, <4>3
      <3> QED BY <1>1, <1>2, <2>4, <2>5, <3>1, <3>3, <3>4 DEF SlotsInv, Slots!TypeOK
    <2>6. ASSUME waiting # <<>>, active' = active, granted' = Append(g, waiting[1]),
                 waiting' = Cut(waiting, 1),
                 call' = [call EXCEPT ![c] = "done", ![waiting[1]] = "acquired"]
          PROVE  SlotsInv'
      <3>1. Len(waiting) \in Nat \ {0} /\ DOMAIN waiting = 1..Len(waiting) /\ 1 \in DOMAIN waiting
        BY <1>1, <2>6, EmptySeq, LenProperties
      <3>2. PICK w \in Calls : w = waiting[1] BY <1>1, <3>1, ElementOfSeq
      <3>3. call[w] = "waiting" /\ w # c BY <1>1, <2>1, <3>1, <3>2
      <3>4. \A i \in DOMAIN g : g[i] # w BY <1>1, <2>4, <3>3, ZenonT(60)
      <3>5. granted' = Append(g, w) BY <2>6, <3>2
      <3>6. /\ granted' \in Seq(Calls) /\ Len(granted') = Len(g) + 1
            /\ \A d : (\E i \in DOMAIN granted' : granted'[i] = d) <=> (d = w \/ \E i \in DOMAIN g : g[i] = d)
        BY <2>4, <3>5, PutLast
      <3>13. \A i, j \in DOMAIN granted' : granted'[i] = granted'[j] => i = j
        BY <2>4, <3>4, <3>5, PutLastIsNew
      <3>19. PICK m : m = 1 OBVIOUS
      <3>7. m \in 1..Len(waiting) BY <3>1, <3>19
      <3>14. PICK q : q = Cut(waiting, m) OBVIOUS
      <3>15. \A i, j \in DOMAIN waiting : waiting[i] = waiting[j] => i = j BY <1>1
      <3>16. waiting \in Seq(Calls) BY <1>1
      <3>20. \A i, j \in DOMAIN q : q[i] = q[j] => i = j
        BY ONLY <3>7, <3>14, <3>15, <3>16, CutOut
      <3>17. \A d : (\E i \in DOMAIN q : q[i] = d)
                   <=> (d # waiting[m] /\ \E i \in DOMAIN waiting : waiting[i] = d)
        BY ONLY <3>7, <3>14, <3>15, <3>16, CutOut
      <3>18. waiting' = q /\ q \in Seq(Calls) BY <2>6, <3>7, <3>14, <3>16, <3>19, CutFacts
      <3>8. /\ waiting' \in Seq(Calls)
            /\ \A i, j \in DOMAIN waiting' : waiting'[i] = waiting'[j] => i = j
            /\ \A d : (\E i \in DOMAIN waiting' : waiting'[i] = d)
                      <=> (d # w /\ \E i \in DOMAIN waiting : waiting[i] = d)
        BY <3>2, <3>17, <3>18, <3>19, <3>20
      <3>9. call' \in [Calls -> {"new", "waiting", "acquired", "running", "done"}]
        BY <1>1, <2>6, <3>2
      <3>10. \A d \in Calls : call'[d] = IF d = w THEN "acquired" ELSE IF d = c THEN "done" ELSE call[d]
        BY <1>1, <2>6, <3>2
      <3>11. active' = Len(granted') /\ active' \in 0..Slots!width /\ active' = Slots!width
        BY <1>1, <1>2, <2>4, <2>6, <3>6
      <3> HIDE DEF Held
      <3>12. ASSUME NEW d \in Calls
             PROVE  /\ call'[d] \in Held <=> \E i \in DOMAIN granted' : granted'[i] = d
                    /\ call'[d] = "waiting" <=> \E i \in DOMAIN waiting' : waiting'[i] = d
        <4>1. (call[d] \in Held <=> \E i \in DOMAIN granted : granted[i] = d)
              /\ (call[d] = "waiting" <=> \E i \in DOMAIN waiting : waiting[i] = d) BY <1>1
        <4>2. (\E i \in DOMAIN granted' : granted'[i] = d)
              <=> (d = w \/ (d # c /\ call[d] \in Held)) BY <2>4, <3>6, <4>1
        <4>3. (\E i \in DOMAIN waiting' : waiting'[i] = d) <=> (d # w /\ call[d] = "waiting")
          BY <3>8, <4>1
        <4> QED BY <2>1, <3>3, <3>10, <4>2, <4>3 DEF Held
      <3> QED BY <1>2, <3>6, <3>8, <3>9, <3>11, <3>12, <3>13 DEF SlotsInv, Slots!TypeOK
    <2> QED BY <1>5, <2>2, <2>3, <2>5, <2>6, CutIsRemoveAt DEF Slots!Release, Slots!NextWaiting
  <1> QED BY <1>3, <1>4, <1>5 DEF Slots!Next

(* Who is let through are the first of the line, as many as the width.            *)
LEMMA FirstsAreGranted ==
    ASSUME NEW g \in Seq(Calls), NEW w \in Seq(Calls), Len(g) <= Slots!width,
           w # <<>> => Len(g) = Slots!width
    PROVE  Slots!Abstract!FirstOf(g \o w) = {g[i] : i \in 1..Len(g)}
  <1>1. Len(g) \in Nat /\ Len(w) \in Nat /\ Slots!width \in Nat \ {0}
    BY LenProperties, WidthIsPositive
  <1>2. PICK s \in Seq(Calls) : s = g \o w BY ConcatFacts
  <1>3. Len(s) = Len(g) + Len(w) /\ \A i \in 1..Len(g) : s[i] = g[i] BY <1>2, ConcatFacts
  <1>4. PICK n : n = IF Len(s) < Slots!width THEN Len(s) ELSE Slots!width OBVIOUS
  <1>5. n = Len(g)
    <2>1. CASE w = <<>>
      <3>1. Len(w) = 0 BY <2>1
      <3> QED BY <1>1, <1>3, <1>4, <3>1
    <2>2. CASE w # <<>>
      <3>1. Len(g) = Slots!width BY <2>2
      <3> QED BY <1>1, <1>3, <1>4, <3>1
    <2> QED BY <2>1, <2>2
  <1>6. PICK t : t = SubSeq(s, 1, n) OBVIOUS
  <1>7. t \in Seq(Calls) /\ Len(t) = n /\ \A i \in 1..n : t[i] = s[i]
    <2>1. 1 \in 1..(Len(s) + 1) /\ n \in (1 - 1)..Len(s) BY <1>1, <1>3, <1>5
    <2>2. /\ t \in Seq(Calls) /\ Len(t) = n - 1 + 1
          /\ \A i \in 1..(n - 1 + 1) : t[i] = s[1 + i - 1]
      BY <1>6, <2>1, SubSeqFacts
    <2>3. \A i \in 1..n : i \in 1..(n - 1 + 1) /\ 1 + i - 1 = i BY <1>1, <1>5
    <2>4. Len(t) = n BY <1>1, <1>5, <2>2
    <2> QED BY <2>2, <2>3, <2>4
  <1>8. Slots!Abstract!FirstOf(s) = {t[i] : i \in DOMAIN t}
    BY <1>4, <1>6 DEF Slots!Abstract!FirstOf, Slots!Abstract!ToSet
  <1>9. DOMAIN t = 1..Len(g) BY <1>5, <1>7, LenProperties
  <1>10. \A i \in 1..Len(g) : t[i] = g[i] BY <1>3, <1>5, <1>7
  <1> QED BY <1>2, <1>8, <1>9, <1>10

LEMMA ThroughIsFirst ==
    ASSUME NEW g \in Seq(Calls), NEW w \in Seq(Calls), NEW S, Len(g) <= Slots!width,
           w # <<>> => Len(g) = Slots!width,
           S \subseteq Calls, \A c \in Calls : c \in S <=> \E i \in DOMAIN g : g[i] = c
    PROVE  S = Slots!Abstract!FirstOf(g \o w)
  <1>1. DOMAIN g = 1..Len(g) BY LenProperties
  <1>2. \A i \in DOMAIN g : g[i] \in Calls BY <1>1, ElementOfSeq
  <1>3. S = {g[i] : i \in 1..Len(g)} BY <1>1, <1>2
  <1>4. Slots!Abstract!FirstOf(g \o w) = {g[i] : i \in 1..Len(g)} BY FirstsAreGranted
  <1> QED BY <1>3, <1>4

(* What a step of the limiter does to the line: a call comes to its end, or leaves  *)
(* it from among the first.                                                         *)
LEMMA LineGrows ==
    ASSUME NEW g \in Seq(Calls), NEW w \in Seq(Calls), NEW c \in Calls
    PROVE  /\ w = <<>> => Append(g, c) \o w = Append(g \o w, c)
           /\ g \o Append(w, c) = Append(g \o w, c)
  <1>1. /\ g \o w \in Seq(Calls) /\ Append(g, c) \in Seq(Calls) /\ Append(w, c) \in Seq(Calls)
    BY ConcatFacts, AppendProperties
  <1>2. ASSUME w = <<>> PROVE Append(g, c) \o w = Append(g \o w, c)
    BY <1>1, <1>2, ConcatEmptySeq
  <1>3. g \o Append(w, c) = Append(g \o w, c)
    BY <1>1, AppendIsConcat, ConcatAssociative, EmptySeq
  <1> QED BY <1>2, <1>3

LEMMA LineShrinks ==
    ASSUME NEW g \in Seq(Calls), NEW w \in Seq(Calls), NEW n \in 1..Len(g)
    PROVE  /\ n \in DOMAIN (g \o w) /\ (g \o w)[n] = g[n]
           /\ Cut(g, n) \o w = Cut(g \o w, n)
  <1>1. Len(g) \in Nat /\ Len(w) \in Nat BY LenProperties
  <1>2. PICK s \in Seq(Calls) : s = g \o w BY ConcatFacts
  <1>3. /\ Len(s) = Len(g) + Len(w) /\ \A i \in 1..Len(g) : s[i] = g[i]
        /\ \A i \in (Len(g) + 1)..(Len(g) + Len(w)) : s[i] = w[i - Len(g)]
    BY <1>2, ConcatFacts
  <1>4. n \in 1..Len(s) BY <1>1, <1>3
  <1>5. n \in DOMAIN s /\ s[n] = g[n] BY <1>3, <1>4, LenProperties
  <1>6. PICK h : h = Cut(g, n) OBVIOUS
  <1>7. /\ h \in Seq(Calls) /\ Len(h) = Len(g) - 1
        /\ \A k \in 1..(Len(g) - 1) : h[k] = IF k < n THEN g[k] ELSE g[k + 1]
    BY <1>6, CutFacts
  <1>8. PICK t : t = Cut(s, n) OBVIOUS
  <1>9. /\ t \in Seq(Calls) /\ Len(t) = Len(s) - 1
        /\ \A k \in 1..(Len(s) - 1) : t[k] = IF k < n THEN s[k] ELSE s[k + 1]
    BY <1>4, <1>8, CutFacts
  <1>10. PICK r : r = h \o w OBVIOUS
  <1>11. /\ r \in Seq(Calls) /\ Len(r) = Len(h) + Len(w) /\ \A i \in 1..Len(h) : r[i] = h[i]
         /\ \A i \in (Len(h) + 1)..(Len(h) + Len(w)) : r[i] = w[i - Len(h)]
    BY <1>7, <1>10, ConcatFacts
  <1>12. Len(r) = Len(t) BY <1>1, <1>3, <1>7, <1>9, <1>11
  <1>13. ASSUME NEW k \in 1..Len(r) PROVE r[k] = t[k]
    <2>1. k \in 1..(Len(s) - 1) BY <1>1, <1>9, <1>12
    <2>2. CASE k < n
      <3>1. k \in 1..Len(h) /\ k \in 1..(Len(g) - 1) /\ k \in 1..Len(g) BY <1>1, <1>7, <2>2
      <3>2. r[k] = g[k] BY <1>7, <1>11, <2>2, <3>1
      <3>3. t[k] = g[k] BY <1>3, <1>9, <2>1, <2>2, <3>1
      <3> QED BY <3>2, <3>3
    <2>3. CASE k >= n /\ k <= Len(g) - 1
      <3>1. k \in 1..Len(h) /\ k \in 1..(Len(g) - 1) /\ k + 1 \in 1..Len(g) BY <1>1, <1>7, <2>1, <2>3
      <3>2. r[k] = g[k + 1] BY <1>1, <1>7, <1>11, <2>1, <2>3, <3>1
      <3>3. t[k] = g[k + 1] BY <1>1, <1>3, <1>9, <2>1, <2>3, <3>1
      <3> QED BY <3>2, <3>3
    <2>4. CASE k >= Len(g)
      <3>1. k \in (Len(h) + 1)..(Len(h) + Len(w)) /\ k - Len(h) = k + 1 - Len(g)
            /\ k + 1 \in (Len(g) + 1)..(Len(g) + Len(w)) /\ ~ (k < n)
        BY <1>1, <1>3, <1>7, <2>1, <2>4
      <3>2. r[k] = w[k - Len(h)] BY <1>11, <3>1
      <3>3. t[k] = s[k + 1] BY <1>9, <2>1, <3>1
      <3>4. s[k + 1] = w[k + 1 - Len(g)] BY <1>3, <3>1
      <3> QED BY <3>1, <3>2, <3>3, <3>4
    <2> QED BY <1>1, <2>1, <2>2, <2>3, <2>4
  <1>14. r = t BY <1>9, <1>11, <1>12, <1>13, SeqEqual
  <1> QED BY <1>2, <1>5, <1>6, <1>8, <1>10, <1>14

(* The first that waits stands where it stood: in between.                        *)
LEMMA FirstMovesUp ==
    ASSUME NEW g \in Seq(Calls), NEW w \in Seq(Calls), w # <<>>
    PROVE  Append(g, w[1]) \o Cut(w, 1) = g \o w
  <1>1. Len(g) \in Nat /\ Len(w) \in Nat \ {0} BY LenProperties, EmptySeq
  <1>2. PICK x \in Calls : x = w[1] BY <1>1, ElementOfSeq
  <1>3. PICK m : m = 1 OBVIOUS
  <1>4. PICK v : v = Cut(w, m) OBVIOUS
  <1>5. /\ v \in Seq(Calls) /\ Len(v) = Len(w) - 1
        /\ \A k \in 1..(Len(w) - 1) : v[k] = IF k < m THEN w[k] ELSE w[k + 1]
    <2>1. m \in 1..Len(w) BY <1>1, <1>3
    <2> QED BY <1>4, <2>1, CutFacts
  <1>6. PICK h : h = Append(g, x) OBVIOUS
  <1>7. /\ h \in Seq(Calls) /\ Len(h) = Len(g) + 1 /\ h[Len(g) + 1] = x
        /\ \A i \in 1..Len(g) : h[i] = g[i]
    BY <1>6, AppendProperties
  <1>8. PICK r : r = h \o v OBVIOUS
  <1>9. /\ r \in Seq(Calls) /\ Len(r) = Len(h) + Len(v) /\ \A i \in 1..Len(h) : r[i] = h[i]
        /\ \A i \in (Len(h) + 1)..(Len(h) + Len(v)) : r[i] = v[i - Len(h)]
    BY <1>5, <1>7, <1>8, ConcatFacts
  <1>10. PICK s : s = g \o w OBVIOUS
  <1>11. /\ s \in Seq(Calls) /\ Len(s) = Len(g) + Len(w) /\ \A i \in 1..Len(g) : s[i] = g[i]
         /\ \A i \in (Len(g) + 1)..(Len(g) + Len(w)) : s[i] = w[i - Len(g)]
    BY <1>10, ConcatFacts
  <1>12. Len(r) = Len(s) BY <1>1, <1>5, <1>7, <1>9, <1>11
  <1>13. ASSUME NEW k \in 1..Len(r) PROVE r[k] = s[k]
    <2>1. CASE k <= Len(g)
      <3>1. k \in 1..Len(h) /\ k \in 1..Len(g) BY <1>1, <1>7, <2>1
      <3> QED BY <1>7, <1>9, <1>11, <3>1
    <2>2. CASE k = Len(g) + 1
      <3>1. k \in 1..Len(h) /\ k \in (Len(g) + 1)..(Len(g) + Len(w)) /\ k - Len(g) = 1
        BY <1>1, <1>7, <2>2
      <3>2. r[k] = x BY <1>7, <1>9, <2>2, <3>1
      <3>3. s[k] = w[k - Len(g)] BY <1>11, <3>1
      <3> QED BY <1>2, <3>1, <3>2, <3>3
    <2>3. CASE k > Len(g) + 1
      <3>1. /\ k \in (Len(h) + 1)..(Len(h) + Len(v)) /\ k - Len(h) \in 1..(Len(w) - 1)
            /\ k \in (Len(g) + 1)..(Len(g) + Len(w)) /\ (k - Len(h)) + 1 = k - Len(g)
            /\ ~ (k - Len(h) < m)
        BY <1>1, <1>3, <1>5, <1>7, <1>9, <2>3
      <3>2. r[k] = v[k - Len(h)] BY <1>9, <3>1
      <3>3. v[k - Len(h)] = w[(k - Len(h)) + 1] BY <1>5, <3>1
      <3>4. s[k] = w[k - Len(g)] BY <1>11, <3>1
      <3> QED BY <3>1, <3>2, <3>3, <3>4
    <2> QED BY <1>1, <1>12, <2>1, <2>2, <2>3
  <1>14. r = s BY <1>9, <1>11, <1>12, <1>13, SeqEqual
  <1> QED BY <1>2, <1>3, <1>4, <1>6, <1>8, <1>10, <1>14

LEMMA SlotsStepIsLineStep ==
    ASSUME SlotsInv, SlotsInv', Slots!Next
    PROVE  Slots!Abstract!Next \/ UNCHANGED Slots!Abstract!vars
  <1> DEFINE line == granted \o waiting
             inside == {c \in Calls : call[c] \in {"acquired", "running"}}
  <1>1. /\ waiting \in Seq(Calls) /\ granted \in Seq(Calls)
        /\ active = Len(granted) /\ (waiting # <<>> => active = Slots!width)
        /\ \A i, j \in DOMAIN granted : granted[i] = granted[j] => i = j
        /\ \A c \in Calls : /\ call[c] \in Held <=> \E i \in DOMAIN granted : granted[i] = c
                            /\ call[c] = "waiting" <=> \E i \in DOMAIN waiting : waiting[i] = c
    BY DEF SlotsInv, Slots!TypeOK
  <1>2. /\ waiting' \in Seq(Calls) /\ granted' \in Seq(Calls)
        /\ active' \in 0..Slots!width /\ active' = Len(granted')
        /\ (waiting' # <<>> => active' = Slots!width)
        /\ \A c \in Calls : call'[c] \in Held <=> \E i \in DOMAIN granted' : granted'[i] = c
    BY DEF SlotsInv, Slots!TypeOK, Slots!width
  <1>3. inside' = Slots!Abstract!FirstOf(line')
    <2>1. PICK S : S = {c \in Calls : call'[c] \in {"acquired", "running"}} OBVIOUS
    <2>2. \A c \in Calls : c \in S <=> \E i \in DOMAIN granted' : granted'[i] = c
      BY <1>2, <2>1 DEF Held
    <2>3. S \subseteq Calls BY <2>1
    <2>4. Slots!width \in Nat BY WidthIsPositive
    <2>5. Len(granted') <= Slots!width /\ (waiting' # <<>> => Len(granted') = Slots!width)
      BY <1>2, <2>4
    <2>6. S = Slots!Abstract!FirstOf(granted' \o waiting')
      <3>1. granted' \in Seq(Calls) /\ waiting' \in Seq(Calls) BY <1>2
      <3> QED BY ONLY <2>2, <2>3, <2>5, <3>1, ThroughIsFirst
    <2> QED BY <2>1, <2>6
  <1>4. SUFFICES (\E c \in Calls : Slots!Abstract!Come(c) \/ Slots!Abstract!Leave(c))
                 \/ (line' = line /\ inside' = inside)
    BY <1>3 DEF Slots!Abstract!Next, Slots!Abstract!vars
  <1>5. ASSUME NEW c \in Calls, Slots!Acquire(c) PROVE Slots!Abstract!Come(c)
    <2>1. call[c] = "new" BY <1>5 DEF Slots!Acquire
    <2>2. (\A i \in DOMAIN granted : granted[i] # c) /\ (\A i \in DOMAIN waiting : waiting[i] # c)
      BY <1>1, <2>1 DEF Held
    <2>3. c \notin Slots!Abstract!ToSet(line)
      <3>1. PICK s \in Seq(Calls) : s = line BY <1>1, ConcatFacts
      <3>2. /\ Len(s) = Len(granted) + Len(waiting) /\ \A i \in 1..Len(granted) : s[i] = granted[i]
            /\ \A i \in (Len(granted) + 1)..(Len(granted) + Len(waiting)) : s[i] = waiting[i - Len(granted)]
        BY <1>1, <3>1, ConcatFacts
      <3>3. /\ DOMAIN s = 1..Len(s) /\ DOMAIN granted = 1..Len(granted) /\ Len(granted) \in Nat
            /\ DOMAIN waiting = 1..Len(waiting) /\ Len(waiting) \in Nat
        BY <1>1, LenProperties
      <3>4. ASSUME NEW i \in DOMAIN s PROVE s[i] # c
        <4>1. CASE i <= Len(granted)
          <5>1. i \in DOMAIN granted BY <3>3, <4>1
          <5> QED BY <2>2, <3>2, <3>3, <5>1
        <4>2. CASE i > Len(granted)
          <5>1. i - Len(granted) \in DOMAIN waiting
                /\ i \in (Len(granted) + 1)..(Len(granted) + Len(waiting))
            BY <3>2, <3>3, <4>2
          <5>2. s[i] = waiting[i - Len(granted)] BY <3>2, <5>1
          <5> QED BY <2>2, <5>1, <5>2
        <4> QED BY <3>3, <4>1, <4>2
      <3>5. c \notin Slots!Abstract!ToSet(s) BY <3>4 DEF Slots!Abstract!ToSet
      <3> QED BY <3>1, <3>5
    <2>4. line' = Append(line, c)
      <3>1. CASE active < Slots!width
        <4>1. waiting = <<>> /\ granted' = Append(granted, c) /\ waiting' = waiting
          <5>1. Slots!width \in Nat /\ active \in Nat
            BY WidthIsPositive, LenProperties, <1>1
          <5> QED BY <1>1, <1>5, <3>1, <5>1 DEF Slots!Acquire
        <4> QED BY <1>1, <4>1, LineGrows
      <3>2. CASE ~ (active < Slots!width)
        <4>1. waiting' = Append(waiting, c) /\ granted' = granted
          BY <1>5, <3>2 DEF Slots!Acquire
        <4> QED BY <1>1, <4>1, LineGrows
      <3> QED BY <3>1, <3>2
    <2> QED BY <2>3, <2>4 DEF Slots!Abstract!Come
  <1>6. ASSUME NEW c \in Calls, Slots!Begin(c) PROVE line' = line /\ inside' = inside
    <2>1. /\ call[c] = "acquired" /\ call' = [call EXCEPT ![c] = "running"]
          /\ UNCHANGED <<active, waiting, granted>>
          /\ call \in [Calls -> {"new", "waiting", "acquired", "running", "done"}]
      BY <1>6 DEF Slots!Begin, SlotsInv, Slots!TypeOK
    <2>2. \A d \in Calls : call'[d] = IF d = c THEN "running" ELSE call[d] BY <2>1
    <2> QED BY <2>1, <2>2
  <1>7. ASSUME NEW c \in Calls, Slots!Release(c) PROVE Slots!Abstract!Leave(c)
    <2>1. call[c] = "running" /\ \E i \in DOMAIN granted : granted[i] = c
      BY <1>1, <1>7 DEF Slots!Release, Held
    <2>2. PICK n \in 1..Len(granted) : granted[n] = c /\ Slots!Without(granted, c) = Cut(granted, n)
      BY <1>1, <2>1, WithoutIsCut
    <2>3. /\ n \in DOMAIN line /\ line[n] = c /\ Cut(granted, n) \o waiting = Cut(line, n)
      <3>1. granted \in Seq(Calls) /\ waiting \in Seq(Calls) BY <1>1
      <3>2. /\ n \in DOMAIN (granted \o waiting) /\ (granted \o waiting)[n] = granted[n]
            /\ Cut(granted, n) \o waiting = Cut(granted \o waiting, n)
        BY ONLY <3>1, n \in 1..Len(granted), LineShrinks
      <3> QED BY <2>2, <3>2
    <2>4. line' = Cut(granted, n) \o waiting
      <3>1. CASE waiting = <<>>
        <4>1. granted' = Cut(granted, n) /\ waiting' = waiting
          BY <1>7, <2>2, <3>1 DEF Slots!Release
        <4> QED BY <4>1
      <3>2. CASE waiting # <<>>
        <4>1. granted' = Append(Cut(granted, n), waiting[1]) /\ waiting' = Cut(waiting, 1)
          BY <1>7, <2>2, <3>2, CutIsRemoveAt DEF Slots!Release, Slots!NextWaiting
        <4>2. PICK g \in Seq(Calls) : g = Cut(granted, n) BY <1>1, CutFacts
        <4>3. Append(g, waiting[1]) \o Cut(waiting, 1) = g \o waiting
          BY <1>1, <3>2, FirstMovesUp
        <4> QED BY <4>1, <4>2, <4>3
      <3> QED BY <3>1, <3>2
    <2>5. line' = Slots!Abstract!RemoveAt(line, n) BY <2>3, <2>4, CutIsRemoveAt
    <2>6. c \in inside BY <2>1
    <2> HIDE DEF line, inside
    <2>7. c \in inside /\ \E i \in DOMAIN line : line[i] = c /\ line' = Slots!Abstract!RemoveAt(line, i)
      BY <2>3, <2>5, <2>6
    <2> QED BY <2>7 DEF Slots!Abstract!Leave, line, inside
  <1> HIDE DEF line, inside
  <1> QED BY <1>5, <1>6, <1>7 DEF Slots!Next

-------------------------------------------------------------------------------
(* The content hashes. *)

HashRecord == [at : {"none", "batch", "queued", "reading", "done", "failed"}, key : Hash!Keys,
               since : 0..MaxClock, sum : Contents \cup {"none"}]

HashTypes ==
  /\ Hash!TypeOK
  /\ disk \in [Hash!Items -> [content : Contents, mtime : 0..MaxClock]]
  /\ hash \in [Hash!Items -> HashRecord]
  /\ asked \in {{}, Files} /\ quiet \in BOOLEAN /\ cancelled \in BOOLEAN

(* What is not computed yet is waited for, and each batch is of files of its own.  *)
HashPending ==
  /\ \A i \in Hash!Items : hash[i].at \in {"batch", "queued", "reading"}
                           => asked = Files /\ answer[i[2]] = "none"
  /\ \A b \in batches : \A f \in b : hash[<<"remote", f>>].at = "batch"
  /\ \A a, b \in batches : a = b \/ a \cap b = {}

(* A remembered hash is of a time that has passed: no later write has it again.    *)
CacheInv ==
  /\ \A i \in Hash!Items : hash[i].since <= clock
  /\ \A c \in localCache : c.key.mtime < clock
  /\ Hash!CacheIsSound

QuietSums == quiet => \A i \in Hash!Items : hash[i].at = "done" => hash[i].sum = disk[i].content

HashInv == HashTypes /\ HashPending /\ CacheInv /\ QuietSums /\ Hash!AnswersAreTrue

LEMMA HashCardinality ==
    ASSUME NEW S
    PROVE  /\ Hash!IsFiniteSet(S) <=> IsFiniteSet(S)
           /\ Hash!Cardinality(S) = Cardinality(S)
  <1>1. Hash!IsFiniteSet(S) <=> IsFiniteSet(S) BY DEF Hash!IsFiniteSet, IsFiniteSet
  <1>2. Hash!Cardinality(S) = Cardinality(S) BY DEF Hash!Cardinality, Cardinality
  <1> QED BY <1>1, <1>2

LEMMA HashConstants ==
    /\ IsFiniteSet(Files) /\ MaxBatch \in Nat \ {0} /\ SizeOf \in [Contents -> Nat]
    /\ FirstDisks \subseteq [Hash!Items -> Contents]
    /\ MaxClock \in Nat /\ MaxWrites \in Nat /\ MaxHashers \in Nat
  BY SyncingAssumption, HashCardinality DEF Hash!HashAssumption, Hash!Items, Hash!Sides

LEMMA ItemsArePairs ==
    /\ \A f \in Files : <<"local", f>> \in Hash!Items /\ <<"remote", f>> \in Hash!Items
    /\ \A i \in Hash!Items : /\ i[1] \in {"local", "remote"} /\ i[2] \in Files
                             /\ i = <<i[1], i[2]>>
  BY DEF Hash!Items, Hash!Sides

(* A set can be put in order, so its batches are of as many files as they may be,   *)
(* and no file is in two of them.                                                   *)
LEMMA BatchesFit ==
    ASSUME NEW S, S \subseteq Files
    PROVE  /\ \A b \in Hash!Batches(S) : b \subseteq S /\ Hash!Cardinality(b) \in 1..MaxBatch
           /\ \A a, b \in Hash!Batches(S) : a = b \/ a \cap b = {}
  <1>1. IsFiniteSet(S) /\ MaxBatch \in Nat \ {0} BY HashConstants, FS_Subset
  <1>2. PICK n \in Nat : n = Cardinality(S) BY <1>1, FS_CardinalityType
  <1>3. PICK f \in Bijection(1..n, S) : TRUE
    <2>1. ExistsBijection(1..n, S) BY <1>1, <1>2, FS_CardinalityType
    <2> QED BY <2>1 DEF ExistsBijection
  <1>4. f \in [1..n -> S] /\ \A a, b \in 1..n : f[a] = f[b] => a = b
    BY <1>3 DEF Bijection, Injection, IsInjective
  <1>5. PICK s : s = Hash!SetToSeq(S) OBVIOUS
  <1>6. s \in [1..n -> S] /\ \A a, b \in 1..n : s[a] = s[b] => a = b
    <2>1. f \in [1..n -> S] /\ Hash!IsInjective(f) BY <1>4 DEF Hash!IsInjective
    <2>2. s = CHOOSE g \in [1..n -> S] : Hash!IsInjective(g)
      BY <1>2, <1>5, HashCardinality DEF Hash!SetToSeq
    <2>3. s \in [1..n -> S] /\ Hash!IsInjective(s) BY <2>1, <2>2
    <2> QED BY <2>3 DEF Hash!IsInjective
  <1> DEFINE ks == {m \in 0..n : MaxBatch * m < n}
             of(k) == {i \in 1..n : MaxBatch * k < i /\ i <= MaxBatch * (k + 1)}
             block(k) == {s[j] : j \in of(k)}
  <1>7. Hash!Batches(S) = {block(k) : k \in ks}
    BY <1>2, <1>5, HashCardinality DEF Hash!Batches
  <1>8. ASSUME NEW k \in ks PROVE block(k) \subseteq S /\ Hash!Cardinality(block(k)) \in 1..MaxBatch
    <2>1. PICK low \in Nat : low = MaxBatch * k /\ MaxBatch * (k + 1) = low + MaxBatch /\ low < n
      BY <1>1, <1>2
    <2>2. of(k) \subseteq 1..n /\ of(k) \subseteq (low + 1)..(low + MaxBatch) /\ low + 1 \in of(k)
      BY <1>1, <1>2, <2>1
    <2>3. block(k) \subseteq S BY <1>6, <2>2
    <2>4. IsFiniteSet(of(k)) /\ Cardinality(of(k)) <= MaxBatch /\ Cardinality(of(k)) \in Nat
      <3>1. low + 1 \in Int /\ low + MaxBatch \in Int BY <1>1
      <3>2. /\ IsFiniteSet((low + 1)..(low + MaxBatch))
            /\ Cardinality((low + 1)..(low + MaxBatch))
               = IF low + 1 > low + MaxBatch THEN 0 ELSE (low + MaxBatch) - (low + 1) + 1
        BY <3>1, FS_Interval
      <3>3. Cardinality((low + 1)..(low + MaxBatch)) = MaxBatch BY <1>1, <3>2
      <3>4. IsFiniteSet(of(k)) /\ Cardinality(of(k)) <= Cardinality((low + 1)..(low + MaxBatch))
        BY <2>2, <3>2, FS_Subset
      <3> QED BY <3>3, <3>4, FS_CardinalityType
    <2>5. PICK g : g = [j \in of(k) |-> s[j]] OBVIOUS
    <2>6. PICK J : J = of(k) OBVIOUS
    <2>7. PICK B : B = block(k) OBVIOUS
    <2>8. g \in [J -> B] /\ \A t \in B : \E j \in J : g[j] = t BY <2>5, <2>6, <2>7
    <2>9. g \in Surjection(J, B) BY <2>8 DEF Surjection
    <2>10. IsFiniteSet(B) /\ Cardinality(B) <= Cardinality(J) BY <2>4, <2>6, <2>9, FS_Surjection
    <2>11. B # {} BY <2>2, <2>7
    <2>12. Cardinality(B) \in Nat /\ Cardinality(B) # 0 BY <2>10, <2>11, FS_EmptySet, FS_CardinalityType
    <2>13. Cardinality(B) \in 1..MaxBatch BY <1>1, <2>4, <2>6, <2>10, <2>12
    <2> QED BY <2>3, <2>7, <2>13, HashCardinality
  <1>9. ASSUME NEW k \in ks, NEW m \in ks, block(k) \cap block(m) # {} PROVE k = m
    <2>1. PICK i \in of(k), j \in of(m) : s[i] = s[j] BY <1>9
    <2>2. i \in 1..n /\ j \in 1..n OBVIOUS
    <2>3. i = j BY <1>6, <2>1, <2>2
    <2>4. /\ MaxBatch * k < i /\ i <= MaxBatch * (k + 1) /\ MaxBatch * m < i /\ i <= MaxBatch * (m + 1)
          /\ i \in Nat /\ k \in Nat /\ m \in Nat
      BY <1>2, <2>3
    <2>5. ASSUME k < m PROVE FALSE
      <3>1. MaxBatch * (k + 1) <= MaxBatch * m BY <1>1, <2>4, <2>5
      <3> QED BY <1>1, <2>4, <3>1
    <2>6. ASSUME m < k PROVE FALSE
      <3>1. MaxBatch * (m + 1) <= MaxBatch * k BY <1>1, <2>4, <2>6
      <3> QED BY <1>1, <2>4, <3>1
    <2> QED BY <2>4, <2>5, <2>6
  <1> HIDE DEF ks, block
  <1> QED BY <1>7, <1>8, <1>9

LEMMA HashFacts ==
    ASSUME HashInv
    PROVE  /\ clock \in 0..MaxClock /\ MaxClock \in Nat /\ clock \in Nat
           /\ disk \in [Hash!Items -> [content : Contents, mtime : 0..MaxClock]]
           /\ hash \in [Hash!Items -> HashRecord]
           /\ answer \in [Files -> {"none", "same", "differs", "error"}]
           /\ running \subseteq batches
           /\ \A b \in batches : b \subseteq Files /\ b # {}
  <1>1. MaxClock \in Nat BY HashConstants
  <1>2. \A b \in batches : b \subseteq Files /\ Cardinality(b) \in 1..MaxBatch
    BY HashCardinality DEF HashInv, HashTypes, Hash!TypeOK
  <1>3. \A b \in batches : b # {}
    <2>1. Cardinality({}) = 0 BY FS_EmptySet
    <2>2. ASSUME NEW b \in batches, b = {} PROVE FALSE
      <3>1. Cardinality(b) \in 1..MaxBatch BY <1>2
      <3>2. Cardinality(b) = 0 BY <2>1, <2>2
      <3> QED BY <3>1, <3>2, HashConstants
    <2> QED BY <2>2
  <1> QED BY <1>1, <1>2, <1>3 DEF HashInv, HashTypes, Hash!TypeOK

LEMMA HashInit == Hash!Init => HashInv
  <1> SUFFICES ASSUME Hash!Init PROVE HashInv OBVIOUS
  <1>1. PICK d \in FirstDisks : disk = [i \in Hash!Items |-> [content |-> d[i], mtime |-> 0]]
    BY DEF Hash!Init
  <1>2. d \in [Hash!Items -> Contents] /\ MaxClock \in Nat /\ MaxWrites \in Nat /\ MaxHashers \in Nat
    BY HashConstants
  <1>3. /\ clock = 0 /\ localCache = {} /\ tool = "unknown" /\ hashers = 0 /\ cancelled = FALSE
        /\ hash = [i \in Hash!Items |-> Hash!NoHash]
        /\ batches = {} /\ running = {} /\ asked = {} /\ answer = [f \in Files |-> "none"]
        /\ writes = 0 /\ quiet = TRUE
    BY DEF Hash!Init
  <1>4. Hash!NoHash \in HashRecord /\ Hash!NoHash.at = "none" /\ Hash!NoHash.since = 0
    BY <1>2 DEF HashRecord, Hash!NoHash, Hash!Keys
  <1>5. /\ disk \in [Hash!Items -> [content : Contents, mtime : 0..MaxClock]]
        /\ hash \in [Hash!Items -> HashRecord] /\ DOMAIN disk = Hash!Items
        /\ \A i \in Hash!Items : disk[i].mtime = 0 /\ disk[i].content \in Contents
        /\ \A i \in Hash!Items : hash[i].at = "none" /\ hash[i].since = 0
    BY <1>1, <1>2, <1>3, <1>4
  <1>11. \A i \in Hash!Items : disk[i].content \in Contents /\ disk[i].mtime \in 0..clock
    BY <1>3, <1>5
  <1>12. answer \in [Files -> {"none", "same", "differs", "error"}] BY <1>3
  <1>13. clock \in 0..MaxClock /\ hashers \in 0..MaxHashers /\ writes \in 0..MaxWrites BY <1>2, <1>3
  <1>14. Hash!TypeOK BY <1>3, <1>5, <1>11, <1>12, <1>13 DEF Hash!TypeOK
  <1>6. HashTypes BY <1>3, <1>5, <1>14 DEF HashTypes
  <1>7. HashPending BY <1>3, <1>5 DEF HashPending
  <1>8. CacheInv BY <1>3, <1>5 DEF CacheInv, Hash!CacheIsSound
  <1>9. QuietSums BY <1>5 DEF QuietSums
  <1>10. Hash!AnswersAreTrue BY <1>3 DEF Hash!AnswersAreTrue
  <1> QED BY <1>6, <1>7, <1>8, <1>9, <1>10 DEF HashInv

(* The key of a file has its type, and is that of no other content of another size. *)
LEMMA KeyOfFile ==
    ASSUME HashInv, NEW i \in Hash!Items
    PROVE  /\ Hash!KeyOf(i) \in Hash!Keys /\ Hash!KeyOf(i).mtime = disk[i].mtime
           /\ Hash!KeyOf(i).size = SizeOf[disk[i].content]
           /\ disk[i].mtime <= clock
  <1>1. disk[i].content \in Contents /\ disk[i].mtime \in 0..MaxClock BY HashFacts
  <1>2. SizeOf[disk[i].content] \in Nat BY <1>1, HashConstants
  <1>3. disk[i].mtime \in 0..clock BY DEF HashInv, HashTypes, Hash!TypeOK
  <1>4. disk[i].mtime <= clock BY <1>3, HashFacts
  <1> QED BY <1>1, <1>2, <1>4 DEF Hash!KeyOf, Hash!Keys

(* A hash that moves on keeps what is known of the hashes: each is of the content   *)
(* of its file, and none but those asked for is begun.                              *)
LEMMA HashMoves ==
    ASSUME HashInv, NEW h \in [Hash!Items -> HashRecord], hash' = h,
           UNCHANGED <<disk, clock, localCache, quiet, asked, answer>>,
           \A i \in Hash!Items : h[i].since <= clock,
           \A i \in Hash!Items : h[i].at = "done" => h[i] = hash[i] \/ h[i].sum = disk[i].content,
           \A i \in Hash!Items : h[i].at \in {"batch", "queued", "reading"}
                                 => hash[i].at \in {"batch", "queued", "reading"}
    PROVE  /\ CacheInv' /\ QuietSums' /\ Hash!AnswersAreTrue'
           /\ \A i \in Hash!Items : hash'[i].at \in {"batch", "queued", "reading"}
                                    => asked' = Files /\ answer'[i[2]] = "none"
  <1>1. CacheInv'
    <2>1. \A i \in Hash!Items : hash'[i].since <= clock' OBVIOUS
    <2>2. (\A c \in localCache' : c.key.mtime < clock') /\ Hash!CacheIsSound'
      BY DEF HashInv, CacheInv, Hash!CacheIsSound, Hash!KeyOf
    <2>3. Hash!Items' = Hash!Items BY DEF Hash!Items, Hash!Sides
    <2> QED BY <2>1, <2>2, <2>3 DEF CacheInv
  <1>2. QuietSums'
    <2>1. ASSUME quiet, NEW i \in Hash!Items, h[i].at = "done" PROVE h[i].sum = disk[i].content
      <3>1. CASE h[i] = hash[i] BY <2>1, <3>1 DEF HashInv, QuietSums
      <3> QED BY <2>1, <3>1
    <2>2. Hash!Items' = Hash!Items BY DEF Hash!Items, Hash!Sides
    <2> QED BY <2>1, <2>2 DEF QuietSums
  <1>3. Hash!AnswersAreTrue' BY DEF HashInv, Hash!AnswersAreTrue
  <1>4. \A i \in Hash!Items : hash[i].at \in {"batch", "queued", "reading"}
                              => asked = Files /\ answer[i[2]] = "none"
    BY DEF HashInv, HashPending
  <1> QED BY <1>1, <1>2, <1>3, <1>4

(* The end of a batch, whatever became of its files.                               *)
LEMMA BatchEnds ==
    ASSUME HashInv, NEW b \in batches, NEW h, hash' = h, batches' = batches \ {b},
           \A f \in Files \ b : h[<<"remote", f>>] = hash[<<"remote", f>>]
    PROVE  /\ \A a \in batches' : \A f \in a : hash'[<<"remote", f>>].at = "batch"
           /\ \A a, c \in batches' : a = c \/ a \cap c = {}
  <1>1. \A a, c \in batches : a = c \/ a \cap c = {} BY DEF HashInv, HashPending
  <1>2. ASSUME NEW a \in batches', NEW f \in a PROVE hash'[<<"remote", f>>].at = "batch"
    <2>1. a \in batches /\ a # b BY <1>2
    <2>2. f \notin b /\ f \in Files BY <1>1, <2>1, HashFacts
    <2>3. hash[<<"remote", f>>].at = "batch" BY <2>1 DEF HashInv, HashPending
    <2> QED BY <2>2, <2>3
  <1> QED BY <1>1, <1>2

LEMMA StartBatchKeeps ==
    ASSUME HashInv, NEW b \in batches, Hash!StartBatch(b)
    PROVE  HashInv'
  <1>1. /\ b \in batches \ running
        /\ UNCHANGED <<clock, disk, localCache, tool, hashers, cancelled, asked, answer, writes, quiet>>
    BY DEF Hash!StartBatch
  <1>2. Hash!Remote(b) \subseteq Hash!Items /\ b \subseteq Files
    BY HashFacts, ItemsArePairs DEF Hash!Remote
  <1>3. \A f \in Files \ b : <<"remote", f>> \notin Hash!Remote(b) BY DEF Hash!Remote
  <1>4. \A i \in Hash!Remote(b) : hash[i].at = "batch" BY DEF HashInv, HashPending, Hash!Remote
  <1>5. ASSUME NEW h, hash' = h, \A i \in Hash!Items : i \notin Hash!Remote(b) => h[i] = hash[i],
               h \in [Hash!Items -> HashRecord], \A i \in Hash!Items : h[i].since <= clock,
               \A i \in Hash!Remote(b) : h[i].at \in {"failed", "queued"},
               batches' = batches \ {b}, running' = running
        PROVE  HashInv'
    <2>1. \A i \in Hash!Items : h[i].at = "done" => h[i] = hash[i] \/ h[i].sum = disk[i].content
      BY <1>5
    <2>2. \A i \in Hash!Items : h[i].at \in {"batch", "queued", "reading"}
                                => hash[i].at \in {"batch", "queued", "reading"}
      BY <1>4, <1>5
    <2>3. UNCHANGED <<disk, clock, localCache, quiet, asked, answer>> BY <1>1
    <2>4. h \in [Hash!Items -> HashRecord] /\ \A i \in Hash!Items : h[i].since <= clock BY <1>5
    <2>5. /\ CacheInv' /\ QuietSums' /\ Hash!AnswersAreTrue'
          /\ \A i \in Hash!Items : hash'[i].at \in {"batch", "queued", "reading"}
                                   => asked' = Files /\ answer'[i[2]] = "none"
      BY ONLY HashInv, hash' = h, <2>1, <2>2, <2>3, <2>4, <1>5, HashMoves
    <2>6. \A f \in Files \ b : h[<<"remote", f>>] = hash[<<"remote", f>>] BY <1>3, <1>5, ItemsArePairs
    <2>7. /\ \A a \in batches' : \A f \in a : hash'[<<"remote", f>>].at = "batch"
          /\ \A a, c \in batches' : a = c \/ a \cap c = {}
      BY <1>5, <2>6, BatchEnds
    <2>8. HashPending' BY <2>5, <2>7 DEF HashPending, Hash!Items, Hash!Sides
    <2>9. HashTypes'
      <3>1. running' \subseteq batches' /\ batches' \subseteq batches BY <1>1, <1>5, HashFacts
      <3>2. \A i \in Hash!Items : h[i].at \in {"none", "batch", "queued", "reading", "done", "failed"}
        BY <2>4 DEF HashRecord
      <3> QED BY <1>1, <1>5, <2>4, <3>1, <3>2
            DEF HashInv, HashTypes, Hash!TypeOK, Hash!Items, Hash!Sides, HashRecord, Hash!Keys
    <2> QED BY <2>5, <2>8, <2>9 DEF HashInv
  <1>6. CASE cancelled
    <2>1. PICK h : h = [i \in Hash!Items |-> IF i \in Hash!Remote(b) THEN [hash[i] EXCEPT !.at = "failed"] ELSE hash[i]]
      OBVIOUS
    <2>2. hash' = h /\ batches' = batches \ {b} /\ running' = running
      BY <1>6, <2>1 DEF Hash!StartBatch, Hash!Fail
    <2>3. \A i \in Hash!Items : /\ i \notin Hash!Remote(b) => h[i] = hash[i]
                                /\ h[i] \in HashRecord /\ h[i].since = hash[i].since
                                /\ i \in Hash!Remote(b) => h[i].at = "failed"
      BY <2>1, HashFacts DEF HashRecord
    <2>4. h \in [Hash!Items -> HashRecord] BY <2>1, <2>3
    <2>5. \A i \in Hash!Items : h[i].since <= clock BY <2>3 DEF HashInv, CacheInv
    <2> QED BY <1>2, <1>5, <2>2, <2>3, <2>4, <2>5
  <1>7. CASE ~ cancelled /\ tool = "none"
    <2>1. PICK h : h = [i \in Hash!Items |-> IF i \in Hash!Remote(b)
                                             THEN [hash[i] EXCEPT !.at = "queued", !.since = clock]
                                             ELSE hash[i]]
      OBVIOUS
    <2>2. hash' = h /\ batches' = batches \ {b} /\ running' = running
      BY <1>7, <2>1 DEF Hash!StartBatch, Hash!StreamAll
    <2>3. \A i \in Hash!Items : /\ i \notin Hash!Remote(b) => h[i] = hash[i]
                                /\ h[i] \in HashRecord /\ h[i].since \in {clock, hash[i].since}
                                /\ i \in Hash!Remote(b) => h[i].at = "queued"
      BY <2>1, HashFacts, ZenonT(60) DEF HashRecord
    <2>4. h \in [Hash!Items -> HashRecord] BY <2>1, <2>3
    <2>5. \A i \in Hash!Items : h[i].since <= clock BY <2>3, HashFacts DEF HashInv, CacheInv
    <2> QED BY <1>2, <1>5, <2>2, <2>3, <2>4, <2>5
  <1>8. CASE ~ cancelled /\ tool # "none"
    <2>1. hash' = hash /\ batches' = batches /\ running' = running \cup {b}
      BY <1>8 DEF Hash!StartBatch
    <2>2. HashTypes' BY <1>1, <2>1 DEF HashInv, HashTypes, Hash!TypeOK, Hash!Items, Hash!Sides, HashRecord, Hash!Keys
    <2>3. HashPending' BY <1>1, <2>1 DEF HashInv, HashPending, Hash!Items, Hash!Sides
    <2>4. CacheInv' /\ QuietSums' /\ Hash!AnswersAreTrue'
      BY <1>1, <2>1 DEF HashInv, CacheInv, QuietSums, Hash!AnswersAreTrue, Hash!CacheIsSound, Hash!KeyOf, Hash!Items, Hash!Sides
    <2> QED BY <2>2, <2>3, <2>4 DEF HashInv
  <1> QED BY <1>6, <1>7, <1>8

LEMMA ServerKeeps ==
    ASSUME HashInv, NEW b \in batches, Hash!ServerHashes(b) \/ Hash!ServerCannot(b)
    PROVE  HashInv'
  <1>1. /\ b \in running /\ batches' = batches \ {b} /\ running' = running \ {b}
        /\ tool' \in {"none", "known"}
        /\ UNCHANGED <<clock, disk, localCache, hashers, cancelled, asked, answer, writes, quiet>>
    BY DEF Hash!ServerHashes, Hash!ServerCannot, Hash!BatchOver
  <1>2. Hash!Remote(b) \subseteq Hash!Items /\ b \subseteq Files
    BY HashFacts, ItemsArePairs DEF Hash!Remote
  <1>3. \A f \in Files \ b : <<"remote", f>> \notin Hash!Remote(b) BY DEF Hash!Remote
  <1>4. \A i \in Hash!Remote(b) : hash[i].at = "batch" BY DEF HashInv, HashPending, Hash!Remote
  <1>5. \A i \in Hash!Items : hash[i].since <= clock BY DEF HashInv, CacheInv
  <1>6. ASSUME NEW h, hash' = h, \A i \in Hash!Items : i \notin Hash!Remote(b) => h[i] = hash[i],
               h \in [Hash!Items -> HashRecord], \A i \in Hash!Items : h[i].since <= clock,
               \A i \in Hash!Items : h[i].at = "done" => h[i] = hash[i] \/ h[i].sum = disk[i].content
        PROVE  HashInv'
    <2>1. \A i \in Hash!Items : h[i].at = "done" => h[i] = hash[i] \/ h[i].sum = disk[i].content
      BY <1>6
    <2>2. \A i \in Hash!Items : h[i].at \in {"batch", "queued", "reading"}
                                => hash[i].at \in {"batch", "queued", "reading"}
      BY <1>4, <1>6
    <2>3. UNCHANGED <<disk, clock, localCache, quiet, asked, answer>> BY <1>1
    <2>4. h \in [Hash!Items -> HashRecord] /\ \A i \in Hash!Items : h[i].since <= clock BY <1>6
    <2>5. /\ CacheInv' /\ QuietSums' /\ Hash!AnswersAreTrue'
          /\ \A i \in Hash!Items : hash'[i].at \in {"batch", "queued", "reading"}
                                   => asked' = Files /\ answer'[i[2]] = "none"
      BY ONLY HashInv, hash' = h, <2>1, <2>2, <2>3, <2>4, <1>6, HashMoves
    <2>6. \A f \in Files \ b : h[<<"remote", f>>] = hash[<<"remote", f>>] BY <1>3, <1>6, ItemsArePairs
    <2>7. /\ \A a \in batches' : \A f \in a : hash'[<<"remote", f>>].at = "batch"
          /\ \A a, c \in batches' : a = c \/ a \cap c = {}
      BY <1>1, <1>6, <2>6, BatchEnds
    <2>8. HashPending' BY <2>5, <2>7 DEF HashPending, Hash!Items, Hash!Sides
    <2>9. HashTypes'
      <3>1. running' \subseteq batches' /\ batches' \subseteq batches BY <1>1, HashFacts
      <3>2. \A i \in Hash!Items : h[i].at \in {"none", "batch", "queued", "reading", "done", "failed"}
        BY <2>4 DEF HashRecord
      <3> QED BY <1>1, <1>6, <2>4, <3>1, <3>2
            DEF HashInv, HashTypes, Hash!TypeOK, Hash!Items, Hash!Sides, HashRecord, Hash!Keys
    <2> QED BY <2>5, <2>8, <2>9 DEF HashInv
  <1>7. CASE Hash!ServerHashes(b)
    <2>1. PICK h : h = [i \in Hash!Items |-> IF i \in Hash!Remote(b)
                                             THEN [hash[i] EXCEPT !.at = "done", !.sum = Hash!DigestOf(b, i[2])]
                                             ELSE hash[i]]
      OBVIOUS
    <2>2. hash' = h BY <1>7, <2>1 DEF Hash!ServerHashes
    <2>3. \A i \in Hash!Remote(b) : Hash!DigestOf(b, i[2]) = disk[i].content /\ disk[i].content \in Contents
      BY <1>2, HashFacts, SMTT(40) DEF Hash!DigestOf, Hash!Remote
    <2>4. \A i \in Hash!Items : /\ i \notin Hash!Remote(b) => h[i] = hash[i]
                                /\ h[i] \in HashRecord /\ h[i].since = hash[i].since
                                /\ i \in Hash!Remote(b) => h[i].sum = disk[i].content
      BY <2>1, <2>3, HashFacts, ZenonT(60) DEF HashRecord
    <2>5. h \in [Hash!Items -> HashRecord] BY <2>1, <2>4
    <2>6. \A i \in Hash!Items : h[i].since <= clock BY <1>5, <2>4
    <2>7. \A i \in Hash!Items : h[i].at = "done" => h[i] = hash[i] \/ h[i].sum = disk[i].content
      BY <2>4
    <2> QED BY <1>6, <2>2, <2>4, <2>5, <2>6, <2>7
  <1>8. CASE Hash!ServerCannot(b)
    <2>1. PICK h : h = [i \in Hash!Items |-> IF i \in Hash!Remote(b)
                                             THEN [hash[i] EXCEPT !.at = "queued", !.since = clock]
                                             ELSE hash[i]]
      OBVIOUS
    <2>2. hash' = h BY <1>8, <2>1 DEF Hash!ServerCannot, Hash!StreamAll
    <2>3. \A i \in Hash!Items : /\ i \notin Hash!Remote(b) => h[i] = hash[i]
                                /\ h[i] \in HashRecord /\ h[i].since \in {clock, hash[i].since}
                                /\ i \in Hash!Remote(b) => h[i].at = "queued"
      BY <2>1, HashFacts, ZenonT(60) DEF HashRecord
    <2>4. h \in [Hash!Items -> HashRecord] BY <2>1, <2>3
    <2>5. \A i \in Hash!Items : h[i].since <= clock BY <1>5, <2>3, HashFacts
    <2>6. \A i \in Hash!Items : h[i].at = "done" => h[i] = hash[i] \/ h[i].sum = disk[i].content
      BY <2>3
    <2> QED BY <1>6, <2>2, <2>3, <2>4, <2>5, <2>6
  <1> QED BY <1>7, <1>8

(* The hash of one file is begun, read or given up.                                *)
LEMMA OneHashMoves ==
    ASSUME HashInv, NEW j \in Hash!Items, NEW r \in HashRecord, hash' = [hash EXCEPT ![j] = r],
           hash[j].at \in {"queued", "reading"}, r.at \in {"reading", "done", "failed"},
           r.since = hash[j].since, r.at = "done" => r.sum = disk[j].content,
           UNCHANGED <<clock, disk, tool, hashers, cancelled, batches, running, asked, answer, writes, quiet>>
    PROVE  /\ HashPending' /\ QuietSums' /\ Hash!AnswersAreTrue'
           /\ hash' \in [Hash!Items -> HashRecord]
           /\ \A i \in Hash!Items : hash'[i].since <= clock'
  <1>1. PICK h : h = [hash EXCEPT ![j] = r] OBVIOUS
  <1>2. h \in [Hash!Items -> HashRecord] /\ \A i \in Hash!Items : h[i] = IF i = j THEN r ELSE hash[i]
    BY <1>1, HashFacts
  <1>3. hash' = h BY <1>1
  <1>4. HashPending'
    <2>1. \A i \in Hash!Items : h[i].at \in {"batch", "queued", "reading"}
                                => asked = Files /\ answer[i[2]] = "none"
      BY <1>2 DEF HashInv, HashPending
    <2>2. ASSUME NEW b \in batches, NEW f \in b PROVE h[<<"remote", f>>].at = "batch"
      <3>1. hash[<<"remote", f>>].at = "batch" /\ f \in Files BY HashFacts DEF HashInv, HashPending
      <3>2. <<"remote", f>> \in Hash!Items /\ <<"remote", f>> # j BY <3>1, ItemsArePairs
      <3> QED BY <1>2, <3>1, <3>2
    <2>3. \A a, b \in batches : a = b \/ a \cap b = {} BY DEF HashInv, HashPending
    <2> QED BY <1>3, <2>1, <2>2, <2>3 DEF HashPending, Hash!Items, Hash!Sides
  <1>5. QuietSums'
    <2>1. quiet => \A i \in Hash!Items : h[i].at = "done" => h[i].sum = disk[i].content
      BY <1>2 DEF HashInv, QuietSums
    <2> QED BY <1>3, <2>1 DEF QuietSums, Hash!Items, Hash!Sides
  <1>6. Hash!AnswersAreTrue' BY DEF HashInv, Hash!AnswersAreTrue
  <1>7. \A i \in Hash!Items : h[i].since <= clock BY <1>2 DEF HashInv, CacheInv
  <1> QED BY <1>2, <1>3, <1>4, <1>5, <1>6, <1>7

LEMMA StreamKeeps ==
    ASSUME HashInv, NEW j \in Hash!Items,
           Hash!StartStream(j) \/ Hash!Stream(j) \/ Hash!StreamFails(j)
    PROVE  HashInv'
  <1>1. UNCHANGED <<clock, disk, tool, hashers, cancelled, batches, running, asked, answer, writes, quiet>>
        /\ hash[j].at \in {"queued", "reading"}
    BY DEF Hash!StartStream, Hash!Stream, Hash!StreamFails
  <1>2. hash[j] \in HashRecord /\ disk[j].content \in Contents BY HashFacts
  <1>3. \E r \in HashRecord : /\ hash' = [hash EXCEPT ![j] = r] /\ r.at \in {"reading", "done", "failed"}
                              /\ r.since = hash[j].since /\ (r.at = "done" => r.sum = disk[j].content)
    <2>1. CASE Hash!StartStream(j)
      <3>1. PICK a \in {"failed", "reading"} : hash' = [hash EXCEPT ![j] = [hash[j] EXCEPT !.at = a]]
        BY <2>1 DEF Hash!StartStream
      <3>2. [hash[j] EXCEPT !.at = a] \in HashRecord BY <1>2 DEF HashRecord
      <3>3. [hash[j] EXCEPT !.at = a].at = a /\ [hash[j] EXCEPT !.at = a].since = hash[j].since
        BY <1>2 DEF HashRecord
      <3> QED BY <3>1, <3>2, <3>3
    <2>2. CASE Hash!Stream(j)
      <3>1. PICK r : r = [hash[j] EXCEPT !.at = "done", !.sum = disk[j].content] OBVIOUS
      <3>2. r \in HashRecord /\ r.at = "done" /\ r.since = hash[j].since /\ r.sum = disk[j].content
        BY <1>2, <3>1 DEF HashRecord
      <3>3. hash' = [hash EXCEPT ![j] = r]
        BY <1>2, <2>2, <3>1, HashFacts DEF Hash!Stream, HashRecord
      <3> QED BY <3>2, <3>3
    <2>3. CASE Hash!StreamFails(j)
      <3>1. PICK r : r = [hash[j] EXCEPT !.at = "failed"] OBVIOUS
      <3>2. r \in HashRecord /\ r.at = "failed" /\ r.since = hash[j].since
        BY <1>2, <3>1 DEF HashRecord
      <3>3. hash' = [i \in Hash!Items |-> IF i = j THEN r ELSE hash[i]]
        BY <2>3, <3>1 DEF Hash!StreamFails, Hash!Fail
      <3>4. hash' = [hash EXCEPT ![j] = r] BY <3>3, HashFacts
      <3> QED BY <3>2, <3>4
    <2> QED BY <2>1, <2>2, <2>3
  <1>4. /\ HashPending' /\ QuietSums' /\ Hash!AnswersAreTrue'
        /\ hash' \in [Hash!Items -> HashRecord]
        /\ \A i \in Hash!Items : hash'[i].since <= clock'
    <2>1. PICK r \in HashRecord :
            /\ hash' = [hash EXCEPT ![j] = r] /\ r.at \in {"reading", "done", "failed"}
            /\ r.since = hash[j].since /\ (r.at = "done" => r.sum = disk[j].content)
      BY <1>3
    <2> QED BY ONLY HashInv, <1>1, <2>1, j \in Hash!Items, r \in HashRecord, OneHashMoves
  <1>5. CASE localCache' = localCache
    <2>1. CacheInv'
      BY <1>1, <1>4, <1>5 DEF HashInv, CacheInv, Hash!CacheIsSound, Hash!KeyOf, Hash!Items, Hash!Sides
    <2>2. \A i \in Hash!Items : hash'[i].at \in {"none", "batch", "queued", "reading", "done", "failed"}
      BY <1>4 DEF HashRecord
    <2>3. HashTypes'
      BY <1>1, <1>4, <1>5, <2>2 DEF HashInv, HashTypes, Hash!TypeOK, Hash!Items, Hash!Sides, HashRecord, Hash!Keys
    <2> QED BY <1>4, <2>1, <2>3 DEF HashInv
  <1>6. CASE localCache' # localCache
    <2>1. Hash!Stream(j) /\ Hash!Remembers(j)
      BY <1>6 DEF Hash!StartStream, Hash!Stream, Hash!StreamFails
    <2>2. PICK e : e = [file |-> j[2], key |-> hash[j].key, sum |-> disk[j].content] OBVIOUS
    <2>3. \A c \in localCache' : c \in localCache \/ c = e BY <2>1, <2>2 DEF Hash!Stream
    <2>4. /\ j[1] = "local" /\ hash[j].since > hash[j].key.mtime /\ j = <<"local", j[2]>> /\ j[2] \in Files
      BY <2>1, ItemsArePairs DEF Hash!Remembers
    <2>5. e.file \in Files /\ e.key \in Hash!Keys /\ e.sum \in Contents /\ e.key.mtime \in Nat
      BY <1>2, <2>2, <2>4, HashConstants DEF HashRecord, Hash!Keys
    <2>6. e.key.mtime < clock
      <3>1. hash[j].since <= clock BY DEF HashInv, CacheInv
      <3>2. hash[j].since \in Nat BY <1>2, HashConstants DEF HashRecord
      <3> QED BY <2>2, <2>4, <2>5, <3>1, <3>2, HashFacts
    <2>7. disk[<<"local", e.file>>].content = e.sum BY <2>2, <2>4
    <2>8. CacheInv'
      <3>1. ASSUME NEW c \in localCache'
            PROVE  c.key.mtime < clock /\ (Hash!KeyOf(<<"local", c.file>>) = c.key
                                           => disk[<<"local", c.file>>].content = c.sum)
        <4>1. CASE c \in localCache BY <4>1 DEF HashInv, CacheInv, Hash!CacheIsSound
        <4>2. CASE c = e BY <2>6, <2>7, <4>2
        <4> QED BY <2>3, <4>1, <4>2
      <3> QED BY <1>1, <1>4, <3>1 DEF CacheInv, Hash!CacheIsSound, Hash!KeyOf, Hash!Items, Hash!Sides
    <2>9. \A i \in Hash!Items : hash'[i].at \in {"none", "batch", "queued", "reading", "done", "failed"}
      BY <1>4 DEF HashRecord
    <2>10. \A c \in localCache' : c.file \in Files /\ c.key \in Hash!Keys /\ c.sum \in Contents
      BY <2>3, <2>5 DEF HashInv, HashTypes, Hash!TypeOK
    <2>11. HashTypes'
      BY <1>1, <1>4, <2>9, <2>10
         DEF HashInv, HashTypes, Hash!TypeOK, Hash!Items, Hash!Sides, HashRecord, Hash!Keys
    <2> QED BY <1>4, <2>8, <2>11 DEF HashInv
  <1> QED BY <1>5, <1>6

LEMMA NewHasherKeeps ==
    ASSUME HashInv, Hash!NewHasher
    PROVE  HashInv'
  <1>1. /\ asked = {} /\ hashers < MaxHashers /\ hashers' = hashers + 1
        /\ hash' = [i \in Hash!Items |-> Hash!NoHash] /\ cancelled' = FALSE /\ quiet' = TRUE
        /\ answer' = [f \in Files |-> "none"]
        /\ UNCHANGED <<clock, disk, localCache, tool, batches, running, asked, writes>>
    BY DEF Hash!NewHasher
  <1>2. Hash!NoHash \in HashRecord /\ Hash!NoHash.at = "none" /\ Hash!NoHash.since = 0
    BY HashConstants DEF HashRecord, Hash!NoHash, Hash!Keys
  <1>3. \A i \in Hash!Items : hash'[i] = Hash!NoHash BY <1>1
  <1>4. batches = {}
    <2>1. ASSUME NEW b \in batches PROVE FALSE
      <3>1. PICK f \in b : f \in Files BY HashFacts
      <3>2. hash[<<"remote", f>>].at = "batch" BY DEF HashInv, HashPending
      <3>3. asked = Files BY <3>1, <3>2, ItemsArePairs DEF HashInv, HashPending
      <3> QED BY <1>1, <3>1, <3>3
    <2> QED BY <2>1
  <1>5. HashTypes'
    <2>1. hash' \in [Hash!Items -> HashRecord] BY <1>1, <1>2
    <2>2. answer' \in [Files -> {"none", "same", "differs", "error"}] BY <1>1
    <2>3. hashers' \in 0..MaxHashers
      <3>1. hashers \in 0..MaxHashers BY DEF HashInv, HashTypes, Hash!TypeOK
      <3> QED BY <1>1, <3>1, HashConstants
    <2> QED BY <1>1, <1>2, <1>3, <2>1, <2>2, <2>3
          DEF HashInv, HashTypes, Hash!TypeOK, Hash!Items, Hash!Sides, HashRecord, Hash!Keys
  <1>6. HashPending' BY <1>1, <1>2, <1>3, <1>4 DEF HashPending, Hash!Items, Hash!Sides
  <1>7. CacheInv'
    <2>1. \A i \in Hash!Items : hash'[i].since <= clock' BY <1>1, <1>2, <1>3, HashFacts
    <2> QED BY <1>1, <2>1 DEF HashInv, CacheInv, Hash!CacheIsSound, Hash!KeyOf, Hash!Items, Hash!Sides
  <1>8. QuietSums' BY <1>2, <1>3 DEF QuietSums, Hash!Items, Hash!Sides
  <1>9. Hash!AnswersAreTrue' BY <1>1 DEF Hash!AnswersAreTrue
  <1> QED BY <1>5, <1>6, <1>7, <1>8, <1>9 DEF HashInv

(* What is scheduled of a file is a hash of its content, if it is there already.    *)
LEMMA ScheduledIsTrue ==
    ASSUME HashInv, NEW i \in Hash!Items, NEW r, r = Hash!Scheduled(i)
    PROVE  /\ r \in HashRecord /\ r.since <= clock
           /\ quiet /\ r.at = "done" => r.sum = disk[i].content
  <1>1. Hash!KeyOf(i) \in Hash!Keys BY KeyOfFile
  <1>2. clock \in 0..MaxClock /\ clock \in Nat /\ hash[i] \in HashRecord BY HashFacts
  <1>3. PICK fresh : fresh = [Hash!NoHash EXCEPT !.key = Hash!KeyOf(i), !.since = clock] OBVIOUS
  <1>4. fresh = [at |-> "none", key |-> Hash!KeyOf(i), since |-> clock, sum |-> "none"]
    BY <1>3 DEF Hash!NoHash
  <1>5. CASE hash[i].at # "none" /\ hash[i].key = Hash!KeyOf(i)
    <2>1. r = hash[i] BY <1>5 DEF Hash!Scheduled
    <2> QED BY <1>2, <2>1 DEF HashInv, CacheInv, QuietSums
  <1>6. CASE ~ (hash[i].at # "none" /\ hash[i].key = Hash!KeyOf(i)) /\ Hash!Cached(i) # {}
    <2>1. PICK c \in Hash!Cached(i) : c = CHOOSE d \in Hash!Cached(i) : TRUE BY <1>6
    <2>2. c \in localCache /\ i[1] = "local" /\ c.file = i[2] /\ c.key = Hash!KeyOf(i)
      BY <2>1 DEF Hash!Cached
    <2>3. r = [fresh EXCEPT !.at = "done", !.sum = c.sum] BY <1>3, <1>6, <2>1 DEF Hash!Scheduled
    <2>4. i = <<"local", c.file>> BY <2>2, ItemsArePairs
    <2>5. c.sum \in Contents BY <2>2 DEF HashInv, HashTypes, Hash!TypeOK
    <2>6. disk[i].content = c.sum BY <2>2, <2>4 DEF HashInv, CacheInv, Hash!CacheIsSound
    <2>7. r = [at |-> "done", key |-> Hash!KeyOf(i), since |-> clock, sum |-> c.sum] BY <1>4, <2>3
    <2> QED BY <1>1, <1>2, <2>5, <2>6, <2>7 DEF HashRecord
  <1>7. CASE ~ (hash[i].at # "none" /\ hash[i].key = Hash!KeyOf(i)) /\ Hash!Cached(i) = {}
    <2>1. PICK a \in {"batch", "queued"} : r = [fresh EXCEPT !.at = a]
      BY <1>3, <1>7 DEF Hash!Scheduled
    <2>2. r = [at |-> a, key |-> Hash!KeyOf(i), since |-> clock, sum |-> "none"] BY <1>4, <2>1
    <2> QED BY <1>1, <1>2, <2>2 DEF HashRecord
  <1> QED BY <1>5, <1>6, <1>7

LEMMA CompareKeeps ==
    ASSUME HashInv, Hash!Compare
    PROVE  HashInv'
  <1> DEFINE needed == {i \in Hash!Items :
                          Hash!KeyOf(<<"local", i[2]>>).size = Hash!KeyOf(<<"remote", i[2]>>).size}
  <1>1. PICK h : h = [i \in Hash!Items |-> IF i \in needed THEN Hash!Scheduled(i) ELSE hash[i]] OBVIOUS
  <1>2. PICK todo : todo = {f \in Files : h[<<"remote", f>>].at = "batch"} OBVIOUS
  <1>3. /\ asked = {} /\ asked' = Files /\ hash' = h /\ batches' = Hash!Batches(todo)
        /\ answer' = [f \in Files |-> IF <<"local", f>> \in needed THEN "none" ELSE "differs"]
        /\ UNCHANGED <<clock, disk, localCache, tool, running, hashers, cancelled, writes, quiet>>
    BY <1>1, <1>2 DEF Hash!Compare
  <1> HIDE DEF needed
  <1>4. \A i \in Hash!Items : /\ h[i] \in HashRecord /\ h[i].since <= clock
                              /\ quiet /\ h[i].at = "done" => h[i].sum = disk[i].content
                              /\ i \notin needed => h[i] = hash[i]
    <2>1. ASSUME NEW i \in Hash!Items, i \in needed
          PROVE  h[i] \in HashRecord /\ h[i].since <= clock
                 /\ (quiet /\ h[i].at = "done" => h[i].sum = disk[i].content)
      <3>1. h[i] = Hash!Scheduled(i) BY <1>1, <2>1
      <3> QED BY <3>1, ScheduledIsTrue
    <2>2. ASSUME NEW i \in Hash!Items, i \notin needed
          PROVE  h[i] = hash[i] /\ h[i] \in HashRecord /\ h[i].since <= clock
                 /\ (quiet /\ h[i].at = "done" => h[i].sum = disk[i].content)
      <3>1. h[i] = hash[i] BY <1>1, <2>2
      <3> QED BY <3>1, HashFacts DEF HashInv, CacheInv, QuietSums
    <2> QED BY <2>1, <2>2
  <1>5. h \in [Hash!Items -> HashRecord] BY <1>1, <1>4
  <1>6. \A f \in Files : <<"local", f>> \in needed <=> <<"remote", f>> \in needed
    BY ItemsArePairs DEF needed
  <1>7. Files # {} => \A i \in Hash!Items : hash[i].at \notin {"batch", "queued", "reading"}
    BY <1>3 DEF HashInv, HashPending
  <1>8. \A i \in Hash!Items : h[i].at \in {"batch", "queued", "reading"} => i \in needed
    <2>1. \A i \in Hash!Items : i[2] \in Files BY ItemsArePairs
    <2> QED BY <1>4, <1>7, <2>1
  <1>9. \A i \in Hash!Items : i \in needed => <<"local", i[2]>> \in needed
    BY <1>6, ItemsArePairs
  <1>10. batches = {}
    <2>1. ASSUME NEW b \in batches PROVE FALSE
      <3>1. PICK f \in b : f \in Files BY HashFacts
      <3>2. hash[<<"remote", f>>].at = "batch" BY DEF HashInv, HashPending
      <3> QED BY <1>7, <3>1, <3>2, ItemsArePairs
    <2> QED BY <2>1
  <1>11. todo \subseteq Files BY <1>2
  <1>12. /\ \A b \in batches' : b \subseteq todo /\ Hash!Cardinality(b) \in 1..MaxBatch
         /\ \A a, b \in batches' : a = b \/ a \cap b = {}
    BY <1>3, <1>11, BatchesFit
  <1>13. HashTypes'
    <2>1. running' = {} /\ running' \subseteq batches' BY <1>3, <1>10, HashFacts
    <2>2. answer' \in [Files -> {"none", "same", "differs", "error"}] BY <1>3
    <2>3. \A i \in Hash!Items : h[i].at \in {"none", "batch", "queued", "reading", "done", "failed"}
      BY <1>4 DEF HashRecord
    <2>4. \A b \in batches' : b \subseteq Files /\ Hash!Cardinality(b) \in 1..MaxBatch BY <1>11, <1>12
    <2> QED BY <1>3, <1>5, <2>1, <2>2, <2>3, <2>4
          DEF HashInv, HashTypes, Hash!TypeOK, Hash!Items, Hash!Sides, HashRecord, Hash!Keys,
              Hash!Cardinality
  <1>14. HashPending'
    <2>1. ASSUME NEW i \in Hash!Items, h[i].at \in {"batch", "queued", "reading"}
          PROVE  asked' = Files /\ answer'[i[2]] = "none"
      <3>1. <<"local", i[2]>> \in needed /\ i[2] \in Files BY <1>8, <1>9, <2>1, ItemsArePairs
      <3> QED BY <1>3, <3>1
    <2>2. \A b \in batches' : \A f \in b : h[<<"remote", f>>].at = "batch" BY <1>2, <1>12
    <2> QED BY <1>3, <1>12, <2>1, <2>2 DEF HashPending, Hash!Items, Hash!Sides
  <1>15. CacheInv'
    BY <1>3, <1>4 DEF HashInv, CacheInv, Hash!CacheIsSound, Hash!KeyOf, Hash!Items, Hash!Sides
  <1>16. QuietSums' BY <1>3, <1>4 DEF QuietSums, Hash!Items, Hash!Sides
  <1>17. Hash!AnswersAreTrue'
    <2>1. ASSUME NEW f \in Files, answer'[f] \in {"same", "differs"}
          PROVE  answer'[f] = "differs" /\ disk[<<"local", f>>].content # disk[<<"remote", f>>].content
      <3>1. <<"local", f>> \notin needed /\ answer'[f] = "differs" BY <1>3, <2>1
      <3>2. <<"local", f>> \in Hash!Items /\ <<"remote", f>> \in Hash!Items BY ItemsArePairs
      <3>3. Hash!KeyOf(<<"local", f>>).size # Hash!KeyOf(<<"remote", f>>).size
        BY <3>1, <3>2 DEF needed
      <3>4. SizeOf[disk[<<"local", f>>].content] # SizeOf[disk[<<"remote", f>>].content]
        BY <3>3 DEF Hash!KeyOf
      <3> QED BY <3>1, <3>4
    <2> QED BY <1>3, <2>1 DEF Hash!AnswersAreTrue
  <1> QED BY <1>13, <1>14, <1>15, <1>16, <1>17 DEF HashInv

LEMMA AnswerKeeps ==
    ASSUME HashInv, Hash!Answer
    PROVE  HashInv'
  <1>1. /\ asked # {} /\ asked' = {} /\ answer' = [f \in Files |-> Hash!Outcome(f)]
        /\ \A f \in asked : answer[f] = "none" => \A s \in Hash!Sides : hash[<<s, f>>].at \in {"done", "failed"}
        /\ UNCHANGED <<clock, disk, localCache, tool, running, hashers, cancelled, hash, batches, writes, quiet>>
    BY DEF Hash!Answer
  <1>2. asked = Files BY <1>1 DEF HashInv, HashTypes
  <1>3. \A i \in Hash!Items : hash[i].at \notin {"batch", "queued", "reading"}
    <2>1. ASSUME NEW i \in Hash!Items, hash[i].at \in {"batch", "queued", "reading"} PROVE FALSE
      <3>1. answer[i[2]] = "none" BY <2>1 DEF HashInv, HashPending
      <3>2. i[2] \in Files /\ i[1] \in Hash!Sides /\ i = <<i[1], i[2]>>
        BY ItemsArePairs DEF Hash!Sides
      <3>3. hash[<<i[1], i[2]>>].at \in {"done", "failed"} BY <1>1, <1>2, <3>1, <3>2
      <3> QED BY <2>1, <3>2, <3>3
    <2> QED BY <2>1
  <1>4. \A f \in Files : Hash!Outcome(f) \in {"none", "same", "differs", "error"}
    BY HashFacts DEF Hash!Outcome
  <1>5. HashTypes'
    <2>1. answer' \in [Files -> {"none", "same", "differs", "error"}] BY <1>1, <1>4
    <2> QED BY <1>1, <2>1 DEF HashInv, HashTypes, Hash!TypeOK, Hash!Items, Hash!Sides, HashRecord, Hash!Keys
  <1>6. HashPending' BY <1>1, <1>3 DEF HashInv, HashPending, Hash!Items, Hash!Sides
  <1>7. CacheInv' /\ QuietSums'
    BY <1>1 DEF HashInv, CacheInv, QuietSums, Hash!CacheIsSound, Hash!KeyOf, Hash!Items, Hash!Sides
  <1>8. Hash!AnswersAreTrue'
    <2>1. ASSUME quiet, NEW f \in Files, answer'[f] \in {"same", "differs"}
          PROVE  answer'[f] = "same" <=> disk[<<"local", f>>].content = disk[<<"remote", f>>].content
      <3>1. answer'[f] = Hash!Outcome(f) BY <1>1
      <3>2. CASE answer[f] # "none"
        BY <2>1, <3>1, <3>2 DEF HashInv, Hash!AnswersAreTrue, Hash!Outcome
      <3>3. CASE answer[f] = "none"
        <4>1. /\ hash[<<"local", f>>].at \in {"done", "failed"}
              /\ hash[<<"remote", f>>].at \in {"done", "failed"}
          BY <1>1, <1>2, <3>3 DEF Hash!Sides
        <4>2. hash[<<"local", f>>].at = "done" /\ hash[<<"remote", f>>].at = "done"
          BY <2>1, <3>1, <3>3, <4>1 DEF Hash!Outcome
        <4>3. /\ hash[<<"local", f>>].sum = disk[<<"local", f>>].content
              /\ hash[<<"remote", f>>].sum = disk[<<"remote", f>>].content
          BY <2>1, <4>2, ItemsArePairs DEF HashInv, QuietSums
        <4> QED BY <3>1, <3>3, <4>2, <4>3 DEF Hash!Outcome
      <3> QED BY <3>2, <3>3
    <2> QED BY <1>1, <2>1 DEF Hash!AnswersAreTrue
  <1> QED BY <1>5, <1>6, <1>7, <1>8 DEF HashInv

(* A file that is saved has a time that no remembered hash is of.                  *)
LEMMA WriteKeeps ==
    ASSUME HashInv, NEW j \in Hash!Items, NEW c \in Contents, Hash!Write(j, c)
    PROVE  HashInv'
  <1>1. /\ writes < MaxWrites /\ writes' = writes + 1 /\ quiet' = FALSE
        /\ disk' = [disk EXCEPT ![j] = [content |-> c, mtime |-> clock]]
        /\ UNCHANGED <<clock, localCache, tool, hashers, cancelled, hash, batches, running, asked, answer>>
    BY DEF Hash!Write
  <1>2. \A i \in Hash!Items : disk'[i] = IF i = j THEN [content |-> c, mtime |-> clock] ELSE disk[i]
    BY <1>1, HashFacts
  <1>3. HashTypes'
    <2>1. disk' \in [Hash!Items -> [content : Contents, mtime : 0..MaxClock]]
      BY <1>1, HashFacts
    <2>2. \A i \in Hash!Items : disk'[i].content \in Contents /\ disk'[i].mtime \in 0..clock
      BY <1>2, HashFacts DEF HashInv, HashTypes, Hash!TypeOK
    <2>3. writes' \in 0..MaxWrites
      <3>1. writes \in 0..MaxWrites BY DEF HashInv, HashTypes, Hash!TypeOK
      <3> QED BY <1>1, <3>1, HashConstants
    <2>4. DOMAIN disk' = Hash!Items BY <2>1
    <2> QED BY <1>1, <2>1, <2>2, <2>3, <2>4
          DEF HashInv, HashTypes, Hash!TypeOK, Hash!Items, Hash!Sides, HashRecord, Hash!Keys
  <1>4. HashPending' BY <1>1 DEF HashInv, HashPending, Hash!Items, Hash!Sides
  <1>5. CacheInv'
    <2>1. ASSUME NEW d \in localCache,
                 [size |-> SizeOf[disk'[<<"local", d.file>>].content], mtime |-> disk'[<<"local", d.file>>].mtime] = d.key
          PROVE  disk'[<<"local", d.file>>].content = d.sum
      <3>1. PICK i \in Hash!Items : i = <<"local", d.file>>
        BY ItemsArePairs DEF HashInv, HashTypes, Hash!TypeOK
      <3>2. d.key.mtime < clock BY DEF HashInv, CacheInv
      <3>3. d.key.mtime = disk'[i].mtime BY <2>1, <3>1
      <3>4. i # j BY <1>2, <3>2, <3>3, HashFacts
      <3>5. disk'[i] = disk[i] BY <1>2, <3>4
      <3>6. Hash!KeyOf(<<"local", d.file>>) = d.key BY <2>1, <3>1, <3>5 DEF Hash!KeyOf
      <3> QED BY <3>1, <3>5, <3>6 DEF HashInv, CacheInv, Hash!CacheIsSound
    <2> QED BY <1>1, <2>1 DEF HashInv, CacheInv, Hash!CacheIsSound, Hash!KeyOf, Hash!Items, Hash!Sides
  <1>6. QuietSums' /\ Hash!AnswersAreTrue' BY <1>1 DEF QuietSums, Hash!AnswersAreTrue
  <1> QED BY <1>3, <1>4, <1>5, <1>6 DEF HashInv

LEMMA HashNext ==
    ASSUME HashInv, Hash!Next
    PROVE  HashInv'
  <1>1. ASSUME Hash!Cancel PROVE HashInv'
    <2>1. /\ cancelled' = TRUE
          /\ UNCHANGED <<clock, disk, localCache, tool, hashers, hash, batches, running, asked, answer, writes, quiet>>
      BY <1>1 DEF Hash!Cancel
    <2>2. HashTypes'
      BY <2>1 DEF HashInv, HashTypes, Hash!TypeOK, Hash!Items, Hash!Sides, HashRecord, Hash!Keys
    <2>3. HashPending' /\ CacheInv' /\ QuietSums' /\ Hash!AnswersAreTrue'
      BY <2>1 DEF HashInv, HashPending, CacheInv, QuietSums, Hash!AnswersAreTrue, Hash!CacheIsSound,
                  Hash!KeyOf, Hash!Items, Hash!Sides
    <2> QED BY <2>2, <2>3 DEF HashInv
  <1>2. ASSUME Hash!Tick PROVE HashInv'
    <2>1. /\ clock < MaxClock /\ clock' = clock + 1
          /\ UNCHANGED <<disk, localCache, tool, hashers, cancelled, hash, batches, running, asked, answer, writes, quiet>>
      BY <1>2 DEF Hash!Tick
    <2>2. clock' \in 0..MaxClock /\ clock' \in Nat BY <2>1, HashFacts
    <2>3. \A i \in Hash!Items : disk[i].mtime \in 0..clock'
      <3>1. \A i \in Hash!Items : disk[i].mtime \in 0..clock BY DEF HashInv, HashTypes, Hash!TypeOK
      <3> QED BY <2>1, <3>1, HashFacts
    <2>4. HashTypes'
      BY <2>1, <2>2, <2>3 DEF HashInv, HashTypes, Hash!TypeOK, Hash!Items, Hash!Sides, HashRecord, Hash!Keys
    <2>5. CacheInv'
      <3>1. \A i \in Hash!Items : hash[i].since <= clock'
        <4>1. \A i \in Hash!Items : hash[i].since \in Nat /\ hash[i].since <= clock
          BY HashFacts DEF HashRecord, HashInv, CacheInv
        <4> QED BY <2>1, <4>1, HashFacts
      <3>2. \A c \in localCache : c.key.mtime < clock'
        <4>1. \A c \in localCache : c.key.mtime \in Nat /\ c.key.mtime < clock
          BY HashConstants DEF HashInv, HashTypes, Hash!TypeOK, Hash!Keys, CacheInv
        <4> QED BY <2>1, <4>1, HashFacts
      <3> QED BY <2>1, <3>1, <3>2 DEF HashInv, CacheInv, Hash!CacheIsSound, Hash!KeyOf, Hash!Items, Hash!Sides
    <2>6. HashPending' /\ QuietSums' /\ Hash!AnswersAreTrue'
      BY <2>1 DEF HashInv, HashPending, QuietSums, Hash!AnswersAreTrue, Hash!Items, Hash!Sides
    <2> QED BY <2>4, <2>5, <2>6 DEF HashInv
  <1>3. ASSUME Hash!Work \/ Hash!ReadsRemote PROVE HashInv'
    <2>1. \A s \in Hash!Sides, f \in Files : <<s, f>> \in Hash!Items BY DEF Hash!Items
    <2>2. "local" \in Hash!Sides /\ "remote" \in Hash!Sides BY DEF Hash!Sides
    <2> QED BY <1>3, <2>1, <2>2, StartBatchKeeps, ServerKeeps, StreamKeeps, AnswerKeeps
            DEF Hash!Work, Hash!ReadsRemote
  <1> QED BY <1>1, <1>2, <1>3, NewHasherKeeps, CompareKeeps, WriteKeeps DEF Hash!Next

-------------------------------------------------------------------------------
(* The walk.  First the tree of paths, no deeper than three.                       *)

LEMMA PathFacts ==
    /\ Root \in Nodes /\ Walk!Paths \subseteq Nodes /\ Root \notin Walk!Paths
    /\ \A n \in Nodes : n # Root => n \in Walk!Paths
    /\ \A n \in Walk!Paths : Parent[n] \in Nodes
    /\ \A n \in Walk!Paths : Parent[n] \in Ignored => n \in Ignored
    /\ Ignored \subseteq Walk!Paths
  BY SyncingAssumption DEF Walk!WalkAssumption, Walk!Paths

LEMMA Depth ==
    ASSUME NEW n \in Walk!Paths
    PROVE  \/ Parent[n] = Root \/ Parent[Parent[n]] = Root \/ Parent[Parent[Parent[n]]] = Root
  BY SyncingAssumption DEF Walk!WalkAssumption, Walk!Paths

LEMMA ParentIsAbove ==
    ASSUME NEW n \in Walk!Paths
    PROVE  /\ Walk!Under(n, Parent[n])
           /\ \A d \in Walk!Paths : Walk!Under(n, d) => d = Parent[n] \/ Walk!Under(Parent[n], d)
           /\ \A d : Parent[n] # Root /\ Walk!Under(Parent[n], d) /\ d \in Walk!Paths => Walk!Under(n, d)
  <1>1. n # Root BY PathFacts
  <1>2. Walk!Under(n, Parent[n]) BY <1>1 DEF Walk!Under
  <1>3. ASSUME NEW d \in Walk!Paths, Walk!Under(n, d) PROVE d = Parent[n] \/ Walk!Under(Parent[n], d)
    BY <1>3 DEF Walk!Under
  <1>4. ASSUME NEW d, Parent[n] # Root, Walk!Under(Parent[n], d), d \in Walk!Paths PROVE Walk!Under(n, d)
    <2>1. CASE Parent[Parent[n]] = d BY <1>1, <1>4, <2>1 DEF Walk!Under
    <2>2. CASE Parent[Parent[n]] # Root /\ Parent[Parent[Parent[n]]] = d
      <3>1. Parent[Parent[Parent[n]]] = Root BY <1>4, <2>2, Depth
      <3> QED BY <1>4, <2>2, <3>1, PathFacts
    <2> QED BY <1>4, <2>1, <2>2 DEF Walk!Under
  <1> QED BY <1>2, <1>3, <1>4

(* What is under a path is under what that one is under.                           *)
LEMMA UnderUnder ==
    ASSUME NEW n \in Walk!Paths, NEW d \in Walk!Paths, NEW e \in Walk!Paths,
           Walk!Under(n, d), Walk!Under(d, e)
    PROVE  Walk!Under(n, e)
  <1>1. n # Root /\ d # Root /\ e # Root BY PathFacts
  <1>2. CASE Parent[n] = d BY <1>1, <1>2, ParentIsAbove
  <1>3. CASE Parent[n] # Root /\ Parent[Parent[n]] = d
    <2>1. Parent[Parent[Parent[n]]] = Root BY <1>1, <1>3, Depth
    <2>2. Parent[d] = Root BY <1>3, <2>1
    <2> QED BY <1>1, <2>2 DEF Walk!Under
  <1> QED BY <1>2, <1>3 DEF Walk!Under

(* The step from a directory towards a path below it.                              *)
LEMMA NextBelow ==
    ASSUME NEW d \in Nodes, NEW n \in Walk!Paths, d = Root \/ Walk!Under(n, d), Parent[n] # d
    PROVE  \E e \in Walk!Below(d) : Walk!Under(n, e)
  <1>1. n # Root BY PathFacts
  <1>2. CASE d # Root
    <2>1. Parent[n] # Root /\ Parent[Parent[n]] = d BY <1>2 DEF Walk!Under
    <2>2. Parent[n] \in Walk!Below(d) BY <2>1, PathFacts DEF Walk!Below
    <2> QED BY <2>2, ParentIsAbove
  <1>3. CASE d = Root /\ Parent[Parent[n]] = Root
    <2>1. Parent[n] \in Walk!Below(d) BY <1>3, PathFacts DEF Walk!Below
    <2> QED BY <2>1, ParentIsAbove
  <1>4. CASE d = Root /\ Parent[Parent[n]] # Root
    <2>1. Parent[n] \in Walk!Paths BY <1>4, PathFacts
    <2>2. Parent[Parent[n]] \in Walk!Paths BY <1>4, <2>1, PathFacts
    <2>3. Parent[Parent[Parent[n]]] = Root BY <1>4, Depth
    <2>4. Parent[Parent[n]] \in Walk!Below(d) BY <1>4, <2>2, <2>3 DEF Walk!Below
    <2>5. Walk!Under(n, Parent[Parent[n]]) BY <1>1, <1>4 DEF Walk!Under
    <2> QED BY <2>4, <2>5
  <1> QED BY <1>2, <1>3, <1>4

LEMMA IgnoredBelow ==
    ASSUME NEW d, NEW n \in Walk!Paths, Walk!Under(n, d), d \in Ignored
    PROVE  n \in Ignored
  BY PathFacts DEF Walk!Under

LEMMA ExpandFacts ==
    ASSUME NEW S, S \subseteq Walk!Paths
    PROVE  /\ S \subseteq Walk!Expand(S) /\ Walk!Expand(S) \subseteq Walk!Paths
           /\ \A n \in Walk!Paths, d \in S : Walk!Under(n, d) => n \in Walk!Expand(S)
           /\ \A n \in Walk!Paths, d \in Walk!Expand(S) : Walk!Under(n, d) => n \in Walk!Expand(S)
           /\ \A n \in Walk!Expand(S) : n \in S \/ \E d \in S : Walk!Under(n, d)
  <1>1. /\ S \subseteq Walk!Expand(S) /\ Walk!Expand(S) \subseteq Walk!Paths
        /\ \A n \in Walk!Paths, d \in S : Walk!Under(n, d) => n \in Walk!Expand(S)
        /\ \A n \in Walk!Expand(S) : n \in S \/ \E d \in S : Walk!Under(n, d)
    BY DEF Walk!Expand
  <1>2. ASSUME NEW n \in Walk!Paths, NEW d \in Walk!Expand(S), Walk!Under(n, d)
        PROVE  n \in Walk!Expand(S)
    <2>1. CASE d \in S BY <1>1, <1>2, <2>1
    <2>2. ASSUME NEW e \in S, Walk!Under(d, e) PROVE n \in Walk!Expand(S)
      <3>1. Walk!Under(n, e) BY <1>1, <1>2, <2>2, UnderUnder
      <3> QED BY <1>1, <3>1
    <2> QED BY <1>1, <2>1, <2>2
  <1> QED BY <1>1, <1>2

(* Whatever is there is in a directory.                                            *)
WalkTypes ==
  /\ tree \in [Walk!Sides -> Walk!Trees] /\ opt \in Walk!Asks
  /\ alike \subseteq Walk!Paths /\ unread \subseteq Walk!Paths

LEMMA TreeFacts ==
    ASSUME WalkTypes, NEW s \in Walk!Sides
    PROVE  /\ \A n \in Nodes : Walk!Of(s, n) \in Walk!Entries
           /\ \A n \in Nodes : \/ Walk!Is(s, n, "dir") /\ ~ Walk!Is(s, n, "file") /\ Walk!Exists(s, n)
                               \/ Walk!Is(s, n, "file") /\ ~ Walk!Is(s, n, "dir") /\ Walk!Exists(s, n)
                               \/ ~ Walk!Is(s, n, "file") /\ ~ Walk!Is(s, n, "dir") /\ ~ Walk!Exists(s, n)
           /\ \A n \in Walk!Paths : Walk!Exists(s, n) => Walk!Is(s, Parent[n], "dir")
           /\ \A n \in Walk!Paths, d \in Walk!Paths :
                Walk!Under(n, d) /\ Walk!Exists(s, n) => Walk!Is(s, d, "dir")
  <1>1. tree[s] \in Walk!Trees BY DEF WalkTypes
  <1>2. \A n \in Nodes : tree[s][n] \in Walk!Entries BY <1>1 DEF Walk!Trees
  <1>3. \A n \in Nodes : tree[s][n].type \in {"none", "dir", "file"} BY <1>2 DEF Walk!Entries
  <1>4. \A n \in Walk!Paths : tree[s][n].type # "none" => tree[s][Parent[n]].type = "dir"
    BY <1>1 DEF Walk!Trees
  <1>5. \A n \in Nodes : \/ Walk!Is(s, n, "dir") /\ ~ Walk!Is(s, n, "file") /\ Walk!Exists(s, n)
                         \/ Walk!Is(s, n, "file") /\ ~ Walk!Is(s, n, "dir") /\ Walk!Exists(s, n)
                         \/ ~ Walk!Is(s, n, "file") /\ ~ Walk!Is(s, n, "dir") /\ ~ Walk!Exists(s, n)
    BY <1>3 DEF Walk!Is, Walk!Of, Walk!Exists
  <1>6. \A n \in Walk!Paths : Walk!Exists(s, n) => Walk!Is(s, Parent[n], "dir")
    BY <1>4 DEF Walk!Is, Walk!Of, Walk!Exists
  <1>7. ASSUME NEW n \in Walk!Paths, NEW d \in Walk!Paths, Walk!Under(n, d), Walk!Exists(s, n)
        PROVE  Walk!Is(s, d, "dir")
    <2>1. CASE d = Parent[n] BY <1>6, <1>7, <2>1
    <2>2. CASE Parent[n] # Root /\ d = Parent[Parent[n]]
      <3>1. Parent[n] \in Walk!Paths /\ Parent[n] \in Nodes BY <2>2, PathFacts
      <3>2. Walk!Exists(s, Parent[n]) BY <1>5, <1>6, <1>7, <3>1
      <3> QED BY <1>6, <2>2, <3>1, <3>2
    <2> QED BY <1>7, <2>1, <2>2 DEF Walk!Under
  <1> QED BY <1>2, <1>5, <1>6, <1>7 DEF Walk!Of

-------------------------------------------------------------------------------
(* What the plan says of a path.                                                   *)

LEMMA OptionFacts ==
    ASSUME WalkTypes
    PROVE  /\ opt.delete \in BOOLEAN /\ opt.both \in BOOLEAN /\ opt.skipCreate \in BOOLEAN
           /\ opt.ignoreExisting \in BOOLEAN /\ opt.update \in BOOLEAN /\ opt.hasher \in BOOLEAN
           /\ opt.confirm \in BOOLEAN /\ opt.limit \in Nat
  BY DEF WalkTypes, Walk!Asks

LEMMA StatusFacts ==
    ASSUME WalkTypes, NEW n \in Walk!Paths
    PROVE  /\ Walk!Status(n) = "dstOnly" <=> ~ Walk!Exists("src", n) /\ Walk!Exists("dst", n)
           /\ Walk!Status(n) = "srcOnly" <=> Walk!Exists("src", n) /\ ~ Walk!Exists("dst", n)
           /\ Walk!Status(n) = "error" <=> n \in unread /\ (Walk!BothDirs(n) \/ Walk!ByContent(n))
           /\ Walk!Status(n) = "modified" <=>
                /\ Walk!Exists("src", n) /\ Walk!Exists("dst", n) /\ ~ Walk!BothDirs(n)
                /\ \/ Walk!ByContent(n) /\ n \notin unread \cup alike
                   \/ ~ Walk!ByContent(n) /\ Walk!Modified(Walk!Of("src", n), Walk!Of("dst", n))
  <1>1. "src" \in Walk!Sides /\ "dst" \in Walk!Sides /\ n \in Nodes BY PathFacts DEF Walk!Sides
  <1>2. Walk!BothDirs(n) => Walk!Exists("src", n) /\ Walk!Exists("dst", n) /\ ~ Walk!ByContent(n)
    BY <1>1, TreeFacts DEF Walk!BothDirs, Walk!ByContent
  <1>3. Walk!ByContent(n) => Walk!Exists("src", n) /\ Walk!Exists("dst", n)
    BY <1>1, TreeFacts DEF Walk!ByContent
  <1>4. CASE ~ Walk!Exists("src", n)
    <2>1. Walk!Status(n) = IF Walk!Exists("dst", n) THEN "dstOnly" ELSE "absent"
      BY <1>2, <1>3, <1>4 DEF Walk!Status
    <2> QED BY <1>2, <1>3, <1>4, <2>1
  <1>5. CASE Walk!Exists("src", n) /\ ~ Walk!Exists("dst", n)
    <2>1. Walk!Status(n) = "srcOnly" BY <1>2, <1>3, <1>5 DEF Walk!Status
    <2> QED BY <1>2, <1>3, <1>5, <2>1
  <1>6. CASE Walk!BothDirs(n)
    <2>1. Walk!Status(n) = IF n \in unread THEN "error" ELSE "walked"
      BY <1>2, <1>6 DEF Walk!Status
    <2> QED BY <1>2, <1>6, <2>1
  <1>7. CASE Walk!ByContent(n)
    <2>1. Walk!Status(n) = IF n \in unread THEN "error" ELSE IF n \in alike THEN "same" ELSE "modified"
      BY <1>2, <1>3, <1>7 DEF Walk!Status
    <2> QED BY <1>2, <1>3, <1>7, <2>1
  <1>8. CASE Walk!Exists("src", n) /\ Walk!Exists("dst", n) /\ ~ Walk!BothDirs(n) /\ ~ Walk!ByContent(n)
    <2>1. Walk!Status(n) = IF Walk!Modified(Walk!Of("src", n), Walk!Of("dst", n)) THEN "modified" ELSE "same"
      BY <1>8 DEF Walk!Status
    <2> QED BY <1>8, <2>1
  <1> QED BY <1>4, <1>5, <1>6, <1>7, <1>8

LEMMA WithFacts ==
    /\ \A n : n \in Walk!With("srcOnly") <=> n \in Walk!Paths /\ Walk!Compared(n) /\ Walk!Status(n) = "srcOnly"
    /\ \A n : n \in Walk!With("dstOnly") <=> n \in Walk!Paths /\ Walk!Compared(n) /\ Walk!Status(n) = "dstOnly"
    /\ \A n : n \in Walk!With("modified") <=> n \in Walk!Paths /\ Walk!Compared(n) /\ Walk!Status(n) = "modified"
    /\ \A n : n \in Walk!With("error") <=> n \in Walk!Paths /\ Walk!Compared(n) /\ Walk!Status(n) = "error"
  BY DEF Walk!With

(* The entries of the plan, one by one.                                            *)
Creates(n) ==
  /\ ~ opt.skipCreate /\ Walk!Compared(n)
  /\ \/ Walk!Exists("src", n) /\ ~ Walk!Exists("dst", n)
     \/ opt.both /\ ~ Walk!Exists("src", n) /\ Walk!Exists("dst", n)
Overwrites(n) ==
  /\ ~ opt.ignoreExisting /\ Walk!Compared(n)
  /\ Walk!Exists("src", n) /\ Walk!Exists("dst", n) /\ ~ Walk!BothDirs(n)
  /\ \/ Walk!ByContent(n) /\ n \notin unread \cup alike
     \/ ~ Walk!ByContent(n) /\ Walk!Modified(Walk!Of("src", n), Walk!Of("dst", n))
  /\ opt.both \/ ~ opt.update \/ Walk!SrcNewer(n)
Deletes(n) ==
  /\ opt.delete /\ ~ opt.both /\ Walk!Compared(n)
  /\ ~ Walk!Exists("src", n) /\ Walk!Exists("dst", n)
Unlisted(n) == Walk!Compared(n) /\ n \in unread /\ (Walk!BothDirs(n) \/ Walk!ByContent(n))

LEMMA PlanFacts ==
    ASSUME WalkTypes
    PROVE  /\ Walk!Plan.create \subseteq Walk!Paths /\ Walk!Plan.overwrite \subseteq Walk!Paths
           /\ Walk!Plan.delete \subseteq Walk!Paths /\ Walk!Plan.unreadable \subseteq Walk!Paths
           /\ \A n \in Walk!Paths : /\ n \in Walk!Plan.create <=> Creates(n)
                                    /\ n \in Walk!Plan.overwrite <=> Overwrites(n)
                                    /\ n \in Walk!Plan.delete <=> Deletes(n)
                                    /\ n \in Walk!Plan.unreadable <=> Unlisted(n)
  <1>1. Walk!Plan.create = IF opt.skipCreate THEN {}
                           ELSE Walk!With("srcOnly") \cup (IF opt.both THEN Walk!With("dstOnly") ELSE {})
    BY DEF Walk!Plan
  <1>2. Walk!Plan.overwrite = IF opt.ignoreExisting THEN {}
                 ELSE {n \in Walk!With("modified") : opt.both \/ ~ opt.update \/ Walk!SrcNewer(n)}
    BY DEF Walk!Plan
  <1>3. Walk!Plan.delete = IF opt.delete /\ ~ opt.both THEN Walk!With("dstOnly") ELSE {}
    BY DEF Walk!Plan
  <1>4. Walk!Plan.unreadable = Walk!With("error") BY DEF Walk!Plan
  <1>5. /\ Walk!Plan.create \subseteq Walk!Paths /\ Walk!Plan.overwrite \subseteq Walk!Paths
        /\ Walk!Plan.delete \subseteq Walk!Paths /\ Walk!Plan.unreadable \subseteq Walk!Paths
    BY WithFacts, <1>1, <1>2, <1>3, <1>4
  <1>6. ASSUME NEW n \in Walk!Paths
        PROVE  /\ n \in Walk!Plan.create <=> Creates(n)
               /\ n \in Walk!Plan.overwrite <=> Overwrites(n)
               /\ n \in Walk!Plan.delete <=> Deletes(n)
               /\ n \in Walk!Plan.unreadable <=> Unlisted(n)
    <2>1. n \in Walk!Plan.create <=> Creates(n) BY WithFacts, <1>1, StatusFacts DEF Creates
    <2>2. n \in Walk!Plan.overwrite <=> Overwrites(n) BY WithFacts, <1>2, StatusFacts DEF Overwrites
    <2>3. n \in Walk!Plan.delete <=> Deletes(n) BY WithFacts, <1>3, StatusFacts DEF Deletes
    <2>4. n \in Walk!Plan.unreadable <=> Unlisted(n) BY WithFacts, <1>4, StatusFacts DEF Unlisted
    <2> QED BY <2>1, <2>2, <2>3, <2>4
  <1> QED BY <1>5, <1>6

Sync == opt.command = "sync"

(* Every directory above n is one on both sides, and none of them is ignored.      *)
Chain(n) == \A d \in Walk!Paths : Walk!Under(n, d) => Walk!BothDirs(d) /\ d \notin Ignored
SyncDir(d) == d \in Nodes /\ (d # Root => Chain(d) /\ Walk!BothDirs(d) /\ d \notin Ignored)
Unreadable == Walk!Expand(Walk!Plan.unreadable)
Created == Walk!Expand(Walk!Plan.create)
ToSend == {n \in Created \cup Walk!Plan.overwrite :
             n \notin Ignored /\ (Walk!Is("src", n, "file") \/ Walk!Is("dst", n, "file"))}

LEMMA ChainBelow ==
    ASSUME NEW d, SyncDir(d), NEW n \in Walk!Below(d)
    PROVE  Chain(n) /\ n \in Walk!Paths
  <1>1. n \in Walk!Paths /\ Parent[n] = d BY DEF Walk!Below
  <1>2. SUFFICES ASSUME NEW e \in Walk!Paths, Walk!Under(n, e)
                 PROVE  Walk!BothDirs(e) /\ e \notin Ignored
    BY <1>1 DEF Chain
  <1>3. e = d \/ Walk!Under(d, e) BY <1>1, <1>2, ParentIsAbove
  <1>4. d # Root
    <2>1. d = Root => d # e BY <1>2, PathFacts
    <2> QED BY <1>3, <2>1 DEF Walk!Under
  <1> QED BY <1>2, <1>3, <1>4 DEF SyncDir, Chain

(* What _sync meets and does not ignore, the preview has compared, or could not    *)
(* read something above it.                                                        *)
LEMMA ComparedOrUnreadable ==
    ASSUME WalkTypes, NEW n \in Walk!Paths, Chain(n), n \notin Ignored, ~ Walk!Compared(n)
    PROVE  n \in Unreadable
  <1>1. n # Root BY PathFacts
  <1>2. PICK d \in Walk!Paths : Walk!Under(n, d) /\ d \in unread
    BY <1>1 DEF Walk!Compared, Chain
  <1>3. ASSUME NEW e \in Walk!Paths, Walk!Under(n, e), e \in unread,
               \A f \in Walk!Paths : Walk!Under(e, f) => f \notin unread
        PROVE  n \in Unreadable
    <2>1. Walk!BothDirs(e) /\ e \notin Ignored BY <1>3 DEF Chain
    <2>2. \A f \in Walk!Paths : Walk!Under(e, f) => Walk!BothDirs(f) /\ f \notin Ignored \cup unread
      BY <1>3, UnderUnder DEF Chain
    <2>3. Walk!Compared(e) BY <2>1, <2>2, PathFacts DEF Walk!Compared
    <2>4. e \in Walk!Plan.unreadable BY <1>3, <2>1, <2>3, PlanFacts DEF Unlisted
    <2>5. Walk!Plan.unreadable \subseteq Walk!Paths BY PlanFacts
    <2> QED BY <1>3, <2>4, <2>5, ExpandFacts DEF Unreadable
  <1>4. CASE \E f \in Walk!Paths : Walk!Under(d, f) /\ f \in unread
    <2>1. PICK f \in Walk!Paths : Walk!Under(d, f) /\ f \in unread BY <1>4
    <2>2. Walk!Under(n, f) BY <1>2, <2>1, UnderUnder
    <2>3. \A g \in Walk!Paths : ~ Walk!Under(f, g)
      <3>1. SUFFICES ASSUME NEW g \in Walk!Paths, Walk!Under(f, g) PROVE FALSE
        OBVIOUS
      <3>2. Walk!Under(d, g) BY <2>1, <3>1, UnderUnder
      <3>3. Parent[n] # d => Parent[Parent[n]] = d /\ Parent[n] # Root BY <1>2 DEF Walk!Under
      <3>4. Parent[d] # f => Parent[Parent[d]] = f /\ Parent[d] # Root BY <2>1 DEF Walk!Under
      <3>5. Parent[f] # g => Parent[Parent[f]] = g /\ Parent[f] # Root BY <3>1 DEF Walk!Under
      <3>6. /\ Parent[n] = Root \/ Parent[Parent[n]] = Root \/ Parent[Parent[Parent[n]]] = Root
            /\ Parent[d] = Root \/ Parent[Parent[d]] = Root \/ Parent[Parent[Parent[d]]] = Root
        BY Depth
      <3>7. d # Root /\ f # Root /\ g # Root BY PathFacts
      <3> QED BY <3>3, <3>4, <3>5, <3>6, <3>7
    <2> QED BY <1>3, <2>1, <2>2, <2>3
  <1> QED BY <1>2, <1>3, <1>4

-------------------------------------------------------------------------------
(* What the calls of the walk may be about, and that no step of it changes this.   *)

CopyDir(d) ==
  /\ d \in Walk!Paths /\ d \notin Ignored /\ Walk!Is("src", d, "dir") /\ ~ Walk!Exists("dst", d)
  /\ d \in Created \cup Unreadable
BackDir(d) == d \in Walk!Paths /\ ~ Walk!Exists("src", d) /\ Walk!Is("dst", d, "dir")
Synced(d) == d = Root \/ (/\ d \in Walk!Paths /\ Chain(d) /\ d \notin Ignored
                          /\ Walk!Is("src", d, "dir") /\ Walk!Exists("dst", d))

(* A call j on directory d has a reason to be there.                               *)
JobFits(d, j) ==
  /\ j.kind = "none" <=> j.at = "done"
  /\ Sync => /\ j.kind = "sync" => Synced(d) /\ (j.at = "list" => SyncDir(d))
             /\ j.kind = "copy" => CopyDir(d)
             /\ j.kind = "copyBack" => BackDir(d)

Dropped(n) == Walk!Exists("dst", n) /\ ~ Walk!Exists("src", n) /\ opt.delete /\ ~ opt.both

LEMMA GivenStays ==
    ASSUME UNCHANGED Walk!Given
    PROVE  /\ WalkTypes' <=> WalkTypes
           /\ Sync' <=> Sync
           /\ Walk!Confirms' <=> Walk!Confirms
           /\ Walk!Plan' = Walk!Plan /\ Unreadable' = Unreadable /\ Created' = Created /\ ToSend' = ToSend
           /\ \A d : SyncDir(d)' <=> SyncDir(d)
           /\ \A d, j : JobFits(d, j)' <=> JobFits(d, j)
           /\ \A n : Dropped(n)' <=> Dropped(n)
           /\ \A d : Walk!ToVerify(d)' = Walk!ToVerify(d)
  <1>1. tree' = tree /\ opt' = opt /\ alike' = alike /\ unread' = unread BY DEF Walk!Given
  <1>2. (WalkTypes' <=> WalkTypes) /\ (Sync' <=> Sync) /\ (Walk!Confirms' <=> Walk!Confirms)
    BY <1>1 DEF WalkTypes, Sync, Walk!Confirms, Walk!Sides, Walk!Trees, Walk!Entries, Walk!Paths, Walk!Asks
  <1>3. /\ \A s, n : Walk!Of(s, n)' = Walk!Of(s, n)
        /\ \A s, n : Walk!Exists(s, n)' <=> Walk!Exists(s, n)
        /\ \A s, n, k : Walk!Is(s, n, k)' <=> Walk!Is(s, n, k)
    BY <1>1 DEF Walk!Exists, Walk!Is, Walk!Of
  <1>4. /\ \A n : Walk!BothDirs(n)' <=> Walk!BothDirs(n)
        /\ \A n : Walk!ByContent(n)' <=> Walk!ByContent(n)
        /\ \A n : Walk!SrcNewer(n)' <=> Walk!SrcNewer(n)
        /\ \A n : Walk!From(n)' = Walk!From(n)
    BY <1>1, <1>3 DEF Walk!BothDirs, Walk!ByContent, Walk!SrcNewer, Walk!From
  <1>5. \A n : Walk!Compared(n)' <=> Walk!Compared(n)
    BY <1>1, <1>4 DEF Walk!Compared, Walk!Under, Walk!Paths
  <1>6. \A n : Walk!Status(n)' = Walk!Status(n)
    BY <1>1, <1>3, <1>4 DEF Walk!Status
  <1>7. \A s : Walk!With(s)' = Walk!With(s)
    BY <1>5, <1>6 DEF Walk!With, Walk!Paths
  <1>8. Walk!Plan' = Walk!Plan
    BY <1>1, <1>4, <1>7 DEF Walk!Plan
  <1>9. Unreadable' = Unreadable /\ Created' = Created
    BY <1>8 DEF Unreadable, Created, Walk!Expand, Walk!Under, Walk!Paths
  <1>10. ToSend' = ToSend
    BY <1>3, <1>8, <1>9 DEF ToSend
  <1>11. \A d : Chain(d)' <=> Chain(d)
    BY <1>4 DEF Chain, Walk!Under, Walk!Paths
  <1>12. \A d : SyncDir(d)' <=> SyncDir(d)
    BY <1>4, <1>11 DEF SyncDir
  <1>13. \A d : (CopyDir(d)' <=> CopyDir(d)) /\ (BackDir(d)' <=> BackDir(d)) /\ (Synced(d)' <=> Synced(d))
    BY <1>3, <1>9, <1>11 DEF CopyDir, BackDir, Synced, Walk!Paths
  <1>14. \A d, j : JobFits(d, j)' <=> JobFits(d, j)
    BY <1>2, <1>12, <1>13 DEF JobFits
  <1>15. \A n : Dropped(n)' <=> Dropped(n)
    BY <1>1, <1>3 DEF Dropped
  <1>16. \A d : Walk!Candidates(d)' = Walk!Candidates(d)
    BY <1>1, <1>3, <1>4 DEF Walk!Candidates, Walk!Common, Walk!Below, Walk!Paths, Walk!Other
  <1>17. \A d : Walk!ToVerify(d)' = Walk!ToVerify(d)
    BY <1>4, <1>16 DEF Walk!ToVerify
  <1> QED BY <1>2, <1>8, <1>9, <1>10, <1>12, <1>14, <1>15, <1>17

-------------------------------------------------------------------------------
(* What a listed directory hands on: within the plan, and all of it.               *)

Transfers(d) == Walk!FilesOf(Walk!ToCreate(d)) \cup {<<n, Walk!From(n)>> : n \in Walk!ToOverwrite(d)}
Folders(d, s) == {t[1] : t \in {u \in Walk!DirsOf(Walk!ToCreate(d)) : u[2] = s}}
Copies(d) == {<<n, "src">> : n \in {m \in Walk!Below(d) : Walk!Exists("src", m)}}
CopyFolders(d) == {t[1] : t \in Walk!DirsOf(Copies(d))}

Makes(n, s) == /\ ~ opt.skipCreate /\ n \in Walk!Paths /\ Walk!Exists(s, n)
               /\ \/ s = "src" /\ ~ Walk!Exists("dst", n)
                  \/ s = "dst" /\ opt.both /\ ~ Walk!Exists("src", n)
Renews(n) == /\ n \in Walk!Paths /\ ~ opt.ignoreExisting
             /\ Walk!Is("src", n, "file") /\ Walk!Exists("src", n) /\ Walk!Exists("dst", n)
             /\ opt.update => Walk!Of(Walk!From(n), n).mtime > Walk!Of(Walk!Other(Walk!From(n)), n).mtime

LEMMA TransferFacts ==
    ASSUME WalkTypes, NEW d
    PROVE  /\ \A t \in Transfers(d) :
                /\ t = <<t[1], t[2]>> /\ t[1] \in Walk!Below(d) /\ t[2] \in Walk!Sides
                /\ \/ Makes(t[1], t[2]) /\ Walk!Is(t[2], t[1], "file")
                   \/ /\ Renews(t[1]) /\ ~ Walk!ByContent(t[1])
                      /\ Walk!Modified(Walk!Of("src", t[1]), Walk!Of("dst", t[1]))
           /\ \A n \in Walk!Below(d), s \in Walk!Sides :
                Makes(n, s) /\ Walk!Is(s, n, "file") => <<n, s>> \in Transfers(d)
           /\ \A n \in Walk!Below(d) :
                Renews(n) /\ ~ Walk!ByContent(n)
                  /\ Walk!Modified(Walk!Of("src", n), Walk!Of("dst", n))
                => <<n, Walk!From(n)>> \in Transfers(d)
           /\ \A n, s : n \in Folders(d, s) <=> n \in Walk!Below(d) /\ Makes(n, s) /\ Walk!Is(s, n, "dir")
           /\ \A n : n \in Walk!ToVerify(d) <=>
                n \in Walk!Below(d) /\ Renews(n) /\ Walk!ByContent(n) /\ n \notin Ignored
  <1>1. Walk!Below(d) \subseteq Walk!Paths BY DEF Walk!Below
  <1>2. \A t : t \in Walk!ToCreate(d) <=>
          t = <<t[1], t[2]>> /\ t[1] \in Walk!Below(d) /\ Makes(t[1], t[2])
    <2>1. \A n \in Walk!Below(d) : /\ n \in Walk!SrcOnly(d) <=> Walk!Exists("src", n) /\ ~ Walk!Exists("dst", n)
                                   /\ n \in Walk!DstOnly(d) <=> Walk!Exists("dst", n) /\ ~ Walk!Exists("src", n)
      BY DEF Walk!SrcOnly, Walk!DstOnly
    <2>2. Walk!SrcOnly(d) \subseteq Walk!Below(d) /\ Walk!DstOnly(d) \subseteq Walk!Below(d)
      BY DEF Walk!SrcOnly, Walk!DstOnly
    <2>3. \A t : t \in Walk!ToCreate(d) <=>
            /\ ~ opt.skipCreate
            /\ \/ \E n \in Walk!SrcOnly(d) : t = <<n, "src">>
               \/ opt.both /\ \E n \in Walk!DstOnly(d) : t = <<n, "dst">>
      BY OptionFacts DEF Walk!ToCreate
    <2>4. ASSUME NEW t, t \in Walk!ToCreate(d)
          PROVE  t = <<t[1], t[2]>> /\ t[1] \in Walk!Below(d) /\ Makes(t[1], t[2])
      <3>1. CASE \E n \in Walk!SrcOnly(d) : t = <<n, "src">>
        <4>1. PICK n \in Walk!SrcOnly(d) : t = <<n, "src">> BY <3>1
        <4>2. t[1] = n /\ t[2] = "src" BY <4>1
        <4> QED BY <1>1, <2>1, <2>2, <2>3, <2>4, <4>1, <4>2 DEF Makes
      <3>2. CASE opt.both /\ \E n \in Walk!DstOnly(d) : t = <<n, "dst">>
        <4>1. PICK n \in Walk!DstOnly(d) : t = <<n, "dst">> BY <3>2
        <4>2. t[1] = n /\ t[2] = "dst" BY <4>1
        <4> QED BY <1>1, <2>1, <2>2, <2>3, <2>4, <3>2, <4>1, <4>2 DEF Makes
      <3> QED BY <2>3, <2>4, <3>1, <3>2
    <2>5. ASSUME NEW t, t = <<t[1], t[2]>>, t[1] \in Walk!Below(d), Makes(t[1], t[2])
          PROVE  t \in Walk!ToCreate(d)
      BY <2>1, <2>3, <2>5 DEF Makes
    <2> QED BY <2>4, <2>5
  <1>3. /\ \A t : t \in Walk!FilesOf(Walk!ToCreate(d)) <=> t \in Walk!ToCreate(d) /\ Walk!Is(t[2], t[1], "file")
        /\ \A t : t \in Walk!DirsOf(Walk!ToCreate(d)) <=> t \in Walk!ToCreate(d) /\ Walk!Is(t[2], t[1], "dir")
    BY DEF Walk!FilesOf, Walk!DirsOf
  <1>4. \A n : n \in Walk!Candidates(d) <=> n \in Walk!Below(d) /\ Renews(n)
    BY <1>1 DEF Walk!Candidates, Walk!Common, Renews
  <1>5. \A n : n \in Walk!ToVerify(d) <=>
                n \in Walk!Below(d) /\ Renews(n) /\ Walk!ByContent(n) /\ n \notin Ignored
    BY <1>4 DEF Walk!ToVerify
  <1>6. \A n : n \in Walk!ToOverwrite(d) <=>
                /\ n \in Walk!Below(d) /\ Renews(n) /\ ~ Walk!ByContent(n)
                /\ Walk!Modified(Walk!Of("src", n), Walk!Of("dst", n))
    BY <1>4 DEF Walk!ToOverwrite
  <1>7. \A n : Walk!From(n) \in Walk!Sides BY DEF Walk!From, Walk!Sides
  <1>8. \A t : t \in Transfers(d) <=>
          t \in Walk!FilesOf(Walk!ToCreate(d)) \/ \E n \in Walk!ToOverwrite(d) : t = <<n, Walk!From(n)>>
    BY DEF Transfers
  <1>9. ASSUME NEW t \in Transfers(d)
        PROVE  /\ t = <<t[1], t[2]>> /\ t[1] \in Walk!Below(d) /\ t[2] \in Walk!Sides
               /\ \/ Makes(t[1], t[2]) /\ Walk!Is(t[2], t[1], "file")
                  \/ /\ Renews(t[1]) /\ ~ Walk!ByContent(t[1])
                     /\ Walk!Modified(Walk!Of("src", t[1]), Walk!Of("dst", t[1]))
    <2>1. CASE t \in Walk!FilesOf(Walk!ToCreate(d))
      <3>1. t = <<t[1], t[2]>> /\ t[1] \in Walk!Below(d) /\ Makes(t[1], t[2]) /\ Walk!Is(t[2], t[1], "file")
        BY <1>2, <1>3, <2>1
      <3>2. t[2] \in Walk!Sides BY <3>1 DEF Makes, Walk!Sides
      <3> QED BY <3>1, <3>2
    <2>2. ASSUME NEW n \in Walk!ToOverwrite(d), t = <<n, Walk!From(n)>>
          PROVE  /\ t = <<t[1], t[2]>> /\ t[1] \in Walk!Below(d) /\ t[2] \in Walk!Sides
                 /\ Renews(t[1]) /\ ~ Walk!ByContent(t[1])
                 /\ Walk!Modified(Walk!Of("src", t[1]), Walk!Of("dst", t[1]))
      <3>1. t[1] = n /\ t[2] = Walk!From(n) BY <2>2
      <3> QED BY <1>6, <1>7, <2>2, <3>1
    <2> QED BY <1>8, <2>1, <2>2
  <1>10. ASSUME NEW n \in Walk!Below(d), NEW s \in Walk!Sides, Makes(n, s)
         PROVE  <<n, s>> \in Walk!ToCreate(d)
    <2>1. PICK t : t = <<n, s>> OBVIOUS
    <2>2. t[1] = n /\ t[2] = s BY <2>1
    <2> QED BY <1>2, <1>10, <2>1, <2>2
  <1>11. ASSUME NEW n \in Walk!Below(d), NEW s \in Walk!Sides, Makes(n, s), Walk!Is(s, n, "file")
         PROVE  <<n, s>> \in Transfers(d)
    <2>1. PICK t : t = <<n, s>> OBVIOUS
    <2>2. t[1] = n /\ t[2] = s BY <2>1
    <2> QED BY <1>3, <1>8, <1>10, <1>11, <2>1, <2>2
  <1>12. ASSUME NEW n, NEW s PROVE n \in Folders(d, s) <=> n \in Walk!Below(d) /\ Makes(n, s) /\ Walk!Is(s, n, "dir")
    <2>1. n \in Folders(d, s) <=> \E t \in Walk!DirsOf(Walk!ToCreate(d)) : t[2] = s /\ t[1] = n
      BY DEF Folders
    <2>2. ASSUME n \in Folders(d, s) PROVE n \in Walk!Below(d) /\ Makes(n, s) /\ Walk!Is(s, n, "dir")
      <3>1. PICK t \in Walk!DirsOf(Walk!ToCreate(d)) : t[2] = s /\ t[1] = n BY <2>1, <2>2
      <3> QED BY <1>2, <1>3, <3>1
    <2>3. ASSUME n \in Walk!Below(d), Makes(n, s), Walk!Is(s, n, "dir") PROVE n \in Folders(d, s)
      <3>1. s \in Walk!Sides BY <2>3 DEF Makes, Walk!Sides
      <3>2. PICK t : t = <<n, s>> OBVIOUS
      <3>3. t[1] = n /\ t[2] = s BY <3>2
      <3>4. t \in Walk!DirsOf(Walk!ToCreate(d)) BY <1>3, <1>10, <2>3, <3>1, <3>2, <3>3
      <3> QED BY <2>1, <3>3, <3>4
    <2> QED BY <2>2, <2>3
  <1>13. \A n \in Walk!Below(d) :
                Renews(n) /\ ~ Walk!ByContent(n)
                  /\ Walk!Modified(Walk!Of("src", n), Walk!Of("dst", n))
                => <<n, Walk!From(n)>> \in Transfers(d)
    BY <1>6, <1>8
  <1> QED BY <1>5, <1>9, <1>11, <1>12, <1>13

(* What _sync finds in a directory is in the plan, or under what could not be read. *)
LEMMA FoundIsCompared ==
    ASSUME WalkTypes, NEW d, SyncDir(d), NEW n \in Walk!Below(d), n \notin Ignored
    PROVE  Walk!Compared(n) \/ n \in Unreadable
  BY ChainBelow, ComparedOrUnreadable

LEMMA RenewsWithin ==
    ASSUME WalkTypes, NEW d, SyncDir(d), NEW n \in Walk!Below(d), n \notin Ignored, Renews(n),
           Walk!ByContent(n) \/ Walk!Modified(Walk!Of("src", n), Walk!Of("dst", n)),
           Walk!ByContent(n) => n \notin alike
    PROVE  n \in ToSend \cup Unreadable
  <1>1. n \in Walk!Paths /\ n \in Nodes BY PathFacts DEF Walk!Below
  <1>2. "src" \in Walk!Sides BY DEF Walk!Sides
  <1>3. ~ Walk!BothDirs(n) BY <1>1, <1>2, TreeFacts DEF Renews, Walk!BothDirs
  <1>4. opt.both \/ ~ opt.update \/ Walk!SrcNewer(n)
    <2>1. SUFFICES ASSUME ~ opt.both, opt.update PROVE Walk!SrcNewer(n) BY OptionFacts
    <2>2. Walk!From(n) = "src" /\ Walk!Other("src") = "dst" BY <2>1 DEF Walk!From, Walk!Other
    <2> QED BY <2>1, <2>2 DEF Renews, Walk!SrcNewer
  <1>5. CASE Walk!Compared(n) /\ (Walk!ByContent(n) => n \notin unread)
    <2>1. Overwrites(n) BY <1>3, <1>4, <1>5 DEF Overwrites, Renews
    <2>2. n \in Walk!Plan.overwrite BY <1>1, <2>1, PlanFacts
    <2> QED BY <2>2 DEF ToSend, Renews
  <1>6. CASE Walk!Compared(n) /\ Walk!ByContent(n) /\ n \in unread
    <2>1. n \in Walk!Plan.unreadable /\ Walk!Plan.unreadable \subseteq Walk!Paths
      BY <1>1, <1>6, PlanFacts DEF Unlisted
    <2> QED BY <2>1, ExpandFacts DEF Unreadable
  <1> QED BY <1>5, <1>6, FoundIsCompared

LEMMA MakesWithin ==
    ASSUME WalkTypes, NEW d, SyncDir(d), NEW n \in Walk!Below(d), n \notin Ignored,
           NEW s \in Walk!Sides, Makes(n, s)
    PROVE  n \in Created \cup Unreadable
  <1>1. n \in Walk!Paths BY DEF Walk!Below
  <1>2. CASE Walk!Compared(n)
    <2>1. Creates(n)
      <3>1. CASE s = "src" BY <1>2, <3>1 DEF Makes, Creates
      <3>2. CASE s = "dst" BY <1>2, <3>2 DEF Makes, Creates
      <3> QED BY <3>1, <3>2 DEF Walk!Sides
    <2>2. n \in Walk!Plan.create /\ Walk!Plan.create \subseteq Walk!Paths BY <1>1, <2>1, PlanFacts
    <2> QED BY <2>2, ExpandFacts DEF Created
  <1> QED BY <1>2, FoundIsCompared

LEMMA TransfersWithin ==
    ASSUME WalkTypes, NEW d, SyncDir(d), NEW t \in Transfers(d), t[1] \notin Ignored
    PROVE  t[1] \in ToSend \cup Unreadable
  <1>1. /\ t[1] \in Walk!Below(d) /\ t[2] \in Walk!Sides
        /\ \/ Makes(t[1], t[2]) /\ Walk!Is(t[2], t[1], "file")
           \/ /\ Renews(t[1]) /\ ~ Walk!ByContent(t[1])
              /\ Walk!Modified(Walk!Of("src", t[1]), Walk!Of("dst", t[1]))
    BY TransferFacts
  <1>2. CASE Makes(t[1], t[2]) /\ Walk!Is(t[2], t[1], "file")
    <2>1. t[1] \in Created \cup Unreadable BY <1>1, <1>2, MakesWithin
    <2>2. Walk!Is("src", t[1], "file") \/ Walk!Is("dst", t[1], "file") BY <1>1, <1>2 DEF Walk!Sides
    <2> QED BY <2>1, <2>2 DEF ToSend
  <1>3. CASE /\ Renews(t[1]) /\ ~ Walk!ByContent(t[1])
             /\ Walk!Modified(Walk!Of("src", t[1]), Walk!Of("dst", t[1]))
    BY <1>1, <1>3, RenewsWithin
  <1> QED BY <1>1, <1>2, <1>3

LEMMA VerifyWithin ==
    ASSUME WalkTypes, NEW d, SyncDir(d), NEW n \in Walk!ToVerify(d), n \notin alike
    PROVE  n \in ToSend \cup Unreadable
  <1>1. n \in Walk!Below(d) /\ Renews(n) /\ Walk!ByContent(n) /\ n \notin Ignored BY TransferFacts
  <1> QED BY <1>1, RenewsWithin

LEMMA CopyWithin ==
    ASSUME WalkTypes, NEW d, CopyDir(d), NEW n \in Walk!Below(d), n \notin Ignored
    PROVE  /\ Walk!Is("src", n, "file") => n \in ToSend \cup Unreadable
           /\ Walk!Is("src", n, "dir") => CopyDir(n)
  <1>1. n \in Walk!Paths /\ n \in Nodes /\ Parent[n] = d BY PathFacts DEF Walk!Below
  <1>2. Walk!Under(n, d) BY <1>1, ParentIsAbove
  <1>3. n \in Created \cup Unreadable
    BY <1>1, <1>2, ExpandFacts, PlanFacts DEF CopyDir, Created, Unreadable
  <1>4. ~ Walk!Exists("dst", n)
    <2>1. "dst" \in Walk!Sides /\ d \in Nodes BY PathFacts DEF CopyDir, Walk!Sides
    <2>2. ~ Walk!Is("dst", d, "dir") BY <2>1, TreeFacts DEF CopyDir
    <2> QED BY <1>1, <2>1, <2>2, TreeFacts
  <1> QED BY <1>1, <1>3, <1>4 DEF ToSend, CopyDir

(* What a directory's call starts for those in it has a reason to be there.        *)
LEMMA FoldersFit ==
    ASSUME WalkTypes, NEW d, SyncDir(d), NEW n, n \notin Ignored
    PROVE  /\ n \in Folders(d, "src") => CopyDir(n)
           /\ n \in Folders(d, "dst") => BackDir(n)
           /\ n \in Walk!ToSync(d) => Synced(n)
  <1>1. "src" \in Walk!Sides /\ "dst" \in Walk!Sides BY DEF Walk!Sides
  <1>2. ASSUME n \in Folders(d, "src") PROVE CopyDir(n)
    <2>1. n \in Walk!Below(d) /\ Makes(n, "src") /\ Walk!Is("src", n, "dir") BY <1>2, TransferFacts
    <2>2. n \in Created \cup Unreadable BY <1>1, <2>1, MakesWithin
    <2> QED BY <2>1, <2>2 DEF CopyDir, Makes
  <1>3. ASSUME n \in Folders(d, "dst") PROVE BackDir(n)
    <2>1. n \in Walk!Below(d) /\ Makes(n, "dst") /\ Walk!Is("dst", n, "dir") BY <1>3, TransferFacts
    <2> QED BY <2>1 DEF BackDir, Makes
  <1>4. ASSUME n \in Walk!ToSync(d) PROVE Synced(n)
    <2>1. n \in Walk!Below(d) /\ Walk!Exists("dst", n) /\ Walk!Is("src", n, "dir")
      BY <1>4 DEF Walk!ToSync, Walk!Common
    <2> QED BY <2>1, ChainBelow DEF Synced
  <1> QED BY <1>2, <1>3, <1>4

(* What is removed with an extraneous path the source does not have either.        *)
LEMMA RemovedIsDropped ==
    ASSUME WalkTypes, NEW n \in Walk!Paths, Dropped(n), NEW m \in Walk!Expand({n}), Walk!Exists("dst", m)
    PROVE  Dropped(m)
  <1>1. m \in Walk!Paths /\ (m = n \/ Walk!Under(m, n)) BY ExpandFacts
  <1>2. "src" \in Walk!Sides /\ n \in Nodes BY PathFacts DEF Walk!Sides
  <1>3. ~ Walk!Is("src", n, "dir") BY <1>2, TreeFacts DEF Dropped
  <1>4. ~ Walk!Exists("src", m) BY <1>1, <1>2, <1>3, TreeFacts DEF Dropped
  <1> QED BY <1>4 DEF Dropped

LEMMA RemovedWithin ==
    ASSUME WalkTypes, NEW n \in Walk!Paths, SyncDir(Parent[n]), Dropped(n), n \notin Ignored,
           NEW m \in Walk!Expand({n})
    PROVE  m \in Walk!Expand(Walk!Plan.delete) \cup Unreadable
  <1>1. m \in Walk!Paths /\ (m = n \/ Walk!Under(m, n)) BY ExpandFacts
  <1>2. n \in Walk!Below(Parent[n]) BY DEF Walk!Below
  <1>3. CASE n \in Unreadable
    <2>1. Unreadable = Walk!Expand(Walk!Plan.unreadable) /\ Walk!Plan.unreadable \subseteq Walk!Paths
      BY PlanFacts DEF Unreadable
    <2> QED BY <1>1, <1>3, <2>1, ExpandFacts
  <1>4. CASE Walk!Compared(n)
    <2>1. n \in Walk!Plan.delete /\ Walk!Plan.delete \subseteq Walk!Paths
      BY <1>4, PlanFacts DEF Deletes, Dropped
    <2> QED BY <1>1, <2>1, ExpandFacts
  <1> QED BY <1>2, <1>3, <1>4, FoundIsCompared

(* The directory towards n in which a _sync goes on, when n is one the preview has *)
(* compared.                                                                        *)
LEMMA SyncGoesOn ==
    ASSUME WalkTypes, NEW d \in Nodes, NEW n \in Walk!Paths, d = Root \/ Walk!Under(n, d),
           Parent[n] # d, Walk!Compared(n), ~ opt.ignoreExisting
    PROVE  \E e \in Walk!ToSync(d) : e \notin Ignored /\ Walk!Under(n, e)
  <1>1. PICK e \in Walk!Below(d) : Walk!Under(n, e) BY NextBelow
  <1>2. e \in Walk!Paths /\ e \in Nodes BY PathFacts DEF Walk!Below
  <1>3. Walk!BothDirs(e) /\ e \notin Ignored BY <1>1, <1>2 DEF Walk!Compared
  <1>4. Walk!Exists("src", e) /\ Walk!Exists("dst", e) /\ Walk!Is("src", e, "dir")
    BY <1>2, <1>3, TreeFacts DEF Walk!BothDirs, Walk!Sides
  <1>5. e \in Walk!ToSync(d) BY <1>4 DEF Walk!ToSync, Walk!Common
  <1> QED BY <1>1, <1>3, <1>5

LEMMA NotAtItself ==
    ASSUME WalkTypes, NEW n \in Walk!Paths,
           n \in ToSend \/ n \in Walk!Plan.delete
    PROVE  ~ SyncDir(n) /\ ~ CopyDir(n)
  <1>1. n # Root /\ n \in Nodes BY PathFacts
  <1>2. "src" \in Walk!Sides /\ "dst" \in Walk!Sides BY DEF Walk!Sides
  <1>3. CASE n \in ToSend BY <1>1, <1>2, <1>3, TreeFacts DEF ToSend, SyncDir, Walk!BothDirs, CopyDir
  <1>4. CASE n \in Walk!Plan.delete
    <2>1. Deletes(n) BY <1>4, PlanFacts
    <2> QED BY <1>1, <1>2, <2>1, TreeFacts DEF Deletes, SyncDir, Walk!BothDirs, CopyDir
  <1> QED BY <1>3, <1>4

LEMMA DeletesHandedOn ==
    ASSUME WalkTypes, NEW d \in Nodes, NEW n \in Walk!Paths, d = Root \/ Walk!Under(n, d),
           n \in Walk!Plan.delete, ~ opt.ignoreExisting
    PROVE  n \in Walk!Missing(d) \/ \E e \in Walk!ToSync(d) : e \notin Ignored /\ Walk!Under(n, e)
  <1>1. Deletes(n) BY PlanFacts
  <1>2. CASE Parent[n] = d
    <2>1. n \in Walk!DstOnly(d) BY <1>1, <1>2 DEF Walk!DstOnly, Walk!Below, Deletes
    <2> QED BY <1>1, <2>1 DEF Walk!Missing, Deletes
  <1>3. CASE Parent[n] # d
    BY <1>1, <1>3, SyncGoesOn DEF Deletes
  <1> QED BY <1>2, <1>3

(* A file the plan copies, to which a _sync comes: it is transferred or compared,  *)
(* or the call on the directory towards it is started.                             *)
LEMMA SendsHandedOn ==
    ASSUME WalkTypes, NEW d \in Nodes, SyncDir(d), NEW n \in ToSend, d = Root \/ Walk!Under(n, d),
           ~ opt.ignoreExisting, ~ (opt.both /\ opt.update)
    PROVE  \/ \E s \in Walk!Sides : <<n, s>> \in Transfers(d)
           \/ n \in Walk!ToVerify(d) /\ n \notin alike /\ Parent[n] = d
           \/ \E e \in Folders(d, "src") \cup Folders(d, "dst") \cup Walk!ToSync(d) :
                e \notin Ignored /\ (e = n \/ Walk!Under(n, e))
  <1>1. "src" \in Walk!Sides /\ "dst" \in Walk!Sides BY DEF Walk!Sides
  <1>2. n \in Walk!Paths /\ n \in Nodes /\ n \notin Ignored
    BY PlanFacts, ExpandFacts, PathFacts DEF ToSend, Created
  <1>3. CASE n \in Walk!Plan.create
    <2>1. Creates(n) BY <1>2, <1>3, PlanFacts
    <2>2. PICK s \in Walk!Sides : Makes(n, s) /\ Walk!Is(s, n, "file")
      <3>1. CASE Walk!Exists("src", n)
        <4>1. Makes(n, "src") BY <1>2, <2>1, <3>1 DEF Creates, Makes
        <4>2. Walk!Is("src", n, "file") BY <1>1, <1>2, <2>1, <3>1, TreeFacts DEF ToSend, Creates
        <4> QED BY <1>1, <4>1, <4>2
      <3>2. CASE ~ Walk!Exists("src", n)
        <4>1. Makes(n, "dst") BY <1>2, <2>1, <3>2 DEF Creates, Makes
        <4>2. Walk!Is("dst", n, "file") BY <1>1, <1>2, <2>1, <3>2, TreeFacts DEF ToSend, Creates
        <4> QED BY <1>1, <4>1, <4>2
      <3> QED BY <3>1, <3>2
    <2>3. CASE Parent[n] = d
      <3>1. n \in Walk!Below(d) BY <1>2, <2>3 DEF Walk!Below
      <3> QED BY <2>2, <3>1, TransferFacts
    <2>4. CASE Parent[n] # d
      <3>1. \E e \in Walk!ToSync(d) : e \notin Ignored /\ Walk!Under(n, e)
        BY <1>2, <2>1, <2>4, SyncGoesOn DEF Creates
      <3> QED BY <3>1
    <2> QED BY <2>3, <2>4
  <1>4. CASE n \in Walk!Plan.overwrite
    <2>1. Overwrites(n) BY <1>2, <1>4, PlanFacts
    <2>2. CASE Parent[n] # d
      <3>1. \E e \in Walk!ToSync(d) : e \notin Ignored /\ Walk!Under(n, e)
        BY <1>2, <2>1, <2>2, SyncGoesOn DEF Overwrites
      <3> QED BY <3>1
    <2>3. CASE Parent[n] = d /\ Walk!Is("src", n, "dir")
      <3>1. n \in Walk!ToSync(d)
        BY <1>2, <2>1, <2>3 DEF Walk!ToSync, Walk!Common, Walk!Below, Overwrites
      <3> QED BY <1>2, <3>1
    <2>4. CASE Parent[n] = d /\ ~ Walk!Is("src", n, "dir")
      <3>1. n \in Walk!Below(d) BY <1>2, <2>4 DEF Walk!Below
      <3>2. Walk!Is("src", n, "file") BY <1>1, <1>2, <2>1, <2>4, TreeFacts DEF Overwrites
      <3>3. opt.update => Walk!Of(Walk!From(n), n).mtime > Walk!Of(Walk!Other(Walk!From(n)), n).mtime
        <4>1. SUFFICES ASSUME opt.update
                       PROVE  Walk!Of(Walk!From(n), n).mtime > Walk!Of(Walk!Other(Walk!From(n)), n).mtime
          OBVIOUS
        <4>2. ~ opt.both /\ Walk!SrcNewer(n) BY <2>1, <4>1, OptionFacts DEF Overwrites
        <4>3. Walk!From(n) = "src" /\ Walk!Other("src") = "dst" BY <4>2 DEF Walk!From, Walk!Other
        <4> QED BY <4>2, <4>3 DEF Walk!SrcNewer
      <3>4. Renews(n) BY <1>2, <2>1, <3>2, <3>3 DEF Renews, Overwrites
      <3>5. CASE Walk!ByContent(n)
        <4>1. n \in Walk!ToVerify(d) BY <1>2, <3>1, <3>4, <3>5, TransferFacts
        <4> QED BY <2>1, <2>4, <3>5, <4>1 DEF Overwrites
      <3>6. CASE ~ Walk!ByContent(n)
        <4>1. <<n, Walk!From(n)>> \in Transfers(d) BY <2>1, <3>1, <3>4, <3>6, TransferFacts DEF Overwrites
        <4>2. Walk!From(n) \in Walk!Sides BY DEF Walk!From, Walk!Sides
        <4> QED BY <4>1, <4>2
      <3> QED BY <3>5, <3>6
    <2> QED BY <2>2, <2>3, <2>4
  <1>5. ASSUME NEW m \in Walk!Plan.create, Walk!Under(n, m)
        PROVE  \E e \in Folders(d, "src") \cup Folders(d, "dst") \cup Walk!ToSync(d) :
                 e \notin Ignored /\ (e = n \/ Walk!Under(n, e))
    <2>1. m \in Walk!Paths /\ m \in Nodes /\ m # Root /\ Creates(m) BY PathFacts, PlanFacts
    <2>2. ~ Walk!BothDirs(m) BY <1>1, <2>1, TreeFacts DEF Creates, Walk!BothDirs
    <2>3. m # d /\ ~ Walk!Under(d, m)
      <3>1. d # Root => Chain(d) /\ Walk!BothDirs(d) BY DEF SyncDir
      <3> QED BY <2>1, <2>2, <3>1 DEF Chain, Walk!Under
    <2>4. Parent[n] # d
      <3>1. SUFFICES ASSUME Parent[n] = d PROVE FALSE OBVIOUS
      <3>2. m = d \/ Walk!Under(d, m) BY <1>2, <1>5, <2>1, <3>1, ParentIsAbove
      <3> QED BY <2>3, <3>2
    <2>5. PICK e \in Walk!Below(d) : Walk!Under(n, e) BY <1>2, <2>4, NextBelow
    <2>6. e \in Walk!Paths /\ e \in Nodes /\ Parent[e] = d /\ e \notin Ignored
      BY <1>2, <2>5, IgnoredBelow, PathFacts DEF Walk!Below
    <2>7. ~ Walk!Under(e, m) BY <2>1, <2>3, <2>6, ParentIsAbove
    <2>8. CASE m = e
      <3>1. PICK s \in Walk!Sides : Makes(e, s) /\ Walk!Exists(s, n)
        <4>1. CASE Walk!Exists("src", e)
          <5>1. Makes(e, "src") BY <2>1, <2>8, <4>1 DEF Creates, Makes
          <5>2. ~ Walk!Is("dst", e, "dir") BY <1>1, <2>1, <2>8, <4>1, TreeFacts DEF Creates
          <5>3. ~ Walk!Exists("dst", n) BY <1>1, <1>2, <2>5, <2>6, <5>2, TreeFacts
          <5>4. Walk!Exists("src", n) BY <1>1, <1>2, <5>3, TreeFacts DEF ToSend
          <5> QED BY <1>1, <5>1, <5>4
        <4>2. CASE ~ Walk!Exists("src", e)
          <5>1. Makes(e, "dst") BY <2>1, <2>8, <4>2 DEF Creates, Makes
          <5>2. ~ Walk!Is("src", e, "dir") BY <1>1, <2>6, <4>2, TreeFacts
          <5>3. ~ Walk!Exists("src", n) BY <1>1, <1>2, <2>5, <2>6, <5>2, TreeFacts
          <5>4. Walk!Exists("dst", n) BY <1>1, <1>2, <5>3, TreeFacts DEF ToSend
          <5> QED BY <1>1, <5>1, <5>4
        <4> QED BY <4>1, <4>2
      <3>2. Walk!Is(s, e, "dir") BY <1>2, <2>5, <2>6, <3>1, TreeFacts
      <3>3. e \in Folders(d, s) BY <3>1, <3>2, TransferFacts
      <3> QED BY <2>5, <2>6, <3>3 DEF Walk!Sides
    <2>9. CASE Walk!Under(m, e)
      <3>1. Walk!BothDirs(e) BY <2>1, <2>6, <2>9 DEF Creates, Walk!Compared
      <3>2. Walk!Exists("src", e) /\ Walk!Exists("dst", e) /\ Walk!Is("src", e, "dir")
        BY <1>1, <2>6, <3>1, TreeFacts DEF Walk!BothDirs
      <3>3. e \in Walk!ToSync(d) BY <3>2 DEF Walk!ToSync, Walk!Common
      <3> QED BY <2>5, <2>6, <3>3
    <2>10. m = e \/ Walk!Under(m, e) \/ Walk!Under(e, m)
      <3>1. Parent[n] = m \/ Parent[Parent[n]] = m BY <1>5 DEF Walk!Under
      <3>2. Parent[n] = e \/ Parent[Parent[n]] = e BY <2>5 DEF Walk!Under
      <3> QED BY <2>1, <2>6, <3>1, <3>2, PathFacts DEF Walk!Under
    <2> QED BY <2>7, <2>8, <2>9, <2>10
  <1>6. n \in Walk!Plan.create \/ n \in Walk!Plan.overwrite \/ \E m \in Walk!Plan.create : Walk!Under(n, m)
    BY PlanFacts, ExpandFacts DEF ToSend, Created
  <1> QED BY <1>3, <1>4, <1>5, <1>6

LEMMA CopyHandsOn ==
    ASSUME WalkTypes, NEW d, CopyDir(d), NEW n \in ToSend, Walk!Under(n, d)
    PROVE  \/ <<n, "src">> \in Walk!FilesOf(Copies(d))
           \/ \E e \in CopyFolders(d) : e \notin Ignored /\ Walk!Under(n, e)
  <1>1. "src" \in Walk!Sides /\ "dst" \in Walk!Sides BY DEF Walk!Sides
  <1>2. n \in Walk!Paths /\ n \in Nodes /\ n \notin Ignored /\ d \in Walk!Paths /\ d \in Nodes
    BY PlanFacts, ExpandFacts, PathFacts DEF ToSend, Created, CopyDir
  <1>3. ~ Walk!Is("dst", d, "dir") BY <1>1, <1>2, TreeFacts DEF CopyDir
  <1>4. ~ Walk!Exists("dst", n) BY <1>1, <1>2, <1>3, TreeFacts
  <1>5. Walk!Is("src", n, "file") /\ Walk!Exists("src", n) BY <1>1, <1>2, <1>4, TreeFacts DEF ToSend
  <1>6. CASE Parent[n] = d
    <2>1. <<n, "src">> \in Copies(d) BY <1>2, <1>5, <1>6 DEF Copies, Walk!Below
    <2>2. PICK t : t = <<n, "src">> OBVIOUS
    <2>3. t[1] = n /\ t[2] = "src" BY <2>2
    <2>4. t \in Walk!FilesOf(Copies(d)) BY <1>5, <2>1, <2>2, <2>3 DEF Walk!FilesOf
    <2> QED BY <2>2, <2>4
  <1>7. CASE Parent[n] # d
    <2>1. PICK e \in Walk!Below(d) : Walk!Under(n, e) BY <1>2, <1>7, NextBelow
    <2>2. e \in Walk!Paths /\ e \in Nodes /\ e \notin Ignored
      BY <1>2, <2>1, IgnoredBelow, PathFacts DEF Walk!Below
    <2>3. Walk!Is("src", e, "dir") /\ Walk!Exists("src", e) BY <1>1, <1>2, <1>5, <2>1, <2>2, TreeFacts
    <2>4. <<e, "src">> \in Copies(d) BY <2>1, <2>3 DEF Copies
    <2>5. PICK t : t = <<e, "src">> OBVIOUS
    <2>6. t[1] = e /\ t[2] = "src" BY <2>5
    <2>7. t \in Walk!DirsOf(Copies(d)) BY <2>3, <2>4, <2>5, <2>6 DEF Walk!DirsOf
    <2>8. e \in CopyFolders(d) BY <2>6, <2>7 DEF CopyFolders
    <2> QED BY <2>1, <2>2, <2>8
  <1> QED BY <1>6, <1>7

-------------------------------------------------------------------------------
(* The invariant of the walk.                                                      *)

Jobs == [kind : Walk!Kinds, at : {"ensure", "list", "done"}, listed : SUBSET Walk!Sides]
Begun(kind) == [kind |-> kind, at |-> "ensure", listed |-> {}]

JobsInPlace == \A d \in Nodes, j \in Jobs : j = job[d] => JobFits(d, j)
RestInPlace == Sync => /\ \A d \in verifying : SyncDir(d)
                       /\ \A n \in removing : SyncDir(Parent[n])
Extraneous == \A n \in removing \cup gone : Dropped(n)
NothingMore == Sync => /\ gone \subseteq Walk!Expand(Walk!Plan.delete) \cup Unreadable
                       /\ \A t \in collected : t[1] \in ToSend \cup Unreadable

(* The walk has still to come to n, or is at it.                                   *)
Reaching(n) == \E d \in Nodes : job[d].at # "done" /\ (d = n \/ d = Root \/ Walk!Under(n, d))
Sent(n) == \E s \in Walk!Sides : <<n, s>> \in collected
InComparison(n) == Parent[n] \in verifying /\ n \in Walk!ToVerify(Parent[n]) /\ n \notin alike
DeletePending(n) == Reaching(n) \/ n \in removing \/ n \in gone
SendPending(n) == Reaching(n) \/ Sent(n) \/ n \in skipped \/ InComparison(n)

(* A sync that is confirmed, whose options the preview follows.                    *)
Undisturbed ==
  /\ Sync /\ phase \notin {"asked", "dropped"} /\ ~ stopped /\ ~ failed
  /\ ~ opt.ignoreExisting /\ ~ (opt.both /\ opt.update)
NothingLess ==
  Undisturbed => /\ \A n \in Walk!Plan.delete : DeletePending(n)
                 /\ \A n \in ToSend : SendPending(n)

ShownIsPlan == Walk!Confirms /\ phase \notin {"asked", "dropped"} => shown = Walk!Plan

WalkInv ==
  /\ Walk!TypeOK /\ tree \in [Walk!Sides -> Walk!Trees]
  /\ JobsInPlace /\ RestInPlace /\ Extraneous /\ NothingMore /\ NothingLess
  /\ ShownIsPlan /\ Walk!RunsWhenSettled

LEMMA WalkInvTypes ==
    ASSUME WalkInv
    PROVE  /\ WalkTypes /\ job \in [Nodes -> Jobs]
           /\ \A d \in Nodes : job[d] \in Jobs /\ JobFits(d, job[d])
  <1>1. Options \subseteq Walk!Asks BY SyncingAssumption DEF Walk!WalkAssumption
  <1>2. job \in [Nodes -> Jobs] BY DEF WalkInv, Walk!TypeOK, Jobs
  <1> QED BY <1>1, <1>2 DEF WalkInv, Walk!TypeOK, WalkTypes, JobsInPlace

LEMMA IdleFits == Walk!Idle \in Jobs /\ \A d : JobFits(d, Walk!Idle)
  BY DEF Walk!Idle, Jobs, Walk!Kinds, Walk!Sides, JobFits

LEMMA BegunFits ==
    /\ \A k \in {"sync", "copy", "copyBack"} : Begun(k) \in Jobs /\ Begun(k).at = "ensure"
    /\ \A d : /\ Synced(d) => JobFits(d, Begun("sync"))
              /\ CopyDir(d) => JobFits(d, Begun("copy"))
              /\ BackDir(d) => JobFits(d, Begun("copyBack"))
  BY DEF Begun, Jobs, Walk!Kinds, JobFits

LEMMA EnteredFacts ==
    ASSUME NEW j \in [Nodes -> Jobs], NEW S, NEW k \in {"sync", "copy", "copyBack"}
    PROVE  /\ Walk!Entered(j, S, k) \in [Nodes -> Jobs]
           /\ \A n \in Nodes : Walk!Entered(j, S, k)[n] =
                IF n \in S /\ ~ stopped /\ n \notin Ignored THEN Begun(k) ELSE j[n]
  <1>1. Begun(k) \in Jobs BY BegunFits
  <1>2. Walk!Entered(j, S, k) =
          [n \in Nodes |-> IF n \in S /\ ~ stopped /\ n \notin Ignored THEN Begun(k) ELSE j[n]]
    BY DEF Walk!Entered, Begun
  <1> QED BY <1>1, <1>2

(* What a step of the walk has to keep.                                            *)
LEMMA StepKeeps ==
    ASSUME WalkInv, UNCHANGED Walk!Given, UNCHANGED <<shown, phase>>, Walk!TypeOK',
           phase \in {"walking", "rejected"},
           \A d \in Nodes, j \in Jobs : j = job'[d] => JobFits(d, j),
           Sync => \A d \in verifying' : SyncDir(d),
           Sync => \A n \in removing' : SyncDir(Parent[n]),
           \A n \in removing' \cup gone' : Dropped(n),
           Sync => gone' \subseteq Walk!Expand(Walk!Plan.delete) \cup Unreadable,
           Sync => \A t \in collected' : t[1] \in ToSend \cup Unreadable,
           Undisturbed' => /\ \A n \in Walk!Plan.delete : DeletePending(n)'
                           /\ \A n \in ToSend : SendPending(n)'
    PROVE  WalkInv'
  <1>1. tree' = tree BY DEF Walk!Given
  <1>2. (tree \in [Walk!Sides -> Walk!Trees])'
    BY <1>1 DEF WalkInv, Walk!Sides, Walk!Trees, Walk!Entries, Walk!Paths
  <1>3. JobsInPlace'
    <2>1. \A d \in Nodes, j \in Jobs : j = job'[d] => JobFits(d, j)' BY GivenStays
    <2> QED BY <2>1 DEF JobsInPlace, Jobs, Walk!Kinds, Walk!Sides
  <1>4. RestInPlace' BY GivenStays DEF RestInPlace
  <1>5. Extraneous' BY GivenStays DEF Extraneous
  <1>6. NothingMore'
    <2>1. Walk!Expand(Walk!Plan.delete)' = Walk!Expand(Walk!Plan.delete)
      BY GivenStays DEF Walk!Expand, Walk!Under, Walk!Paths
    <2> QED BY <2>1, GivenStays DEF NothingMore
  <1>7. NothingLess'
    <2>1. Walk!Plan.delete' = Walk!Plan.delete /\ ToSend' = ToSend BY GivenStays
    <2> QED BY <2>1 DEF NothingLess
  <1>8. ShownIsPlan' BY GivenStays DEF ShownIsPlan, WalkInv
  <1>9. Walk!RunsWhenSettled' BY DEF Walk!RunsWhenSettled
  <1> QED BY <1>2, <1>3, <1>4, <1>5, <1>6, <1>7, <1>8, <1>9 DEF WalkInv

(* What is pending stays so, unless it is done.                                    *)
LEMMA PendingStays ==
    ASSUME WalkInv, UNCHANGED Walk!Given, UNCHANGED phase, phase \in {"walking", "rejected"},
           ~ stopped' => ~ stopped, ~ failed' => ~ failed,
           \A d \in Nodes : job[d].at # "done" => job'[d].at # "done",
           removing \subseteq removing' \cup gone', gone \subseteq gone',
           collected \subseteq collected', skipped \subseteq skipped', verifying \subseteq verifying'
    PROVE  Undisturbed' => /\ \A n \in Walk!Plan.delete : DeletePending(n)'
                           /\ \A n \in ToSend : SendPending(n)'
  <1>1. SUFFICES ASSUME Undisturbed'
                 PROVE  /\ \A n \in Walk!Plan.delete : DeletePending(n)'
                        /\ \A n \in ToSend : SendPending(n)'
    OBVIOUS
  <1>2. Undisturbed
    BY <1>1, GivenStays DEF Undisturbed, Walk!Given
  <1>3. \A n : Reaching(n) => Reaching(n)' BY DEF Reaching, Walk!Under
  <1>4. \A n : Sent(n) => Sent(n)' BY DEF Sent, Walk!Sides
  <1>5. \A n : InComparison(n) => InComparison(n)' BY GivenStays DEF InComparison, Walk!Given
  <1>6. ASSUME NEW n \in Walk!Plan.delete PROVE DeletePending(n)'
    BY <1>2, <1>3 DEF WalkInv, NothingLess, DeletePending
  <1>7. ASSUME NEW n \in ToSend PROVE SendPending(n)'
    BY <1>2, <1>3, <1>4, <1>5 DEF WalkInv, NothingLess, SendPending
  <1> QED BY <1>6, <1>7

LEMMA WalkInit == Walk!Init => WalkInv
  <1> SUFFICES ASSUME Walk!Init PROVE WalkInv OBVIOUS
  <1>1. /\ opt \in Options /\ unread \subseteq Walk!Paths /\ shown = Walk!NoPlan /\ phase = "asked"
        /\ job = [n \in Nodes |-> Walk!Idle]
        /\ verifying = {} /\ removing = {} /\ collected = {} /\ skipped = {} /\ gone = {}
        /\ delivered = {} /\ stopped = FALSE /\ failed = FALSE
    BY DEF Walk!Init
  <1>2. alike \subseteq Walk!Paths BY DEF Walk!Init
  <1>3. tree \in [Walk!Sides -> Walk!Trees]
    <2>1. SrcTrees \subseteq Walk!Trees /\ DstTrees \subseteq Walk!Trees
      BY SyncingAssumption DEF Walk!WalkAssumption
    <2>2. PICK s \in SrcTrees, d \in DstTrees : tree = [src |-> s, dst |-> d] BY DEF Walk!Init
    <2> QED BY <2>1, <2>2 DEF Walk!Sides
  <1>4. Walk!TypeOK
    <2>1. tree \in [Walk!Sides -> [Nodes -> Walk!Entries]] BY <1>3 DEF Walk!Trees
    <2>2. DOMAIN shown = DOMAIN Walk!NoPlan /\ \A k \in DOMAIN Walk!NoPlan : shown[k] \subseteq Walk!Paths
      BY <1>1 DEF Walk!NoPlan
    <2>3. job \in [Nodes -> Jobs] BY <1>1, IdleFits
    <2> QED BY <1>1, <1>2, <2>1, <2>2, <2>3 DEF Walk!TypeOK, Jobs
  <1>5. JobsInPlace BY <1>1, IdleFits DEF JobsInPlace
  <1>6. RestInPlace /\ Extraneous /\ NothingMore
    BY <1>1 DEF RestInPlace, Extraneous, NothingMore
  <1>7. NothingLess /\ ShownIsPlan /\ Walk!RunsWhenSettled
    BY <1>1 DEF NothingLess, Undisturbed, ShownIsPlan, Walk!RunsWhenSettled
  <1> QED BY <1>3, <1>4, <1>5, <1>6, <1>7 DEF WalkInv

LEMMA ProceedKeeps ==
    ASSUME WalkInv, Walk!Proceed
    PROVE  WalkInv'
  <1> DEFINE k == IF opt.command = "sync" THEN "sync" ELSE "copy"
  <1>1. /\ phase = "asked" /\ phase' = "walking" /\ job' = Walk!Entered(job, {Root}, k)
        /\ shown' = IF Walk!Confirms THEN Walk!Plan ELSE Walk!NoPlan
        /\ UNCHANGED Walk!Given
        /\ UNCHANGED <<verifying, removing, collected, skipped, gone, delivered, stopped, failed>>
    BY DEF Walk!Proceed, Walk!Given, Walk!Outcome
  <1>2. WalkTypes /\ job \in [Nodes -> Jobs] BY WalkInvTypes
  <1>3. /\ job' \in [Nodes -> Jobs]
        /\ \A n \in Nodes : job'[n] = IF n \in {Root} /\ ~ stopped /\ n \notin Ignored
                                      THEN Begun(k) ELSE job[n]
    BY <1>1, <1>2, EnteredFacts
  <1>4. Walk!TypeOK'
    <2>1. DOMAIN shown' = DOMAIN Walk!NoPlan /\ \A x \in DOMAIN Walk!NoPlan : shown'[x] \subseteq Walk!Paths
      <3>1. \A x \in DOMAIN Walk!NoPlan : Walk!NoPlan[x] \subseteq Walk!Paths BY DEF Walk!NoPlan
      <3>2. DOMAIN Walk!Plan = DOMAIN Walk!NoPlan BY DEF Walk!Plan, Walk!NoPlan
      <3>3. \A x \in DOMAIN Walk!NoPlan : Walk!Plan[x] \subseteq Walk!Paths
        BY <1>2, PlanFacts DEF Walk!NoPlan
      <3> QED BY <1>1, <3>1, <3>2, <3>3
    <2>2. job' \in [Nodes -> [kind : Walk!Kinds, at : {"ensure", "list", "done"}, listed : SUBSET Walk!Sides]]
      BY <1>3 DEF Jobs
    <2> QED BY <1>1, <2>1, <2>2 DEF WalkInv, Walk!TypeOK, Walk!Given, Walk!Paths, Walk!Sides, Walk!Entries,
                                    Walk!Kinds, Walk!NoPlan
  <1>5. tree' \in [Walk!Sides -> Walk!Trees]
    BY <1>1 DEF WalkInv, Walk!Given
  <1>6. \A d \in Nodes, j \in Jobs : j = job'[d] => JobFits(d, j)
    <2>1. SUFFICES ASSUME NEW d \in Nodes PROVE JobFits(d, job'[d]) OBVIOUS
    <2>2. CASE job'[d] = job[d] BY <2>2, WalkInvTypes
    <2>3. CASE d = Root /\ job'[d] = Begun(k)
      <3>1. CASE Sync BY <2>3, <3>1, BegunFits DEF Synced, Sync
      <3>2. CASE ~ Sync BY <2>3, <3>2 DEF JobFits, Begun, Sync
      <3> QED BY <3>1, <3>2
    <2> QED BY <1>3, <2>2, <2>3
  <1>7. JobsInPlace'
    <2>1. \A d \in Nodes, j \in Jobs : j = job'[d] => JobFits(d, j)' BY <1>1, <1>6, GivenStays
    <2> QED BY <2>1 DEF JobsInPlace, Jobs, Walk!Kinds, Walk!Sides
  <1>8. RestInPlace' /\ Extraneous' /\ NothingMore'
    <2>1. Walk!Expand(Walk!Plan.delete)' = Walk!Expand(Walk!Plan.delete)
      BY <1>1, GivenStays DEF Walk!Expand, Walk!Under, Walk!Paths
    <2> QED BY <1>1, <2>1, GivenStays DEF WalkInv, RestInPlace, Extraneous, NothingMore
  <1>9. NothingLess'
    <2>1. SUFFICES ASSUME Undisturbed' PROVE \A n : Reaching(n)'
      BY DEF NothingLess, DeletePending, SendPending
    <2>2. ~ stopped /\ Root \in Nodes /\ Root \notin Ignored BY <1>1, <2>1, PathFacts DEF Undisturbed
    <2>3. job'[Root].at # "done" BY <1>3, <2>2 DEF Begun
    <2> QED BY <2>2, <2>3 DEF Reaching
  <1>10. ShownIsPlan' BY <1>1, GivenStays DEF ShownIsPlan
  <1>11. Walk!RunsWhenSettled' BY <1>1 DEF Walk!RunsWhenSettled
  <1> QED BY <1>4, <1>5, <1>7, <1>8, <1>9, <1>10, <1>11 DEF WalkInv

(* Steps of the command that leave the calls alone.                                *)
LEMMA PhaseMoves ==
    ASSUME WalkInv, UNCHANGED Walk!Given,
           UNCHANGED <<shown, job, verifying, removing, collected, skipped, gone, failed>>,
           Walk!TypeOK', Walk!RunsWhenSettled', stopped => stopped',
           phase' = "dropped" \/ phase \notin {"asked", "dropped"}
    PROVE  WalkInv'
  <1>1. tree' \in [Walk!Sides -> Walk!Trees] BY DEF WalkInv, Walk!Given
  <1>2. JobsInPlace'
    <2>1. \A d \in Nodes, j \in Jobs : j = job'[d] => JobFits(d, j)'
      BY GivenStays DEF WalkInv, JobsInPlace
    <2> QED BY <2>1 DEF JobsInPlace, Jobs, Walk!Kinds, Walk!Sides
  <1>3. RestInPlace' /\ Extraneous' /\ NothingMore'
    <2>1. Walk!Expand(Walk!Plan.delete)' = Walk!Expand(Walk!Plan.delete)
      BY GivenStays DEF Walk!Expand, Walk!Under, Walk!Paths
    <2> QED BY <2>1, GivenStays DEF WalkInv, RestInPlace, Extraneous, NothingMore
  <1>4. NothingLess'
    <2>1. Undisturbed' => Undisturbed BY GivenStays DEF Undisturbed, Walk!Given
    <2>2. \A n : Reaching(n) => Reaching(n)' BY DEF Reaching, Walk!Under
    <2>3. \A n : Sent(n) => Sent(n)' BY DEF Sent, Walk!Sides
    <2>4. \A n : InComparison(n) => InComparison(n)' BY GivenStays DEF InComparison, Walk!Given
    <2>5. \A n : (DeletePending(n) => DeletePending(n)') /\ (SendPending(n) => SendPending(n)')
      BY <2>2, <2>3, <2>4 DEF DeletePending, SendPending
    <2>6. Walk!Plan.delete' = Walk!Plan.delete /\ ToSend' = ToSend BY GivenStays
    <2> QED BY <2>1, <2>5, <2>6 DEF WalkInv, NothingLess
  <1>5. ShownIsPlan' BY GivenStays DEF WalkInv, ShownIsPlan
  <1> QED BY <1>1, <1>2, <1>3, <1>4, <1>5 DEF WalkInv

LEMMA CommandKeeps ==
    ASSUME WalkInv, Walk!Decline \/ Walk!Run \/ Walk!Report \/ Walk!Reject \/ Walk!Cancel
    PROVE  WalkInv'
  <1>1. /\ UNCHANGED Walk!Given
        /\ UNCHANGED <<shown, job, verifying, removing, collected, skipped, gone, failed>>
        /\ stopped => stopped'
        /\ phase' = "dropped" \/ phase \notin {"asked", "dropped"}
    BY DEF Walk!Decline, Walk!Run, Walk!Report, Walk!Reject, Walk!Cancel, Walk!Given, Walk!Outcome
  <1>2. /\ phase' \in {"asked", "walking", "running", "done", "rejected", "dropped"}
        /\ stopped' \in BOOLEAN /\ delivered' \subseteq collected
    BY DEF Walk!Decline, Walk!Run, Walk!Report, Walk!Reject, Walk!Cancel, Walk!Outcome, WalkInv, Walk!TypeOK
  <1>3. Walk!TypeOK'
    BY <1>1, <1>2 DEF WalkInv, Walk!TypeOK, Walk!Given, Walk!Paths, Walk!Sides, Walk!Entries, Walk!Kinds, Walk!NoPlan
  <1>4. Walk!RunsWhenSettled'
    BY DEF Walk!Decline, Walk!Run, Walk!Report, Walk!Reject, Walk!Cancel, Walk!Outcome, WalkInv,
           Walk!RunsWhenSettled, Walk!AllSettled
  <1> QED BY <1>1, <1>3, <1>4, PhaseMoves

(* The types of what a step of the walk changes.                                   *)
LEMMA StepTypes ==
    ASSUME WalkInv, UNCHANGED Walk!Given, UNCHANGED <<shown, phase, delivered, stopped>>,
           job' \in [Nodes -> Jobs], verifying' \subseteq Nodes, removing' \subseteq Walk!Paths,
           collected \subseteq collected', collected' \subseteq Walk!Paths \X Walk!Sides,
           skipped' \subseteq Walk!Paths, gone' \subseteq Walk!Paths, failed' \in BOOLEAN
    PROVE  Walk!TypeOK'
  BY DEF WalkInv, Walk!TypeOK, Jobs, Walk!Given, Walk!Paths, Walk!Sides, Walk!Entries, Walk!Kinds, Walk!NoPlan

LEMMA SameJobs ==
    ASSUME WalkInv, NEW d \in Nodes, NEW j \in Jobs, JobFits(d, j), job' = [job EXCEPT ![d] = j]
    PROVE  /\ job' \in [Nodes -> Jobs]
           /\ \A e \in Nodes, i \in Jobs : i = job'[e] => JobFits(e, i)
           /\ j.at # "done" => \A e \in Nodes : job[e].at # "done" => job'[e].at # "done"
  <1>1. /\ job' \in [Nodes -> Jobs] /\ job'[d] = j /\ \A e \in Nodes \ {d} : job'[e] = job[e]
    BY WalkInvTypes
  <1>2. ASSUME NEW e \in Nodes PROVE JobFits(e, job'[e])
    <2>1. CASE e = d BY <1>1, <2>1
    <2>2. CASE e # d BY <1>1, <2>2, WalkInvTypes
    <2> QED BY <2>1, <2>2
  <1> QED BY <1>1, <1>2

LEMMA EnsureDirKeeps ==
    ASSUME WalkInv, NEW d \in Nodes, Walk!EnsureDir(d)
    PROVE  WalkInv'
  <1>1. /\ phase \in {"walking", "rejected"} /\ job[d].at = "ensure" /\ UNCHANGED Walk!Given
        /\ UNCHANGED <<shown, phase, verifying, removing, collected, skipped, gone, delivered, stopped>>
    BY DEF Walk!EnsureDir, Walk!Walking, Walk!Outcome
  <1>2. WalkTypes /\ job[d] \in Jobs /\ JobFits(d, job[d]) /\ failed \in BOOLEAN
    BY WalkInvTypes DEF WalkInv, Walk!TypeOK
  <1>3. PICK j \in Jobs : /\ job' = [job EXCEPT ![d] = j] /\ JobFits(d, j) /\ failed' \in BOOLEAN
                          /\ ~ failed' => ~ failed /\ j.at # "done"
    <2>1. CASE Walk!Is("dst", d, "file")
      <3>1. job' = [job EXCEPT ![d] = Walk!Idle] /\ failed' = TRUE BY <2>1 DEF Walk!EnsureDir
      <3> QED BY <3>1, IdleFits
    <2>2. CASE ~ Walk!Is("dst", d, "file")
      <3>1. PICK j : j = [job[d] EXCEPT !.at = "list"] OBVIOUS
      <3>2. /\ j \in Jobs /\ j.at = "list" /\ j.kind = job[d].kind
        BY <1>2, <3>1 DEF Jobs
      <3>3. job' = [job EXCEPT ![d] = j] /\ UNCHANGED failed BY <2>2, <3>1 DEF Walk!EnsureDir
      <3>4. Sync /\ j.kind = "sync" => SyncDir(d)
        <4>1. "src" \in Walk!Sides /\ "dst" \in Walk!Sides BY DEF Walk!Sides
        <4>2. SUFFICES ASSUME Sync, j.kind = "sync" PROVE SyncDir(d) OBVIOUS
        <4>3. Synced(d) BY <1>2, <3>2, <4>2 DEF JobFits
        <4>4. CASE d # Root
          <5>1. Walk!Is("dst", d, "dir") BY <1>2, <2>2, <4>1, <4>3, <4>4, TreeFacts DEF Synced
          <5> QED BY <4>3, <4>4, <5>1 DEF Synced, SyncDir, Walk!BothDirs
        <4> QED BY <4>4 DEF SyncDir
      <3>5. JobFits(d, j)
        <4>1. j.kind # "none" BY <1>1, <1>2, <3>2 DEF JobFits
        <4> QED BY <1>2, <3>2, <3>4, <4>1 DEF JobFits
      <3> QED BY <1>2, <3>2, <3>3, <3>5
    <2> QED BY <2>1, <2>2
  <1>4. /\ job' \in [Nodes -> Jobs]
        /\ \A e \in Nodes, i \in Jobs : i = job'[e] => JobFits(e, i)
        /\ j.at # "done" => \A e \in Nodes : job[e].at # "done" => job'[e].at # "done"
    BY <1>3, SameJobs
  <1>5. Walk!TypeOK' BY <1>1, <1>3, <1>4, StepTypes DEF WalkInv, Walk!TypeOK
  <1>6. Undisturbed' => /\ \A n \in Walk!Plan.delete : DeletePending(n)'
                        /\ \A n \in ToSend : SendPending(n)'
    <2>1. CASE ~ failed' BY <1>1, <1>3, <1>4, <2>1, PendingStays
    <2>2. CASE failed' BY <2>2 DEF Undisturbed
    <2> QED BY <2>1, <2>2
  <1> QED BY <1>1, <1>4, <1>5, <1>6, StepKeeps DEF WalkInv, RestInPlace, Extraneous, NothingMore

LEMMA ListFailsKeeps ==
    ASSUME WalkInv, NEW d \in Nodes, Walk!ListFails(d)
    PROVE  WalkInv'
  <1>1. /\ phase \in {"walking", "rejected"} /\ UNCHANGED Walk!Given
        /\ job' = [job EXCEPT ![d] = Walk!Idle] /\ failed' = TRUE
        /\ UNCHANGED <<shown, phase, verifying, removing, collected, skipped, gone, delivered, stopped>>
    BY DEF Walk!ListFails, Walk!Walking, Walk!Outcome
  <1>2. /\ job' \in [Nodes -> Jobs]
        /\ \A e \in Nodes, i \in Jobs : i = job'[e] => JobFits(e, i)
    BY <1>1, IdleFits, SameJobs
  <1>3. Walk!TypeOK' BY <1>1, <1>2, StepTypes DEF WalkInv, Walk!TypeOK
  <1>4. ~ Undisturbed' BY <1>1 DEF Undisturbed
  <1> QED BY <1>1, <1>2, <1>3, <1>4, StepKeeps DEF WalkInv, RestInPlace, Extraneous, NothingMore

(* What transferFile takes of the transfers it is given, and what is too large.    *)
LEMMA TakesFacts ==
    ASSUME NEW ts
    PROVE  /\ \A t : t \in Walk!Takes(ts) <=> t \in ts /\ ~ stopped /\ t[1] \notin Ignored /\ ~ Walk!TooBig(t[2], t[1])
           /\ \A n : n \in Walk!Skips(ts) <=> \E t \in ts : Walk!TooBig(t[2], t[1]) /\ t[1] = n
  BY DEF Walk!Takes, Walk!Skips

LEMMA TakenOrSkipped ==
    ASSUME NEW ts, NEW n, NEW s, <<n, s>> \in ts, ~ stopped, n \notin Ignored
    PROVE  <<n, s>> \in Walk!Takes(ts) \/ n \in Walk!Skips(ts)
  <1>1. PICK t : t = <<n, s>> OBVIOUS
  <1>2. t[1] = n /\ t[2] = s BY <1>1
  <1> QED BY <1>1, <1>2, TakesFacts

LEMMA VerifyKeeps ==
    ASSUME WalkInv, NEW d \in Nodes, Walk!Verify(d)
    PROVE  WalkInv'
  <1> DEFINE ts == {<<n, Walk!From(n)>> : n \in Walk!ToVerify(d) \ alike}
  <1>1. /\ phase \in {"walking", "rejected"} /\ d \in verifying /\ UNCHANGED Walk!Given
        /\ collected' = collected \cup Walk!Takes(ts) /\ skipped' = skipped \cup Walk!Skips(ts)
        /\ verifying' = verifying \ {d}
        /\ UNCHANGED <<shown, phase, job, removing, gone, delivered, stopped, failed>>
    BY DEF Walk!Verify, Walk!Walking
  <1>2. WalkTypes /\ job \in [Nodes -> Jobs] BY WalkInvTypes
  <1>3. \A n \in Walk!ToVerify(d) : n \in Walk!Below(d) /\ n \in Walk!Paths /\ n \notin Ignored
    BY <1>2, TransferFacts DEF Walk!Below
  <1>4. \A t : t \in ts <=> \E n \in Walk!ToVerify(d) : n \notin alike /\ t = <<n, Walk!From(n)>>
    OBVIOUS
  <1>5. \A t \in ts : t \in Walk!Paths \X Walk!Sides /\ t[1] \in Walk!ToVerify(d) /\ t[1] \notin alike
    BY <1>3, <1>4 DEF Walk!From, Walk!Sides
  <1>6. \A n \in Walk!ToVerify(d) : n \notin alike => <<n, Walk!From(n)>> \in ts
    OBVIOUS
  <1> HIDE DEF ts
  <1>8. /\ collected' \subseteq Walk!Paths \X Walk!Sides /\ skipped' \subseteq Walk!Paths
    BY <1>1, <1>5, TakesFacts DEF WalkInv, Walk!TypeOK
  <1>9. Walk!TypeOK' BY <1>1, <1>2, <1>8, StepTypes DEF WalkInv, Walk!TypeOK
  <1>10. Sync => \A t \in collected' : t[1] \in ToSend \cup Unreadable
    <2>1. SUFFICES ASSUME Sync, NEW t \in Walk!Takes(ts) PROVE t[1] \in ToSend \cup Unreadable
      BY <1>1 DEF WalkInv, NothingMore
    <2>2. SyncDir(d) BY <1>1, <2>1 DEF WalkInv, RestInPlace
    <2>3. t[1] \in Walk!ToVerify(d) /\ t[1] \notin alike BY <1>5, TakesFacts
    <2> QED BY <1>2, <2>2, <2>3, VerifyWithin
  <1>11. Undisturbed' => /\ \A n \in Walk!Plan.delete : DeletePending(n)'
                         /\ \A n \in ToSend : SendPending(n)'
    <2>1. SUFFICES ASSUME Undisturbed'
                   PROVE  /\ \A n \in Walk!Plan.delete : DeletePending(n)'
                          /\ \A n \in ToSend : SendPending(n)'
      OBVIOUS
    <2>2. Undisturbed /\ ~ stopped BY <1>1, <2>1, GivenStays DEF Undisturbed, Walk!Given
    <2>3. \A n : Reaching(n) => Reaching(n)' BY <1>1 DEF Reaching, Walk!Under
    <2>4. \A n : Sent(n) => Sent(n)' BY <1>1 DEF Sent, Walk!Sides
    <2>5. ASSUME NEW n \in Walk!Plan.delete PROVE DeletePending(n)'
      BY <1>1, <2>2, <2>3 DEF WalkInv, NothingLess, DeletePending
    <2>6. ASSUME NEW n \in ToSend PROVE SendPending(n)'
      <3>1. CASE Reaching(n) \/ Sent(n) \/ n \in skipped BY <1>1, <2>3, <2>4, <3>1 DEF SendPending
      <3>2. CASE InComparison(n) /\ Parent[n] # d
        <4>1. InComparison(n)' BY <1>1, <3>2, GivenStays DEF InComparison, Walk!Given
        <4> QED BY <4>1 DEF SendPending
      <3>3. CASE InComparison(n) /\ Parent[n] = d
        <4>1. <<n, Walk!From(n)>> \in ts /\ n \notin Ignored BY <1>3, <1>6, <3>3 DEF InComparison
        <4>2. <<n, Walk!From(n)>> \in Walk!Takes(ts) \/ n \in Walk!Skips(ts)
          BY <2>2, <4>1, TakenOrSkipped
        <4>3. Walk!From(n) \in Walk!Sides BY DEF Walk!From, Walk!Sides
        <4>4. PICK s \in Walk!Sides : s = Walk!From(n) BY <4>3
        <4>5. <<n, s>> \in collected' \/ n \in skipped' BY <1>1, <4>2, <4>4
        <4>6. Sent(n)' \/ n \in skipped' BY <4>5 DEF Sent, Walk!Sides
        <4> QED BY <4>6 DEF SendPending
      <3>4. SendPending(n) BY <2>2 DEF WalkInv, NothingLess
      <3> QED BY <3>1, <3>2, <3>3, <3>4 DEF SendPending
    <2> QED BY <2>5, <2>6
  <1> QED BY <1>1, <1>9, <1>10, <1>11, StepKeeps
          DEF WalkInv, JobsInPlace, RestInPlace, Extraneous, NothingMore

LEMMA VerifyFailsKeeps ==
    ASSUME WalkInv, NEW d \in Nodes, Walk!VerifyFails(d)
    PROVE  WalkInv'
  <1>1. /\ phase \in {"walking", "rejected"} /\ UNCHANGED Walk!Given
        /\ verifying' = verifying \ {d} /\ failed' = TRUE
        /\ UNCHANGED <<shown, phase, job, removing, collected, skipped, gone, delivered, stopped>>
    BY DEF Walk!VerifyFails, Walk!Walking, Walk!Outcome
  <1>2. Walk!TypeOK' BY <1>1, WalkInvTypes, StepTypes DEF WalkInv, Walk!TypeOK
  <1>3. ~ Undisturbed' BY <1>1 DEF Undisturbed
  <1> QED BY <1>1, <1>2, <1>3, StepKeeps DEF WalkInv, JobsInPlace, RestInPlace, Extraneous, NothingMore

LEMMA RemoveKeeps ==
    ASSUME WalkInv, NEW n \in Walk!Paths, Walk!Remove(n)
    PROVE  WalkInv'
  <1>1. /\ phase \in {"walking", "rejected"} /\ n \in removing /\ UNCHANGED Walk!Given
        /\ gone' = IF n \in Ignored THEN gone ELSE gone \cup {m \in Walk!Expand({n}) : Walk!Exists("dst", m)}
        /\ removing' = removing \ {n}
        /\ UNCHANGED <<shown, phase, job, verifying, collected, skipped, delivered, stopped, failed>>
    BY DEF Walk!Remove, Walk!Walking
  <1>2. WalkTypes /\ job \in [Nodes -> Jobs] BY WalkInvTypes
  <1>3. Dropped(n) /\ (Sync => SyncDir(Parent[n])) BY <1>1 DEF WalkInv, Extraneous, RestInPlace
  <1>4. ASSUME NEW m \in gone' PROVE m \in gone \/ (n \notin Ignored /\ m \in Walk!Expand({n}) /\ Walk!Exists("dst", m))
    BY <1>1, <1>4
  <1>5. Walk!TypeOK'
    <2>1. gone' \subseteq Walk!Paths BY <1>4, ExpandFacts DEF WalkInv, Walk!TypeOK
    <2> QED BY <1>1, <1>2, <2>1, StepTypes DEF WalkInv, Walk!TypeOK
  <1>6. \A m \in removing' \cup gone' : Dropped(m)
    BY <1>1, <1>2, <1>3, <1>4, RemovedIsDropped DEF WalkInv, Extraneous
  <1>7. Sync => gone' \subseteq Walk!Expand(Walk!Plan.delete) \cup Unreadable
    BY <1>2, <1>3, <1>4, RemovedWithin DEF WalkInv, NothingMore
  <1>8. Undisturbed' => /\ \A m \in Walk!Plan.delete : DeletePending(m)'
                        /\ \A m \in ToSend : SendPending(m)'
    <2>1. CASE n \notin Ignored
      <3>1. n \in Walk!Expand({n}) /\ Walk!Exists("dst", n) BY <1>3, ExpandFacts DEF Dropped
      <3>2. removing \subseteq removing' \cup gone' /\ gone \subseteq gone' BY <1>1, <2>1, <3>1
      <3> QED BY <1>1, <3>2, PendingStays
    <2>2. CASE n \in Ignored
      <3>1. SUFFICES ASSUME Undisturbed'
                     PROVE  /\ \A m \in Walk!Plan.delete : DeletePending(m)'
                            /\ \A m \in ToSend : SendPending(m)'
        OBVIOUS
      <3>2. Undisturbed BY <1>1, <3>1, GivenStays DEF Undisturbed, Walk!Given
      <3>3. \A m : Reaching(m) => Reaching(m)' BY <1>1 DEF Reaching, Walk!Under
      <3>4. ASSUME NEW m \in Walk!Plan.delete PROVE DeletePending(m)'
        <4>1. m # n BY <1>2, <2>2, PlanFacts DEF Deletes, Walk!Compared
        <4>2. DeletePending(m) BY <3>2 DEF WalkInv, NothingLess
        <4> QED BY <1>1, <3>3, <4>1, <4>2 DEF DeletePending
      <3>5. ASSUME NEW m \in ToSend PROVE SendPending(m)'
        <4>1. Sent(m) => Sent(m)' BY <1>1 DEF Sent, Walk!Sides
        <4>2. InComparison(m) => InComparison(m)' BY <1>1, GivenStays DEF InComparison, Walk!Given
        <4>3. SendPending(m) BY <3>2 DEF WalkInv, NothingLess
        <4> QED BY <1>1, <3>3, <4>1, <4>2, <4>3 DEF SendPending
      <3> QED BY <3>4, <3>5
    <2> QED BY <2>1, <2>2
  <1> QED BY <1>1, <1>5, <1>6, <1>7, <1>8, StepKeeps DEF WalkInv, JobsInPlace, RestInPlace, NothingMore

LEMMA RemoveFailsKeeps ==
    ASSUME WalkInv, NEW n \in Walk!Paths, Walk!RemoveFails(n)
    PROVE  WalkInv'
  <1>1. /\ phase \in {"walking", "rejected"} /\ UNCHANGED Walk!Given
        /\ removing' \subseteq removing /\ failed' = TRUE
        /\ UNCHANGED <<shown, phase, job, verifying, collected, skipped, gone, delivered, stopped>>
    BY DEF Walk!RemoveFails, Walk!Walking, Walk!Outcome
  <1>2. Walk!TypeOK' BY <1>1, WalkInvTypes, StepTypes DEF WalkInv, Walk!TypeOK
  <1>3. ~ Undisturbed' BY <1>1 DEF Undisturbed
  <1> QED BY <1>1, <1>2, <1>3, StepKeeps DEF WalkInv, JobsInPlace, RestInPlace, Extraneous, NothingMore

(* The listings of directory d are there, and its _sync goes on to what is in it.  *)
LEMMA SyncFilesKeeps ==
    ASSUME WalkInv, NEW d \in Nodes, phase \in {"walking", "rejected"},
           job[d].kind = "sync", job[d].at = "list",
           Walk!SyncFiles(d, [job EXCEPT ![d] = Walk!Idle]), UNCHANGED Walk!Given,
           UNCHANGED <<shown, phase, gone, delivered, stopped, failed>>
    PROVE  WalkInv'
  <1>1. PICK j : j = [job EXCEPT ![d] = Walk!Idle] OBVIOUS
  <1>2. WalkTypes /\ job \in [Nodes -> Jobs] /\ \A e \in Nodes : job[e] \in Jobs /\ JobFits(e, job[e])
    BY WalkInvTypes
  <1>3. /\ j \in [Nodes -> Jobs] /\ j[d] = Walk!Idle /\ \A e \in Nodes \ {d} : j[e] = job[e]
    BY <1>1, <1>2, IdleFits
  <1>4. Sync => SyncDir(d) BY <1>2 DEF JobFits
  <1>5. /\ collected' = collected \cup Walk!Takes(Transfers(d))
        /\ skipped' = skipped \cup Walk!Skips(Transfers(d))
        /\ removing' = removing \cup Walk!Missing(d)
        /\ verifying' = IF Walk!ToVerify(d) = {} THEN verifying ELSE verifying \cup {d}
        /\ job' = Walk!Entered(Walk!Entered(Walk!Entered(j, Folders(d, "src"), "copy"),
                                            Folders(d, "dst"), "copyBack"), Walk!ToSync(d), "sync")
    BY <1>1 DEF Walk!SyncFiles, Transfers, Folders
  <1>6. PICK j1 : j1 = Walk!Entered(j, Folders(d, "src"), "copy") OBVIOUS
  <1>7. PICK j2 : j2 = Walk!Entered(j1, Folders(d, "dst"), "copyBack") OBVIOUS
  <1>8. /\ j1 \in [Nodes -> Jobs]
        /\ \A n \in Nodes : j1[n] = IF n \in Folders(d, "src") /\ ~ stopped /\ n \notin Ignored
                                    THEN Begun("copy") ELSE j[n]
    BY <1>3, <1>6, EnteredFacts
  <1>9. /\ j2 \in [Nodes -> Jobs]
        /\ \A n \in Nodes : j2[n] = IF n \in Folders(d, "dst") /\ ~ stopped /\ n \notin Ignored
                                    THEN Begun("copyBack") ELSE j1[n]
    BY <1>7, <1>8, EnteredFacts
  <1>10. /\ job' \in [Nodes -> Jobs]
         /\ \A n \in Nodes : job'[n] = IF n \in Walk!ToSync(d) /\ ~ stopped /\ n \notin Ignored
                                       THEN Begun("sync") ELSE j2[n]
    BY <1>5, <1>6, <1>7, <1>9, EnteredFacts
  <1>11. \A n \in Nodes : \/ job'[n] = j[n]
                          \/ n \notin Ignored /\ n \in Folders(d, "src") /\ job'[n] = Begun("copy")
                          \/ n \notin Ignored /\ n \in Folders(d, "dst") /\ job'[n] = Begun("copyBack")
                          \/ n \notin Ignored /\ n \in Walk!ToSync(d) /\ job'[n] = Begun("sync")
    BY <1>8, <1>9, <1>10
  <1>12. \A n \in Nodes : n \in Folders(d, "src") \cup Folders(d, "dst") \cup Walk!ToSync(d)
                          /\ ~ stopped /\ n \notin Ignored => job'[n].at # "done"
    BY <1>8, <1>9, <1>10, BegunFits
  <1>13. \A n \in Nodes \ {d} : job[n].at # "done" => job'[n].at # "done"
    BY <1>3, <1>11, BegunFits
  <1>14. ASSUME NEW n \in Nodes PROVE JobFits(n, job'[n])
    <2>1. JobFits(n, j[n])
      <3>1. CASE n = d BY <1>3, <3>1, IdleFits
      <3>2. CASE n # d BY <1>2, <1>3, <3>2
      <3> QED BY <3>1, <3>2
    <2>2. ~ Sync => \A k \in {"sync", "copy", "copyBack"} : JobFits(n, Begun(k))
      BY DEF JobFits, Begun
    <2>3. CASE ~ Sync BY <1>11, <2>1, <2>2, <2>3
    <2>4. CASE Sync BY <1>2, <1>4, <1>11, <2>1, <2>4, FoldersFit, BegunFits
    <2> QED BY <2>3, <2>4
  <1>15. Walk!TypeOK'
    <2>1. \A t \in Transfers(d) : t \in Walk!Paths \X Walk!Sides /\ t[1] \in Walk!Paths
      BY <1>2, TransferFacts DEF Walk!Below
    <2>2. collected' \subseteq Walk!Paths \X Walk!Sides /\ skipped' \subseteq Walk!Paths
      BY <1>5, <2>1, TakesFacts DEF WalkInv, Walk!TypeOK
    <2>3. removing' \subseteq Walk!Paths
      BY <1>5 DEF WalkInv, Walk!TypeOK, Walk!Missing, Walk!DstOnly, Walk!Below
    <2>4. verifying' \subseteq Nodes BY <1>5 DEF WalkInv, Walk!TypeOK
    <2> QED BY <1>5, <1>10, <2>2, <2>3, <2>4, StepTypes DEF WalkInv, Walk!TypeOK
  <1>16. Sync => \A e \in verifying' : SyncDir(e)
    BY <1>4, <1>5 DEF WalkInv, RestInPlace
  <1>17. Sync => \A n \in removing' : SyncDir(Parent[n])
    <2>1. \A n \in Walk!Missing(d) : Parent[n] = d BY DEF Walk!Missing, Walk!DstOnly, Walk!Below
    <2> QED BY <1>4, <1>5, <2>1 DEF WalkInv, RestInPlace
  <1>18. \A n \in removing' \cup gone' : Dropped(n)
    <2>1. \A n \in Walk!Missing(d) : Dropped(n) BY DEF Walk!Missing, Walk!DstOnly, Dropped
    <2> QED BY <1>5, <2>1 DEF WalkInv, Extraneous
  <1>19. Sync => \A t \in collected' : t[1] \in ToSend \cup Unreadable
    <2>1. SUFFICES ASSUME Sync, NEW t \in Walk!Takes(Transfers(d)) PROVE t[1] \in ToSend \cup Unreadable
      BY <1>5 DEF WalkInv, NothingMore
    <2>2. t \in Transfers(d) /\ t[1] \notin Ignored BY TakesFacts
    <2> QED BY <1>2, <1>4, <2>1, <2>2, TransfersWithin
  <1>20. Undisturbed' => /\ \A n \in Walk!Plan.delete : DeletePending(n)'
                         /\ \A n \in ToSend : SendPending(n)'
    <2>1. SUFFICES ASSUME Undisturbed'
                   PROVE  /\ \A n \in Walk!Plan.delete : DeletePending(n)'
                          /\ \A n \in ToSend : SendPending(n)'
      OBVIOUS
    <2>2. /\ Undisturbed /\ ~ stopped /\ SyncDir(d) /\ ~ opt.ignoreExisting
          /\ ~ (opt.both /\ opt.update)
      BY <1>4, <2>1, GivenStays DEF Undisturbed, Walk!Given
    <2>3. ASSUME NEW n, NEW e \in Nodes, e # d, job[e].at # "done", e = n \/ e = Root \/ Walk!Under(n, e)
          PROVE  Reaching(n)'
      BY <1>13, <2>3 DEF Reaching, Walk!Under
    <2>4. ASSUME NEW n, NEW e \in Folders(d, "src") \cup Folders(d, "dst") \cup Walk!ToSync(d),
                 e \notin Ignored, e = n \/ Walk!Under(n, e)
          PROVE  Reaching(n)'
      <3>1. e \in Nodes
        BY <1>2, TransferFacts, PathFacts DEF Walk!ToSync, Walk!Common, Walk!Below
      <3> QED BY <1>12, <2>2, <2>4, <3>1 DEF Reaching, Walk!Under
    <2>5. ASSUME NEW n \in Walk!Plan.delete PROVE DeletePending(n)'
      <3>1. n \in Walk!Paths BY <1>2, PlanFacts
      <3>2. DeletePending(n) BY <2>2 DEF WalkInv, NothingLess
      <3>3. CASE d = Root \/ Walk!Under(n, d)
        <4>1. CASE n \in Walk!Missing(d) BY <1>5, <4>1 DEF DeletePending
        <4>2. ASSUME NEW e \in Walk!ToSync(d), e \notin Ignored, Walk!Under(n, e) PROVE DeletePending(n)'
          BY <2>4, <4>2 DEF DeletePending
        <4> QED BY <1>2, <2>2, <3>1, <3>3, <4>1, <4>2, DeletesHandedOn
      <3>4. CASE ~ (d = Root \/ Walk!Under(n, d))
        <4>1. d # n BY <1>2, <2>2, <3>1, NotAtItself
        <4>2. Reaching(n) => Reaching(n)' BY <2>3, <3>4, <4>1 DEF Reaching
        <4> QED BY <1>5, <3>2, <4>2 DEF DeletePending
      <3> QED BY <3>3, <3>4
    <2>6. ASSUME NEW n \in ToSend PROVE SendPending(n)'
      <3>1. n \in Walk!Paths /\ n \notin Ignored BY <1>2, PlanFacts, ExpandFacts DEF ToSend, Created
      <3>2. SendPending(n) BY <2>2 DEF WalkInv, NothingLess
      <3>3. CASE d = Root \/ Walk!Under(n, d)
        <4>1. ASSUME NEW s \in Walk!Sides, <<n, s>> \in Transfers(d) PROVE SendPending(n)'
          <5>1. <<n, s>> \in Walk!Takes(Transfers(d)) \/ n \in Walk!Skips(Transfers(d))
            BY <2>2, <3>1, <4>1, TakenOrSkipped
          <5>2. <<n, s>> \in collected' \/ n \in skipped' BY <1>5, <5>1
          <5>3. Sent(n)' \/ n \in skipped' BY <5>2 DEF Sent, Walk!Sides
          <5> QED BY <5>3 DEF SendPending
        <4>2. CASE n \in Walk!ToVerify(d) /\ n \notin alike /\ Parent[n] = d
          <5>1. Parent[n] \in verifying' BY <1>5, <4>2
          <5>2. InComparison(n)' BY <4>2, <5>1, GivenStays DEF InComparison, Walk!Given
          <5> QED BY <5>2 DEF SendPending
        <4>3. ASSUME NEW e \in Folders(d, "src") \cup Folders(d, "dst") \cup Walk!ToSync(d),
                     e \notin Ignored, e = n \/ Walk!Under(n, e)
              PROVE  SendPending(n)'
          BY <2>4, <4>3 DEF SendPending
        <4> QED BY <1>2, <2>2, <3>3, <4>1, <4>2, <4>3, SendsHandedOn
      <3>4. CASE ~ (d = Root \/ Walk!Under(n, d))
        <4>1. d # n BY <1>2, <2>2, <3>1, NotAtItself
        <4>2. Reaching(n) => Reaching(n)' BY <2>3, <3>4, <4>1 DEF Reaching
        <4>3. Sent(n) => Sent(n)' BY <1>5 DEF Sent, Walk!Sides
        <4>4. InComparison(n) => InComparison(n)' BY <1>5, GivenStays DEF InComparison, Walk!Given
        <4> QED BY <1>5, <3>2, <4>2, <4>3, <4>4 DEF SendPending
      <3> QED BY <3>3, <3>4
    <2> QED BY <2>5, <2>6
  <1>21. \A n \in Nodes, i \in Jobs : i = job'[n] => JobFits(n, i) BY <1>14
  <1>22. Sync => gone' \subseteq Walk!Expand(Walk!Plan.delete) \cup Unreadable BY DEF WalkInv, NothingMore
  <1> QED BY <1>15, <1>16, <1>17, <1>18, <1>19, <1>20, <1>21, <1>22, StepKeeps

(* The listing of directory d is there, and its transferFolder goes on.            *)
LEMMA CopyFilesKeeps ==
    ASSUME WalkInv, NEW d \in Nodes, phase \in {"walking", "rejected"},
           job[d].kind = "copy", job[d].at = "list",
           Walk!CopyFiles(d, [job EXCEPT ![d] = Walk!Idle]), UNCHANGED Walk!Given,
           UNCHANGED <<shown, phase, gone, delivered, stopped, failed>>
    PROVE  WalkInv'
  <1>1. PICK j : j = [job EXCEPT ![d] = Walk!Idle] OBVIOUS
  <1>2. WalkTypes /\ job \in [Nodes -> Jobs] /\ \A e \in Nodes : job[e] \in Jobs /\ JobFits(e, job[e])
    BY WalkInvTypes
  <1>3. /\ j \in [Nodes -> Jobs] /\ j[d] = Walk!Idle /\ \A e \in Nodes \ {d} : j[e] = job[e]
    BY <1>1, <1>2, IdleFits
  <1>4. Sync => CopyDir(d) BY <1>2 DEF JobFits
  <1>5. /\ collected' = collected \cup Walk!Takes(Walk!FilesOf(Copies(d)))
        /\ skipped' = skipped \cup Walk!Skips(Walk!FilesOf(Copies(d)))
        /\ job' = Walk!Entered(j, CopyFolders(d), "copy")
        /\ UNCHANGED <<removing, verifying>>
    BY <1>1 DEF Walk!CopyFiles, Copies, CopyFolders
  <1>6. /\ job' \in [Nodes -> Jobs]
        /\ \A n \in Nodes : job'[n] = IF n \in CopyFolders(d) /\ ~ stopped /\ n \notin Ignored
                                      THEN Begun("copy") ELSE j[n]
    BY <1>3, <1>5, EnteredFacts
  <1>7. \A t \in Copies(d) : /\ t = <<t[1], "src">> /\ t[2] = "src" /\ t[1] \in Walk!Below(d)
                             /\ t[1] \in Walk!Paths /\ t[1] \in Nodes
    BY PathFacts DEF Copies, Walk!Below
  <1>8. \A t \in Walk!FilesOf(Copies(d)) : t \in Copies(d) /\ Walk!Is("src", t[1], "file")
    BY <1>7 DEF Walk!FilesOf
  <1>9. \A n \in CopyFolders(d) : n \in Walk!Below(d) /\ n \in Nodes /\ Walk!Is("src", n, "dir")
    BY <1>7 DEF CopyFolders, Walk!DirsOf
  <1>10. \A n \in Nodes \ {d} : job[n].at # "done" => job'[n].at # "done"
    BY <1>3, <1>6, BegunFits
  <1>11. ASSUME NEW n \in Nodes PROVE JobFits(n, job'[n])
    <2>1. JobFits(n, j[n])
      <3>1. CASE n = d BY <1>3, <3>1, IdleFits
      <3>2. CASE n # d BY <1>2, <1>3, <3>2
      <3> QED BY <3>1, <3>2
    <2>2. ~ Sync => JobFits(n, Begun("copy")) BY DEF JobFits, Begun
    <2>3. Sync /\ n \in CopyFolders(d) /\ n \notin Ignored => CopyDir(n) BY <1>2, <1>4, <1>9, CopyWithin
    <2> QED BY <1>6, <2>1, <2>2, <2>3, BegunFits
  <1>12. Walk!TypeOK'
    <2>1. \A t \in Walk!FilesOf(Copies(d)) : t \in Walk!Paths \X Walk!Sides /\ t[1] \in Walk!Paths
      BY <1>7, <1>8 DEF Walk!Sides
    <2>2. collected' \subseteq Walk!Paths \X Walk!Sides /\ skipped' \subseteq Walk!Paths
      BY <1>5, <2>1, TakesFacts DEF WalkInv, Walk!TypeOK
    <2> QED BY <1>5, <1>6, <2>2, StepTypes DEF WalkInv, Walk!TypeOK
  <1>13. Sync => \A t \in collected' : t[1] \in ToSend \cup Unreadable
    <2>1. SUFFICES ASSUME Sync, NEW t \in Walk!Takes(Walk!FilesOf(Copies(d)))
                   PROVE  t[1] \in ToSend \cup Unreadable
      BY <1>5 DEF WalkInv, NothingMore
    <2>2. t \in Walk!FilesOf(Copies(d)) /\ t[1] \notin Ignored BY TakesFacts
    <2>3. t[1] \in Walk!Below(d) /\ Walk!Is("src", t[1], "file") BY <1>7, <1>8, <2>2
    <2> QED BY <1>2, <1>4, <2>1, <2>2, <2>3, CopyWithin
  <1>14. Undisturbed' => /\ \A n \in Walk!Plan.delete : DeletePending(n)'
                         /\ \A n \in ToSend : SendPending(n)'
    <2>1. SUFFICES ASSUME Undisturbed'
                   PROVE  /\ \A n \in Walk!Plan.delete : DeletePending(n)'
                          /\ \A n \in ToSend : SendPending(n)'
      OBVIOUS
    <2>2. Undisturbed /\ ~ stopped /\ CopyDir(d)
      BY <1>4, <2>1, GivenStays DEF Undisturbed, Walk!Given
    <2>3. d # Root /\ d \in Walk!Paths BY <2>2, PathFacts DEF CopyDir
    <2>4. ASSUME NEW n, NEW e \in Nodes, e # d, job[e].at # "done", e = n \/ e = Root \/ Walk!Under(n, e)
          PROVE  Reaching(n)'
      BY <1>10, <2>4 DEF Reaching, Walk!Under
    <2>5. ASSUME NEW n \in Walk!Paths, n \in ToSend \/ n \in Walk!Plan.delete, ~ Walk!Under(n, d), Reaching(n)
          PROVE  Reaching(n)'
      <3>1. d # n BY <1>2, <2>2, <2>5, NotAtItself
      <3> QED BY <2>3, <2>4, <2>5, <3>1 DEF Reaching
    <2>6. ASSUME NEW n \in Walk!Plan.delete PROVE DeletePending(n)'
      <3>1. n \in Walk!Paths /\ n \in Nodes /\ Walk!Exists("dst", n)
        BY <1>2, PlanFacts, PathFacts DEF Deletes
      <3>2. ~ Walk!Under(n, d)
        <4>1. "dst" \in Walk!Sides /\ d \in Nodes BY DEF Walk!Sides
        <4>2. ~ Walk!Is("dst", d, "dir") BY <1>2, <2>2, <4>1, TreeFacts DEF CopyDir
        <4> QED BY <1>2, <2>3, <3>1, <4>1, <4>2, TreeFacts
      <3>3. DeletePending(n) BY <2>2 DEF WalkInv, NothingLess
      <3>4. Reaching(n) => Reaching(n)' BY <2>5, <3>1, <3>2
      <3> QED BY <1>5, <3>3, <3>4 DEF DeletePending
    <2>7. ASSUME NEW n \in ToSend PROVE SendPending(n)'
      <3>1. n \in Walk!Paths /\ n \notin Ignored BY <1>2, PlanFacts, ExpandFacts DEF ToSend, Created
      <3>2. SendPending(n) BY <2>2 DEF WalkInv, NothingLess
      <3>3. CASE Walk!Under(n, d)
        <4>1. CASE <<n, "src">> \in Walk!FilesOf(Copies(d))
          <5>1. <<n, "src">> \in Walk!Takes(Walk!FilesOf(Copies(d))) \/ n \in Walk!Skips(Walk!FilesOf(Copies(d)))
            BY <2>2, <3>1, <4>1, TakenOrSkipped
          <5>2. <<n, "src">> \in collected' \/ n \in skipped' BY <1>5, <5>1
          <5>3. Sent(n)' \/ n \in skipped' BY <5>2 DEF Sent, Walk!Sides
          <5> QED BY <5>3 DEF SendPending
        <4>2. ASSUME NEW e \in CopyFolders(d), e \notin Ignored, Walk!Under(n, e) PROVE SendPending(n)'
          <5>1. e \in Nodes /\ job'[e].at # "done" BY <1>6, <1>9, <2>2, <4>2, BegunFits
          <5>2. Reaching(n)' BY <4>2, <5>1 DEF Reaching, Walk!Under
          <5> QED BY <5>2 DEF SendPending
        <4> QED BY <1>2, <2>2, <3>3, <4>1, <4>2, CopyHandsOn
      <3>4. CASE ~ Walk!Under(n, d)
        <4>1. Reaching(n) => Reaching(n)' BY <2>5, <3>1, <3>4
        <4>2. Sent(n) => Sent(n)' BY <1>5 DEF Sent, Walk!Sides
        <4>3. InComparison(n) => InComparison(n)' BY <1>5, GivenStays DEF InComparison, Walk!Given
        <4> QED BY <1>5, <3>2, <4>1, <4>2, <4>3 DEF SendPending
      <3> QED BY <3>3, <3>4
    <2> QED BY <2>6, <2>7
  <1>15. \A n \in Nodes, i \in Jobs : i = job'[n] => JobFits(n, i) BY <1>11
  <1> QED BY <1>5, <1>12, <1>13, <1>14, <1>15, StepKeeps DEF WalkInv, RestInPlace, Extraneous, NothingMore

LEMMA ListKeeps ==
    ASSUME WalkInv, NEW d \in Nodes, NEW s \in Walk!Sides, Walk!List(d, s)
    PROVE  WalkInv'
  <1>1. /\ phase \in {"walking", "rejected"} /\ job[d].at = "list" /\ UNCHANGED Walk!Given
        /\ UNCHANGED <<shown, phase, gone, delivered, stopped, failed>>
    BY DEF Walk!List, Walk!Walking
  <1>2. CASE job' = [job EXCEPT ![d].listed = {s}] /\ UNCHANGED <<collected, skipped, removing, verifying>>
    <2>1. job[d] \in Jobs /\ JobFits(d, job[d]) /\ job \in [Nodes -> Jobs] BY WalkInvTypes
    <2>2. PICK j : j = [job[d] EXCEPT !.listed = {s}] OBVIOUS
    <2>3. j \in Jobs /\ j.kind = job[d].kind /\ j.at = job[d].at BY <2>1, <2>2 DEF Jobs
    <2>4. job' = [job EXCEPT ![d] = j] BY <1>2, <2>2
    <2>5. JobFits(d, j) /\ j.at # "done" BY <1>1, <2>1, <2>3 DEF JobFits
    <2>6. /\ job' \in [Nodes -> Jobs]
          /\ \A e \in Nodes, i \in Jobs : i = job'[e] => JobFits(e, i)
          /\ \A e \in Nodes : job[e].at # "done" => job'[e].at # "done"
      BY <2>3, <2>4, <2>5, SameJobs
    <2>7. Walk!TypeOK' BY <1>1, <1>2, <2>6, StepTypes DEF WalkInv, Walk!TypeOK
    <2>8. Undisturbed' => /\ \A n \in Walk!Plan.delete : DeletePending(n)'
                          /\ \A n \in ToSend : SendPending(n)'
      BY <1>1, <1>2, <2>6, PendingStays
    <2> QED BY <1>1, <1>2, <2>6, <2>7, <2>8, StepKeeps DEF WalkInv, RestInPlace, Extraneous, NothingMore
  <1>3. CASE job[d].kind = "sync" /\ Walk!SyncFiles(d, [job EXCEPT ![d] = Walk!Idle])
    BY <1>1, <1>3, SyncFilesKeeps
  <1>4. CASE job[d].kind = "copy" /\ Walk!CopyFiles(d, [job EXCEPT ![d] = Walk!Idle])
    BY <1>1, <1>4, CopyFilesKeeps
  <1> QED BY <1>2, <1>3, <1>4 DEF Walk!List

LEMMA WalkNext ==
    ASSUME WalkInv, Walk!Next
    PROVE  WalkInv'
  BY ProceedKeeps, CommandKeeps, EnsureDirKeeps, ListKeeps, ListFailsKeeps, VerifyKeeps,
     VerifyFailsKeeps, RemoveKeeps, RemoveFailsKeeps
  DEF Walk!Next, Walk!Work

LEMMA WalkStutters ==
    ASSUME WalkInv, UNCHANGED walkVars
    PROVE  WalkInv'
  <1>1. /\ UNCHANGED Walk!Given
        /\ UNCHANGED <<shown, phase, job, verifying, removing, collected, skipped, gone, delivered, stopped, failed>>
    BY DEF walkVars, Walk!Given
  <1>2. Walk!TypeOK'
    BY <1>1 DEF WalkInv, Walk!TypeOK, Walk!Given, Walk!Paths, Walk!Sides, Walk!Entries, Walk!Kinds, Walk!NoPlan
  <1>3. Walk!RunsWhenSettled' BY <1>1 DEF WalkInv, Walk!RunsWhenSettled
  <1>4. CASE phase \notin {"asked", "dropped"} BY <1>1, <1>2, <1>3, <1>4, PhaseMoves
  <1>5. CASE phase = "dropped" BY <1>1, <1>2, <1>3, <1>5, PhaseMoves
  <1>6. CASE phase = "asked"
    <2>1. /\ tree' \in [Walk!Sides -> Walk!Trees] BY <1>1 DEF WalkInv, Walk!Given
    <2>2. JobsInPlace'
      <3>1. \A d \in Nodes, j \in Jobs : j = job'[d] => JobFits(d, j)'
        BY <1>1, GivenStays DEF WalkInv, JobsInPlace
      <3> QED BY <3>1 DEF JobsInPlace, Jobs, Walk!Kinds, Walk!Sides
    <2>3. RestInPlace' /\ Extraneous' /\ NothingMore'
      <3>1. Walk!Expand(Walk!Plan.delete)' = Walk!Expand(Walk!Plan.delete)
        BY <1>1, GivenStays DEF Walk!Expand, Walk!Under, Walk!Paths
      <3> QED BY <1>1, <3>1, GivenStays DEF WalkInv, RestInPlace, Extraneous, NothingMore
    <2>4. NothingLess' /\ ShownIsPlan' BY <1>1, <1>6 DEF NothingLess, Undisturbed, ShownIsPlan
    <2> QED BY <1>2, <1>3, <2>1, <2>2, <2>3, <2>4 DEF WalkInv
  <1> QED BY <1>4, <1>5, <1>6

(* What the invariant is for.                                                      *)
LEMMA WalkIsSafe == WalkInv => SyncIsSafe
  <1> SUFFICES ASSUME WalkInv PROVE SyncIsSafe OBVIOUS
  <1>1. WalkTypes BY WalkInvTypes
  <1>2. Walk!OnlyExtraneousDeleted
    BY DEF WalkInv, Extraneous, Dropped, Walk!OnlyExtraneousDeleted
  <1>3. Walk!PreviewIsPromise
    <2>1. SUFFICES ASSUME Walk!Confirms, phase \notin {"asked", "dropped"}
          PROVE  LET sent == {t[1] : t \in collected}
                     toSend == {n \in Walk!Expand(shown.create) \cup shown.overwrite :
                                  n \notin Ignored /\ (Walk!Is("src", n, "file") \/ Walk!Is("dst", n, "file"))} IN
                   /\ gone \subseteq Walk!Expand(shown.delete \cup shown.unreadable)
                   /\ sent \subseteq toSend \cup Walk!Expand(shown.unreadable)
                   /\ /\ phase \in {"running", "done"} /\ ~ stopped
                      /\ ~ opt.ignoreExisting /\ ~ (opt.both /\ opt.update)
                      => shown.delete \subseteq gone /\ toSend \subseteq sent \cup skipped
      BY DEF Walk!PreviewIsPromise
    <2>2. shown = Walk!Plan /\ Sync BY <2>1 DEF WalkInv, ShownIsPlan, Walk!Confirms, Sync
    <2>3. /\ Walk!Plan.delete \subseteq Walk!Paths /\ Walk!Plan.unreadable \subseteq Walk!Paths BY <1>1, PlanFacts
    <2>4. gone \subseteq Walk!Expand(Walk!Plan.delete \cup Walk!Plan.unreadable)
      BY <2>2 DEF WalkInv, NothingMore, Unreadable, Walk!Expand
    <2>5. ToSend = {n \in Walk!Expand(shown.create) \cup shown.overwrite :
                      n \notin Ignored /\ (Walk!Is("src", n, "file") \/ Walk!Is("dst", n, "file"))}
      BY <2>2 DEF ToSend, Created
    <2>6. {t[1] : t \in collected} \subseteq ToSend \cup Walk!Expand(Walk!Plan.unreadable)
      BY <2>2 DEF WalkInv, NothingMore, Unreadable
    <2>7. ASSUME phase \in {"running", "done"}, ~ stopped, ~ opt.ignoreExisting, ~ (opt.both /\ opt.update)
          PROVE  Walk!Plan.delete \subseteq gone /\ ToSend \subseteq {t[1] : t \in collected} \cup skipped
      <3>1. (\A n \in Nodes : job[n].at = "done") /\ verifying = {} /\ removing = {} /\ ~ failed
        BY <2>7 DEF WalkInv, Walk!RunsWhenSettled
      <3>2. Undisturbed BY <2>2, <2>7, <3>1 DEF Undisturbed
      <3>3. \A n : ~ Reaching(n) /\ ~ InComparison(n) BY <3>1 DEF Reaching, InComparison
      <3>4. Walk!Plan.delete \subseteq gone
        BY <3>1, <3>2, <3>3 DEF WalkInv, NothingLess, DeletePending
      <3>5. ASSUME NEW n \in ToSend PROVE n \in {t[1] : t \in collected} \cup skipped
        <4>1. Sent(n) \/ n \in skipped BY <3>2, <3>3 DEF WalkInv, NothingLess, SendPending
        <4>2. ASSUME NEW s \in Walk!Sides, <<n, s>> \in collected PROVE n \in {t[1] : t \in collected}
          <5>1. PICK t : t = <<n, s>> OBVIOUS
          <5>2. t[1] = n /\ t \in collected BY <4>2, <5>1
          <5> QED BY <5>2
        <4> QED BY <4>1, <4>2 DEF Sent
      <3> QED BY <3>4, <3>5
    <2> QED BY <2>2, <2>4, <2>5, <2>6, <2>7
  <1> QED BY <1>2, <1>3 DEF SyncIsSafe, WalkInv

-------------------------------------------------------------------------------
(* The three side by side.                                                         *)

SyncingInv == part \in Parts /\ WalkInv /\ SlotsInv /\ HashInv

LEMMA SlotsStutter ==
    ASSUME SlotsInv, UNCHANGED limitVars
    PROVE  SlotsInv'
  <1>1. UNCHANGED <<active, waiting, call, granted>> BY DEF limitVars
  <1> QED BY <1>1 DEF SlotsInv, Slots!TypeOK, Slots!width, Held

LEMMA HashStutters ==
    ASSUME HashInv, UNCHANGED hashVars
    PROVE  HashInv'
  <1>1. UNCHANGED <<clock, disk, localCache, tool, hashers, cancelled, hash, batches, running, asked,
                    answer, writes, quiet>>
    BY DEF hashVars
  <1>2. HashTypes'
    BY <1>1 DEF HashInv, HashTypes, Hash!TypeOK, Hash!Items, Hash!Sides, HashRecord, Hash!Keys
  <1>3. HashPending' BY <1>1 DEF HashInv, HashPending, Hash!Items, Hash!Sides
  <1>4. CacheInv'
    BY <1>1 DEF HashInv, CacheInv, Hash!CacheIsSound, Hash!KeyOf, Hash!Items, Hash!Sides
  <1>5. QuietSums' /\ Hash!AnswersAreTrue'
    BY <1>1 DEF HashInv, QuietSums, Hash!AnswersAreTrue, Hash!Items, Hash!Sides
  <1> QED BY <1>2, <1>3, <1>4, <1>5 DEF HashInv

LEMMA SyncingInit == Init => SyncingInv
  BY WalkInit, SlotsInit, HashInit DEF Init, SyncingInv

LEMMA SyncingStep ==
    ASSUME SyncingInv, [Next]_vars
    PROVE  SyncingInv'
  <1>1. CASE WalkOnly /\ Walk!Next
    BY <1>1, WalkNext, SlotsStutter, HashStutters DEF SyncingInv, WalkOnly, Only, limitVars, hashVars
  <1>2. CASE LimitOnly /\ Slots!Next
    BY <1>2, WalkStutters, SlotsNext, HashStutters DEF SyncingInv, LimitOnly, Only, walkVars, hashVars
  <1>3. CASE HashOnly /\ Hash!Next
    BY <1>3, WalkStutters, SlotsStutter, HashNext DEF SyncingInv, HashOnly, Only, walkVars, limitVars
  <1>4. CASE UNCHANGED vars
    <2>1. UNCHANGED part /\ UNCHANGED walkVars /\ UNCHANGED limitVars /\ UNCHANGED hashVars
      BY <1>4 DEF vars
    <2> QED BY <2>1, WalkStutters, SlotsStutter, HashStutters DEF SyncingInv
  <1> QED BY <1>1, <1>2, <1>3, <1>4 DEF Next

(* The inductive invariant: where each call of the walk may be and what the plan   *)
(* says of what it has still to come to (transfer.ts), who stands in the line of   *)
(* the limiter (utils.ts), and what a hash was computed of (contentHash.ts).       *)
THEOREM SyncingInvariant == Spec => []SyncingInv
  <1>1. Init => SyncingInv BY SyncingInit
  <1>2. SyncingInv /\ [Next]_vars => SyncingInv' BY SyncingStep
  <1> QED BY <1>1, <1>2, PTL DEF Spec

LEMMA SyncingTypes == SyncingInv => TypeOK
  <1> SUFFICES ASSUME SyncingInv PROVE TypeOK OBVIOUS
  <1>1. Walk!TypeOK /\ Slots!TypeOK /\ Hash!TypeOK
    BY DEF SyncingInv, WalkInv, SlotsInv, HashInv, HashTypes
  <1>2. part = "walk" \/ part = "limit" \/ part = "hash"
    BY SyncingAssumption DEF SyncingInv
  <1> QED BY <1>1, <1>2 DEF TypeOK

(* A sync of any two trees, with any options and whatever is ignored, fails or is  *)
(* cancelled, deletes nothing the source has, does what the preview showed, no     *)
(* more and, undisturbed, no less, and starts no transfer before all it has begun  *)
(* is over (transfer.ts, compareFolders.ts, syncPreview.ts).                       *)
THEOREM SyncSafe == Spec => []SyncIsSafe
  <1>1. SyncingInv => SyncIsSafe BY WalkIsSafe DEF SyncingInv
  <1> QED BY <1>1, SyncingInvariant, PTL

(* No hash that is remembered, answered by the server or streamed is that of       *)
(* another content, for any number of files, hashers, batches and writes           *)
(* (contentHash.ts).                                                               *)
THEOREM HashesTrue == Spec => []HashesAreTrue
  <1>1. SyncingInv => HashesAreTrue
    BY SyncingTypes DEF SyncingInv, HashInv, CacheInv, HashesAreTrue
  <1> QED BY <1>1, SyncingInvariant, PTL

(* The limiter of any width implements the semaphore: every step of createLimiter  *)
(* (utils.ts) is one of the line, or none.                                         *)
THEOREM LimiterSemaphore == Spec => LimiterIsSemaphore
  <1>1. Init => Slots!Abstract!Init
    <2>1. SUFFICES ASSUME Slots!Init PROVE Slots!Abstract!Init BY DEF Init
    <2>2. granted = <<>> /\ waiting = <<>> /\ call = [c \in Calls |-> "new"] BY <2>1 DEF Slots!Init
    <2>3. granted \o waiting = <<>> BY <2>2
    <2>4. {c \in Calls : call[c] \in {"acquired", "running"}} = {} BY <2>2
    <2> QED BY <2>3, <2>4 DEF Slots!Abstract!Init
  <1>2. SyncingInv /\ SyncingInv' /\ [Next]_vars => [Slots!Abstract!Next]_Slots!Abstract!vars
    <2>1. SUFFICES ASSUME SyncingInv, SyncingInv', [Next]_vars
                   PROVE  Slots!Abstract!Next \/ UNCHANGED Slots!Abstract!vars
      OBVIOUS
    <2>2. CASE LimitOnly /\ Slots!Next
      BY <2>1, <2>2, SlotsStepIsLineStep DEF SyncingInv
    <2>3. CASE UNCHANGED limitVars
      BY <2>3 DEF limitVars, Slots!Abstract!vars
    <2> QED BY <2>1, <2>2, <2>3 DEF Next, WalkOnly, HashOnly, vars
  <1>3. Spec => Slots!Abstract!Init /\ [][Slots!Abstract!Next]_Slots!Abstract!vars
    BY <1>1, <1>2, SyncingInvariant, PTL DEF Spec
  <1> QED BY <1>3 DEF LimiterIsSemaphore, Slots!ImplementsSemaphore, Slots!Abstract!Spec

(* A cancelled walk hands nothing more to the scheduler, the safety half of        *)
(* WalksAndComparesEnd (transfer.ts:127).                                          *)
THEOREM CancelStopsCollecting == Spec => Walk!CancelStopsCollecting
  <1>1. [Next]_vars => [stopped => collected' = collected]_Walk!vars
    <2>1. SUFFICES ASSUME [Next]_vars, stopped PROVE collected' = collected \/ UNCHANGED Walk!vars
      OBVIOUS
    <2>2. ASSUME NEW ts PROVE Walk!Takes(ts) = {}
      BY <2>1, TakesFacts
    <2>3. CASE WalkOnly /\ Walk!Next
      BY <2>2, <2>3
      DEF Walk!Next, Walk!Work, Walk!Proceed, Walk!Decline, Walk!Run, Walk!Report, Walk!Reject, Walk!EnsureDir,
          Walk!ListFails, Walk!Verify, Walk!VerifyFails, Walk!List, Walk!SyncFiles, Walk!CopyFiles,
          Walk!Remove, Walk!RemoveFails, Walk!Cancel, Walk!Outcome
    <2>4. CASE UNCHANGED walkVars
      BY <2>4 DEF walkVars
    <2> QED BY <2>1, <2>3, <2>4 DEF Next, LimitOnly, HashOnly, vars
  <1> QED BY <1>1, PTL DEF Spec, Walk!CancelStopsCollecting

=============================================================================
