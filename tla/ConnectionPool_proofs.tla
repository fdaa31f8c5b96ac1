------------------------- MODULE ConnectionPool_proofs -------------------------
(* What holds of the connection pool for every number of commands, entries,     *)
(* connections and hops, and either protocol.                                  *)
EXTENDS ConnectionPool, FiniteSetTheorems, WellFoundedInduction, TLAPS

Ended == {"ended", "closed"}

\* What an entry holds, in the table or out of it.
EntrySound(e) ==
    LET en == entry[e]
        cn == conn[en.fs]
    IN  /\ en.made <=> en.fs # 0
        /\ en.acq # "none" => en.made /\ (e = pool \/ e \in cut)
        /\ en.made =>
             /\ cn.owner = e /\ cn.at # "none"
             /\ e # pool /\ e \notin cut => en.closing
             /\ en.acq = "connecting" =>
                  ~en.isValid /\ (cn.at \in Coming \cup {"closed"} \/ (cn.at = "ended" /\ en.closing))
             /\ en.acq # "connecting" => cn.at \notin Coming
             /\ en.acq # "connecting" /\ ~en.isValid => cn.at \in Ended

\* The entry in the table: what stops its listener, or mutes its client, also
\* made it invalid.
PooledSound ==
    pool # 0 =>
        /\ entry[pool].made
        /\ entry[pool].isValid => ~entry[pool].closing
        /\ entry[pool].acq = "connecting" =>
             ~entry[pool].closing \/ conn[entry[pool].fs].at = "closed"
        /\ ~entry[pool].closing => ~conn[entry[pool].fs].muted

ConnsOwned ==
    \A c \in Conns : conn[c].at # "none" => conn[c].owner \in Entries /\ entry[conn[c].owner].made

\* A command works with a connection that was open once.
UsersSound ==
    \A k \in Callers : caller[k].at = "using" =>
        caller[k].on \in Conns /\ conn[caller[k].on].at \in {"open", "silent"} \cup Ended

PoolInv ==
    /\ TypeOK
    /\ \A e \in Entries : EntrySound(e)
    /\ PooledSound
    /\ ConnsOwned
    /\ UsersSound
    /\ NoOrphan
    /\ ValidIsLive
    /\ BarTellsTruth

-------------------------------------------------------------------------------
(* What the operators of the pool do to its records. *)

LEMMA NextConnIsUnused ==
    ASSUME Unused # {}
    PROVE  NextConn \in Unused
  <1>1. Unused \subseteq Nat BY PoolAssumption DEF Unused, Conns
  <1>2. PICK c \in Unused : \A d \in Unused : ~(<<d, c>> \in OpToRel(<, Nat))
    BY <1>1, NatLessThanWellFounded, WFMin
  <1>3. \A d \in Unused : c <= d
    <2> SUFFICES ASSUME NEW d \in Unused PROVE c <= d OBVIOUS
    <2>1. c \in Nat /\ d \in Nat BY <1>1, <1>2
    <2>2. ~(d < c) BY <1>2, <2>1 DEF OpToRel
    <2> QED BY <2>1, <2>2
  <1> QED BY <1>2, <1>3 DEF NextConn

LEMMA SpareMeansUnused == Spare => Unused # {}
  <1> SUFFICES ASSUME Spare, Unused = {} PROVE FALSE OBVIOUS
  <1> DEFINE P == {e \in Entries : entry[e].acq = "probing"}
  <1>1. IsFiniteSet(Entries) /\ P \in SUBSET Entries
    BY FS_Interval, PoolAssumption DEF Entries
  <1>2. Cardinality(P) \in Nat BY <1>1, FS_Subset, FS_CardinalityType
  <1>3. Cardinality(Unused) = 0 BY FS_EmptySet
  <1> QED BY <1>2, <1>3 DEF Spare

LEMMA ConstructedFacts ==
    ASSUME TypeOK, NEW e \in Entries, NEW n \in Conns
    PROVE  /\ Constructed(e, entry, n) \in [Entries -> Entry]
           /\ \A f \in Entries \ {e} : Constructed(e, entry, n)[f] = entry[f]
           /\ Constructed(e, entry, n)[e].fs = n
           /\ Constructed(e, entry, n)[e].closing = FALSE
           /\ Constructed(e, entry, n)[e].isValid = FALSE
           /\ Constructed(e, entry, n)[e].acq = "connecting"
           /\ Constructed(e, entry, n)[e].made = TRUE
  <1>1. entry[e] \in Entry BY DEF TypeOK
  <1>2. n \in 0..MaxConns BY PoolAssumption DEF Conns
  <1>3. Constructed(e, entry, n) =
          [entry EXCEPT ![e] = [entry[e] EXCEPT !.fs = n, !.closing = FALSE,
                                !.isValid = FALSE, !.acq = "connecting", !.made = TRUE]]
    BY DEF Constructed, TypeOK
  <1>4. [entry[e] EXCEPT !.fs = n, !.closing = FALSE, !.isValid = FALSE,
                         !.acq = "connecting", !.made = TRUE] \in Entry
    BY <1>1, <1>2 DEF Entry
  <1> QED BY <1>1, <1>3, <1>4 DEF TypeOK, Entry

LEMMA EndConnFacts ==
    ASSUME TypeOK, NEW c \in Conns
    PROVE  /\ EndConn(c) \in [Conns -> Conn]
           /\ \A d \in Conns \ {c} : EndConn(c)[d] = conn[d]
           /\ EndConn(c)[c].owner = conn[c].owner
           /\ EndConn(c)[c].at = IF HasSocket(c) THEN "ended" ELSE conn[c].at
           /\ EndConn(c)[c].muted = (conn[c].muted \/ protocol = "ftp")
  <1>1. conn[c] \in Conn /\ c # 0 BY PoolAssumption DEF TypeOK, Conns
  <1> DEFINE r == [conn[c] EXCEPT !.at = IF HasSocket(c) THEN "ended" ELSE @,
                                  !.muted = @ \/ protocol = "ftp"]
  <1>2. EndConn(c) = [conn EXCEPT ![c] = r] BY <1>1 DEF EndConn, TypeOK
  <1>3. r \in Conn BY <1>1 DEF Conn
  <1>4. /\ r.owner = conn[c].owner /\ r.muted = (conn[c].muted \/ protocol = "ftp")
        /\ r.at = IF HasSocket(c) THEN "ended" ELSE conn[c].at
    BY <1>1 DEF Conn
  <1> HIDE DEF r
  <1> QED BY <1>2, <1>3, <1>4 DEF TypeOK

LEMMA EndEventsFacts ==
    ASSUME TypeOK, NEW c \in Conns
    PROVE  /\ EndEvents(c) \in [Conns -> SUBSET {"error", "close"}]
           /\ \A d \in Conns \ {c} : EndEvents(c)[d] = events[d]
           /\ events[c] \subseteq EndEvents(c)[c]
           /\ HasSocket(c) /\ protocol = "sftp" => EndEvents(c)[c] # {}
  <1>1. c # 0 BY PoolAssumption DEF Conns
  <1> QED BY <1>1 DEF EndEvents, TypeOK

LEMMA AnsweredFacts ==
    ASSUME TypeOK, NEW e, NEW at \in {"using", "failed"}, NEW on \in Nat
    PROVE  /\ Answered(e, at, on) \in [Callers -> Caller]
           /\ \A k \in Callers : Answered(e, at, on)[k] \in {caller[k], [at |-> at, on |-> on]}
  BY DEF Answered, Caller, TypeOK

LEMMA WaitFacts ==
    ASSUME TypeOK, NEW k \in Callers, NEW e \in Entries, Wait(k, e)
    PROVE  /\ caller' \in [Callers -> Caller]
           /\ \A j \in Callers : caller'[j].at = "using" => caller'[j] = caller[j]
  <1>1. e \in Nat BY PoolAssumption DEF Entries
  <1> QED BY <1>1 DEF Wait, Caller, TypeOK

(* An entry that is not connecting has been through with its connection.       *)
LEMMA CurrentFacts ==
    ASSUME PoolInv, NEW e \in Entries, entry[e].made
    PROVE  /\ entry[e].fs \in Conns
           /\ conn[entry[e].fs].owner = e
           /\ conn[entry[e].fs].at # "none"
           /\ entry[e].acq # "connecting" =>
                /\ conn[entry[e].fs].at \in {"open", "silent"} \cup Ended
                /\ HasSocket(entry[e].fs) <=> conn[entry[e].fs].at \in {"open", "silent"}
  <1>1. TypeOK /\ EntrySound(e) BY DEF PoolInv
  <1>2. entry[e].fs \in Conns BY <1>1, PoolAssumption DEF EntrySound, TypeOK, Entry, Conns
  <1>3. conn[entry[e].fs] \in Conn BY <1>1, <1>2 DEF TypeOK
  <1> QED BY <1>1, <1>2, <1>3 DEF EntrySound, Conn, Live, Coming, Ended, HasSocket

(* A connection on its way up is the current one of an entry that connects.    *)
LEMMA ComingFacts ==
    ASSUME PoolInv, NEW c \in Conns, conn[c].at \in Coming
    PROVE  LET e == conn[c].owner
           IN  e \in Entries /\ entry[e].made /\ entry[e].fs = c /\ entry[e].acq = "connecting"
               /\ ~entry[e].isValid
  <1>1. conn[c].at # "none" /\ conn[c].at \in Live BY DEF Coming, Live
  <1>2. conn[c].owner \in Entries /\ entry[conn[c].owner].made /\ entry[conn[c].owner].fs = c
    BY <1>1 DEF PoolInv, ConnsOwned, NoOrphan
  <1>3. EntrySound(conn[c].owner) BY <1>2 DEF PoolInv
  <1> QED BY <1>2, <1>3 DEF EntrySound

LEMMA EntryUntouched ==
    ASSUME NEW f \in Entries, EntrySound(f), entry'[f] = entry[f], pool' = pool, cut' = cut,
           entry[f].made => conn'[entry[f].fs].owner = conn[entry[f].fs].owner
                            /\ conn'[entry[f].fs].at = conn[entry[f].fs].at
    PROVE  EntrySound(f)'
  BY DEF EntrySound

(* An entry that is not on its way to a connection, as a step leaves it.       *)
LEMMA EntrySettled ==
    ASSUME NEW e \in Entries, NEW c \in Conns, entry'[e].fs = c, entry'[e].made = TRUE,
           conn'[c].owner = e, conn'[c].at \in {"open", "silent"} \cup Ended,
           entry'[e].acq # "connecting",
           entry'[e].acq # "none" => e = pool' \/ e \in cut',
           entry'[e].closing \/ e = pool' \/ e \in cut',
           conn'[c].at \in Ended \/ entry'[e].isValid
    PROVE  EntrySound(e)'
  <1>1. c # 0 BY PoolAssumption DEF Conns
  <1>2. conn'[c].at \notin Coming /\ conn'[c].at # "none" BY DEF Coming, Ended
  <1> QED BY <1>1, <1>2 DEF EntrySound

LEMMA EntryConnecting ==
    ASSUME NEW e \in Entries, NEW c \in Conns, entry'[e].fs = c, entry'[e].made = TRUE,
           conn'[c].owner = e, conn'[c].at # "none",
           conn'[c].at \in Coming \cup {"closed"} \/ (conn'[c].at = "ended" /\ entry'[e].closing),
           entry'[e].acq = "connecting", ~entry'[e].isValid,
           e = pool' \/ e \in cut'
    PROVE  EntrySound(e)'
  <1>1. c # 0 BY PoolAssumption DEF Conns
  <1> QED BY <1>1 DEF EntrySound

-------------------------------------------------------------------------------
(* cn are the connections, and events' the events, once entry e's is over.      *)
Vacated(e, cn) ==
    /\ cn \in [Conns -> Conn]
    /\ \A c \in Conns : cn[c].owner = conn[c].owner
    /\ \A c \in Conns : cn[c].at = conn[c].at \/ (cn[c].at = "ended" /\ conn[c].at # "none")
    /\ \A c \in Conns : c # entry[e].fs => cn[c] = conn[c] /\ events'[c] = events[c]
    /\ entry[e].made => cn[entry[e].fs].at \in Ended
    /\ events' \in [Conns -> SUBSET {"error", "close"}]

OnlyWaits ==
    /\ caller' \in [Callers -> Caller]
    /\ \A k \in Callers : caller'[k].at = "using" => caller'[k] = caller[k]

(* A new connection n for entry e, beside or in place of what e had.           *)
LEMMA FreshInv ==
    ASSUME PoolInv, NEW e \in Entries, NEW n \in Unused, NEW cn, Vacated(e, cn), OnlyWaits,
           entry' = Constructed(e, entry, n), conn' = NewConn(e, cn, n),
           \/ pool' = e /\ (pool = e \/ pool = 0)
           \/ pool' = pool /\ e \in cut,
           entry[e].made \/ pool' = e,
           cut' = cut, protocol' = protocol, bar' \in {"connecting", "reconnecting"}
    PROVE  PoolInv'
  <1>1. TypeOK /\ PooledSound /\ ConnsOwned /\ UsersSound /\ NoOrphan /\ ValidIsLive
        /\ BarTellsTruth
    BY DEF PoolInv
  <1>2. n \in Conns /\ conn[n].at = "none" BY DEF Unused
  <1>3. /\ entry' \in [Entries -> Entry]
        /\ \A f \in Entries \ {e} : entry'[f] = entry[f]
        /\ entry'[e].fs = n /\ entry'[e].closing = FALSE /\ entry'[e].isValid = FALSE
        /\ entry'[e].acq = "connecting" /\ entry'[e].made = TRUE
    <2> DEFINE new == Constructed(e, entry, n)
    <2>1. /\ new \in [Entries -> Entry]
          /\ \A f \in Entries \ {e} : new[f] = entry[f]
          /\ new[e].fs = n /\ new[e].closing = FALSE /\ new[e].isValid = FALSE
          /\ new[e].acq = "connecting" /\ new[e].made = TRUE
      BY <1>1, <1>2, ConstructedFacts
    <2>2. entry' = new OBVIOUS
    <2> HIDE DEF new
    <2> QED BY <2>1, <2>2
  <1>4. /\ conn' \in [Conns -> Conn]
        /\ \A d \in Conns \ {n} : conn'[d] = cn[d]
        /\ conn'[n].owner = e /\ conn'[n].muted = FALSE /\ conn'[n].at = "preparing"
    <2> DEFINE r == [owner |-> e, leg |-> 0, muted |-> FALSE, at |-> "preparing"]
    <2>1. cn \in [Conns -> Conn] BY DEF Vacated
    <2>2. conn' = [cn EXCEPT ![n] = r] BY DEF NewConn
    <2>3. r \in Conn BY PoolAssumption DEF Conn, Entries, Live, Coming
    <2>4. r.owner = e /\ r.muted = FALSE /\ r.at = "preparing" OBVIOUS
    <2> HIDE DEF r
    <2> QED BY <1>2, <2>1, <2>2, <2>3, <2>4
  <1>5. \A f \in Entries : entry[f].made =>
          entry[f].fs \in Conns /\ conn[entry[f].fs].owner = f /\ conn[entry[f].fs].at # "none"
          /\ entry[f].fs # n
    BY <1>2, CurrentFacts
  <1>6. n # 0 /\ e # 0 BY <1>2, PoolAssumption DEF Conns, Entries
  <1>7. TypeOK'
    <2>1. pool' \in 0..MaxEntries BY <1>1, PoolAssumption DEF TypeOK, Entries
    <2> QED BY <1>1, <1>3, <1>4, <2>1 DEF TypeOK, Vacated, OnlyWaits
  (* Another entry keeps its connection, which is not e's. *)
  <1>8. \A f \in Entries \ {e} : entry[f].made =>
          conn'[entry[f].fs] = conn[entry[f].fs] /\ events'[entry[f].fs] = events[entry[f].fs]
    <2> SUFFICES ASSUME NEW f \in Entries \ {e}, entry[f].made
                 PROVE  conn'[entry[f].fs] = conn[entry[f].fs]
                        /\ events'[entry[f].fs] = events[entry[f].fs]
      OBVIOUS
    <2>1. entry[f].fs \in Conns /\ entry[f].fs # n BY <1>5
    <2>2. entry[f].fs # entry[e].fs
      <3>1. CASE entry[e].made BY <1>5, <3>1
      <3>2. CASE ~entry[e].made
        <4>1. EntrySound(e) /\ EntrySound(f) BY DEF PoolInv
        <4>2. entry[e].fs = 0 BY <1>1, <3>2, <4>1 DEF EntrySound, TypeOK, Entry
        <4> QED BY <2>1, <4>2, PoolAssumption DEF Conns
      <3> QED BY <3>1, <3>2
    <2> QED BY <1>4, <2>1, <2>2 DEF Vacated
  <1>9. \A f \in Entries : EntrySound(f)'
    <2>1. EntrySound(e)'
      <3>1. e = pool' \/ e \in cut' OBVIOUS
      <3>2. conn'[n].at \in Coming /\ conn'[n].at # "none" BY <1>4 DEF Coming
      <3>3. /\ entry'[e].fs = n /\ entry'[e].made = TRUE /\ entry'[e].acq = "connecting"
            /\ ~entry'[e].isValid /\ conn'[n].owner = e /\ n \in Conns
        BY <1>2, <1>3, <1>4
      <3> QED BY <3>1, <3>2, <3>3, EntryConnecting
    <2>2. ASSUME NEW f \in Entries \ {e} PROVE EntrySound(f)'
      <3>1. EntrySound(f) BY DEF PoolInv
      <3>2. f # pool /\ f # 0 => f # pool' OBVIOUS
      <3>3. f # 0 BY PoolAssumption DEF Entries
      <3>4. f = pool => f = pool' BY <3>3
      <3>5. CASE entry[f].made
        BY <1>3, <1>8, <3>1, <3>2, <3>3, <3>4, <3>5 DEF EntrySound
      <3>6. CASE ~entry[f].made
        BY <1>3, <3>1, <3>6 DEF EntrySound
      <3> QED BY <3>5, <3>6
    <2> QED BY <2>1, <2>2
  <1>10. PooledSound'
    <2>1. CASE pool' = e BY <1>3, <1>4, <2>1 DEF PooledSound
    <2>2. CASE pool' = pool /\ pool # e /\ pool # 0
      <3>1. pool \in Entries \ {e} BY <1>1, <2>2, PoolAssumption DEF TypeOK, Entries
      <3> QED BY <1>1, <1>3, <1>8, <2>2, <3>1 DEF PooledSound
    <2>3. CASE pool' = 0 BY <2>3 DEF PooledSound
    <2> QED BY <2>1, <2>2, <2>3
  <1>11. ConnsOwned'
    <2>1. \A c \in Conns : cn[c].owner = conn[c].owner /\ (cn[c].at # "none" => conn[c].at # "none")
      BY DEF Vacated
    <2> QED BY <1>1, <1>3, <1>4, <2>1 DEF ConnsOwned
  <1>12. UsersSound'
    <2> SUFFICES ASSUME NEW k \in Callers, caller'[k].at = "using"
                 PROVE  caller'[k].on \in Conns
                        /\ conn'[caller'[k].on].at \in {"open", "silent"} \cup Ended
      BY DEF UsersSound
    <2>1. /\ caller'[k] = caller[k] /\ caller[k].on \in Conns
          /\ conn[caller[k].on].at \in {"open", "silent"} \cup Ended
      BY <1>1 DEF UsersSound, OnlyWaits
    <2>2. caller[k].on # n BY <1>2, <2>1 DEF Ended
    <2>3. cn[caller[k].on].at \in {"open", "silent"} \cup Ended BY <2>1 DEF Vacated, Ended
    <2> QED BY <1>4, <2>1, <2>2, <2>3
  <1>13. NoOrphan'
    <2> SUFFICES ASSUME NEW c \in Conns, conn'[c].at \in Live
                 PROVE  /\ entry'[conn'[c].owner].fs = c
                        /\ conn'[c].owner = pool' \/ conn'[c].owner \in cut'
      BY DEF NoOrphan
    <2>1. CASE c = n BY <1>3, <1>4, <2>1
    <2>2. CASE c # n
      <3>1. conn'[c] = cn[c] /\ conn'[c].owner = conn[c].owner BY <1>4, <2>2 DEF Vacated
      <3>2. conn[c].at \in Live /\ cn[c].at = conn[c].at BY <3>1 DEF Vacated, Live, Coming
      <3>3. /\ entry[conn[c].owner].fs = c
            /\ conn[c].owner = pool \/ conn[c].owner \in cut
            /\ conn[c].owner \in Entries /\ entry[conn[c].owner].made
        BY <1>1, <3>2 DEF NoOrphan, ConnsOwned, Live, Coming
      <3>4. conn[c].owner # e
        <4>1. cn[c].at \notin Ended BY <3>2 DEF Live, Coming, Ended
        <4> QED BY <3>3, <4>1 DEF Vacated
      <3>5. conn[c].owner # 0 BY <3>3, PoolAssumption DEF Entries
      <3> QED BY <1>3, <3>1, <3>3, <3>4, <3>5
    <2> QED BY <2>1, <2>2
  <1>14. ValidIsLive'
    <2>1. CASE pool' = e BY <1>3, <2>1 DEF ValidIsLive
    <2>2. CASE pool' = pool /\ pool # e /\ pool # 0
      <3>1. pool \in Entries \ {e} BY <1>1, <2>2, PoolAssumption DEF TypeOK, Entries
      <3>2. entry[pool].made BY <1>1, <2>2 DEF PooledSound
      <3>3. /\ entry'[pool] = entry[pool] /\ conn'[entry[pool].fs] = conn[entry[pool].fs]
            /\ events'[entry[pool].fs] = events[entry[pool].fs]
        BY <1>3, <1>8, <3>1, <3>2
      <3> QED BY <1>1, <2>2, <3>3 DEF ValidIsLive
    <2>3. CASE pool' = 0 BY <2>3 DEF ValidIsLive
    <2> QED BY <2>1, <2>2, <2>3
  <1>15. BarTellsTruth'
    <2> SUFFICES ASSUME cut' = {} PROVE bar' # "connected" /\ ~(pool' # 0 /\ entry'[pool'].isValid)
      BY DEF BarTellsTruth
    <2>1. pool' = e OBVIOUS
    <2> QED BY <1>3, <2>1
  <1> QED BY <1>7, <1>9, <1>10, <1>11, <1>12, <1>13, <1>14, <1>15 DEF PoolInv

LEMMA CreateEntryInv ==
    ASSUME PoolInv, NEW k \in Callers, CreateEntry(k)
    PROVE  PoolInv'
  <1>1. TypeOK BY DEF PoolInv
  <1>2. PICK e \in Entries :
          /\ ~entry[e].made /\ pool' = e
          /\ entry' = Constructed(e, entry, NextConn) /\ conn' = NewConn(e, conn, NextConn)
          /\ bar' = "connecting" /\ Wait(k, e)
    BY DEF CreateEntry
  <1>3. pool = 0 /\ Spare /\ UNCHANGED <<protocol, events, cut>> BY DEF CreateEntry
  <1>4. NextConn \in Unused BY <1>3, SpareMeansUnused, NextConnIsUnused
  <1>5. OnlyWaits BY <1>1, <1>2, WaitFacts DEF OnlyWaits
  <1>6. Vacated(e, conn) BY <1>1, <1>2, <1>3 DEF Vacated, TypeOK
  <1> QED BY <1>2, <1>3, <1>4, <1>5, <1>6, FreshInv

LEMMA ReconnectInv ==
    ASSUME PoolInv, NEW k \in Callers, Reconnect(k)
    PROVE  PoolInv'
  <1>1. TypeOK /\ PooledSound BY DEF PoolInv
  <1>2. /\ pool # 0 /\ Spare /\ entry[pool].acq = "none" /\ ~entry[pool].isValid
        /\ entry' = Constructed(pool, entry, NextConn) /\ conn' = NewConn(pool, conn, NextConn)
        /\ bar' = Connecting(pool) /\ Wait(k, pool)
        /\ UNCHANGED <<protocol, pool, events, cut>>
    BY DEF Reconnect
  <1>3. pool \in Entries /\ entry[pool].made
    BY <1>1, <1>2, PoolAssumption DEF TypeOK, Entries, PooledSound
  <1>4. NextConn \in Unused BY <1>2, SpareMeansUnused, NextConnIsUnused
  <1>5. OnlyWaits BY <1>1, <1>2, <1>3, WaitFacts DEF OnlyWaits
  <1>6. conn[entry[pool].fs].at \in Ended BY <1>2, <1>3 DEF PoolInv, EntrySound
  <1>7. Vacated(pool, conn) BY <1>1, <1>2, <1>6 DEF Vacated, TypeOK
  <1>8. bar' \in {"connecting", "reconnecting"} BY <1>2 DEF Connecting
  <1> QED BY <1>2, <1>3, <1>4, <1>5, <1>6, <1>7, <1>8, FreshInv

LEMMA ProbeFailsInv ==
    ASSUME PoolInv, NEW e \in Entries, ProbeFails(e)
    PROVE  PoolInv'
  <1>1. TypeOK /\ EntrySound(e) /\ UsersSound BY DEF PoolInv
  <1> DEFINE old == entry[e].fs
  <1>2. /\ entry[e].acq = "probing" /\ Unused # {}
        /\ entry' = Constructed(e, entry, NextConn)
        /\ conn' = NewConn(e, EndConn(old), NextConn) /\ events' = EndEvents(old)
        /\ bar' = Connecting(e)
        /\ UNCHANGED <<protocol, pool, caller, cut>>
    BY DEF ProbeFails
  <1>3. entry[e].made /\ (e = pool \/ e \in cut) BY <1>1, <1>2 DEF EntrySound
  <1>4. /\ old \in Conns /\ conn[old].at \in {"open", "silent"} \cup Ended
        /\ HasSocket(old) <=> conn[old].at \in {"open", "silent"}
    BY <1>2, <1>3, CurrentFacts
  <1>5. NextConn \in Unused BY <1>2, NextConnIsUnused
  <1>6. /\ EndConn(old) \in [Conns -> Conn]
        /\ \A d \in Conns \ {old} : EndConn(old)[d] = conn[d]
        /\ EndConn(old)[old].owner = conn[old].owner
        /\ EndConn(old)[old].at = IF HasSocket(old) THEN "ended" ELSE conn[old].at
    BY <1>1, <1>4, EndConnFacts
  <1>7. /\ events' \in [Conns -> SUBSET {"error", "close"}]
        /\ \A d \in Conns \ {old} : events'[d] = events[d]
    BY <1>1, <1>2, <1>4, EndEventsFacts
  <1>8. EndConn(old)[old].at \in Ended /\ conn[old].at # "none" BY <1>4, <1>6 DEF Ended
  <1>9. bar' \in {"connecting", "reconnecting"} BY <1>2 DEF Connecting
  <1>10. OnlyWaits BY <1>1, <1>2 DEF TypeOK, OnlyWaits
  <1>11. Vacated(e, EndConn(old)) BY <1>6, <1>7, <1>8 DEF Vacated
  <1> QED BY <1>2, <1>3, <1>5, <1>9, <1>10, <1>11, FreshInv

-------------------------------------------------------------------------------
(* Steps of a connection on its way up. *)

LEMMA MovesUp ==
    ASSUME PoolInv, NEW c \in Conns, conn[c].at \in Coming,
           NEW to \in Coming, NEW leg \in 0..Hops,
           conn' = [conn EXCEPT ![c].at = to, ![c].leg = leg],
           UNCHANGED <<protocol, pool, entry, events, caller, bar, cut>>
    PROVE  PoolInv'
  <1>1. TypeOK /\ PooledSound /\ ConnsOwned /\ UsersSound /\ NoOrphan /\ ValidIsLive
        /\ BarTellsTruth
    BY DEF PoolInv
  <1>2. /\ conn' \in [Conns -> Conn]
        /\ \A d \in Conns \ {c} : conn'[d] = conn[d]
        /\ conn'[c].at = to /\ conn'[c].owner = conn[c].owner /\ conn'[c].muted = conn[c].muted
    <2>1. conn[c] \in Conn BY <1>1 DEF TypeOK
    <2>2. conn' = [conn EXCEPT ![c] = [conn[c] EXCEPT !.at = to, !.leg = leg]]
      BY <1>1 DEF TypeOK
    <2>3. [conn[c] EXCEPT !.at = to, !.leg = leg] \in Conn BY <2>1 DEF Conn, Live
    <2> QED BY <1>1, <2>1, <2>2, <2>3 DEF TypeOK, Conn
  <1>3. conn[c].at # "none" /\ to # "none" /\ conn[c].at \in Live /\ to \in Live
        /\ conn[c].at \notin {"open", "silent"} \cup Ended
    BY DEF Coming, Live, Ended
  <1>4. TypeOK' BY <1>1, <1>2 DEF TypeOK
  <1>5. \A e \in Entries : EntrySound(e)'
    <2> SUFFICES ASSUME NEW e \in Entries PROVE EntrySound(e)' OBVIOUS
    <2>1. EntrySound(e) BY DEF PoolInv
    <2>2. CASE ~entry[e].made BY <2>1, <2>2 DEF EntrySound
    <2>3. CASE entry[e].made
      <3>1. entry[e].fs \in Conns BY <2>3, CurrentFacts
      <3>2. CASE entry[e].fs = c BY <1>2, <1>3, <2>1, <2>3, <3>2 DEF EntrySound, Ended
      <3>3. CASE entry[e].fs # c BY <1>2, <2>1, <2>3, <3>1, <3>3 DEF EntrySound
      <3> QED BY <3>2, <3>3
    <2> QED BY <2>2, <2>3
  <1>6. ConnsOwned' BY <1>1, <1>2, <1>3 DEF ConnsOwned
  <1>7. UsersSound' BY <1>1, <1>2, <1>3 DEF UsersSound
  <1>8. NoOrphan' BY <1>1, <1>2, <1>3 DEF NoOrphan
  <1>9. pool # 0 => entry[pool].fs \in Conns
    BY <1>1, CurrentFacts, PoolAssumption DEF PooledSound, TypeOK, Entries
  <1>10. PooledSound'
    <2>1. pool # 0 => conn'[entry[pool].fs].muted = conn[entry[pool].fs].muted
                      /\ (conn[entry[pool].fs].at = "closed" => conn'[entry[pool].fs].at = "closed")
      BY <1>2, <1>3, <1>9 DEF Ended
    <2> QED BY <1>1, <2>1 DEF PooledSound
  <1>11. ValidIsLive'
    <2> SUFFICES ASSUME pool # 0, entry[pool].isValid
                 PROVE  conn'[entry[pool].fs].at \in {"open", "silent"} \/ events[entry[pool].fs] # {}
      BY DEF ValidIsLive
    <2>1. conn[entry[pool].fs].at \in {"open", "silent"} \/ events[entry[pool].fs] # {}
      BY <1>1 DEF ValidIsLive
    <2> QED BY <1>2, <1>3, <1>9, <2>1
  <1>12. BarTellsTruth' BY <1>1 DEF BarTellsTruth
  <1> QED BY <1>4, <1>5, <1>6, <1>7, <1>8, <1>10, <1>11, <1>12 DEF PoolInv

LEMMA ComingInv ==
    ASSUME PoolInv, NEW c \in Conns,
           \/ Prepared(c) \/ AskPassword(c) \/ PasswordEntered(c) \/ LegUp(c) \/ Ready(c)
           \/ Stalls(c)
    PROVE  PoolInv'
  <1>1. TypeOK /\ Hops \in Nat BY PoolAssumption DEF PoolInv
  <1>2. conn[c] \in Conn BY <1>1 DEF TypeOK
  <1>3. ASSUME NEW from \in Coming, NEW to \in Coming, At(c, from, to) PROVE PoolInv'
    <2>1. conn' = [conn EXCEPT ![c].at = to, ![c].leg = conn[c].leg]
      <3>1. conn' = [conn EXCEPT ![c] = [conn[c] EXCEPT !.at = to]]
        BY <1>1, <1>3 DEF At, TypeOK
      <3>2. [conn[c] EXCEPT !.at = to] = [conn[c] EXCEPT !.at = to, !.leg = conn[c].leg]
        BY <1>2 DEF Conn
      <3> QED BY <1>1, <3>1, <3>2 DEF TypeOK
    <2>2. conn[c].leg \in 0..Hops BY <1>2 DEF Conn
    <2> QED BY <1>3, <2>1, <2>2, MovesUp DEF At
  <1>4. CASE LegUp(c)
    <2>1. /\ conn[c].at = "handshake" /\ conn[c].leg < Hops
          /\ conn' = [conn EXCEPT ![c].at = "preparing", ![c].leg = @ + 1]
          /\ UNCHANGED <<protocol, pool, entry, events, caller, bar, cut>>
      BY <1>4 DEF LegUp
    <2>2. conn[c].leg + 1 \in 0..Hops BY <1>1, <1>2, <2>1 DEF Conn
    <2>3. conn' = [conn EXCEPT ![c].at = "preparing", ![c].leg = conn[c].leg + 1]
      BY <1>1, <1>2, <2>1 DEF TypeOK, Conn
    <2>4. "handshake" \in Coming /\ "preparing" \in Coming BY DEF Coming
    <2> QED BY <2>1, <2>2, <2>3, <2>4, MovesUp
  <1>5. {"preparing", "asking", "handshake", "starting", "stuck"} = Coming BY DEF Coming
  <1> QED BY <1>3, <1>4, <1>5 DEF Prepared, AskPassword, PasswordEntered, Ready, Stalls

LEMMA ConnectedInv ==
    ASSUME PoolInv, NEW c \in Conns, Connected(c)
    PROVE  PoolInv'
  <1>0. conn[c].at \in Coming BY DEF Connected, Coming
  <1> PICK e \in Entries : e = conn[c].owner
    BY <1>0, ComingFacts
  <1>1. TypeOK /\ PooledSound /\ ConnsOwned /\ UsersSound /\ NoOrphan /\ ValidIsLive
        /\ BarTellsTruth
    BY DEF PoolInv
  <1>2. /\ conn[c].at = "starting" /\ conn' = [conn EXCEPT ![c].at = "open"]
        /\ entry' = [entry EXCEPT ![e].isValid = TRUE, ![e].hasConnected = TRUE,
                                  ![e].acq = "none"]
        /\ caller' = Answered(e, "using", c)
        /\ bar' = "connected" /\ UNCHANGED <<protocol, pool, events, cut>>
    BY DEF Connected
  <1>3. /\ e \in Entries /\ entry[e].made /\ entry[e].fs = c /\ entry[e].acq = "connecting"
        /\ ~entry[e].isValid
    BY <1>0, ComingFacts
  <1>4. e = pool \/ e \in cut BY <1>3 DEF PoolInv, EntrySound
  <1>5. /\ conn' \in [Conns -> Conn]
        /\ \A d \in Conns \ {c} : conn'[d] = conn[d]
        /\ conn'[c].at = "open" /\ conn'[c].owner = e /\ conn'[c].muted = conn[c].muted
    <2>1. conn[c] \in Conn BY <1>1 DEF TypeOK
    <2>2. conn' = [conn EXCEPT ![c] = [conn[c] EXCEPT !.at = "open"]] BY <1>1, <1>2 DEF TypeOK
    <2>3. [conn[c] EXCEPT !.at = "open"] \in Conn BY <2>1 DEF Conn, Live
    <2> QED BY <1>1, <2>1, <2>2, <2>3 DEF TypeOK, Conn
  <1>6. /\ entry' \in [Entries -> Entry]
        /\ \A f \in Entries \ {e} : entry'[f] = entry[f]
        /\ entry'[e].fs = c /\ entry'[e].made = TRUE /\ entry'[e].isValid = TRUE
        /\ entry'[e].acq = "none" /\ entry'[e].closing = entry[e].closing
    <2>1. entry[e] \in Entry BY <1>1, <1>3 DEF TypeOK
    <2> DEFINE r == [entry[e] EXCEPT !.isValid = TRUE, !.hasConnected = TRUE, !.acq = "none"]
    <2>2. entry' = [entry EXCEPT ![e] = r] BY <1>1, <1>2 DEF TypeOK
    <2>3. r \in Entry BY <2>1 DEF Entry
    <2>4. r.fs = c /\ r.made = TRUE /\ r.isValid = TRUE /\ r.acq = "none"
          /\ r.closing = entry[e].closing
      BY <1>3, <2>1 DEF Entry
    <2> HIDE DEF r
    <2> QED BY <1>1, <1>3, <2>2, <2>3, <2>4 DEF TypeOK
  <1>7. /\ caller' \in [Callers -> Caller]
        /\ \A k \in Callers : caller'[k] \in {caller[k], [at |-> "using", on |-> c]}
    <2>1. c \in Nat BY PoolAssumption DEF Conns
    <2> QED BY <1>1, <1>2, <2>1, AnsweredFacts
  <1>8. TypeOK' BY <1>1, <1>2, <1>5, <1>6, <1>7 DEF TypeOK
  <1>9. e # 0 /\ c # 0 BY <1>3, PoolAssumption DEF Entries, Conns
  <1>10. \A f \in Entries \ {e} : entry[f].made => entry[f].fs \in Conns \ {c}
    <2> SUFFICES ASSUME NEW f \in Entries \ {e}, entry[f].made PROVE entry[f].fs \in Conns \ {c}
      OBVIOUS
    <2>1. entry[f].fs \in Conns /\ conn[entry[f].fs].owner = f BY CurrentFacts
    <2> QED BY <2>1
  <1>11. \A f \in Entries : EntrySound(f)'
    <2>1. EntrySound(e)'
      BY <1>2, <1>4, <1>5, <1>6, <1>9 DEF EntrySound, Coming
    <2>2. ASSUME NEW f \in Entries \ {e} PROVE EntrySound(f)'
      <3>1. EntrySound(f) BY DEF PoolInv
      <3>2. entry'[f] = entry[f] /\ pool' = pool /\ cut' = cut BY <1>2, <1>6
      <3>3. entry[f].made => conn'[entry[f].fs] = conn[entry[f].fs] BY <1>5, <1>10
      <3> QED BY <3>1, <3>2, <3>3, EntryUntouched
    <2> QED BY <2>1, <2>2
  <1>12. pool # 0 => pool \in Entries /\ entry[pool].made
    BY <1>1, PoolAssumption DEF PooledSound, TypeOK, Entries
  <1>13. PooledSound'
    <2>1. CASE pool = e
      <3>1. ~entry[pool].closing BY <1>1, <1>2, <1>3, <1>9, <2>1 DEF PooledSound
      <3> QED BY <1>1, <1>2, <1>3, <1>5, <1>6, <1>9, <2>1, <3>1 DEF PooledSound
    <2>2. CASE pool # e
      <3>1. CASE pool = 0 BY <1>2, <2>2, <3>1 DEF PooledSound
      <3>2. CASE pool # 0
        <4>1. pool \in Entries \ {e} /\ entry[pool].made BY <1>12, <2>2, <3>2
        <4>2. entry[pool].fs \in Conns \ {c} BY <1>10, <4>1
        <4>3. pool' = pool /\ entry'[pool] = entry[pool] BY <1>2, <1>6, <4>1
        <4>4. conn'[entry[pool].fs] = conn[entry[pool].fs] BY <1>5, <4>2
        <4> QED BY <1>1, <3>2, <4>3, <4>4 DEF PooledSound
      <3> QED BY <3>1, <3>2
    <2> QED BY <2>1, <2>2
  <1>14. ConnsOwned' BY <1>1, <1>3, <1>5, <1>6 DEF ConnsOwned
  <1>15. UsersSound'
    BY <1>1, <1>5, <1>7 DEF UsersSound
  <1>16. NoOrphan'
    <2> SUFFICES ASSUME NEW d \in Conns, conn'[d].at \in Live
                 PROVE  /\ entry'[conn'[d].owner].fs = d
                        /\ conn'[d].owner = pool' \/ conn'[d].owner \in cut'
      BY DEF NoOrphan
    <2>1. CASE d = c BY <1>2, <1>4, <1>5, <1>6, <2>1
    <2>2. CASE d # c
      <3>1. conn'[d] = conn[d] BY <1>5, <2>2
      <3>2. /\ entry[conn[d].owner].fs = d /\ (conn[d].owner = pool \/ conn[d].owner \in cut)
            /\ conn[d].owner \in Entries
        BY <1>1, <3>1 DEF NoOrphan, ConnsOwned, Live, Coming
      <3>3. conn[d].owner # e BY <1>3, <2>2, <3>2
      <3>4. entry'[conn[d].owner].fs = d BY <1>6, <3>2, <3>3
      <3>5. pool' = pool /\ cut' = cut BY <1>2
      <3> QED BY <3>1, <3>2, <3>4, <3>5
    <2> QED BY <2>1, <2>2
  <1>17. ValidIsLive'
    <2>1. CASE pool = e BY <1>5, <1>6, <1>2, <2>1 DEF ValidIsLive
    <2>2. CASE pool # e /\ pool # 0
      <3>1. entry'[pool] = entry[pool] /\ conn'[entry[pool].fs] = conn[entry[pool].fs]
        BY <1>5, <1>6, <1>10, <1>12, <2>2
      <3> QED BY <1>1, <1>2, <2>2, <3>1 DEF ValidIsLive
    <2>3. CASE pool = 0 BY <1>2, <2>3 DEF ValidIsLive
    <2> QED BY <2>1, <2>2, <2>3
  <1>18. BarTellsTruth'
    <2> SUFFICES ASSUME cut' = {} PROVE bar' = "connected" /\ pool' # 0 /\ entry'[pool'].isValid
      BY DEF BarTellsTruth
    <2>1. pool = e BY <1>2, <1>4
    <2> QED BY <1>2, <1>6, <1>9, <2>1
  <1> QED BY <1>8, <1>11, <1>13, <1>14, <1>15, <1>16, <1>17, <1>18 DEF PoolInv

-------------------------------------------------------------------------------
(* Connection c, of entry e, fades: the entry is told, or it stays as it was.   *)

Told(e, c) ==
    /\ entry' \in [Entries -> Entry]
    /\ \A f \in Entries \ {e} : entry'[f] = entry[f]
    /\ entry'[e].fs = c /\ entry[e].fs = c /\ entry'[e].made = entry[e].made
    /\ entry'[e].closing = TRUE /\ entry'[e].isValid = FALSE
    /\ entry'[e].acq \in {entry[e].acq, "none"}
    /\ entry'[e].acq = "connecting" => conn'[c].at = "closed"
    /\ ~entry[e].closing \/ entry[e].acq # "none"
    /\ conn'[c].at \in Ended
    /\ bar' \in {"lost", "error"}

Untold(e, c) ==
    /\ entry' = entry /\ bar' = bar
    /\ \/ conn'[c].at = conn[c].at
       \/ conn[c].at \in {"open", "silent"} /\ conn'[c].at \in {"silent"} \cup Ended
       \/ entry[e].acq = "connecting" /\ conn'[c].at = "closed"
    /\ entry[e].fs = c /\ ~entry[e].closing => conn'[c].muted = conn[c].muted
    /\ entry[e].fs = c /\ e = pool /\ entry[e].isValid =>
         conn'[c].at \in {"open", "silent"} \/ events'[c] # {}

Fades(c) ==
    /\ conn' \in [Conns -> Conn]
    /\ \A d \in Conns \ {c} : conn'[d] = conn[d] /\ events'[d] = events[d]
    /\ conn'[c].owner = conn[c].owner
    /\ conn[c].at # "none"
    /\ events' \in [Conns -> SUBSET {"error", "close"}]
    /\ UNCHANGED <<protocol, pool, cut>>

LEMMA FadesInv ==
    ASSUME PoolInv, NEW c \in Conns, NEW e \in Entries, conn[c].owner = e,
           Fades(c), OnlyWaits, Told(e, c) \/ Untold(e, c)
    PROVE  PoolInv'
  <1>1. TypeOK /\ PooledSound /\ ConnsOwned /\ UsersSound /\ NoOrphan /\ ValidIsLive
        /\ BarTellsTruth
    BY DEF PoolInv
  <1>2. /\ UNCHANGED <<protocol, pool, cut>>
        /\ \A d \in Conns : conn'[d].owner = conn[d].owner
        /\ \A d \in Conns \ {c} : conn'[d] = conn[d] /\ events'[d] = events[d]
        /\ conn[c].at # "none"
    BY DEF Fades
  <1>3. /\ entry' \in [Entries -> Entry]
        /\ \A f \in Entries \ {e} : entry'[f] = entry[f]
        /\ entry'[e].fs = entry[e].fs /\ entry'[e].made = entry[e].made
    BY <1>1 DEF Told, Untold, TypeOK
  <1>4. bar' \in {"none", "idle", "connecting", "reconnecting", "connected", "lost", "error"}
    BY <1>1 DEF Told, Untold, TypeOK
  <1>5. TypeOK' BY <1>1, <1>2, <1>3, <1>4 DEF TypeOK, Fades, OnlyWaits
  <1>6. conn'[c].at \in {conn[c].at, "silent"} \cup Ended
        /\ (conn'[c].at = "silent" => conn[c].at \in {"open", "silent"})
    BY DEF Told, Untold, Ended
  <1>7. e # 0 /\ entry[e].made BY <1>1, <1>2, PoolAssumption DEF Entries, ConnsOwned
  <1>8. EntrySound(e) BY DEF PoolInv
  (* Only e has c, and not every c is what e has now. *)
  <1>9. \A f \in Entries : entry[f].made =>
          entry[f].fs \in Conns /\ (f # e => entry[f].fs # c)
    BY CurrentFacts
  <1>10. \A f \in Entries : EntrySound(f)'
    <2>1. ASSUME NEW f \in Entries, entry'[f] = entry[f],
                 entry[f].made => conn'[entry[f].fs].owner = conn[entry[f].fs].owner
                                  /\ conn'[entry[f].fs].at = conn[entry[f].fs].at
          PROVE  EntrySound(f)'
      <3>1. EntrySound(f) BY DEF PoolInv
      <3>2. pool' = pool /\ cut' = cut BY <1>2
      <3> QED BY <2>1, <3>1, <3>2, EntryUntouched
    <2>2. ASSUME NEW f \in Entries \ {e} PROVE EntrySound(f)'
      BY <1>2, <1>3, <1>9, <2>1
    <2>3. CASE Told(e, c)
      <3>1. /\ entry'[e].fs = c /\ entry'[e].closing = TRUE /\ entry'[e].isValid = FALSE
            /\ entry'[e].acq \in {entry[e].acq, "none"}
            /\ entry'[e].acq = "connecting" => conn'[c].at = "closed"
            /\ conn'[c].at \in Ended
        BY <2>3 DEF Told
      <3>2. conn'[c].owner = e /\ pool' = pool /\ cut' = cut BY <1>2
      <3>3. entry[e].acq # "none" => e = pool \/ e \in cut BY <1>8 DEF EntrySound
      <3>4. entry'[e].acq # "none" => e = pool' \/ e \in cut' BY <3>1, <3>2, <3>3
      <3>5. entry'[e].made = TRUE BY <1>1, <1>3, <1>7 DEF TypeOK, Entry
      <3>6. CASE entry'[e].acq = "connecting"
        <4>1. conn'[c].at \in Coming \cup {"closed"} /\ conn'[c].at # "none" BY <3>1, <3>6
        <4>2. (e = pool' \/ e \in cut') /\ ~entry'[e].isValid BY <3>1, <3>4, <3>6
        <4>3. EntrySound(e)' BY <3>1, <3>2, <3>5, <3>6, <4>1, <4>2, EntryConnecting
        <4> QED BY <2>2, <4>3
      <3>7. CASE entry'[e].acq # "connecting"
        <4>1. conn'[c].at \in {"open", "silent"} \cup Ended BY <3>1
        <4>2. entry'[e].closing \/ e = pool' \/ e \in cut' BY <3>1
        <4>3. conn'[c].at \in Ended \/ entry'[e].isValid BY <3>1
        <4>4. EntrySound(e)'
          BY <3>1, <3>2, <3>4, <3>5, <3>7, <4>1, <4>2, <4>3, EntrySettled
        <4> QED BY <2>2, <4>4
      <3> QED BY <3>6, <3>7
    <2>4. CASE /\ Untold(e, c) /\ entry[e].fs = c /\ conn'[c].at # conn[c].at
               /\ entry[e].acq # "connecting"
      <3>1. /\ entry' = entry
            /\ conn[c].at \in {"open", "silent"} /\ conn'[c].at \in {"silent"} \cup Ended
        BY <2>4 DEF Untold
      <3>2. conn'[c].owner = e /\ pool' = pool /\ cut' = cut BY <1>2
      <3>3. /\ entry[e].acq # "connecting" /\ (entry[e].acq # "none" => e = pool \/ e \in cut)
            /\ entry[e].closing \/ e = pool \/ e \in cut
            /\ entry[e].isValid
        BY <1>7, <1>8, <2>4, <3>1 DEF EntrySound, Coming, Ended
      <3>4. entry[e].made = TRUE BY <1>1, <1>7 DEF TypeOK, Entry
      <3>5. entry'[e].fs = c /\ entry'[e].made = TRUE BY <2>4, <3>1, <3>4
      <3>6. conn'[c].at \in {"open", "silent"} \cup Ended BY <3>1
      <3>7. /\ entry'[e].acq # "connecting" /\ (entry'[e].acq # "none" => e = pool' \/ e \in cut')
            /\ entry'[e].closing \/ e = pool' \/ e \in cut'
            /\ conn'[c].at \in Ended \/ entry'[e].isValid
        BY <3>1, <3>2, <3>3
      <3>8. EntrySound(e)' BY <3>2, <3>5, <3>6, <3>7, EntrySettled
      <3> QED BY <2>2, <3>8
    <2>5. CASE Untold(e, c) /\ (entry[e].fs # c \/ conn'[c].at = conn[c].at)
      BY <1>2, <1>7, <1>9, <2>1, <2>5 DEF Untold
    <2>6. CASE /\ Untold(e, c) /\ entry[e].fs = c /\ conn'[c].at # conn[c].at
               /\ entry[e].acq = "connecting"
      <3>1. entry' = entry /\ conn'[c].owner = e /\ pool' = pool /\ cut' = cut
        BY <1>2, <2>6 DEF Untold
      <3>2. ~entry[e].isValid /\ (e = pool \/ e \in cut) /\ conn[c].at \notin {"open", "silent"}
        BY <1>7, <1>8, <2>6 DEF EntrySound, Coming
      <3>3. conn'[c].at = "closed" BY <2>6, <3>2 DEF Untold
      <3>4. entry[e].made = TRUE BY <1>1, <1>7 DEF TypeOK, Entry
      <3>5. conn'[c].at \in Coming \cup {"closed"} /\ conn'[c].at # "none" BY <3>3
      <3>6. EntrySound(e)' BY <2>6, <3>1, <3>2, <3>4, <3>5, EntryConnecting
      <3> QED BY <2>2, <3>6
    <2> QED BY <2>2, <2>3, <2>4, <2>5, <2>6
  <1>11. ConnsOwned'
    <2>1. \A d \in Conns : conn'[d].at # "none" => conn[d].at # "none" BY <1>2
    <2> QED BY <1>1, <1>2, <1>3, <2>1 DEF ConnsOwned
  <1>12. UsersSound'
    <2>1. \A d \in Conns : conn[d].at \in {"open", "silent"} \cup Ended
                             => conn'[d].at \in {"open", "silent"} \cup Ended
      BY <1>2, <1>6
    <2> QED BY <1>1, <2>1 DEF UsersSound, OnlyWaits
  <1>13. NoOrphan'
    <2> SUFFICES ASSUME NEW d \in Conns, conn'[d].at \in Live
                 PROVE  /\ entry'[conn'[d].owner].fs = d
                        /\ conn'[d].owner = pool' \/ conn'[d].owner \in cut'
      BY DEF NoOrphan
    <2>1. conn[d].at \in Live BY <1>2, <1>6 DEF Live, Coming, Ended
    <2>2. /\ entry[conn[d].owner].fs = d /\ (conn[d].owner = pool \/ conn[d].owner \in cut)
          /\ conn[d].owner \in Entries
      BY <1>1, <2>1 DEF NoOrphan, ConnsOwned, Live, Coming
    <2> QED BY <1>2, <1>3, <2>2
  <1>14. pool # 0 => pool \in Entries /\ entry[pool].made
    BY <1>1, PoolAssumption DEF PooledSound, TypeOK, Entries
  <1>15. CASE pool # e \/ entry[e].fs # c
    <2>1. entry' = entry \/ pool # e BY <1>15 DEF Told, Untold
    <2>2. pool # 0 => /\ entry'[pool] = entry[pool] /\ entry[pool].fs \in Conns \ {c}
                      /\ conn'[entry[pool].fs] = conn[entry[pool].fs]
                      /\ events'[entry[pool].fs] = events[entry[pool].fs]
      BY <1>2, <1>3, <1>9, <1>14, <1>15, <2>1
    <2>3. PooledSound' BY <1>1, <1>2, <2>2 DEF PooledSound
    <2>4. ValidIsLive' BY <1>1, <1>2, <2>2 DEF ValidIsLive
    <2>5. BarTellsTruth'
      <3>1. CASE Told(e, c)
        <4>1. ~entry[e].closing \/ entry[e].acq # "none" BY <3>1 DEF Told
        <4>2. pool # e BY <1>15, <3>1 DEF Told
        <4>3. e \in cut BY <1>7, <1>8, <4>1, <4>2 DEF EntrySound
        <4> QED BY <1>2, <4>3 DEF BarTellsTruth
      <3>2. CASE Untold(e, c) BY <1>1, <1>2, <3>2 DEF BarTellsTruth, Untold
      <3> QED BY <3>1, <3>2
    <2> QED BY <1>5, <1>10, <1>11, <1>12, <1>13, <2>3, <2>4, <2>5 DEF PoolInv
  <1>16. CASE pool = e /\ entry[e].fs = c /\ Told(e, c)
    <2>1. /\ entry'[e].made /\ entry'[e].isValid = FALSE /\ entry'[e].fs = c
          /\ entry'[e].acq = "connecting" => conn'[c].at = "closed"
          /\ entry'[e].closing = TRUE /\ pool' = e /\ bar' # "connected"
      BY <1>2, <1>7, <1>16 DEF Told
    <2>2. PooledSound' /\ ValidIsLive' /\ BarTellsTruth'
      BY <2>1 DEF PooledSound, ValidIsLive, BarTellsTruth
    <2> QED BY <1>5, <1>10, <1>11, <1>12, <1>13, <2>2 DEF PoolInv
  <1>17. CASE pool = e /\ entry[e].fs = c /\ Untold(e, c)
    <2>1. /\ entry' = entry /\ bar' = bar /\ pool' = e /\ cut' = cut
          /\ ~entry[e].closing => conn'[c].muted = conn[c].muted
          /\ entry[e].isValid => conn'[c].at \in {"open", "silent"} \/ events'[c] # {}
      BY <1>2, <1>17 DEF Untold
    <2>2. PooledSound'
      <3>1. ~entry[e].closing => ~conn'[c].muted
        BY <1>1, <1>7, <1>17, <2>1 DEF PooledSound
      <3>2. entry[e].acq = "connecting" => ~entry[e].closing \/ conn'[c].at = "closed"
        <4> SUFFICES ASSUME entry[e].acq = "connecting", entry[e].closing
                     PROVE  conn'[c].at = "closed"
          OBVIOUS
        <4>1. conn[c].at = "closed" BY <1>1, <1>7, <1>17 DEF PooledSound
        <4> QED BY <1>17, <4>1 DEF Untold
      <3>3. entry[e].isValid => ~entry[e].closing BY <1>1, <1>7, <1>17 DEF PooledSound
      <3> QED BY <1>7, <1>17, <2>1, <3>1, <3>2, <3>3 DEF PooledSound
    <2>3. ValidIsLive' BY <1>17, <2>1 DEF ValidIsLive
    <2>4. BarTellsTruth' BY <1>1, <1>17, <2>1 DEF BarTellsTruth
    <2> QED BY <1>5, <1>10, <1>11, <1>12, <1>13, <2>2, <2>3, <2>4 DEF PoolInv
  <1> QED BY <1>15, <1>16, <1>17

LEMMA ConnectFailsInv ==
    ASSUME PoolInv, NEW c \in Conns, ConnectFails(c)
    PROVE  PoolInv'
  <1>1. TypeOK /\ ConnsOwned BY DEF PoolInv
  <1>2. conn[c].at # "none" BY DEF ConnectFails, Coming
  <1>3. PICK e \in Entries : e = conn[c].owner BY <1>1, <1>2 DEF ConnsOwned
  <1>4. /\ entry[e].acq = "connecting" /\ entry[e].fs = c
        /\ conn' = [conn EXCEPT ![c].at = "closed"]
        /\ entry' = [entry EXCEPT ![e].closing = TRUE, ![e].isValid = FALSE, ![e].acq = "none"]
        /\ caller' = Answered(e, "failed", 0)
        /\ bar' = "error" /\ UNCHANGED <<protocol, pool, cut>>
    BY <1>3 DEF ConnectFails
  <1>5. /\ events' \in [Conns -> SUBSET {"error", "close"}]
        /\ \A d \in Conns \ {c} : events'[d] = events[d]
    BY <1>1 DEF ConnectFails, TypeOK
  <1>6. /\ conn' \in [Conns -> Conn]
        /\ \A d \in Conns \ {c} : conn'[d] = conn[d]
        /\ conn'[c].at = "closed" /\ conn'[c].owner = conn[c].owner
    <2>1. conn[c] \in Conn BY <1>1 DEF TypeOK
    <2>2. conn' = [conn EXCEPT ![c] = [conn[c] EXCEPT !.at = "closed"]] BY <1>1, <1>4 DEF TypeOK
    <2>3. [conn[c] EXCEPT !.at = "closed"] \in Conn BY <2>1 DEF Conn
    <2> QED BY <1>1, <2>1, <2>2, <2>3 DEF TypeOK, Conn
  <1>7. /\ entry' \in [Entries -> Entry]
        /\ \A f \in Entries \ {e} : entry'[f] = entry[f]
        /\ entry'[e].fs = c /\ entry'[e].made = entry[e].made /\ entry'[e].closing = TRUE
        /\ entry'[e].isValid = FALSE /\ entry'[e].acq = "none"
    <2>1. entry[e] \in Entry BY <1>1 DEF TypeOK
    <2> DEFINE r == [entry[e] EXCEPT !.closing = TRUE, !.isValid = FALSE, !.acq = "none"]
    <2>2. entry' = [entry EXCEPT ![e] = r] BY <1>1, <1>4 DEF TypeOK
    <2>3. r \in Entry BY <2>1 DEF Entry
    <2>4. /\ r.fs = c /\ r.made = entry[e].made /\ r.closing = TRUE /\ r.isValid = FALSE
          /\ r.acq = "none"
      BY <1>4, <2>1 DEF Entry
    <2> HIDE DEF r
    <2> QED BY <1>1, <2>2, <2>3, <2>4 DEF TypeOK
  <1>8. OnlyWaits
    <2>1. \A k \in Callers : caller'[k] \in {caller[k], [at |-> "failed", on |-> 0]}
      BY <1>1, <1>4, AnsweredFacts
    <2>2. caller' \in [Callers -> Caller] BY <1>1, <1>4, AnsweredFacts
    <2> QED BY <2>1, <2>2 DEF OnlyWaits
  <1>9. Told(e, c) BY <1>4, <1>6, <1>7 DEF Told, Ended
  <1>10. Fades(c) BY <1>2, <1>4, <1>5, <1>6 DEF Fades
  <1> QED BY <1>3, <1>8, <1>9, <1>10, FadesInv

(* A handshake that is cut off tells its connection, and not who waits for it.  *)
LEMMA ConnectHangsInv ==
    ASSUME PoolInv, NEW c \in Conns, ConnectHangs(c)
    PROVE  PoolInv'
  <1>1. TypeOK /\ ConnsOwned BY DEF PoolInv
  <1>2. conn[c].at # "none" BY DEF ConnectHangs
  <1>3. PICK e \in Entries : e = conn[c].owner /\ entry[e].made BY <1>1, <1>2 DEF ConnsOwned
  <1>4. /\ entry[e].acq = "connecting" /\ entry[e].fs = c
        /\ conn' = [conn EXCEPT ![c].at = "closed"]
        /\ UNCHANGED <<protocol, pool, entry, caller, bar, cut>>
    BY <1>3 DEF ConnectHangs
  <1>5. /\ events' \in [Conns -> SUBSET {"error", "close"}]
        /\ \A d \in Conns \ {c} : events'[d] = events[d]
    BY <1>1 DEF ConnectHangs, TypeOK
  <1>6. /\ conn' \in [Conns -> Conn]
        /\ \A d \in Conns \ {c} : conn'[d] = conn[d]
        /\ conn'[c].at = "closed" /\ conn'[c].owner = conn[c].owner
        /\ conn'[c].muted = conn[c].muted
    <2>1. conn[c] \in Conn BY <1>1 DEF TypeOK
    <2>2. conn' = [conn EXCEPT ![c] = [conn[c] EXCEPT !.at = "closed"]] BY <1>1, <1>4 DEF TypeOK
    <2>3. [conn[c] EXCEPT !.at = "closed"] \in Conn BY <2>1 DEF Conn
    <2> QED BY <1>1, <2>1, <2>2, <2>3 DEF TypeOK, Conn
  <1>7. ~entry[e].isValid BY <1>3, <1>4 DEF PoolInv, EntrySound
  <1>8. OnlyWaits BY <1>1, <1>4 DEF OnlyWaits, TypeOK
  <1>9. Untold(e, c) BY <1>4, <1>6, <1>7 DEF Untold
  <1>10. Fades(c) BY <1>2, <1>4, <1>5, <1>6 DEF Fades
  <1> QED BY <1>3, <1>8, <1>9, <1>10, FadesInv

(* The two ends of an open connection that nobody asked for.                    *)
LEMMA LostInv ==
    ASSUME PoolInv, NEW c \in Conns, Drop(c) \/ Silence(c)
    PROVE  PoolInv'
  <1>1. TypeOK /\ ConnsOwned /\ PooledSound /\ EntrySound(conn[c].owner)
    <2>1. conn[c].at # "none" BY DEF Drop, Silence
    <2> QED BY <2>1 DEF PoolInv, ConnsOwned
  <1>2. conn[c].at \in {"open", "silent"} /\ UNCHANGED <<protocol, pool, entry, caller, bar, cut>>
    BY DEF Drop, Silence
  <1>3. PICK e \in Entries : e = conn[c].owner BY <1>1, <1>2 DEF ConnsOwned
  <1>4. PICK at \in {"closed", "silent"} : /\ conn' = [conn EXCEPT ![c].at = at]
                                           /\ at = "closed" => Drop(c)
                                           /\ at = "silent" => events' = events
    BY DEF Drop, Silence
  <1>5. /\ conn' \in [Conns -> Conn]
        /\ \A d \in Conns \ {c} : conn'[d] = conn[d]
        /\ conn'[c].at = at /\ conn'[c].owner = conn[c].owner /\ conn'[c].muted = conn[c].muted
    <2>1. conn[c] \in Conn BY <1>1 DEF TypeOK
    <2>2. conn' = [conn EXCEPT ![c] = [conn[c] EXCEPT !.at = at]] BY <1>1, <1>4 DEF TypeOK
    <2>3. [conn[c] EXCEPT !.at = at] \in Conn BY <2>1 DEF Conn, Live
    <2> QED BY <1>1, <2>1, <2>2, <2>3 DEF TypeOK, Conn
  <1>6. /\ events' \in [Conns -> SUBSET {"error", "close"}]
        /\ \A d \in Conns \ {c} : events'[d] = events[d]
        /\ at = "closed" /\ ~conn[c].muted => events'[c] # {}
    <2>1. CASE at = "silent" BY <1>1, <1>4, <2>1 DEF TypeOK
    <2>2. CASE at = "closed"
      <3>1. PICK es \in Deaths(c) : events' = [events EXCEPT ![c] = es] BY <1>4, <2>2 DEF Drop
      <3>2. es \in SUBSET {"error", "close"} /\ (~conn[c].muted => es # {}) BY DEF Deaths
      <3> QED BY <1>1, <3>1, <3>2 DEF TypeOK
    <2> QED BY <2>1, <2>2
  (* The client of a valid entry in the pool still tells what happens to it. *)
  <1>7. e = pool /\ entry[e].isValid => ~conn[entry[e].fs].muted
    <2>1. e # 0 BY PoolAssumption DEF Entries
    <2> QED BY <1>1, <2>1 DEF PooledSound
  <1>8. Untold(e, c) BY <1>2, <1>4, <1>5, <1>6, <1>7 DEF Untold, Ended
  <1>9. Fades(c) BY <1>2, <1>5, <1>6 DEF Fades
  <1>10. OnlyWaits BY <1>1, <1>2 DEF OnlyWaits, TypeOK
  <1> QED BY <1>3, <1>8, <1>9, <1>10, FadesInv

LEMMA SocketEventInv ==
    ASSUME PoolInv, NEW c \in Conns, SocketEvent(c)
    PROVE  PoolInv'
  <1>1. TypeOK /\ ConnsOwned BY DEF PoolInv
  <1>2. conn[c].at \in Ended /\ conn[c].at # "none" BY DEF SocketEvent, Ended
  <1>3. PICK e \in Entries : e = conn[c].owner /\ entry[e].made
    BY <1>1, <1>2 DEF ConnsOwned
  <1>4. PICK reason \in {"error", "close"} :
          /\ reason = (IF "error" \in events[c] THEN "error" ELSE "close")
          /\ events' = [events EXCEPT ![c] = @ \ {reason}]
          /\ \/ Heeds(e, c) /\ Invalidated(e, reason)
             \/ ~Heeds(e, c) /\ UNCHANGED <<entry, conn, bar>>
    BY <1>3 DEF SocketEvent
  <1>5. /\ entry[e].acq = "connecting" /\ entry[e].fs = c => conn[c].at = "closed"
        /\ UNCHANGED <<protocol, pool, caller, cut>>
    BY <1>3 DEF SocketEvent
  <1>6. /\ events' \in [Conns -> SUBSET {"error", "close"}]
        /\ \A d \in Conns \ {c} : events'[d] = events[d]
    BY <1>1, <1>4 DEF TypeOK
  <1>7. OnlyWaits BY <1>1, <1>5 DEF OnlyWaits, TypeOK
  <1>8. CASE Heeds(e, c)
    <2>1. entry[e].fs = c /\ ~entry[e].closing BY <1>8 DEF Heeds
    <2>2. /\ entry' = [entry EXCEPT ![e].closing = TRUE, ![e].isValid = FALSE]
          /\ conn' = EndConn(c) /\ bar' \in {"error", "lost"}
      BY <1>4, <1>8, <2>1 DEF Invalidated
    <2>3. /\ conn' \in [Conns -> Conn]
          /\ \A d \in Conns \ {c} : conn'[d] = conn[d]
          /\ conn'[c].owner = conn[c].owner
          /\ conn'[c].at = IF HasSocket(c) THEN "ended" ELSE conn[c].at
      BY <1>1, <2>2, EndConnFacts
    <2>4. /\ entry' \in [Entries -> Entry]
          /\ \A f \in Entries \ {e} : entry'[f] = entry[f]
          /\ entry'[e].fs = c /\ entry'[e].made = entry[e].made /\ entry'[e].closing = TRUE
          /\ entry'[e].isValid = FALSE /\ entry'[e].acq = entry[e].acq
      <3>1. entry[e] \in Entry BY <1>1 DEF TypeOK
      <3> DEFINE r == [entry[e] EXCEPT !.closing = TRUE, !.isValid = FALSE]
      <3>2. entry' = [entry EXCEPT ![e] = r] BY <1>1, <2>2 DEF TypeOK
      <3>3. r \in Entry BY <3>1 DEF Entry
      <3>4. /\ r.fs = c /\ r.made = entry[e].made /\ r.closing = TRUE /\ r.isValid = FALSE
            /\ r.acq = entry[e].acq
        BY <2>1, <3>1 DEF Entry
      <3> HIDE DEF r
      <3> QED BY <1>1, <3>2, <3>3, <3>4 DEF TypeOK
    <2>5. conn'[c].at \in Ended /\ (conn[c].at = "closed" => conn'[c].at = "closed")
      BY <1>2, <2>3 DEF Ended, HasSocket
    <2>6. Told(e, c) BY <1>5, <2>1, <2>2, <2>4, <2>5 DEF Told
    <2>7. Fades(c) BY <1>2, <1>5, <1>6, <2>3 DEF Fades
    <2> QED BY <1>3, <1>7, <2>6, <2>7, FadesInv
  <1>9. CASE ~Heeds(e, c)
    <2>1. UNCHANGED <<entry, conn, bar>> BY <1>4, <1>9
    <2>2. e = pool /\ entry[e].fs = c => ~entry[e].isValid
      <3> SUFFICES ASSUME e = pool, entry[e].fs = c PROVE ~entry[e].isValid OBVIOUS
      <3>1. entry[e].closing BY <1>9 DEF Heeds
      <3>2. e # 0 BY PoolAssumption DEF Entries
      <3> QED BY <3>1, <3>2 DEF PoolInv, PooledSound
    <2>3. Untold(e, c) BY <2>1, <2>2 DEF Untold
    <2>4. Fades(c) BY <1>1, <1>2, <1>5, <1>6, <2>1 DEF Fades, TypeOK
    <2> QED BY <1>3, <1>7, <2>3, <2>4, FadesInv
  <1> QED BY <1>8, <1>9

LEMMA OperationTimesOutInv ==
    ASSUME PoolInv, NEW k \in Callers, OperationTimesOut(k)
    PROVE  PoolInv'
  <1>1. TypeOK /\ ConnsOwned /\ UsersSound /\ PooledSound BY DEF PoolInv
  <1>2. caller[k].at = "using" BY DEF OperationTimesOut
  <1>3. PICK c \in Conns : c = caller[k].on /\ conn[c].at \in {"open", "silent"} \cup Ended
    BY <1>1, <1>2 DEF UsersSound
  <1>4. PICK e \in Entries : e = conn[c].owner /\ entry[e].made
    BY <1>1, <1>3 DEF ConnsOwned, Ended
  <1> DEFINE told == protocol = "ftp" /\ ~conn[c].muted /\ Heeds(e, c)
  <1>5. /\ conn' = EndConn(c) /\ events' = EndEvents(c)
        /\ entry' = IF told THEN [entry EXCEPT ![e].closing = TRUE, ![e].isValid = FALSE]
                    ELSE entry
        /\ bar' = IF told THEN "lost" ELSE bar
        /\ caller' = [caller EXCEPT ![k] = [at |-> "idle", on |-> 0]]
        /\ UNCHANGED <<protocol, pool, cut>>
    BY <1>3, <1>4 DEF OperationTimesOut
  <1>6. /\ conn' \in [Conns -> Conn]
        /\ \A d \in Conns \ {c} : conn'[d] = conn[d]
        /\ conn'[c].owner = conn[c].owner
        /\ conn'[c].at = IF HasSocket(c) THEN "ended" ELSE conn[c].at
        /\ conn'[c].muted = (conn[c].muted \/ protocol = "ftp")
    BY <1>1, <1>5, EndConnFacts
  <1>7. /\ events' \in [Conns -> SUBSET {"error", "close"}]
        /\ \A d \in Conns \ {c} : events'[d] = events[d]
        /\ events[c] \subseteq events'[c]
        /\ HasSocket(c) /\ protocol = "sftp" => events'[c] # {}
    BY <1>1, <1>5, EndEventsFacts
  <1>8. conn'[c].at \in Ended /\ (conn'[c].at = conn[c].at \/ conn[c].at \in {"open", "silent"})
    BY <1>3, <1>6 DEF HasSocket, Ended
  <1>9. OnlyWaits BY <1>1, <1>5 DEF OnlyWaits, TypeOK, Caller
  <1>10. Fades(c) BY <1>3, <1>5, <1>6, <1>7 DEF Fades, Ended
  <1>11. CASE told
    <2>1. entry[e].fs = c /\ ~entry[e].closing BY <1>11 DEF Heeds
    <2>2. /\ entry' \in [Entries -> Entry]
          /\ \A f \in Entries \ {e} : entry'[f] = entry[f]
          /\ entry'[e].fs = c /\ entry'[e].made = entry[e].made /\ entry'[e].closing = TRUE
          /\ entry'[e].isValid = FALSE /\ entry'[e].acq = entry[e].acq
      <3>1. entry[e] \in Entry BY <1>1 DEF TypeOK
      <3> DEFINE r == [entry[e] EXCEPT !.closing = TRUE, !.isValid = FALSE]
      <3>2. entry' = [entry EXCEPT ![e] = r] BY <1>1, <1>5, <1>11 DEF TypeOK
      <3>3. r \in Entry BY <3>1 DEF Entry
      <3>4. /\ r.fs = c /\ r.made = entry[e].made /\ r.closing = TRUE /\ r.isValid = FALSE
            /\ r.acq = entry[e].acq
        BY <2>1, <3>1 DEF Entry
      <3> HIDE DEF r
      <3> QED BY <1>1, <3>2, <3>3, <3>4 DEF TypeOK
    (* A connection that ended on its way up was disconnected, and its entry closing. *)
    <2>3. entry[e].acq = "connecting" => conn'[c].at = "closed"
      <3>1. EntrySound(e) BY DEF PoolInv
      <3>2. conn[c].at \notin Coming BY <1>3 DEF Coming, Ended
      <3>3. entry[e].acq = "connecting" => conn[c].at = "closed"
        BY <1>4, <2>1, <3>1, <3>2 DEF EntrySound
      <3> QED BY <1>6, <3>3 DEF HasSocket
    <2>4. Told(e, c) BY <1>5, <1>8, <1>11, <2>1, <2>2, <2>3 DEF Told
    <2> QED BY <1>4, <1>9, <1>10, <2>4, FadesInv
  <1>12. CASE ~told
    <2>1. entry' = entry /\ bar' = bar BY <1>5, <1>12
    <2>2. entry[e].fs = c /\ ~entry[e].closing => conn'[c].muted = conn[c].muted
      BY <1>1, <1>6, <1>12, PoolAssumption DEF Heeds, TypeOK, Conn
    <2>3. entry[e].fs = c /\ e = pool /\ entry[e].isValid => events'[c] # {}
      <3> SUFFICES ASSUME entry[e].fs = c, e = pool, entry[e].isValid PROVE events'[c] # {}
        OBVIOUS
      <3>1. e # 0 BY PoolAssumption DEF Entries
      <3>2. ~entry[e].closing /\ ~conn[c].muted BY <1>1, <3>1 DEF PooledSound
      <3>3. protocol = "sftp" BY <1>1, <1>12, <3>2, PoolAssumption DEF Heeds, TypeOK
      <3>4. CASE HasSocket(c) BY <1>7, <3>3, <3>4
      <3>5. CASE ~HasSocket(c)
        <4>1. conn[c].at \notin {"open", "silent"} BY <3>5 DEF HasSocket
        <4>2. events[c] # {} BY <3>1, <4>1 DEF PoolInv, ValidIsLive
        <4> QED BY <1>7, <4>2
      <3> QED BY <3>4, <3>5
    <2>4. Untold(e, c) BY <1>8, <2>1, <2>2, <2>3 DEF Untold
    <2> QED BY <1>4, <1>9, <1>10, <2>4, FadesInv
  <1> QED BY <1>11, <1>12

LEMMA DisconnectInv ==
    ASSUME PoolInv, Disconnect
    PROVE  PoolInv'
  <1>1. TypeOK /\ PooledSound /\ ConnsOwned /\ UsersSound /\ NoOrphan BY DEF PoolInv
  <1>2. PICK e \in Entries : e = pool BY <1>1, PoolAssumption DEF Disconnect, TypeOK, Entries
  <1>3. e # 0 /\ entry[e].made BY <1>1, <1>2, PoolAssumption DEF PooledSound, Entries
  <1>4. PICK c \in Conns : c = entry[e].fs /\ conn[c].owner = e /\ conn[c].at # "none"
    BY <1>3, CurrentFacts
  <1>5. /\ entry' = [entry EXCEPT ![e].closing = TRUE]
        /\ conn' = EndConn(c) /\ events' = EndEvents(c)
        /\ cut' = IF entry[e].acq = "none" THEN cut ELSE cut \cup {e}
        /\ pool' = 0 /\ bar' = "none" /\ UNCHANGED <<protocol, caller>>
    BY <1>2, <1>4 DEF Disconnect
  <1>6. /\ conn' \in [Conns -> Conn]
        /\ \A d \in Conns \ {c} : conn'[d] = conn[d]
        /\ conn'[c].owner = e
        /\ conn'[c].at = IF HasSocket(c) THEN "ended" ELSE conn[c].at
    BY <1>1, <1>4, <1>5, EndConnFacts
  <1>7. events' \in [Conns -> SUBSET {"error", "close"}]
    BY <1>1, <1>5, EndEventsFacts
  <1>8. /\ entry' \in [Entries -> Entry]
        /\ \A f \in Entries \ {e} : entry'[f] = entry[f]
        /\ entry'[e].fs = c /\ entry'[e].made = entry[e].made /\ entry'[e].closing = TRUE
        /\ entry'[e].isValid = entry[e].isValid /\ entry'[e].acq = entry[e].acq
    <2>1. entry[e] \in Entry BY <1>1 DEF TypeOK
    <2> DEFINE r == [entry[e] EXCEPT !.closing = TRUE]
    <2>2. entry' = [entry EXCEPT ![e] = r] BY <1>1, <1>5 DEF TypeOK
    <2>3. r \in Entry BY <2>1 DEF Entry
    <2>4. /\ r.fs = c /\ r.made = entry[e].made /\ r.closing = TRUE
          /\ r.isValid = entry[e].isValid /\ r.acq = entry[e].acq
      BY <1>4, <2>1 DEF Entry
    <2> HIDE DEF r
    <2> QED BY <1>1, <2>2, <2>3, <2>4 DEF TypeOK
  <1>9. cut \subseteq cut' /\ cut' \in SUBSET Entries /\ (entry[e].acq # "none" => e \in cut')
    BY <1>1, <1>5 DEF TypeOK
  <1>10. TypeOK' BY <1>1, <1>5, <1>6, <1>7, <1>8, <1>9, PoolAssumption DEF TypeOK
  <1>11. \A f \in Entries \ {e} : entry[f].made => entry[f].fs \in Conns \ {c}
    <2> SUFFICES ASSUME NEW f \in Entries \ {e}, entry[f].made PROVE entry[f].fs \in Conns \ {c}
      OBVIOUS
    <2>1. entry[f].fs \in Conns /\ conn[entry[f].fs].owner = f BY CurrentFacts
    <2> QED BY <1>4, <2>1
  <1>12. EntrySound(e) BY DEF PoolInv
  <1>13. entry[e].acq = "none" => conn'[c].at \in Ended
    <2> SUFFICES ASSUME entry[e].acq = "none" PROVE conn'[c].at \in Ended OBVIOUS
    <2>1. conn[c].at \in {"open", "silent"} \cup Ended
          /\ (HasSocket(c) <=> conn[c].at \in {"open", "silent"})
      BY <1>3, <1>4, CurrentFacts
    <2> QED BY <1>6, <2>1 DEF Ended
  <1>14. \A f \in Entries : EntrySound(f)'
    <2>1. ASSUME entry[e].acq = "connecting" PROVE EntrySound(e)'
      <3>1. /\ ~entry'[e].isValid /\ entry'[e].acq = "connecting" /\ e \in cut'
            /\ conn[c].at \in Coming \cup {"closed", "ended"}
        BY <1>3, <1>4, <1>8, <1>9, <1>12, <2>1 DEF EntrySound
      <3>2. (conn'[c].at \in Coming \cup {"closed"} \/ conn'[c].at = "ended") /\ conn'[c].at # "none"
        BY <1>6, <3>1 DEF Coming
      <3>3. entry[e].made = TRUE BY <1>1, <1>3 DEF TypeOK, Entry
      <3> QED BY <1>6, <1>8, <3>1, <3>2, <3>3, EntryConnecting
    <2>2. ASSUME entry[e].acq # "connecting" PROVE EntrySound(e)'
      <3>1. entry[e].made = TRUE BY <1>1, <1>3 DEF TypeOK, Entry
      <3>2. conn[c].at \in {"open", "silent"} \cup Ended
            /\ (HasSocket(c) <=> conn[c].at \in {"open", "silent"})
        BY <1>3, <1>4, <2>2, CurrentFacts
      <3>3. conn'[c].at \in Ended BY <1>6, <3>2 DEF Ended
      <3>4. conn'[c].at \in {"open", "silent"} \cup Ended BY <3>3
      <3>5. entry'[e].fs = c /\ entry'[e].made = TRUE /\ entry'[e].acq # "connecting"
            /\ (entry'[e].acq # "none" => e = pool' \/ e \in cut')
            /\ (entry'[e].closing \/ e = pool' \/ e \in cut')
        BY <1>8, <1>9, <2>2, <3>1
      <3> QED BY <1>6, <3>3, <3>4, <3>5, EntrySettled
    <2>3. ASSUME NEW f \in Entries \ {e} PROVE EntrySound(f)'
      <3>1. EntrySound(f) BY DEF PoolInv
      <3>2. f # pool /\ f # pool' /\ (f \in cut' <=> f \in cut)
        BY <1>2, <1>5, PoolAssumption DEF Entries
      <3>3. CASE entry[f].made
        <4>1. entry'[f] = entry[f] /\ conn'[entry[f].fs] = conn[entry[f].fs]
          BY <1>6, <1>8, <1>11, <3>3
        <4> QED BY <3>1, <3>2, <3>3, <4>1 DEF EntrySound
      <3>4. CASE ~entry[f].made BY <1>8, <3>1, <3>2, <3>4 DEF EntrySound
      <3> QED BY <3>3, <3>4
    <2>4. EntrySound(e)' BY <2>1, <2>2
    <2> QED BY <2>3, <2>4
  <1>15. ConnsOwned'
    <2>1. \A d \in Conns : conn'[d].owner = conn[d].owner
                           /\ (conn'[d].at # "none" => conn[d].at # "none")
      BY <1>4, <1>6
    <2> QED BY <1>1, <1>8, <2>1 DEF ConnsOwned
  <1>16. UsersSound'
    <2>1. \A d \in Conns : conn[d].at \in {"open", "silent"} \cup Ended
                             => conn'[d].at \in {"open", "silent"} \cup Ended
      BY <1>6 DEF Ended
    <2> QED BY <1>1, <1>5, <2>1 DEF UsersSound
  <1>17. NoOrphan'
    <2> SUFFICES ASSUME NEW d \in Conns, conn'[d].at \in Live
                 PROVE  /\ entry'[conn'[d].owner].fs = d
                        /\ conn'[d].owner = pool' \/ conn'[d].owner \in cut'
      BY DEF NoOrphan
    <2>1. conn[d].at \in Live /\ conn'[d].owner = conn[d].owner
      BY <1>4, <1>6 DEF Live, Coming
    <2>2. /\ entry[conn[d].owner].fs = d /\ (conn[d].owner = e \/ conn[d].owner \in cut)
          /\ conn[d].owner \in Entries
      BY <1>1, <1>2, <2>1 DEF NoOrphan, ConnsOwned, Live, Coming
    <2>3. entry'[conn[d].owner].fs = d BY <1>4, <1>8, <2>2
    <2>4. conn[d].owner = e => e \in cut'
      <3> SUFFICES ASSUME conn[d].owner = e PROVE e \in cut' OBVIOUS
      <3>1. d = c BY <1>4, <2>2
      <3>2. entry[e].acq # "none" BY <1>13, <3>1 DEF Live, Coming, Ended
      <3> QED BY <1>9, <3>2
    <2> QED BY <1>9, <2>1, <2>2, <2>3, <2>4
  <1>18. PooledSound' /\ ValidIsLive' /\ BarTellsTruth'
    BY <1>5 DEF PooledSound, ValidIsLive, BarTellsTruth
  <1> QED BY <1>10, <1>14, <1>15, <1>16, <1>17, <1>18 DEF PoolInv

-------------------------------------------------------------------------------
(* The steps that change no connection: of entry e, at most a probe begins or   *)
(* ends.                                                                       *)
Quiet(e) ==
    /\ UNCHANGED <<protocol, pool, conn, events, bar, cut>>
    /\ entry' \in [Entries -> Entry]
    /\ \A f \in Entries \ {e} : entry'[f] = entry[f]
    /\ \/ entry' = entry
       \/ /\ entry'[e].fs = entry[e].fs /\ entry'[e].made = entry[e].made
          /\ entry'[e].closing = entry[e].closing /\ entry'[e].isValid = entry[e].isValid
          /\ entry[e].acq # "connecting" /\ entry'[e].acq \in {"none", "probing"}
          /\ entry[e].made /\ (e = pool \/ e \in cut)
    /\ caller' \in [Callers -> Caller]
    /\ \A k \in Callers : caller'[k].at = "using" =>
         \/ caller'[k] = caller[k]
         \/ entry[e].made /\ entry[e].acq # "connecting" /\ caller'[k].on = entry[e].fs

LEMMA QuietInv ==
    ASSUME PoolInv, NEW e \in Entries, Quiet(e)
    PROVE  PoolInv'
  <1>1. TypeOK /\ PooledSound /\ ConnsOwned /\ UsersSound /\ NoOrphan /\ ValidIsLive
        /\ BarTellsTruth
    BY DEF PoolInv
  <1>2. UNCHANGED <<protocol, pool, conn, events, bar, cut>> BY DEF Quiet
  <1>3. TypeOK' BY <1>1, <1>2 DEF TypeOK, Quiet
  <1>4. \A f \in Entries : /\ entry'[f].fs = entry[f].fs /\ entry'[f].made = entry[f].made
                           /\ entry'[f].closing = entry[f].closing
                           /\ entry'[f].isValid = entry[f].isValid
                           /\ entry'[f].acq = "connecting" <=> entry[f].acq = "connecting"
    <2>1. entry'[e].acq \in {"none", "probing"} => entry'[e].acq # "connecting" OBVIOUS
    <2> QED BY <2>1 DEF Quiet
  <1>5. \A f \in Entries : EntrySound(f)'
    <2> SUFFICES ASSUME NEW f \in Entries PROVE EntrySound(f)' OBVIOUS
    <2>1. EntrySound(f) BY DEF PoolInv
    <2>2. CASE entry'[f] = entry[f] BY <1>2, <2>1, <2>2, EntryUntouched
    <2>3. CASE entry'[f] # entry[f]
      <3>1. f = e /\ entry[e].acq # "connecting" /\ entry[e].made /\ (e = pool \/ e \in cut)
            /\ entry'[e].acq # "connecting"
        BY <2>3 DEF Quiet
      <3>2. conn' = conn /\ pool' = pool /\ cut' = cut BY <1>2
      <3> QED BY <1>4, <2>1, <3>1, <3>2 DEF EntrySound
    <2> QED BY <2>2, <2>3
  <1>6. pool # 0 => pool \in Entries BY <1>1, PoolAssumption DEF TypeOK, Entries
  <1>7. PooledSound' BY <1>1, <1>2, <1>4, <1>6 DEF PooledSound
  <1>8. ValidIsLive' BY <1>1, <1>2, <1>4, <1>6 DEF ValidIsLive
  <1>9. BarTellsTruth' BY <1>1, <1>2, <1>4, <1>6 DEF BarTellsTruth
  <1>10. ConnsOwned' BY <1>1, <1>2, <1>4 DEF ConnsOwned
  <1>11. NoOrphan' BY <1>1, <1>2, <1>4 DEF NoOrphan, ConnsOwned, Live, Coming
  <1>12. UsersSound'
    <2> SUFFICES ASSUME NEW k \in Callers, caller'[k].at = "using"
                 PROVE  caller'[k].on \in Conns
                        /\ conn[caller'[k].on].at \in {"open", "silent"} \cup Ended
      BY <1>2 DEF UsersSound
    <2>1. CASE caller'[k] = caller[k] BY <1>1, <2>1 DEF UsersSound
    <2>2. CASE caller'[k] # caller[k]
      <3>1. entry[e].made /\ entry[e].acq # "connecting" /\ caller'[k].on = entry[e].fs
        BY <2>2 DEF Quiet
      <3> QED BY <3>1, CurrentFacts
    <2> QED BY <2>1, <2>2
  <1> QED BY <1>3, <1>5, <1>7, <1>8, <1>9, <1>10, <1>11, <1>12 DEF PoolInv

LEMMA SharedInv ==
    ASSUME PoolInv, NEW k \in Callers,
           ShareAcquisition(k) \/ Reuse(k) \/ Probe(k) \/ Finish(k)
    PROVE  PoolInv'
  <1>1. TypeOK /\ PooledSound BY DEF PoolInv
  <1>2. pool # 0 => pool \in Entries /\ entry[pool].made
    BY <1>1, PoolAssumption DEF TypeOK, Entries, PooledSound
  <1>3. CASE ShareAcquisition(k)
    <2>1. PICK e \in Entries : e = pool /\ Wait(k, e) BY <1>2, <1>3 DEF ShareAcquisition
    <2>2. Quiet(e) BY <1>1, <1>3, <2>1, WaitFacts DEF ShareAcquisition, Quiet, TypeOK
    <2> QED BY <2>2, QuietInv
  <1>4. CASE Reuse(k)
    <2>1. PICK e \in Entries : e = pool BY <1>2, <1>4 DEF Reuse
    <2>2. entry[e].made /\ entry[e].fs \in Conns /\ entry[e].acq = "none"
      BY <1>2, <1>4, <2>1, CurrentFacts DEF Reuse
    <2>3. caller' = [caller EXCEPT ![k] = [at |-> "using", on |-> entry[e].fs]]
      BY <1>4, <2>1 DEF Reuse
    <2>4. [at |-> "using", on |-> entry[e].fs] \in Caller
      BY <2>2, PoolAssumption DEF Caller, Conns
    <2>5. caller' \in [Callers -> Caller]
          /\ \A j \in Callers : caller'[j] = caller[j] \/ caller'[j].on = entry[e].fs
      BY <1>1, <2>3, <2>4 DEF TypeOK
    <2>6. Quiet(e) BY <1>1, <1>4, <2>2, <2>5 DEF Reuse, Quiet, TypeOK
    <2> QED BY <2>6, QuietInv
  <1>5. CASE Probe(k)
    <2>1. PICK e \in Entries : e = pool /\ Wait(k, e) BY <1>2, <1>5 DEF Probe
    <2>2. /\ entry[e].acq = "none" /\ entry' = [entry EXCEPT ![e].acq = "probing"]
          /\ UNCHANGED <<protocol, pool, conn, events, bar, cut>>
      BY <1>5, <2>1 DEF Probe
    <2>3. entry[e] \in Entry BY <1>1 DEF TypeOK
    <2>4. entry' = [entry EXCEPT ![e] = [entry[e] EXCEPT !.acq = "probing"]]
      BY <1>1, <2>2 DEF TypeOK
    <2>5. [entry[e] EXCEPT !.acq = "probing"] \in Entry BY <2>3 DEF Entry
    <2>6. /\ entry' \in [Entries -> Entry]
          /\ \A f \in Entries \ {e} : entry'[f] = entry[f]
          /\ entry'[e].fs = entry[e].fs /\ entry'[e].made = entry[e].made
          /\ entry'[e].closing = entry[e].closing /\ entry'[e].isValid = entry[e].isValid
          /\ entry'[e].acq = "probing"
      BY <1>1, <2>3, <2>4, <2>5 DEF TypeOK, Entry
    <2>7. /\ caller' \in [Callers -> Caller]
          /\ \A j \in Callers : caller'[j].at = "using" => caller'[j] = caller[j]
      BY <1>1, <2>1, WaitFacts
    <2>8. entry[e].made /\ entry[e].acq # "connecting" BY <1>2, <1>5, <2>1, <2>2 DEF Probe
    <2>9. Quiet(e) BY <2>1, <2>2, <2>6, <2>7, <2>8 DEF Quiet
    <2> QED BY <2>9, QuietInv
  <1>6. CASE Finish(k)
    <2>1. PICK e \in Entries : TRUE BY PoolAssumption DEF Entries
    <2>2. caller' = [caller EXCEPT ![k] = [at |-> "idle", on |-> 0]]
          /\ UNCHANGED <<protocol, pool, entry, conn, events, bar, cut>>
      BY <1>6 DEF Finish
    <2>3. caller' \in [Callers -> Caller]
          /\ \A j \in Callers : caller'[j].at = "using" => caller'[j] = caller[j]
      BY <1>1, <2>2 DEF TypeOK, Caller
    <2>4. Quiet(e) BY <1>1, <2>2, <2>3 DEF Quiet, TypeOK
    <2> QED BY <2>4, QuietInv
  <1> QED BY <1>3, <1>4, <1>5, <1>6

LEMMA ProbeAnswersInv ==
    ASSUME PoolInv, NEW e \in Entries, ProbeAnswers(e)
    PROVE  PoolInv'
  <1>1. TypeOK /\ EntrySound(e) BY DEF PoolInv
  <1>2. /\ entry[e].acq = "probing" /\ entry' = [entry EXCEPT ![e].acq = "none"]
        /\ caller' = Answered(e, "using", entry[e].fs)
        /\ UNCHANGED <<protocol, pool, conn, events, bar, cut>>
    BY DEF ProbeAnswers
  <1>3. entry[e].made /\ (e = pool \/ e \in cut) BY <1>1, <1>2 DEF EntrySound
  <1>4. entry[e].fs \in Conns /\ entry[e].fs \in Nat
    BY <1>3, CurrentFacts, PoolAssumption DEF Conns
  <1>5. /\ caller' \in [Callers -> Caller]
        /\ \A k \in Callers : caller'[k] \in {caller[k], [at |-> "using", on |-> entry[e].fs]}
    BY <1>1, <1>2, <1>4, AnsweredFacts
  <1>6. entry[e] \in Entry BY <1>1 DEF TypeOK
  <1>7. entry' = [entry EXCEPT ![e] = [entry[e] EXCEPT !.acq = "none"]]
    BY <1>1, <1>2 DEF TypeOK
  <1>8. [entry[e] EXCEPT !.acq = "none"] \in Entry BY <1>6 DEF Entry
  <1>9. /\ entry' \in [Entries -> Entry]
        /\ \A f \in Entries \ {e} : entry'[f] = entry[f]
        /\ entry'[e].fs = entry[e].fs /\ entry'[e].made = entry[e].made
        /\ entry'[e].closing = entry[e].closing /\ entry'[e].isValid = entry[e].isValid
        /\ entry'[e].acq = "none"
    BY <1>1, <1>6, <1>7, <1>8 DEF TypeOK, Entry
  <1>10. \A k \in Callers : caller'[k] = caller[k] \/ caller'[k].on = entry[e].fs
    BY <1>5
  <1>11. entry[e].acq # "connecting" BY <1>2
  <1>12. Quiet(e) BY <1>2, <1>3, <1>5, <1>9, <1>10, <1>11 DEF Quiet
  <1> QED BY <1>12, QuietInv

-------------------------------------------------------------------------------
LEMMA PoolNextInv == PoolInv /\ [Next]_vars => PoolInv'
  <1> SUFFICES ASSUME PoolInv, [Next]_vars PROVE PoolInv' OBVIOUS
  <1>1. CASE UNCHANGED vars
    <2>1. PICK e \in Entries : TRUE BY PoolAssumption DEF Entries
    <2>2. Quiet(e) BY <1>1 DEF vars, Quiet, PoolInv, TypeOK
    <2> QED BY <2>2, QuietInv
  <1>2. ASSUME NEW k \in Callers,
               \/ CreateEntry(k) \/ ShareAcquisition(k) \/ Reuse(k) \/ Probe(k) \/ Reconnect(k)
               \/ OperationTimesOut(k) \/ Finish(k)
        PROVE  PoolInv'
    BY <1>2, CreateEntryInv, ReconnectInv, SharedInv, OperationTimesOutInv
  <1>3. ASSUME NEW e \in Entries, ProbeAnswers(e) \/ ProbeFails(e) PROVE PoolInv'
    BY <1>3, ProbeAnswersInv, ProbeFailsInv
  <1>4. ASSUME NEW c \in Conns,
               \/ Prepared(c) \/ AskPassword(c) \/ PasswordEntered(c) \/ LegUp(c)
               \/ Ready(c) \/ Connected(c) \/ Stalls(c) \/ ConnectFails(c) \/ ConnectHangs(c)
               \/ Drop(c) \/ Silence(c) \/ SocketEvent(c)
        PROVE  PoolInv'
    BY <1>4, ComingInv, ConnectedInv, ConnectFailsInv, ConnectHangsInv, LostInv, SocketEventInv
  <1> QED BY <1>1, <1>2, <1>3, <1>4, DisconnectInv DEF Next

LEMMA PoolInitInv == Init => PoolInv
  <1> SUFFICES ASSUME Init PROVE PoolInv OBVIOUS
  <1>1. NoEntry \in Entry BY PoolAssumption DEF NoEntry, Entry
  <1>2. [owner |-> 0, leg |-> 0, muted |-> FALSE, at |-> "none"] \in Conn
    BY PoolAssumption DEF Conn
  <1>3. [at |-> "idle", on |-> 0] \in Caller BY DEF Caller
  <1>4. TypeOK BY <1>1, <1>2, <1>3, PoolAssumption DEF Init, TypeOK
  <1>5. \A e \in Entries : EntrySound(e) BY DEF Init, NoEntry, EntrySound
  <1>6. PooledSound /\ ConnsOwned /\ UsersSound /\ NoOrphan /\ ValidIsLive /\ BarTellsTruth
    BY DEF Init, PooledSound, ConnsOwned, UsersSound, NoOrphan, ValidIsLive, BarTellsTruth,
           Live, Coming
  <1> QED BY <1>4, <1>5, <1>6 DEF PoolInv

(* The strengthening is an invariant: every entry and every connection is where *)
(* the other says it is, from the first getFs to the last end().                *)
THEOREM PoolInvariant == Spec => []PoolInv
  <1> QED BY PoolInitInv, PoolNextInv, PTL DEF Spec

(* No connection lives that nobody would close, no entry in the table is thought *)
(* valid after its connection's death was told, and the status bar says what the *)
(* pool holds (remoteFs.ts:54, 148, 239, 327).                                  *)
THEOREM PoolIsSound == Spec => []PoolSound
  <1>1. PoolInv => PoolSound BY DEF PoolInv, PoolSound
  <1> QED BY <1>1, PoolInvariant, PTL

-------------------------------------------------------------------------------
(* A step that answers one of the commands waiting on an entry answers all.     *)
LEMMA AnswersAll ==
    ASSUME TypeOK, NEW e, NEW at, NEW on, caller' = Answered(e, at, on),
           NEW j \in Callers, NEW k \in Callers,
           caller[j].at = "waiting", caller[k] = caller[j], caller'[j].at # "waiting"
    PROVE  caller'[k] = caller'[j]
  BY DEF Answered, WaitingOn, TypeOK

(* Every other step answers none: it moves one command, which was not waiting.  *)
LEMMA AnswersNone ==
    ASSUME TypeOK, NEW i \in Callers, caller[i].at # "waiting", NEW now,
           caller' = [caller EXCEPT ![i] = now],
           NEW j \in Callers, caller[j].at = "waiting"
    PROVE  caller'[j] = caller[j]
  BY DEF TypeOK

LEMMA StepAnswersTogether ==
    ASSUME TypeOK, [Next]_vars, NEW j \in Callers, NEW k \in Callers,
           caller[j].at = "waiting", caller[k] = caller[j], caller'[j].at # "waiting"
    PROVE  caller'[k] = caller'[j]
  <1>1. CASE UNCHANGED vars BY <1>1 DEF vars
  <1>2. CASE \E i \in Callers : CreateEntry(i) \/ ShareAcquisition(i) \/ Reuse(i) \/ Probe(i)
                                \/ Reconnect(i) \/ OperationTimesOut(i) \/ Finish(i)
    <2>1. PICK i \in Callers : CreateEntry(i) \/ ShareAcquisition(i) \/ Reuse(i) \/ Probe(i)
                               \/ Reconnect(i) \/ OperationTimesOut(i) \/ Finish(i)
      BY <1>2
    <2>2. caller[i].at # "waiting" /\ \E now : caller' = [caller EXCEPT ![i] = now]
      BY <2>1 DEF CreateEntry, ShareAcquisition, Reuse, Probe, Reconnect, OperationTimesOut,
                  Finish, Wait
    <2> QED BY <2>2, AnswersNone
  <1>3. CASE \E e \in Entries : ProbeAnswers(e)
    BY <1>3, AnswersAll DEF ProbeAnswers
  <1>4. CASE \E c \in Conns : Connected(c) \/ ConnectFails(c)
    <2>1. PICK c \in Conns : Connected(c) \/ ConnectFails(c) BY <1>4
    <2>2. PICK e : e = conn[c].owner OBVIOUS
    <2>3. CASE Connected(c)
      <3>1. caller' = Answered(e, "using", c) BY <2>2, <2>3 DEF Connected
      <3> QED BY <3>1, AnswersAll
    <2>4. CASE ConnectFails(c)
      <3>1. caller' = Answered(e, "failed", 0) BY <2>2, <2>4 DEF ConnectFails
      <3> QED BY <3>1, AnswersAll
    <2> QED BY <2>1, <2>3, <2>4
  <1>5. CASE \/ \E e \in Entries : ProbeFails(e)
             \/ \E c \in Conns : Prepared(c) \/ AskPassword(c) \/ PasswordEntered(c) \/ LegUp(c)
                                 \/ Ready(c) \/ Stalls(c) \/ ConnectHangs(c)
                                 \/ Drop(c) \/ Silence(c) \/ SocketEvent(c)
             \/ Disconnect
    <2>1. caller' = caller
      BY <1>5 DEF ProbeFails, Prepared, AskPassword, PasswordEntered, LegUp, Ready, Stalls, At,
                  ConnectHangs, Drop, Silence, SocketEvent, Disconnect
    <2> QED BY <2>1
  <1> QED BY <1>1, <1>2, <1>3, <1>4, <1>5 DEF Next

(* Commands that wait together are answered together (remoteFs.ts:76).          *)
THEOREM SharersAreAnsweredTogether == Spec => AnsweredTogether
  <1>1. TypeOK /\ [Next]_vars =>
          [\A j, k \in Callers :
             /\ caller[j].at = "waiting" /\ caller[k] = caller[j]
             /\ caller'[j].at # "waiting"
             => caller'[k] = caller'[j]]_vars
    BY StepAnswersTogether
  <1>2. PoolInv => TypeOK BY DEF PoolInv
  <1> QED BY <1>1, <1>2, PoolInvariant, PTL DEF Spec, AnsweredTogether

-------------------------------------------------------------------------------
(* An event is taken from a connection only by the listener of that connection, *)
(* and the listener it heeds ends no other.                                    *)
LEMMA EventsOnlyGrow ==
    ASSUME TypeOK, NEW d
    PROVE  \A c \in Conns : events[c] \subseteq EndEvents(d)[c]
  BY DEF EndEvents, TypeOK

LEMMA StepSparesSuccessor ==
    ASSUME PoolInv, [Next]_vars, NEW c \in Conns,
           events'[c] # events[c], events'[c] \subseteq events[c]
    PROVE  \A d \in Conns \ {c} : conn'[d] = conn[d]
  <1>1. TypeOK BY DEF PoolInv
  <1>2. CASE events' = events BY <1>2
  <1>3. CASE \E d : events' = EndEvents(d) BY <1>1, <1>3, EventsOnlyGrow
  <1>4. CASE \E b \in Conns : ConnectFails(b) \/ ConnectHangs(b) \/ Drop(b)
    <2>1. PICK b \in Conns : /\ \E at : conn' = [conn EXCEPT ![b].at = at]
                             /\ \E es : events' = [events EXCEPT ![b] = es]
      BY <1>4 DEF ConnectFails, ConnectHangs, Drop
    <2>2. b = c BY <1>1, <2>1 DEF TypeOK
    <2> QED BY <1>1, <2>1, <2>2 DEF TypeOK
  <1>5. CASE \E b \in Conns : SocketEvent(b)
    <2>1. PICK b \in Conns : /\ \E r : events' = [events EXCEPT ![b] = @ \ {r}]
                             /\ conn' = conn \/ conn' = EndConn(b)
      BY <1>5 DEF SocketEvent, Heeds, Invalidated
    <2>2. b = c BY <1>1, <2>1 DEF TypeOK
    <2> QED BY <1>1, <2>1, <2>2, EndConnFacts
  <1>6. [Next]_vars => \/ events' = events \/ \E d : events' = EndEvents(d)
                       \/ \E b \in Conns : ConnectFails(b) \/ ConnectHangs(b) \/ Drop(b)
                                            \/ SocketEvent(b)
    BY DEF Next, vars, CreateEntry, ShareAcquisition, Reuse, Probe, Reconnect,
           OperationTimesOut, Finish, ProbeAnswers, ProbeFails, Prepared, AskPassword,
           PasswordEntered, LegUp, Ready, Stalls, At, Connected, Silence, Disconnect
  <1> QED BY <1>2, <1>3, <1>4, <1>5, <1>6

(* The last breath of a replaced connection touches no other, and commands that  *)
(* share an acquisition get one answer (remoteFs.ts:76, 148).                    *)
THEOREM SharingIsFair == Spec => SharedFairly
  <1>1. PoolInv /\ [Next]_vars =>
          [\A c \in Conns : events'[c] # events[c] /\ events'[c] \subseteq events[c]
             => \A d \in Conns \ {c} : conn'[d] = conn[d]]_vars
    BY StepSparesSuccessor
  <1>2. Spec => SuccessorSurvives BY <1>1, PoolInvariant, PTL DEF Spec, SuccessorSurvives
  <1> QED BY <1>2, SharersAreAnsweredTogether DEF SharedFairly
===============================================================================
