-------------------------- MODULE Connecting_proofs --------------------------
(* What surrounds a connection, for any number of hosts, keys, handshakes,        *)
(* attempts and descriptors: the host keys, the limit of the descriptors, the     *)
(* passwords and the wizard, each with its inductive invariant, and then the      *)
(* properties of Connecting.                                                      *)
EXTENDS Connecting, FiniteSetTheorems, SequenceTheorems, TLAPS

(* The instances count and bound sets as the standard module does.             *)
LEMMA OneCardinality ==
    ASSUME NEW S
    PROVE  /\ Handle!IsFiniteSet(S) <=> IsFiniteSet(S)
           /\ Handle!Cardinality(S) = Cardinality(S)
           /\ Secret!Cardinality(S) = Cardinality(S)
  <1>1. Handle!IsFiniteSet(S) <=> IsFiniteSet(S) BY DEF Handle!IsFiniteSet, IsFiniteSet
  <1>2. Handle!Cardinality(S) = Cardinality(S) BY DEF Handle!Cardinality, Cardinality
  <1>3. Secret!Cardinality(S) = Cardinality(S) BY DEF Secret!Cardinality, Cardinality
  <1> QED BY <1>1, <1>2, <1>3

-------------------------------------------------------------------------------
(* Descriptors. *)

Spent == {"held", "closing", "failed"}

HandleInv == Handle!TypeOK /\ Handle!CounterAccounts /\ Handle!SomebodyReleases

(* The counter counts what a step adds to, or takes from, the answered calls.  *)
LEMMA CountStep ==
    ASSUME Handle!CounterAccounts, NEW c \in Calls,
           \A d \in Calls \ {c} : fd'[d] = fd[d],
           \/ fd[c] \in Spent /\ fd'[c] \in Spent /\ opened' = opened
           \/ fd[c] \notin Spent /\ fd'[c] \notin Spent /\ opened' = opened
           \/ fd[c] \notin Spent /\ fd'[c] \in Spent /\ opened' = opened + 1
           \/ fd[c] \in Spent /\ fd'[c] \notin Spent /\ opened' = opened - 1
    PROVE  Handle!CounterAccounts' /\ opened' \in Nat
  <1> DEFINE was == {d \in Calls : fd[d] \in Spent}
             now == {d \in Calls : fd'[d] \in Spent}
  <1>1. Handle!In(Spent) = was /\ opened = Cardinality(was)
    BY OneCardinality DEF Handle!CounterAccounts, Handle!In, Spent
  <1>2. IsFiniteSet(was) /\ IsFiniteSet(now)
    BY ConnectingAssumption, FS_Subset, OneCardinality DEF Handle!FdAssumption
  <1>3. Cardinality(was) \in Nat /\ Cardinality(now) \in Nat BY <1>2, FS_CardinalityType
  <1>4. opened' = Cardinality(now)
    <2>1. CASE fd[c] \in Spent <=> fd'[c] \in Spent
      <3>1. now = was BY <2>1
      <3> QED BY <1>1, <2>1, <3>1
    <2>2. CASE fd[c] \notin Spent /\ fd'[c] \in Spent
      <3>1. now = was \cup {c} /\ c \notin was BY <2>2
      <3>2. Cardinality(now) = Cardinality(was) + 1 BY <1>2, <3>1, FS_AddElement
      <3> QED BY <1>1, <2>2, <3>2
    <2>3. CASE fd[c] \in Spent /\ fd'[c] \notin Spent
      <3>1. now = was \ {c} /\ c \in was BY <2>3
      <3>2. Cardinality(now) = Cardinality(was) - 1 BY <1>2, <3>1, FS_RemoveElement
      <3> QED BY <1>1, <2>3, <3>2
    <2> QED BY <2>1, <2>2, <2>3
  <1> QED BY <1>3, <1>4, OneCardinality DEF Handle!CounterAccounts, Handle!In, Spent

LEMMA HandleInit == Handle!Init => HandleInv
  <1> SUFFICES ASSUME Handle!Init PROVE HandleInv OBVIOUS
  <1>1. {d \in Calls : fd[d] \in Spent} = {} BY DEF Handle!Init, Spent
  <1>2. Handle!CounterAccounts
    BY <1>1, FS_EmptySet, OneCardinality DEF Handle!Init, Handle!CounterAccounts, Handle!In, Spent
  <1> QED BY <1>2 DEF Handle!Init, HandleInv, Handle!TypeOK, Handle!SomebodyReleases

LEMMA HandleNext ==
    ASSUME HandleInv, Handle!Next
    PROVE  HandleInv'
  <1>1. /\ opened \in Nat /\ pops \in Nat /\ queued \in Seq(Calls) /\ Handle!CounterAccounts
        /\ fd \in [Calls -> {"none", "queued", "asked", "held", "closing", "closed", "failed"}]
    BY DEF HandleInv, Handle!TypeOK
  <1>2. ASSUME NEW c \in Calls, Handle!Open(c) PROVE HandleInv'
    <2>1. /\ fd' = [fd EXCEPT ![c] = "asked"] /\ fd[c] = "none"
          /\ UNCHANGED <<opened, queued, pops>>
      BY <1>2 DEF Handle!Open, Handle!Now
    <2>2. Handle!CounterAccounts' BY <1>1, <2>1, CountStep DEF Spent
    <2> QED BY <1>1, <2>1, <2>2 DEF HandleInv, Handle!TypeOK, Handle!SomebodyReleases, Handle!In
  <1>3. ASSUME NEW c \in Calls, Handle!PutOff(c) PROVE HandleInv'
    <2>1. /\ fd' = [fd EXCEPT ![c] = "queued"] /\ fd[c] = "none" /\ opened >= MaxOpenFds
          /\ queued' = Append(queued, c) /\ UNCHANGED <<opened, pops>>
      BY <1>3 DEF Handle!PutOff, Handle!Now
    <2>2. Handle!CounterAccounts' BY <1>1, <2>1, CountStep DEF Spent
    <2>3. opened' > 0 BY <1>1, <2>1, ConnectingAssumption DEF Handle!FdAssumption
    <2>4. Handle!SomebodyReleases'
      \* At the limit there is a descriptor that was answered, and not refused.
      <3>1. PICK d : d \in {e \in Calls : fd'[e] \in {"held", "closing", "failed"}}
        BY <2>2, <2>3, FS_EmptySet, OneCardinality DEF Handle!CounterAccounts, Handle!In
      <3> QED BY <3>1 DEF Handle!SomebodyReleases, Handle!In
    <2>5. Handle!TypeOK' BY <1>1, <2>1 DEF Handle!TypeOK
    <2> QED BY <2>2, <2>4, <2>5 DEF HandleInv
  <1>4. ASSUME NEW c \in Calls, Handle!Opened(c) PROVE HandleInv'
    <2>1. PICK to \in {"held", "failed"} :
             /\ fd' = [fd EXCEPT ![c] = to] /\ fd[c] = "asked"
             /\ opened' = opened + 1 /\ UNCHANGED <<queued, pops>>
      BY <1>4 DEF Handle!Opened, Handle!Now
    <2>2. Handle!CounterAccounts' BY <1>1, <2>1, CountStep DEF Spent
    <2> QED BY <1>1, <2>1, <2>2 DEF HandleInv, Handle!TypeOK, Handle!SomebodyReleases, Handle!In
  <1>5. ASSUME NEW c \in Calls, Handle!Close(c) PROVE HandleInv'
    <2>1. /\ fd' = [fd EXCEPT ![c] = "closing"] /\ fd[c] = "held"
          /\ UNCHANGED <<opened, queued, pops>>
      BY <1>5 DEF Handle!Close, Handle!Now
    <2>2. Handle!CounterAccounts' BY <1>1, <2>1, CountStep DEF Spent
    <2> QED BY <1>1, <2>1, <2>2 DEF HandleInv, Handle!TypeOK, Handle!SomebodyReleases, Handle!In
  <1>6. ASSUME NEW c \in Calls, Handle!Closed(c) PROVE HandleInv'
    <2>1. /\ fd' = [fd EXCEPT ![c] = "closed"] /\ fd[c] = "closing"
          /\ opened' = opened - 1 /\ pops' = pops + 1 /\ queued' = queued
      BY <1>6 DEF Handle!Closed, Handle!Now
    <2>2. Handle!CounterAccounts' /\ opened' \in Nat BY <1>1, <2>1, CountStep DEF Spent
    <2> QED BY <1>1, <2>1, <2>2 DEF HandleInv, Handle!TypeOK, Handle!SomebodyReleases, Handle!In
  <1>7. CASE Handle!Pop
    <2>1. CASE queued = <<>>
      <3>1. UNCHANGED <<queued, fd, opened>> /\ pops' = pops - 1 /\ pops > 0
        BY <1>7, <2>1 DEF Handle!Pop
      <3>2. Handle!CounterAccounts' BY <1>1, <3>1 DEF Handle!CounterAccounts, Handle!In
      <3> QED BY <1>1, <2>1, <3>1, <3>2 DEF HandleInv, Handle!TypeOK, Handle!SomebodyReleases
    <2>2. CASE queued # <<>>
      <3>1. PICK c \in Calls : c = queued[Len(queued)] BY <1>1, <2>2
      <3>2. /\ fd' = [fd EXCEPT ![c] = "asked"] /\ fd[c] = "queued"
            /\ queued' = SubSeq(queued, 1, Len(queued) - 1)
            /\ opened' = opened /\ pops' = pops - 1 /\ pops > 0
        BY <1>7, <2>2, <3>1 DEF Handle!Pop, Handle!Now
      <3>3. Handle!CounterAccounts' BY <1>1, <3>2, CountStep DEF Spent
      <3>4. queued' \in Seq(Calls) BY <1>1, <2>2, <3>2
      <3>5. Handle!TypeOK' BY <1>1, <3>2, <3>4 DEF Handle!TypeOK
      <3>6. Handle!SomebodyReleases' BY <1>1, <3>2 DEF Handle!SomebodyReleases, Handle!In
      <3> QED BY <3>3, <3>5, <3>6 DEF HandleInv
    <2> QED BY <2>1, <2>2
  <1> QED BY <1>2, <1>3, <1>4, <1>5, <1>6, <1>7 DEF Handle!Next

-------------------------------------------------------------------------------
(* Passwords. *)

\* What a migration that nobody has overtaken knows: the file still holds the password it
\* took, and from the moment it has stored it the secret storage does too.
MigrationKnows(m) ==
  ~ m.edited => inFile = m.password /\ (m.at = "remove" => stored = m.password)

AtMostOne(S) == S = {} \/ \E m \in S : S = {m}

SecretInv ==
  /\ right \in Passwords /\ inFile \in Secret!Maybe /\ inConfig \in Secret!Maybe
  /\ stored \in Secret!Maybe
  /\ attempt \in [Attempts -> Secret!Attempt] /\ offered \subseteq Passwords
  /\ migration \subseteq Secret!Migration /\ AtMostOne(migration)
  /\ accepted \subseteq Passwords /\ unproven \in BOOLEAN /\ lost \in BOOLEAN
  /\ Secret!OfferedHasWorked
  /\ \A m \in migration : MigrationKnows(m)

LEMMA SecretTyped == SecretInv => Secret!TypeOK
  <1> SUFFICES ASSUME SecretInv PROVE Secret!TypeOK OBVIOUS
  <1>1. Cardinality(migration) <= 1
    <2>1. CASE migration = {} BY <2>1, FS_EmptySet
    <2>2. CASE \E m \in migration : migration = {m}
      <3>1. PICK m : migration = {m} BY <2>2
      <3>2. Cardinality({m}) = 1 BY FS_Singleton
      <3> QED BY <3>1, <3>2
    <2> QED BY <2>1, <2>2 DEF SecretInv, AtMostOne
  <1>2. Secret!Cardinality(migration) = Cardinality(migration) BY OneCardinality
  <1> QED BY <1>1, <1>2 DEF SecretInv, Secret!TypeOK

LEMMA SecretInit == Secret!Init => SecretInv
  <1> SUFFICES ASSUME Secret!Init PROVE SecretInv OBVIOUS
  <1>1. /\ right \in Passwords /\ inFile \in Secret!Maybe /\ inConfig \in Secret!Maybe
        /\ stored \in Secret!Maybe /\ offered = {} /\ migration = {} /\ accepted = {}
        /\ unproven = FALSE /\ lost = FALSE
    BY DEF Secret!Init, Secret!Maybe
  <1>2. \A route \in Routes : Secret!Idle(route) \in Secret!Attempt
    BY DEF Secret!Idle, Secret!Attempt, Secret!Maybe
  <1>3. attempt \in [Attempts -> {Secret!Idle(route) : route \in Routes}] BY DEF Secret!Init
  <1>4. attempt \in [Attempts -> Secret!Attempt] BY <1>2, <1>3
  <1> QED BY <1>1, <1>4 DEF SecretInv, AtMostOne, Secret!OfferedHasWorked

(* What overtakes a migration leaves it with nothing to know.                  *)
LEMMA OvertakenKnowNothing ==
    ASSUME migration \subseteq Secret!Migration, AtMostOne(migration),
           migration' = Secret!Overtaken
    PROVE  /\ migration' \subseteq Secret!Migration /\ AtMostOne(migration)'
           /\ \A m \in migration' : m.edited
  <1>1. CASE migration = {} BY <1>1 DEF AtMostOne, Secret!Overtaken
  <1>2. CASE \E m \in migration : migration = {m}
    <2>1. PICK m \in migration : migration = {m} BY <1>2
    <2>2. PICK n : n = [m EXCEPT !.edited = TRUE] OBVIOUS
    <2>3. n \in Secret!Migration /\ n.edited BY <2>1, <2>2 DEF Secret!Migration
    <2>4. migration' = {n} BY <2>1, <2>2 DEF Secret!Overtaken
    <2> QED BY <2>3, <2>4 DEF AtMostOne
  <1> QED BY <1>1, <1>2 DEF AtMostOne

LEMMA AttemptSet ==
    ASSUME attempt \in [Attempts -> Secret!Attempt], NEW a \in Attempts,
           NEW at \in {"idle", "look", "ask", "dial", "failed"},
           NEW password \in Secret!Maybe, NEW typed \in BOOLEAN,
           Secret!Set(a, at, password, typed)
    PROVE  attempt' \in [Attempts -> Secret!Attempt]
  BY ZenonT(60) DEF Secret!Set, Secret!Attempt

LEMMA AttemptSteps ==
    ASSUME SecretInv, NEW a \in Attempts,
           \/ Secret!Connect(a) \/ Secret!Look(a) \/ Secret!GiveUp(a) \/ Secret!Works(a)
           \/ Secret!Refused(a) \/ \E p \in Passwords : Secret!Type(a, p)
    PROVE  SecretInv'
  <1> USE DEF Secret!files, Secret!history
  <1>1. /\ right \in Passwords /\ inFile \in Secret!Maybe /\ inConfig \in Secret!Maybe
        /\ stored \in Secret!Maybe /\ attempt \in [Attempts -> Secret!Attempt]
        /\ Passwords \subseteq Secret!Maybe /\ "none" \in Secret!Maybe
        /\ offered \subseteq Passwords /\ accepted \subseteq Passwords
        /\ unproven \in BOOLEAN /\ Secret!OfferedHasWorked
    BY DEF SecretInv, Secret!Maybe
  <1>2. ASSUME UNCHANGED <<right, inFile, inConfig, stored, migration, lost>>,
               attempt' \in [Attempts -> Secret!Attempt],
               offered' \subseteq Passwords, accepted' \subseteq Passwords,
               unproven' \in BOOLEAN, Secret!OfferedHasWorked'
        PROVE  SecretInv'
    BY <1>2 DEF SecretInv, MigrationKnows, AtMostOne
  <1>3. ASSUME UNCHANGED <<right, inFile, inConfig, stored, offered, migration, accepted,
                           unproven, lost>>,
               attempt' \in [Attempts -> Secret!Attempt]
        PROVE  SecretInv'
    BY <1>1, <1>2, <1>3 DEF Secret!OfferedHasWorked
  <1>4. CASE Secret!Connect(a) BY <1>1, <1>3, <1>4, AttemptSet DEF Secret!Connect
  <1>5. CASE Secret!Look(a) BY <1>1, <1>3, <1>5, AttemptSet DEF Secret!Look
  <1>6. CASE Secret!GiveUp(a) BY <1>1, <1>3, <1>6, AttemptSet DEF Secret!GiveUp
  <1>7. CASE Secret!Refused(a)
    BY <1>1, <1>3, <1>7 DEF Secret!Refused, Secret!Attempt
  <1>8. CASE Secret!Works(a)
    <2>1. attempt' \in [Attempts -> Secret!Attempt]
      BY <1>1, <1>8, AttemptSet DEF Secret!Works
    <2> QED BY <1>1, <1>2, <1>8, <2>1 DEF Secret!Works, Secret!OfferedHasWorked
  <1>9. ASSUME NEW p \in Passwords, Secret!Type(a, p) PROVE SecretInv'
    <2>1. attempt' \in [Attempts -> Secret!Attempt]
      BY <1>1, <1>9, AttemptSet DEF Secret!Type
    <2>2. Secret!OfferedHasWorked'
      BY <1>1, <1>9 DEF Secret!Type, Secret!OfferedAtOnce, Secret!OfferedHasWorked
    <2> QED BY <1>1, <1>2, <1>9, <2>1, <2>2 DEF Secret!Type, Secret!OfferedAtOnce
  <1> QED BY <1>4, <1>5, <1>6, <1>7, <1>8, <1>9

LEMMA CommandSteps ==
    ASSUME SecretInv,
           \/ \E p \in Passwords : Secret!Remember(p) \/ Secret!Ignore(p) \/ Secret!SavePassword(p)
           \/ Secret!ClearPassword \/ Secret!Migrate
           \/ \E m \in migration : Secret!Confirmed(m) \/ Secret!Store(m) \/ Secret!Removed(m)
           \/ \E p \in Secret!Maybe : Secret!Edit(p)
           \/ Secret!Reload
    PROVE  SecretInv'
  <1> USE DEF Secret!files, Secret!history
  <1>1. /\ right \in Passwords /\ inFile \in Secret!Maybe /\ inConfig \in Secret!Maybe
        /\ stored \in Secret!Maybe /\ attempt \in [Attempts -> Secret!Attempt]
        /\ Passwords \subseteq Secret!Maybe /\ "none" \in Secret!Maybe
        /\ offered \subseteq Passwords /\ accepted \subseteq Passwords
        /\ unproven \in BOOLEAN /\ lost \in BOOLEAN /\ Secret!OfferedHasWorked
        /\ migration \subseteq Secret!Migration /\ AtMostOne(migration)
        /\ \A m \in migration : MigrationKnows(m)
    BY DEF SecretInv, Secret!Maybe
  <1>2. ASSUME UNCHANGED <<right, inConfig, attempt, accepted, unproven, lost>>,
               inFile' \in Secret!Maybe, stored' \in Secret!Maybe, offered' \subseteq offered,
               migration' = Secret!Overtaken
        PROVE  SecretInv'
    <2>1. /\ migration' \subseteq Secret!Migration /\ AtMostOne(migration)'
          /\ \A m \in migration' : m.edited
      BY <1>1, <1>2, OvertakenKnowNothing
    <2>2. \A m \in migration' : MigrationKnows(m)' BY <2>1 DEF MigrationKnows
    <2>3. Secret!Maybe' = Secret!Maybe BY DEF Secret!Maybe
    <2>4. Secret!OfferedHasWorked' BY <1>1, <1>2 DEF Secret!OfferedHasWorked
    <2> QED BY <1>1, <1>2, <2>1, <2>2, <2>4 DEF SecretInv
  <1>3. ASSUME NEW p \in Passwords, Secret!Remember(p) PROVE SecretInv'
    BY <1>1, <1>2, <1>3 DEF Secret!Remember
  <1>4. ASSUME NEW p \in Passwords, Secret!Ignore(p) PROVE SecretInv'
    BY <1>1, <1>4 DEF Secret!Ignore, SecretInv, Secret!OfferedHasWorked, MigrationKnows, AtMostOne
  <1>5. ASSUME NEW p \in Passwords, Secret!SavePassword(p) PROVE SecretInv'
    BY <1>1, <1>2, <1>5 DEF Secret!SavePassword
  <1>6. CASE Secret!ClearPassword BY <1>1, <1>2, <1>6 DEF Secret!ClearPassword
  <1>7. CASE Secret!Migrate
    <2>1. PICK m : /\ m = [password |-> inConfig, at |-> "confirm", edited |-> inFile # inConfig]
                   /\ migration' = {m}
      BY <1>7 DEF Secret!Migrate
    <2>2. m \in Secret!Migration
      BY <1>1, <1>7, <2>1 DEF Secret!Migrate, Secret!Migration, Secret!Maybe
    <2>3. UNCHANGED <<right, inFile, inConfig, stored, attempt, offered, accepted, unproven, lost>>
      BY <1>7 DEF Secret!Migrate
    <2>4. MigrationKnows(m)' BY <2>1, <2>3 DEF MigrationKnows
    <2> QED BY <1>1, <2>1, <2>2, <2>3, <2>4 DEF SecretInv, Secret!OfferedHasWorked, AtMostOne
  <1>8. ASSUME NEW m \in migration, Secret!Confirmed(m) PROVE SecretInv'
    <2>1. m \in Secret!Migration /\ MigrationKnows(m) BY <1>1
    <2>2. PICK n : n = [m EXCEPT !.at = "store"] OBVIOUS
    <2>3. n \in Secret!Migration /\ n.at = "store" /\ n.edited = m.edited /\ n.password = m.password
      BY <2>1, <2>2 DEF Secret!Migration
    <2>4. /\ UNCHANGED <<right, inFile, inConfig, stored, attempt, offered, accepted, unproven, lost>>
          /\ migration' \in {{}, {n}}
      BY <1>8, <2>2 DEF Secret!Confirmed
    <2>5. MigrationKnows(n)' BY <2>1, <2>3, <2>4 DEF MigrationKnows
    <2> QED BY <1>1, <2>3, <2>4, <2>5 DEF SecretInv, Secret!OfferedHasWorked, AtMostOne
  <1>9. ASSUME NEW m \in migration, Secret!Store(m) PROVE SecretInv'
    <2>1. m \in Secret!Migration /\ MigrationKnows(m) BY <1>1
    <2>2. PICK n : n = [m EXCEPT !.at = "remove"] OBVIOUS
    <2>3. n \in Secret!Migration /\ n.edited = m.edited /\ n.password = m.password
      BY <2>1, <2>2 DEF Secret!Migration
    <2>4. /\ UNCHANGED <<right, inFile, inConfig, attempt, offered, accepted, unproven, lost>>
          /\ \/ stored' = m.password /\ migration' = {n}
             \/ stored' = stored /\ migration' = {}
      BY <1>9, <2>2 DEF Secret!Store, Secret!StoreFails
    <2>5. stored' = m.password => MigrationKnows(n)' BY <2>1, <2>3, <2>4 DEF MigrationKnows
    <2>6. stored' \in Secret!Maybe BY <1>1, <2>1, <2>4 DEF Secret!Migration
    <2> QED BY <1>1, <2>3, <2>4, <2>5, <2>6 DEF SecretInv, Secret!OfferedHasWorked, AtMostOne
  <1>10. ASSUME NEW m \in migration, Secret!Removed(m) PROVE SecretInv'
    <2>1. /\ UNCHANGED <<right, inConfig, stored, attempt, offered, accepted, unproven>>
          /\ migration' = {} /\ inFile' \in {"none", inFile} /\ lost' \in BOOLEAN
      BY <1>1, <1>10 DEF Secret!Removed
    <2> QED BY <1>1, <2>1 DEF SecretInv, Secret!OfferedHasWorked, AtMostOne
  <1>11. ASSUME NEW p \in Secret!Maybe, Secret!Edit(p) PROVE SecretInv'
    BY <1>1, <1>2, <1>11 DEF Secret!Edit
  <1>12. CASE Secret!Reload
    BY <1>1, <1>12 DEF Secret!Reload, SecretInv, Secret!OfferedHasWorked, MigrationKnows, AtMostOne
  <1> QED BY <1>3, <1>4, <1>5, <1>6, <1>7, <1>8, <1>9, <1>10, <1>11, <1>12

LEMMA SecretNext ==
    ASSUME SecretInv, Secret!Next
    PROVE  SecretInv'
  BY AttemptSteps, CommandSteps DEF Secret!Next

(* The password leaves the file for good only behind the back of a migration.   *)
LEMMA SecretKept ==
    ASSUME SecretInv, Secret!Next, lost' # lost
    PROVE  \E m \in migration : m.edited
  <1> USE DEF Secret!files, Secret!history
  <1>1. PICK m \in migration : Secret!Removed(m)
    BY DEF Secret!Next, Secret!Connect, Secret!Look, Secret!GiveUp, Secret!Works, Secret!Refused,
           Secret!Type, Secret!Remember, Secret!Ignore, Secret!SavePassword, Secret!ClearPassword,
           Secret!Migrate, Secret!Confirmed, Secret!Store, Secret!Edit, Secret!Reload
  <1>2. m.at = "remove" /\ inFile \notin {"none", stored} BY <1>1 DEF Secret!Removed, SecretInv
  <1>3. m.edited
    BY <1>2 DEF SecretInv, MigrationKnows, Secret!Migration
  <1> QED BY <1>3

-------------------------------------------------------------------------------
(* Host keys. *)

\* The line that rememberHostKey appends for host r[1] and key r[2].
OwnLine(r) ==
  [file |-> "managed", marker |-> "none", covers |-> {r[1]}, vetoes |-> {}, key |-> r[2]]

KeyTypes ==
  /\ HostKey!TypeOK
  /\ forget \in [at : {"idle", "confirm", "read", "write"}, host : Hosts,
                 todo : SUBSET HostKey!AllFiles, file : HostKey!AllFiles, kept : SUBSET HostKey!Line]

\* What holds of a host and its key from the look at the files to the end of the connection.
Proven(h, k) ==
  /\ \A l \in store : HostKey!Says(h, l) /\ l.marker = "revoked" => l.key # k
  /\ \/ policy[h] = "no"
     \/ \E l \in store : HostKey!Says(h, l) /\ l.marker = "none" /\ l.key = k
     \/ policy[h] = "ask" /\ \A l \in store : ~ HostKey!Contradicts(h, k, l)

Unseen(h, k) == HostKey!Lookup(store, h, k) = "unknown"

LookHolds(v) ==
  /\ check[v].at = "accepted" => Proven(check[v].host, check[v].key)
  /\ check[v].at = "asking" => policy[check[v].host] = "ask"
  /\ check[v].at \in {"asking", "storing"} => Unseen(check[v].host, check[v].key)

\* What was stored is in the files, and in the lines a rewrite will keep of them.
KeptThrough ==
  "rewrite" \notin raced =>
    /\ \A r \in remembered : OwnLine(r) \in store
    /\ forget.at = "write" /\ forget.file = "managed" =>
         \A r \in remembered : r[1] # forget.host => OwnLine(r) \in forget.kept

KeyInv == KeyTypes /\ (\A v \in fresh : LookHolds(v)) /\ KeptThrough /\ HostKey!OneKeyPerType

CheckRecord == [at : {"idle", "knocking", "asking", "storing", "accepted"}, host : Hosts, key : Keys]

LEMMA Nobody == HostKey!NoCheck \in CheckRecord /\ HostKey!NoCheck.at = "idle"
  BY ConnectingAssumption
     DEF HostKey!HostKeyAssumption, HostKey!NoCheck, HostKey!Idle, CheckRecord

LEMMA NothingForgotten ==
    /\ HostKey!NoForget \in [at : {"idle", "confirm", "read", "write"}, host : Hosts,
                             todo : SUBSET HostKey!AllFiles, file : HostKey!AllFiles,
                             kept : SUBSET HostKey!Line]
    /\ HostKey!NoForget.at = "idle"
  BY ConnectingAssumption
     DEF HostKey!HostKeyAssumption, HostKey!NoForget, HostKey!Idle, HostKey!AllFiles

(* What the verdict says of the lines of the files, and of those of one type.   *)
LEMMA LookupTells ==
    ASSUME NEW h, NEW k, NEW S,
           NEW verdict, verdict = HostKey!Lookup(S, h, k)
    PROVE  /\ verdict \in {"revoked", "match", "changed", "unknown"}
           /\ verdict # "revoked" => \A l \in S : HostKey!Says(h, l) /\ l.marker = "revoked" => l.key # k
           /\ verdict = "match" => \E l \in S : HostKey!Says(h, l) /\ l.marker # "revoked" /\ l.key = k
           /\ verdict = "unknown" =>
                \A l \in S : HostKey!Says(h, l) /\ l.marker # "revoked" => l.key.type # k.type
  <1> DEFINE forHost == {l \in HostKey!LinesFor(S, h) : l.marker # "cert-authority"}
  <1>1. \A l : l \in forHost <=> l \in S /\ HostKey!Says(h, l)
    BY DEF HostKey!LinesFor, HostKey!MatchesHost, HostKey!Says
  <1>2. verdict = (IF \E l \in forHost : l.key = k /\ l.marker = "revoked" THEN "revoked"
                   ELSE IF \E l \in forHost : l.key = k THEN "match"
                   ELSE IF \E l \in forHost : l.key.type = k.type /\ l.marker # "revoked" THEN "changed"
                   ELSE "unknown")
    BY DEF HostKey!Lookup
  <1> HIDE DEF forHost
  <1>3. verdict # "revoked" => ~ \E l \in forHost : l.key = k /\ l.marker = "revoked" BY <1>2
  <1>4. verdict = "match" => \E l \in forHost : l.key = k BY <1>2
  <1>5. verdict = "unknown" => ~ \E l \in forHost : l.key.type = k.type /\ l.marker # "revoked" BY <1>2
  <1>6. verdict \in {"revoked", "match", "changed", "unknown"} BY <1>2
  <1> QED BY <1>1, <1>3, <1>4, <1>5, <1>6

LEMMA KeyInit == HostKey!Init => KeyInv
  <1> SUFFICES ASSUME HostKey!Init PROVE KeyInv OBVIOUS
  <1>1. check \in [Verifiers -> CheckRecord] /\ store \subseteq HostKey!Line /\ offers \in [Hosts -> Keys]
    BY Nobody, ConnectingAssumption DEF HostKey!Init, HostKey!HostKeyAssumption
  <1>2. KeyTypes
    BY <1>1, NothingForgotten, ConnectingAssumption
       DEF HostKey!Init, KeyTypes, HostKey!TypeOK, CheckRecord, HostKey!Idle, HostKey!HostKeyAssumption
  <1> QED BY <1>2, NothingForgotten DEF HostKey!Init, KeyInv, KeptThrough, HostKey!OneKeyPerType

(* A connection moves on, and leaves the files and the others alone.            *)
LEMMA CheckSteps ==
    ASSUME KeyInv, NEW v \in Verifiers, NEW c \in CheckRecord,
           check' = [check EXCEPT ![v] = c], HostKey!Doze, fresh' \subseteq fresh \cup {v},
           v \in fresh' =>
             /\ c.at = "accepted" => Proven(c.host, c.key)
             /\ c.at = "asking" => policy[c.host] = "ask"
             /\ c.at \in {"asking", "storing"} => Unseen(c.host, c.key)
    PROVE  KeyInv'
  <1>1. UNCHANGED <<policy, store, offers, rebuilds, forget, remembered, raced>> BY DEF HostKey!Doze
  <1>2. check \in [Verifiers -> CheckRecord] /\ fresh \subseteq Verifiers
    BY DEF KeyInv, KeyTypes, HostKey!TypeOK, CheckRecord, HostKey!Idle
  <1>3. KeyTypes'
    BY <1>1, <1>2 DEF KeyInv, KeyTypes, HostKey!TypeOK, CheckRecord, HostKey!Idle
  <1>4. ASSUME NEW w \in fresh' PROVE LookHolds(w)'
    <2>1. PICK d \in CheckRecord : d = check'[w] BY <1>2, <1>4
    <2>2. /\ d.at = "accepted" => Proven(d.host, d.key)
          /\ d.at = "asking" => policy[d.host] = "ask"
          /\ d.at \in {"asking", "storing"} => Unseen(d.host, d.key)
      <3>1. CASE w = v BY <1>2, <1>4, <2>1, <3>1
      <3>2. CASE w # v
        <4>1. d = check[w] /\ w \in fresh BY <1>2, <1>4, <2>1, <3>2
        <4> QED BY <4>1 DEF KeyInv, LookHolds
      <3> QED BY <3>1, <3>2
    <2>3. Proven(d.host, d.key) <=> Proven(d.host, d.key)' BY <1>1 DEF Proven
    <2>4. Unseen(d.host, d.key) <=> Unseen(d.host, d.key)' BY <1>1 DEF Unseen
    <2> HIDE DEF Proven, Unseen
    <2> QED BY <1>1, <2>1, <2>2, <2>3, <2>4 DEF LookHolds
  <1>5. KeptThrough' BY <1>1 DEF KeyInv, KeptThrough
  <1>6. HostKey!OneKeyPerType' BY <1>1 DEF KeyInv, HostKey!OneKeyPerType
  <1> QED BY <1>3, <1>4, <1>5, <1>6 DEF KeyInv

LEMMA ConnectionSteps ==
    ASSUME KeyInv, NEW v \in Verifiers,
           \/ HostKey!Connect(v) \/ HostKey!Judge(v) \/ HostKey!Answer(v)
           \/ HostKey!RememberFails(v) \/ HostKey!Over(v)
    PROVE  KeyInv'
  <1>1. /\ check \in [Verifiers -> CheckRecord] /\ fresh \subseteq Verifiers
        /\ store \subseteq HostKey!Line /\ offers \in [Hosts -> Keys] /\ policy \in [Hosts -> Policies]
    BY DEF KeyInv, KeyTypes, HostKey!TypeOK, CheckRecord, HostKey!Idle
  <1>2. CASE HostKey!Connect(v)
    <2>1. PICK h \in Hosts :
             check' = [check EXCEPT ![v] = [HostKey!NoCheck EXCEPT !.at = "knocking", !.host = h]]
      BY <1>2 DEF HostKey!Connect
    <2>2. PICK c : c = [HostKey!NoCheck EXCEPT !.at = "knocking", !.host = h] OBVIOUS
    <2>3. c \in CheckRecord /\ c.at = "knocking" BY <2>2, Nobody DEF CheckRecord
    <2>4. check' = [check EXCEPT ![v] = c] /\ HostKey!Doze /\ fresh' = fresh
      BY <1>2, <2>1, <2>2 DEF HostKey!Connect
    <2> QED BY <1>1, <2>3, <2>4, CheckSteps
  <1>3. CASE HostKey!Judge(v)
    <2>1. PICK b \in CheckRecord : b = check[v] BY <1>1
    <2>2. PICK k \in Keys : k = offers[b.host] BY <1>1, <2>1 DEF CheckRecord
    <2>3. PICK verdict : verdict = HostKey!Lookup(store, b.host, k) OBVIOUS
    <2>4. PICK at : at = IF k.type = "cert" THEN "refused" ELSE HostKey!Verdict(policy[b.host], verdict)
      OBVIOUS
    <2>5. /\ check' = [check EXCEPT ![v] = IF at = "refused" THEN HostKey!NoCheck
                                           ELSE [b EXCEPT !.key = k, !.at = at]]
          /\ fresh' = IF at = "refused" THEN fresh ELSE fresh \cup {v}
          /\ HostKey!Doze
      BY <1>1, <1>3, <2>1, <2>2, <2>3, <2>4 DEF HostKey!Judge, HostKey!Now
    <2>6. CASE at = "refused"
      <3>1. check' = [check EXCEPT ![v] = HostKey!NoCheck] /\ fresh' = fresh /\ HostKey!Doze
        BY <2>5, <2>6
      <3> QED BY <3>1, Nobody, CheckSteps
    <2>7. CASE at # "refused"
      <3>1. PICK c : c = [b EXCEPT !.key = k, !.at = at] OBVIOUS
      <3>2. c.host = b.host /\ c.key = k /\ c.at = at /\ b.host \in Hosts
        BY <2>1, <3>1 DEF CheckRecord
      <3>3. /\ verdict \in {"revoked", "match", "changed", "unknown"}
            /\ verdict # "revoked" =>
                 \A l \in store : HostKey!Says(b.host, l) /\ l.marker = "revoked" => l.key # k
            /\ verdict = "match" =>
                 \E l \in store : HostKey!Says(b.host, l) /\ l.marker # "revoked" /\ l.key = k
        BY <2>3, LookupTells
      <3>4. /\ at = HostKey!Verdict(policy[b.host], verdict)
        BY <2>4, <2>7
      <3>5. \/ verdict = "match" /\ at = "accepted"
            \/ verdict = "changed" /\ policy[b.host] = "no" /\ at = "accepted"
            \/ verdict = "unknown" /\ policy[b.host] = "ask" /\ at = "asking"
            \/ verdict = "unknown" /\ at = "storing"
        BY <2>7, <3>3, <3>4 DEF HostKey!Verdict
      <3>6. c \in CheckRecord BY <2>1, <2>2, <3>1, <3>5 DEF CheckRecord
      <3>7. at = "accepted" => Proven(b.host, k)
        <4>1. \A l \in store : HostKey!Says(b.host, l) /\ l.marker # "revoked" => l.marker = "none"
          BY <1>1 DEF HostKey!Says, HostKey!Line
        <4> QED BY <3>3, <3>5, <4>1 DEF Proven
      <3>8. at \in {"asking", "storing"} => Unseen(b.host, k)
        BY <2>3, <3>5 DEF Unseen
      <3>9. check' = [check EXCEPT ![v] = c] /\ fresh' = fresh \cup {v} /\ HostKey!Doze
        BY <2>5, <2>7, <3>1
      <3>10. /\ c.at = "accepted" => Proven(c.host, c.key)
             /\ c.at = "asking" => policy[c.host] = "ask"
             /\ c.at \in {"asking", "storing"} => Unseen(c.host, c.key)
        BY <3>2, <3>5, <3>7, <3>8
      <3> QED BY <3>6, <3>9, <3>10, CheckSteps
    <2> QED BY <2>6, <2>7
  <1>4. CASE HostKey!Answer(v)
    <2>1. PICK at \in {"storing", "accepted", "refused"} :
             HostKey!Set(v, at) /\ fresh' = HostKey!Looked(v, at)
      BY <1>4 DEF HostKey!Answer
    <2>2. PICK b \in CheckRecord : b = check[v] BY <1>1
    <2>3. b.at = "asking" /\ HostKey!Doze BY <1>4, <2>2 DEF HostKey!Answer
    <2>4. CASE at = "refused"
      <3>1. check' = [check EXCEPT ![v] = HostKey!NoCheck] /\ fresh' = fresh \ {v}
        BY <2>1, <2>4 DEF HostKey!Set, HostKey!Now, HostKey!Looked
      <3> QED BY <2>3, <3>1, Nobody, CheckSteps
    <2>5. CASE at # "refused"
      <3>1. PICK c : c = [b EXCEPT !.key = b.key, !.at = at] OBVIOUS
      <3>2. c \in CheckRecord /\ c.host = b.host /\ c.key = b.key /\ c.at = at
        BY <2>1, <2>2, <2>5, <3>1 DEF CheckRecord
      <3>3. check' = [check EXCEPT ![v] = c] /\ fresh' = fresh
        BY <1>1, <2>1, <2>2, <2>5, <3>1 DEF HostKey!Set, HostKey!Now, HostKey!Looked
      <3>4. v \in fresh => policy[b.host] = "ask" /\ Unseen(b.host, b.key)
        BY <2>2, <2>3 DEF KeyInv, LookHolds
      <3>5. policy[b.host] = "ask" /\ Unseen(b.host, b.key) => Proven(b.host, b.key)
        BY LookupTells DEF Proven, Unseen, HostKey!Contradicts
      <3>6. v \in fresh' => /\ c.at = "accepted" => Proven(c.host, c.key)
                            /\ c.at = "asking" => policy[c.host] = "ask"
                            /\ c.at \in {"asking", "storing"} => Unseen(c.host, c.key)
        BY <3>2, <3>3, <3>4, <3>5
      <3> QED BY <2>3, <3>2, <3>3, <3>6, CheckSteps
    <2> QED BY <2>4, <2>5
  <1>5. CASE HostKey!RememberFails(v)
    <2>1. check' = [check EXCEPT ![v] = HostKey!NoCheck] /\ fresh' = fresh \ {v} /\ HostKey!Doze
      BY <1>5 DEF HostKey!RememberFails, HostKey!Set, HostKey!Now
    <2> QED BY <2>1, Nobody, CheckSteps
  <1>6. CASE HostKey!Over(v)
    <2>1. check' = [check EXCEPT ![v] = HostKey!NoCheck] /\ fresh' = fresh \ {v} /\ HostKey!Doze
      BY <1>6 DEF HostKey!Over
    <2> QED BY <2>1, Nobody, CheckSteps
  <1> QED BY <1>2, <1>3, <1>4, <1>5, <1>6

(* A key is stored on a look that holds, and then it is the first of its type;  *)
(* or on an old one, which the history remembers.                               *)
LEMMA RememberStep ==
    ASSUME KeyInv, NEW v \in Verifiers, HostKey!Remember(v)
    PROVE  KeyInv'
  <1>1. /\ check \in [Verifiers -> CheckRecord] /\ fresh \subseteq Verifiers
        /\ store \subseteq HostKey!Line /\ offers \in [Hosts -> Keys] /\ policy \in [Hosts -> Policies]
        /\ remembered \subseteq Hosts \X Keys
    BY DEF KeyInv, KeyTypes, HostKey!TypeOK, CheckRecord, HostKey!Idle
  <1>2. PICK b \in CheckRecord : b = check[v] BY <1>1
  <1>3. PICK h \in Hosts, k \in Keys : h = b.host /\ k = b.key BY DEF CheckRecord
  <1>4. PICK c : c = [b EXCEPT !.key = b.key, !.at = "accepted"] OBVIOUS
  <1>5. c \in CheckRecord /\ c.at = "accepted" /\ c.host = h /\ c.key = k
    BY <1>3, <1>4 DEF CheckRecord
  <1>6. PICK line : line = OwnLine(<<h, k>>) OBVIOUS
  <1>7. /\ line = [file |-> "managed", marker |-> "none", covers |-> {h}, vetoes |-> {}, key |-> k]
        /\ line \in HostKey!Line /\ HostKey!Says(h, line) /\ line.marker = "none" /\ line.key = k
    BY <1>6 DEF OwnLine, HostKey!Line, HostKey!AllFiles, HostKey!Says
  <1>8. /\ store' = store \cup {line}
        /\ remembered' = remembered \cup {<<h, k>>}
        /\ raced' = raced \cup (IF v \in fresh THEN {} ELSE {"look"})
                          \cup (IF forget.at = "write" /\ forget.file = "managed" THEN {"rewrite"} ELSE {})
        /\ fresh' = fresh \cap {v}
        /\ check' = [check EXCEPT ![v] = c]
        /\ UNCHANGED <<policy, offers, rebuilds, forget>>
        /\ b.at = "storing"
    BY <1>1, <1>2, <1>3, <1>4, <1>7 DEF HostKey!Remember, HostKey!Set, HostKey!Now
  <1>9. KeyTypes'
    <2>1. check' \in [Verifiers -> CheckRecord] BY <1>1, <1>5, <1>8
    <2>2. remembered' \subseteq Hosts \X Keys BY <1>1, <1>8
    <2>3. store' \subseteq HostKey!Line BY <1>1, <1>7, <1>8
    <2>4. fresh' \subseteq Verifiers /\ raced' \subseteq {"look", "rewrite"}
      BY <1>1, <1>8 DEF KeyInv, KeyTypes, HostKey!TypeOK
    <2>5. UNCHANGED <<policy, offers, rebuilds, forget>> BY <1>8
    <2> QED BY <2>1, <2>2, <2>3, <2>4, <2>5
            DEF KeyInv, KeyTypes, HostKey!TypeOK, CheckRecord, HostKey!Idle
  <1>10. v \in fresh => Unseen(h, k) BY <1>2, <1>3, <1>8 DEF KeyInv, LookHolds
  <1>11. v \in fresh =>
           /\ \A l \in store : HostKey!Says(h, l) /\ l.marker = "revoked" => l.key # k
           /\ \A l \in store : HostKey!Says(h, l) /\ l.marker # "revoked" => l.key.type # k.type
    BY <1>10, LookupTells DEF Unseen
  <1>12. ASSUME NEW w \in fresh' PROVE LookHolds(w)'
    <2>1. w = v /\ v \in fresh BY <1>8, <1>12
    <2>2. check'[w] = c BY <1>1, <1>8, <2>1
    <2>3. Proven(h, k)' BY <1>7, <1>8, <1>11, <2>1 DEF Proven
    <2> HIDE DEF Proven
    <2> QED BY <1>5, <2>2, <2>3 DEF LookHolds
  <1>13. KeptThrough'
    <2>1. SUFFICES ASSUME "rewrite" \notin raced' PROVE KeptThrough' BY DEF KeptThrough
    <2>2. "rewrite" \notin raced /\ ~ (forget.at = "write" /\ forget.file = "managed") BY <1>8, <2>1
    <2>3. \A r \in remembered' : OwnLine(r) \in store' BY <1>6, <1>8, <2>2 DEF KeyInv, KeptThrough
    <2> QED BY <1>8, <2>2, <2>3 DEF KeptThrough
  <1>14. HostKey!OneKeyPerType'
    <2> SUFFICES ASSUME raced' = {}, NEW r \in remembered', NEW s \in remembered',
                        r[1] = s[1], r[2].type = s[2].type
                 PROVE  r = s
      BY DEF HostKey!OneKeyPerType
    <2>1. raced = {} /\ v \in fresh BY <1>8
    <2>2. ASSUME NEW q \in remembered, q[1] = h PROVE q[2].type # k.type
      <3>1. OwnLine(q) \in store BY <2>1 DEF KeyInv, KeptThrough
      <3>2. HostKey!Says(h, OwnLine(q)) /\ OwnLine(q).marker # "revoked" /\ OwnLine(q).key = q[2]
        BY <2>2 DEF OwnLine, HostKey!Says
      <3> QED BY <1>11, <2>1, <3>1, <3>2
    <2>3. CASE r \in remembered /\ s \in remembered
      BY <2>1, <2>3 DEF KeyInv, HostKey!OneKeyPerType
    <2>4. CASE r = <<h, k>> /\ s = <<h, k>> BY <2>4
    <2>5. CASE r \in remembered /\ s = <<h, k>> BY <2>2, <2>5
    <2>6. CASE s \in remembered /\ r = <<h, k>> BY <2>2, <2>6
    <2> QED BY <1>8, <2>3, <2>4, <2>5, <2>6
  <1> QED BY <1>9, <1>12, <1>13, <1>14 DEF KeyInv

ForgetRecord == [at : {"idle", "confirm", "read", "write"}, host : Hosts,
                 todo : SUBSET HostKey!AllFiles, file : HostKey!AllFiles, kept : SUBSET HostKey!Line]

(* The command moves on; what it keeps, if it is about to write the extension's own file,  *)
(* holds what was stored for the other hosts.                                              *)
LEMMA ForgetMoves ==
    ASSUME KeyInv, NEW f \in ForgetRecord, forget' = f,
           UNCHANGED <<policy, store, offers, check, fresh, remembered, raced>>,
           rebuilds' \in 0..MaxRebuilds,
           "rewrite" \notin raced /\ f.at = "write" /\ f.file = "managed" =>
             \A r \in remembered : r[1] # f.host => OwnLine(r) \in f.kept
    PROVE  KeyInv'
  <1>1. KeyTypes'
    BY DEF KeyInv, KeyTypes, HostKey!TypeOK, ForgetRecord, HostKey!Idle
  <1>2. \A w \in fresh' : LookHolds(w)' BY DEF KeyInv, LookHolds, Proven, Unseen
  <1>3. KeptThrough' BY DEF KeyInv, KeptThrough
  <1>4. HostKey!OneKeyPerType' BY DEF KeyInv, HostKey!OneKeyPerType
  <1> QED BY <1>1, <1>2, <1>3, <1>4 DEF KeyInv

LEMMA FileDone ==
    ASSUME KeyInv, NEW f \in HostKey!AllFiles, HostKey!NextFile(f)
    PROVE  forget' \in ForgetRecord /\ forget'.at # "write"
  <1>1. PICK g \in ForgetRecord : g = forget BY DEF KeyInv, KeyTypes, ForgetRecord
  <1>2. CASE g.todo = {f} BY <1>1, <1>2, NothingForgotten DEF HostKey!NextFile, ForgetRecord
  <1>3. CASE g.todo # {f}
    <2>1. PICK n : n = [g EXCEPT !.at = "read", !.todo = @ \ {f}, !.kept = {}] OBVIOUS
    <2>2. n \in ForgetRecord /\ n.at = "read" BY <1>1, <2>1 DEF ForgetRecord
    <2> QED BY <1>1, <1>3, <2>1, <2>2 DEF HostKey!NextFile
  <1> QED BY <1>2, <1>3

LEMMA ForgetSteps ==
    ASSUME KeyInv,
           \/ \E h \in Hosts : HostKey!ForgetCommand(h)
           \/ HostKey!Confirm
           \/ \E f \in HostKey!AllFiles : HostKey!ReadFile(f)
           \/ HostKey!WriteFails
    PROVE  KeyInv'
  <1>1. PICK g \in ForgetRecord : g = forget BY DEF KeyInv, KeyTypes, ForgetRecord
  <1>2. /\ store \subseteq HostKey!Line /\ rebuilds \in 0..MaxRebuilds
        /\ remembered \subseteq Hosts \X Keys
    BY DEF KeyInv, KeyTypes, HostKey!TypeOK
  <1>3. ASSUME NEW h \in Hosts, HostKey!ForgetCommand(h) PROVE KeyInv'
    <2>1. PICK sources : sources = HostKey!FilesOf(HostKey!LinesFor(store, h)) OBVIOUS
    <2>2. PICK at \in {"read", "confirm"} : at = IF sources \subseteq {"managed"} THEN "read" ELSE "confirm"
      OBVIOUS
    <2>3. PICK f : f = [HostKey!NoForget EXCEPT !.at = at, !.host = h, !.todo = sources] OBVIOUS
    <2>4. sources \subseteq HostKey!AllFiles
      BY <1>2, <2>1 DEF HostKey!FilesOf, HostKey!LinesFor, HostKey!Line
    <2>5. f \in ForgetRecord /\ f.at # "write" BY <2>2, <2>3, <2>4, NothingForgotten DEF ForgetRecord
    <2>6. /\ forget' = f
          /\ UNCHANGED <<policy, store, offers, rebuilds, check, fresh, remembered, raced>>
      BY <1>3, <2>1, <2>2, <2>3 DEF HostKey!ForgetCommand
    <2> QED BY <1>2, <2>5, <2>6, ForgetMoves
  <1>4. CASE HostKey!Confirm
    <2>1. PICK f : f = [g EXCEPT !.at = "read"] OBVIOUS
    <2>2. f \in ForgetRecord /\ f.at # "write" BY <2>1 DEF ForgetRecord
    <2>3. HostKey!NoForget \in ForgetRecord /\ HostKey!NoForget.at # "write"
      BY NothingForgotten DEF ForgetRecord
    <2>4. /\ forget' = f \/ forget' = HostKey!NoForget
          /\ UNCHANGED <<policy, store, offers, rebuilds, check, fresh, remembered, raced>>
      BY <1>1, <1>4, <2>1 DEF HostKey!Confirm
    <2> QED BY <1>2, <2>2, <2>3, <2>4, ForgetMoves
  <1>5. ASSUME NEW f \in HostKey!AllFiles, HostKey!ReadFile(f) PROVE KeyInv'
    <2>1. UNCHANGED <<policy, store, offers, rebuilds, check, fresh, remembered, raced>>
      BY <1>5 DEF HostKey!ReadFile
    <2>2. CASE HostKey!NextFile(f)
      <3>1. PICK n \in ForgetRecord : n = forget' /\ n.at # "write" BY <2>2, FileDone
      <3> QED BY <1>2, <2>1, <3>1, ForgetMoves
    <2>3. CASE forget' = [forget EXCEPT !.at = "write", !.file = f, !.kept = HostKey!Kept(f)]
      <3>1. PICK kept : kept = HostKey!Kept(f) OBVIOUS
      <3>2. kept = {l \in store : l.file = f /\ ~ HostKey!MatchesHost(l, g.host)}
        BY <1>1, <3>1 DEF HostKey!Kept
      <3>3. PICK n : n = [g EXCEPT !.at = "write", !.file = f, !.kept = kept] OBVIOUS
      <3>4. n \in ForgetRecord /\ n.file = f /\ n.kept = kept /\ n.host = g.host
        BY <1>2, <3>2, <3>3 DEF ForgetRecord
      <3>5. forget' = n BY <1>1, <2>3, <3>1, <3>3
      <3>6. ASSUME "rewrite" \notin raced, f = "managed", NEW r \in remembered, r[1] # g.host
            PROVE  OwnLine(r) \in kept
        <4>1. OwnLine(r) \in store BY <3>6 DEF KeyInv, KeptThrough
        <4>2. OwnLine(r).file = f /\ ~ HostKey!MatchesHost(OwnLine(r), g.host)
          BY <3>6 DEF OwnLine, HostKey!MatchesHost
        <4> QED BY <3>2, <4>1, <4>2
      <3>7. "rewrite" \notin raced /\ n.at = "write" /\ n.file = "managed" =>
              \A r \in remembered : r[1] # n.host => OwnLine(r) \in n.kept
        BY <3>4, <3>6
      <3> QED BY <1>2, <2>1, <3>4, <3>5, <3>7, ForgetMoves
    <2> QED BY <1>5, <2>2, <2>3 DEF HostKey!ReadFile
  <1>6. CASE HostKey!WriteFails
    <2>1. HostKey!NextFile(forget.file) /\ forget.file \in HostKey!AllFiles
          /\ UNCHANGED <<policy, store, offers, rebuilds, check, fresh, remembered, raced>>
      BY <1>1, <1>6 DEF HostKey!WriteFails, ForgetRecord
    <2>2. PICK n \in ForgetRecord : n = forget' /\ n.at # "write" BY <2>1, FileDone
    <2> QED BY <1>2, <2>1, <2>2, ForgetMoves
  <1> QED BY <1>3, <1>4, <1>5, <1>6

(* A file is written back: what the extension stored for the other hosts is among *)
(* the lines it keeps.                                                            *)
LEMMA WriteStep ==
    ASSUME KeyInv, HostKey!WriteFile
    PROVE  KeyInv'
  <1>1. PICK g \in ForgetRecord : g = forget BY DEF KeyInv, KeyTypes, ForgetRecord
  <1>2. g.file \in HostKey!AllFiles /\ g.kept \subseteq HostKey!Line BY DEF ForgetRecord
  <1>3. /\ store \subseteq HostKey!Line /\ remembered \subseteq Hosts \X Keys
    BY DEF KeyInv, KeyTypes, HostKey!TypeOK
  <1>4. /\ g.at = "write"
        /\ store' = {l \in store : l.file # g.file} \cup g.kept
        /\ remembered' = IF g.file = "managed" THEN {r \in remembered : r[1] # g.host} ELSE remembered
        /\ HostKey!NextFile(g.file)
        /\ fresh' = {}
        /\ UNCHANGED <<policy, offers, rebuilds, check, raced>>
    BY <1>1 DEF HostKey!WriteFile
  <1>5. PICK n \in ForgetRecord : n = forget' /\ n.at # "write" BY <1>2, <1>4, FileDone
  <1>6. KeyTypes'
    <2>1. store' \subseteq HostKey!Line /\ remembered' \subseteq Hosts \X Keys BY <1>2, <1>3, <1>4
    <2>2. forget' \in ForgetRecord /\ fresh' = {} /\ UNCHANGED <<policy, offers, rebuilds, check, raced>>
      BY <1>4, <1>5
    <2> QED BY <2>1, <2>2 DEF KeyInv, KeyTypes, HostKey!TypeOK, ForgetRecord, HostKey!Idle
  <1>7. KeptThrough'
    <2> SUFFICES ASSUME "rewrite" \notin raced, NEW r \in remembered' PROVE OwnLine(r) \in store'
      BY <1>4, <1>5 DEF KeptThrough
    <2>1. r \in remembered /\ OwnLine(r) \in store /\ OwnLine(r).file = "managed"
      BY <1>4 DEF KeyInv, KeptThrough, OwnLine
    <2>2. CASE g.file = "managed"
      <3>1. r[1] # g.host BY <1>4, <2>2
      <3>2. OwnLine(r) \in g.kept BY <1>1, <1>4, <2>1, <2>2, <3>1 DEF KeyInv, KeptThrough
      <3> QED BY <1>4, <3>2
    <2>3. CASE g.file # "managed" BY <1>4, <2>1, <2>3
    <2> QED BY <2>2, <2>3
  <1>8. HostKey!OneKeyPerType' BY <1>4 DEF KeyInv, HostKey!OneKeyPerType
  <1> QED BY <1>4, <1>6, <1>7, <1>8 DEF KeyInv

LEMMA KeyNext ==
    ASSUME KeyInv, HostKey!Next
    PROVE  KeyInv'
  <1>1. ASSUME NEW h \in Hosts, HostKey!Rebuild(h) PROVE KeyInv'
    <2>1. PICK k \in Keys : offers' = [offers EXCEPT ![h] = k] BY <1>1 DEF HostKey!Rebuild
    <2>2. /\ offers' \in [Hosts -> Keys] /\ rebuilds' \in 0..MaxRebuilds
      BY <1>1, <2>1, ConnectingAssumption
         DEF HostKey!Rebuild, KeyInv, KeyTypes, HostKey!TypeOK, HostKey!HostKeyAssumption
    <2>3. UNCHANGED <<policy, store, check, forget, fresh, remembered, raced>> BY <1>1 DEF HostKey!Rebuild
    <2>4. KeyTypes' BY <2>2, <2>3 DEF KeyInv, KeyTypes, HostKey!TypeOK
    <2>5. \A w \in fresh' : LookHolds(w)' BY <2>3 DEF KeyInv, LookHolds, Proven, Unseen
    <2> QED BY <2>3, <2>4, <2>5 DEF KeyInv, KeptThrough, HostKey!OneKeyPerType
  <1> QED BY <1>1, ConnectionSteps, RememberStep, ForgetSteps, WriteStep DEF HostKey!Next

(* What the invariant is for.                                                    *)
LEMMA KeysSound == KeyInv => HostKey!Vouched /\ HostKey!OneKeyPerType /\ HostKey!StoredKeysStay
  <1> SUFFICES ASSUME KeyInv PROVE HostKey!Vouched /\ HostKey!StoredKeysStay BY DEF KeyInv
  <1>1. HostKey!Vouched BY DEF KeyInv, LookHolds, Proven, HostKey!Vouched
  <1>2. ASSUME "rewrite" \notin raced, NEW r \in remembered
        PROVE  \E l \in store : l.file = "managed" /\ l.covers = {r[1]} /\ l.key = r[2]
    BY <1>2 DEF KeyInv, KeptThrough, OwnLine
  <1> QED BY <1>1, <1>2 DEF HostKey!StoredKeysStay

-------------------------------------------------------------------------------
(* The wizard. *)

SideKeys == {"host", "port", "username", "authMethod", "agent", "agentManual", "privateKeyPath",
             "passphrase", "passphraseValue"}
GeneralKeys == {"protocol", "remotePath", "uploadOnSave", "advancedGate", "ignore", "syncOption",
                "transferMode", "concurrency", "strictHostKeyChecking", "hopGate", "name", "review"}
Questions == {Setup!General(key) : key \in GeneralKeys}
             \cup {Setup!Question(whose, key) : whose \in Setup!Sides, key \in SideKeys}

LEMMA ToSetIsRange ==
    ASSUME NEW S, NEW s \in Seq(S)
    PROVE  /\ Setup!ToSet(s) = {s[i] : i \in 1..Len(s)}
           /\ Setup!ToSet(s) \subseteq S
  BY DEF Setup!ToSet

LEMMA ToSetConcat ==
    ASSUME NEW S, NEW s \in Seq(S), NEW t \in Seq(S)
    PROVE  s \o t \in Seq(S) /\ Setup!ToSet(s \o t) = Setup!ToSet(s) \cup Setup!ToSet(t)
  <1>1. s \o t \in Seq(S) OBVIOUS
  <1>0. /\ Setup!ToSet(s) = {s[i] : i \in 1..Len(s)} /\ Setup!ToSet(t) = {t[i] : i \in 1..Len(t)}
        /\ Setup!ToSet(s \o t) = {(s \o t)[i] : i \in 1..Len(s \o t)}
    BY <1>1, ToSetIsRange
  <1>2. Setup!ToSet(s \o t) \subseteq Setup!ToSet(s) \cup Setup!ToSet(t)
    <2> SUFFICES ASSUME NEW i \in 1..Len(s \o t)
                 PROVE  (s \o t)[i] \in Setup!ToSet(s) \cup Setup!ToSet(t)
      BY <1>0
    <2>1. CASE i <= Len(s) BY <1>0, <2>1
    <2>2. CASE i > Len(s)
      <3>1. i - Len(s) \in 1..Len(t) /\ (s \o t)[i] = t[i - Len(s)] BY <2>2
      <3> QED BY <1>0, <3>1
    <2> QED BY <2>1, <2>2
  <1>3. ASSUME NEW x \in Setup!ToSet(s) PROVE x \in Setup!ToSet(s \o t)
    <2>1. PICK i \in 1..Len(s) : x = s[i] BY <1>0
    <2>2. i \in 1..Len(s \o t) /\ (s \o t)[i] = x BY <2>1
    <2> QED BY <1>0, <2>2
  <1>4. ASSUME NEW x \in Setup!ToSet(t) PROVE x \in Setup!ToSet(s \o t)
    <2>1. PICK i \in 1..Len(t) : x = t[i] BY <1>0
    <2>2. Len(s) + i \in 1..Len(s \o t) /\ (s \o t)[Len(s) + i] = x BY <2>1
    <2> QED BY <1>0, <2>2
  <1> QED BY <1>1, <1>2, <1>3, <1>4

(* The plan as a set, for answers p.                                              *)
HostQuestions(whose) ==
  {Setup!Question(whose, "host"), Setup!Question(whose, "port"), Setup!Question(whose, "username")}
AuthQuestions(p, whose) ==
  {Setup!Question(whose, "authMethod")}
  \cup (IF p[whose].method = "key"
        THEN {Setup!Question(whose, "privateKeyPath"), Setup!Question(whose, "passphrase")} ELSE {})
  \cup (IF p[whose].method = "agent" THEN {Setup!Question(whose, "agent")} ELSE {})
HopQuestions(p) == HostQuestions("hop") \cup AuthQuestions(p, "hop")
SshQuestions(p) ==
  {Setup!General("strictHostKeyChecking"), Setup!General("hopGate")}
  \cup (IF p.hopEnabled THEN HopQuestions(p) ELSE {})
AdvancedQuestions(p) ==
  {Setup!General("ignore"), Setup!General("syncOption"), Setup!General("transferMode")}
  \cup (IF p.mode = "stream" THEN {Setup!General("concurrency")} ELSE {})
  \cup (IF p.protocol = "sftp" THEN SshQuestions(p) ELSE {})
PlanSet(p, profile) ==
  {Setup!General("protocol")} \cup HostQuestions("server")
  \cup (IF p.protocol = "sftp" THEN AuthQuestions(p, "server") ELSE {})
  \cup {Setup!General("remotePath"), Setup!General("uploadOnSave"), Setup!General("advancedGate")}
  \cup (IF p.advanced THEN AdvancedQuestions(p) ELSE {})
  \cup (IF profile THEN {} ELSE {Setup!General("name")})

\* Where a question stands in the chain. The two ways into an agent stand in one place.
SideAt == [host |-> 1, port |-> 2, username |-> 3, authMethod |-> 4, agent |-> 5, agentManual |-> 5,
           privateKeyPath |-> 6, passphrase |-> 7, passphraseValue |-> 8]
GeneralAt == [protocol |-> 0, remotePath |-> 10, uploadOnSave |-> 11, advancedGate |-> 12, ignore |-> 13,
              syncOption |-> 14, transferMode |-> 15, concurrency |-> 16, strictHostKeyChecking |-> 17,
              hopGate |-> 18, name |-> 30, review |-> 31]
Position(q) ==
  IF q[1] = "general" THEN GeneralAt[q[2]]
  ELSE IF q[1] = "server" THEN SideAt[q[2]] ELSE 20 + SideAt[q[2]]

\* What is answered before q is asked, as far as the plan has it: what stands before it, and,
\* before the agent is, the key that the plan has in its place.
Needs(q) ==
  {x \in Questions : Position(x) < Position(q)}
  \cup (IF q[2] \in {"agent", "agentManual"}
        THEN {Setup!Question(q[1], "privateKeyPath"), Setup!Question(q[1], "passphrase")} ELSE {})
NeedsMet(q) == PlanSet(picked, isProfile) \cap Needs(q) \subseteq given

Concurrency == Setup!General("concurrency")

WizardTypes ==
  /\ isProfile \in BOOLEAN /\ picked \in Setup!Picks /\ jumps \in Nat /\ backed \in BOOLEAN
  /\ phase \in {"asking", "done", "unstored", "cancelled", "failed"} /\ secrets \subseteq Setup!Sides
  /\ steps \in Seq(Questions) /\ steps # <<>> /\ given \subseteq Questions

\* As long as nothing was jumped to, the steps follow the chain.
ChainHolds ==
  jumps = 0 =>
    /\ \A i, j \in 1..Len(steps) : i <= j => Needs(steps[i]) \subseteq Needs(steps[j])
    /\ \A i \in 1..Len(steps) : steps[i] = Concurrency => picked.mode = "stream"

\* Who does not go back behind a jump has answered what stands before the question on screen.
AnswersHold ==
  ~ backed =>
    /\ NeedsMet(steps[Len(steps)])
    /\ steps[Len(steps)] = Concurrency \/ Concurrency \in given => picked.mode = "stream"

SecretsAsked ==
  \A whose \in Setup!Sides :
    picked[whose].passphrase \in {"prompt", "enter"} => Setup!Question(whose, "passphrase") \in given

WrittenHolds ==
  Setup!Wrote => /\ steps[Len(steps)] = Setup!Review /\ ~ Setup!NoKeyPath
                 /\ written = Setup!BuildConfig

WizardInv == WizardTypes /\ ChainHolds /\ AnswersHold /\ SecretsAsked /\ WrittenHolds

LEMMA WhenSet ==
    ASSUME NEW c, NEW p \in Seq(Questions)
    PROVE  /\ Setup!When(c, p) \in Seq(Questions)
           /\ Setup!ToSet(Setup!When(c, p)) = IF c THEN Setup!ToSet(p) ELSE {}
  BY DEF Setup!When, Setup!ToSet

(* computeStepPlan puts the questions in a sequence: which they are.              *)
LEMMA PlanAsSet ==
    Setup!Planned = PlanSet(picked, isProfile)
  <1> DEFINE S == Seq(Questions)
             hopPlan == Setup!HostPlan("hop") \o Setup!SideAuth("hop")
             sshPlan == Setup!Generals(<<"strictHostKeyChecking", "hopGate">>)
                        \o Setup!When(picked.hopEnabled, hopPlan)
             advancedPlan == Setup!Generals(<<"ignore", "syncOption", "transferMode">>)
                             \o Setup!When(picked.mode = "stream", <<Setup!General("concurrency")>>)
                             \o Setup!When(Setup!Sftp, sshPlan)
             first == <<Setup!General("protocol")>>
             gates == Setup!Generals(<<"remotePath", "uploadOnSave", "advancedGate">>)
  <1>1. ASSUME NEW whose \in {"server", "hop"}
        PROVE  /\ Setup!HostPlan(whose) \in S /\ Setup!ToSet(Setup!HostPlan(whose)) = HostQuestions(whose)
               /\ Setup!SideAuth(whose) \in S /\ Setup!ToSet(Setup!SideAuth(whose)) = AuthQuestions(picked, whose)
    <2>1. Setup!HostPlan(whose) = <<<<whose, "host">>, <<whose, "port">>, <<whose, "username">>>>
      BY DEF Setup!HostPlan, Setup!Question
    <2>2. Setup!HostPlan(whose) \in S BY <2>1 DEF Questions, SideKeys, Setup!Question, Setup!Sides
    <2>3. Setup!ToSet(Setup!HostPlan(whose)) = HostQuestions(whose)
      BY <2>1 DEF Setup!ToSet, HostQuestions, Setup!Question
    <2>4. \/ /\ picked[whose].method = "key"
             /\ Setup!AuthPlan(whose) = <<<<whose, "privateKeyPath">>, <<whose, "passphrase">>>>
          \/ picked[whose].method = "agent" /\ Setup!AuthPlan(whose) = <<<<whose, "agent">>>>
          \/ picked[whose].method \notin {"key", "agent"} /\ Setup!AuthPlan(whose) = <<>>
      BY DEF Setup!AuthPlan, Setup!Question
    <2>5. /\ Setup!AuthPlan(whose) \in S
          /\ {<<whose, "authMethod">>} \cup Setup!ToSet(Setup!AuthPlan(whose)) = AuthQuestions(picked, whose)
      <3>1. CASE picked[whose].method = "key"
        <4>1. Setup!AuthPlan(whose) = <<<<whose, "privateKeyPath">>, <<whose, "passphrase">>>> BY <2>4, <3>1
        <4>2. Setup!AuthPlan(whose) \in S BY <4>1 DEF Questions, SideKeys, Setup!Question, Setup!Sides
        <4>3. Setup!ToSet(Setup!AuthPlan(whose)) = {<<whose, "privateKeyPath">>, <<whose, "passphrase">>}
          BY <4>1 DEF Setup!ToSet
        <4> QED BY <3>1, <4>2, <4>3 DEF AuthQuestions, Setup!Question
      <3>2. CASE picked[whose].method = "agent"
        <4>1. Setup!AuthPlan(whose) = <<<<whose, "agent">>>> BY <2>4, <3>2
        <4>2. Setup!AuthPlan(whose) \in S BY <4>1 DEF Questions, SideKeys, Setup!Question, Setup!Sides
        <4>3. Setup!ToSet(Setup!AuthPlan(whose)) = {<<whose, "agent">>} BY <4>1 DEF Setup!ToSet
        <4> QED BY <3>2, <4>2, <4>3 DEF AuthQuestions, Setup!Question
      <3>3. CASE picked[whose].method \notin {"key", "agent"}
        <4>1. Setup!AuthPlan(whose) = <<>> BY <2>4, <3>3
        <4>2. Setup!AuthPlan(whose) \in S BY <4>1
        <4>3. Setup!ToSet(Setup!AuthPlan(whose)) = {} BY <4>1 DEF Setup!ToSet
        <4> QED BY <3>3, <4>2, <4>3 DEF AuthQuestions, Setup!Question
      <3> QED BY <3>1, <3>2, <3>3
    <2>6. <<<<whose, "authMethod">>>> \in S /\ Setup!ToSet(<<<<whose, "authMethod">>>>) = {<<whose, "authMethod">>}
      BY DEF Setup!ToSet, Questions, SideKeys, Setup!Question, Setup!Sides
    <2>7. /\ Setup!SideAuth(whose) \in S
          /\ Setup!ToSet(Setup!SideAuth(whose))
               = Setup!ToSet(<<<<whose, "authMethod">>>>) \cup Setup!ToSet(Setup!AuthPlan(whose))
      BY <2>5, <2>6, ToSetConcat, ZenonT(60) DEF Setup!SideAuth, Setup!Question
    <2> QED BY <2>2, <2>3, <2>5, <2>6, <2>7
  <1>2. /\ Setup!Generals(<<"strictHostKeyChecking", "hopGate">>) \in S
        /\ Setup!ToSet(Setup!Generals(<<"strictHostKeyChecking", "hopGate">>))
             = {Setup!General("strictHostKeyChecking"), Setup!General("hopGate")}
    BY DEF Setup!Generals, Setup!ToSet, Questions, GeneralKeys
  <1>3. /\ Setup!Generals(<<"ignore", "syncOption", "transferMode">>) \in S
        /\ Setup!ToSet(Setup!Generals(<<"ignore", "syncOption", "transferMode">>))
             = {Setup!General("ignore"), Setup!General("syncOption"), Setup!General("transferMode")}
    BY DEF Setup!Generals, Setup!ToSet, Questions, GeneralKeys
  <1>4. /\ gates \in S
        /\ Setup!ToSet(gates)
             = {Setup!General("remotePath"), Setup!General("uploadOnSave"), Setup!General("advancedGate")}
    BY DEF Setup!Generals, Setup!ToSet, Questions, GeneralKeys
  <1>5. ASSUME NEW key \in GeneralKeys
        PROVE  /\ <<Setup!General(key)>> \in S
               /\ Setup!ToSet(<<Setup!General(key)>>) = {Setup!General(key)}
    BY DEF Setup!ToSet, Questions
  <1>6. hopPlan \in S /\ Setup!ToSet(hopPlan) = HopQuestions(picked)
    BY <1>1, ToSetConcat DEF HopQuestions
  <1>7. sshPlan \in S /\ Setup!ToSet(sshPlan) = SshQuestions(picked)
    <2> HIDE DEF hopPlan
    <2>1. /\ Setup!When(picked.hopEnabled, hopPlan) \in S
          /\ Setup!ToSet(Setup!When(picked.hopEnabled, hopPlan))
               = IF picked.hopEnabled THEN HopQuestions(picked) ELSE {}
      BY <1>6, WhenSet
    <2> QED BY <1>2, <2>1, ToSetConcat DEF SshQuestions
  <1>8. advancedPlan \in S /\ Setup!ToSet(advancedPlan) = AdvancedQuestions(picked)
    <2> HIDE DEF sshPlan
    <2>1. /\ Setup!When(Setup!Sftp, sshPlan) \in S
          /\ Setup!ToSet(Setup!When(Setup!Sftp, sshPlan)) = IF Setup!Sftp THEN SshQuestions(picked) ELSE {}
      BY <1>7, WhenSet
    <2>2. /\ Setup!When(picked.mode = "stream", <<Setup!General("concurrency")>>) \in S
          /\ Setup!ToSet(Setup!When(picked.mode = "stream", <<Setup!General("concurrency")>>))
               = IF picked.mode = "stream" THEN {Setup!General("concurrency")} ELSE {}
      BY <1>5, WhenSet DEF GeneralKeys
    <2> DEFINE basics == Setup!Generals(<<"ignore", "syncOption", "transferMode">>)
               parallel == Setup!When(picked.mode = "stream", <<Setup!General("concurrency")>>)
               rest == Setup!When(Setup!Sftp, sshPlan)
    <2> HIDE DEF basics, parallel, rest
    <2>3. basics \in S /\ parallel \in S /\ rest \in S
      BY <1>3, <2>1, <2>2 DEF basics, parallel, rest
    <2>4. /\ (basics \o parallel) \o rest \in S
          /\ Setup!ToSet((basics \o parallel) \o rest)
               = (Setup!ToSet(basics) \cup Setup!ToSet(parallel)) \cup Setup!ToSet(rest)
      <3>1. basics \o parallel \in S
            /\ Setup!ToSet(basics \o parallel) = Setup!ToSet(basics) \cup Setup!ToSet(parallel)
        BY <2>3, ToSetConcat
      <3> DEFINE both == basics \o parallel
      <3> HIDE DEF both
      <3>2. both \in S /\ Setup!ToSet(both) = Setup!ToSet(basics) \cup Setup!ToSet(parallel) BY <3>1 DEF both
      <3>3. both \o rest \in S /\ Setup!ToSet(both \o rest) = Setup!ToSet(both) \cup Setup!ToSet(rest)
        BY <2>3, <3>2, ToSetConcat
      <3> QED BY <3>2, <3>3 DEF both
    <2>5. advancedPlan = (basics \o parallel) \o rest BY DEF basics, parallel, rest
    <2> HIDE DEF advancedPlan
    <2> QED BY <1>3, <2>1, <2>2, <2>4, <2>5 DEF AdvancedQuestions, Setup!Sftp, basics, parallel, rest
  <1>9. /\ Setup!When(picked.advanced, advancedPlan) \in S
        /\ Setup!ToSet(Setup!When(picked.advanced, advancedPlan))
             = IF picked.advanced THEN AdvancedQuestions(picked) ELSE {}
    <2> HIDE DEF advancedPlan
    <2> QED BY <1>8, WhenSet
  <1>10. /\ Setup!When(Setup!Sftp, Setup!SideAuth("server")) \in S
         /\ Setup!ToSet(Setup!When(Setup!Sftp, Setup!SideAuth("server")))
              = IF Setup!Sftp THEN AuthQuestions(picked, "server") ELSE {}
    BY <1>1, WhenSet
  <1>11. /\ Setup!When(~ isProfile, <<Setup!General("name")>>) \in S
         /\ Setup!ToSet(Setup!When(~ isProfile, <<Setup!General("name")>>))
              = IF isProfile THEN {} ELSE {Setup!General("name")}
    BY <1>5, WhenSet DEF GeneralKeys
  <1>12. first \in S /\ Setup!ToSet(first) = {Setup!General("protocol")}
    BY <1>5 DEF GeneralKeys
  <1>13. <<Setup!Review>> \in S /\ Setup!ToSet(<<Setup!Review>>) = {Setup!Review}
    BY <1>5 DEF GeneralKeys, Setup!Review
  <1> DEFINE hosts == Setup!HostPlan("server")
             ssh == Setup!When(Setup!Sftp, Setup!SideAuth("server"))
             more == Setup!When(picked.advanced, advancedPlan)
             name == Setup!When(~ isProfile, <<Setup!General("name")>>)
             last == <<Setup!Review>>
             upToHosts == first \o hosts
             upToSsh == upToHosts \o ssh
             upToGates == upToSsh \o gates
             upToMore == upToGates \o more
             upToName == upToMore \o name
  <1>14. Setup!Plan = upToName \o last BY DEF Setup!Plan
  <1> HIDE DEF hosts, ssh, more, name, last, first, gates, advancedPlan, sshPlan, hopPlan
  <1>15. hosts \in S /\ ssh \in S /\ more \in S /\ name \in S /\ last \in S
    BY <1>1, <1>9, <1>10, <1>11, <1>13 DEF hosts, ssh, more, name, last
  <1>16. upToHosts \in S /\ Setup!ToSet(upToHosts) = Setup!ToSet(first) \cup Setup!ToSet(hosts)
    BY <1>12, <1>15, ToSetConcat
  <1> HIDE DEF upToHosts
  <1>17. upToSsh \in S /\ Setup!ToSet(upToSsh) = Setup!ToSet(upToHosts) \cup Setup!ToSet(ssh)
    BY <1>15, <1>16, ToSetConcat
  <1> HIDE DEF upToSsh
  <1>18. upToGates \in S /\ Setup!ToSet(upToGates) = Setup!ToSet(upToSsh) \cup Setup!ToSet(gates)
    BY <1>4, <1>17, ToSetConcat
  <1> HIDE DEF upToGates
  <1>19. upToMore \in S /\ Setup!ToSet(upToMore) = Setup!ToSet(upToGates) \cup Setup!ToSet(more)
    BY <1>15, <1>18, ToSetConcat
  <1> HIDE DEF upToMore
  <1>20. upToName \in S /\ Setup!ToSet(upToName) = Setup!ToSet(upToMore) \cup Setup!ToSet(name)
    BY <1>15, <1>19, ToSetConcat
  <1> HIDE DEF upToName
  <1>21. Setup!ToSet(Setup!Plan)
           = {Setup!General("protocol")} \cup HostQuestions("server") \cup Setup!ToSet(ssh) \cup Setup!ToSet(gates)
             \cup Setup!ToSet(more) \cup Setup!ToSet(name) \cup {Setup!Review}
    <2>1. Setup!ToSet(Setup!Plan) = Setup!ToSet(upToName) \cup Setup!ToSet(last)
      BY <1>14, <1>15, <1>20, ToSetConcat
    <2>2. Setup!ToSet(hosts) = HostQuestions("server") /\ Setup!ToSet(last) = {Setup!Review}
      BY <1>1, <1>13 DEF hosts, last
    <2> QED BY <1>12, <1>16, <1>17, <1>18, <1>19, <1>20, <2>1, <2>2
  <1>22. Setup!ToSet(Setup!Plan) = PlanSet(picked, isProfile) \cup {Setup!Review}
    BY <1>4, <1>9, <1>10, <1>11, <1>21 DEF PlanSet, Setup!Sftp, ssh, more, name
  <1>23. Setup!Review \notin PlanSet(picked, isProfile)
    BY DEF PlanSet, HostQuestions, AuthQuestions, AdvancedQuestions, SshQuestions, HopQuestions, Setup!Review,
           Setup!General, Setup!Question
  <1> QED BY <1>22, <1>23 DEF Setup!Planned

LEMMA Places ==
    /\ \A key \in GeneralKeys : Setup!General(key) \in Questions
                                /\ Position(Setup!General(key)) = GeneralAt[key]
    /\ \A key \in SideKeys : /\ Setup!Question("server", key) \in Questions
                             /\ Setup!Question("hop", key) \in Questions
                             /\ Position(Setup!Question("server", key)) = SideAt[key]
                             /\ Position(Setup!Question("hop", key)) = 20 + SideAt[key]
    /\ \A q \in Questions : Position(q) \in Nat /\ Position(q) <= 31
  BY DEF Questions, Position, Setup!General, Setup!Question, Setup!Sides, GeneralKeys, SideKeys,
         GeneralAt, SideAt

AgentKeys == {"agent", "agentManual"}

(* A later question needs what an earlier one does.                                *)
LEMMA NeedsGrow ==
    ASSUME NEW a \in Questions, NEW b \in Questions, Position(a) <= Position(b),
           a[2] \in AgentKeys => \/ a[1] = b[1] /\ b[2] \in AgentKeys
                                 \/ Position(b) > Position(Setup!Question(a[1], "passphrase"))
    PROVE  Needs(a) \subseteq Needs(b)
  <1>1. \A x \in Questions : Position(x) < Position(a) => Position(x) < Position(b)
    BY Places
  <1>2. CASE a[2] \in AgentKeys
    <2>1. PICK whose \in {"server", "hop"}, key \in AgentKeys : a = Setup!Question(whose, key)
      BY <1>2 DEF Questions, Setup!General, Setup!Question, Setup!Sides, GeneralKeys, AgentKeys
    <2>2. a[1] = whose BY <2>1 DEF Setup!Question
    <2>3. /\ Setup!Question(whose, "privateKeyPath") \in Questions
          /\ Setup!Question(whose, "passphrase") \in Questions
          /\ Position(Setup!Question(whose, "privateKeyPath")) < Position(Setup!Question(whose, "passphrase"))
      BY Places DEF SideKeys, SideAt
    <2>4. Position(Setup!Question(whose, "privateKeyPath")) \in Nat /\ Position(b) \in Nat
          /\ Position(Setup!Question(whose, "passphrase")) \in Nat
      BY <2>3, Places
    <2> QED BY <1>1, <1>2, <2>2, <2>3, <2>4 DEF Needs, AgentKeys
  <1>3. CASE a[2] \notin AgentKeys BY <1>1, <1>3 DEF Needs, AgentKeys
  <1> QED BY <1>2, <1>3

(* A question is answered and the next one asked.                                  *)
LEMMA Asked ==
    ASSUME WizardInv, phase = "asking", NEW now \in Questions, now = steps[Len(steps)],
           NEW next \in Questions, steps' = Append(steps, next),
           UNCHANGED <<isProfile, phase, secrets, jumps, backed>>,
           picked' \in Setup!Picks, given' \subseteq Questions, SecretsAsked',
           Needs(now) \subseteq Needs(next),
           NeedsMet(now) => NeedsMet(next)',
           next = Concurrency => picked'.mode = "stream",
           Concurrency \in given' => Concurrency \in given \/ now = Concurrency,
           \/ picked'.mode = picked.mode
           \/ now = Setup!General("transferMode")
              /\ (Concurrency \in given' => picked'.mode = "stream")
    PROVE  WizardInv'
  <1>1. steps \in Seq(Questions) /\ steps # <<>> /\ jumps \in Nat BY DEF WizardInv, WizardTypes
  <1>2. PICK n \in Nat : n = Len(steps) /\ n > 0 BY <1>1
  <1>3. /\ Len(steps') = n + 1 /\ steps'[n + 1] = next /\ steps' \in Seq(Questions) /\ steps' # <<>>
        /\ \A i \in 1..n : steps'[i] = steps[i] /\ steps[i] \in Questions
        /\ now = steps[n]
    BY <1>1, <1>2
  <1>4. WizardTypes' BY <1>3 DEF WizardInv, WizardTypes
  <1>5. ChainHolds'
    <2>1. SUFFICES ASSUME jumps = 0 PROVE ChainHolds' BY DEF ChainHolds
    <2>2. \A i \in 1..n : Needs(steps[i]) \subseteq Needs(now)
      BY <1>2, <1>3, <2>1 DEF WizardInv, ChainHolds
    <2>3. ASSUME NEW i \in 1..(n + 1), NEW j \in 1..(n + 1), i <= j
          PROVE  Needs(steps'[i]) \subseteq Needs(steps'[j])
      <3>1. CASE j <= n
        <4>1. i \in 1..n /\ j \in 1..n BY <2>3, <3>1
        <4> QED BY <1>2, <1>3, <2>1, <2>3, <4>1 DEF WizardInv, ChainHolds
      <3>2. CASE i <= n /\ j = n + 1
        <4>1. i \in 1..n BY <2>3, <3>2
        <4> QED BY <1>3, <2>2, <3>2, <4>1
      <3>3. CASE i = n + 1 /\ j = n + 1 BY <3>3
      <3>4. j <= n \/ (i <= n /\ j = n + 1) \/ (i = n + 1 /\ j = n + 1) BY <2>3
      <3> QED BY <3>1, <3>2, <3>3, <3>4
    <2>4. ASSUME NEW i \in 1..(n + 1), steps'[i] = Concurrency PROVE picked'.mode = "stream"
      <3>1. CASE i = n + 1 BY <1>3, <2>4, <3>1
      <3>2. CASE i <= n
        <4>1. i \in 1..n /\ steps[i] = Concurrency BY <1>3, <2>4, <3>2
        <4>2. picked.mode = "stream" BY <1>2, <2>1, <4>1 DEF WizardInv, ChainHolds
        <4>3. now # Setup!General("transferMode")
          <5>1. Needs(Concurrency) \subseteq Needs(now) BY <2>2, <4>1
          <5>2. Setup!General("transferMode") \in Needs(Concurrency)
            BY Places DEF Needs, Concurrency, GeneralKeys, GeneralAt
          <5>3. Setup!General("transferMode") \notin Needs(Setup!General("transferMode"))
            BY Places DEF Needs, GeneralKeys, Setup!General
          <5> QED BY <5>1, <5>2, <5>3
        <4> QED BY <4>2, <4>3
      <3> QED BY <2>4, <3>1, <3>2
    <2> QED BY <1>3, <2>3, <2>4 DEF ChainHolds
  <1>6. AnswersHold'
    <2> HIDE DEF NeedsMet
    <2>1. SUFFICES ASSUME ~ backed
                   PROVE  /\ NeedsMet(next)'
                          /\ next = Concurrency \/ Concurrency \in given' => picked'.mode = "stream"
      <3>1. NeedsMet(steps[Len(steps)])' <=> NeedsMet(next)' BY <1>3 DEF NeedsMet
      <3> QED BY <1>3, <2>1, <3>1 DEF AnswersHold
    <2>2. NeedsMet(now) BY <2>1 DEF WizardInv, AnswersHold
    <2>3. now = Concurrency \/ Concurrency \in given => picked.mode = "stream"
      BY <2>1 DEF WizardInv, AnswersHold
    <2> QED BY <2>2, <2>3
  <1>7. WrittenHolds' BY DEF WrittenHolds, Setup!Wrote
  <1> QED BY <1>4, <1>5, <1>6, <1>7 DEF WizardInv

\* The places that the plan has for answers p.
SideHas(auth, n) ==
  n \in 1..4 \/ (n = 5 /\ auth.method = "agent") \/ (n \in 6..7 /\ auth.method = "key")
PlanHas(p, profile, n) ==
  \/ n \in 0..3 \/ n \in 10..12
  \/ p.protocol = "sftp" /\ n \in 4..7 /\ SideHas(p.server, n)
  \/ p.advanced /\ (n \in 13..15 \/ (n = 16 /\ p.mode = "stream"))
  \/ p.advanced /\ p.protocol = "sftp" /\ n \in 17..18
  \/ p.advanced /\ p.protocol = "sftp" /\ p.hopEnabled /\ n \in 21..27 /\ SideHas(p.hop, n - 20)
  \/ ~ profile /\ n = 30

LEMMA PlanPlaces ==
    ASSUME NEW p, NEW profile
    PROVE  PlanSet(p, profile)
             = {x \in Questions : PlanHas(p, profile, Position(x)) /\ x[2] # "agentManual"}
  <1> USE DEF PlanSet, HostQuestions, AuthQuestions, AdvancedQuestions, SshQuestions, HopQuestions
  <1>1. ASSUME NEW key \in GeneralKeys
        PROVE  /\ Setup!General(key)[2] # "agentManual"
               /\ Setup!General(key) \in PlanSet(p, profile)
                    <=> PlanHas(p, profile, Position(Setup!General(key)))
    <2>1. Position(Setup!General(key)) = GeneralAt[key] BY Places
    <2> QED BY <2>1 DEF GeneralAt, GeneralKeys, PlanHas, SideHas, Setup!General, Setup!Question
  <1>2. ASSUME NEW key \in SideKeys
        PROVE  Setup!Question("server", key) \in PlanSet(p, profile)
                 <=> PlanHas(p, profile, Position(Setup!Question("server", key))) /\ key # "agentManual"
    <2>1. Position(Setup!Question("server", key)) = SideAt[key] BY Places
    <2> QED BY <2>1 DEF SideAt, SideKeys, PlanHas, SideHas, Setup!General, Setup!Question
  <1>3. ASSUME NEW key \in SideKeys
        PROVE  Setup!Question("hop", key) \in PlanSet(p, profile)
                 <=> PlanHas(p, profile, Position(Setup!Question("hop", key))) /\ key # "agentManual"
    <2>1. Position(Setup!Question("hop", key)) = 20 + SideAt[key] BY Places
    <2> QED BY <2>1 DEF SideAt, SideKeys, PlanHas, SideHas, Setup!General, Setup!Question
  <1>4. PlanSet(p, profile) \subseteq Questions
    BY DEF Questions, GeneralKeys, SideKeys, Setup!Sides
  <1>5. \A whose, key : Setup!Question(whose, key)[2] = key BY DEF Setup!Question
  <1> HIDE DEF PlanSet, PlanHas, Position
  <1>6. \A x \in Questions : x \in PlanSet(p, profile)
                              <=> PlanHas(p, profile, Position(x)) /\ x[2] # "agentManual"
    BY <1>1, <1>2, <1>3, <1>5 DEF Questions, Setup!Sides
  <1> QED BY <1>4, <1>6

(* Only the two ways into an agent stand in one place.                                  *)
LEMMA OnePlaceEach ==
    ASSUME NEW x \in Questions, NEW y \in Questions, Position(x) = Position(y),
           x[2] # "agentManual", y[2] # "agentManual"
    PROVE  x = y
  <1> DEFINE Is(q) == \/ \E key \in GeneralKeys : q = Setup!General(key) /\ Position(q) = GeneralAt[key]
                      \/ \E key \in SideKeys \ {"agentManual"} :
                           q = Setup!Question("server", key) /\ Position(q) = SideAt[key]
                      \/ \E key \in SideKeys \ {"agentManual"} :
                           q = Setup!Question("hop", key) /\ Position(q) = 20 + SideAt[key]
  <1>1. \A q \in Questions : q[2] # "agentManual" => Is(q)
    <2> SUFFICES ASSUME NEW q \in Questions, q[2] # "agentManual" PROVE Is(q) OBVIOUS
    <2>1. CASE \E key \in GeneralKeys : q = Setup!General(key) BY <2>1, Places
    <2>2. ASSUME NEW whose \in {"server", "hop"}, NEW key \in SideKeys, q = Setup!Question(whose, key)
          PROVE  Is(q)
      <3>1. key \in SideKeys \ {"agentManual"} BY <2>2 DEF Setup!Question
      <3> QED BY <2>2, <3>1, Places
    <2> QED BY <2>1, <2>2 DEF Questions, Setup!Sides
  <1>2. Is(x) /\ Is(y) BY <1>1
  <1>3. \A k, l \in GeneralKeys : GeneralAt[k] = GeneralAt[l] => k = l BY DEF GeneralKeys, GeneralAt
  <1>4. \A k, l \in SideKeys \ {"agentManual"} : SideAt[k] = SideAt[l] => k = l BY DEF SideKeys, SideAt
  <1>5. \A k \in GeneralKeys : GeneralAt[k] \in {0, 30, 31} \cup 10..18 BY DEF GeneralKeys, GeneralAt
  <1>6. \A k \in SideKeys : SideAt[k] \in 1..8 BY DEF SideKeys, SideAt
  <1> QED BY <1>2, <1>3, <1>4, <1>5, <1>6

Naming(profile) == IF profile THEN Setup!Review ELSE Setup!General("name")
AfterAuth(profile, whose) == IF whose = "server" THEN Setup!General("remotePath") ELSE Naming(profile)
AfterTransfer(p, profile) ==
  IF p.protocol = "sftp" THEN Setup!General("strictHostKeyChecking") ELSE Naming(profile)

(* For a question, the next one, and the answers p before and p2 after: every question  *)
(* of the new plan that stands before the next one is this one, or was before it.       *)
Leads(now, next, p, p2, profile) ==
  /\ next \in Questions /\ Needs(now) \subseteq Needs(next)
  /\ \A x \in PlanSet(p2, profile) \cap Needs(next) : x = now \/ x \in PlanSet(p, profile) \cap Needs(now)

LEMMA LeadsMeets ==
    ASSUME NEW now, NEW next, Leads(now, next, picked, picked', isProfile), isProfile' = isProfile,
           now \in given', \A x \in PlanSet(picked', isProfile) \cap given : x \in given'
    PROVE  NeedsMet(now) => NeedsMet(next)'
  BY DEF Leads, NeedsMet


LEMMA AuthLeads ==
    ASSUME NEW p \in Setup!Picks, NEW profile \in BOOLEAN, NEW whose \in {"server", "hop"},
           NEW method \in {"password", "key", "agent"},
           NEW p2, p2 = [p EXCEPT ![whose].method = method],
           NEW next, next = CASE method = "key" -> Setup!Question(whose, "privateKeyPath")
                              [] method = "agent" -> Setup!Question(whose, "agent")
                              [] OTHER -> AfterAuth(profile, whose)
    PROVE  Leads(Setup!Question(whose, "authMethod"), next, p, p2, profile)
  <1>1. PICK now : now = Setup!Question(whose, "authMethod") OBVIOUS
  <1>2. PICK base \in {0, 20} : base = IF whose = "server" THEN 0 ELSE 20 OBVIOUS
  <1>3. now \in Questions /\ Position(now) = base + 4 /\ now[2] \notin AgentKeys
    BY <1>1, <1>2, Places DEF SideKeys, SideAt, AgentKeys, Setup!Question
  <1>4. /\ next \in Questions
        /\ Position(next) = IF method = "key" THEN base + 6 ELSE IF method = "agent" THEN base + 5
                            ELSE IF whose = "server" THEN 10 ELSE IF profile THEN 31 ELSE 30
        /\ next[2] \in AgentKeys <=> method = "agent"
        /\ method = "agent" => next[1] = whose
    <2>1. CASE method = "key"
      BY <1>2, <2>1, Places DEF SideKeys, SideAt, AgentKeys, Setup!Question
    <2>2. CASE method = "agent"
      BY <1>2, <2>2, Places DEF SideKeys, SideAt, AgentKeys, Setup!Question
    <2>3. CASE method = "password"
      <3>1. next \in {Setup!General("remotePath"), Setup!General("name"), Setup!General("review")}
            /\ (whose = "server" => next = Setup!General("remotePath"))
            /\ (whose = "hop" => next = Setup!General(IF profile THEN "review" ELSE "name"))
        BY <2>3 DEF AfterAuth, Naming, Setup!Review
      <3>2. next[2] \notin AgentKeys BY <3>1 DEF AgentKeys, Setup!General
      <3> QED BY <2>3, <3>1, <3>2, Places DEF GeneralKeys, GeneralAt
    <2> QED BY <2>1, <2>2, <2>3
  <1>5. Needs(now) \subseteq Needs(next) BY <1>2, <1>3, <1>4, NeedsGrow
  <1>6. ASSUME NEW x \in PlanSet(p2, profile), x \in Needs(next), x # now
        PROVE  x \in PlanSet(p, profile) /\ x \in Needs(now)
    <2>1. x \in Questions /\ PlanHas(p2, profile, Position(x)) /\ x[2] # "agentManual"
      BY <1>6, PlanPlaces
    <2>2. PICK n \in Nat : n = Position(x) /\ PlanHas(p2, profile, n) BY <2>1, Places
    <2>3. n # base + 4
      BY <1>3, <1>6, <2>1, <2>2, OnePlaceEach DEF AgentKeys
    <2>4. /\ method # "agent" => n < Position(next)
          /\ method = "agent" => n < base + 5 \/ n \in (base + 6)..(base + 7)
      <3>1. method = "agent" => x = Setup!Question(whose, "privateKeyPath") \/ x = Setup!Question(whose, "passphrase")
                               \/ n < base + 5
        BY <1>4, <1>6, <2>2 DEF Needs
      <3>2. /\ Position(Setup!Question(whose, "privateKeyPath")) = base + 6
            /\ Position(Setup!Question(whose, "passphrase")) = base + 7
        BY <1>2, Places DEF SideKeys, SideAt
      <3>3. method # "agent" => n < Position(next)
        BY <1>4, <1>6, <2>2 DEF Needs, AgentKeys
      <3> QED BY <1>2, <2>2, <3>1, <3>2, <3>3
    <2>5. /\ p2.protocol = p.protocol /\ p2.advanced = p.advanced /\ p2.mode = p.mode
          /\ p2.hopEnabled = p.hopEnabled
          /\ p2[whose].method = method
          /\ whose = "server" => p2.server.method = method /\ p2.hop = p.hop
          /\ whose = "hop" => p2.hop.method = method /\ p2.server = p.server
      BY DEF Setup!Picks, Setup!Auth
    <2>6. n < base + 4 /\ PlanHas(p, profile, n)
      <3>1. CASE whose = "server"
        <4>1. n < 8
          <5>1. n < 10 BY <1>2, <1>4, <2>2, <2>4, <3>1
          <5> QED BY <2>2, <5>1 DEF PlanHas
        <4>2. n \notin 5..7
          <5>1. ASSUME n \in 5..7 PROVE FALSE
            <6>1. SideHas(p2.server, n) BY <2>2, <5>1 DEF PlanHas
            <6>2. (n = 5 /\ method = "agent") \/ (n \in 6..7 /\ method = "key")
              BY <2>2, <2>5, <3>1, <5>1, <6>1 DEF SideHas
            <6> QED BY <1>2, <1>4, <2>2, <2>4, <3>1, <6>2
          <5> QED BY <5>1
        <4>3. n < 4 BY <1>2, <2>2, <2>3, <3>1, <4>1, <4>2
        <4> QED BY <1>2, <3>1, <4>3 DEF PlanHas
      <3>2. CASE whose = "hop"
        <4>1. n \notin 25..27
          <5>1. ASSUME n \in 25..27 PROVE FALSE
            <6>1. SideHas(p2.hop, n - 20) BY <2>2, <5>1 DEF PlanHas
            <6>2. (n = 25 /\ method = "agent") \/ (n \in 26..27 /\ method = "key")
              BY <2>2, <2>5, <3>2, <5>1, <6>1 DEF SideHas
            <6> QED BY <1>2, <1>4, <2>2, <2>4, <3>2, <6>2
          <5> QED BY <5>1
        <4>2. n < 24
          <5>1. n < 28 \/ (n = 30 /\ ~ profile) BY <2>2, <4>1 DEF PlanHas
          <5>2. n # 30 \/ profile BY <1>2, <1>4, <2>2, <2>4, <3>2
          <5> QED BY <1>2, <2>2, <2>3, <3>2, <4>1, <5>1, <5>2
        <4>3. SideHas(p2.hop, n - 20) /\ n \in 21..23 => SideHas(p.hop, n - 20)
          BY <2>2 DEF SideHas
        <4> QED BY <1>2, <2>2, <2>5, <3>2, <4>2, <4>3 DEF PlanHas
      <3> QED BY <3>1, <3>2
    <2>7. x \in Needs(now) BY <1>3, <2>1, <2>2, <2>6 DEF Needs
    <2> QED BY <2>1, <2>2, <2>6, <2>7, PlanPlaces
  <1> QED BY <1>1, <1>4, <1>5, <1>6 DEF Leads

LEMMA PlacesLead ==
    ASSUME NEW p, NEW p2, NEW profile, NEW now \in Questions, NEW next \in Questions,
           now[2] # "agentManual", next[2] \notin AgentKeys, Needs(now) \subseteq Needs(next),
           NEW beside, beside = IF now[2] = "agent"
                                THEN {Position(Setup!Question(now[1], "privateKeyPath")),
                                      Position(Setup!Question(now[1], "passphrase"))}
                                ELSE {},
           \A n \in 0..31 : n < Position(next) /\ n # Position(now) /\ PlanHas(p2, profile, n) =>
             PlanHas(p, profile, n) /\ (n < Position(now) \/ n \in beside)
    PROVE  Leads(now, next, p, p2, profile)
  <1>1. ASSUME NEW x \in PlanSet(p2, profile), x \in Needs(next), x # now
        PROVE  x \in PlanSet(p, profile) /\ x \in Needs(now)
    <2>1. x \in Questions /\ PlanHas(p2, profile, Position(x)) /\ x[2] # "agentManual"
      BY <1>1, PlanPlaces
    <2>2. PICK n \in 0..31 : n = Position(x) BY <2>1, Places
    <2>3. n # Position(now) BY <1>1, <2>1, <2>2, OnePlaceEach
    <2>4. n < Position(next) BY <1>1, <2>2 DEF Needs, AgentKeys
    <2>5. PlanHas(p, profile, n) /\ (n < Position(now) \/ n \in beside) BY <2>1, <2>2, <2>3, <2>4
    <2>6. x \in PlanSet(p, profile) BY <2>1, <2>2, <2>5, PlanPlaces
    <2>7. CASE n < Position(now) BY <2>1, <2>2, <2>6, <2>7 DEF Needs
    <2>8. CASE n \in beside
      <3>1. now[2] = "agent" BY <2>8
      <3>2. PICK whose \in {"server", "hop"} : now = Setup!Question(whose, "agent")
        BY <3>1 DEF Questions, Setup!General, Setup!Question, Setup!Sides, GeneralKeys
      <3>3. now[1] = whose BY <3>2 DEF Setup!Question
      <3>4. /\ Setup!Question(whose, "privateKeyPath") \in Questions
            /\ Setup!Question(whose, "passphrase") \in Questions
            /\ Setup!Question(whose, "privateKeyPath")[2] # "agentManual"
            /\ Setup!Question(whose, "passphrase")[2] # "agentManual"
        BY Places DEF SideKeys, Setup!Question
      <3>5. x \in {Setup!Question(whose, "privateKeyPath"), Setup!Question(whose, "passphrase")}
        BY <2>1, <2>2, <2>8, <3>1, <3>3, <3>4, OnePlaceEach
      <3> QED BY <2>6, <3>1, <3>3, <3>5 DEF Needs
    <2> QED BY <2>5, <2>6, <2>7, <2>8
  <1> QED BY <1>1 DEF Leads

(* A question is answered, which may change what is planned after it.                   *)
LEMMA Answered ==
    ASSUME WizardInv, phase = "asking", NEW now \in Questions, now = steps[Len(steps)],
           NEW answered \in Questions, NEW next, Leads(answered, next, picked, picked', isProfile),
           Needs(now) = Needs(answered), answered = Concurrency => now = Concurrency,
           steps' = Append(steps, next), Setup!Kept, picked' \in Setup!Picks,
           \A whose \in Setup!Sides : \/ picked'[whose].passphrase = picked[whose].passphrase
                                      \/ answered = Setup!Question(whose, "passphrase"),
           given' \subseteq given \cup {answered}, answered \in given',
           \A q \in given : \/ q \in given'
                            \/ q[2] = "passphraseValue"
                            \/ q = Concurrency /\ picked'.mode # "stream",
           next = Concurrency => picked'.mode = "stream",
           \/ picked'.mode = picked.mode
           \/ now = Setup!General("transferMode")
              /\ (Concurrency \in given' => picked'.mode = "stream")
    PROVE  WizardInv'
  <1>1. UNCHANGED <<isProfile, phase, secrets, jumps, backed>> BY DEF Setup!Kept
  <1>2. next \in Questions /\ Needs(now) \subseteq Needs(next) BY DEF Leads
  <1>3. NeedsMet(now) => NeedsMet(next)'
    <2>1. \A x \in PlanSet(picked', isProfile) \cap given : x \in given'
      <3> SUFFICES ASSUME NEW x \in PlanSet(picked', isProfile), x \in given PROVE x \in given'
        OBVIOUS
      <3>1. x \in Questions /\ PlanHas(picked', isProfile, Position(x)) BY PlanPlaces
      <3>2. x[2] # "passphraseValue"
        <4>1. ASSUME x[2] = "passphraseValue" PROVE FALSE
          <5>1. x \in {Setup!Question("server", "passphraseValue"), Setup!Question("hop", "passphraseValue")}
            BY <3>1, <4>1 DEF Questions, Setup!General, Setup!Question, Setup!Sides, GeneralKeys
          <5>2. Position(x) = 8 \/ Position(x) = 28
            <6>1. /\ Position(Setup!Question("server", "passphraseValue")) = 8
                  /\ Position(Setup!Question("hop", "passphraseValue")) = 28
              BY Places DEF SideKeys, SideAt
            <6> QED BY <5>1, <6>1
          <5>3. ASSUME NEW p PROVE ~ PlanHas(p, isProfile, 8) /\ ~ PlanHas(p, isProfile, 28)
            BY DEF PlanHas
          <5> QED BY <3>1, <5>2, <5>3
        <4> QED BY <4>1
      <3>3. x = Concurrency => picked'.mode = "stream"
        <4>1. Position(Concurrency) = 16 BY Places DEF Concurrency, GeneralKeys, GeneralAt
        <4>2. PlanHas(picked', isProfile, 16) => picked'.mode = "stream" BY DEF PlanHas
        <4> QED BY <3>1, <4>1, <4>2
      <3> QED BY <3>2, <3>3
    <2>2. NeedsMet(now) => NeedsMet(answered) BY DEF NeedsMet
    <2> QED BY <1>1, <2>1, <2>2, LeadsMeets
  <1>4. SecretsAsked'
    <2> SUFFICES ASSUME NEW whose \in Setup!Sides, picked'[whose].passphrase \in {"prompt", "enter"}
                 PROVE  Setup!Question(whose, "passphrase") \in given'
      BY DEF SecretsAsked
    <2>1. Setup!Question(whose, "passphrase") # Concurrency
          /\ Setup!Question(whose, "passphrase")[2] # "passphraseValue"
      BY DEF Concurrency, Setup!General, Setup!Question
    <2> QED BY <2>1 DEF WizardInv, SecretsAsked
  <1>5. Concurrency \in given' => Concurrency \in given \/ now = Concurrency OBVIOUS
  <1>6. given' \subseteq Questions BY DEF WizardInv, WizardTypes
  <1> HIDE DEF NeedsMet, SecretsAsked
  <1> QED BY <1>1, <1>2, <1>3, <1>4, <1>5, <1>6, Asked

LEMMA OnScreen ==
    ASSUME WizardInv
    PROVE  /\ Setup!Now = steps[Len(steps)] /\ Setup!Now \in Questions
           /\ isProfile \in BOOLEAN /\ picked \in Setup!Picks /\ given \subseteq Questions
           /\ Setup!Sftp <=> picked.protocol = "sftp"
  BY DEF WizardInv, WizardTypes, Setup!Now, Setup!Last, Setup!Sftp

(* The answers that decide nothing: the question is followed by its neighbour.          *)
LEMMA PlainAnswers ==
    ASSUME WizardInv, \/ Setup!AnswerGeneral \/ Setup!AnswerSided \/ Setup!AnswerName
    PROVE  WizardInv'
  <1>1. PICK now \in Questions : now = Setup!Now /\ now = steps[Len(steps)] BY OnScreen
  <1>2. ASSUME NEW next \in Questions, Position(next) = Position(now) + 1,
               now[2] \notin AgentKeys, next[2] \notin AgentKeys, next # Concurrency,
               phase = "asking", given' = given \cup {now}, steps' = Append(steps, next),
               picked' = picked, Setup!Kept
        PROVE  WizardInv'
    <2>1. Needs(now) \subseteq Needs(next) BY <1>2, Places, NeedsGrow
    <2>2. \A n \in 0..31 : n < Position(next) /\ n # Position(now) => n < Position(now)
      BY <1>2, Places
    <2>3. Leads(now, next, picked, picked, isProfile) BY <1>2, <2>1, <2>2, PlacesLead DEF AgentKeys
    <2> QED BY <1>1, <1>2, <2>3, OnScreen, Answered
  <1>3. CASE Setup!AnswerGeneral
    <2>1. PICK key \in {"remotePath", "uploadOnSave", "ignore", "syncOption", "strictHostKeyChecking"} :
             now = Setup!General(key)
      BY <1>1, <1>3 DEF Setup!AnswerGeneral, Setup!Following, Questions, Setup!General, Setup!Question, Setup!Sides
    <2>2. PICK then \in {"uploadOnSave", "advancedGate", "syncOption", "transferMode", "hopGate"} :
             then = Setup!Following.General[key] /\ GeneralAt[then] = GeneralAt[key] + 1
      BY DEF Setup!Following, GeneralAt
    <2>3. PICK next : next = Setup!General(then) OBVIOUS
    <2>4. next \in Questions /\ Position(next) = Position(now) + 1
      BY <2>1, <2>2, <2>3, Places DEF GeneralKeys
    <2>5. now[2] \notin AgentKeys /\ next[2] \notin AgentKeys /\ next # Concurrency
      BY <2>1, <2>2, <2>3 DEF Setup!General, AgentKeys, Concurrency
    <2>6. now[2] = key BY <2>1 DEF Setup!General
    <2> QED BY <1>1, <1>2, <1>3, <2>2, <2>3, <2>4, <2>5, <2>6 DEF Setup!AnswerGeneral, Setup!Ask
  <1>4. CASE Setup!AnswerSided
    <2>1. PICK whose \in {"server", "hop"}, key \in {"host", "port", "privateKeyPath"} :
             now = Setup!Question(whose, key)
      BY <1>1, <1>4 DEF Setup!AnswerSided, Setup!Following, Questions, Setup!General, Setup!Question, Setup!Sides
    <2>2. PICK then \in {"port", "username", "passphrase"} :
             then = Setup!Following.Sided[key] /\ SideAt[then] = SideAt[key] + 1
      BY DEF Setup!Following, SideAt
    <2>3. PICK next : next = Setup!Question(whose, then) OBVIOUS
    <2>4. next \in Questions /\ Position(next) = Position(now) + 1
      BY <2>1, <2>2, <2>3, Places DEF SideKeys, SideAt
    <2>5. now[2] \notin AgentKeys /\ next[2] \notin AgentKeys /\ next # Concurrency
      BY <2>1, <2>2, <2>3 DEF Setup!General, Setup!Question, AgentKeys, Concurrency
    <2>6. now[2] = key /\ now[1] = whose BY <2>1 DEF Setup!Question
    <2> QED BY <1>1, <1>2, <1>4, <2>2, <2>3, <2>4, <2>5, <2>6 DEF Setup!AnswerSided, Setup!Ask
  <1>5. CASE Setup!AnswerName
    <2>1. now = Setup!General("name") BY <1>1, <1>5 DEF Setup!AnswerName
    <2>2. Setup!Review \in Questions /\ Position(Setup!Review) = Position(now) + 1
      BY <2>1, Places DEF GeneralKeys, GeneralAt, Setup!Review
    <2>3. now[2] \notin AgentKeys /\ Setup!Review[2] \notin AgentKeys /\ Setup!Review # Concurrency
      BY <2>1 DEF Setup!General, AgentKeys, Concurrency, Setup!Review
    <2> QED BY <1>1, <1>2, <1>5, <2>2, <2>3 DEF Setup!AnswerName, Setup!Ask
  <1> QED BY <1>3, <1>4, <1>5

LEMMA ProtocolAnswer ==
    ASSUME WizardInv, NEW protocol \in {"sftp", "ftp"}, Setup!AnswerProtocol(protocol)
    PROVE  WizardInv'
  <1>1. PICK now \in Questions : now = Setup!Now /\ now = steps[Len(steps)] BY OnScreen
  <1>2. now = Setup!General("protocol") /\ phase = "asking" BY <1>1 DEF Setup!AnswerProtocol
  <1>3. PICK next : next = Setup!Server("host") OBVIOUS
  <1>4. next \in Questions /\ Position(next) = 1 /\ Position(now) = 0
    BY <1>2, <1>3, Places DEF GeneralKeys, GeneralAt, SideKeys, SideAt, Setup!Server, Setup!Question
  <1>5. now[2] \notin AgentKeys \cup {"passphraseValue"} /\ next[2] \notin AgentKeys
        /\ next # Concurrency /\ now # Concurrency
    BY <1>2, <1>3 DEF Setup!General, Setup!Server, AgentKeys, Concurrency
  <1>6. PICK p2 : p2 = [picked EXCEPT !.protocol = protocol] OBVIOUS
  <1>7. p2 \in Setup!Picks /\ p2.mode = picked.mode /\ p2.server = picked.server /\ p2.hop = picked.hop
    BY <1>6, OnScreen DEF Setup!Picks
  <1>8. /\ picked' = p2 /\ given' = given \cup {now} /\ steps' = Append(steps, next) /\ Setup!Kept
    BY <1>1, <1>3, <1>6 DEF Setup!AnswerProtocol, Setup!Ask
  <1>9. Needs(now) \subseteq Needs(next) BY <1>4, <1>5, NeedsGrow
  <1>10. Leads(now, next, picked, picked', isProfile)
    <2>1. \A n \in 0..31 : n < Position(next) => n = Position(now) BY <1>4
    <2>2. Leads(now, next, picked, p2, isProfile) BY <1>4, <1>5, <1>9, <2>1, PlacesLead DEF AgentKeys
    <2> QED BY <1>8, <2>2
  <1>11. \A whose \in Setup!Sides : picked'[whose].passphrase = picked[whose].passphrase
    BY <1>7, <1>8 DEF Setup!Sides
  <1> QED BY <1>1, <1>2, <1>5, <1>7, <1>8, <1>10, <1>11, Answered

LEMMA UsernameAnswer ==
    ASSUME WizardInv, Setup!AnswerUsername
    PROVE  WizardInv'
  <1>1. PICK now \in Questions : now = Setup!Now /\ now = steps[Len(steps)] BY OnScreen
  <1>2. now[2] = "username" /\ phase = "asking" BY <1>1 DEF Setup!AnswerUsername
  <1>3. PICK whose \in {"server", "hop"} : now = Setup!Question(whose, "username")
    BY <1>2 DEF Questions, Setup!General, Setup!Question, Setup!Sides, GeneralKeys
  <1>4. now[1] = whose BY <1>3 DEF Setup!Question
  <1>5. PICK next : next = IF picked.protocol = "sftp" \/ whose = "hop"
                           THEN Setup!Question(whose, "authMethod") ELSE Setup!General("remotePath")
    OBVIOUS
  <1>6. /\ next \in Questions /\ Position(now) = IF whose = "server" THEN 3 ELSE 23
        /\ Position(next) = IF whose = "hop" THEN 24 ELSE IF picked.protocol = "sftp" THEN 4 ELSE 10
    BY <1>3, <1>5, Places DEF GeneralKeys, GeneralAt, SideKeys, SideAt
  <1>7. next[2] \notin AgentKeys /\ next # Concurrency /\ now # Concurrency
    BY <1>3, <1>5 DEF Setup!General, Setup!Question, AgentKeys, Concurrency
  <1>8. picked' = picked /\ given' = given \cup {now} /\ steps' = Append(steps, next) /\ Setup!Kept
    BY <1>1, <1>4, <1>5, OnScreen DEF Setup!AnswerUsername, Setup!Ask
  <1>9. Needs(now) \subseteq Needs(next) BY <1>2, <1>6, NeedsGrow DEF AgentKeys
  <1>10. \A n \in 0..31 : n < Position(next) /\ n # Position(now) /\ PlanHas(picked, isProfile, n)
                          => n < Position(now)
    <2>1. \A n \in 4..9 : PlanHas(picked, isProfile, n) => picked.protocol = "sftp" BY DEF PlanHas
    <2> QED BY <1>6, <2>1
  <1>11. Leads(now, next, picked, picked, isProfile)
    BY <1>2, <1>6, <1>7, <1>9, <1>10, PlacesLead DEF AgentKeys
  <1> QED BY <1>1, <1>2, <1>7, <1>8, <1>11, OnScreen, Answered

(* After the authentication of a side come the options, or what ends the advanced ones. *)
LEMMA AfterAuthPlace ==
    ASSUME NEW profile \in BOOLEAN, NEW whose \in {"server", "hop"}, NEW next,
           next = AfterAuth(profile, whose)
    PROVE  /\ next \in Questions /\ next[2] \notin AgentKeys /\ next # Concurrency
           /\ Position(next) = IF whose = "server" THEN 10 ELSE IF profile THEN 31 ELSE 30
           /\ \A p : \A n \in 0..31 :
                n < Position(next) /\ n > Position(Setup!Question(whose, "passphrase"))
                 => ~ PlanHas(p, profile, n)
  <1>1. Position(Setup!Question(whose, "passphrase")) = IF whose = "server" THEN 7 ELSE 27
    BY Places DEF SideKeys, SideAt
  <1>2. next \in {Setup!General("remotePath"), Setup!General("name"), Setup!General("review")}
        /\ (whose = "server" => next = Setup!General("remotePath"))
        /\ (whose = "hop" => next = Setup!General(IF profile THEN "review" ELSE "name"))
    BY DEF AfterAuth, Naming, Setup!Review
  <1>3. next \in Questions /\ Position(next) = IF whose = "server" THEN 10 ELSE IF profile THEN 31 ELSE 30
    BY <1>2, Places DEF GeneralKeys, GeneralAt
  <1>4. next[2] \notin AgentKeys /\ next # Concurrency
    BY <1>2 DEF AgentKeys, Setup!General, Concurrency
  <1>5. ASSUME NEW p, NEW n \in 0..31, n < Position(next), n > Position(Setup!Question(whose, "passphrase"))
        PROVE  ~ PlanHas(p, profile, n)
    BY <1>1, <1>3, <1>5 DEF PlanHas
  <1> QED BY <1>3, <1>4, <1>5

LEMMA AuthMethodAnswer ==
    ASSUME WizardInv, NEW method \in {"password", "key", "agent"}, Setup!AnswerAuthMethod(method)
    PROVE  WizardInv'
  <1>1. PICK now \in Questions : now = Setup!Now /\ now = steps[Len(steps)] BY OnScreen
  <1>2. now[2] = "authMethod" /\ phase = "asking" BY <1>1 DEF Setup!AnswerAuthMethod
  <1>3. PICK whose \in {"server", "hop"} : now = Setup!Question(whose, "authMethod")
    BY <1>2 DEF Questions, Setup!General, Setup!Question, Setup!Sides, GeneralKeys
  <1>4. now[1] = whose BY <1>3 DEF Setup!Question
  <1>5. PICK next : next = CASE method = "key" -> Setup!Question(whose, "privateKeyPath")
                             [] method = "agent" -> Setup!Question(whose, "agent")
                             [] OTHER -> AfterAuth(isProfile, whose)
    OBVIOUS
  <1>6. PICK p2 : p2 = [picked EXCEPT ![whose].method = method] OBVIOUS
  <1>7. p2 \in Setup!Picks /\ p2.mode = picked.mode
        /\ p2.server.passphrase = picked.server.passphrase /\ p2.hop.passphrase = picked.hop.passphrase
    <2>1. picked \in Setup!Picks BY OnScreen
    <2>2. CASE whose = "server" BY <1>6, <2>1, <2>2 DEF Setup!Picks, Setup!Auth
    <2>3. CASE whose = "hop" BY <1>6, <2>1, <2>3 DEF Setup!Picks, Setup!Auth
    <2> QED BY <2>2, <2>3
  <1>8. Leads(now, next, picked, p2, isProfile) BY <1>3, <1>5, <1>6, OnScreen, AuthLeads
  <1>9. AfterAuth(isProfile, whose) = Setup!AfterAuth(whose)
    BY DEF AfterAuth, Naming, Setup!AfterAuth, Setup!Naming
  <1>10. picked' = p2 /\ given' = given \cup {now} /\ steps' = Append(steps, next) /\ Setup!Kept
    BY <1>1, <1>4, <1>5, <1>6, <1>9 DEF Setup!AnswerAuthMethod, Setup!Ask
  <1>11. next # Concurrency /\ now # Concurrency
    <2>1. AfterAuth(isProfile, whose) # Concurrency BY OnScreen, AfterAuthPlace
    <2> QED BY <1>3, <1>5, <2>1 DEF Setup!General, Setup!Question, Concurrency
  <1>12. \A side \in Setup!Sides : picked'[side].passphrase = picked[side].passphrase
    BY <1>7, <1>10 DEF Setup!Sides
  <1> QED BY <1>1, <1>2, <1>7, <1>8, <1>10, <1>11, <1>12, Answered

LEMMA AgentAnswers ==
    ASSUME WizardInv, Setup!AnswerAgent \/ Setup!AnswerAgentManual
    PROVE  WizardInv'
  <1>1. PICK now \in Questions : now = Setup!Now /\ now = steps[Len(steps)] BY OnScreen
  <1>2. now[2] \in AgentKeys /\ phase = "asking"
    BY <1>1 DEF Setup!AnswerAgent, Setup!AnswerAgentManual, AgentKeys
  <1>3. PICK whose \in {"server", "hop"} :
           now = Setup!Question(whose, "agent") \/ now = Setup!Question(whose, "agentManual")
    BY <1>2 DEF Questions, Setup!General, Setup!Question, Setup!Sides, GeneralKeys, AgentKeys
  <1>4. now[1] = whose BY <1>3 DEF Setup!Question
  <1>5. PICK agent : agent = Setup!Question(whose, "agent") OBVIOUS
  <1>6. PICK manual : manual = Setup!Question(whose, "agentManual") OBVIOUS
  <1>7. /\ agent \in Questions /\ manual \in Questions /\ agent[2] = "agent" /\ manual[2] = "agentManual"
        /\ agent[1] = whose /\ manual[1] = whose
        /\ Position(agent) = (IF whose = "server" THEN 5 ELSE 25) /\ Position(manual) = Position(agent)
        /\ agent # Concurrency /\ manual # Concurrency
    BY <1>5, <1>6, Places DEF SideKeys, SideAt, Setup!Question, Concurrency, Setup!General
  <1>8. Needs(agent) = Needs(manual) BY <1>7 DEF Needs
  <1>9. UNCHANGED picked /\ Setup!Kept BY DEF Setup!AnswerAgent, Setup!AnswerAgentManual
  <1>10. ASSUME given' = given \cup {agent}, steps' = Append(steps, Setup!AfterAuth(whose))
         PROVE  WizardInv'
    <2>1. PICK next : next = AfterAuth(isProfile, whose) OBVIOUS
    <2>2. next = Setup!AfterAuth(whose)
      BY <2>1 DEF AfterAuth, Naming, Setup!AfterAuth, Setup!Naming
    <2>3. /\ next \in Questions /\ next[2] \notin AgentKeys /\ next # Concurrency
          /\ Position(next) = IF whose = "server" THEN 10 ELSE IF isProfile THEN 31 ELSE 30
          /\ \A p : \A n \in 0..31 :
                n < Position(next) /\ n > Position(Setup!Question(whose, "passphrase")) => ~ PlanHas(p, isProfile, n)
      BY <2>1, OnScreen, AfterAuthPlace
    <2>4. /\ Position(Setup!Question(whose, "privateKeyPath")) = Position(agent) + 1
          /\ Position(Setup!Question(whose, "passphrase")) = Position(agent) + 2
      BY <1>7, Places DEF SideKeys, SideAt
    <2>5. Needs(agent) \subseteq Needs(next) BY <1>7, <2>3, <2>4, NeedsGrow
    <2>6. \A n \in 0..31 : n < Position(next) /\ n # Position(agent) /\ PlanHas(picked, isProfile, n) =>
                            n < Position(agent) \/ n \in {Position(agent) + 1, Position(agent) + 2}
      BY <1>7, <2>3, <2>4
    <2>7. Leads(agent, next, picked, picked, isProfile) BY <1>7, <2>3, <2>4, <2>5, <2>6, PlacesLead
    <2> QED BY <1>1, <1>2, <1>3, <1>5, <1>6, <1>7, <1>8, <1>9, <1>10, <2>2, <2>3, <2>7, OnScreen, Answered
  <1>11. CASE Setup!AnswerAgentManual
    BY <1>1, <1>4, <1>5, <1>10, <1>11 DEF Setup!AnswerAgentManual, Setup!Ask
  <1>12. CASE Setup!AnswerAgent
    <2>1. now = agent
      <3>1. now[2] = "agent" BY <1>1, <1>12 DEF Setup!AnswerAgent
      <3> QED BY <1>3, <1>5, <1>6, <1>7, <3>1
    <2>2. CASE given' = given \cup {now} /\ steps' = Append(steps, Setup!AfterAuth(whose))
      BY <1>10, <2>1, <2>2
    <2>3. CASE given' = given /\ steps' = Append(steps, manual)
      <3>1. UNCHANGED <<isProfile, phase, secrets, jumps, backed>> BY <1>9 DEF Setup!Kept
      <3>2. SecretsAsked' BY <1>9, <2>3 DEF WizardInv, SecretsAsked
      <3>3. NeedsMet(now) => NeedsMet(manual)' BY <1>8, <1>9, <2>1, <2>3, <3>1 DEF NeedsMet
      <3> HIDE DEF NeedsMet, SecretsAsked
      <3> QED BY <1>1, <1>2, <1>7, <1>8, <1>9, <2>1, <2>3, <3>1, <3>2, <3>3, OnScreen, Asked
    <2> QED BY <1>1, <1>4, <1>6, <1>12, <2>2, <2>3 DEF Setup!AnswerAgent, Setup!Ask
  <1> QED BY <1>11, <1>12

LEMMA PassphraseAnswers ==
    ASSUME WizardInv, \/ \E choice \in Passphrases : Setup!AnswerPassphrase(choice)
                      \/ Setup!AnswerPassphraseValue
    PROVE  WizardInv'
  <1>1. PICK now \in Questions : now = Setup!Now /\ now = steps[Len(steps)] BY OnScreen
  <1>2. PICK key \in {"passphrase", "passphraseValue"} : now[2] = key
    BY <1>1 DEF Setup!AnswerPassphrase, Setup!AnswerPassphraseValue
  <1>3. PICK whose \in {"server", "hop"} : now = Setup!Question(whose, key)
    BY <1>2 DEF Questions, Setup!General, Setup!Question, Setup!Sides, GeneralKeys
  <1>4. now[1] = whose /\ phase = "asking"
    BY <1>3 DEF Setup!Question, Setup!AnswerPassphrase, Setup!AnswerPassphraseValue
  <1>5. PICK after : after = AfterAuth(isProfile, whose) OBVIOUS
  <1>6. after = Setup!AfterAuth(whose)
    BY <1>5 DEF AfterAuth, Naming, Setup!AfterAuth, Setup!Naming
  <1>7. /\ after \in Questions /\ after[2] \notin AgentKeys /\ after # Concurrency
        /\ Position(after) = IF whose = "server" THEN 10 ELSE IF isProfile THEN 31 ELSE 30
        /\ \A p : \A n \in 0..31 :
              n < Position(after) /\ n > Position(Setup!Question(whose, "passphrase")) => ~ PlanHas(p, isProfile, n)
    BY <1>5, OnScreen, AfterAuthPlace
  <1>8. PICK value : value = Setup!Question(whose, "passphraseValue") OBVIOUS
  <1>9. PICK phrase : phrase = Setup!Question(whose, "passphrase") OBVIOUS
  <1>10. /\ value \in Questions /\ phrase \in Questions
         /\ Position(phrase) = (IF whose = "server" THEN 7 ELSE 27)
         /\ Position(value) = (IF whose = "server" THEN 8 ELSE 28)
         /\ value[2] = "passphraseValue" /\ phrase[2] = "passphrase"
         /\ value # Concurrency /\ phrase # Concurrency /\ value # phrase
    BY <1>8, <1>9, Places DEF SideKeys, SideAt, Setup!Question, Concurrency, Setup!General
  <1>11. CASE Setup!AnswerPassphraseValue
    <2>1. now = value BY <1>1, <1>2, <1>3, <1>8, <1>11 DEF Setup!AnswerPassphraseValue
    <2>2. given' = given \cup {now} /\ steps' = Append(steps, after) /\ picked' = picked /\ Setup!Kept
      BY <1>1, <1>4, <1>6, <1>11 DEF Setup!AnswerPassphraseValue, Setup!Ask
    <2>3. Needs(now) \subseteq Needs(after) BY <1>7, <1>10, <2>1, NeedsGrow DEF AgentKeys
    <2>4. \A n \in 0..31 : n < Position(after) /\ PlanHas(picked, isProfile, n) => n < Position(now)
      BY <1>7, <1>9, <1>10, <2>1
    <2>5. Leads(now, after, picked, picked, isProfile)
      BY <1>7, <1>10, <2>1, <2>3, <2>4, PlacesLead
    <2> QED BY <1>1, <1>4, <1>7, <1>10, <2>1, <2>2, <2>5, OnScreen, Answered
  <1>12. ASSUME NEW choice \in Passphrases, Setup!AnswerPassphrase(choice) PROVE WizardInv'
    <2>1. now = phrase BY <1>1, <1>2, <1>3, <1>9, <1>12 DEF Setup!AnswerPassphrase
    <2>2. PICK p2 : p2 = [picked EXCEPT ![whose].passphrase = choice] OBVIOUS
    <2>3. choice \in {"none", "prompt", "enter"}
      BY ConnectingAssumption DEF Setup!WizardAssumption
    <2>4. /\ p2 \in Setup!Picks /\ p2.mode = picked.mode
          /\ \A side \in Setup!Sides : side # whose => p2[side].passphrase = picked[side].passphrase
          /\ \A n \in 0..31 : PlanHas(p2, isProfile, n) => PlanHas(picked, isProfile, n)
      <3>1. picked \in Setup!Picks BY OnScreen
      <3>2. /\ p2 \in Setup!Picks /\ p2.mode = picked.mode /\ p2.protocol = picked.protocol
            /\ p2.advanced = picked.advanced /\ p2.hopEnabled = picked.hopEnabled
            /\ p2.server.method = picked.server.method /\ p2.hop.method = picked.hop.method
            /\ whose # "server" => p2.server = picked.server
            /\ whose # "hop" => p2.hop = picked.hop
        <4>1. CASE whose = "server" BY <2>2, <2>3, <3>1, <4>1 DEF Setup!Picks, Setup!Auth
        <4>2. CASE whose = "hop" BY <2>2, <2>3, <3>1, <4>2 DEF Setup!Picks, Setup!Auth
        <4> QED BY <4>1, <4>2
      <3>3. \A side \in Setup!Sides : side # whose => p2[side].passphrase = picked[side].passphrase
        BY <3>2 DEF Setup!Sides
      <3>4. \A n \in 0..31 : PlanHas(p2, isProfile, n) => PlanHas(picked, isProfile, n)
        BY <3>2 DEF PlanHas, SideHas
      <3> QED BY <3>2, <3>3, <3>4
    <2>5. PICK next : next = IF choice = "enter" THEN value ELSE after OBVIOUS
    <2>6. /\ given' = (given \cup {now}) \ (IF choice = "enter" THEN {} ELSE {value})
          /\ steps' = Append(steps, next) /\ picked' = p2 /\ Setup!Kept
      BY <1>1, <1>4, <1>6, <1>8, <1>12, <2>2, <2>5 DEF Setup!AnswerPassphrase, Setup!Ask
    <2>7. next \in Questions /\ next[2] \notin AgentKeys /\ next # Concurrency
          /\ Position(next) > Position(now) /\ Position(next) <= Position(after)
      BY <1>7, <1>10, <2>1, <2>5 DEF AgentKeys
    <2>8. Needs(now) \subseteq Needs(next) BY <1>10, <2>1, <2>7, NeedsGrow, Places DEF AgentKeys
    <2>9. \A n \in 0..31 : n < Position(next) /\ n # Position(now) /\ PlanHas(p2, isProfile, n) =>
                            PlanHas(picked, isProfile, n) /\ n < Position(now)
      BY <1>7, <1>9, <1>10, <2>1, <2>4, <2>7, Places
    <2>10. Leads(now, next, picked, p2, isProfile)
      BY <1>10, <2>1, <2>7, <2>8, <2>9, PlacesLead
    <2>11. \A side \in Setup!Sides : \/ picked'[side].passphrase = picked[side].passphrase
                                      \/ now = Setup!Question(side, "passphrase")
      BY <1>9, <2>1, <2>4, <2>6
    <2>12. /\ given' \subseteq given \cup {now} /\ now \in given'
           /\ \A q \in given : \/ q \in given'
                               \/ q[2] = "passphraseValue"
                               \/ q = Concurrency /\ picked'.mode # "stream"
      BY <1>10, <2>1, <2>6
    <2>13. Leads(now, next, picked, picked', isProfile) /\ picked' \in Setup!Picks
           /\ picked'.mode = picked.mode /\ next # Concurrency /\ now # Concurrency
      BY <1>10, <2>1, <2>4, <2>6, <2>7, <2>10
    <2>14. steps' = Append(steps, next) /\ Setup!Kept BY <2>6
    <2> QED BY <1>1, <1>4, <2>11, <2>12, <2>13, <2>14, Answered
  <1> QED BY <1>11, <1>12

LEMMA AdvancedAnswer ==
    ASSUME WizardInv, NEW yes \in BOOLEAN, Setup!AnswerAdvanced(yes)
    PROVE  WizardInv'
  <1>1. PICK now \in Questions : now = Setup!Now /\ now = steps[Len(steps)] BY OnScreen
  <1>2. now = Setup!General("advancedGate") /\ phase = "asking" BY <1>1 DEF Setup!AnswerAdvanced
  <1>3. PICK next : next = IF yes THEN Setup!General("ignore") ELSE Naming(isProfile) OBVIOUS
  <1>4. /\ next \in Questions /\ Position(now) = 12
        /\ Position(next) = IF yes THEN 13 ELSE IF isProfile THEN 31 ELSE 30
    BY <1>2, <1>3, Places DEF GeneralKeys, GeneralAt, Naming, Setup!Review
  <1>5. now[2] \notin AgentKeys /\ next[2] \notin AgentKeys /\ next # Concurrency /\ now # Concurrency
    BY <1>2, <1>3 DEF Setup!General, AgentKeys, Concurrency, Naming, Setup!Review
  <1>6. PICK p2 : p2 = [picked EXCEPT !.advanced = yes] OBVIOUS
  <1>7. p2 \in Setup!Picks /\ p2.mode = picked.mode /\ p2.server = picked.server /\ p2.hop = picked.hop
        /\ p2.advanced = yes /\ p2.protocol = picked.protocol
    BY <1>6, OnScreen DEF Setup!Picks
  <1>8. /\ picked' = p2 /\ given' = given \cup {now} /\ steps' = Append(steps, next) /\ Setup!Kept
    BY <1>1, <1>3, <1>6 DEF Setup!AnswerAdvanced, Setup!Ask, Naming, Setup!Naming
  <1>9. Needs(now) \subseteq Needs(next) BY <1>4, <1>5, NeedsGrow
  <1>10. \A n \in 0..31 : n < Position(next) /\ n # Position(now) /\ PlanHas(p2, isProfile, n) =>
                          PlanHas(picked, isProfile, n) /\ n < Position(now)
    <2> SUFFICES ASSUME NEW n \in 0..31, n < Position(next), n # 12, PlanHas(p2, isProfile, n)
                 PROVE  PlanHas(picked, isProfile, n) /\ n < 12
      BY <1>4
    <2>1. n < 12
      <3>1. CASE yes BY <1>4, <3>1
      <3>2. CASE ~ yes
        <4>1. n \notin 13..29 BY <1>7, <3>2 DEF PlanHas
        <4>2. n # 30 \/ isProfile BY <1>4, <3>2
        <4>3. n # 31 BY <1>4, <3>2
        <4>4. n = 30 => ~ isProfile BY <1>7, <3>2 DEF PlanHas
        <4> QED BY <4>1, <4>2, <4>3, <4>4
      <3> QED BY <3>1, <3>2
    <2> QED BY <1>7, <2>1 DEF PlanHas
  <1>11. Leads(now, next, picked, p2, isProfile) BY <1>4, <1>5, <1>9, <1>10, PlacesLead DEF AgentKeys
  <1>12. \A whose \in Setup!Sides : picked'[whose].passphrase = picked[whose].passphrase
    BY <1>7, <1>8 DEF Setup!Sides
  <1> QED BY <1>1, <1>2, <1>5, <1>7, <1>8, <1>11, <1>12, Answered

LEMMA HopGateAnswer ==
    ASSUME WizardInv, NEW yes \in BOOLEAN, Setup!AnswerHopGate(yes)
    PROVE  WizardInv'
  <1>1. PICK now \in Questions : now = Setup!Now /\ now = steps[Len(steps)] BY OnScreen
  <1>2. now = Setup!General("hopGate") /\ phase = "asking" BY <1>1 DEF Setup!AnswerHopGate
  <1>3. PICK next : next = IF yes THEN Setup!Hop("host") ELSE Naming(isProfile) OBVIOUS
  <1>4. /\ next \in Questions /\ Position(now) = 18
        /\ Position(next) = IF yes THEN 21 ELSE IF isProfile THEN 31 ELSE 30
    BY <1>2, <1>3, Places
       DEF GeneralKeys, GeneralAt, SideKeys, SideAt, Naming, Setup!Review, Setup!Hop, Setup!Question
  <1>5. now[2] \notin AgentKeys /\ next[2] \notin AgentKeys /\ next # Concurrency /\ now # Concurrency
    BY <1>2, <1>3 DEF Setup!General, Setup!Hop, AgentKeys, Concurrency, Naming, Setup!Review
  <1>6. PICK p2 : p2 = [picked EXCEPT !.hopEnabled = yes] OBVIOUS
  <1>7. p2 \in Setup!Picks /\ p2.mode = picked.mode /\ p2.server = picked.server /\ p2.hop = picked.hop
        /\ p2.advanced = picked.advanced /\ p2.protocol = picked.protocol /\ p2.hopEnabled = yes
    BY <1>6, OnScreen DEF Setup!Picks
  <1>8. /\ picked' = p2 /\ given' = given \cup {now} /\ steps' = Append(steps, next) /\ Setup!Kept
    BY <1>1, <1>3, <1>6 DEF Setup!AnswerHopGate, Setup!Ask, Naming, Setup!Naming
  <1>9. Needs(now) \subseteq Needs(next) BY <1>4, <1>5, NeedsGrow
  <1>10. \A n \in 0..31 : n < Position(next) /\ n # Position(now) /\ PlanHas(p2, isProfile, n) =>
                          PlanHas(picked, isProfile, n) /\ n < Position(now)
    <2> SUFFICES ASSUME NEW n \in 0..31, n < Position(next), n # 18, PlanHas(p2, isProfile, n)
                 PROVE  PlanHas(picked, isProfile, n) /\ n < 18
      BY <1>4
    <2>1. n < 18
      <3>1. n \notin 19..20 BY DEF PlanHas
      <3>2. CASE yes BY <1>4, <3>1, <3>2
      <3>3. CASE ~ yes
        <4>1. n \notin 19..29 BY <1>7, <3>3 DEF PlanHas
        <4>2. n # 30 \/ isProfile BY <1>4, <3>3
        <4>3. n # 31 BY <1>4, <3>3
        <4>4. n = 30 => ~ isProfile BY <1>7, <3>3 DEF PlanHas
        <4> QED BY <4>1, <4>2, <4>3, <4>4
      <3> QED BY <3>2, <3>3
    <2> QED BY <1>7, <2>1 DEF PlanHas
  <1>11. Leads(now, next, picked, p2, isProfile) BY <1>4, <1>5, <1>9, <1>10, PlacesLead DEF AgentKeys
  <1>12. \A whose \in Setup!Sides : picked'[whose].passphrase = picked[whose].passphrase
    BY <1>7, <1>8 DEF Setup!Sides
  <1> QED BY <1>1, <1>2, <1>5, <1>7, <1>8, <1>11, <1>12, Answered

(* After the options for transfers.                                                     *)
LEMMA AfterTransferPlace ==
    ASSUME NEW p \in Setup!Picks, NEW profile \in BOOLEAN, NEW next, next = AfterTransfer(p, profile)
    PROVE  /\ next \in Questions /\ next[2] \notin AgentKeys /\ next # Concurrency
           /\ Position(next) > 16
           /\ \A n \in 0..31 : n < Position(next) /\ n > 16 => ~ PlanHas(p, profile, n)
  <1>1. Position(next) = IF p.protocol = "sftp" THEN 17 ELSE IF profile THEN 31 ELSE 30
    BY Places DEF GeneralKeys, GeneralAt, Naming, Setup!Review, AfterTransfer
  <1>2. next \in Questions /\ next[2] \notin AgentKeys /\ next # Concurrency
    <2>1. next \in {Setup!General("strictHostKeyChecking"), Setup!General("name"), Setup!General("review")}
      BY DEF Naming, Setup!Review, AfterTransfer
    <2> QED BY <2>1, Places DEF GeneralKeys, Setup!General, AgentKeys, Concurrency
  <1>3. ASSUME NEW n \in 0..31, n < Position(next), n > 16 PROVE ~ PlanHas(p, profile, n)
    <2>1. CASE p.protocol = "sftp" BY <1>1, <1>3, <2>1
    <2>2. CASE p.protocol # "sftp"
      <3>1. n # 31 /\ (n = 30 => profile) BY <1>1, <1>3, <2>2
      <3>2. PlanHas(p, profile, n) => n = 30 /\ ~ profile BY <1>3, <2>2 DEF PlanHas
      <3> QED BY <3>1, <3>2
    <2> QED BY <2>1, <2>2
  <1> QED BY <1>1, <1>2, <1>3

LEMMA ConcurrencyAnswer ==
    ASSUME WizardInv, Setup!AnswerConcurrency
    PROVE  WizardInv'
  <1>1. PICK now \in Questions : now = Setup!Now /\ now = steps[Len(steps)] BY OnScreen
  <1>2. now = Concurrency /\ phase = "asking" BY <1>1 DEF Setup!AnswerConcurrency, Concurrency
  <1>3. PICK next : next = AfterTransfer(picked, isProfile) OBVIOUS
  <1>4. /\ next \in Questions /\ next[2] \notin AgentKeys /\ next # Concurrency /\ Position(next) > 16
        /\ \A n \in 0..31 : n < Position(next) /\ n > 16 => ~ PlanHas(picked, isProfile, n)
    BY <1>3, OnScreen, AfterTransferPlace
  <1>5. Position(now) = 16 /\ now[2] = "concurrency"
    BY <1>2, Places DEF GeneralKeys, GeneralAt, Concurrency, Setup!General
  <1>6. picked' = picked /\ given' = given \cup {now} /\ steps' = Append(steps, next) /\ Setup!Kept
    BY <1>1, <1>3, OnScreen
       DEF Setup!AnswerConcurrency, Setup!Ask, AfterTransfer, Setup!AfterTransfer, Naming, Setup!Naming
  <1>7. Needs(now) \subseteq Needs(next) BY <1>4, <1>5, NeedsGrow, Places DEF AgentKeys
  <1>8. \A n \in 0..31 : n < Position(next) /\ n # Position(now) /\ PlanHas(picked, isProfile, n)
                         => n < Position(now)
    BY <1>4, <1>5
  <1>9. Leads(now, next, picked, picked, isProfile) BY <1>4, <1>5, <1>7, <1>8, PlacesLead
  <1> QED BY <1>1, <1>2, <1>4, <1>5, <1>6, <1>9, OnScreen, Answered

LEMMA ModeAnswer ==
    ASSUME WizardInv, NEW mode \in {"auto", "stream"}, Setup!AnswerMode(mode)
    PROVE  WizardInv'
  <1>1. PICK now \in Questions : now = Setup!Now /\ now = steps[Len(steps)] BY OnScreen
  <1>2. now = Setup!General("transferMode") /\ phase = "asking" BY <1>1 DEF Setup!AnswerMode
  <1>3. PICK p2 : p2 = [picked EXCEPT !.mode = mode] OBVIOUS
  <1>4. /\ p2 \in Setup!Picks /\ p2.mode = mode /\ p2.server = picked.server /\ p2.hop = picked.hop
        /\ p2.advanced = picked.advanced /\ p2.protocol = picked.protocol
    BY <1>3, OnScreen DEF Setup!Picks
  <1>5. PICK after : after = AfterTransfer(p2, isProfile) OBVIOUS
  <1>6. /\ after \in Questions /\ after[2] \notin AgentKeys /\ after # Concurrency /\ Position(after) > 16
        /\ \A n \in 0..31 : n < Position(after) /\ n > 16 => ~ PlanHas(p2, isProfile, n)
    BY <1>4, <1>5, OnScreen, AfterTransferPlace
  <1>7. PICK next : next = IF mode = "stream" THEN Concurrency ELSE after OBVIOUS
  <1>8. /\ Position(now) = 15 /\ now[2] = "transferMode" /\ now # Concurrency
        /\ Concurrency \in Questions /\ Position(Concurrency) = 16 /\ Concurrency[2] = "concurrency"
    BY <1>2, Places DEF GeneralKeys, GeneralAt, Concurrency, Setup!General
  <1>9. /\ picked' = p2 /\ given' = (given \cup {now}) \ (IF mode = "auto" THEN {Concurrency} ELSE {})
        /\ steps' = Append(steps, next) /\ Setup!Kept
    BY <1>1, <1>3, <1>4, <1>5, <1>7, OnScreen
       DEF Setup!AnswerMode, Setup!Ask, Setup!Forgotten, Setup!AfterMode, AfterTransfer, Setup!AfterTransfer,
           Naming, Setup!Naming, Concurrency
  <1>10. next \in Questions /\ next[2] \notin AgentKeys /\ Position(next) > 15
         /\ Position(next) >= 16 /\ (mode = "stream" => Position(next) = 16)
    BY <1>6, <1>7, <1>8, Places DEF AgentKeys
  <1>11. Needs(now) \subseteq Needs(next) BY <1>8, <1>10, NeedsGrow, Places DEF AgentKeys
  <1>12. \A n \in 0..31 : n < Position(next) /\ n # Position(now) /\ PlanHas(p2, isProfile, n) =>
                          PlanHas(picked, isProfile, n) /\ n < Position(now)
    <2> SUFFICES ASSUME NEW n \in 0..31, n < Position(next), n # 15, PlanHas(p2, isProfile, n)
                 PROVE  PlanHas(picked, isProfile, n) /\ n < 15
      BY <1>8
    <2>1. n < 15
      <3>1. CASE mode = "stream" BY <1>10, <3>1
      <3>2. CASE mode = "auto"
        <4>1. n # 16 BY <1>4, <3>2 DEF PlanHas
        <4> QED BY <1>6, <1>7, <3>2, <4>1
      <3> QED BY <3>1, <3>2
    <2> QED BY <1>4, <2>1 DEF PlanHas
  <1>13. Leads(now, next, picked, p2, isProfile) BY <1>8, <1>10, <1>11, <1>12, PlacesLead DEF AgentKeys
  <1>14. /\ Leads(now, next, picked, picked', isProfile) /\ picked' \in Setup!Picks
         /\ \A whose \in Setup!Sides : picked'[whose].passphrase = picked[whose].passphrase
    BY <1>4, <1>9, <1>13 DEF Setup!Sides
  <1>15. /\ given' \subseteq given \cup {now} /\ now \in given'
         /\ \A q \in given : \/ q \in given'
                             \/ q[2] = "passphraseValue"
                             \/ q = Concurrency /\ picked'.mode # "stream"
         /\ next = Concurrency => picked'.mode = "stream"
         /\ Concurrency \in given' => picked'.mode = "stream"
    BY <1>4, <1>6, <1>7, <1>8, <1>9
  <1>16. steps' = Append(steps, next) /\ Setup!Kept BY <1>9
  <1> QED BY <1>1, <1>2, <1>8, <1>14, <1>15, <1>16, Answered

LEMMA WizardInit == Setup!Init => WizardInv
  <1> SUFFICES ASSUME Setup!Init PROVE WizardInv OBVIOUS
  <1>1. isProfile \in BOOLEAN /\ picked = (IF isProfile THEN Setup!FromBase ELSE Setup!NoPicks)
        /\ given = (IF isProfile THEN Setup!GivenByBase ELSE {})
        /\ steps = <<Setup!General("protocol")>> /\ phase = "asking" /\ secrets = {}
        /\ jumps = 0 /\ backed = FALSE
    BY ConnectingAssumption DEF Setup!Init, Setup!WizardAssumption
  <1>2. picked \in Setup!Picks
    BY <1>1 DEF Setup!FromBase, Setup!NoPicks, Setup!NoAuth, Setup!Picks, Setup!Auth
  <1>3. Setup!General("protocol") \in Questions /\ Position(Setup!General("protocol")) = 0
        /\ Setup!General("protocol") # Concurrency /\ Setup!General("protocol")[2] = "protocol"
    BY Places DEF GeneralKeys, GeneralAt, Concurrency, Setup!General
  <1>4. WizardTypes
    <2>1. steps \in Seq(Questions) /\ steps # <<>> /\ Len(steps) = 1 BY <1>1, <1>3
    <2>2. given \subseteq Questions
      BY <1>1, Places DEF Setup!GivenByBase, Setup!Server, Setup!Question, GeneralKeys, SideKeys
    <2>3. jumps \in Nat /\ backed \in BOOLEAN /\ phase = "asking" /\ secrets \subseteq Setup!Sides BY <1>1
    <2> QED BY <1>1, <1>2, <2>1, <2>2, <2>3 DEF WizardTypes
  <1>5. ChainHolds BY <1>1, <1>3 DEF ChainHolds
  <1>6. AnswersHold
    <2>1. Needs(Setup!General("protocol")) = {} BY <1>3, Places DEF Needs
    <2>2. Concurrency \notin given
      BY <1>1 DEF Setup!GivenByBase, Concurrency, Setup!General, Setup!Server
    <2> QED BY <1>1, <1>3, <2>1, <2>2 DEF AnswersHold, NeedsMet
  <1>7. SecretsAsked
    <2>1. CASE isProfile
      <3>1. picked.hop.passphrase = "unset" BY <1>1, <2>1 DEF Setup!FromBase, Setup!NoPicks, Setup!NoAuth
      <3>2. Setup!Question("server", "passphrase") \in given
        BY <1>1, <2>1 DEF Setup!GivenByBase, Setup!Server, Setup!Question
      <3> QED BY <3>1, <3>2 DEF SecretsAsked, Setup!Sides
    <2>2. CASE ~ isProfile
      BY <1>1, <2>2 DEF SecretsAsked, Setup!NoPicks, Setup!NoAuth, Setup!Sides
    <2> QED BY <2>1, <2>2
  <1> QED BY <1>1, <1>4, <1>5, <1>6, <1>7 DEF WizardInv, WrittenHolds, Setup!Wrote

(* Before anything was jumped to, Back returns to a question that needs no more.       *)
LEMMA BackStep ==
    ASSUME WizardInv, Setup!Back
    PROVE  WizardInv'
  <1>1. PICK n \in Nat : n = Len(steps) /\ n > 1 /\ steps \in Seq(Questions)
    BY DEF WizardInv, WizardTypes, Setup!Back
  <1>2. steps' = SubSeq(steps, 1, n - 1) BY <1>1 DEF Setup!Back, Setup!Front
  <1>3. /\ steps' \in Seq(Questions) /\ Len(steps') = n - 1 /\ steps' # <<>>
        /\ \A i \in 1..(n - 1) : steps'[i] = steps[i]
    <2>1. n - 1 \in 1..Len(steps) BY <1>1
    <2>2. \A i \in 1..(n - 1) : steps[i] \in Questions BY <1>1
    <2>3. steps' = [i \in 1..(n - 1) |-> steps[i]] BY <1>1, <1>2, <2>1
    <2>4. steps' \in Seq(Questions) /\ Len(steps') = n - 1 BY <1>1, <2>2, <2>3
    <2>5. steps' # <<>> BY <1>1, <2>4
    <2>6. \A i \in 1..(n - 1) : steps'[i] = steps[i] BY <2>3
    <2> QED BY <2>4, <2>5, <2>6
  <1>4. /\ UNCHANGED <<isProfile, picked, given, phase, written, secrets, jumps>>
        /\ backed' = (backed \/ jumps > 0) /\ phase = "asking"
    BY DEF Setup!Back
  <1>5. WizardTypes' BY <1>3, <1>4 DEF WizardInv, WizardTypes
  <1>6. ChainHolds'
    <2>1. 1..(n - 1) \subseteq 1..Len(steps) BY <1>1
    <2> QED BY <1>3, <1>4, <2>1 DEF WizardInv, ChainHolds
  <1>7. AnswersHold'
    <2>1. SUFFICES ASSUME ~ backed' PROVE AnswersHold' BY DEF AnswersHold
    <2>2. jumps = 0 /\ ~ backed
      <3>1. ~ backed /\ ~ (jumps > 0) BY <1>4, <2>1, Zenon
      <3>2. jumps \in Nat BY DEF WizardInv, WizardTypes
      <3> QED BY <3>1, <3>2
    <2>3. Needs(steps[n - 1]) \subseteq Needs(steps[n])
      <3>1. n - 1 \in 1..Len(steps) /\ n \in 1..Len(steps) /\ n - 1 <= n BY <1>1
      <3> QED BY <2>2, <3>1 DEF WizardInv, ChainHolds
    <2>4. PlanSet(picked, isProfile) \cap Needs(steps[n]) \subseteq given
      BY <1>1, <2>2 DEF WizardInv, AnswersHold, NeedsMet
    <2>5. NeedsMet(steps[Len(steps)])' BY <1>1, <1>3, <1>4, <2>3, <2>4 DEF NeedsMet
    <2>6. steps[n - 1] = Concurrency \/ Concurrency \in given => picked.mode = "stream"
      BY <1>1, <2>2 DEF WizardInv, ChainHolds, AnswersHold
    <2> HIDE DEF NeedsMet
    <2> QED BY <1>1, <1>3, <1>4, <2>5, <2>6 DEF AnswersHold
  <1>8. SecretsAsked' BY <1>4 DEF WizardInv, SecretsAsked
  <1>9. WrittenHolds' BY <1>4 DEF WrittenHolds, Setup!Wrote
  <1> QED BY <1>5, <1>6, <1>7, <1>8, <1>9 DEF WizardInv

LEMMA ReviewNeedsAll ==
    /\ Setup!Review \in Questions /\ Setup!Review # Concurrency
    /\ \A p, profile : PlanSet(p, profile) \subseteq Needs(Setup!Review)
    /\ \A q \in Questions : q[2] \notin AgentKeys => Needs(q) \subseteq Needs(Setup!Review)
  <1>1. /\ Setup!Review \in Questions /\ Position(Setup!Review) = 31 /\ Setup!Review # Concurrency
        /\ Setup!Review[2] = "review"
    BY Places DEF GeneralKeys, GeneralAt, Setup!Review, Concurrency, Setup!General
  <1>2. ASSUME NEW p, NEW profile, NEW x \in PlanSet(p, profile) PROVE x \in Needs(Setup!Review)
    <2>1. x \in Questions /\ PlanHas(p, profile, Position(x)) BY PlanPlaces
    <2>2. PICK n \in 0..31 : n = Position(x) /\ PlanHas(p, profile, n) BY <2>1, Places
    <2>3. n # 31 BY <2>2 DEF PlanHas
    <2> QED BY <1>1, <2>1, <2>2, <2>3 DEF Needs
  <1>3. ASSUME NEW q \in Questions, q[2] \notin AgentKeys PROVE Needs(q) \subseteq Needs(Setup!Review)
    BY <1>1, <1>3, Places DEF Needs, AgentKeys
  <1> QED BY <1>1, <1>2, <1>3

(* From the review, where all is answered, to a question, or to a run of its own.       *)
LEMMA JumpSteps ==
    ASSUME WizardInv, Setup!Jump \/ Setup!Retry
    PROVE  WizardInv'
  <1>1. steps[Len(steps)] = Setup!Review
    <2>1. CASE Setup!Jump BY <2>1, OnScreen DEF Setup!Jump
    <2>2. CASE Setup!Retry BY <2>2 DEF Setup!Retry, Setup!Wrote, WizardInv, WrittenHolds
    <2> QED BY <2>1, <2>2
  <1>2. ~ backed => PlanSet(picked, isProfile) \subseteq given
    BY <1>1, ReviewNeedsAll DEF WizardInv, AnswersHold, NeedsMet
  <1>3. PICK next \in Questions :
           /\ next # Concurrency
           /\ steps' = Append(steps, next) \/ steps' = <<next>>
    <2>1. CASE Setup!Jump
      <3>1. PICK to \in {Setup!Server("host"), Setup!General("remotePath"), Setup!General("uploadOnSave"),
                         Setup!General("advancedGate"), Setup!Hop("host"), Setup!General("name")} :
               steps' = Append(steps, to)
        BY <2>1 DEF Setup!Jump, Setup!Ask
      <3>2. to \in {Setup!Question("server", "host"), Setup!Question("hop", "host")}
            \/ \E key \in {"remotePath", "uploadOnSave", "advancedGate", "name"} : to = Setup!General(key)
        BY <3>1 DEF Setup!Server, Setup!Hop, Setup!Question
      <3>3. to \in Questions BY <3>2, Places DEF GeneralKeys, SideKeys
      <3>4. to # Concurrency BY <3>2 DEF Concurrency, Setup!General, Setup!Question
      <3> QED BY <3>1, <3>3, <3>4
    <2>2. CASE Setup!Retry BY <2>2, ReviewNeedsAll DEF Setup!Retry
    <2> QED BY <2>1, <2>2
  <1>4. /\ UNCHANGED <<isProfile, picked, given, written, secrets, backed>>
        /\ phase' = "asking" /\ jumps' = jumps + 1
    BY DEF Setup!Jump, Setup!Retry
  <1>5. steps \in Seq(Questions) BY DEF WizardInv, WizardTypes
  <1>6. steps' \in Seq(Questions) /\ steps' # <<>> /\ steps'[Len(steps')] = next
    <2>1. CASE steps' = Append(steps, next) BY <1>5, <2>1
    <2>2. CASE steps' = <<next>> BY <2>2
    <2> QED BY <1>3, <2>1, <2>2
  <1>7. WizardTypes' BY <1>4, <1>6 DEF WizardInv, WizardTypes
  <1>8. ChainHolds' BY <1>4 DEF WizardInv, WizardTypes, ChainHolds
  <1>9. AnswersHold' BY <1>2, <1>3, <1>4, <1>6 DEF WizardInv, AnswersHold, NeedsMet
  <1>10. SecretsAsked' BY <1>4 DEF WizardInv, SecretsAsked
  <1>11. WrittenHolds' BY <1>4 DEF WrittenHolds, Setup!Wrote
  <1> QED BY <1>7, <1>8, <1>9, <1>10, <1>11 DEF WizardInv

LEMMA EndSteps ==
    ASSUME WizardInv, Setup!Cancel \/ Setup!Finish \/ Setup!Fails
    PROVE  WizardInv'
  <1>1. /\ UNCHANGED <<isProfile, picked, given, steps, jumps, backed>>
        /\ phase' \in {"cancelled", "done", "unstored", "failed"}
    BY DEF Setup!Cancel, Setup!Finish, Setup!Fails
  <1>2. secrets' \subseteq Setup!Sides
    BY DEF WizardInv, WizardTypes, Setup!Cancel, Setup!Finish, Setup!Fails, Setup!PendingSecrets, Setup!Sides
  <1>3. WizardTypes' BY <1>1, <1>2 DEF WizardInv, WizardTypes
  <1>4. ChainHolds' BY <1>1 DEF WizardInv, ChainHolds
  <1>5. AnswersHold' BY <1>1 DEF WizardInv, AnswersHold, NeedsMet
  <1>6. SecretsAsked' BY <1>1 DEF WizardInv, SecretsAsked
  <1>7. WrittenHolds'
    <2>1. CASE Setup!Finish
      <3>1. steps[Len(steps)] = Setup!Review /\ ~ Setup!NoKeyPath /\ written' = Setup!BuildConfig
        BY <2>1, OnScreen DEF Setup!Finish
      <3>2. Setup!NoKeyPath' <=> Setup!NoKeyPath
        BY <1>1 DEF Setup!NoKeyPath, Setup!WithHop, Setup!Sftp
      <3>3. Setup!BuildConfig' = Setup!BuildConfig
        BY <1>1 DEF Setup!BuildConfig, Setup!HostAuthConfig, Setup!WithHop, Setup!Sftp
      <3> QED BY <1>1, <3>1, <3>2, <3>3 DEF WrittenHolds
    <2>2. CASE Setup!Cancel \/ Setup!Fails BY <2>2 DEF Setup!Cancel, Setup!Fails, Setup!Wrote, WrittenHolds
    <2> QED BY <2>1, <2>2
  <1> QED BY <1>3, <1>4, <1>5, <1>6, <1>7 DEF WizardInv

LEMMA WizardNext ==
    ASSUME WizardInv, Setup!Next
    PROVE  WizardInv'
  <1>1. ASSUME NEW yes \in BOOLEAN, Setup!AnswerAdvanced(yes) \/ Setup!AnswerHopGate(yes) PROVE WizardInv'
    BY <1>1, AdvancedAnswer, HopGateAnswer
  <1>2. ASSUME NEW mode \in {"auto", "stream"}, Setup!AnswerMode(mode) PROVE WizardInv'
    BY <1>2, ModeAnswer
  <1>3. ASSUME NEW method \in {"password", "key", "agent"}, Setup!AnswerAuthMethod(method) PROVE WizardInv'
    BY <1>3, AuthMethodAnswer
  <1>4. ASSUME NEW protocol \in {"sftp", "ftp"}, Setup!AnswerProtocol(protocol) PROVE WizardInv'
    BY <1>4, ProtocolAnswer
  <1>5. CASE Setup!AnswerGeneral \/ Setup!AnswerSided \/ Setup!AnswerName BY <1>5, PlainAnswers
  <1>6. CASE Setup!AnswerUsername BY <1>6, UsernameAnswer
  <1>7. CASE Setup!AnswerAgent \/ Setup!AnswerAgentManual BY <1>7, AgentAnswers
  <1>8. CASE Setup!AnswerConcurrency BY <1>8, ConcurrencyAnswer
  <1>9. CASE Setup!AnswerPassphraseValue \/ \E choice \in Passphrases : Setup!AnswerPassphrase(choice)
    BY <1>9, PassphraseAnswers
  <1>10. CASE Setup!Back BY <1>10, BackStep
  <1>11. CASE Setup!Jump \/ Setup!Retry BY <1>11, JumpSteps
  <1>12. CASE Setup!Cancel \/ Setup!Finish \/ Setup!Fails BY <1>12, EndSteps
  <1> HIDE DEF WizardInv
  <1> QED BY <1>1, <1>2, <1>3, <1>4, <1>5, <1>6, <1>7, <1>8, <1>9, <1>10, <1>11, <1>12 DEF Setup!Next

(* The config is made of answers that were given, of questions the plan has.             *)
LEMMA WizardTyped == WizardInv => Setup!TypeOK
  <1> SUFFICES ASSUME WizardInv PROVE Setup!TypeOK OBVIOUS
  <1>1. ASSUME Setup!Wrote PROVE written \subseteq given \cup {Setup!General("strictHostKeyChecking")}
    <2>1. written = Setup!BuildConfig /\ ~ Setup!NoKeyPath BY <1>1 DEF WizardInv, WrittenHolds
    <2>2. ASSUME NEW whose \in Setup!Sides, whose = "hop" => Setup!WithHop
          PROVE  Setup!HostAuthConfig(whose) \subseteq given
      <3>1. picked[whose].method = "key" => Setup!Question(whose, "privateKeyPath") \in given
        BY <2>1, <2>2 DEF Setup!NoKeyPath, Setup!Sides
      <3>2. picked[whose].passphrase \in {"prompt", "enter"} => Setup!Question(whose, "passphrase") \in given
        BY DEF WizardInv, SecretsAsked
      <3> QED BY <3>1, <3>2 DEF Setup!HostAuthConfig
    <2>3. Setup!HostAuthConfig("server") \subseteq given BY <2>2 DEF Setup!Sides
    <2>4. Setup!WithHop => Setup!HostAuthConfig("hop") \subseteq given BY <2>2 DEF Setup!Sides
    <2> QED BY <2>1, <2>3, <2>4 DEF Setup!BuildConfig
  <1> QED BY <1>1 DEF WizardInv, WizardTypes, Setup!TypeOK

LEMMA WizardSound == WizardInv => Setup!PlanIsAnswered /\ Setup!OnlyPlannedIsWritten
  <1> SUFFICES ASSUME WizardInv, Setup!Wrote
               PROVE  Setup!PlanIsAnswered /\ Setup!OnlyPlannedIsWritten
    BY DEF Setup!PlanIsAnswered, Setup!OnlyPlannedIsWritten
  <1>1. steps[Len(steps)] = Setup!Review /\ written = Setup!BuildConfig BY DEF WizardInv, WrittenHolds
  <1>2. Setup!PlanIsAnswered
    BY <1>1, PlanAsSet, ReviewNeedsAll DEF WizardInv, AnswersHold, NeedsMet, Setup!PlanIsAnswered
  <1>3. ASSUME NEW q \in written, q \notin PlanSet(picked, isProfile), q # Setup!General("name")
        PROVE  q \in {Setup!General("strictHostKeyChecking")}
                     \cup (IF Setup!Sftp THEN {} ELSE {Setup!Server("privateKeyPath"), Setup!Server("passphrase"), Setup!Server("agent")})
                     \cup (IF backed THEN {Setup!General("concurrency")} ELSE {})
    <2>1. CASE q \in Setup!HostAuthConfig("server")
      <3>1. q \notin HostQuestions("server") BY <1>3 DEF PlanSet
      <3>2. Setup!Sftp => q \notin AuthQuestions(picked, "server") BY <1>3 DEF PlanSet, Setup!Sftp
      <3>3. q \in HostQuestions("server")
            \/ (picked["server"].method = "key" /\ q \in {Setup!Question("server", "privateKeyPath"), Setup!Question("server", "passphrase")})
            \/ (picked["server"].method = "agent" /\ q = Setup!Question("server", "agent"))
        <4>1. \A k \in given : k[1] = "server" /\ k[2] \in {"host", "port", "username"} /\ k \in Questions => k \in HostQuestions("server")
          BY DEF HostQuestions, Questions, Setup!Question, Setup!General, Setup!Sides
        <4>2. given \subseteq Questions BY DEF WizardInv, WizardTypes
        <4> QED BY <2>1, <4>1, <4>2 DEF Setup!HostAuthConfig
      <3> QED BY <3>1, <3>2, <3>3 DEF AuthQuestions, Setup!Server, Setup!Question
    <2>2. CASE q \in {Setup!General(key) : key \in {"name", "protocol", "remotePath", "uploadOnSave"}}
      BY <1>3, <2>2 DEF PlanSet
    <2>3. CASE q = Setup!General("strictHostKeyChecking") BY <2>3
    <2>4. CASE picked.advanced
               /\ q \in {Setup!General(key) : key \in {"ignore", "syncOption", "transferMode", "concurrency"}} \cap given
      <3>1. AdvancedQuestions(picked) \subseteq PlanSet(picked, isProfile) BY <2>4 DEF PlanSet
      <3>2. q = Setup!General("concurrency") /\ picked.mode # "stream"
        BY <1>3, <2>4, <3>1 DEF AdvancedQuestions
      <3>3. backed BY <2>4, <3>2 DEF WizardInv, AnswersHold, Concurrency
      <3> QED BY <3>2, <3>3
    <2>5. CASE Setup!WithHop /\ q \in Setup!HostAuthConfig("hop")
      <3>1. HopQuestions(picked) \subseteq PlanSet(picked, isProfile)
        BY <2>5 DEF PlanSet, AdvancedQuestions, SshQuestions, Setup!WithHop, Setup!Sftp
      <3>2. \A k \in given : k[1] = "hop" /\ k[2] \in {"host", "port", "username"} /\ k \in Questions
                            => k \in HostQuestions("hop")
        BY DEF HostQuestions, Questions, Setup!Question, Setup!General, Setup!Sides
      <3>3. given \subseteq Questions BY DEF WizardInv, WizardTypes
      <3>4. q \in HopQuestions(picked)
        BY <2>5, <3>2, <3>3 DEF Setup!HostAuthConfig, HopQuestions, AuthQuestions
      <3> QED BY <1>3, <3>1, <3>4
    <2> QED BY <1>1, <2>1, <2>2, <2>3, <2>4, <2>5 DEF Setup!BuildConfig
  <1> QED BY <1>2, <1>3, PlanAsSet DEF Setup!OnlyPlannedIsWritten, Setup!Leftover

-------------------------------------------------------------------------------
(* The parts side by side. *)

ConnectingInv == part \in Parts /\ KeyInv /\ HandleInv /\ SecretInv /\ WizardInv

LEMMA KeyStands == KeyInv /\ UNCHANGED keyVars => KeyInv'
  BY DEF keyVars, KeyInv, KeyTypes, HostKey!TypeOK, LookHolds, Proven, Unseen, KeptThrough,
         HostKey!OneKeyPerType, HostKey!Idle

LEMMA HandleStands == HandleInv /\ UNCHANGED handleVars => HandleInv'
  BY DEF handleVars, HandleInv, Handle!TypeOK, Handle!CounterAccounts, Handle!SomebodyReleases, Handle!In

LEMMA SecretStands == SecretInv /\ UNCHANGED secretVars => SecretInv'
  BY DEF secretVars, SecretInv, Secret!OfferedHasWorked, MigrationKnows, AtMostOne

LEMMA WizardStands == WizardInv /\ UNCHANGED setupVars => WizardInv'
  <1> SUFFICES ASSUME WizardInv, UNCHANGED setupVars PROVE WizardInv' OBVIOUS
  <1>1. UNCHANGED <<isProfile, picked, given, steps, phase, written, secrets, jumps, backs, backed>>
    BY DEF setupVars
  <1>2. Setup!NoKeyPath' <=> Setup!NoKeyPath BY <1>1 DEF Setup!NoKeyPath, Setup!WithHop, Setup!Sftp
  <1>3. Setup!BuildConfig' = Setup!BuildConfig
    BY <1>1 DEF Setup!BuildConfig, Setup!HostAuthConfig, Setup!WithHop, Setup!Sftp
  <1>4. WrittenHolds' BY <1>1, <1>2, <1>3 DEF WizardInv, WrittenHolds, Setup!Wrote
  <1> QED BY <1>1, <1>4 DEF WizardInv, WizardTypes, ChainHolds, AnswersHold, SecretsAsked, NeedsMet

LEMMA ConnectingInit == Init => ConnectingInv
  BY KeyInit, HandleInit, SecretInit, WizardInit DEF Init, ConnectingInv

LEMMA ConnectingNext ==
    ASSUME ConnectingInv, [Next]_vars
    PROVE  ConnectingInv'
  <1> USE DEF ConnectingInv
  <1>1. part' \in Parts BY DEF Next, Only, vars
  <1>2. CASE HostKey!Next /\ UNCHANGED <<handleVars, secretVars, setupVars>>
    BY <1>2, <1>1, KeyNext, HandleStands, SecretStands, WizardStands
  <1>3. CASE Handle!Next /\ UNCHANGED <<keyVars, secretVars, setupVars>>
    BY <1>3, <1>1, HandleNext, KeyStands, SecretStands, WizardStands
  <1>4. CASE Secret!Next /\ UNCHANGED <<keyVars, handleVars, setupVars>>
    BY <1>4, <1>1, SecretNext, KeyStands, HandleStands, WizardStands
  <1>5. CASE Setup!Next /\ UNCHANGED <<keyVars, handleVars, secretVars>>
    BY <1>5, <1>1, WizardNext, KeyStands, HandleStands, SecretStands
  <1>6. CASE UNCHANGED vars
    BY <1>6, <1>1, KeyStands, HandleStands, SecretStands, WizardStands DEF vars
  <1> QED BY <1>2, <1>3, <1>4, <1>5, <1>6 DEF Next

(* The parts keep their invariants, whichever of them moves.                            *)
THEOREM ConnectingInvariant == Spec => []ConnectingInv
  <1>1. ConnectingInv /\ [Next]_vars => ConnectingInv' BY ConnectingNext
  <1> QED BY <1>1, ConnectingInit, PTL DEF Spec

(* No connection goes ahead on a look that still holds with a key that was revoked or  *)
(* contradicted, no host gets a second key of a type but on an outdated look, and a    *)
(* password is offered to be remembered only when it has worked, or at a hop.          *)
THEOREM OnlyProvenTrusted == Spec => []OnlyProvenIsTrusted
  <1>1. ConnectingInv => OnlyProvenIsTrusted
    BY KeysSound DEF ConnectingInv, OnlyProvenIsTrusted, SecretInv
  <1> QED BY <1>1, ConnectingInvariant, PTL

(* What the user entrusted is not lost: the keys stored for other hosts survive a       *)
(* rewrite, and a migration takes the password out of the file only when it is kept.    *)
THEOREM EntrustedIsKept == Spec => NothingEntrustedIsLost
  <1> DEFINE Keeps == lost' # lost => \E m \in migration : m.edited
  <1>1. ConnectingInv => HostKey!StoredKeysStay BY KeysSound DEF ConnectingInv
  <1>2. ConnectingInv /\ [Next]_vars => [Keeps]_(Secret!vars)
    <2> SUFFICES ASSUME ConnectingInv, [Next]_vars, lost' # lost PROVE \E m \in migration : m.edited
      BY DEF Keeps
    <2>1. Secret!Next BY DEF Next, vars, secretVars
    <2> QED BY <2>1, SecretKept DEF ConnectingInv
  <1>3. Spec => []HostKey!StoredKeysStay BY <1>1, ConnectingInvariant, PTL
  <1>4. Spec => [][Keeps]_(Secret!vars) BY <1>2, ConnectingInvariant, PTL DEF Spec
  <1> QED BY <1>3, <1>4 DEF NothingEntrustedIsLost, Secret!MigrationKeeps, Keeps

(* The counter of descriptors counts the answered calls that hold one, or failed, and   *)
(* a call that waits has somebody to wait for.                                          *)
THEOREM HandlesAreAccounted == Spec => []HandlesAccounted
  <1>1. ConnectingInv => TypeOK
    BY SecretTyped, WizardTyped, ConnectingAssumption
       DEF ConnectingInv, KeyInv, KeyTypes, HandleInv, TypeOK
  <1>2. ConnectingInv => HandlesAccounted BY <1>1 DEF ConnectingInv, HandleInv, HandlesAccounted
  <1> QED BY <1>2, ConnectingInvariant, PTL

(* Who confirms the review without going back behind a jump has answered the whole plan, *)
(* and what is written answers its questions.                                            *)
THEOREM WizardWritesPlan == Spec => []WizardWritesThePlan
  <1>1. ConnectingInv => WizardWritesThePlan BY WizardSound DEF ConnectingInv, WizardWritesThePlan
  <1> QED BY <1>1, ConnectingInvariant, PTL

=============================================================================
