---------------------------- MODULE ContentHash ----------------------------
(***************************************************************************)
(* Comparing files by content (core/contentHash.ts): the hashes of one     *)
(* ContentHasher, computed on the server in batches or by streaming, the   *)
(* cache of local hashes that outlives it, and the tool known of a server. *)
(* A hash is its content: different contents have different hashes.        *)
(***************************************************************************)
EXTENDS Naturals, FiniteSets, SequencesExt

CONSTANTS Files,      \* pairs of a local and a remote file
          Contents,   \* what a file may hold
          SizeOf,     \* of every content
          FirstDisks, \* what the files may hold at first
          MaxBatch,   \* MAX_BATCH_FILES
          MaxClock,   \* bound: ticks of the modification time
          MaxWrites,  \* bound: changes made to the files meanwhile
          MaxHashers  \* bound: commands that compare

HashAssumption ==
  /\ IsFiniteSet(Files) /\ MaxBatch \in Nat \ {0}
  /\ SizeOf \in [Contents -> Nat]
  /\ FirstDisks \subseteq [{"local", "remote"} \X Files -> Contents]
  /\ MaxClock \in Nat /\ MaxWrites \in Nat /\ MaxHashers \in Nat

Sides == {"local", "remote"}
Items == Sides \X Files
Keys == [size : Nat, mtime : 0..MaxClock]

VARIABLES clock,      \* in units of RACY_WINDOW_MS, and of the modification times
          disk,       \* what the files hold, and since when
          localCache, \* hashes that were remembered, by file and key
          tool,       \* serverStates of the connection
          hashers,    \* ContentHashers created
          cancelled,  \* of the current one
          hash,       \* its promises: of the key listed last
          batches,    \* exec calls that are not over
          running,    \* those of them the server works on
          asked,      \* the pairs of the contentDiffers call in progress
          answer,     \* its results
          writes,     \* files changed so far
          quiet       \* history: no file has changed since the hasher was created

vars == <<clock, disk, localCache, tool, hashers, cancelled, hash, batches, running, asked,
          answer, writes, quiet>>

NoHash == [at |-> "none", key |-> [size |-> 0, mtime |-> 0], since |-> 0, sum |-> "none"]

TypeOK ==
  /\ clock \in 0..MaxClock /\ hashers \in 0..MaxHashers /\ writes \in 0..MaxWrites
  /\ DOMAIN disk = Items
  /\ \A i \in Items : disk[i].content \in Contents /\ disk[i].mtime \in 0..clock
  /\ tool \in {"unknown", "known", "none"}
  /\ \A c \in localCache : c.file \in Files /\ c.key \in Keys /\ c.sum \in Contents
  /\ \A i \in Items : hash[i].at \in {"none", "batch", "queued", "reading", "done", "failed"}
  /\ \A b \in batches : b \subseteq Files /\ Cardinality(b) \in 1..MaxBatch
  /\ running \subseteq batches
  /\ asked \subseteq Files
  /\ answer \in [Files -> {"none", "same", "differs", "error"}]

Init ==
  /\ clock = 0
  /\ \E d \in FirstDisks : disk = [i \in Items |-> [content |-> d[i], mtime |-> 0]]
  /\ localCache = {} /\ tool = "unknown" /\ hashers = 0 /\ cancelled = FALSE
  /\ hash = [i \in Items |-> NoHash]
  /\ batches = {} /\ running = {} /\ asked = {} /\ answer = [f \in Files |-> "none"]
  /\ writes = 0 /\ quiet = TRUE

-----------------------------------------------------------------------------
KeyOf(i) == [size |-> SizeOf[disk[i].content], mtime |-> disk[i].mtime]
Cached(i) == {c \in localCache : i[1] = "local" /\ c.file = i[2] /\ c.key = KeyOf(i)}

NewHasher ==
  /\ asked = {} /\ hashers < MaxHashers
  /\ hashers' = hashers + 1
  /\ hash' = [i \in Items |-> NoHash]
  /\ cancelled' = FALSE /\ quiet' = TRUE
  /\ answer' = [f \in Files |-> "none"]
  /\ UNCHANGED <<clock, disk, localCache, tool, batches, running, asked, writes>>

\* What _schedule makes of an item: a promise that is there already, whatever became of
\* it, a hash remembered from earlier, or something to compute.
Scheduled(i) ==
  LET fresh == [NoHash EXCEPT !.key = KeyOf(i), !.since = clock] IN
  IF hash[i].at # "none" /\ hash[i].key = KeyOf(i) THEN hash[i]
  ELSE IF Cached(i) # {} THEN [fresh EXCEPT !.at = "done", !.sum = (CHOOSE c \in Cached(i) : TRUE).sum]
  ELSE [fresh EXCEPT !.at = IF i[1] = "remote" THEN "batch" ELSE "queued"]

\* _batches: the files in the order they are in, cut after every MaxBatch of them.
Batches(S) ==
  LET s == SetToSeq(S)
      n == Cardinality(S)
      batch(k) == {s[j] : j \in {i \in 1..n : MaxBatch * k < i /\ i <= MaxBatch * (k + 1)}} IN
  {batch(k) : k \in {m \in 0..n : MaxBatch * m < n}}

\* contentDiffers of all pairs: what differs in size is not read.
Compare ==
  /\ hashers > 0 /\ asked = {}
  /\ asked' = Files
  /\ LET needed == {i \in Items : KeyOf(<<"local", i[2]>>).size = KeyOf(<<"remote", i[2]>>).size}
         next == [i \in Items |-> IF i \in needed THEN Scheduled(i) ELSE hash[i]]
         todo == {f \in Files : next[<<"remote", f>>].at = "batch"} IN
       /\ hash' = next
       /\ batches' = Batches(todo)
       /\ answer' = [f \in Files |-> IF <<"local", f>> \in needed THEN "none" ELSE "differs"]
  /\ UNCHANGED <<clock, disk, localCache, tool, running, hashers, cancelled, writes, quiet>>

\* HashCancelledError, for what has not started.
Fail(S) == hash' = [i \in Items |-> IF i \in S THEN [hash[i] EXCEPT !.at = "failed"] ELSE hash[i]]
Remote(b) == {<<"remote", f>> : f \in b}

StreamAll(b) ==
  hash' = [i \in Items |-> IF i \in Remote(b) THEN [hash[i] EXCEPT !.at = "queued", !.since = clock]
                           ELSE hash[i]]

\* The limiter lets a batch through: cancelled, streamed since no tool is known to be
\* there, or handed to the server.
StartBatch(b) ==
  /\ b \in batches \ running
  /\ IF cancelled THEN Fail(Remote(b)) ELSE IF tool = "none" THEN StreamAll(b) ELSE UNCHANGED hash
  /\ IF cancelled \/ tool = "none"
     THEN batches' = batches \ {b} /\ UNCHANGED running
     ELSE running' = running \cup {b} /\ UNCHANGED batches
  /\ UNCHANGED <<clock, disk, localCache, tool, hashers, cancelled, asked, answer, writes, quiet>>

\* One digest per path, in the order of the paths.
DigestOf(b, f) == disk[<<"remote", f>>].content

BatchOver(b) == batches' = batches \ {b} /\ running' = running \ {b}

\* The tool is there and has read every file of the batch.
ServerHashes(b) ==
  /\ b \in running
  /\ hash' = [i \in Items |-> IF i \in Remote(b)
                              THEN [hash[i] EXCEPT !.at = "done", !.sum = DigestOf(b, i[2])]
                              ELSE hash[i]]
  /\ tool' = "known"
  /\ BatchOver(b)
  /\ UNCHANGED <<clock, disk, localCache, hashers, cancelled, asked, answer, writes, quiet>>

\* No tool, a refused exec, a timeout: the connection is not asked again. Or a file of the
\* batch could not be read, and the tool is kept.
ServerCannot(b) ==
  /\ b \in running
  /\ StreamAll(b)
  /\ tool' \in {"none", "known"}
  /\ BatchOver(b)
  /\ UNCHANGED <<clock, disk, localCache, hashers, cancelled, asked, answer, writes, quiet>>

\* The limiter lets a file through.
StartStream(i) ==
  /\ hash[i].at = "queued"
  /\ hash' = [hash EXCEPT ![i].at = IF cancelled THEN "failed" ELSE "reading"]
  /\ UNCHANGED <<clock, disk, localCache, tool, hashers, cancelled, batches, running, asked, answer, writes, quiet>>

\* Mutant: whatever was read is remembered.
RemembersAny(i) == i[1] = "local" /\ SizeOf[disk[i].content] = hash[i].key.size

\* A hash is kept beyond its hasher only when the file has the size listed for it, and had
\* been left alone for a while when it was asked for.
Remembers(i) ==
  /\ i[1] = "local"
  /\ SizeOf[disk[i].content] = hash[i].key.size
  /\ hash[i].since > hash[i].key.mtime

Stream(i) ==
  /\ hash[i].at = "reading"
  /\ hash' = [hash EXCEPT ![i].at = "done", ![i].sum = disk[i].content]
  /\ localCache' = IF Remembers(i)
                   THEN {c \in localCache : c.file # i[2] \/ c.key # hash[i].key}
                        \cup {[file |-> i[2], key |-> hash[i].key, sum |-> disk[i].content]}
                   ELSE localCache
  /\ UNCHANGED <<clock, disk, tool, hashers, cancelled, batches, running, asked, answer, writes, quiet>>

StreamFails(i) ==
  /\ hash[i].at = "reading"
  /\ Fail({i})
  /\ UNCHANGED <<clock, disk, localCache, tool, hashers, cancelled, batches, running, asked, answer, writes, quiet>>

Outcome(f) ==
  LET l == hash[<<"local", f>>]
      r == hash[<<"remote", f>>] IN
  IF answer[f] # "none" THEN answer[f]
  ELSE IF "failed" \in {l.at, r.at} THEN "error"
  ELSE IF l.sum = r.sum THEN "same" ELSE "differs"

\* Every pair has its result, an error of one does not fail the others.
Answer ==
  /\ asked # {}
  /\ \A f \in asked : answer[f] = "none" => \A s \in Sides : hash[<<s, f>>].at \in {"done", "failed"}
  /\ answer' = [f \in Files |-> Outcome(f)]
  /\ asked' = {}
  /\ UNCHANGED <<clock, disk, localCache, tool, running, hashers, cancelled, hash, batches, writes, quiet>>

Cancel ==
  /\ asked # {} /\ ~ cancelled
  /\ cancelled' = TRUE
  /\ UNCHANGED <<clock, disk, localCache, tool, hashers, hash, batches, running, asked, answer, writes, quiet>>

\* Somebody saves a file, here or on the server; time passes.
Write(i, c) ==
  /\ writes < MaxWrites /\ disk[i].content # c
  /\ disk' = [disk EXCEPT ![i] = [content |-> c, mtime |-> clock]]
  /\ writes' = writes + 1
  /\ quiet' = FALSE
  /\ UNCHANGED <<clock, localCache, tool, hashers, cancelled, hash, batches, running, asked, answer>>

Tick ==
  /\ clock < MaxClock
  /\ clock' = clock + 1
  /\ UNCHANGED <<disk, localCache, tool, hashers, cancelled, hash, batches, running, asked, answer, writes, quiet>>

Work ==
  \/ \E b \in batches : StartBatch(b) \/ ServerHashes(b) \/ ServerCannot(b)
  \/ \E i \in Items : StartStream(i)
  \/ \E f \in Files : Stream(<<"local", f>>) \/ StreamFails(<<"local", f>>)
  \/ Answer

\* A remote file is read to its end, or its stream fails.
ReadsRemote == \E f \in Files : Stream(<<"remote", f>>) \/ StreamFails(<<"remote", f>>)

Next ==
  \/ NewHasher \/ Compare \/ Cancel \/ Tick \/ Work \/ ReadsRemote
  \/ \E i \in Items, c \in Contents : Write(i, c)

Spec == Init /\ [][Next]_vars

\* Commands have deadlines, the disk answers, the limiter serves its queue while it can. A
\* read of a remote file has no deadline, and no watchdog looks after it: it may hang.
Fairness == WF_vars(Work)
FairSpec == Spec /\ Fairness

-----------------------------------------------------------------------------
\* A remembered hash is never served for a file it is not the hash of: whenever the file
\* has the size and time it was remembered under, the content is the one hashed.
CacheIsSound ==
  \A c \in localCache :
    KeyOf(<<"local", c.file>>) = c.key => disk[<<"local", c.file>>].content = c.sum

\* While nobody changes the files, an answer is the truth, by whichever way, tool, cache
\* or batch the two hashes were come by.
AnswersAreTrue ==
  quiet => \A f \in Files :
    answer[f] \in {"same", "differs"} =>
      (answer[f] = "same" <=> disk[<<"local", f>>].content = disk[<<"remote", f>>].content)

=============================================================================
