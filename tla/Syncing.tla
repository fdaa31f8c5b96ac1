------------------------------ MODULE Syncing -------------------------------
(* A sync of two directories and what it compares files with, side by side: the    *)
(* walk, the content hashes, and the limiter both send their requests through.      *)
(* `part` says which of them moves: they share no state, so a state of one is not   *)
(* multiplied by those of the others.                                               *)
EXTENDS Integers, Sequences

CONSTANTS Parts,                             \* those that may move
          Nodes, Root, Parent, SrcTrees, DstTrees, Options, Ignored, Troubles,
          Calls, Limit,
          Files, Contents, SizeOf, FirstDisks, MaxBatch, MaxClock, MaxWrites, MaxHashers

VARIABLES part,
          tree, alike, opt, unread, shown, phase, job, verifying, removing, collected,
          skipped, gone, delivered, stopped, failed,
          active, waiting, call, granted,
          clock, disk, localCache, tool, hashers, cancelled, hash, batches, running, asked,
          answer, writes, quiet

walkVars == <<tree, alike, opt, unread, shown, phase, job, verifying, removing, collected,
              skipped, gone, delivered, stopped, failed>>
limitVars == <<active, waiting, call, granted>>
hashVars == <<clock, disk, localCache, tool, hashers, cancelled, hash, batches, running, asked,
              answer, writes, quiet>>
vars == <<part, walkVars, limitVars, hashVars>>

Walk == INSTANCE SyncWalk WITH cancelled <- stopped
Slots == INSTANCE Limiter
Hash == INSTANCE ContentHash

ASSUME SyncingAssumption ==
  /\ Parts \subseteq {"walk", "limit", "hash"}
  /\ Walk!WalkAssumption /\ Slots!LimiterAssumption /\ Hash!HashAssumption

\* A part that stands still begins in one state.
Init ==
  /\ part \in Parts
  /\ Walk!Init
  /\ part # "walk" => /\ opt = CHOOSE o \in Options : ~ o.hasher
                      /\ tree = [src |-> CHOOSE t \in SrcTrees : TRUE, dst |-> CHOOSE t \in DstTrees : TRUE]
                      /\ unread = {}
  /\ Slots!Init /\ Hash!Init

Only(p) == part = p /\ UNCHANGED part
WalkOnly == Only("walk") /\ UNCHANGED <<limitVars, hashVars>>
LimitOnly == Only("limit") /\ UNCHANGED <<walkVars, hashVars>>
HashOnly == Only("hash") /\ UNCHANGED <<walkVars, limitVars>>

Next == (WalkOnly /\ Walk!Next) \/ (LimitOnly /\ Slots!Next) \/ (HashOnly /\ Hash!Next)

Spec == Init /\ [][Next]_vars

\* What each part does of itself goes on, as its own module justifies.
Work == (WalkOnly /\ Walk!Work) \/ (HashOnly /\ Hash!Work)
FairSpec == Spec /\ WF_vars(Work)

-----------------------------------------------------------------------------
\* No variable leaves its type.
TypeOK ==
  CASE part = "walk" -> Walk!TypeOK
    [] part = "limit" -> Slots!TypeOK
    [] part = "hash" -> Hash!TypeOK

\* A sync takes nothing away that the source has, does what its preview promised, and
\* lets no transfer into a tree it is still deleting from (transfer.ts, syncPreview.ts).
SyncIsSafe == Walk!OnlyExtraneousDeleted /\ Walk!PreviewIsPromise /\ Walk!RunsWhenSettled

\* A command that walks ends, whatever fails and whenever it is cancelled, and so does
\* every comparison of contents, also with a server that cannot hash, unless it comes to
\* read a remote file, for which nothing sets a deadline (contentHash.ts:94, 454), or the
\* walk to a comparison, which may do so; cancelled, the walk hands nothing more to the
\* scheduler (transfer.ts:127).
AtWork == (part = "walk" /\ ~ Walk!Ended) \/ asked # {}
MayHang == verifying # {} \/ \E f \in Files : hash[<<"remote", f>>].at = "reading"

\* No variable leaves its type, and no file is taken for another by its hash: neither a
\* remembered one nor an answer of the server or a stream is wrong while nobody changes
\* the files (contentHash.ts).
HashesAreTrue == TypeOK /\ Hash!CacheIsSound /\ Hash!AnswersAreTrue

\* The limiter is the semaphore a caller takes it for: first come first served, as many as
\* its width, and no place empty while somebody waits (utils.ts createLimiter).
LimiterIsSemaphore == Slots!ImplementsSemaphore

\* What docs/Commands.md:54 says of Sync Both Directions: it "always keeps the newest
\* version on both sides". A file that is newer on the target is read from the wrong side.
NewestOnBothSides == Walk!NewestOnBothSides
=============================================================================
