------------------------------ MODULE RemoteTree ------------------------------
(***************************************************************************)
(* The filter of the Remote Explorer (treeDataProvider.ts): a directory is *)
(* kept when something below it matches, which takes listings, and these   *)
(* are remembered. Meanwhile the filter changes, the tree is refreshed,    *)
(* and the server answers or does not. One root with a file "f" and a      *)
(* directory "d", in it "e", and in that, or not, the file "g".            *)
(***************************************************************************)
EXTENDS Naturals, Sequences

CONSTANTS Calls,        \* bound: times the tree asks for the children of the root
          MaxListings,  \* bound: listings asked for by searches
          MaxRefreshes, \* bound: refreshes, those of a changed filter included
          MaxChanges    \* bound: times "g" comes or goes

TreeAssumption == {MaxListings, MaxRefreshes, MaxChanges} \subseteq Nat

VARIABLES there,      \* whether the server has "g"
          filter,     \* "none", or the name searched for
          epoch,      \* of the filter
          refreshes, changes,
          cache,      \* per directory the listing remembered, 0 for none; <<>> for no cache
          listings,   \* asked for by searches, in their order
          call,       \* getChildren of the root, each with what it awaits and what it found
          quiet       \* history: "g" has not come or gone since the last refresh

vars == <<there, filter, epoch, refreshes, changes, cache, listings, call, quiet>>

Dirs == {"d", "e"}
Filters == {"none", "f", "g"}
Listing == [dir : Dirs, asked : 0..MaxRefreshes, state : {"pending", "ok", "failed"},
            has : BOOLEAN]
Call == [at : {"idle", "listing", "search", "done", "failed"}, since : 0..MaxRefreshes,
         filter : Filters, epoch : 0..MaxRefreshes, on : 0..MaxListings, shows : SUBSET {"f", "d"}]
NoCall == [at |-> "idle", since |-> 0, filter |-> "none", epoch |-> 0, on |-> 0, shows |-> {}]
Empty == [d \in Dirs |-> 0]

TypeOK ==
  /\ there \in BOOLEAN /\ quiet \in BOOLEAN /\ filter \in Filters
  /\ epoch \in 0..MaxRefreshes /\ refreshes \in 0..MaxRefreshes /\ changes \in 0..MaxChanges
  /\ cache = <<>> \/ cache \in [Dirs -> 0..MaxListings]
  /\ listings \in Seq(Listing) /\ Len(listings) <= MaxListings
  /\ call \in [Calls -> Call]

Init ==
  /\ there \in BOOLEAN /\ filter = "none" /\ epoch = 0 /\ refreshes = 0 /\ changes = 0
  /\ cache = <<>> /\ listings = <<>> /\ call = [c \in Calls |-> NoCall] /\ quiet = TRUE

-----------------------------------------------------------------------------
Set(c, r) == call' = [call EXCEPT ![c] = r]

\* _listEntriesForSearch: what is remembered, or one more listing, which is remembered.
Search(c, r, dir) ==
  LET known == IF cache = <<>> THEN Empty ELSE cache IN
  IF known[dir] # 0
  THEN Set(c, [r EXCEPT !.on = known[dir]]) /\ cache' = known /\ UNCHANGED listings
  ELSE /\ Len(listings) < MaxListings
       /\ listings' = Append(listings, [dir |-> dir, asked |-> refreshes, state |-> "pending",
                                        has |-> FALSE])
       /\ cache' = [known EXCEPT ![dir] = Len(listings')]
       /\ Set(c, [r EXCEPT !.on = Len(listings')])

\* _applyFilter: without a filter there is nothing to await; with one, "d" is searched.
Apply(c) ==
  LET r == [call[c] EXCEPT !.at = "search", !.filter = filter, !.epoch = epoch] IN
  IF filter = "none"
  THEN Set(c, [r EXCEPT !.at = "done", !.shows = {"f", "d"}]) /\ UNCHANGED <<cache, listings>>
  ELSE Search(c, r, "d")

Show(c, found) ==
  /\ Set(c, [call[c] EXCEPT !.at = "done", !.shows = found])
  /\ UNCHANGED <<cache, listings>>

\* Mutant: the filter the search began with is good enough.
FilteredAtOnce(c, found) == Show(c, found)

\* The search is over: begun again if the filter was changed meanwhile.
Filtered(c, found) == IF call[c].epoch # epoch THEN Apply(c) ELSE Show(c, found)

-----------------------------------------------------------------------------
\* VS Code asks for the children of the root; nothing is remembered of its own listing.
Ask(c) ==
  /\ call[c].at = "idle"
  /\ Set(c, [NoCall EXCEPT !.at = "listing", !.since = refreshes])
  /\ UNCHANGED <<there, filter, epoch, refreshes, changes, cache, listings, quiet>>
Listed(c) ==
  /\ call[c].at = "listing" /\ Apply(c)
  /\ UNCHANGED <<there, filter, epoch, refreshes, changes, quiet>>
ListFails(c) ==
  /\ call[c].at = "listing" /\ Set(c, [call[c] EXCEPT !.at = "failed"])
  /\ UNCHANGED <<there, filter, epoch, refreshes, changes, cache, listings, quiet>>

\* The server answers a search.
Answers(l) ==
  /\ listings[l].state = "pending"
  /\ listings' = [listings EXCEPT ![l].state = "ok", ![l].has = there]
  /\ UNCHANGED <<there, filter, epoch, refreshes, changes, cache, call, quiet>>

\* It fails, and is forgotten by the cache it was asked for.
Fails(l) ==
  /\ listings[l].state = "pending"
  /\ listings' = [listings EXCEPT ![l].state = "failed"]
  /\ cache' = IF cache # <<>> /\ listings[l].asked = refreshes
              THEN [cache EXCEPT ![listings[l].dir] = 0] ELSE cache
  /\ UNCHANGED <<there, filter, epoch, refreshes, changes, call, quiet>>

\* _hasMatchingDescendant goes on: below "d" there is "e", and in it perhaps what is sought.
Descends(c) ==
  /\ call[c].at = "search" /\ call[c].on # 0
  /\ LET l == listings[call[c].on] IN
       \/ /\ l.state = "failed" /\ Set(c, [call[c] EXCEPT !.at = "failed"])
          /\ UNCHANGED <<cache, listings>>
       \/ l.state = "ok" /\ l.dir = "d" /\ Search(c, call[c], "e")
       \/ /\ l.state = "ok" /\ l.dir = "e"
          /\ Filtered(c, IF call[c].filter = "f" THEN {"f"} ELSE IF l.has THEN {"d"} ELSE {})
  /\ UNCHANGED <<there, filter, epoch, refreshes, changes, quiet>>

-----------------------------------------------------------------------------

\* RemoteTreeData.refresh: the cache is dropped, and the tree asks again.
Refreshed ==
  /\ refreshes < MaxRefreshes /\ refreshes' = refreshes + 1 /\ cache' = <<>>
  /\ quiet' = TRUE /\ UNCHANGED <<there, changes, listings, call>>

Refresh == Refreshed /\ UNCHANGED <<filter, epoch>>

\* explorer.setFilter: a filter that changes is followed by a refresh.
SetFilter(f) ==
  /\ f # filter /\ filter' = f /\ epoch' = epoch + 1 /\ Refreshed

\* Somebody creates or removes "g" on the server.
Change ==
  /\ changes < MaxChanges /\ changes' = changes + 1
  /\ there' = ~ there /\ quiet' = FALSE
  /\ UNCHANGED <<filter, epoch, refreshes, cache, listings, call>>

Next ==
  \/ \E c \in Calls : Ask(c) \/ Listed(c) \/ ListFails(c) \/ Descends(c)
  \/ \E l \in DOMAIN listings : Answers(l) \/ Fails(l)
  \/ Refresh \/ Change
  \/ \E f \in Filters : SetFilter(f)

Spec == Init /\ [][Next]_vars

-----------------------------------------------------------------------------
\* What is shown goes by the filter that is set, however often it was changed while the
\* search was under way (treeDataProvider.ts _applyFilter).
ShowsTheFilter ==
  [][\A c \in Calls : call[c].at # "done" /\ call'[c].at = "done" => call'[c].filter = filter]_vars

\* "any explicit refresh means get me fresh data": what the tree shows after one is what is on
\* the server, though a search that was under way fills the memory it goes by.
ShowsTheServer ==
  \A c \in Calls :
    /\ call[c].at = "done" /\ call[c].since = refreshes /\ quiet
    => call[c].shows = CASE filter = "none" -> {"f", "d"} [] filter = "f" -> {"f"}
                         [] filter = "g" -> IF there THEN {"d"} ELSE {}

\* A failed listing does not poison the searches that follow.
NothingPoisoned == cache # <<>> => \A d \in Dirs : cache[d] # 0 => listings[cache[d]].state # "failed"

\* The cache is "only alive during an active filter session" (treeDataProvider.ts:75). It
\* comes back when a search goes on after the filter was cleared.
CacheOnlyWhileFiltered == filter = "none" => cache = <<>>
=============================================================================
