------------------------------ MODULE RemoteDrop ------------------------------
(***************************************************************************)
(* Files of the server dragged onto a directory of it (dragAndDrop.ts):    *)
(* the plan, made from the tree alone, and the moves, which run side by    *)
(* side, each a look at the new name and a rename (renameRemote.ts).       *)
(***************************************************************************)
EXTENDS Naturals, Sequences, FiniteSets

CONSTANTS Items,      \* rows of the tree: [root, path], a path being a sequence of names
          Folders,    \* those of them that are directories
          MaxPicked,  \* bound: rows dragged at once
          Protocols   \* of the servers

DropAssumption ==
  /\ Folders \subseteq Items /\ MaxPicked \in Nat /\ Protocols \subseteq {"sftp", "ftp"}
  /\ \A i \in Items : /\ i = [root |-> i.root, path |-> i.path]
                     /\ i.path \in Seq(STRING) /\ i.path # <<>>

VARIABLES protocol,
          picked, target,  \* what was dragged, and where to; <<>> before the drop
          place,           \* path of what each row names, <<>> once it was overwritten
          move,            \* per row: what has become of its move
          told,            \* rows the user has read about: skipped, or failed
          blind            \* history: a look at a new name has failed

vars == <<protocol, picked, target, place, move, told, blind>>

TypeOK ==
  /\ protocol \in Protocols
  /\ picked \subseteq Items /\ target \in Folders \cup {<<>>}
  /\ \A i \in Items : place[i] \in Seq(STRING)
  /\ move \in [Items -> {"none", "asked", "look", "rename", "done", "taken", "vanished", "failed", "dropped"}]
  /\ told \subseteq picked /\ blind \in BOOLEAN

Init ==
  /\ protocol \in Protocols /\ picked = {} /\ target = <<>>
  /\ place = [i \in Items |-> i.path]
  /\ move = [i \in Items |-> "none"] /\ told = {} /\ blind = FALSE

-----------------------------------------------------------------------------
isRemotePathAtOrUnder(base, path) ==
  Len(base) <= Len(path) /\ SubSeq(path, 1, Len(base)) = base
dirname(path) == SubSeq(path, 1, Len(path) - 1)
NewPath(dir, path) == Append(dir, path[Len(path)])

\* A row below another selected one is taken to move with it.
MovesWithAnother(S, i) ==
  \E o \in S : o.path # i.path /\ isRemotePathAtOrUnder(o.path, i.path)

\* planDrop: what is moved, and what the user is told cannot be.
Skipped(S, t) ==
  {i \in S : ~ MovesWithAnother(S, i) /\ (i.root # t.root \/ isRemotePathAtOrUnder(i.path, t.path))}
Moves(S, t) ==
  {i \in S : ~ MovesWithAnother(S, i) /\ dirname(i.path) # t.path} \ Skipped(S, t)

-----------------------------------------------------------------------------
\* _handleInternalDrop up to its first await: more than one move is asked about.
Drop(S, t) ==
  /\ target = <<>> /\ picked' = S /\ target' = t /\ told' = Skipped(S, t)
  /\ move' = [i \in Items |-> IF i \notin Moves(S, t) THEN "none"
                              ELSE IF Cardinality(Moves(S, t)) > 1 THEN "asked" ELSE "look"]
  /\ UNCHANGED <<protocol, place, blind>>

Answer(at) ==
  /\ \E i \in Items : move[i] = "asked"
  /\ move' = [i \in Items |-> IF move[i] = "asked" THEN at ELSE move[i]]
  /\ UNCHANGED <<protocol, picked, target, place, told, blind>>
Confirm == Answer("look")
Dismiss == Answer("dropped")

\* What has become of a move; an error is reported, and the others go on.
Set(i, at) ==
  /\ move' = [move EXCEPT ![i] = at]
  /\ told' = IF at \in {"taken", "vanished", "failed"} THEN told \cup {i} ELSE told
  /\ UNCHANGED <<protocol, picked, target>>

At(i, path) == {j \in Items : j.root = i.root /\ place[j] = path}

\* renameRemote: nothing may have the new name, as far as one can see now.
Look(i) ==
  /\ move[i] = "look"
  /\ Set(i, IF At(i, NewPath(target.path, i.path)) # {} THEN "taken" ELSE "rename")
  /\ UNCHANGED <<place, blind>>
\* A look that fails is taken for a name that is free.
LookFails(i) == move[i] = "look" /\ Set(i, "rename") /\ blind' = TRUE /\ UNCHANGED place

\* Everything below goes with it.
Renamed(i, to) ==
  [j \in Items |->
     IF j.root = i.root /\ isRemotePathAtOrUnder(i.path, place[j])
     THEN to \o SubSeq(place[j], Len(i.path) + 1, Len(place[j])) ELSE place[j]]

\* SFTP refuses a name that is taken; FTP replaces a file, and refuses a directory.
Rename(i) ==
  LET to == NewPath(target.path, i.path)
      others == At(i, to) IN
  /\ move[i] = "rename" /\ UNCHANGED blind
  /\ \/ At(i, i.path) = {} /\ Set(i, "vanished") /\ UNCHANGED place
     \/ /\ At(i, i.path) # {} /\ others # {} /\ (protocol = "sftp" \/ (others \cup {i}) \cap Folders # {})
        /\ Set(i, "taken") /\ UNCHANGED place
     \/ /\ At(i, i.path) # {} /\ (others = {} \/ (protocol = "ftp" /\ (others \cup {i}) \cap Folders = {}))
        /\ Set(i, "done")
        /\ place' = [j \in Items |-> IF j \in others THEN <<>> ELSE Renamed(i, to)[j]]

\* There is no connection, or the rename fails.
Fails(i) == move[i] \in {"look", "rename"} /\ Set(i, "failed") /\ UNCHANGED <<place, blind>>

Next ==
  \/ \E S \in SUBSET Items, t \in Folders : S # {} /\ Cardinality(S) <= MaxPicked /\ Drop(S, t)
  \/ Confirm \/ Dismiss
  \/ \E i \in Items : Look(i) \/ LookFails(i) \/ Rename(i) \/ Fails(i)

Spec == Init /\ [][Next]_vars

-----------------------------------------------------------------------------
Over == target # <<>> /\ \A i \in Items : move[i] \notin {"asked", "look", "rename"}
SameName == \E i, j \in picked : i # j /\ i.path[Len(i.path)] = j.path[Len(j.path)]

\* No file is lost to a drop: the moves "can safely run concurrently" (dragAndDrop.ts:242).
\* Over FTP they cannot when two of them have one name, each having looked before the other
\* was renamed; nor is it safe there when the look has failed.
NothingOverwritten == protocol = "sftp" \/ ~ (SameName \/ blind) => \A i \in Items : place[i] # <<>>

\* Whoever was dragged has arrived, with its folder or by itself, was there already, or the
\* user has been told; unless the user has dismissed the drop, or the row was taken to move with a
\* selected folder that does not move, or not here.
MovesByItself(i) ==
  \E o \in picked : /\ o.path # i.path /\ isRemotePathAtOrUnder(o.path, i.path)
                    /\ (o \notin Moves(picked, target) \/ o.root # i.root)
EverybodyArrives ==
  Over => \A i \in picked :
    \/ \E a \in picked \cap told : a.root = i.root /\ isRemotePathAtOrUnder(a.path, i.path)
    \/ i.root = target.root /\ isRemotePathAtOrUnder(target.path, place[i])
    \/ place[i] = <<>> \/ MovesByItself(i)
    \/ \E a \in picked : move[a] = "dropped"

\* No move fails because another one has taken its file away.
NoneVanishes == \A i \in Items : move[i] # "vanished"
=============================================================================
