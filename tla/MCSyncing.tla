----------------------------- MODULE MCSyncing ------------------------------
(* Syncing with two files and a directory that holds two files, and with two pairs *)
(* of files to compare.                                                             *)
EXTENDS Syncing, TLC

\* A file and a directory with two files in it, one of them ignored. Each may be missing on
\* either side, but for the first file on the side of the source, and the directory may be
\* a file; both files may be newer there, and the inner one larger on the other side.
TwoLevels == {"/", "f", "d", "d/x", "d/y"}
InDirectory == [n \in TwoLevels \ {"/"} |-> IF n \in {"f", "d"} THEN "/" ELSE "d"]
Absent == [type |-> "none", mtime |-> 0, size |-> 0]
Dir == [type |-> "dir", mtime |-> 0, size |-> 0]
File(mtime, size) == [type |-> "file", mtime |-> mtime, size |-> size]
Versions == [mtime : {1, 2}, size : {1}] \cup [mtime : {1}, size : {2}]

TreesOf(first, inner) ==
  {t \in [TwoLevels -> {Absent, Dir} \cup {File(v.mtime, v.size) : v \in Versions}] :
     /\ t["/"] = Dir /\ t["f"] \in first \cup {Absent} /\ t["d"] \in {Absent, Dir, File(1, 1)}
     /\ t["d/x"] \in inner \cup {Absent} /\ t["d/y"] \in {Absent, File(1, 1)}
     /\ t["d"] # Dir => t["d/x"] = Absent /\ t["d/y"] = Absent}
FirstNewer == {t \in TreesOf({File(2, 1)}, {File(2, 1)}) : t["f"] # Absent}
InnerLarger == TreesOf({File(1, 1)}, {File(1, 1), File(1, 2)})

\* The options in force, and the limit of the file size, 0 for none.
Asked(command, on, limit) ==
  [command |-> command, limit |-> limit] @@
  [o \in {"confirm", "delete", "skipCreate", "ignoreExisting", "update", "both", "hasher"} |-> o \in on]
SevenCommands ==
  {Asked("transfer", {}, 1),
   Asked("sync", {"confirm", "delete"}, 0),
   Asked("sync", {"delete", "update"}, 1),
   Asked("sync", {"confirm", "delete", "skipCreate", "update", "hasher"}, 0),
   Asked("sync", {"confirm", "delete", "ignoreExisting"}, 0),
   Asked("sync", {"confirm", "delete", "both"}, 0),
   Asked("sync", {"confirm", "both", "hasher"}, 1)}

\* Two pairs of files of one size, of which the second differs.
OneDisk == {[i \in {"local", "remote"} \X {1, 2} |-> IF i = <<"remote", 2>> THEN "b" ELSE "a"]}
OneSize == [c \in {"a", "b"} |-> 1]
=============================================================================
