---------------------------- MODULE MCWorkspace -----------------------------
(* Workspace with two names of files, two commands on one file, three versions of  *)
(* sftp.json, a tree of eight rows and two servers.                                *)
EXTENDS Workspace, TLC

\* No command differs from another but by its name, nor one question of the tree.
Symmetry == Permutations(Jobs)

\* sftp.json: missing, with a service for the workspace and one for a directory of it, or
\* with one service that starts with a profile it does not have.
Config(base, on, profiles, start) == [base |-> base, on |-> on, profiles |-> profiles, start |-> start]
NoFile == [state |-> "none", configs |-> <<>>]
TwoServices ==
  [state |-> "good",
   configs |-> <<Config(<<"w">>, "off", [dev |-> "on", live |-> "off"], "dev"),
                 Config(<<"w", "a">>, "on", [dev |-> "on"], "none")>>]
OneService ==
  [state |-> "good", configs |-> <<Config(<<"w">>, "off", [live |-> "off"], "dev")>>]

ThreeSettings == {NoFile, TwoServices, OneService}
EitherFirst == {TwoServices, OneService}
TwoEditors == {<<"w", "a", "f">>, <<"w", "b", "f">>}

\* A file here and another one there; a transfer that broke off leaves an empty one.
TwoTexts == {"mine", "theirs"}
TextSizes == [c \in TwoTexts \cup {"torn"} |-> CASE c = "mine" -> 1 [] c = "theirs" -> 2 [] OTHER -> 0]
TwoCopies == {<<[content |-> "mine", mtime |-> 0], [content |-> "theirs", mtime |-> 0]>>}

TwoNames == {"a", "b"}
OneName == {"a"}

\* Directories "a", "a/b", "t" and "t/d"; a file in "a", one above it and one in "t/d" that have
\* one name, and such a file of another root.
Row(r, p) == [root |-> r, path |-> p]
FourDirs == {Row(1, p) : p \in {<<"a">>, <<"a", "b">>, <<"t">>, <<"t", "d">>}}
EightRows == FourDirs \cup {Row(1, p) : p \in {<<"x">>, <<"a", "x">>, <<"t", "d", "x">>}}
             \cup {Row(2, <<"a", "x">>)}

\* Servers with a file "a", and another one, a directory or nothing by the name of "b"; and the
\* ways of replacing a file that differ; the servers have a host each, or one for both.
Beside == {[p \in TwoNames |-> IF p = "a" THEN "old" ELSE c] : c \in {"none", "old", "dir"}}
TwoServers == {"s1", "s2"}
OwnHosts == [s \in TwoServers |-> s]
OneHost == [s \in TwoServers |-> "s1"]
Setup(t, o, l, h) == [useTempFile |-> t, openSsh |-> o, link |-> l, host |-> h]
Replacing == {Setup(TRUE, TRUE, FALSE, OwnHosts), Setup(TRUE, FALSE, FALSE, OneHost),
              Setup(TRUE, FALSE, TRUE, OwnHosts), Setup(FALSE, FALSE, FALSE, OwnHosts)}
=============================================================================
