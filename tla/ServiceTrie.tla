----------------------------- MODULE ServiceTrie -----------------------------
(***************************************************************************)
(* The tree that finds the service of a path (serviceManager/trie.ts): a   *)
(* node for each prefix of a path added, and values at some of the nodes.  *)
(***************************************************************************)
EXTENDS Naturals, Sequences, SequencesExt

\* The paths to `path` and below the root, which is <<>>.
Way(path) == {SubSeq(path, 1, n) : n \in 1..Len(path)}

\* Values by node. A node without one is there for those under it.
EmptyTrie == [nodes |-> {<<>>}, value |-> <<>>]

Loaded(trie, node) == node \in DOMAIN trie.value

Put(map, key, value) ==
  [k \in DOMAIN map \cup {key} |-> IF k = key THEN value ELSE map[k]]

Add(trie, path, value) ==
  [nodes |-> trie.nodes \cup Way(path), value |-> Put(trie.value, path, value)]

\* From `path` up: nodes with neither a value nor children.
Pruned(trie, path) ==
  {node \in Way(path) : \A other \in trie.nodes :
     IsPrefix(node, other) => IsPrefix(other, path) /\ (other = path \/ ~ Loaded(trie, other))}

RemovePath(trie, path) ==
  IF path \notin trie.nodes THEN trie
  ELSE [nodes |-> trie.nodes \ Pruned(trie, path),
        value |-> [node \in DOMAIN trie.value \ {path} |-> trie.value[node]]]

\* The walk down from the root keeps the last value it passes.
OnTheWay(trie, path) ==
  {node \in Way(path) : Way(node) \subseteq trie.nodes /\ Loaded(trie, node)}

\* The value of the longest such node, as a set of none or one.
FindPrefix(trie, path) ==
  {trie.value[node] : node \in {n \in OnTheWay(trie, path) : \A m \in OnTheWay(trie, path) : Len(m) <= Len(n)}}

\* All of those reached from the root.
AllValues(trie) ==
  {trie.value[node] : node \in {n \in DOMAIN trie.value : Way(n) \subseteq trie.nodes}}
=============================================================================
