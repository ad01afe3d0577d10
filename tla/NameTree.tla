------------------------------ MODULE NameTree ------------------------------
(***************************************************************************)
(* What a file system promises of its names: a tree that grows below a     *)
(* root.  A node is put under a name that is new in an existing directory, *)
(* and stays there; nothing is renamed, moved or replaced.                 *)
(***************************************************************************)
CONSTANTS Nodes, Root, Names

VARIABLES
  tree,         \* <<directory, name, node>>
  dirs          \* the nodes that are directories

vars == <<tree, dirs>>

Init == tree = {} /\ dirs = {}

Mount == dirs = {} /\ dirs' = {Root} /\ UNCHANGED tree

Used == {t[3] : t \in tree} \cup {Root}

Add(d, n, i) ==
  /\ d \in dirs /\ i \notin Used
  /\ \A t \in tree : ~(t[1] = d /\ t[2] = n)
  /\ tree' = tree \cup {<<d, n, i>>}
  /\ dirs' \in {dirs, dirs \cup {i}}

Next == Mount \/ \E d \in dirs, n \in Names, i \in Nodes : Add(d, n, i)

Spec == Init /\ [][Next]_vars
=============================================================================
