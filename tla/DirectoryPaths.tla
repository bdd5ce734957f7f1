---------------------------- MODULE DirectoryPaths ---------------------------
(* The tree of lab 2 by its paths from the root.                            *)
EXTENDS DirectoryTree, Sequences, SequencesExt

(* The nodes at and below n, each with its path.                            *)
RECURSIVE PlacesFrom(_, _)
PlacesFrom(n, path) ==
  IF n = Null THEN {}
  ELSE {[path |-> path, node |-> n]}
         \cup UNION {PlacesFrom(node[n].children[name], Append(path, name)) : name \in Name}

InTree == {[path |-> e.path, kind |-> node[e.node].kind] : e \in PlacesFrom(root, << >>)}

(* The paths of d: one, or none if d was removed and is still held.         *)
PathsOf(d) == {e.path : e \in {e \in PlacesFrom(root, << >>) : e.node = d}}

Paths == INSTANCE PathTree WITH paths <- InTree

AddsInPlace(d, h, name) ==
  \A kind \in {"dir", "file"} : Adds(d, h, name, kind) =>
    InTree' = InTree \cup {[path |-> Append(p, name), kind |-> kind] : p \in PathsOf(d)}

RemovesInPlace(d, name) ==
  Removes(d, name) =>
    InTree' = {e \in InTree : \A p \in PathsOf(d) : ~IsPrefix(Append(p, name), e.path)}

\* The tree below the root changes only as a set of paths does, and each
\* operation changes it as its name says: addDirectory() and addFile() add one
\* path to that of their directory, remove() takes away what is at or below the
\* name in its directory, and both do nothing to it on a directory that was
\* removed and is still held; whatever is looked up or dropped leaves it alone.
ImplementsPathTree ==
  /\ Paths!Spec
  /\ [][\A g, h \in Handle, name \in Name : IsDir(handle[g]) =>
          AddsInPlace(handle[g], h, name) /\ RemovesInPlace(handle[g], name)]_treeVars
  /\ [][root # Null /\ InTree' # InTree =>
          \E g, h \in Handle, name \in Name :
            /\ IsDir(handle[g])
            /\ \/ \E kind \in {"dir", "file"} : Adds(handle[g], h, name, kind)
               \/ Removes(handle[g], name)]_treeVars
=============================================================================
