------------------------------ MODULE PathTree ------------------------------
(* What the Directory of lab 2 promises: the tree below the root is a set   *)
(* of paths.  Directories and files are added to directories that are in    *)
(* it, and what is removed takes with it what is below it, and no more.     *)
EXTENDS Sequences, SequencesExt

CONSTANT Name

VARIABLE paths      \* [path, kind] records

At(p) == {e \in paths : e.path = p}

Init == paths = {}

MakeRoot == paths = {} /\ paths' = {[path |-> << >>, kind |-> "dir"]}

Add(name, kind) ==
  \E e \in paths :
    /\ e.kind = "dir" /\ At(Append(e.path, name)) = {}
    /\ paths' = paths \cup {[path |-> Append(e.path, name), kind |-> kind]}

Prune ==
  \E e \in paths :
    /\ e.path # << >>
    /\ paths' = {f \in paths : ~IsPrefix(e.path, f.path)}

Next == MakeRoot \/ Prune \/ \E name \in Name, kind \in {"dir", "file"} : Add(name, kind)

Spec == Init /\ [][Next]_paths
=============================================================================
