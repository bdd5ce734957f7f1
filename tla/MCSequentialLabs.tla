--------------------------- MODULE MCSequentialLabs -------------------------
(* lab1 and lab2 are programs of their own: `lab' says which one runs, and  *)
(* the other one stays as it began.                                         *)
EXTENDS MessageStore, DirectoryPaths, TLC

VARIABLE lab

vars == << storeVars, treeVars, lab >>

Init == StoreInit /\ TreeInit /\ lab \in {"lab1", "lab2"}

Lab1 == lab = "lab1" /\ StoreNext /\ UNCHANGED << treeVars, lab >>

Lab2 == lab = "lab2" /\ TreeNext /\ UNCHANGED << storeVars, lab >>

Next == Lab1 \/ Lab2

Spec == Init /\ [][Next]_vars

(* The cfg uses the same values in both programs, only one of which runs.   *)
Interchangeable == Permutations(Var) \cup Permutations(Block)
=============================================================================
