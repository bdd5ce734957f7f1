---------------------------- MODULE DirectoryTree ---------------------------
(***************************************************************************)
(* lab2: the directories and files of Directory.cpp and File.cpp.  A       *)
(* directory owns its children through shared pointers and knows its       *)
(* parent and itself through weak ones; a client owns what it got from the *)
(* operations.  Names are keys: what ls() prints is left out, and with it  *)
(* sizes and types as numbers.                                             *)
(*                                                                         *)
(* node[n].uses is the count of a shared pointer.  A node that is released *)
(* for the last time is destroyed and releases its children.  A node is    *)
(* not used again while a weak pointer to it is left, as its control block *)
(* is not.                                                                 *)
(***************************************************************************)
EXTENDS Naturals, FiniteSets

CONSTANTS
  Node,       \* bound: the client adds nothing when they are used up
  Name,
  Handle,     \* the shared pointers of a client
  Null

ASSUME TreeAssumption ==
  /\ IsFiniteSet(Handle) /\ Null \notin Node
  /\ Null \notin [kind : {"dir", "file"}, parent : Node \cup {Null},
                  children : [Name -> Node \cup {Null}], uses : Nat]

VARIABLES
  node,       \* per node, Null or its kind, parent, children and uses
  root,       \* Directory::root
  handle

treeVars == << node, root, handle >>

Special == {".", ".."}

NoChild == [name \in Name |-> Null]

Exists(n) == n # Null /\ node[n] # Null

(* weak_ptr::lock()                                                         *)
Lock(n) == IF Exists(n) THEN n ELSE Null

Unused == {n \in Node : node[n] = Null /\ \A m \in Node : Exists(m) => node[m].parent # n}

IsDir(n) == Exists(n) /\ node[n].kind = "dir"

TreeInit ==
  /\ node = [n \in Node |-> Null]
  /\ root = Null
  /\ handle = [h \in Handle |-> Null]

-----------------------------------------------------------------------------
(* A shared pointer more to n.                                              *)
Acquire(t, n) == IF n = Null THEN t ELSE [t EXCEPT ![n].uses = @ + 1]

(* A pointer to n is released.  When the last pointer to a node is, it is   *)
(* destroyed and releases its children in turn: gone is the least set that  *)
(* has every node to which it and the first release leave no pointer.       *)
PointersFrom(t, s, m) ==
  {p \in s \X Name : t[p[1]] # Null /\ t[p[1]].children[p[2]] = m}

GivenUp(t, s, n, m) == Cardinality(PointersFrom(t, s, m)) + IF m = n THEN 1 ELSE 0

Swept(t, s, n) == \A m \in Node : t[m] # Null /\ t[m].uses <= GivenUp(t, s, n, m) => m \in s

Destroyed(t, n) == {m \in Node : \A s \in SUBSET Node : Swept(t, s, n) => m \in s}

Release(t, n) ==
  LET gone == Destroyed(t, n)
  IN  [m \in Node |->
         IF t[m] = Null \/ m \in gone THEN Null
         ELSE [t[m] EXCEPT !.uses = @ - GivenUp(t, gone, n, m)]]

(* h = n, in a table of nodes t.                                            *)
Assign(t, h, n) ==
  /\ node' = Release(Acquire(t, n), handle[h])
  /\ handle' = [handle EXCEPT ![h] = n]

(* makeDirectory() and File::makeFile(), with the first owner.              *)
NewOwningParent(t, n, kind, parent) ==    \* variant: the parent is a shared pointer
  Acquire([t EXCEPT ![n] = [kind |-> kind, parent |-> parent, children |-> NoChild, uses |-> 1]],
          parent)

New(t, n, kind, parent) ==
  [t EXCEPT ![n] = [kind |-> kind, parent |-> parent, children |-> NoChild, uses |-> 1]]

GetsRoot(h) ==
  /\ \/ root # Null /\ Assign(node, h, root) /\ UNCHANGED root
     \/ /\ root = Null
        /\ \E n \in Unused : root' = n /\ Assign(New(node, n, "dir", Null), h, n)

-----------------------------------------------------------------------------
(* h = d->addDirectory(name) and h = d->addFile(name, size): a null pointer *)
(* if the name is taken.  A file has no parent.                             *)
Child(d, name) == IF name \in Special THEN Null ELSE node[d].children[name]

TakenIfSpecial(d, name) == name \in Special    \* variant: the children are not searched

Taken(d, name) == name \in Special \/ Child(d, name) # Null

Adds(d, h, name, kind) ==
  /\ ~Taken(d, name)
  /\ \E n \in Unused :
       LET parent == IF kind = "dir" THEN d ELSE Null
       IN Assign([New(node, n, kind, parent) EXCEPT ![d].children[name] = n], h, n)
  /\ UNCHANGED root

AddsNot(d, h, name) == Taken(d, name) /\ Assign(node, h, Null) /\ UNCHANGED root

(* h = d->get(name), d->getDir(name) and d->getFile(name).                  *)
Found(d, name) ==
  CASE name = "." -> d
    [] name = ".." -> Lock(node[d].parent)
    [] OTHER -> Child(d, name)

Gets(d, h, name, kinds) ==
  /\ LET n == Found(d, name)
     IN Assign(node, h, IF Exists(n) /\ node[n].kind \in kinds THEN n ELSE Null)
  /\ UNCHANGED root

(* d->remove(name).                                                         *)
Removes(d, name) ==
  /\ Child(d, name) # Null
  /\ node' = Release([node EXCEPT ![d].children[name] = Null], Child(d, name))
  /\ UNCHANGED << root, handle >>

RemovesNot(d, name) ==
  /\ Child(d, name) = Null
  /\ UNCHANGED treeVars

Drops(h) == Assign(node, h, Null) /\ UNCHANGED root

TreeNext ==
  \E h \in Handle :
    \/ GetsRoot(h) \/ Drops(h)
    \/ \E g \in Handle, name \in Name \cup Special :
         /\ IsDir(handle[g])
         /\ \/ \E kind \in {"dir", "file"} : Adds(handle[g], h, name, kind)
            \/ \E kinds \in {{"dir"}, {"file"}, {"dir", "file"}} : Gets(handle[g], h, name, kinds)
            \/ AddsNot(handle[g], h, name)
            \/ Removes(handle[g], name) \/ RemovesNot(handle[g], name)

TreeSpec == TreeInit /\ [][TreeNext]_treeVars

-----------------------------------------------------------------------------
Places == {p \in Node \X Name : IsDir(p[1])}

(* The shared pointers to n.                                                *)
Uses(n) ==
  Cardinality({h \in Handle : handle[h] = n})
    + Cardinality({p \in Places : node[p[1]].children[p[2]] = n})
    + IF root = n THEN 1 ELSE 0

(* The least set that has ns and all that its nodes have below them.        *)
Below(ns) ==
  {m \in Node : \A s \in SUBSET Node :
     /\ ns \subseteq s
     /\ \A p \in Places : p[1] \in s => node[p[1]].children[p[2]] \in s \cup {Null}
     => m \in s}

\* What exists is what can be reached from the root or a pointer of a client,
\* counted right: removing a directory frees all that is below it that nobody
\* holds, at once and only once, and what somebody holds stays with all that is
\* below it; no cycle of pointers keeps anything alive.
OnlyReachableExist ==
  /\ \A n \in Node : Exists(n) => node[n].uses = Uses(n)
  /\ {n \in Node : Exists(n)} = Below(({root} \cup {handle[h] : h \in Handle}) \ {Null})

\* Nothing is in two places, ".." leads from a directory to the one it is in,
\* and no directory is below itself: from every place the way up is the way
\* down, and ls() ends.
UpIsWhereItIs ==
  /\ \A p \in Places :
       LET c == node[p[1]].children[p[2]]
       IN c # Null => /\ Exists(c)
                      /\ node[c].parent = IF IsDir(c) THEN p[1] ELSE Null
                      /\ \A q \in Places : node[q[1]].children[q[2]] = c => q = p
                      /\ p[1] \notin Below({c})

TreeIsSound == OnlyReachableExist /\ UpIsWhereItIs
=============================================================================
