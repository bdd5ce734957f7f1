----------------------- MODULE ProcessMapReduceProofs -----------------------
(***************************************************************************)
(* Theorems about the two versions of map-reduce with processes, for every *)
(* input, every mapper and every capacity of the pipes: the type invariant *)
(* of the multiplexed version; that no flag of select() is ever stale and  *)
(* that no process writes to a broken pipe; and that both versions compute *)
(* what one process computes, the safety part of their refinement.         *)
(***************************************************************************)
EXTENDS SyncMapReduce, SequenceTheorems, TLAPS

Folded == [key : Key, value : Seq(Value)]

Message == Line \cup Result \cup Folded

Forking == {"forks mapper", "forks reducer", "close"}

Alive == {"close", "read", "write", "fails", "loops", "rest"}

Place == Forking \cup Alive
           \cup {"select", "cm", "mc", "cr", "rc", "returned", "killed", "unborn", "exit", "failed"}

(* The data on their way.                                                  *)
DataInv ==
  /\ content \in [Pipe -> Seq(Message)]
  /\ content["cm"] \in Seq(Line) /\ content["rc"] \in Seq(Folded)
  /\ content["mc"] \in Seq(Result) /\ content["cr"] \in Seq(Result)
  /\ \A x \in Pipe : Len(content[x]) <= Capacity
  /\ unread \in Seq(Line) /\ queue \in Seq(Result) /\ mapped \in Seq(Result)
  /\ folded \in [Key -> Seq(Value)]
  /\ at["reducer"] = "write" => reduced \in Folded /\ reduced.value # << >>
  /\ reduced # NoResult => reduced \in Folded /\ reduced.value # << >>
  /\ at["reducer"] \notin {"write", "killed"} => reduced = NoResult
  /\ mapped # << >> => at["mapper"] = "write"

(* Where the processes are: the children are forked in order.              *)
PlaceInv ==
  /\ at \in [Process -> Place]
  /\ at["coordinator"] \in Forking \cup {"select", "cm", "mc", "cr", "rc", "returned", "killed"}
  /\ at["mapper"] \in Alive \cup {"unborn", "exit", "failed"}
  /\ at["reducer"] \in Alive \cup {"unborn", "exit", "killed"}
  /\ at["mapper"] = "unborn" <=> at["coordinator"] = "forks mapper"
  /\ at["reducer"] = "unborn" <=> at["coordinator"] \in {"forks mapper", "forks reducer"}

(* The descriptors: the coordinator holds all of them until it has forked  *)
(* and only its own ends later.                                            *)
HeldInv ==
  /\ held \subseteq Process \X Pipe \X End
  /\ at["coordinator"] \in Forking =>
       \A x \in Pipe, e \in End : << "coordinator", x, e >> \in held
  /\ at["coordinator"] \notin Forking =>
       /\ << "coordinator", "cm", "read" >> \notin held
       /\ << "coordinator", "mc", "write" >> \notin held
       /\ << "coordinator", "cr", "read" >> \notin held
       /\ << "coordinator", "rc", "write" >> \notin held
  /\ at["mapper"] = "unborn" => \A x \in Pipe, e \in End : << "mapper", x, e >> \notin held
  /\ at["reducer"] = "unborn" => \A x \in Pipe, e \in End : << "reducer", x, e >> \notin held

(* What is known when a process was killed.                                *)
KillInv ==
  /\ at["mapper"] = "failed" => \A x \in Pipe, e \in End : << "mapper", x, e >> \notin held
  /\ at["coordinator"] = "killed" =>
       /\ at["mapper"] = "failed"
       /\ \A x \in Pipe, e \in End : << "coordinator", x, e >> \notin held
  /\ at["reducer"] = "killed" => at["coordinator"] = "killed"
  /\ << "reducer", "mc", "write" >> \in held => << "reducer", "cm", "read" >> \in held

(* A reader lets go of its pipe only when nobody can write to it any more, *)
(* unless the mapper fails.  The coordinator that is killed then finds the *)
(* reducer without the ends that it does not use.                          *)
ReaderInv ==
  /\ at["mapper"] \in Alive => << "mapper", "cm", "read" >> \in held
  /\ at["reducer"] \in Alive => << "reducer", "cr", "read" >> \in held
  /\ at["mapper"] = "exit" => \A p \in Process : << p, "cm", "write" >> \notin held
  /\ at["reducer"] \in {"exit", "killed"} => \A p \in Process : << p, "cr", "write" >> \notin held
  /\ << "coordinator", "mc", "read" >> \notin held =>
       \A p \in Process : << p, "mc", "write" >> \notin held
  /\ << "coordinator", "rc", "read" >> \notin held =>
       at["coordinator"] = "killed" \/ \A p \in Process : << p, "rc", "write" >> \notin held
  /\ KillInv

(* The flags: none before the first select(), and true ones afterwards.    *)
FlagInv ==
  /\ ready \subseteq Pipe \X End
  /\ at["coordinator"] \in Forking => ready = {}
  /\ \A x \in Pipe, e \in End : << x, e >> \in ready => << "coordinator", x, e >> \in held
  /\ FlagsAreTrue

IInv == DataInv /\ PlaceInv /\ HeldInv /\ ReaderInv /\ FlagInv

-----------------------------------------------------------------------------
(* What the operations of Pipe do, descriptor by descriptor.               *)

LEMMA CloseFacts ==
  ASSUME NEW p \in Process, NEW ds \in SUBSET (Pipe \X End), Close(p, ds)
  PROVE  /\ \A q \in Process, x \in Pipe, e \in End :
              << q, x, e >> \in held' <=>
                << q, x, e >> \in held /\ ~(q = p /\ << x, e >> \in ds)
         /\ held' \subseteq held
         /\ ready' = IF p = "coordinator" THEN ready \ ds ELSE ready
         /\ content' = content
<1>1. ASSUME NEW q \in Process, NEW x \in Pipe, NEW e \in End
      PROVE  << q, x, e >> \in {<< p, d[1], d[2] >> : d \in ds} <=> q = p /\ << x, e >> \in ds
  <2>1. ASSUME q = p, << x, e >> \in ds
        PROVE  << q, x, e >> \in {<< p, d[1], d[2] >> : d \in ds}
    <3>1. << q, x, e >> = << p, << x, e >>[1], << x, e >>[2] >>
      BY <2>1
    <3> QED BY <3>1, <2>1
  <2>2. ASSUME << q, x, e >> \in {<< p, d[1], d[2] >> : d \in ds}
        PROVE  q = p /\ << x, e >> \in ds
    <3>1. PICK d \in ds : << q, x, e >> = << p, d[1], d[2] >>
      BY <2>2
    <3>2. d \in Pipe \X End
      OBVIOUS
    <3>3. d = << d[1], d[2] >> /\ q = p /\ x = d[1] /\ e = d[2]
      BY <3>1, <3>2
    <3> QED BY <3>3
  <2> QED BY <2>1, <2>2
<1> QED BY <1>1, RolesAssumption DEF Close, Reset

LEMMA ForkFacts ==
  ASSUME NEW p \in Process, Fork(p), held \subseteq Process \X Pipe \X End
  PROVE  /\ \A q \in Process, x \in Pipe, e \in End :
              << q, x, e >> \in held' <=>
                << q, x, e >> \in held \/ (q = p /\ << "coordinator", x, e >> \in held)
         /\ held' \subseteq Process \X Pipe \X End
         /\ ready' = ready
         /\ content' = content
<1> DEFINE copies == {<< p, d[2], d[3] >> : d \in {h \in held : h[1] = Selector}}
<1>1. ASSUME NEW q \in Process, NEW x \in Pipe, NEW e \in End
      PROVE  << q, x, e >> \in copies <=> q = p /\ << "coordinator", x, e >> \in held
  <2>1. ASSUME q = p, << "coordinator", x, e >> \in held
        PROVE  << q, x, e >> \in copies
    <3>1. << "coordinator", x, e >> \in {h \in held : h[1] = Selector}
      BY <2>1, RolesAssumption
    <3>2. << q, x, e >> = << p, << "coordinator", x, e >>[2], << "coordinator", x, e >>[3] >>
      BY <2>1
    <3> QED BY <3>1, <3>2
  <2>2. ASSUME << q, x, e >> \in copies
        PROVE  q = p /\ << "coordinator", x, e >> \in held
    <3>1. PICK d \in held : d[1] = "coordinator" /\ << q, x, e >> = << p, d[2], d[3] >>
      BY <2>2, RolesAssumption
    <3>2. d \in Process \X Pipe \X End
      OBVIOUS
    <3>3. d = << d[1], d[2], d[3] >> /\ q = p /\ x = d[2] /\ e = d[3]
      BY <3>1, <3>2
    <3> QED BY <3>1, <3>3
  <2> QED BY <2>1, <2>2
<1>2. copies \subseteq Process \X Pipe \X End
  <2>1. ASSUME NEW d \in held PROVE << p, d[2], d[3] >> \in Process \X Pipe \X End
    <3>1. d \in Process \X Pipe \X End
      OBVIOUS
    <3> QED BY <3>1
  <2> QED BY <2>1
<1> QED BY <1>1, <1>2 DEF Fork

LEMMA WriteFacts ==
  ASSUME NEW p \in Process, NEW x \in Pipe, NEW m \in Message, Write(p, x, m), DataInv
  PROVE  /\ content' \in [Pipe -> Seq(Message)]
         /\ content'[x] = Append(content[x], m)
         /\ \A y \in Pipe : y # x => content'[y] = content[y]
         /\ \A y \in Pipe : Len(content'[y]) <= Capacity
         /\ content'[x] # << >>
         /\ held' = held
         /\ ready' = IF p = "coordinator" THEN ready \ {<< x, "write" >>} ELSE ready
<1>1. content \in [Pipe -> Seq(Message)] /\ Len(content[x]) < Capacity
  BY DEF Write, Room, DataInv
<1>2. content[x] \in Seq(Message)
  BY <1>1
<1>3. Append(content[x], m) \in Seq(Message) /\ Len(Append(content[x], m)) = Len(content[x]) + 1
  BY <1>2
<1>4. content'[x] = Append(content[x], m) /\ \A y \in Pipe : y # x => content'[y] = content[y]
  BY <1>1 DEF Write
<1>5. content' \in [Pipe -> Seq(Message)]
  BY <1>1, <1>3 DEF Write
<1>6. Len(content[x]) + 1 <= Capacity
  BY <1>1, <1>2, PipesAssumption
<1>7. \A y \in Pipe : Len(content'[y]) <= Capacity
  BY <1>3, <1>4, <1>6 DEF DataInv
<1>8. content'[x] # << >>
  BY <1>2, <1>4
<1> QED BY <1>4, <1>5, <1>7, <1>8, RolesAssumption DEF Write, Reset

LEMMA ReadFacts ==
  ASSUME NEW p \in Process, NEW x \in Pipe, Read(p, x), DataInv
  PROVE  /\ content' \in [Pipe -> Seq(Message)]
         /\ content[x] # << >>
         /\ content'[x] = Tail(content[x])
         /\ \A y \in Pipe : y # x => content'[y] = content[y]
         /\ \A y \in Pipe : Len(content'[y]) <= Len(content[y])
         /\ \A y \in Pipe : Len(content'[y]) <= Capacity
         /\ held' = held
         /\ ready' = IF p = "coordinator" THEN ready \ {<< x, "read" >>} ELSE ready
<1>1. content \in [Pipe -> Seq(Message)] /\ content[x] # << >>
  BY DEF Read, DataInv
<1>2. content[x] \in Seq(Message)
  BY <1>1
<1>3. Tail(content[x]) \in Seq(Message) /\ Len(Tail(content[x])) = Len(content[x]) - 1
  BY <1>1, <1>2
<1>4. content'[x] = Tail(content[x]) /\ \A y \in Pipe : y # x => content'[y] = content[y]
  BY <1>1 DEF Read
<1>5. content' \in [Pipe -> Seq(Message)]
  BY <1>1, <1>3 DEF Read
<1>6. ASSUME NEW y \in Pipe PROVE Len(content'[y]) <= Len(content[y])
  <2>1. Len(content[y]) \in Nat
    BY <1>1
  <2>2. CASE y = x
    <3>1. Len(content'[y]) = Len(content[y]) - 1
      BY <1>3, <1>4, <2>2
    <3> QED BY <2>1, <3>1
  <2>3. CASE y # x
    BY <1>4, <2>1, <2>3
  <2> QED BY <2>2, <2>3
<1>7. \A y \in Pipe : Len(content'[y]) <= Capacity
  <2>1. \A y \in Pipe : Len(content[y]) \in Nat /\ Len(content'[y]) \in Nat
    BY <1>1, <1>5
  <2> QED BY <1>6, <2>1, PipesAssumption DEF DataInv
<1> QED BY <1>1, <1>4, <1>5, <1>6, <1>7, RolesAssumption DEF Read, Reset

LEMMA GoesFacts ==
  ASSUME NEW p \in Process, NEW from \in Place, NEW to \in Place, Goes(p, from, to), PlaceInv
  PROVE  /\ at[p] = from /\ at'[p] = to
         /\ \A q \in Process : q # p => at'[q] = at[q]
         /\ at' \in [Process -> Place]
BY DEF Goes, PlaceInv

-----------------------------------------------------------------------------
(* The flags stay true.  A writer other than the coordinator writes only   *)
(* to pipes whose write end the coordinator has closed, and a reader other *)
(* than the coordinator reads only from pipes whose read end it has        *)
(* closed; and a descriptor that is closed never makes a read block.       *)

LEMMA FlagsAfterClose ==
  ASSUME NEW p \in Process, NEW ds \in SUBSET (Pipe \X End), Close(p, ds), FlagInv
  PROVE  /\ ready' \subseteq ready
         /\ \A x \in Pipe, e \in End : << x, e >> \in ready' => << "coordinator", x, e >> \in held'
         /\ FlagsAreTrue'
<1>1. \A q \in Process, x \in Pipe, e \in End :
        << q, x, e >> \in held' <=> << q, x, e >> \in held /\ ~(q = p /\ << x, e >> \in ds)
  BY CloseFacts
<1>2. ready' = (IF p = "coordinator" THEN ready \ ds ELSE ready) /\ content' = content
  BY CloseFacts
<1>3. "read" \in End /\ "write" \in End /\ "coordinator" \in Process
  BY RolesAssumption DEF End
<1>4. \A x \in Pipe, e \in End : << x, e >> \in ready' => << "coordinator", x, e >> \in held'
  BY <1>1, <1>2, <1>3 DEF FlagInv
<1>5. ASSUME NEW x \in Pipe PROVE AtEof(x) => AtEof(x)'
  BY <1>1, <1>2, <1>3 DEF AtEof
<1>6. ASSUME NEW x \in Pipe PROVE Writable(x) => Writable(x)'
  BY <1>1, <1>2, <1>3 DEF Writable, Room, HasReader
<1>7. FlagsAreTrue'
  BY <1>2, <1>5, <1>6 DEF FlagInv, FlagsAreTrue, Readable
<1> QED BY <1>2, <1>4, <1>7

LEMMA FlagsAfterWrite ==
  ASSUME NEW p \in Process, NEW x \in Pipe, NEW m \in Message, Write(p, x, m), DataInv, FlagInv,
         p = "coordinator" \/ << "coordinator", x, "write" >> \notin held
  PROVE  /\ ready' \subseteq ready
         /\ \A y \in Pipe, e \in End : << y, e >> \in ready' => << "coordinator", y, e >> \in held'
         /\ FlagsAreTrue'
<1>1. /\ \A y \in Pipe : y # x => content'[y] = content[y]
      /\ content'[x] # << >> /\ held' = held
      /\ ready' = IF p = "coordinator" THEN ready \ {<< x, "write" >>} ELSE ready
  BY WriteFacts
<1>2. "write" \in End
  BY DEF End
<1>3. << x, "write" >> \notin ready'
  BY <1>1, <1>2 DEF FlagInv
<1>4. ASSUME NEW y \in Pipe
      PROVE  /\ << y, "write" >> \in ready' => Writable(y)'
             /\ << y, "read" >> \in ready' => Readable(y)'
  <2>1. CASE y = x
    BY <1>1, <1>3, <2>1 DEF Readable
  <2>2. CASE y # x
    BY <1>1, <2>2 DEF FlagInv, FlagsAreTrue, Readable, Writable, Room, HasReader, AtEof
  <2> QED BY <2>1, <2>2
<1>5. FlagsAreTrue'
  BY <1>4 DEF FlagsAreTrue
<1> QED BY <1>1, <1>5 DEF FlagInv

LEMMA FlagsAfterRead ==
  ASSUME NEW p \in Process, NEW x \in Pipe, Read(p, x), DataInv, FlagInv,
         p = "coordinator" \/ << "coordinator", x, "read" >> \notin held
  PROVE  /\ ready' \subseteq ready
         /\ \A y \in Pipe, e \in End : << y, e >> \in ready' => << "coordinator", y, e >> \in held'
         /\ FlagsAreTrue'
<1>1. /\ \A y \in Pipe : y # x => content'[y] = content[y]
      /\ \A y \in Pipe : Len(content'[y]) <= Len(content[y])
      /\ held' = held
      /\ ready' = IF p = "coordinator" THEN ready \ {<< x, "read" >>} ELSE ready
      /\ content' \in [Pipe -> Seq(Message)]
  BY ReadFacts
<1>2. "read" \in End
  BY DEF End
<1>3. << x, "read" >> \notin ready'
  BY <1>1, <1>2 DEF FlagInv
<1>4. ASSUME NEW y \in Pipe PROVE << y, "write" >> \in ready' => Writable(y)'
  <2>1. Len(content'[y]) \in Nat /\ Len(content[y]) \in Nat /\ Capacity \in Nat
    BY <1>1, PipesAssumption DEF DataInv
  <2>2. << y, "write" >> \in ready' => Len(content[y]) < Capacity \/ ~HasReader(y)
    BY <1>1 DEF FlagInv, FlagsAreTrue, Writable, Room
  <2>3. HasReader(y)' = HasReader(y)
    BY <1>1 DEF HasReader
  <2>4. << y, "write" >> \in ready' => Len(content'[y]) < Capacity \/ ~HasReader(y)'
    BY <1>1, <2>1, <2>2, <2>3
  <2> QED BY <2>4 DEF Writable, Room
<1>5. ASSUME NEW y \in Pipe PROVE << y, "read" >> \in ready' => Readable(y)'
  <2>1. CASE y = x
    BY <1>3, <2>1
  <2>2. CASE y # x
    BY <1>1, <2>2 DEF FlagInv, FlagsAreTrue, Readable, AtEof
  <2> QED BY <2>1, <2>2
<1>6. FlagsAreTrue'
  BY <1>4, <1>5 DEF FlagsAreTrue
<1> QED BY <1>1, <1>6 DEF FlagInv

-----------------------------------------------------------------------------
(* The descriptors, after a step that closes none and after one that does. *)

LEMMA SameHeld ==
  ASSUME HeldInv, ReaderInv, held' = held,
         at'["coordinator"] \in Forking <=> at["coordinator"] \in Forking,
         at'["coordinator"] = "killed" <=> at["coordinator"] = "killed",
         \A q \in {"mapper", "reducer"} :
           at'[q] = at[q] \/ (at[q] \in Alive /\ at'[q] \in Alive)
  PROVE  HeldInv' /\ ReaderInv'
<1>1. {"unborn", "exit", "failed", "killed"} \cap Alive = {}
  BY DEF Alive
<1>2. HeldInv'
  BY <1>1 DEF HeldInv
<1>3. KillInv'
  BY <1>1 DEF ReaderInv, KillInv
<1>4. ReaderInv'
  BY <1>1, <1>3 DEF ReaderInv
<1> QED BY <1>2, <1>4

LEMMA CoordinatorCloses ==
  ASSUME NEW ds \in SUBSET (Pipe \X End), Close("coordinator", ds), HeldInv, ReaderInv,
         at'["coordinator"] \notin Forking, at'["coordinator"] # "killed", at["coordinator"] # "killed",
         \A q \in {"mapper", "reducer"} : at'[q] = at[q],
         \/ at["coordinator"] \notin Forking
         \/ ds = {<< "cm", "read" >>, << "mc", "write" >>, << "cr", "read" >>, << "rc", "write" >>},
         << "mc", "read" >> \in ds => AtEof("mc"),
         << "rc", "read" >> \in ds => AtEof("rc")
  PROVE  HeldInv' /\ ReaderInv'
<1>1. \A q \in Process, x \in Pipe, e \in End :
        << q, x, e >> \in held' <=>
          << q, x, e >> \in held /\ ~(q = "coordinator" /\ << x, e >> \in ds)
  BY CloseFacts, RolesAssumption
<1>2. held' \subseteq held
  BY CloseFacts, RolesAssumption
<1>3. "read" \in End /\ "write" \in End
  BY DEF End
<1>4. /\ << "coordinator", "cm", "read" >> \notin held'
      /\ << "coordinator", "mc", "write" >> \notin held'
      /\ << "coordinator", "cr", "read" >> \notin held'
      /\ << "coordinator", "rc", "write" >> \notin held'
  BY <1>1, <1>3, RolesAssumption DEF HeldInv
<1>5. HeldInv'
  BY <1>2, <1>4 DEF HeldInv
<1>6. /\ at["mapper"] \in Alive => << "mapper", "cm", "read" >> \in held'
      /\ at["reducer"] \in Alive => << "reducer", "cr", "read" >> \in held'
  BY <1>1, <1>3, RolesAssumption DEF ReaderInv
<1>7. << "coordinator", "mc", "read" >> \notin held' =>
        \A p \in Process : << p, "mc", "write" >> \notin held'
  BY <1>1, <1>2, <1>3, RolesAssumption DEF ReaderInv, AtEof
<1>8. << "coordinator", "rc", "read" >> \notin held' =>
        \A p \in Process : << p, "rc", "write" >> \notin held'
  BY <1>1, <1>2, <1>3, RolesAssumption DEF ReaderInv, AtEof
<1>9. KillInv'
  BY <1>1, <1>3, RolesAssumption DEF ReaderInv, KillInv
<1>10. ReaderInv'
  BY <1>2, <1>6, <1>7, <1>8, <1>9 DEF ReaderInv
<1> QED BY <1>5, <1>10

(* A child closes descriptors, and its read end only when it exits at EOF,  *)
(* fails or is killed.                                                      *)
LEMMA ChildCloses ==
  ASSUME NEW c \in {"mapper", "reducer"}, NEW ds \in SUBSET (Pipe \X End), Close(c, ds),
         HeldInv, ReaderInv,
         \A q \in Process : q # c => at'[q] = at[q],
         at[c] \in Alive,
         << "cm", "read" >> \in ds => << "mc", "write" >> \in ds,
         \/ at'[c] \in Alive /\ c = "mapper" /\ << "cm", "read" >> \notin ds
         \/ at'[c] \in Alive /\ c = "reducer" /\ << "cr", "read" >> \notin ds
         \/ at'[c] = "exit" /\ c = "mapper" /\ AtEof("cm")
         \/ at'[c] = "exit" /\ c = "reducer" /\ AtEof("cr")
         \/ at'[c] = "failed" /\ c = "mapper" /\ ds = Pipe \X End
         \/ at'[c] = "killed" /\ c = "reducer" /\ ds = Pipe \X End /\ at["coordinator"] = "killed"
  PROVE  HeldInv' /\ ReaderInv'
<1>1. \A q \in Process, x \in Pipe, e \in End :
        << q, x, e >> \in held' <=> << q, x, e >> \in held /\ ~(q = c /\ << x, e >> \in ds)
  BY CloseFacts, RolesAssumption
<1>2. held' \subseteq held
  BY CloseFacts, RolesAssumption
<1>3. "read" \in End /\ "write" \in End /\ c \in Process /\ c # "coordinator"
  BY RolesAssumption DEF End
<1>4. {"unborn", "exit", "failed", "killed"} \cap Alive = {}
  BY DEF Alive
<1>5. at'["coordinator"] = at["coordinator"]
  BY <1>3, RolesAssumption
<1>6. \A q \in {"mapper", "reducer"} : at'[q] = "unborn" => at[q] = "unborn"
  BY <1>3, <1>4, RolesAssumption
<1>7. \A x \in Pipe, e \in End :
        << "coordinator", x, e >> \in held' <=> << "coordinator", x, e >> \in held
  BY <1>1, <1>3, RolesAssumption
<1>8. HeldInv'
  BY <1>2, <1>5, <1>6, <1>7, RolesAssumption DEF HeldInv
<1>9. /\ at'["mapper"] \in Alive => << "mapper", "cm", "read" >> \in held'
      /\ at'["reducer"] \in Alive => << "reducer", "cr", "read" >> \in held'
  BY <1>1, <1>3, <1>4, RolesAssumption DEF ReaderInv
<1>10. at'["mapper"] = "exit" => \A p \in Process : << p, "cm", "write" >> \notin held'
  BY <1>2, <1>3, <1>4, RolesAssumption DEF ReaderInv, AtEof
<1>11. ASSUME at'["reducer"] \in {"exit", "killed"}, NEW p \in Process
       PROVE  << p, "cr", "write" >> \notin held'
  <2>1. CASE c = "reducer" /\ at'[c] = "exit" /\ AtEof("cr")
    BY <1>2, <2>1 DEF AtEof
  <2>2. CASE /\ c = "reducer" /\ at'[c] = "killed" /\ ds = Pipe \X End
             /\ at["coordinator"] = "killed"
    <3>1. /\ \A x \in Pipe, e \in End : << "coordinator", x, e >> \notin held
          /\ \A x \in Pipe, e \in End : << "mapper", x, e >> \notin held
      BY <2>2 DEF ReaderInv, KillInv
    <3>2. CASE p = "reducer"
      BY <1>1, <1>3, <2>2, <3>2, RolesAssumption
    <3>3. CASE p # "reducer"
      BY <1>2, <1>3, <3>1, <3>3, RolesAssumption
    <3> QED BY <3>2, <3>3
  <2>3. CASE c = "mapper"
    BY <1>2, <1>11, <2>3, RolesAssumption DEF ReaderInv
  <2> QED BY <1>4, <1>11, <2>1, <2>2, <2>3
<1>12. /\ << "coordinator", "mc", "read" >> \notin held' =>
            \A p \in Process : << p, "mc", "write" >> \notin held'
       /\ << "coordinator", "rc", "read" >> \notin held' =>
            \/ at'["coordinator"] = "killed"
            \/ \A p \in Process : << p, "rc", "write" >> \notin held'
  BY <1>2, <1>3, <1>5, <1>7, RolesAssumption DEF ReaderInv
<1>13. at'["mapper"] = "failed" => \A x \in Pipe, e \in End : << "mapper", x, e >> \notin held'
  <2>1. CASE c = "mapper"
    BY <1>1, <1>3, <1>4, <2>1, RolesAssumption
  <2>2. CASE c = "reducer"
    BY <1>2, <2>2, RolesAssumption DEF ReaderInv, KillInv
  <2> QED BY <2>1, <2>2
<1>14. at'["coordinator"] = "killed" =>
         /\ at'["mapper"] = "failed"
         /\ \A x \in Pipe, e \in End : << "coordinator", x, e >> \notin held'
  <2>1. at["coordinator"] = "killed" => at["mapper"] = "failed"
    BY DEF ReaderInv, KillInv
  <2>2. at["coordinator"] = "killed" => at'["mapper"] = "failed"
    BY <1>4, <2>1, RolesAssumption
  <2> QED BY <1>5, <1>7, <2>2 DEF ReaderInv, KillInv
<1>15. at'["reducer"] = "killed" => at'["coordinator"] = "killed"
  BY <1>4, <1>5, RolesAssumption DEF ReaderInv, KillInv
<1>16. << "reducer", "mc", "write" >> \in held' => << "reducer", "cm", "read" >> \in held'
  BY <1>1, <1>3, RolesAssumption DEF ReaderInv, KillInv
<1>17. KillInv'
  BY <1>13, <1>14, <1>15, <1>16 DEF KillInv
<1>18. ReaderInv'
  BY <1>9, <1>10, <1>11, <1>12, <1>17 DEF ReaderInv
<1> QED BY <1>8, <1>18

-----------------------------------------------------------------------------
(* Every action keeps the invariant.                                       *)

LEMMA StepForksMapper ==
  ASSUME IInv, ForksMapper
  PROVE  IInv'
<1>1. /\ at["coordinator"] = "forks mapper" /\ at["mapper"] = "unborn" /\ at["reducer"] = "unborn"
      /\ at'["coordinator"] = "forks reducer" /\ at'["mapper"] = "close"
      /\ at'["reducer"] = "unborn" /\ at' \in [Process -> Place]
  <2>1. at \in [Process -> Place] /\ at["coordinator"] = "forks mapper"
    BY DEF ForksMapper, IInv, PlaceInv
  <2>2. at["mapper"] = "unborn" /\ at["reducer"] = "unborn"
    BY <2>1 DEF IInv, PlaceInv
  <2>3. at' = [at EXCEPT !["coordinator"] = "forks reducer", !["mapper"] = "close"]
    BY DEF ForksMapper
  <2> QED BY <2>1, <2>2, <2>3, RolesAssumption DEF Place, Forking, Alive
<1>2. /\ \A q \in Process, x \in Pipe, e \in End :
           << q, x, e >> \in held' <=>
             << q, x, e >> \in held \/ (q = "mapper" /\ << "coordinator", x, e >> \in held)
      /\ held' \subseteq Process \X Pipe \X End
      /\ ready' = ready /\ content' = content
  BY ForkFacts, RolesAssumption DEF ForksMapper, IInv, HeldInv
<1>3. \A x \in Pipe, e \in End : << "coordinator", x, e >> \in held
  BY <1>1 DEF IInv, HeldInv, Forking
<1>4. DataInv'
  BY <1>1, <1>2 DEF ForksMapper, IInv, DataInv, cVars, mVars, rVars
<1>5. PlaceInv'
  BY <1>1 DEF PlaceInv, Forking, Alive
<1>6. HeldInv'
  BY <1>1, <1>2, <1>3, RolesAssumption DEF HeldInv, IInv, Forking
<1>7. ReaderInv'
  <2>1. \A x \in Pipe, e \in End : << "reducer", x, e >> \notin held'
    BY <1>1, <1>2, RolesAssumption DEF IInv, HeldInv
  <2>2. KillInv'
    BY <1>1, <2>1, RolesAssumption DEF KillInv, End
  <2> QED BY <1>1, <1>2, <1>3, <2>2, RolesAssumption DEF ReaderInv, Alive, End
<1>8. FlagInv'
  BY <1>1, <1>2 DEF IInv, FlagInv, FlagsAreTrue, Forking
<1> QED BY <1>4, <1>5, <1>6, <1>7, <1>8 DEF IInv

LEMMA StepForksReducer ==
  ASSUME IInv, ForksReducer
  PROVE  IInv'
<1>1. /\ at["coordinator"] = "forks reducer" /\ at["mapper"] # "unborn" /\ at["reducer"] = "unborn"
      /\ at["mapper"] \in Alive \cup {"exit", "failed"}
      /\ at'["coordinator"] = "close" /\ at'["reducer"] = "close"
      /\ at'["mapper"] = at["mapper"] /\ at' \in [Process -> Place]
  <2>1. at \in [Process -> Place] /\ at["coordinator"] = "forks reducer"
    BY DEF ForksReducer, IInv, PlaceInv
  <2>2. at["mapper"] \in Alive \cup {"exit", "failed"} /\ at["reducer"] = "unborn"
    BY <2>1 DEF IInv, PlaceInv
  <2>3. at' = [at EXCEPT !["coordinator"] = "close", !["reducer"] = "close"]
    BY DEF ForksReducer
  <2>4. "unborn" \notin Alive \cup {"exit", "failed"}
    BY DEF Alive
  <2> QED BY <2>1, <2>2, <2>3, <2>4, RolesAssumption DEF Place, Forking, Alive
<1>2. /\ \A q \in Process, x \in Pipe, e \in End :
           << q, x, e >> \in held' <=>
             << q, x, e >> \in held \/ (q = "reducer" /\ << "coordinator", x, e >> \in held)
      /\ held' \subseteq Process \X Pipe \X End
      /\ ready' = ready /\ content' = content
  BY ForkFacts, RolesAssumption DEF ForksReducer, IInv, HeldInv
<1>3. \A x \in Pipe, e \in End : << "coordinator", x, e >> \in held
  BY <1>1 DEF IInv, HeldInv, Forking
<1>4. at["mapper"] # "exit"
  BY <1>3, RolesAssumption DEF IInv, ReaderInv, End
<1>5. DataInv'
  BY <1>1, <1>2 DEF ForksReducer, IInv, DataInv, cVars, mVars, rVars
<1>6. PlaceInv'
  BY <1>1 DEF PlaceInv, Forking, Alive
<1>7. HeldInv'
  BY <1>1, <1>2, <1>3, RolesAssumption DEF HeldInv, IInv, Forking
<1>8. ReaderInv'
  <2>1. << "reducer", "cm", "read" >> \in held'
    BY <1>2, <1>3, RolesAssumption DEF End
  <2>2. at'["mapper"] = "failed" => \A x \in Pipe, e \in End : << "mapper", x, e >> \notin held'
    BY <1>1, <1>2, RolesAssumption DEF IInv, ReaderInv, KillInv
  <2>3. KillInv'
    BY <1>1, <2>1, <2>2 DEF KillInv
  <2> QED BY <1>1, <1>2, <1>3, <1>4, <2>3, RolesAssumption DEF IInv, ReaderInv, Alive, End
<1>9. FlagInv'
  BY <1>1, <1>2 DEF IInv, FlagInv, FlagsAreTrue, Forking
<1> QED BY <1>5, <1>6, <1>7, <1>8, <1>9 DEF IInv

(* The coordinator closes ends: its far ends, or a whole pipe.              *)
LEMMA StepCloses ==
  ASSUME IInv, NEW ds \in SUBSET (Pipe \X End), Close("coordinator", ds),
         UNCHANGED << cVars, mVars, rVars >>,
         at["coordinator"] \notin {"forks mapper", "forks reducer", "killed"},
         at'["coordinator"] \in {"select", "cm", "mc", "cr", "rc"},
         \A q \in Process : q # "coordinator" => at'[q] = at[q],
         at' \in [Process -> Place],
         \/ at["coordinator"] # "close"
         \/ ds = {<< "cm", "read" >>, << "mc", "write" >>, << "cr", "read" >>, << "rc", "write" >>},
         << "mc", "read" >> \in ds => AtEof("mc"),
         << "rc", "read" >> \in ds => AtEof("rc")
  PROVE  IInv'
<1>2. "coordinator" \in Process /\ "mapper" \in Process /\ "reducer" \in Process
  BY RolesAssumption
<1>4. at'["mapper"] = at["mapper"] /\ at'["reducer"] = at["reducer"]
  BY <1>2
<1>5. DataInv'
  <2>1. content' = content
    BY <1>2, CloseFacts
  <2> QED BY <1>4, <2>1 DEF IInv, DataInv, cVars, mVars, rVars
<1>6. PlaceInv'
  BY <1>4 DEF IInv, PlaceInv, Forking
<1>7. at'["coordinator"] \notin Forking
  BY DEF Forking
<1>8. HeldInv' /\ ReaderInv'
  <2>0. at'["coordinator"] # "killed"
    OBVIOUS
  <2>1. \/ at["coordinator"] \notin Forking
        \/ ds = {<< "cm", "read" >>, << "mc", "write" >>, << "cr", "read" >>, << "rc", "write" >>}
    BY DEF Forking
  <2>2. \A q \in {"mapper", "reducer"} : at'[q] = at[q]
    BY <1>4
  <2> QED BY <1>7, <2>0, <2>1, <2>2, CoordinatorCloses DEF IInv
<1>9. FlagInv'
  <2>1. /\ ready' \subseteq ready
        /\ \A x \in Pipe, e \in End : << x, e >> \in ready' => << "coordinator", x, e >> \in held'
        /\ FlagsAreTrue'
    BY <1>2, FlagsAfterClose DEF IInv
  <2> QED BY <1>7, <2>1 DEF IInv, FlagInv
<1> QED BY <1>5, <1>6, <1>8, <1>9 DEF IInv

LEMMA CoordinatorGoes ==
  ASSUME IInv, NEW from \in Place, NEW to \in Place, Goes("coordinator", from, to)
  PROVE  /\ at["coordinator"] = from /\ at'["coordinator"] = to
         /\ \A q \in Process : q # "coordinator" => at'[q] = at[q]
         /\ at' \in [Process -> Place]
BY GoesFacts, RolesAssumption DEF IInv

LEMMA StepClosesFarEnds ==
  ASSUME IInv, ClosesFarEnds
  PROVE  IInv'
<1> DEFINE far == {<< "cm", "read" >>, << "mc", "write" >>, << "cr", "read" >>, << "rc", "write" >>}
<1>1. far \in SUBSET (Pipe \X End)
  BY RolesAssumption DEF End
<1>2. << "mc", "read" >> \notin far /\ << "rc", "read" >> \notin far
  OBVIOUS
<1>3. Close("coordinator", far) /\ UNCHANGED << cVars, mVars, rVars >>
  BY DEF ClosesFarEnds
<1>4. Goes("coordinator", "close", "select") /\ "close" \in Place /\ "select" \in Place
  BY DEF ClosesFarEnds, Place, Forking
<1>5. /\ at["coordinator"] = "close" /\ at'["coordinator"] = "select"
      /\ \A q \in Process : q # "coordinator" => at'[q] = at[q]
      /\ at' \in [Process -> Place]
  BY <1>4, CoordinatorGoes
<1> QED BY <1>1, <1>2, <1>3, <1>5, StepCloses

LEMMA BothFacts ==
  ASSUME NEW x \in Pipe
  PROVE  /\ Both({x}) \in SUBSET (Pipe \X End)
         /\ \A y \in Pipe : << y, "read" >> \in Both({x}) => y = x
BY DEF Both

LEMMA StepEndsInput ==
  ASSUME IInv, EndsInput
  PROVE  IInv'
<1>1. Both({"cm"}) \in SUBSET (Pipe \X End)
  BY BothFacts, RolesAssumption
<1>2. /\ << "mc", "read" >> \in Both({"cm"}) => AtEof("mc")
      /\ << "rc", "read" >> \in Both({"cm"}) => AtEof("rc")
  BY BothFacts, RolesAssumption
<1>3. Close("coordinator", Both({"cm"})) /\ UNCHANGED << cVars, mVars, rVars >>
  BY DEF EndsInput
<1>4. Goes("coordinator", "cm", "mc") /\ "cm" \in Place /\ "mc" \in Place
  BY DEF EndsInput, Place
<1>5. /\ at["coordinator"] = "cm" /\ at'["coordinator"] = "mc"
      /\ \A q \in Process : q # "coordinator" => at'[q] = at[q]
      /\ at' \in [Process -> Place]
  BY <1>4, CoordinatorGoes
<1> QED BY <1>1, <1>2, <1>3, <1>5, StepCloses

LEMMA StepMapperEnded ==
  ASSUME IInv, MapperEnded
  PROVE  IInv'
<1>1. Both({"mc"}) \in SUBSET (Pipe \X End)
  BY BothFacts, RolesAssumption
<1>2. /\ << "mc", "read" >> \in Both({"mc"}) => AtEof("mc")
      /\ << "rc", "read" >> \in Both({"mc"}) => AtEof("rc")
  BY BothFacts, RolesAssumption DEF MapperEnded
<1>3. Close("coordinator", Both({"mc"})) /\ UNCHANGED << cVars, mVars, rVars >>
  BY DEF MapperEnded
<1>4. Goes("coordinator", "mc", "cr") /\ "mc" \in Place /\ "cr" \in Place
  BY DEF MapperEnded, Place
<1>5. /\ at["coordinator"] = "mc" /\ at'["coordinator"] = "cr"
      /\ \A q \in Process : q # "coordinator" => at'[q] = at[q]
      /\ at' \in [Process -> Place]
  BY <1>4, CoordinatorGoes
<1> QED BY <1>1, <1>2, <1>3, <1>5, StepCloses

LEMMA StepEndsMapped ==
  ASSUME IInv, EndsMapped
  PROVE  IInv'
<1>1. Both({"cr"}) \in SUBSET (Pipe \X End)
  BY BothFacts, RolesAssumption
<1>2. /\ << "mc", "read" >> \in Both({"cr"}) => AtEof("mc")
      /\ << "rc", "read" >> \in Both({"cr"}) => AtEof("rc")
  BY BothFacts, RolesAssumption
<1>3. Close("coordinator", Both({"cr"})) /\ UNCHANGED << cVars, mVars, rVars >>
  BY DEF EndsMapped
<1>4. Goes("coordinator", "cr", "rc") /\ "cr" \in Place /\ "rc" \in Place
  BY DEF EndsMapped, Place
<1>5. /\ at["coordinator"] = "cr" /\ at'["coordinator"] = "rc"
      /\ \A q \in Process : q # "coordinator" => at'[q] = at[q]
      /\ at' \in [Process -> Place]
  BY <1>4, CoordinatorGoes
<1> QED BY <1>1, <1>2, <1>3, <1>5, StepCloses

LEMMA StepReducerEnded ==
  ASSUME IInv, ReducerEnded
  PROVE  IInv'
<1>1. Both({"rc"}) \in SUBSET (Pipe \X End)
  BY BothFacts, RolesAssumption
<1>2. /\ << "mc", "read" >> \in Both({"rc"}) => AtEof("mc")
      /\ << "rc", "read" >> \in Both({"rc"}) => AtEof("rc")
  BY BothFacts, RolesAssumption DEF ReducerEnded
<1>3. Close("coordinator", Both({"rc"})) /\ UNCHANGED << cVars, mVars, rVars >>
  BY DEF ReducerEnded
<1>4. Goes("coordinator", "rc", "select") /\ "rc" \in Place /\ "select" \in Place
  BY DEF ReducerEnded, Place
<1>5. /\ at["coordinator"] = "rc" /\ at'["coordinator"] = "select"
      /\ \A q \in Process : q # "coordinator" => at'[q] = at[q]
      /\ at' \in [Process -> Place]
  BY <1>4, CoordinatorGoes
<1> QED BY <1>1, <1>2, <1>3, <1>5, StepCloses

LEMMA StepSelects ==
  ASSUME IInv, Selects
  PROVE  IInv'
<1>1. /\ at["coordinator"] = "select" /\ at'["coordinator"] = "cm"
      /\ at'["mapper"] = at["mapper"] /\ at'["reducer"] = at["reducer"]
      /\ at' \in [Process -> Place]
  <2>1. Goes("coordinator", "select", "cm") /\ PlaceInv
    BY DEF Selects, IInv
  <2>2. "coordinator" \in Process /\ "mapper" \in Process /\ "reducer" \in Process
    BY RolesAssumption
  <2> QED BY <2>1, <2>2, GoesFacts DEF Place
<1>2. content' = content /\ held' = held
  BY DEF Selects, Select
<1>3. DataInv'
  BY <1>1, <1>2 DEF Selects, IInv, DataInv, cVars, mVars, rVars
<1>4. PlaceInv'
  BY <1>1 DEF IInv, PlaceInv, Forking
<1>5. HeldInv' /\ ReaderInv'
  BY <1>1, <1>2, SameHeld DEF IInv, Forking
<1>6. ASSUME NEW d \in ready'
      PROVE  \/ d \in ready
             \/ \E x \in Pipe : /\ d = << x, "read" >> /\ Readable(x)
                                /\ << "coordinator", x, "read" >> \in held
             \/ \E x \in Pipe : /\ d = << x, "write" >> /\ Writable(x)
                                /\ << "coordinator", x, "write" >> \in held
  BY RolesAssumption DEF Selects, Select
<1>7. ready' \subseteq Pipe \X End
  <2>1. ready \subseteq Pipe \X End /\ "read" \in End /\ "write" \in End
    BY DEF IInv, FlagInv, End
  <2>2. ASSUME NEW d \in ready' PROVE d \in Pipe \X End
    <3>1. CASE d \in ready
      BY <2>1, <3>1
    <3>2. CASE \E x \in Pipe : d = << x, "read" >> \/ d = << x, "write" >>
      BY <2>1, <3>2
    <3> QED BY <1>6, <3>1, <3>2
  <2> QED BY <2>2
<1>8. \A x \in Pipe, e \in End : << x, e >> \in ready' => << "coordinator", x, e >> \in held'
  BY <1>2, <1>6 DEF IInv, FlagInv
<1>9. FlagsAreTrue'
  <2>1. ASSUME NEW x \in Pipe
        PROVE  /\ << x, "write" >> \in ready' => Writable(x)
               /\ << x, "read" >> \in ready' => Readable(x)
    BY <1>6 DEF IInv, FlagInv, FlagsAreTrue
  <2> QED BY <1>2, <2>1 DEF FlagsAreTrue, Writable, Room, HasReader, Readable, AtEof
<1>10. FlagInv'
  BY <1>1, <1>7, <1>8, <1>9 DEF FlagInv, Forking
<1> QED BY <1>3, <1>4, <1>5, <1>10 DEF IInv

(* A step of the coordinator that moves it but opens and closes nothing.    *)
LEMMA CoordinatorMoves ==
  ASSUME IInv, NEW from \in Place, NEW to \in Place, Goes("coordinator", from, to),
         from \notin Forking \cup {"killed"}, to \in {"select", "cm", "mc", "cr", "rc", "returned"},
         held' = held
  PROVE  /\ PlaceInv' /\ HeldInv' /\ ReaderInv'
         /\ at'["coordinator"] \notin Forking
         /\ at'["mapper"] = at["mapper"] /\ at'["reducer"] = at["reducer"]
<1>1. /\ at["coordinator"] = from /\ at'["coordinator"] = to
      /\ \A q \in Process : q # "coordinator" => at'[q] = at[q]
      /\ at' \in [Process -> Place]
  BY CoordinatorGoes
<1>2. at'["mapper"] = at["mapper"] /\ at'["reducer"] = at["reducer"]
  BY <1>1, RolesAssumption
<1>3. to \notin Forking
  BY DEF Forking
<1>4. PlaceInv'
  BY <1>1, <1>2, <1>3 DEF IInv, PlaceInv, Forking
<1>5. HeldInv' /\ ReaderInv'
  BY <1>1, <1>2, <1>3, SameHeld DEF IInv
<1> QED BY <1>1, <1>2, <1>3, <1>4, <1>5

LEMMA StepPasses ==
  ASSUME IInv, Passes \/ Returns
  PROVE  IInv'
<1>1. /\ content' = content /\ held' = held /\ ready' = ready
      /\ UNCHANGED << cVars, mVars, rVars >>
  BY DEF Passes, Returns, pVars
<1>2. \/ Goes("coordinator", "cm", "mc") \/ Goes("coordinator", "mc", "cr")
      \/ Goes("coordinator", "cr", "rc") \/ Goes("coordinator", "rc", "select")
      \/ Goes("coordinator", "select", "returned")
  BY DEF Passes, Returns
<1>3. \A x \in {"cm", "mc", "cr", "rc", "select", "returned"} : x \in Place /\ x \notin Forking \cup {"killed"}
  BY DEF Place, Forking
<1>4. /\ PlaceInv' /\ HeldInv' /\ ReaderInv' /\ at'["coordinator"] \notin Forking
      /\ at'["mapper"] = at["mapper"] /\ at'["reducer"] = at["reducer"]
  <2>1. CASE Goes("coordinator", "cm", "mc")
    BY <1>1, <1>3, <2>1, CoordinatorMoves
  <2>2. CASE Goes("coordinator", "mc", "cr")
    BY <1>1, <1>3, <2>2, CoordinatorMoves
  <2>3. CASE Goes("coordinator", "cr", "rc")
    BY <1>1, <1>3, <2>3, CoordinatorMoves
  <2>4. CASE Goes("coordinator", "rc", "select")
    BY <1>1, <1>3, <2>4, CoordinatorMoves
  <2>5. CASE Goes("coordinator", "select", "returned")
    BY <1>1, <1>3, <2>5, CoordinatorMoves
  <2> QED BY <1>2, <2>1, <2>2, <2>3, <2>4, <2>5
<1>5. DataInv'
  BY <1>1, <1>4 DEF IInv, DataInv, cVars, mVars, rVars
<1>6. FlagInv'
  BY <1>1, <1>4 DEF IInv, FlagInv, FlagsAreTrue, Readable, Writable, Room, HasReader, AtEof
<1> QED BY <1>4, <1>5, <1>6 DEF IInv

LEMMA StepSendsLine ==
  ASSUME IInv, SendsLine
  PROVE  IInv'
<1>1. /\ Write("coordinator", "cm", Head(unread)) /\ Goes("coordinator", "cm", "mc")
      /\ unread # << >> /\ unread' = Tail(unread)
      /\ UNCHANGED << queue, mapped, folded, reduced >>
  BY DEF SendsLine, mVars, rVars
<1>2. Head(unread) \in Line /\ unread' \in Seq(Line)
  BY <1>1 DEF IInv, DataInv
<1>3. /\ content' \in [Pipe -> Seq(Message)]
      /\ content'["cm"] = Append(content["cm"], Head(unread))
      /\ \A y \in Pipe : y # "cm" => content'[y] = content[y]
      /\ \A y \in Pipe : Len(content'[y]) <= Capacity
      /\ held' = held
  BY <1>1, <1>2, WriteFacts, RolesAssumption DEF IInv, Message
<1>4. /\ PlaceInv' /\ HeldInv' /\ ReaderInv' /\ at'["coordinator"] \notin Forking
      /\ at'["mapper"] = at["mapper"] /\ at'["reducer"] = at["reducer"]
  BY <1>1, <1>3, CoordinatorMoves DEF Place, Forking
<1>5. /\ content'["cm"] \in Seq(Line) /\ content'["mc"] \in Seq(Result)
      /\ content'["cr"] \in Seq(Result) /\ content'["rc"] \in Seq(Folded)
  BY <1>2, <1>3, RolesAssumption DEF IInv, DataInv
<1>6. DataInv'
  BY <1>1, <1>2, <1>3, <1>4, <1>5 DEF IInv, DataInv
<1>7. FlagInv'
  BY <1>1, <1>2, <1>4, FlagsAfterWrite, RolesAssumption DEF IInv, FlagInv, Message
<1> QED BY <1>4, <1>6, <1>7 DEF IInv

(* Without a reader of cm, the mapper has failed and the reducer has closed *)
(* what it does not use.                                                    *)
LEMMA StepCoordinatorKilled ==
  ASSUME IInv, CoordinatorKilled
  PROVE  IInv'
<1> DEFINE ds == Pipe \X End
<1>1. /\ << "coordinator", "cm", "write" >> \in held /\ ~HasReader("cm")
      /\ Close("coordinator", ds) /\ UNCHANGED << cVars, mVars, rVars >>
  BY DEF CoordinatorKilled, WriteKills
<1>2. Goes("coordinator", "cm", "killed") /\ "cm" \in Place /\ "killed" \in Place
  BY DEF CoordinatorKilled, Place
<1>3. /\ at["coordinator"] = "cm" /\ at'["coordinator"] = "killed"
      /\ \A q \in Process : q # "coordinator" => at'[q] = at[q]
      /\ at' \in [Process -> Place]
  BY <1>2, CoordinatorGoes
<1>4. at'["mapper"] = at["mapper"] /\ at'["reducer"] = at["reducer"]
  BY <1>3, RolesAssumption
<1>5. /\ \A q \in Process, x \in Pipe, e \in End :
           << q, x, e >> \in held' <=> << q, x, e >> \in held /\ q # "coordinator"
      /\ held' \subseteq held /\ ready' = ready \ ds /\ content' = content
  <2>1. ds \in SUBSET (Pipe \X End) /\ \A x \in Pipe, e \in End : << x, e >> \in ds
    OBVIOUS
  <2>2. "coordinator" \in Process
    BY RolesAssumption
  <2> HIDE DEF ds
  <2>3. /\ \A q \in Process, x \in Pipe, e \in End :
             << q, x, e >> \in held' <=>
               << q, x, e >> \in held /\ ~(q = "coordinator" /\ << x, e >> \in ds)
        /\ held' \subseteq held /\ content' = content
        /\ ready' = IF "coordinator" = "coordinator" THEN ready \ ds ELSE ready
    BY <1>1, <2>1, <2>2, CloseFacts
  <2> QED BY <2>1, <2>3
<1>6. "read" \in End /\ "write" \in End /\ "killed" \notin Forking /\ "cm" \notin Forking
  BY DEF End, Forking
<1>7. at["mapper"] = "failed"
  <2>1. at["mapper"] \in Alive \cup {"exit", "failed"}
    BY <1>3 DEF IInv, PlaceInv
  <2>2. at["mapper"] \notin Alive
    BY <1>1, RolesAssumption DEF IInv, ReaderInv, HasReader
  <2>3. at["mapper"] # "exit"
    BY <1>1, RolesAssumption DEF IInv, ReaderInv
  <2> QED BY <2>1, <2>2, <2>3
<1>8. \A x \in Pipe, e \in End :
        << "mapper", x, e >> \notin held' /\ << "coordinator", x, e >> \notin held'
  BY <1>5, <1>7, RolesAssumption DEF IInv, ReaderInv, KillInv
<1>9. << "reducer", "mc", "write" >> \notin held'
  BY <1>1, <1>5, RolesAssumption DEF IInv, ReaderInv, KillInv, HasReader
<1>10. DataInv'
  BY <1>1, <1>4, <1>5 DEF IInv, DataInv, cVars, mVars, rVars
<1>11. PlaceInv'
  BY <1>3, <1>4, <1>6 DEF IInv, PlaceInv, Forking
<1>12. HeldInv'
  BY <1>3, <1>4, <1>5, <1>6, <1>8, RolesAssumption DEF IInv, HeldInv
<1>13. KillInv'
  BY <1>3, <1>4, <1>7, <1>8, <1>9 DEF KillInv
<1>14. ReaderInv'
  <2>1. /\ at'["mapper"] \notin Alive /\ at'["mapper"] # "exit"
        /\ at'["reducer"] \in Alive => << "reducer", "cr", "read" >> \in held'
    BY <1>4, <1>5, <1>6, <1>7, RolesAssumption DEF IInv, ReaderInv, Alive
  <2>2. \A p \in Process : << p, "mc", "write" >> \notin held'
    BY <1>6, <1>8, <1>9, RolesAssumption
  <2>3. at'["reducer"] \in {"exit", "killed"} => \A p \in Process : << p, "cr", "write" >> \notin held'
    BY <1>4, <1>5, <1>6, RolesAssumption DEF IInv, ReaderInv
  <2> QED BY <1>3, <1>13, <2>1, <2>2, <2>3 DEF ReaderInv
<1>15. FlagInv'
  <2>1. ready' = {}
    BY <1>5 DEF IInv, FlagInv
  <2> QED BY <2>1 DEF FlagInv, FlagsAreTrue
<1> QED BY <1>10, <1>11, <1>12, <1>14, <1>15 DEF IInv

LEMMA StepGetsMapped ==
  ASSUME IInv, GetsMapped
  PROVE  IInv'
<1>1. /\ Read("coordinator", "mc") /\ Goes("coordinator", "mc", "cr")
      /\ queue' = Append(queue, Head(content["mc"]))
      /\ UNCHANGED << unread, mapped, folded, reduced >>
  BY DEF GetsMapped, mVars, rVars
<1>2. /\ content' \in [Pipe -> Seq(Message)]
      /\ content["mc"] # << >> /\ content'["mc"] = Tail(content["mc"])
      /\ \A y \in Pipe : y # "mc" => content'[y] = content[y]
      /\ \A y \in Pipe : Len(content'[y]) <= Capacity
      /\ held' = held
  BY <1>1, ReadFacts, RolesAssumption DEF IInv
<1>3. Head(content["mc"]) \in Result /\ content'["mc"] \in Seq(Result)
  BY <1>2 DEF IInv, DataInv
<1>4. /\ PlaceInv' /\ HeldInv' /\ ReaderInv' /\ at'["coordinator"] \notin Forking
      /\ at'["mapper"] = at["mapper"] /\ at'["reducer"] = at["reducer"]
  BY <1>1, <1>2, CoordinatorMoves DEF Place, Forking
<1>5. /\ content'["cm"] \in Seq(Line) /\ content'["cr"] \in Seq(Result)
      /\ content'["rc"] \in Seq(Folded) /\ queue' \in Seq(Result)
  BY <1>1, <1>2, <1>3, RolesAssumption DEF IInv, DataInv
<1>6. DataInv'
  BY <1>1, <1>2, <1>3, <1>4, <1>5 DEF IInv, DataInv
<1>7. FlagInv'
  BY <1>1, <1>4, FlagsAfterRead, RolesAssumption DEF IInv, FlagInv
<1> QED BY <1>4, <1>6, <1>7 DEF IInv

LEMMA StepSendsResult ==
  ASSUME IInv, SendsResult
  PROVE  IInv'
<1>1. /\ Write("coordinator", "cr", Head(queue)) /\ Goes("coordinator", "cr", "rc")
      /\ queue # << >> /\ queue' = Tail(queue)
      /\ UNCHANGED << unread, mapped, folded, reduced >>
  BY DEF SendsResult, mVars, rVars
<1>2. Head(queue) \in Result /\ queue' \in Seq(Result)
  BY <1>1 DEF IInv, DataInv
<1>3. /\ content' \in [Pipe -> Seq(Message)]
      /\ content'["cr"] = Append(content["cr"], Head(queue))
      /\ \A y \in Pipe : y # "cr" => content'[y] = content[y]
      /\ \A y \in Pipe : Len(content'[y]) <= Capacity
      /\ held' = held
  BY <1>1, <1>2, WriteFacts, RolesAssumption DEF IInv, Message
<1>4. /\ PlaceInv' /\ HeldInv' /\ ReaderInv' /\ at'["coordinator"] \notin Forking
      /\ at'["mapper"] = at["mapper"] /\ at'["reducer"] = at["reducer"]
  BY <1>1, <1>3, CoordinatorMoves DEF Place, Forking
<1>5. /\ content'["cm"] \in Seq(Line) /\ content'["mc"] \in Seq(Result)
      /\ content'["cr"] \in Seq(Result) /\ content'["rc"] \in Seq(Folded)
  BY <1>2, <1>3, RolesAssumption DEF IInv, DataInv
<1>6. DataInv'
  BY <1>1, <1>2, <1>3, <1>4, <1>5 DEF IInv, DataInv
<1>7. FlagInv'
  BY <1>1, <1>2, <1>4, FlagsAfterWrite, RolesAssumption DEF IInv, FlagInv, Message
<1> QED BY <1>4, <1>6, <1>7 DEF IInv

LEMMA StepGetsReduced ==
  ASSUME IInv, GetsReduced
  PROVE  IInv'
<1>1. /\ Read("coordinator", "rc") /\ Goes("coordinator", "rc", "select")
      /\ UNCHANGED << unread, queue, mapped, folded, reduced >>
  BY DEF GetsReduced, mVars, rVars
<1>2. /\ content' \in [Pipe -> Seq(Message)]
      /\ content["rc"] # << >> /\ content'["rc"] = Tail(content["rc"])
      /\ \A y \in Pipe : y # "rc" => content'[y] = content[y]
      /\ \A y \in Pipe : Len(content'[y]) <= Capacity
      /\ held' = held
  BY <1>1, ReadFacts, RolesAssumption DEF IInv
<1>3. content'["rc"] \in Seq(Folded)
  BY <1>2 DEF IInv, DataInv
<1>4. /\ PlaceInv' /\ HeldInv' /\ ReaderInv' /\ at'["coordinator"] \notin Forking
      /\ at'["mapper"] = at["mapper"] /\ at'["reducer"] = at["reducer"]
  BY <1>1, <1>2, CoordinatorMoves DEF Place, Forking
<1>5. /\ content'["cm"] \in Seq(Line) /\ content'["cr"] \in Seq(Result)
      /\ content'["mc"] \in Seq(Result)
  BY <1>2, RolesAssumption DEF IInv, DataInv
<1>6. DataInv'
  BY <1>1, <1>2, <1>3, <1>4, <1>5 DEF IInv, DataInv
<1>7. FlagInv'
  BY <1>1, <1>4, FlagsAfterRead, RolesAssumption DEF IInv, FlagInv
<1> QED BY <1>4, <1>6, <1>7 DEF IInv

(* A step of a child that moves it between its places and closes nothing.   *)
LEMMA ChildMoves ==
  ASSUME IInv, NEW c \in {"mapper", "reducer"}, at[c] \in Alive, at'[c] \in Alive,
         \A q \in Process : q # c => at'[q] = at[q], at' \in [Process -> Place],
         held' = held
  PROVE  /\ PlaceInv' /\ HeldInv' /\ ReaderInv'
         /\ at'["coordinator"] = at["coordinator"]
<1>1. at'["coordinator"] = at["coordinator"]
  BY RolesAssumption
<1>2. \A q \in {"mapper", "reducer"} :
        at'[q] = at[q] \/ (at[q] \in Alive /\ at'[q] \in Alive)
  BY RolesAssumption
<1>3. "unborn" \notin Alive
  BY DEF Alive
<1>4. PlaceInv'
  BY <1>1, <1>2, <1>3 DEF IInv, PlaceInv
<1>5. HeldInv' /\ ReaderInv'
  BY <1>1, <1>2, SameHeld DEF IInv
<1> QED BY <1>1, <1>4, <1>5

LEMMA FlagsAfterChildWrites ==
  ASSUME IInv, NEW c \in {"mapper", "reducer"}, NEW x \in {"mc", "rc"}, NEW m \in Message,
         Write(c, x, m), at'["coordinator"] = at["coordinator"]
  PROVE  FlagInv'
<1>1. c \in Process /\ x \in Pipe
  BY RolesAssumption
<1>2. CASE at["coordinator"] \in Forking
  <2>1. ready' = {}
    BY <1>1, <1>2, WriteFacts DEF IInv, FlagInv
  <2> QED BY <1>2, <2>1 DEF FlagInv, FlagsAreTrue
<1>3. CASE at["coordinator"] \notin Forking
  <2>1. << "coordinator", x, "write" >> \notin held
    BY <1>3 DEF IInv, HeldInv
  <2>2. /\ ready' \subseteq ready
        /\ \A y \in Pipe, e \in End : << y, e >> \in ready' => << "coordinator", y, e >> \in held'
        /\ FlagsAreTrue'
    BY <1>1, <2>1, FlagsAfterWrite DEF IInv
  <2> QED BY <1>3, <2>2 DEF IInv, FlagInv
<1> QED BY <1>2, <1>3

LEMMA FlagsAfterChildReads ==
  ASSUME IInv, NEW c \in {"mapper", "reducer"}, NEW x \in {"cm", "cr"},
         Read(c, x), at'["coordinator"] = at["coordinator"]
  PROVE  FlagInv'
<1>1. c \in Process /\ x \in Pipe
  BY RolesAssumption
<1>2. CASE at["coordinator"] \in Forking
  <2>1. ready' = {}
    BY <1>1, <1>2, ReadFacts DEF IInv, FlagInv
  <2> QED BY <1>2, <2>1 DEF FlagInv, FlagsAreTrue
<1>3. CASE at["coordinator"] \notin Forking
  <2>1. << "coordinator", x, "read" >> \notin held
    BY <1>3 DEF IInv, HeldInv
  <2>2. /\ ready' \subseteq ready
        /\ \A y \in Pipe, e \in End : << y, e >> \in ready' => << "coordinator", y, e >> \in held'
        /\ FlagsAreTrue'
    BY <1>1, <2>1, FlagsAfterRead DEF IInv
  <2> QED BY <1>3, <2>2 DEF IInv, FlagInv
<1> QED BY <1>2, <1>3

(* A child closes what it does not use, or everything when it exits.        *)
LEMMA StepChildCloses ==
  ASSUME IInv, NEW c \in {"mapper", "reducer"}, NEW ds \in SUBSET (Pipe \X End), Close(c, ds),
         UNCHANGED << cVars, mVars, rVars >>,
         at[c] \in Alive,
         \A q \in Process : q # c => at'[q] = at[q], at' \in [Process -> Place],
         c = "mapper" => mapped = << >>,
         c = "reducer" =>
           at'["reducer"] # "write" /\ (at'["reducer"] # "killed" => reduced = NoResult),
         << "cm", "read" >> \in ds => << "mc", "write" >> \in ds,
         \/ at'[c] \in Alive /\ c = "mapper" /\ << "cm", "read" >> \notin ds
         \/ at'[c] \in Alive /\ c = "reducer" /\ << "cr", "read" >> \notin ds
         \/ at'[c] = "exit" /\ c = "mapper" /\ AtEof("cm")
         \/ at'[c] = "exit" /\ c = "reducer" /\ AtEof("cr")
         \/ at'[c] = "failed" /\ c = "mapper" /\ ds = Pipe \X End
         \/ at'[c] = "killed" /\ c = "reducer" /\ ds = Pipe \X End /\ at["coordinator"] = "killed"
  PROVE  IInv'
<1>1. c \in Process /\ at'["coordinator"] = at["coordinator"]
  BY RolesAssumption
<1>2. HeldInv' /\ ReaderInv'
  BY ChildCloses DEF IInv
<1>3. /\ ready' \subseteq ready
      /\ \A x \in Pipe, e \in End : << x, e >> \in ready' => << "coordinator", x, e >> \in held'
      /\ FlagsAreTrue'
  BY <1>1, FlagsAfterClose DEF IInv
<1>4. FlagInv'
  BY <1>1, <1>3 DEF IInv, FlagInv
<1>5. content' = content
  BY <1>1, CloseFacts
<1>6. DataInv'
  <2>1. CASE c = "mapper"
    <3>1. at'["reducer"] = at["reducer"]
      BY <2>1, RolesAssumption
    <3> QED BY <1>5, <2>1, <3>1 DEF IInv, DataInv, cVars, mVars, rVars
  <2>2. CASE c = "reducer"
    <3>1. at'["mapper"] = at["mapper"]
      BY <2>2, RolesAssumption
    <3> QED BY <1>5, <2>2, <3>1 DEF IInv, DataInv, cVars, mVars, rVars
  <2> QED BY <2>1, <2>2
<1>7. PlaceInv'
  <2>1. "unborn" \notin Alive
    BY DEF Alive
  <2>2. \/ at'[c] \in Alive \cup {"exit"}
        \/ c = "mapper" /\ at'[c] = "failed"
        \/ c = "reducer" /\ at'[c] = "killed"
    OBVIOUS
  <2>3. CASE c = "mapper"
    <3>1. at'["reducer"] = at["reducer"]
      BY <2>3, RolesAssumption
    <3> QED BY <1>1, <2>1, <2>2, <2>3, <3>1 DEF IInv, PlaceInv
  <2>4. CASE c = "reducer"
    <3>1. at'["mapper"] = at["mapper"]
      BY <2>4, RolesAssumption
    <3> QED BY <1>1, <2>1, <2>2, <2>4, <3>1 DEF IInv, PlaceInv
  <2> QED BY <2>3, <2>4
<1> QED BY <1>2, <1>4, <1>6, <1>7 DEF IInv

LEMMA StepMapperCloses ==
  ASSUME IInv, MapperCloses
  PROVE  IInv'
<1> DEFINE ds == {<< "cm", "write" >>, << "mc", "read" >>} \cup Both({"cr", "rc"})
<1>1. /\ ds \in SUBSET (Pipe \X End) /\ << "cm", "read" >> \notin ds
      /\ << "cm", "read" >> \in ds => << "mc", "write" >> \in ds
  BY RolesAssumption DEF Both, End
<1>2. Close("mapper", ds) /\ UNCHANGED << cVars, mVars, rVars >>
  BY DEF MapperCloses
<1>3. /\ at["mapper"] \in Alive /\ at'["mapper"] = "read"
      /\ \A q \in Process : q # "mapper" => at'[q] = at[q]
      /\ at' \in [Process -> Place]
  <2>1. Goes("mapper", "close", "read") \/ Goes("mapper", "write", "read")
    BY DEF MapperCloses
  <2> QED BY <2>1, GoesFacts, RolesAssumption DEF IInv, Place, Alive
<1>4. mapped = << >>
  BY <1>3 DEF MapperCloses, IInv, DataInv
<1> HIDE DEF ds
<1> QED BY <1>1, <1>2, <1>3, <1>4, StepChildCloses DEF Alive

LEMMA StepMapperExits ==
  ASSUME IInv, MapperExits
  PROVE  IInv'
<1> DEFINE ds == Both(Pipe)
<1>1. ds \in SUBSET (Pipe \X End) /\ << "mc", "write" >> \in ds
  BY RolesAssumption DEF Both, End
<1>2. Close("mapper", ds) /\ UNCHANGED << cVars, mVars, rVars >> /\ AtEof("cm")
  BY DEF MapperExits
<1>3. /\ at["mapper"] = "read" /\ at'["mapper"] = "exit"
      /\ \A q \in Process : q # "mapper" => at'[q] = at[q]
      /\ at' \in [Process -> Place]
  <2>1. Goes("mapper", "read", "exit")
    BY DEF MapperExits
  <2> QED BY <2>1, GoesFacts, RolesAssumption DEF IInv, Place, Alive
<1>4. mapped = << >>
  BY <1>3 DEF MapperExits, IInv, DataInv
<1> HIDE DEF ds
<1> QED BY <1>1, <1>2, <1>3, <1>4, StepChildCloses DEF Alive

LEMMA StepMapperFails ==
  ASSUME IInv, MapperFails
  PROVE  IInv'
<1> DEFINE ds == Both(Pipe)
<1>1. ds \in SUBSET (Pipe \X End) /\ << "mc", "write" >> \in ds /\ ds = Pipe \X End
  BY RolesAssumption DEF Both, End
<1>2. Close("mapper", ds) /\ UNCHANGED << cVars, mVars, rVars >>
  BY DEF MapperFails
<1>3. /\ at["mapper"] = "fails" /\ at'["mapper"] = "failed"
      /\ \A q \in Process : q # "mapper" => at'[q] = at[q]
      /\ at' \in [Process -> Place]
  <2>1. Goes("mapper", "fails", "failed")
    BY DEF MapperFails
  <2> QED BY <2>1, GoesFacts, RolesAssumption DEF IInv, Place, Alive
<1>4. mapped = << >>
  BY <1>3 DEF IInv, DataInv
<1> HIDE DEF ds
<1> QED BY <1>1, <1>2, <1>3, <1>4, StepChildCloses DEF Alive

LEMMA StepReducerKilled ==
  ASSUME IInv, ReducerKilled
  PROVE  IInv'
<1> DEFINE ds == Pipe \X End
<1>1. ds \in SUBSET (Pipe \X End) /\ << "mc", "write" >> \in ds
  BY RolesAssumption DEF End
<1>2. /\ << "reducer", "rc", "write" >> \in held /\ ~HasReader("rc")
      /\ Close("reducer", ds) /\ UNCHANGED << cVars, mVars, rVars >>
  BY DEF ReducerKilled, WriteKills
<1>3. /\ at["reducer"] \in Alive /\ at'["reducer"] = "killed"
      /\ \A q \in Process : q # "reducer" => at'[q] = at[q]
      /\ at' \in [Process -> Place]
  <2>1. Goes("reducer", "write", "killed") \/ Goes("reducer", "rest", "killed")
    BY DEF ReducerKilled
  <2> QED BY <2>1, GoesFacts, RolesAssumption DEF IInv, Place, Alive
<1>4. at["coordinator"] = "killed"
  BY <1>2, RolesAssumption DEF IInv, ReaderInv, HasReader
<1>5. ds = Pipe \X End
  OBVIOUS
<1> HIDE DEF ds
<1> QED BY <1>1, <1>2, <1>3, <1>4, <1>5, StepChildCloses DEF Alive

LEMMA StepReducerCloses ==
  ASSUME IInv, ReducerCloses
  PROVE  IInv'
<1> DEFINE ds == {<< "cr", "write" >>, << "rc", "read" >>} \cup Both({"cm", "mc"})
<1>1. /\ ds \in SUBSET (Pipe \X End) /\ << "cr", "read" >> \notin ds
      /\ << "cm", "read" >> \in ds => << "mc", "write" >> \in ds
  BY RolesAssumption DEF Both, End
<1>2. Close("reducer", ds) /\ UNCHANGED << cVars, mVars, rVars >>
  BY DEF ReducerCloses
<1>3. /\ at["reducer"] = "close" /\ at'["reducer"] = "read"
      /\ \A q \in Process : q # "reducer" => at'[q] = at[q]
      /\ at' \in [Process -> Place]
  <2>1. Goes("reducer", "close", "read")
    BY DEF ReducerCloses
  <2> QED BY <2>1, GoesFacts, RolesAssumption DEF IInv, Place, Alive
<1>4. reduced = NoResult
  BY <1>3 DEF ReducerCloses, IInv, DataInv
<1> HIDE DEF ds
<1> QED BY <1>1, <1>2, <1>3, <1>4, StepChildCloses DEF Alive

LEMMA StepReducerExits ==
  ASSUME IInv, ReducerExits
  PROVE  IInv'
<1> DEFINE ds == Both(Pipe)
<1>1. ds \in SUBSET (Pipe \X End) /\ << "mc", "write" >> \in ds
  BY RolesAssumption DEF Both, End
<1>2. Close("reducer", ds) /\ UNCHANGED << cVars, mVars, rVars >> /\ AtEof("cr")
  BY DEF ReducerExits
<1>3. /\ at["reducer"] = "read" /\ at'["reducer"] = "exit"
      /\ \A q \in Process : q # "reducer" => at'[q] = at[q]
      /\ at' \in [Process -> Place]
  <2>1. Goes("reducer", "read", "exit")
    BY DEF ReducerExits
  <2> QED BY <2>1, GoesFacts, RolesAssumption DEF IInv, Place, Alive
<1>4. reduced = NoResult
  BY <1>3 DEF ReducerExits, IInv, DataInv
<1> HIDE DEF ds
<1> QED BY <1>1, <1>2, <1>3, <1>4, StepChildCloses DEF Alive

LEMMA StepMaps ==
  ASSUME IInv, Maps
  PROVE  IInv'
<1>1. /\ Read("mapper", "cm") /\ mapped' = MapFun[Head(content["cm"])]
      /\ UNCHANGED << unread, queue, folded, reduced >>
  BY DEF Maps, cVars, rVars
<1>2. Head(content["cm"]) \notin Fatal \cup Endless
  BY DEF Maps
<1>3. /\ at["mapper"] = "read" /\ at'["mapper"] = "write"
      /\ \A q \in Process : q # "mapper" => at'[q] = at[q]
      /\ at' \in [Process -> Place]
  <2>1. Goes("mapper", "read", "write")
    BY DEF Maps
  <2> QED BY <2>1, GoesFacts, RolesAssumption DEF IInv, Place, Alive
<1>4. /\ content' \in [Pipe -> Seq(Message)]
      /\ content["cm"] # << >> /\ content'["cm"] = Tail(content["cm"])
      /\ \A y \in Pipe : y # "cm" => content'[y] = content[y]
      /\ \A y \in Pipe : Len(content'[y]) <= Capacity
      /\ held' = held
  BY <1>1, ReadFacts, RolesAssumption DEF IInv
<1>5. /\ PlaceInv' /\ HeldInv' /\ ReaderInv' /\ at'["coordinator"] = at["coordinator"]
  BY <1>3, <1>4, ChildMoves DEF Alive
<1>6. Head(content["cm"]) \in Line /\ content'["cm"] \in Seq(Line)
  BY <1>4 DEF IInv, DataInv
<1>7. mapped' \in Seq(Result)
  BY <1>1, <1>2, <1>6, InputAssumption
<1>8. /\ content'["mc"] \in Seq(Result) /\ content'["cr"] \in Seq(Result)
      /\ content'["rc"] \in Seq(Folded)
  BY <1>4, RolesAssumption DEF IInv, DataInv
<1>9. at'["reducer"] = at["reducer"]
  BY <1>3, RolesAssumption
<1>10. DataInv'
  BY <1>1, <1>3, <1>4, <1>6, <1>7, <1>8, <1>9 DEF IInv, DataInv
<1>11. FlagInv'
  BY <1>1, <1>5, FlagsAfterChildReads
<1> QED BY <1>5, <1>10, <1>11 DEF IInv

LEMMA StepMapperGivesUp ==
  ASSUME IInv, MapperGivesUp
  PROVE  IInv'
<1>1. Read("mapper", "cm") /\ UNCHANGED << unread, queue, mapped, folded, reduced >>
  BY DEF MapperGivesUp, cVars, mVars, rVars
<1>2. /\ at["mapper"] = "read" /\ at'["mapper"] \in {"fails", "loops"}
      /\ \A q \in Process : q # "mapper" => at'[q] = at[q]
      /\ at' \in [Process -> Place]
  <2>1. Goes("mapper", "read", "fails") \/ Goes("mapper", "read", "loops")
    BY DEF MapperGivesUp
  <2> QED BY <2>1, GoesFacts, RolesAssumption DEF IInv, Place, Alive
<1>3. /\ content' \in [Pipe -> Seq(Message)]
      /\ content["cm"] # << >> /\ content'["cm"] = Tail(content["cm"])
      /\ \A y \in Pipe : y # "cm" => content'[y] = content[y]
      /\ \A y \in Pipe : Len(content'[y]) <= Capacity
      /\ held' = held
  BY <1>1, ReadFacts, RolesAssumption DEF IInv
<1>4. PlaceInv' /\ HeldInv' /\ ReaderInv' /\ at'["coordinator"] = at["coordinator"]
  BY <1>2, <1>3, ChildMoves DEF Alive
<1>5. /\ content'["cm"] \in Seq(Line) /\ content'["mc"] \in Seq(Result)
      /\ content'["cr"] \in Seq(Result) /\ content'["rc"] \in Seq(Folded)
  BY <1>3, RolesAssumption DEF IInv, DataInv
<1>6. at'["reducer"] = at["reducer"] /\ mapped = << >>
  BY <1>2, RolesAssumption DEF IInv, DataInv
<1>7. DataInv'
  BY <1>1, <1>3, <1>5, <1>6 DEF IInv, DataInv
<1>8. FlagInv'
  BY <1>1, <1>4, FlagsAfterChildReads
<1> QED BY <1>4, <1>7, <1>8 DEF IInv

LEMMA StepMapperWrites ==
  ASSUME IInv, MapperWrites
  PROVE  IInv'
<1>1. /\ Write("mapper", "mc", Head(mapped)) /\ at["mapper"] = "write" /\ at' = at
      /\ mapped # << >> /\ mapped' = Tail(mapped)
      /\ UNCHANGED << unread, queue, folded, reduced >>
  BY DEF MapperWrites, cVars, rVars
<1>2. Head(mapped) \in Result /\ mapped' \in Seq(Result)
  BY <1>1 DEF IInv, DataInv
<1>3. /\ content' \in [Pipe -> Seq(Message)]
      /\ content'["mc"] = Append(content["mc"], Head(mapped))
      /\ \A y \in Pipe : y # "mc" => content'[y] = content[y]
      /\ \A y \in Pipe : Len(content'[y]) <= Capacity
      /\ held' = held
  BY <1>1, <1>2, WriteFacts, RolesAssumption DEF IInv, Message
<1>4. PlaceInv' /\ HeldInv' /\ ReaderInv'
  BY <1>1, <1>3, ChildMoves DEF IInv, PlaceInv, Alive
<1>5. /\ content'["mc"] \in Seq(Result) /\ content'["cm"] \in Seq(Line)
      /\ content'["cr"] \in Seq(Result) /\ content'["rc"] \in Seq(Folded)
  BY <1>2, <1>3, RolesAssumption DEF IInv, DataInv
<1>6. DataInv'
  BY <1>1, <1>2, <1>3, <1>5 DEF IInv, DataInv
<1>7. FlagInv'
  <2>1. Head(mapped) \in Message
    BY <1>2 DEF Message
  <2> QED BY <1>1, <2>1, FlagsAfterChildWrites
<1> QED BY <1>4, <1>6, <1>7 DEF IInv

LEMMA StepReduces ==
  ASSUME IInv, Reduces
  PROVE  IInv'
<1> DEFINE r == Head(content["cr"])
           acc == Append(folded[r.key], r.value)
<1>1. /\ Read("reducer", "cr") /\ UNCHANGED << unread, queue, mapped >>
      /\ folded' = [folded EXCEPT ![r.key] = acc]
      /\ reduced' = [key |-> r.key, value |-> acc]
  BY DEF Reduces, cVars, mVars
<1>3. /\ at["reducer"] = "read" /\ at'["reducer"] = "write"
      /\ \A q \in Process : q # "reducer" => at'[q] = at[q]
      /\ at' \in [Process -> Place]
  <2>1. Goes("reducer", "read", "write")
    BY DEF Reduces
  <2> QED BY <2>1, GoesFacts, RolesAssumption DEF IInv, Place, Alive
<1>4. /\ content' \in [Pipe -> Seq(Message)]
      /\ content["cr"] # << >> /\ content'["cr"] = Tail(content["cr"])
      /\ \A y \in Pipe : y # "cr" => content'[y] = content[y]
      /\ \A y \in Pipe : Len(content'[y]) <= Capacity
      /\ held' = held
  BY <1>1, ReadFacts, RolesAssumption DEF IInv
<1>5. /\ PlaceInv' /\ HeldInv' /\ ReaderInv' /\ at'["coordinator"] = at["coordinator"]
  BY <1>3, <1>4, ChildMoves DEF Alive
<1>6. r \in Result /\ content'["cr"] \in Seq(Result)
  BY <1>4 DEF IInv, DataInv
<1>7. r.key \in Key /\ r.value \in Value
  BY <1>6 DEF Result
<1>8. folded \in [Key -> Seq(Value)] /\ folded[r.key] \in Seq(Value)
  BY <1>7 DEF IInv, DataInv
<1>9. acc \in Seq(Value) /\ acc # << >>
  BY <1>7, <1>8
<1> HIDE DEF acc, r
<1>10. folded' \in [Key -> Seq(Value)]
  BY <1>1, <1>7, <1>8, <1>9
<1>11. reduced' \in Folded /\ reduced'.value # << >>
  BY <1>1, <1>7, <1>9 DEF Folded
<1>12. /\ content'["cm"] \in Seq(Line) /\ content'["mc"] \in Seq(Result)
       /\ content'["rc"] \in Seq(Folded)
  BY <1>4, RolesAssumption DEF IInv, DataInv
<1>13. at'["mapper"] = at["mapper"]
  BY <1>3, RolesAssumption
<1>14. DataInv'
  BY <1>1, <1>3, <1>4, <1>6, <1>10, <1>11, <1>12, <1>13 DEF IInv, DataInv
<1>15. FlagInv'
  BY <1>1, <1>5, FlagsAfterChildReads
<1> QED BY <1>5, <1>14, <1>15 DEF IInv

LEMMA StepReducerWrites ==
  ASSUME IInv, ReducerWrites
  PROVE  IInv'
<1>1. /\ Write("reducer", "rc", reduced) /\ reduced' = NoResult
      /\ UNCHANGED << unread, queue, mapped, folded >>
  BY DEF ReducerWrites, cVars, mVars
<1>3. /\ at["reducer"] = "write" /\ at'["reducer"] \in {"close", "rest"}
      /\ \A q \in Process : q # "reducer" => at'[q] = at[q]
      /\ at' \in [Process -> Place]
  <2>1. Goes("reducer", "write", "close") \/ Goes("reducer", "write", "rest")
    BY DEF ReducerWrites
  <2> QED BY <2>1, GoesFacts, RolesAssumption DEF IInv, Place, Alive
<1>4. reduced \in Folded /\ reduced \in Message
  BY <1>3 DEF IInv, DataInv, Message
<1>5. /\ content' \in [Pipe -> Seq(Message)]
      /\ content'["rc"] = Append(content["rc"], reduced)
      /\ \A y \in Pipe : y # "rc" => content'[y] = content[y]
      /\ \A y \in Pipe : Len(content'[y]) <= Capacity
      /\ held' = held
  BY <1>1, <1>4, WriteFacts, RolesAssumption DEF IInv
<1>6. /\ PlaceInv' /\ HeldInv' /\ ReaderInv' /\ at'["coordinator"] = at["coordinator"]
  BY <1>3, <1>5, ChildMoves DEF Alive
<1>7. /\ content'["cm"] \in Seq(Line) /\ content'["mc"] \in Seq(Result)
      /\ content'["cr"] \in Seq(Result) /\ content'["rc"] \in Seq(Folded)
  BY <1>4, <1>5, RolesAssumption DEF IInv, DataInv
<1>8. at'["mapper"] = at["mapper"]
  BY <1>3, RolesAssumption
<1>9. DataInv'
  BY <1>1, <1>3, <1>5, <1>7, <1>8 DEF IInv, DataInv
<1>10. FlagInv'
  BY <1>1, <1>4, <1>6, FlagsAfterChildWrites
<1> QED BY <1>6, <1>9, <1>10 DEF IInv

LEMMA StepReducerFinishes ==
  ASSUME IInv, ReducerFinishes
  PROVE  IInv'
<1>1. /\ UNCHANGED << content, held, ready, unread, queue, mapped, folded, reduced >>
      /\ Goes("reducer", "rest", "close")
  BY DEF ReducerFinishes, pVars, cVars, mVars, rVars
<1>2. /\ at["reducer"] = "rest" /\ at'["reducer"] = "close"
      /\ \A q \in Process : q # "reducer" => at'[q] = at[q]
      /\ at' \in [Process -> Place]
  BY <1>1, GoesFacts, RolesAssumption DEF IInv, Place, Alive
<1>3. PlaceInv' /\ HeldInv' /\ ReaderInv' /\ at'["coordinator"] = at["coordinator"]
  BY <1>1, <1>2, ChildMoves DEF Alive
<1>4. at'["mapper"] = at["mapper"]
  BY <1>2, RolesAssumption
<1>5. DataInv'
  BY <1>1, <1>2, <1>4 DEF IInv, DataInv
<1>6. FlagInv'
  BY <1>1, <1>3 DEF IInv, FlagInv, FlagsAreTrue, Readable, Writable, Room, HasReader, AtEof
<1> QED BY <1>3, <1>5, <1>6 DEF IInv

-----------------------------------------------------------------------------
(* The inductive invariant holds initially, is kept, and implies the three  *)
(* properties.                                                             *)

LEMMA IInvInit == Init => IInv
<1> SUFFICES ASSUME Init PROVE IInv
  OBVIOUS
<1>1. \A x \in Pipe : content[x] = << >>
  BY DEF Init, PipesInit
<1>2. /\ at["coordinator"] = "forks mapper" /\ at["mapper"] = "unborn" /\ at["reducer"] = "unborn"
      /\ at \in [Process -> Place]
  BY RolesAssumption DEF Init, Place, Forking
<1>3. /\ held = {"coordinator"} \X Pipe \X End /\ ready = {}
  BY RolesAssumption DEF Init, PipesInit
<1>4. DataInv
  <2>0. /\ << >> \in Seq(Message) /\ << >> \in Seq(Line) /\ << >> \in Seq(Result)
        /\ << >> \in Seq(Folded) /\ << >> \in Seq(Value)
    OBVIOUS
  <2>1. content \in [Pipe -> Seq(Message)]
    BY <2>0 DEF Init, PipesInit
  <2>2. \A x \in Pipe : Len(content[x]) <= Capacity
    BY <1>1, PipesAssumption
  <2>3. /\ content["cm"] \in Seq(Line) /\ content["rc"] \in Seq(Folded)
        /\ content["mc"] \in Seq(Result) /\ content["cr"] \in Seq(Result)
    <3>1. /\ content["cm"] = << >> /\ content["mc"] = << >>
          /\ content["cr"] = << >> /\ content["rc"] = << >>
      BY <1>1, RolesAssumption
    <3> QED BY <2>0, <3>1
  <2>4. unread \in Seq(Line) /\ queue \in Seq(Result) /\ mapped \in Seq(Result)
    BY <2>0, InputAssumption DEF Init
  <2>5. folded \in [Key -> Seq(Value)]
    BY <2>0 DEF Init
  <2>6. reduced = NoResult /\ mapped = << >> /\ at["reducer"] \notin {"write", "killed"}
    BY <1>2 DEF Init
  <2> QED BY <2>1, <2>2, <2>3, <2>4, <2>5, <2>6 DEF DataInv
<1>5. PlaceInv
  BY <1>2 DEF PlaceInv, Forking
<1>6. HeldInv
  BY <1>2, <1>3, RolesAssumption DEF HeldInv, Forking, End
<1>7. ReaderInv
  BY <1>2, <1>3, RolesAssumption DEF ReaderInv, KillInv, Alive, End
<1>8. FlagInv
  BY <1>3 DEF FlagInv, FlagsAreTrue
<1> QED BY <1>4, <1>5, <1>6, <1>7, <1>8 DEF IInv

LEMMA IInvNext == IInv /\ [Next]_vars => IInv'
<1> SUFFICES ASSUME IInv, [Next]_vars PROVE IInv'
  OBVIOUS
<1>1. CASE CoordinatorRuns
  BY <1>1, StepForksMapper, StepForksReducer, StepClosesFarEnds, StepSelects, StepSendsLine,
     StepCoordinatorKilled, StepEndsInput, StepGetsMapped, StepMapperEnded, StepSendsResult, StepEndsMapped,
     StepGetsReduced, StepReducerEnded, StepPasses DEF CoordinatorRuns
<1>2. CASE MapperRuns
  BY <1>2, StepMapperCloses, StepMaps, StepMapperGivesUp, StepMapperFails, StepMapperWrites,
     StepMapperExits DEF MapperRuns
<1>3. CASE ReducerRuns
  BY <1>3, StepReducerCloses, StepReduces, StepReducerWrites, StepReducerFinishes,
     StepReducerKilled, StepReducerExits DEF ReducerRuns
<1>4. CASE UNCHANGED vars
  <2>1. /\ content' = content /\ held' = held /\ ready' = ready /\ at' = at
        /\ unread' = unread /\ queue' = queue /\ mapped' = mapped
        /\ folded' = folded /\ reduced' = reduced
    BY <1>4 DEF vars, pVars, cVars, mVars, rVars
  <2>2. DataInv'
    BY <2>1 DEF IInv, DataInv
  <2>3. PlaceInv' /\ HeldInv'
    BY <2>1 DEF IInv, PlaceInv, HeldInv
  <2>4. ReaderInv'
    BY <2>1 DEF IInv, ReaderInv, KillInv
  <2>5. FlagInv'
    BY <2>1 DEF IInv, FlagInv, FlagsAreTrue, Readable, Writable, Room, HasReader, AtEof
  <2> QED BY <2>2, <2>3, <2>4, <2>5 DEF IInv
<1> QED BY <1>1, <1>2, <1>3, <1>4 DEF Next

LEMMA IInvHolds == Spec => []IInv
BY IInvInit, IInvNext, PTL DEF Spec

LEMMA NoBrokenPipeFollows == IInv => NoBrokenPipe
<1> SUFFICES ASSUME IInv, NEW x \in Pipe, NEW w \in Process, << w, x, "write" >> \in held,
                    ~HasReader(x)
             PROVE  \/ x = "cm" /\ at["mapper"] = "failed"
                    \/ x = "rc" /\ at["coordinator"] = "killed" /\ at["mapper"] = "failed"
  BY DEF NoBrokenPipe
<1>1. "coordinator" \in Process /\ "mapper" \in Process /\ "reducer" \in Process /\ "read" \in End
  BY RolesAssumption DEF End
<1>2. CASE at["coordinator"] \in Forking
  BY <1>1, <1>2 DEF IInv, HeldInv, HasReader
<1>3. CASE at["coordinator"] \notin Forking
  <2>1. /\ at["mapper"] \in Alive \cup {"exit", "failed"}
        /\ at["reducer"] \in Alive \cup {"exit", "killed"}
    BY <1>3 DEF IInv, PlaceInv, Forking
  <2>2. CASE x = "cm"
    BY <1>1, <2>1, <2>2 DEF IInv, ReaderInv, HasReader
  <2>3. CASE x = "cr"
    BY <1>1, <2>1, <2>3 DEF IInv, ReaderInv, HasReader
  <2>4. CASE x = "mc"
    BY <1>1, <2>4 DEF IInv, ReaderInv, HasReader
  <2>5. CASE x = "rc"
    BY <1>1, <2>5 DEF IInv, ReaderInv, KillInv, HasReader
  <2> QED BY <2>2, <2>3, <2>4, <2>5, RolesAssumption
<1> QED BY <1>2, <1>3

(* The three processes and their pipes are typed, no pipe is over-full and *)
(* no flag is set for a closed descriptor.                                 *)
THEOREM TypeCorrect == Spec => []TypeOK
<1>1. IInv => TypeOK
  <2> SUFFICES ASSUME IInv PROVE TypeOK
    OBVIOUS
  <2>1. \A d \in ready : << "coordinator", d[1], d[2] >> \in held
    <3>1. ASSUME NEW d \in ready PROVE << "coordinator", d[1], d[2] >> \in held
      <4>1. d \in Pipe \X End
        BY DEF IInv, FlagInv
      <4>2. d = << d[1], d[2] >> /\ d[1] \in Pipe /\ d[2] \in End
        BY <4>1
      <4> QED BY <4>2 DEF IInv, FlagInv
    <3> QED BY <3>1
  <2>2. at["reducer"] # "killed" => (reduced # NoResult <=> at["reducer"] = "write")
    BY DEF IInv, DataInv, NoResult
  <2>3. \A x \in {"mc", "cr"} : content[x] \in Seq(Result)
    BY DEF IInv, DataInv
  <2>4. Folded = [key : Key, value : Seq(Value)]
    BY DEF Folded
  <2> QED BY <2>1, <2>2, <2>3, <2>4 DEF IInv, DataInv, HeldInv, TypeOK
<1> QED BY <1>1, IInvHolds, PTL

-----------------------------------------------------------------------------
(* Sequences that are passed on, element by element.                       *)

LEMMA ConcatFacts ==
  ASSUME NEW S, NEW s \in Seq(S), NEW t \in Seq(S)
  PROVE  /\ s \o t \in Seq(S) /\ Len(s \o t) = Len(s) + Len(t)
         /\ \A i \in 1..Len(s) : (s \o t)[i] = s[i]
         /\ \A i \in 1..Len(t) : (s \o t)[Len(s) + i] = t[i]
BY ConcatProperties

LEMMA TailFacts ==
  ASSUME NEW S, NEW s \in Seq(S), s # << >>
  PROVE  /\ Tail(s) \in Seq(S) /\ Head(s) \in S /\ Head(s) = s[1]
         /\ Len(s) \in Nat \ {0} /\ Len(Tail(s)) = Len(s) - 1
         /\ \A i \in 1..(Len(s) - 1) : Tail(s)[i] = s[i + 1]
BY HeadTailProperties, LenProperties, EmptySeq

LEMMA AppendFacts ==
  ASSUME NEW S, NEW s \in Seq(S), NEW e \in S
  PROVE  /\ Append(s, e) \in Seq(S) /\ Append(s, e) # << >>
         /\ Len(Append(s, e)) = Len(s) + 1
         /\ \A i \in 1..Len(s) : Append(s, e)[i] = s[i]
         /\ Append(s, e)[Len(s) + 1] = e
BY AppendProperties

LEMMA Associative ==
  ASSUME NEW S, NEW a \in Seq(S), NEW b \in Seq(S), NEW c \in Seq(S)
  PROVE  (a \o b) \o c = a \o (b \o c)
<1>1. a \o b \in Seq(S) /\ b \o c \in Seq(S)
  BY ConcatFacts
<1>2. (a \o b) \o c \in Seq(S) /\ a \o (b \o c) \in Seq(S)
  BY <1>1, ConcatFacts
<1>3. Len((a \o b) \o c) = Len(a) + Len(b) + Len(c) /\ Len(a \o (b \o c)) = Len(a) + Len(b) + Len(c)
  BY <1>1, ConcatFacts, LenProperties
<1>4. ASSUME NEW i \in 1..(Len(a) + Len(b) + Len(c))
      PROVE  ((a \o b) \o c)[i] = (a \o (b \o c))[i]
  <2>1. Len(a) \in Nat /\ Len(b) \in Nat /\ Len(c) \in Nat /\ Len(a \o b) = Len(a) + Len(b)
    BY LenProperties, ConcatFacts
  <2>2. CASE i <= Len(a)
    <3>1. i \in 1..Len(a) /\ i \in 1..Len(a \o b)
      BY <2>1, <2>2
    <3> QED BY <1>1, <3>1, ConcatFacts
  <2>3. CASE Len(a) < i /\ i <= Len(a) + Len(b)
    <3>1. PICK d \in 1..Len(b) : i = Len(a) + d
      <4>1. i - Len(a) \in 1..Len(b) /\ i = Len(a) + (i - Len(a))
        BY <2>1, <2>3
      <4> QED BY <4>1
    <3>2. i \in 1..Len(a \o b) /\ d \in 1..Len(b \o c)
      BY <2>1, <2>3, <3>1, ConcatFacts
    <3>3. ((a \o b) \o c)[i] = b[d]
      BY <1>1, <3>1, <3>2, ConcatFacts
    <3>4. (a \o (b \o c))[i] = b[d]
      BY <1>1, <3>1, <3>2, ConcatFacts
    <3> QED BY <3>3, <3>4
  <2>4. CASE Len(a) + Len(b) < i
    <3>1. PICK d \in 1..Len(c) : i = Len(a) + Len(b) + d
      <4>1. i - (Len(a) + Len(b)) \in 1..Len(c) /\ i = Len(a) + Len(b) + (i - (Len(a) + Len(b)))
        BY <2>1, <2>4
      <4> QED BY <4>1
    <3>2. Len(b) + d \in 1..Len(b \o c) /\ i = Len(a) + (Len(b) + d) /\ i = Len(a \o b) + d
      BY <2>1, <3>1, ConcatFacts
    <3>3. ((a \o b) \o c)[i] = c[d]
      BY <1>1, <3>1, <3>2, ConcatFacts
    <3>4. (b \o c)[Len(b) + d] = c[d]
      BY ConcatFacts
    <3>5. (a \o (b \o c))[Len(a) + (Len(b) + d)] = (b \o c)[Len(b) + d]
      BY <1>1, <3>2, ConcatFacts
    <3> QED BY <3>2, <3>3, <3>4, <3>5
  <2> QED BY <2>1, <2>2, <2>3, <2>4
<1> QED BY <1>2, <1>3, <1>4, SeqEqual

LEMMA WithEmpty ==
  ASSUME NEW S, NEW s \in Seq(S)
  PROVE  s \o << >> = s /\ << >> \o s = s
<1>1. << >> \in Seq(S) /\ Len(<< >>) = 0
  BY EmptySeq
<1>2. Len(s) \in Nat /\ Len(s \o << >>) = Len(s) /\ Len(<< >> \o s) = Len(s)
  BY <1>1, ConcatFacts, LenProperties
<1>3. \A i \in 1..Len(s) : (s \o << >>)[i] = s[i] /\ (<< >> \o s)[i] = s[i]
  BY <1>1, <1>2, ConcatFacts
<1>4. s \o << >> \in Seq(S) /\ << >> \o s \in Seq(S)
  BY <1>1, ConcatFacts
<1> QED BY <1>2, <1>3, <1>4, SeqEqual

LEMMA OneConcat ==
  ASSUME NEW S, NEW e \in S, NEW s \in Seq(S), s # << >>
  PROVE  << Head(s) >> \o Tail(s) = s
<1>1. /\ << Head(s) >> \in Seq(S) /\ Len(<< Head(s) >>) = 1 /\ << Head(s) >>[1] = s[1]
      /\ Tail(s) \in Seq(S) /\ Len(Tail(s)) = Len(s) - 1 /\ Len(s) \in Nat \ {0}
  BY TailFacts
<1>2. << Head(s) >> \o Tail(s) \in Seq(S) /\ Len(<< Head(s) >> \o Tail(s)) = Len(s)
  BY <1>1, ConcatFacts
<1>3. ASSUME NEW i \in 1..Len(s) PROVE (<< Head(s) >> \o Tail(s))[i] = s[i]
  <2>1. CASE i = 1
    BY <1>1, <2>1, ConcatFacts
  <2>2. CASE i # 1
    <3>1. PICK d \in 1..(Len(s) - 1) : i = 1 + d
      <4>1. i - 1 \in 1..(Len(s) - 1) /\ i = 1 + (i - 1)
        BY <1>1, <2>2
      <4> QED BY <4>1
    <3>2. (<< Head(s) >> \o Tail(s))[1 + d] = Tail(s)[d]
      BY <1>1, <3>1, ConcatFacts
    <3>3. Tail(s)[d] = s[d + 1]
      BY <3>1, TailFacts
    <3> QED BY <3>1, <3>2, <3>3
  <2> QED BY <2>1, <2>2
<1> QED BY <1>2, <1>3, SeqEqual

(* The first of c is appended to b: what the two hold together is the same.  *)
LEMMA PassFirst ==
  ASSUME NEW S, NEW b \in Seq(S), NEW c \in Seq(S), c # << >>
  PROVE  Append(b, Head(c)) \o Tail(c) = b \o c
<1>1. Tail(c) \in Seq(S) /\ Head(c) \in S
  BY TailFacts
<1>2. PICK one \in Seq(S) : one = << Head(c) >>
  <2>1. << Head(c) >> \in Seq(S)
    BY <1>1
  <2> QED BY <2>1
<1>3. Append(b, Head(c)) = b \o one
  BY <1>1, <1>2, AppendIsConcat
<1>4. (b \o one) \o Tail(c) = b \o (one \o Tail(c))
  BY <1>1, <1>2, Associative
<1>5. one \o Tail(c) = c
  BY <1>2, OneConcat
<1> QED BY <1>3, <1>4, <1>5

LEMMA TakesFirst ==
  ASSUME NEW S, NEW b \in Seq(S), NEW c \in Seq(S), b # << >>
  PROVE  /\ b \o c # << >> /\ Head(b \o c) = Head(b) /\ Tail(b \o c) = Tail(b) \o c
         /\ b \o c \in Seq(S) /\ Tail(b) \o c \in Seq(S) /\ Tail(b) \in Seq(S)
<1>1. Tail(b) \in Seq(S) /\ Len(b) \in Nat \ {0} /\ Len(Tail(b)) = Len(b) - 1 /\ Head(b) = b[1]
  BY TailFacts
<1>2. b \o c \in Seq(S) /\ Len(b \o c) = Len(b) + Len(c) /\ Len(c) \in Nat
  BY ConcatFacts, LenProperties
<1>3. b \o c # << >>
  BY <1>1, <1>2, EmptySeq
<1>4. Head(b \o c) = (b \o c)[1] /\ Tail(b \o c) \in Seq(S) /\ Len(Tail(b \o c)) = Len(b) + Len(c) - 1
  BY <1>2, <1>3, TailFacts
<1>5. Head(b \o c) = Head(b)
  BY <1>1, <1>4, ConcatFacts
<1>6. Tail(b) \o c \in Seq(S) /\ Len(Tail(b) \o c) = Len(b) + Len(c) - 1
  BY <1>1, <1>2, ConcatFacts
<1>7. ASSUME NEW i \in 1..(Len(b) + Len(c) - 1) PROVE Tail(b \o c)[i] = (Tail(b) \o c)[i]
  <2>1. Tail(b \o c)[i] = (b \o c)[i + 1]
    BY <1>2, <1>3, TailFacts
  <2>2. CASE i <= Len(b) - 1
    <3>1. i \in 1..(Len(b) - 1) /\ i + 1 \in 1..Len(b)
      BY <1>1, <2>2
    <3>2. (b \o c)[i + 1] = b[i + 1] /\ Tail(b)[i] = b[i + 1]
      BY <3>1, ConcatFacts, TailFacts
    <3>3. (Tail(b) \o c)[i] = Tail(b)[i]
      BY <1>1, <3>1, ConcatFacts
    <3> QED BY <2>1, <3>2, <3>3
  <2>3. CASE Len(b) <= i
    <3>1. PICK d \in 1..Len(c) : i + 1 = Len(b) + d /\ i = Len(Tail(b)) + d
      <4>1. i + 1 - Len(b) \in 1..Len(c) /\ i + 1 = Len(b) + (i + 1 - Len(b))
            /\ i = Len(Tail(b)) + (i + 1 - Len(b))
        BY <1>1, <1>2, <2>3
      <4> QED BY <4>1
    <3>2. (b \o c)[Len(b) + d] = c[d]
      BY <3>1, ConcatFacts
    <3>3. (Tail(b) \o c)[Len(Tail(b)) + d] = c[d]
      BY <1>1, <3>1, ConcatFacts
    <3> QED BY <2>1, <3>1, <3>2, <3>3
  <2> QED BY <1>1, <1>2, <2>2, <2>3
<1>8. Tail(b \o c) = Tail(b) \o c
  BY <1>4, <1>6, <1>7, SeqEqual
<1> QED BY <1>1, <1>2, <1>3, <1>5, <1>6, <1>8

LEMMA LastAppended ==
  ASSUME NEW S, NEW s \in Seq(S), NEW e \in S
  PROVE  Last(Append(s, e)) = e
BY AppendFacts DEF Last

(* The laws of concatenation, under a name that the provers do not unfold.  *)
Join(s, t) == s \o t

LEMMA JoinLaws ==
  ASSUME NEW S
  PROVE  /\ \A x, b \in Seq(S) : Join(x, b) \in Seq(S)
         /\ \A x, b, c \in Seq(S) : Join(Join(x, b), c) = Join(x, Join(b, c))
         /\ \A x \in Seq(S) : Join(x, << >>) = x /\ Join(<< >>, x) = x
<1>1. ASSUME NEW x \in Seq(S), NEW b \in Seq(S) PROVE Join(x, b) \in Seq(S)
  BY ConcatFacts DEF Join
<1>2. ASSUME NEW x \in Seq(S), NEW b \in Seq(S), NEW c \in Seq(S)
      PROVE  Join(Join(x, b), c) = Join(x, Join(b, c))
  <2>1. (x \o b) \o c = x \o (b \o c)
    BY Associative
  <2> QED BY <2>1 DEF Join
<1>3. ASSUME NEW x \in Seq(S) PROVE Join(x, << >>) = x /\ Join(<< >>, x) = x
  BY WithEmpty DEF Join
<1> QED BY <1>1, <1>2, <1>3

LEMMA JoinPasses ==
  ASSUME NEW S
  PROVE  /\ \A b, c \in Seq(S) : c # << >> =>
              /\ Append(b, Head(c)) \in Seq(S) /\ Tail(c) \in Seq(S)
              /\ Join(Append(b, Head(c)), Tail(c)) = Join(b, c)
         /\ \A b, c \in Seq(S) : b # << >> =>
              /\ Join(b, c) # << >> /\ Head(Join(b, c)) = Head(b)
              /\ Tail(Join(b, c)) = Join(Tail(b), c)
<1>1. ASSUME NEW b \in Seq(S), NEW c \in Seq(S), c # << >>
      PROVE  /\ Append(b, Head(c)) \in Seq(S) /\ Tail(c) \in Seq(S)
             /\ Join(Append(b, Head(c)), Tail(c)) = Join(b, c)
  <2>1. Append(b, Head(c)) \o Tail(c) = b \o c
    BY <1>1, PassFirst
  <2>2. Append(b, Head(c)) \in Seq(S) /\ Tail(c) \in Seq(S)
    BY <1>1, TailFacts, AppendFacts
  <2> QED BY <2>1, <2>2 DEF Join
<1>2. ASSUME NEW b \in Seq(S), NEW c \in Seq(S), b # << >>
      PROVE  /\ Join(b, c) # << >> /\ Head(Join(b, c)) = Head(b)
             /\ Tail(Join(b, c)) = Join(Tail(b), c)
  BY <1>2, TakesFirst DEF Join
<1> QED BY <1>1, <1>2

(* The reducer folds ahead of the coordinator: f are its accumulators, a    *)
(* those of the coordinator, and the answers q on their way lead from a to  *)
(* f, each adding one value to what its key had before it.                  *)
First(q, i) == \A j \in 1..Len(q) : j < i => q[j].key # q[i].key

Follows(q, j, i) ==
  /\ j < i /\ q[j].key = q[i].key
  /\ \A m \in 1..Len(q) : j < m /\ m < i => q[m].key # q[i].key

Latest(q, i) == \A j \in 1..Len(q) : i < j => q[j].key # q[i].key

Chain(q, a, f) ==
  /\ \A i \in 1..Len(q) : First(q, i) => q[i].value = Append(a[q[i].key], Last(q[i].value))
  /\ \A i, j \in 1..Len(q) : Follows(q, j, i) => q[i].value = Append(q[j].value, Last(q[i].value))
  /\ \A i \in 1..Len(q) : Latest(q, i) => f[q[i].key] = q[i].value
  /\ \A k \in Key : (\A i \in 1..Len(q) : q[i].key # k) => f[k] = a[k]

LEMMA ChainAppend ==
  ASSUME NEW q \in Seq(Folded), NEW a \in [Key -> Seq(Value)], NEW f \in [Key -> Seq(Value)],
         Chain(q, a, f), NEW k \in Key, NEW v \in Value
  PROVE  Chain(Append(q, [key |-> k, value |-> Append(f[k], v)]), a,
               [f EXCEPT ![k] = Append(f[k], v)])
<1>1. /\ f[k] \in Seq(Value) /\ Append(f[k], v) \in Seq(Value)
      /\ Last(Append(f[k], v)) = v
  BY LastAppended
<1>2. PICK acc \in Seq(Value) : acc = Append(f[k], v)
  BY <1>1
<1>3. PICK m \in Folded : m = [key |-> k, value |-> acc]
  BY <1>2 DEF Folded
<1>4. PICK p \in Seq(Folded) : p = Append(q, m)
  <2>1. Append(q, m) \in Seq(Folded)
    BY AppendFacts
  <2> QED BY <2>1
<1>5. PICK g \in [Key -> Seq(Value)] : g = [f EXCEPT ![k] = acc]
  <2>1. [f EXCEPT ![k] = acc] \in [Key -> Seq(Value)]
    BY <1>2
  <2> QED BY <2>1
<1>6. m.key = k /\ m.value = acc
  BY <1>3
<1>7. PICK n \in Nat : n = Len(q)
  BY LenProperties
<1>8. /\ Len(p) = n + 1 /\ p[n + 1] = m
      /\ \A i \in 1..n : p[i] = q[i]
  BY <1>4, <1>7, AppendFacts
<1>9. g[k] = acc /\ \A c \in Key : c # k => g[c] = f[c]
  BY <1>5
<1>10. \A i \in 1..n : q[i] \in Folded /\ q[i].key \in Key
  <2>1. \A i \in 1..n : q[i] \in Folded
    BY <1>7, ElementOfSeq
  <2> QED BY <2>1 DEF Folded
<1>11. /\ \A i \in 1..(n + 1) : i \in 1..n \/ i = n + 1
       /\ \A i \in 1..n : i \in 1..(n + 1) /\ i < n + 1
       /\ n + 1 \in 1..(n + 1)
  BY <1>7
<1>12. ASSUME NEW i \in 1..(n + 1), First(p, i)
       PROVE  p[i].value = Append(a[p[i].key], Last(p[i].value))
  <2>1. CASE i = n + 1
    <3>1. \A j \in 1..n : q[j].key # k
      BY <1>6, <1>8, <1>11, <1>12, <2>1 DEF First
    <3>2. f[k] = a[k]
      BY <1>7, <3>1 DEF Chain
    <3> QED BY <1>1, <1>2, <1>6, <1>8, <2>1, <3>2
  <2>2. CASE i \in 1..n
    <3>1. First(q, i)
      BY <1>7, <1>8, <1>11, <1>12, <2>2 DEF First
    <3> QED BY <1>7, <1>8, <2>2, <3>1 DEF Chain
  <2> QED BY <1>11, <2>1, <2>2
<1>13. ASSUME NEW i \in 1..(n + 1), NEW j \in 1..(n + 1), Follows(p, j, i)
       PROVE  p[i].value = Append(p[j].value, Last(p[i].value))
  <2>0. j \in 1..n
    BY <1>7, <1>13 DEF Follows
  <2>1. CASE i = n + 1
    <3>1. q[j].key = k
      BY <1>6, <1>8, <1>13, <2>0, <2>1 DEF Follows
    <3>2. ASSUME NEW c \in 1..n, j < c PROVE q[c].key # q[j].key
      BY <1>6, <1>8, <1>11, <1>13, <2>1, <3>1, <3>2 DEF Follows
    <3>3. Latest(q, j)
      BY <1>7, <3>2 DEF Latest
    <3>4. f[k] = q[j].value
      BY <1>7, <2>0, <3>1, <3>3 DEF Chain
    <3> QED BY <1>1, <1>2, <1>6, <1>8, <2>0, <2>1, <3>4
  <2>2. CASE i \in 1..n
    <3>1. Follows(q, j, i)
      BY <1>7, <1>8, <1>11, <1>13, <2>0, <2>2 DEF Follows
    <3> QED BY <1>7, <1>8, <2>0, <2>2, <3>1 DEF Chain
  <2> QED BY <1>11, <2>1, <2>2
<1>14. ASSUME NEW i \in 1..(n + 1), Latest(p, i)
       PROVE  g[p[i].key] = p[i].value
  <2>1. CASE i = n + 1
    BY <1>6, <1>8, <1>9, <2>1
  <2>2. CASE i \in 1..n
    <3>1. p[i] = q[i] /\ q[i].key # k
      BY <1>6, <1>8, <1>11, <1>14, <2>2 DEF Latest
    <3>2. Latest(q, i)
      BY <1>7, <1>8, <1>11, <1>14, <2>2 DEF Latest
    <3>3. f[q[i].key] = q[i].value
      BY <1>7, <2>2, <3>2 DEF Chain
    <3> QED BY <1>9, <1>10, <2>2, <3>1, <3>3
  <2> QED BY <1>11, <2>1, <2>2
<1>15. ASSUME NEW c \in Key, \A i \in 1..(n + 1) : p[i].key # c
       PROVE  g[c] = a[c]
  <2>1. c # k
    BY <1>6, <1>8, <1>11, <1>15
  <2>2. \A i \in 1..n : q[i].key # c
    BY <1>8, <1>11, <1>15
  <2>3. f[c] = a[c]
    BY <1>7, <2>2 DEF Chain
  <2> QED BY <1>9, <2>1, <2>3
<1>16. Chain(p, a, g)
  BY <1>8, <1>12, <1>13, <1>14, <1>15 DEF Chain
<1> QED BY <1>2, <1>3, <1>4, <1>5, <1>16

LEMMA ChainTail ==
  ASSUME NEW q \in Seq(Folded), NEW a \in [Key -> Seq(Value)], NEW f \in [Key -> Seq(Value)],
         Chain(q, a, f), q # << >>
  PROVE  /\ q[1].value = Append(a[q[1].key], Last(q[1].value))
         /\ Chain(Tail(q), [a EXCEPT ![q[1].key] = q[1].value], f)
<1>1. PICK p \in Seq(Folded) : p = Tail(q)
  <2>1. Tail(q) \in Seq(Folded)
    BY TailFacts
  <2> QED BY <2>1
<1>2. PICK n \in Nat : Len(q) = n + 1
  <2>1. Len(q) - 1 \in Nat /\ Len(q) = (Len(q) - 1) + 1
    BY TailFacts
  <2> QED BY <2>1
<1>3. Len(p) = n /\ \A i \in 1..n : p[i] = q[i + 1]
  <2>1. /\ Len(Tail(q)) = Len(q) - 1
        /\ \A i \in 1..(Len(q) - 1) : Tail(q)[i] = q[i + 1]
    BY TailFacts
  <2>2. Len(q) - 1 = n
    BY <1>2
  <2> QED BY <1>1, <2>1, <2>2
<1>4. /\ 1 \in 1..(n + 1) /\ \A i \in 1..n : i + 1 \in 1..(n + 1) /\ 1 < i + 1
      /\ \A i \in 1..(n + 1) : i = 1 \/ \E d \in 1..n : i = d + 1
  <2>1. ASSUME NEW i \in 1..(n + 1), i # 1 PROVE \E d \in 1..n : i = d + 1
    <3>1. i - 1 \in 1..n /\ i = (i - 1) + 1
      BY <1>2, <2>1
    <3> QED BY <3>1
  <2> QED BY <1>2, <2>1
<1>5. \A i \in 1..(n + 1) : q[i] \in Folded /\ q[i].key \in Key /\ q[i].value \in Seq(Value)
  <2>1. \A i \in 1..(n + 1) : q[i] \in Folded
    BY <1>2, ElementOfSeq
  <2> QED BY <2>1 DEF Folded
<1>6. PICK k \in Key : k = q[1].key
  BY <1>4, <1>5
<1>7. PICK b \in [Key -> Seq(Value)] : b = [a EXCEPT ![k] = q[1].value]
  <2>1. [a EXCEPT ![k] = q[1].value] \in [Key -> Seq(Value)]
    BY <1>4, <1>5
  <2> QED BY <2>1
<1>8. b[k] = q[1].value /\ \A c \in Key : c # k => b[c] = a[c]
  BY <1>7
<1>9. q[1].value = Append(a[q[1].key], Last(q[1].value))
  <2>1. First(q, 1)
    BY <1>2 DEF First
  <2> QED BY <1>2, <1>4, <2>1 DEF Chain
<1>10. ASSUME NEW i \in 1..n, First(p, i)
       PROVE  p[i].value = Append(b[p[i].key], Last(p[i].value))
  <2>1. p[i] = q[i + 1] /\ i + 1 \in 1..(n + 1)
    BY <1>3, <1>4
  <2>2. ASSUME NEW d \in 1..n, d + 1 < i + 1 PROVE q[d + 1].key # q[i + 1].key
    <3>1. d < i
      BY <2>2
    <3>2. p[d].key # p[i].key
      BY <1>3, <1>10, <3>1 DEF First
    <3> QED BY <1>3, <2>1, <3>2
  <2>3. CASE p[i].key = k
    <3>1. Follows(q, 1, i + 1)
      <4>1. 1 < i + 1 /\ q[1].key = q[i + 1].key
        BY <1>6, <2>1, <2>3
      <4>2. ASSUME NEW m \in 1..(n + 1), 1 < m, m < i + 1 PROVE q[m].key # q[i + 1].key
        <5>1. PICK d \in 1..n : m = d + 1
          BY <1>4, <4>2
        <5> QED BY <2>2, <4>2, <5>1
      <4> QED BY <1>2, <4>1, <4>2 DEF Follows
    <3>2. q[i + 1].value = Append(q[1].value, Last(q[i + 1].value))
      BY <1>2, <1>4, <2>1, <3>1 DEF Chain
    <3> QED BY <1>8, <2>1, <2>3, <3>2
  <2>4. CASE p[i].key # k
    <3>1. ASSUME NEW j \in 1..(n + 1), j < i + 1 PROVE q[j].key # q[i + 1].key
      <4>1. CASE j = 1
        BY <1>6, <2>1, <2>4, <4>1
      <4>2. CASE \E d \in 1..n : j = d + 1
        BY <2>2, <3>1, <4>2
      <4> QED BY <1>4, <4>1, <4>2
    <3>2. First(q, i + 1)
      BY <1>2, <3>1 DEF First
    <3>3. q[i + 1].value = Append(a[q[i + 1].key], Last(q[i + 1].value))
      BY <1>2, <2>1, <3>2 DEF Chain
    <3>4. b[q[i + 1].key] = a[q[i + 1].key]
      BY <1>5, <1>8, <2>1, <2>4
    <3> QED BY <2>1, <3>3, <3>4
  <2> QED BY <2>3, <2>4
<1>11. ASSUME NEW i \in 1..n, NEW j \in 1..n, Follows(p, j, i)
       PROVE  p[i].value = Append(p[j].value, Last(p[i].value))
  <2>1. p[i] = q[i + 1] /\ i + 1 \in 1..(n + 1) /\ p[j] = q[j + 1] /\ j + 1 \in 1..(n + 1)
    BY <1>3, <1>4
  <2>2. j + 1 < i + 1 /\ q[j + 1].key = q[i + 1].key
    BY <1>11, <2>1 DEF Follows
  <2>3. ASSUME NEW m \in 1..(n + 1), j + 1 < m, m < i + 1 PROVE q[m].key # q[i + 1].key
    <3>1. PICK d \in 1..n : m = d + 1
      BY <1>4, <2>3
    <3>2. j < d /\ d < i
      BY <2>3, <3>1
    <3>3. p[d].key # p[i].key
      BY <1>3, <1>11, <3>2 DEF Follows
    <3> QED BY <1>3, <2>1, <3>1, <3>3
  <2>4. Follows(q, j + 1, i + 1)
    BY <1>2, <2>2, <2>3 DEF Follows
  <2> QED BY <1>2, <2>1, <2>4 DEF Chain
<1>12. ASSUME NEW i \in 1..n, Latest(p, i)
       PROVE  f[p[i].key] = p[i].value
  <2>1. p[i] = q[i + 1] /\ i + 1 \in 1..(n + 1)
    BY <1>3, <1>4
  <2>2. ASSUME NEW j \in 1..(n + 1), i + 1 < j PROVE q[j].key # q[i + 1].key
    <3>1. PICK d \in 1..n : j = d + 1
      BY <1>4, <2>2
    <3>2. p[d].key # p[i].key
      BY <1>3, <1>12, <2>2, <3>1 DEF Latest
    <3> QED BY <1>3, <2>1, <3>1, <3>2
  <2>3. Latest(q, i + 1)
    BY <1>2, <2>2 DEF Latest
  <2> QED BY <1>2, <2>1, <2>3 DEF Chain
<1>13. ASSUME NEW c \in Key, \A i \in 1..n : p[i].key # c
       PROVE  f[c] = b[c]
  <2>1. \A d \in 1..n : q[d + 1].key # c
    BY <1>3, <1>13
  <2>2. CASE c = k
    <3>1. Latest(q, 1)
      <4>1. ASSUME NEW j \in 1..(n + 1), 1 < j PROVE q[j].key # q[1].key
        <5>1. PICK d \in 1..n : j = d + 1
          BY <1>4, <4>1
        <5> QED BY <1>6, <2>1, <2>2, <5>1
      <4> QED BY <1>2, <4>1 DEF Latest
    <3>2. f[q[1].key] = q[1].value
      BY <1>2, <1>4, <3>1 DEF Chain
    <3> QED BY <1>6, <1>8, <2>2, <3>2
  <2>3. CASE c # k
    <3>1. \A j \in 1..(n + 1) : q[j].key # c
      BY <1>4, <1>6, <2>1, <2>3
    <3>2. f[c] = a[c]
      BY <1>2, <3>1 DEF Chain
    <3> QED BY <1>8, <2>3, <3>2
  <2> QED BY <2>2, <2>3
<1>14. Chain(p, b, f)
  BY <1>3, <1>10, <1>11, <1>12, <1>13 DEF Chain
<1> QED BY <1>1, <1>6, <1>7, <1>9, <1>14

-----------------------------------------------------------------------------
(* The results on their way, from the answers n of the reducer back to the  *)
(* results m that the mapper has in hand.                                   *)
Flight(n, cr, q, mc, m) == Join(Join(Join(Join(n, cr), q), mc), m)

LEMMA FlightPasses ==
  ASSUME NEW S, NEW n \in Seq(S), NEW cr \in Seq(S), NEW q \in Seq(S), NEW mc \in Seq(S),
         NEW m \in Seq(S)
  PROVE  /\ cr # << >> =>
              Flight(Append(n, Head(cr)), Tail(cr), q, mc, m) = Flight(n, cr, q, mc, m)
         /\ q # << >> =>
              Flight(n, Append(cr, Head(q)), Tail(q), mc, m) = Flight(n, cr, q, mc, m)
         /\ mc # << >> =>
              Flight(n, cr, Append(q, Head(mc)), Tail(mc), m) = Flight(n, cr, q, mc, m)
         /\ m # << >> =>
              Flight(n, cr, q, Append(mc, Head(m)), Tail(m)) = Flight(n, cr, q, mc, m)
<1>1. Join(n, cr) \in Seq(S) /\ Join(Join(n, cr), q) \in Seq(S)
  BY JoinLaws
<1>2. \A x, b, c, d, e \in Seq(S) :
        Join(b, c) = Join(d, e) => Join(Join(x, b), c) = Join(Join(x, d), e)
  BY JoinLaws
<1>3. ASSUME cr # << >> PROVE Join(Append(n, Head(cr)), Tail(cr)) = Join(n, cr)
  BY <1>3, JoinPasses
<1>4. ASSUME NEW x \in Seq(S), NEW b \in Seq(S), NEW c \in Seq(S), c # << >>
      PROVE  Join(Join(x, Append(b, Head(c))), Tail(c)) = Join(Join(x, b), c)
  <2>1. /\ Append(b, Head(c)) \in Seq(S) /\ Tail(c) \in Seq(S)
        /\ Join(Append(b, Head(c)), Tail(c)) = Join(b, c)
    BY <1>4, JoinPasses
  <2>2. PICK a \in Seq(S), t \in Seq(S) : a = Append(b, Head(c)) /\ t = Tail(c)
    BY <2>1
  <2>3. Join(a, t) = Join(b, c) /\ a \in Seq(S) /\ t \in Seq(S)
    BY <2>1, <2>2
  <2>4. Join(Join(x, a), t) = Join(Join(x, b), c)
    BY <1>2, <2>3
  <2> QED BY <2>2, <2>4
<1> QED BY <1>1, <1>3, <1>4 DEF Flight

LEMMA MapperAdds ==
  ASSUME NEW S, NEW n \in Seq(S), NEW cr \in Seq(S), NEW q \in Seq(S), NEW mc \in Seq(S), NEW m
  PROVE  Flight(n, cr, q, mc, m) = Join(Flight(n, cr, q, mc, << >>), m)
<1>1. Join(Join(Join(n, cr), q), mc) \in Seq(S)
  BY JoinLaws
<1> QED BY <1>1, JoinLaws DEF Flight

FirstOf(s, e, t) == s # << >> /\ Head(s) = e /\ Tail(s) = t

LEMMA FlightEnds ==
  ASSUME NEW S, NEW n \in Seq(S), NEW cr \in Seq(S), NEW q \in Seq(S), NEW mc \in Seq(S),
         NEW m \in Seq(S), NEW e, NEW t, FirstOf(n, e, t)
  PROVE  FirstOf(Flight(n, cr, q, mc, m), e, Flight(t, cr, q, mc, m))
<1>0. n # << >> /\ Head(n) = e /\ Tail(n) = t
  BY DEF FirstOf
<1>1. Join(n, cr) \in Seq(S) /\ Join(Join(n, cr), q) \in Seq(S) /\ Join(Join(Join(n, cr), q), mc) \in Seq(S)
  BY JoinLaws
<1>2. \A b, c \in Seq(S) : b # << >> =>
        /\ Join(b, c) # << >> /\ Head(Join(b, c)) = Head(b)
        /\ Tail(Join(b, c)) = Join(Tail(b), c)
  BY JoinPasses
<1>3. Join(n, cr) # << >> /\ Head(Join(n, cr)) = Head(n) /\ Tail(Join(n, cr)) = Join(Tail(n), cr)
  BY <1>0, <1>2
<1>4. PICK x \in Seq(S) : x = Join(n, cr)
  BY <1>1
<1>5. x # << >> /\ Join(x, q) # << >> /\ Head(Join(x, q)) = Head(x) /\ Tail(Join(x, q)) = Join(Tail(x), q)
  BY <1>2, <1>3, <1>4
<1>6. PICK y \in Seq(S) : y = Join(x, q)
  BY <1>1, <1>4
<1>7. y # << >> /\ Join(y, mc) # << >> /\ Head(Join(y, mc)) = Head(y) /\ Tail(Join(y, mc)) = Join(Tail(y), mc)
  BY <1>2, <1>5, <1>6
<1>8. PICK z \in Seq(S) : z = Join(y, mc)
  BY <1>1, <1>4, <1>6
<1>9. z # << >> /\ Join(z, m) # << >> /\ Head(Join(z, m)) = Head(z) /\ Tail(Join(z, m)) = Join(Tail(z), m)
  BY <1>2, <1>7, <1>8
<1>10. Flight(n, cr, q, mc, m) = Join(z, m)
  BY <1>4, <1>6, <1>8 DEF Flight
<1>11. Flight(t, cr, q, mc, m) = Join(Tail(z), m)
  BY <1>0, <1>3, <1>4, <1>5, <1>6, <1>7, <1>8 DEF Flight
<1> QED BY <1>0, <1>3, <1>4, <1>5, <1>6, <1>7, <1>8, <1>9, <1>10, <1>11 DEF FirstOf

LEMMA NoFlight == Flight(<< >>, << >>, << >>, << >>, << >>) = << >>
<1>1. Join(<< >>, << >>) = << >>
  <2>1. << >> \in Seq({})
    BY EmptySeq
  <2> QED BY <2>1, WithEmpty DEF Join
<1> QED BY <1>1 DEF Flight

(* What the answers have reduced.                                           *)
LEMMA NewestFacts ==
  ASSUME NEW q \in Seq(Folded)
  PROVE  /\ Len(Newest(q)) = Len(q)
         /\ Newest(q) = << >> <=> q = << >>
         /\ \A i \in 1..Len(q) :
              Newest(q)[i] = [key |-> q[i].key, value |-> Last(q[i].value)]
         /\ Newest(q) \in Seq(Result \cup {Newest(q)[i] : i \in 1..Len(q)})
<1>1. Len(q) \in Nat /\ DOMAIN q = 1..Len(q)
  BY LenProperties
<1>2. /\ Newest(q) = [i \in 1..Len(q) |-> [key |-> q[i].key, value |-> Last(q[i].value)]]
  BY <1>1 DEF Newest
<1>3. \A i \in 1..Len(q) :
        Newest(q)[i] = [key |-> q[i].key, value |-> Last(q[i].value)]
  BY <1>2
<1>4. Newest(q) \in [1..Len(q) -> Result \cup {Newest(q)[i] : i \in 1..Len(q)}]
  BY <1>2
<1>5. Newest(q) \in Seq(Result \cup {Newest(q)[i] : i \in 1..Len(q)})
  BY <1>1, <1>4, IsASeq
<1>6. Len(Newest(q)) = Len(q)
  BY <1>1, <1>4, <1>5, LenProperties
<1>7. Newest(q) = << >> <=> q = << >>
  BY <1>5, <1>6, EmptySeq
<1> QED BY <1>3, <1>5, <1>6, <1>7

LEMMA NewestAppend ==
  ASSUME NEW q \in Seq(Folded), NEW m \in Folded
  PROVE  Newest(Append(q, m)) = Append(Newest(q), [key |-> m.key, value |-> Last(m.value)])
<1>1. PICK p \in Seq(Folded) : p = Append(q, m)
  <2>1. Append(q, m) \in Seq(Folded)
    BY AppendFacts
  <2> QED BY <2>1
<1>2. PICK e : e = [key |-> m.key, value |-> Last(m.value)]
  OBVIOUS
<1>3. PICK S : Newest(p) \in Seq(S) /\ Newest(q) \in Seq(S) /\ e \in S
  <2> DEFINE S == {e} \cup {Newest(p)[i] : i \in 1..Len(p)} \cup {Newest(q)[i] : i \in 1..Len(q)}
  <2>0. DOMAIN p = 1..Len(p) /\ DOMAIN q = 1..Len(q) /\ Len(p) \in Nat /\ Len(q) \in Nat
    BY LenProperties
  <2>1. Newest(p) \in [1..Len(p) -> S] /\ Newest(q) \in [1..Len(q) -> S]
    BY <2>0 DEF Newest
  <2>2. e \in S
    OBVIOUS
  <2> HIDE DEF S
  <2>3. Newest(p) \in Seq(S) /\ Newest(q) \in Seq(S)
    BY <2>0, <2>1, IsASeq
  <2> QED BY <2>2, <2>3
<1>4. Len(p) = Len(q) + 1 /\ p[Len(q) + 1] = m /\ \A i \in 1..Len(q) : p[i] = q[i]
  BY <1>1, AppendFacts
<1>5. Len(q) \in Nat
  BY LenProperties
<1>6. Len(Newest(p)) = Len(q) + 1 /\ Len(Newest(q)) = Len(q)
  BY <1>4, NewestFacts
<1>7. /\ Append(Newest(q), e) \in Seq(S) /\ Len(Append(Newest(q), e)) = Len(q) + 1
      /\ \A i \in 1..Len(q) : Append(Newest(q), e)[i] = Newest(q)[i]
      /\ Append(Newest(q), e)[Len(q) + 1] = e
  BY <1>3, <1>6, AppendFacts
<1>8. ASSUME NEW i \in 1..(Len(q) + 1) PROVE Newest(p)[i] = Append(Newest(q), e)[i]
  <2>1. Newest(p)[i] = [key |-> p[i].key, value |-> Last(p[i].value)]
    BY <1>4, NewestFacts
  <2>2. CASE i \in 1..Len(q)
    <3>1. Newest(q)[i] = [key |-> q[i].key, value |-> Last(q[i].value)]
      BY <2>2, NewestFacts
    <3> QED BY <1>4, <1>7, <2>1, <2>2, <3>1
  <2>3. CASE i = Len(q) + 1
    BY <1>2, <1>4, <1>7, <2>1, <2>3
  <2>4. i \in 1..Len(q) \/ i = Len(q) + 1
    BY <1>5
  <2> QED BY <2>2, <2>3, <2>4
<1>9. Newest(p) = Append(Newest(q), e)
  BY <1>3, <1>6, <1>7, <1>8, SeqEqual
<1> QED BY <1>1, <1>2, <1>9

LEMMA NewestTail ==
  ASSUME NEW q \in Seq(Folded), q # << >>
  PROVE  /\ Newest(Tail(q)) = Tail(Newest(q))
         /\ Head(Newest(q)) = [key |-> q[1].key, value |-> Last(q[1].value)]
<1>1. PICK p \in Seq(Folded) : p = Tail(q)
  <2>1. Tail(q) \in Seq(Folded)
    BY TailFacts
  <2> QED BY <2>1
<1>2. PICK n \in Nat : Len(q) = n + 1
  <2>1. Len(q) - 1 \in Nat /\ Len(q) = (Len(q) - 1) + 1
    BY TailFacts
  <2> QED BY <2>1
<1>3. Len(p) = n /\ \A i \in 1..n : p[i] = q[i + 1]
  <2>1. /\ Len(Tail(q)) = Len(q) - 1
        /\ \A i \in 1..(Len(q) - 1) : Tail(q)[i] = q[i + 1]
    BY TailFacts
  <2>2. Len(q) - 1 = n
    BY <1>2
  <2> QED BY <1>1, <2>1, <2>2
<1>4. PICK S : Newest(p) \in Seq(S) /\ Newest(q) \in Seq(S)
  <2> DEFINE S == {Newest(p)[i] : i \in 1..Len(p)} \cup {Newest(q)[i] : i \in 1..Len(q)}
  <2>0. DOMAIN p = 1..Len(p) /\ DOMAIN q = 1..Len(q) /\ Len(p) \in Nat /\ Len(q) \in Nat
    BY LenProperties
  <2>1. Newest(p) \in [1..Len(p) -> S] /\ Newest(q) \in [1..Len(q) -> S]
    BY <2>0 DEF Newest
  <2> HIDE DEF S
  <2>3. Newest(p) \in Seq(S)
    BY <2>0, <2>1, IsASeq
  <2>4. Newest(q) \in Seq(S)
    BY <2>0, <2>1, IsASeq
  <2> QED BY <2>3, <2>4
<1>5. Newest(q) # << >> /\ Len(Newest(q)) = n + 1 /\ Len(Newest(p)) = n
  BY <1>2, <1>3, NewestFacts
<1>6. /\ Tail(Newest(q)) \in Seq(S) /\ Len(Tail(Newest(q))) = n
      /\ \A i \in 1..n : Tail(Newest(q))[i] = Newest(q)[i + 1]
      /\ Head(Newest(q)) = Newest(q)[1]
  <2>1. /\ Tail(Newest(q)) \in Seq(S) /\ Len(Tail(Newest(q))) = Len(Newest(q)) - 1
        /\ \A i \in 1..(Len(Newest(q)) - 1) : Tail(Newest(q))[i] = Newest(q)[i + 1]
        /\ Head(Newest(q)) = Newest(q)[1]
    BY <1>4, <1>5, TailFacts
  <2>2. Len(Newest(q)) - 1 = n
    BY <1>5
  <2> QED BY <2>1, <2>2
<1>7. ASSUME NEW i \in 1..n PROVE Newest(p)[i] = Tail(Newest(q))[i]
  <2>1. Newest(p)[i] = [key |-> p[i].key, value |-> Last(p[i].value)]
    BY <1>3, NewestFacts
  <2>2. i + 1 \in 1..(n + 1)
    BY <1>2
  <2>3. Newest(q)[i + 1] = [key |-> q[i + 1].key, value |-> Last(q[i + 1].value)]
    BY <1>2, <2>2, NewestFacts
  <2> QED BY <1>3, <1>6, <2>1, <2>3
<1>8. Newest(p) = Tail(Newest(q))
  BY <1>4, <1>5, <1>6, <1>7, SeqEqual
<1>9. Newest(q)[1] = [key |-> q[1].key, value |-> Last(q[1].value)]
  <2>1. 1 \in 1..(n + 1)
    BY <1>2
  <2> QED BY <1>2, <2>1, NewestFacts
<1> QED BY <1>1, <1>6, <1>8, <1>9

-----------------------------------------------------------------------------
(* The end of the input: a pipe whose reader has gone is empty, and an end  *)
(* that the coordinator has closed is one it has nothing more to send to,   *)
(* unless it is a process that failed or was killed.                        *)
EndInv ==
  /\ at["mapper"] \in Alive => << "mapper", "mc", "write" >> \in held
  /\ at["reducer"] \in Alive => << "reducer", "rc", "write" >> \in held
  /\ at["coordinator"] # "killed" =>
       /\ << "coordinator", "cm", "write" >> \notin held => unread = << >>
       /\ << "coordinator", "cr", "write" >> \notin held =>
            queue = << >> /\ << "coordinator", "mc", "read" >> \notin held
       /\ << "coordinator", "mc", "read" >> \notin held => content["mc"] = << >>
       /\ << "coordinator", "rc", "read" >> \notin held => content["rc"] = << >>
  /\ at["mapper"] = "exit" => content["cm"] = << >>
  /\ at["reducer"] = "exit" => content["cr"] = << >>

LEMMA EndAfterFork ==
  ASSUME IInv, EndInv, ForksMapper \/ ForksReducer
  PROVE  EndInv'
<1>1. \A x \in Pipe, e \in End : << "coordinator", x, e >> \in held
  BY DEF ForksMapper, ForksReducer, IInv, HeldInv, Forking
<1>2. PICK c \in {"mapper", "reducer"} :
        /\ Fork(c) /\ UNCHANGED << cVars, mVars, rVars >>
        /\ \E to : at' = [at EXCEPT !["coordinator"] = to, ![c] = "close"]
  BY DEF ForksMapper, ForksReducer
<1>3. /\ \A q \in Process, x \in Pipe, e \in End :
           << q, x, e >> \in held' <=>
             << q, x, e >> \in held \/ (q = c /\ << "coordinator", x, e >> \in held)
      /\ content' = content
  BY <1>2, ForkFacts, RolesAssumption DEF IInv, HeldInv
<1>4. unread' = unread /\ queue' = queue
  BY <1>2 DEF cVars
<1>5. at'[c] = "close" /\ \A q \in {"mapper", "reducer"} : q # c => at'[q] = at[q]
  BY <1>2, RolesAssumption DEF IInv, PlaceInv
<1>6. "read" \in End /\ "write" \in End
  BY DEF End
<1>7. /\ at'["mapper"] \in Alive => << "mapper", "mc", "write" >> \in held'
      /\ at'["reducer"] \in Alive => << "reducer", "rc", "write" >> \in held'
  BY <1>1, <1>3, <1>5, <1>6, RolesAssumption DEF EndInv
<1>8. \A x \in Pipe, e \in End : << "coordinator", x, e >> \in held'
  BY <1>1, <1>3, RolesAssumption
<1>9. /\ at'["mapper"] = "exit" => content'["cm"] = << >>
      /\ at'["reducer"] = "exit" => content'["cr"] = << >>
  BY <1>3, <1>5 DEF EndInv
<1> QED BY <1>6, <1>7, <1>8, <1>9, RolesAssumption DEF EndInv

LEMMA EndAfterCoordinatorCloses ==
  ASSUME NEW ds \in SUBSET (Pipe \X End), Close("coordinator", ds), EndInv,
         UNCHANGED << cVars, mVars, rVars >>,
         \A q \in {"mapper", "reducer"} : at'[q] = at[q], at["coordinator"] # "killed",
         << "cm", "write" >> \in ds => unread = << >>,
         << "cr", "write" >> \in ds => queue = << >> /\ << "coordinator", "mc", "read" >> \notin held,
         << "mc", "read" >> \in ds => content["mc"] = << >>,
         << "rc", "read" >> \in ds => content["rc"] = << >>
  PROVE  EndInv'
<1>1. /\ \A q \in Process, x \in Pipe, e \in End :
           << q, x, e >> \in held' <=>
             << q, x, e >> \in held /\ ~(q = "coordinator" /\ << x, e >> \in ds)
      /\ content' = content
  BY CloseFacts, RolesAssumption
<1>2. unread' = unread /\ queue' = queue
  BY DEF cVars
<1>3. "read" \in End /\ "write" \in End
  BY DEF End
<1> QED BY <1>1, <1>2, <1>3, RolesAssumption DEF EndInv

LEMMA EndAfterChildCloses ==
  ASSUME NEW c \in {"mapper", "reducer"}, NEW ds \in SUBSET (Pipe \X End), Close(c, ds), EndInv,
         UNCHANGED << cVars, mVars, rVars >>,
         \A q \in Process : q # c => at'[q] = at[q],
         at[c] \in Alive,
         \/ at'[c] \in Alive /\ c = "mapper" /\ << "mc", "write" >> \notin ds
         \/ at'[c] \in Alive /\ c = "reducer" /\ << "rc", "write" >> \notin ds
         \/ at'[c] = "exit" /\ c = "mapper" /\ content["cm"] = << >>
         \/ at'[c] = "exit" /\ c = "reducer" /\ content["cr"] = << >>
         \/ at'[c] \in {"failed", "killed"}
  PROVE  EndInv'
<1>1. /\ \A q \in Process, x \in Pipe, e \in End :
           << q, x, e >> \in held' <=> << q, x, e >> \in held /\ ~(q = c /\ << x, e >> \in ds)
      /\ content' = content
  BY CloseFacts, RolesAssumption
<1>2. unread' = unread /\ queue' = queue
  BY DEF cVars
<1>3. /\ "read" \in End /\ "write" \in End
      /\ {"exit", "failed", "killed"} \cap Alive = {}
  BY DEF End, Alive
<1>4. at'["coordinator"] = at["coordinator"]
  BY RolesAssumption
<1>5. \A x \in Pipe, e \in End :
        << "coordinator", x, e >> \in held' <=> << "coordinator", x, e >> \in held
  BY <1>1, RolesAssumption
<1>6. /\ at'["mapper"] \in Alive => << "mapper", "mc", "write" >> \in held'
      /\ at'["reducer"] \in Alive => << "reducer", "rc", "write" >> \in held'
      /\ at'["mapper"] = "exit" => content["cm"] = << >>
      /\ at'["reducer"] = "exit" => content["cr"] = << >>
  BY <1>1, <1>3, RolesAssumption DEF EndInv
<1> QED BY <1>1, <1>2, <1>3, <1>4, <1>5, <1>6, RolesAssumption DEF EndInv

LEMMA EndAfterNothing ==
  ASSUME EndInv, content' = content, held' = held, unread' = unread, queue' = queue,
         \A q \in {"mapper", "reducer"} : at'[q] = at[q],
         at["coordinator"] = "killed" => at'["coordinator"] = "killed"
  PROVE  EndInv'
BY DEF EndInv

(* The coordinator closes or passes.                                        *)
LEMMA EndAfterCoordinator ==
  ASSUME IInv, EndInv,
         \/ ClosesFarEnds \/ EndsInput \/ MapperEnded \/ EndsMapped \/ ReducerEnded
         \/ Selects \/ Passes \/ Returns \/ CoordinatorKilled
  PROVE  EndInv'
<1>1. \A q \in {"mapper", "reducer"} : at'[q] = at[q]
  BY RolesAssumption DEF IInv, PlaceInv, Goes, ClosesFarEnds, EndsInput, MapperEnded, EndsMapped,
     ReducerEnded, Selects, Passes, Returns, CoordinatorKilled
<1>0. at["coordinator"] # "killed"
  BY DEF Goes, ClosesFarEnds, EndsInput, MapperEnded, EndsMapped,
     ReducerEnded, Selects, Passes, Returns, CoordinatorKilled
<1>2. "read" \in End /\ "write" \in End
  BY DEF End
<1>3. CASE ClosesFarEnds
  <2> DEFINE far == {<< "cm", "read" >>, << "mc", "write" >>, << "cr", "read" >>, << "rc", "write" >>}
  <2>1. far \in SUBSET (Pipe \X End)
    BY RolesAssumption DEF End
  <2>2. /\ << "cm", "write" >> \notin far /\ << "cr", "write" >> \notin far
        /\ << "mc", "read" >> \notin far /\ << "rc", "read" >> \notin far
    OBVIOUS
  <2>3. Close("coordinator", far) /\ UNCHANGED << cVars, mVars, rVars >>
    BY <1>3 DEF ClosesFarEnds
  <2> HIDE DEF far
  <2> QED BY <1>0, <1>1, <2>1, <2>2, <2>3, EndAfterCoordinatorCloses
<1>4. \A x \in Pipe : /\ Both({x}) \in SUBSET (Pipe \X End)
                      /\ \A y \in Pipe, e \in End : << y, e >> \in Both({x}) => y = x
  BY DEF Both
<1>5. CASE EndsInput
  <2>1. Close("coordinator", Both({"cm"})) /\ UNCHANGED << cVars, mVars, rVars >> /\ unread = << >>
    BY <1>5 DEF EndsInput
  <2> QED BY <1>0, <1>1, <1>2, <1>4, <2>1, EndAfterCoordinatorCloses, RolesAssumption
<1>6. CASE MapperEnded
  <2>1. Close("coordinator", Both({"mc"})) /\ UNCHANGED << cVars, mVars, rVars >>
        /\ content["mc"] = << >>
    BY <1>6 DEF MapperEnded, AtEof
  <2> QED BY <1>0, <1>1, <1>2, <1>4, <2>1, EndAfterCoordinatorCloses, RolesAssumption
<1>7. CASE EndsMapped
  <2>1. Close("coordinator", Both({"cr"})) /\ UNCHANGED << cVars, mVars, rVars >>
        /\ queue = << >> /\ << "coordinator", "mc", "read" >> \notin held
    BY <1>2, <1>7, RolesAssumption DEF EndsMapped, AllMapped, IsClose
  <2> QED BY <1>0, <1>1, <1>2, <1>4, <2>1, EndAfterCoordinatorCloses, RolesAssumption
<1>8. CASE ReducerEnded
  <2>1. Close("coordinator", Both({"rc"})) /\ UNCHANGED << cVars, mVars, rVars >>
        /\ content["rc"] = << >>
    BY <1>8 DEF ReducerEnded, AtEof
  <2> QED BY <1>0, <1>1, <1>2, <1>4, <2>1, EndAfterCoordinatorCloses, RolesAssumption
<1>9. CASE Selects \/ Passes \/ Returns
  BY <1>0, <1>1, <1>9, EndAfterNothing DEF Selects, Select, Passes, Returns, pVars, cVars
<1>10. CASE CoordinatorKilled
  <2> DEFINE ds == Pipe \X End
  <2>1. Close("coordinator", ds) /\ UNCHANGED << cVars, mVars, rVars >>
    BY <1>10 DEF CoordinatorKilled, WriteKills
  <2>2. ds \in SUBSET (Pipe \X End)
    OBVIOUS
  <2> HIDE DEF ds
  <2>3. /\ content' = content
        /\ \A q \in Process, x \in Pipe, e \in End :
             q # "coordinator" => (<< q, x, e >> \in held' <=> << q, x, e >> \in held)
    BY <2>1, <2>2, CloseFacts, RolesAssumption
  <2>4. at'["coordinator"] = "killed"
    BY <1>10, RolesAssumption DEF CoordinatorKilled, Goes, IInv, PlaceInv
  <2> QED BY <1>1, <1>2, <2>3, <2>4, RolesAssumption DEF EndInv
<1> QED BY <1>3, <1>5, <1>6, <1>7, <1>8, <1>9, <1>10

(* The coordinator sends and gets.  Nothing is sent to a child that has     *)
(* exited, for nobody holds the end to write of its pipe.                   *)
LEMMA EndAfterTransfer ==
  ASSUME IInv, EndInv, SendsLine \/ GetsMapped \/ SendsResult \/ GetsReduced
  PROVE  EndInv'
<1>1. \A q \in {"mapper", "reducer"} : at'[q] = at[q]
  BY RolesAssumption DEF IInv, PlaceInv, Goes, SendsLine, GetsMapped, SendsResult, GetsReduced
<1>0. at["coordinator"] # "killed"
  BY DEF Goes, SendsLine, GetsMapped, SendsResult, GetsReduced
<1>2. DOMAIN content = Pipe
  BY DEF IInv, DataInv
<1>3. CASE SendsLine
  <2>1. /\ << "coordinator", "cm", "write" >> \in held /\ held' = held /\ queue' = queue
        /\ \A y \in Pipe : y # "cm" => content'[y] = content[y]
    BY <1>2, <1>3 DEF SendsLine, Write
  <2>2. at["mapper"] # "exit"
    BY <2>1, RolesAssumption DEF IInv, ReaderInv
  <2> QED BY <1>0, <1>1, <2>1, <2>2, RolesAssumption DEF EndInv
<1>4. CASE GetsMapped
  <2>1. /\ << "coordinator", "mc", "read" >> \in held /\ held' = held /\ unread' = unread
        /\ \A y \in Pipe : y # "mc" => content'[y] = content[y]
    BY <1>2, <1>4 DEF GetsMapped, Read
  <2> QED BY <1>0, <1>1, <2>1, RolesAssumption DEF EndInv
<1>5. CASE SendsResult
  <2>1. /\ << "coordinator", "cr", "write" >> \in held /\ held' = held /\ unread' = unread
        /\ \A y \in Pipe : y # "cr" => content'[y] = content[y]
    BY <1>2, <1>5 DEF SendsResult, Write
  <2>2. at["reducer"] # "exit"
    BY <2>1, RolesAssumption DEF IInv, ReaderInv
  <2> QED BY <1>0, <1>1, <2>1, <2>2, RolesAssumption DEF EndInv
<1>6. CASE GetsReduced
  <2>1. /\ << "coordinator", "rc", "read" >> \in held /\ held' = held /\ unread' = unread
        /\ queue' = queue
        /\ \A y \in Pipe : y # "rc" => content'[y] = content[y]
    BY <1>2, <1>6 DEF GetsReduced, Read
  <2> QED BY <1>0, <1>1, <2>1, RolesAssumption DEF EndInv
<1> QED BY <1>3, <1>4, <1>5, <1>6

LEMMA EndAfterMapper ==
  ASSUME IInv, EndInv, MapperRuns
  PROVE  EndInv'
<1>1. /\ \A q \in Process : q # "mapper" => at'[q] = at[q]
      /\ at["mapper"] \in Alive /\ (MapperExits \/ MapperFails \/ at'["mapper"] \in Alive)
      /\ MapperExits => at'["mapper"] = "exit"
      /\ MapperFails => at'["mapper"] = "failed"
      /\ Maps \/ MapperGivesUp => at["mapper"] = "read"
  BY RolesAssumption DEF IInv, PlaceInv, Goes, MapperRuns, MapperCloses, Maps, MapperGivesUp, MapperFails,
     MapperWrites, MapperExits, Alive
<1>7. at'["reducer"] = at["reducer"] /\ at'["coordinator"] = at["coordinator"]
  BY <1>1, RolesAssumption
<1>2. DOMAIN content = Pipe /\ "exit" \notin Alive
  BY DEF IInv, DataInv, Alive
<1>3. CASE MapperCloses
  <2> DEFINE ds == {<< "cm", "write" >>, << "mc", "read" >>} \cup Both({"cr", "rc"})
  <2>1. ds \in SUBSET (Pipe \X End) /\ << "mc", "write" >> \notin ds
    BY RolesAssumption DEF Both, End
  <2>2. Close("mapper", ds) /\ UNCHANGED << cVars, mVars, rVars >>
    BY <1>3 DEF MapperCloses
  <2>3. at'["mapper"] \in Alive
    BY <1>3 DEF MapperCloses, Goes, IInv, PlaceInv, Alive
  <2> HIDE DEF ds
  <2> QED BY <1>1, <2>1, <2>2, <2>3, EndAfterChildCloses
<1>4. CASE MapperExits
  <2>1. Both(Pipe) \in SUBSET (Pipe \X End)
    BY DEF Both
  <2>2. Close("mapper", Both(Pipe)) /\ UNCHANGED << cVars, mVars, rVars >> /\ content["cm"] = << >>
    BY <1>4 DEF MapperExits, AtEof
  <2> QED BY <1>1, <1>4, <2>1, <2>2, EndAfterChildCloses
<1>5. CASE Maps \/ MapperGivesUp
  <2>1. /\ held' = held /\ unread' = unread /\ queue' = queue
        /\ \A y \in Pipe : y # "cm" => content'[y] = content[y]
    BY <1>2, <1>5 DEF Maps, MapperGivesUp, Read, cVars
  <2>2. at'["mapper"] # "exit"
    BY <1>5 DEF Maps, MapperGivesUp, Goes, IInv, PlaceInv
  <2> QED BY <1>1, <1>7, <2>1, <2>2, RolesAssumption DEF EndInv
<1>8. CASE MapperFails
  <2>1. Both(Pipe) \in SUBSET (Pipe \X End)
    BY DEF Both
  <2>2. Close("mapper", Both(Pipe)) /\ UNCHANGED << cVars, mVars, rVars >>
    BY <1>8 DEF MapperFails
  <2> QED BY <1>1, <1>8, <2>1, <2>2, EndAfterChildCloses
<1>6. CASE MapperWrites
  <2>1. /\ << "mapper", "mc", "write" >> \in held /\ held' = held /\ unread' = unread
        /\ queue' = queue /\ at' = at
        /\ \A y \in Pipe : y # "mc" => content'[y] = content[y]
    BY <1>2, <1>6 DEF MapperWrites, Write, cVars
  <2>2. << "coordinator", "mc", "read" >> \in held
    BY <2>1, RolesAssumption DEF IInv, ReaderInv
  <2> QED BY <2>1, <2>2, RolesAssumption DEF EndInv
<1> QED BY <1>3, <1>4, <1>5, <1>6, <1>8 DEF MapperRuns

LEMMA EndAfterReducer ==
  ASSUME IInv, EndInv, ReducerRuns
  PROVE  EndInv'
<1>1. /\ \A q \in Process : q # "reducer" => at'[q] = at[q]
      /\ at["reducer"] \in Alive
      /\ (ReducerExits \/ ReducerKilled \/ at'["reducer"] \in Alive)
      /\ ReducerExits => at'["reducer"] = "exit"
      /\ ReducerKilled => at'["reducer"] = "killed"
  BY RolesAssumption DEF IInv, PlaceInv, Goes, ReducerRuns, ReducerCloses, Reduces, ReducerWrites,
     ReducerFinishes, ReducerKilled, ReducerExits, Alive
<1>7. at'["mapper"] = at["mapper"] /\ at'["coordinator"] = at["coordinator"]
  BY <1>1, RolesAssumption
<1>2. DOMAIN content = Pipe /\ "exit" \notin Alive
  BY DEF IInv, DataInv, Alive
<1>3. CASE ReducerCloses
  <2> DEFINE ds == {<< "cr", "write" >>, << "rc", "read" >>} \cup Both({"cm", "mc"})
  <2>1. ds \in SUBSET (Pipe \X End) /\ << "rc", "write" >> \notin ds
    BY RolesAssumption DEF Both, End
  <2>2. Close("reducer", ds) /\ UNCHANGED << cVars, mVars, rVars >>
    BY <1>3 DEF ReducerCloses
  <2>3. at'["reducer"] \in Alive
    BY <1>3, RolesAssumption DEF ReducerCloses, Goes, IInv, PlaceInv, Alive
  <2> HIDE DEF ds
  <2> QED BY <1>1, <2>1, <2>2, <2>3, EndAfterChildCloses
<1>4. CASE ReducerExits
  <2>1. Both(Pipe) \in SUBSET (Pipe \X End)
    BY DEF Both
  <2>2. Close("reducer", Both(Pipe)) /\ UNCHANGED << cVars, mVars, rVars >> /\ content["cr"] = << >>
    BY <1>4 DEF ReducerExits, AtEof
  <2> QED BY <1>1, <1>4, <2>1, <2>2, EndAfterChildCloses
<1>5. CASE Reduces
  <2>1. /\ held' = held /\ unread' = unread /\ queue' = queue
        /\ \A y \in Pipe : y # "cr" => content'[y] = content[y]
    BY <1>2, <1>5 DEF Reduces, Read, cVars
  <2>2. at'["reducer"] # "exit"
    BY <1>5, RolesAssumption DEF Reduces, Goes, IInv, PlaceInv
  <2> QED BY <1>1, <1>7, <2>1, <2>2, RolesAssumption DEF EndInv
<1>6. CASE ReducerWrites
  <2>1. /\ << "reducer", "rc", "write" >> \in held /\ held' = held /\ unread' = unread
        /\ queue' = queue
        /\ \A y \in Pipe : y # "rc" => content'[y] = content[y]
    BY <1>2, <1>6 DEF ReducerWrites, Write, cVars
  <2>2. at["coordinator"] = "killed" \/ << "coordinator", "rc", "read" >> \in held
    BY <2>1, RolesAssumption DEF IInv, ReaderInv
  <2>3. at'["reducer"] # "exit"
    BY <1>6, RolesAssumption DEF ReducerWrites, Goes, IInv, PlaceInv
  <2> QED BY <1>1, <1>7, <2>1, <2>2, <2>3, RolesAssumption DEF EndInv
<1>8. CASE ReducerFinishes
  <2>1. UNCHANGED << content, held, unread, queue >> /\ at'["reducer"] # "exit"
    BY <1>8, RolesAssumption DEF ReducerFinishes, pVars, cVars, Goes, IInv, PlaceInv
  <2> QED BY <1>1, <1>7, <2>1 DEF EndInv
<1>9. CASE ReducerKilled
  <2> DEFINE ds == Pipe \X End
  <2>1. Close("reducer", ds) /\ UNCHANGED << cVars, mVars, rVars >>
    BY <1>9 DEF ReducerKilled, WriteKills
  <2>2. ds \in SUBSET (Pipe \X End)
    OBVIOUS
  <2> HIDE DEF ds
  <2> QED BY <1>1, <1>9, <2>1, <2>2, EndAfterChildCloses
<1> QED BY <1>3, <1>4, <1>5, <1>6, <1>8, <1>9 DEF ReducerRuns

(* When the coordinator finds all its pipes closed, nothing is left, but    *)
(* what the mapper that failed has not read.                                *)
LEMMA NothingLeft ==
  ASSUME IInv, EndInv, Returns
  PROVE  /\ GaveUp \/ content["cm"] = << >>
         /\ unread = << >> /\ content["rc"] = << >>
         /\ content["cr"] = << >> /\ queue = << >> /\ content["mc"] = << >> /\ mapped = << >>
         /\ reduced = NoResult
<1>1. \A x \in Pipe, e \in End : << "coordinator", x, e >> \notin held
  BY RolesAssumption DEF Returns, IsClose
<1>2. "read" \in End /\ "write" \in End
  BY DEF End
<1>0. at["coordinator"] # "killed"
  BY DEF Returns, Goes
<1>3. /\ unread = << >> /\ queue = << >> /\ content["mc"] = << >> /\ content["rc"] = << >>
  BY <1>0, <1>1, <1>2, RolesAssumption DEF EndInv
<1>4. << "mapper", "mc", "write" >> \notin held /\ << "reducer", "rc", "write" >> \notin held
  BY <1>0, <1>1, <1>2, RolesAssumption DEF IInv, ReaderInv
<1>5. at["mapper"] \in {"exit", "failed"} /\ at["reducer"] = "exit"
  BY <1>0, <1>4 DEF EndInv, IInv, PlaceInv, ReaderInv, KillInv, Returns, Goes
<1>6. mapped = << >> /\ reduced = NoResult
  BY <1>5 DEF IInv, DataInv
<1> QED BY <1>3, <1>5, <1>6 DEF EndInv, GaveUp

-----------------------------------------------------------------------------
(* The multiplexed version, step by step.                                  *)
ChainInv == accs \in [Key -> Seq(Value)] /\ Chain(Answers, accs, folded)

LEMMA AnswersFacts ==
  ASSUME IInv
  PROVE  /\ Answers \in Seq(Folded)
         /\ at["reducer"] \notin {"write", "killed"} => Answers = content["rc"]
         /\ at["reducer"] = "write" => Answers = Append(content["rc"], reduced)
<1>1. /\ reduced # NoResult => reduced \in Folded
      /\ at["reducer"] = "write" => reduced # NoResult
  BY DEF IInv, DataInv, NoResult
<1>2. at["reducer"] \notin {"write", "killed"} => reduced = NoResult
  BY DEF IInv, DataInv
<1>3. content["rc"] \in Seq(Folded)
  BY DEF IInv, DataInv
<1> QED BY <1>1, <1>2, <1>3 DEF Answers

LEMMA FlightIs ==
  ASSUME IInv
  PROVE  /\ InFlight = Flight(Newest(Answers), content["cr"], queue, content["mc"], mapped)
         /\ \E S : /\ Newest(Answers) \in Seq(S) /\ content["cr"] \in Seq(S) /\ queue \in Seq(S)
                   /\ content["mc"] \in Seq(S) /\ mapped \in Seq(S) /\ Result \subseteq S
<1>1. InFlight = Flight(Newest(Answers), content["cr"], queue, content["mc"], mapped)
  BY DEF InFlight, Flight, Join
<1>2. Answers \in Seq(Folded)
  BY AnswersFacts
<1>3. PICK N : N = {Newest(Answers)[i] : i \in 1..Len(Answers)}
  OBVIOUS
<1>4. Newest(Answers) \in Seq(Result \cup N)
  BY <1>2, <1>3, NewestFacts
<1>5. PICK S : S = Result \cup N
  OBVIOUS
<1>6. Result \subseteq S
  BY <1>5
<1>7. \A s \in Seq(Result) : s \in Seq(S)
  BY <1>6
<1>8. /\ content["cr"] \in Seq(S) /\ queue \in Seq(S) /\ content["mc"] \in Seq(S)
      /\ mapped \in Seq(S)
  BY <1>7 DEF IInv, DataInv
<1>9. Newest(Answers) \in Seq(S)
  BY <1>4, <1>5
<1> QED BY <1>1, <1>6, <1>8, <1>9

(* What a step does to the lines and the results, as MapReduce sees them.   *)
Ahead == content["cm"] \o unread

Keeps == Ahead' = Ahead /\ InFlight' = InFlight /\ accs' = accs

Adds ==
  /\ Ahead # << >> /\ Ahead' = Tail(Ahead) /\ Head(Ahead) \notin Fatal \cup Endless /\ ~GaveUp
  /\ InFlight' = InFlight \o MapFun[Head(Ahead)] /\ accs' = accs

Drops ==    \* the mapper gives up
  /\ Ahead # << >> /\ Head(Ahead) \in Fatal \cup Endless /\ ~GaveUp /\ GaveUp'
  /\ InFlight' = InFlight /\ accs' = accs

Takes ==
  /\ InFlight # << >> /\ InFlight' = Tail(InFlight) /\ Ahead' = Ahead
  /\ accs' = [accs EXCEPT ![Head(InFlight).key] = Append(@, Head(InFlight).value)]

LEMMA SameAnswers ==
  ASSUME ChainInv, content'["rc"] = content["rc"], UNCHANGED << reduced, folded, accs >>
  PROVE  ChainInv' /\ Answers' = Answers /\ Newest(Answers)' = Newest(Answers)
<1>1. Answers' = Answers
  BY DEF Answers
<1>2. Newest(Answers)' = Newest(Answers)
  BY <1>1 DEF Newest
<1>3. ChainInv'
  BY <1>1 DEF ChainInv, Chain, First, Follows, Latest
<1> QED BY <1>1, <1>2, <1>3

LEMMA SameData ==
  ASSUME ChainInv, content' = content, UNCHANGED << cVars, mVars, rVars >>
  PROVE  Keeps /\ ChainInv'
<1>1. Newest(Answers)' = Newest(Answers) /\ ChainInv'
  BY SameAnswers DEF cVars, mVars, rVars
<1> QED BY <1>1 DEF Keeps, Ahead, InFlight, cVars, mVars, rVars

LEMMA DataSendsLine ==
  ASSUME IInv, ChainInv, SendsLine
  PROVE  Keeps /\ ChainInv'
<1>1. /\ Write("coordinator", "cm", Head(unread)) /\ unread # << >> /\ unread' = Tail(unread)
      /\ UNCHANGED << queue, accs, mapped, folded, reduced >>
  BY DEF SendsLine, mVars, rVars
<1>2. /\ unread \in Seq(Line) /\ content["cm"] \in Seq(Line) /\ DOMAIN content = Pipe
  BY DEF IInv, DataInv
<1>3. /\ content'["cm"] = Append(content["cm"], Head(unread))
      /\ \A y \in Pipe : y # "cm" => content'[y] = content[y]
  BY <1>1, <1>2, RolesAssumption DEF Write
<1>4. Append(content["cm"], Head(unread)) \o Tail(unread) = content["cm"] \o unread
  BY <1>1, <1>2, PassFirst
<1>5. Ahead' = Ahead
  BY <1>1, <1>3, <1>4 DEF Ahead
<1>6. content'["rc"] = content["rc"] /\ content'["cr"] = content["cr"] /\ content'["mc"] = content["mc"]
  BY <1>3, RolesAssumption
<1>7. ChainInv' /\ Newest(Answers)' = Newest(Answers)
  BY <1>1, <1>6, SameAnswers
<1>8. InFlight' = InFlight
  BY <1>1, <1>6, <1>7 DEF InFlight
<1> QED BY <1>1, <1>5, <1>7, <1>8 DEF Keeps

LEMMA DataGetsMapped ==
  ASSUME IInv, ChainInv, GetsMapped
  PROVE  Keeps /\ ChainInv'
<1>1. /\ Read("coordinator", "mc") /\ queue' = Append(queue, Head(content["mc"]))
      /\ UNCHANGED << unread, accs, mapped, folded, reduced >>
  BY DEF GetsMapped, mVars, rVars
<1>2. DOMAIN content = Pipe
  BY DEF IInv, DataInv
<1>3. /\ content["mc"] # << >> /\ content'["mc"] = Tail(content["mc"])
      /\ \A y \in Pipe : y # "mc" => content'[y] = content[y]
  BY <1>1, <1>2, RolesAssumption DEF Read
<1>4. content'["rc"] = content["rc"] /\ content'["cr"] = content["cr"] /\ content'["cm"] = content["cm"]
  BY <1>3, RolesAssumption
<1>5. ChainInv' /\ Newest(Answers)' = Newest(Answers)
  BY <1>1, <1>4, SameAnswers
<1>6. Flight(Newest(Answers), content["cr"], Append(queue, Head(content["mc"])),
             Tail(content["mc"]), mapped) = InFlight
  BY <1>3, FlightIs, FlightPasses
<1>7. InFlight' = Flight(Newest(Answers)', content'["cr"], queue', content'["mc"], mapped')
  BY DEF InFlight, Flight, Join
<1>8. InFlight' = InFlight
  BY <1>1, <1>3, <1>4, <1>5, <1>6, <1>7
<1>9. Ahead' = Ahead
  BY <1>1, <1>4 DEF Ahead
<1> QED BY <1>1, <1>5, <1>8, <1>9 DEF Keeps

LEMMA DataSendsResult ==
  ASSUME IInv, ChainInv, SendsResult
  PROVE  Keeps /\ ChainInv'
<1>1. /\ Write("coordinator", "cr", Head(queue)) /\ queue # << >> /\ queue' = Tail(queue)
      /\ UNCHANGED << unread, accs, mapped, folded, reduced >>
  BY DEF SendsResult, mVars, rVars
<1>2. DOMAIN content = Pipe
  BY DEF IInv, DataInv
<1>3. /\ content'["cr"] = Append(content["cr"], Head(queue))
      /\ \A y \in Pipe : y # "cr" => content'[y] = content[y]
  BY <1>1, <1>2, RolesAssumption DEF Write
<1>4. content'["rc"] = content["rc"] /\ content'["mc"] = content["mc"] /\ content'["cm"] = content["cm"]
  BY <1>3, RolesAssumption
<1>5. ChainInv' /\ Newest(Answers)' = Newest(Answers)
  BY <1>1, <1>4, SameAnswers
<1>6. Flight(Newest(Answers), Append(content["cr"], Head(queue)), Tail(queue), content["mc"], mapped)
        = InFlight
  BY <1>1, FlightIs, FlightPasses
<1>7. InFlight' = Flight(Newest(Answers)', content'["cr"], queue', content'["mc"], mapped')
  BY DEF InFlight, Flight, Join
<1>8. InFlight' = InFlight
  BY <1>1, <1>3, <1>4, <1>5, <1>6, <1>7
<1>9. Ahead' = Ahead
  BY <1>1, <1>4 DEF Ahead
<1> QED BY <1>1, <1>5, <1>8, <1>9 DEF Keeps

LEMMA DataMapperWrites ==
  ASSUME IInv, ChainInv, MapperWrites
  PROVE  Keeps /\ ChainInv'
<1>1. /\ Write("mapper", "mc", Head(mapped)) /\ mapped # << >> /\ mapped' = Tail(mapped)
      /\ UNCHANGED << unread, queue, accs, folded, reduced >>
  BY DEF MapperWrites, cVars, rVars
<1>2. DOMAIN content = Pipe
  BY DEF IInv, DataInv
<1>3. /\ content'["mc"] = Append(content["mc"], Head(mapped))
      /\ \A y \in Pipe : y # "mc" => content'[y] = content[y]
  BY <1>1, <1>2, RolesAssumption DEF Write
<1>4. content'["rc"] = content["rc"] /\ content'["cr"] = content["cr"] /\ content'["cm"] = content["cm"]
  BY <1>3, RolesAssumption
<1>5. ChainInv' /\ Newest(Answers)' = Newest(Answers)
  BY <1>1, <1>4, SameAnswers
<1>6. Flight(Newest(Answers), content["cr"], queue, Append(content["mc"], Head(mapped)), Tail(mapped))
        = InFlight
  BY <1>1, FlightIs, FlightPasses
<1>7. InFlight' = Flight(Newest(Answers)', content'["cr"], queue', content'["mc"], mapped')
  BY DEF InFlight, Flight, Join
<1>8. InFlight' = InFlight
  BY <1>1, <1>3, <1>4, <1>5, <1>6, <1>7
<1>9. Ahead' = Ahead
  BY <1>1, <1>4 DEF Ahead
<1> QED BY <1>1, <1>5, <1>8, <1>9 DEF Keeps

LEMMA DataMaps ==
  ASSUME IInv, ChainInv, Maps
  PROVE  Adds /\ ChainInv'
<1>1. /\ Read("mapper", "cm") /\ mapped' = MapFun[Head(content["cm"])]
      /\ UNCHANGED << unread, queue, accs, folded, reduced >>
  BY DEF Maps, cVars, rVars
<1>2. /\ DOMAIN content = Pipe /\ content["cm"] \in Seq(Line) /\ unread \in Seq(Line)
  BY DEF IInv, DataInv
<1>3. /\ content["cm"] # << >> /\ content'["cm"] = Tail(content["cm"])
      /\ \A y \in Pipe : y # "cm" => content'[y] = content[y]
  BY <1>1, <1>2, RolesAssumption DEF Read
<1>4. content'["rc"] = content["rc"] /\ content'["cr"] = content["cr"] /\ content'["mc"] = content["mc"]
  BY <1>3, RolesAssumption
<1>5. ChainInv' /\ Newest(Answers)' = Newest(Answers)
  BY <1>1, <1>4, SameAnswers
<1>6. /\ Ahead # << >> /\ Head(Ahead) = Head(content["cm"])
      /\ Tail(Ahead) = Tail(content["cm"]) \o unread
  <2>1. /\ Join(content["cm"], unread) # << >>
        /\ Head(Join(content["cm"], unread)) = Head(content["cm"])
        /\ Tail(Join(content["cm"], unread)) = Join(Tail(content["cm"]), unread)
    BY <1>2, <1>3, JoinPasses
  <2> QED BY <2>1 DEF Ahead, Join
<1>7. Ahead' = Tail(Ahead)
  BY <1>1, <1>3, <1>6 DEF Ahead
<1>8. mapped = << >>
  BY DEF Maps, Goes, IInv, DataInv
<1>9. Flight(Newest(Answers), content["cr"], queue, content["mc"], mapped')
        = Join(Flight(Newest(Answers), content["cr"], queue, content["mc"], << >>), mapped')
  BY FlightIs, MapperAdds
<1>10. InFlight' = Flight(Newest(Answers)', content'["cr"], queue', content'["mc"], mapped')
  BY DEF InFlight, Flight, Join
<1>11. InFlight' = Join(InFlight, mapped')
  BY <1>1, <1>4, <1>5, <1>8, <1>9, <1>10, FlightIs
<1>12. InFlight' = InFlight \o MapFun[Head(Ahead)]
  BY <1>1, <1>6, <1>11 DEF Join
<1>13. Head(Ahead) \notin Fatal \cup Endless /\ ~GaveUp
  BY <1>6 DEF Maps, Goes, GaveUp
<1> QED BY <1>1, <1>5, <1>6, <1>7, <1>12, <1>13 DEF Adds

LEMMA DataGivesUp ==
  ASSUME IInv, ChainInv, MapperGivesUp
  PROVE  Drops /\ ChainInv'
<1>1. /\ Read("mapper", "cm") /\ Head(content["cm"]) \in Fatal \cup Endless
      /\ UNCHANGED << unread, queue, accs, mapped, folded, reduced >>
  BY DEF MapperGivesUp, cVars, mVars, rVars
<1>2. /\ DOMAIN content = Pipe /\ content["cm"] \in Seq(Line) /\ unread \in Seq(Line)
  BY DEF IInv, DataInv
<1>3. /\ content["cm"] # << >>
      /\ \A y \in Pipe : y # "cm" => content'[y] = content[y]
  BY <1>1, <1>2, RolesAssumption DEF Read
<1>4. content'["rc"] = content["rc"] /\ content'["cr"] = content["cr"] /\ content'["mc"] = content["mc"]
  BY <1>3, RolesAssumption
<1>5. ChainInv' /\ Newest(Answers)' = Newest(Answers)
  BY <1>1, <1>4, SameAnswers
<1>6. Ahead # << >> /\ Head(Ahead) = Head(content["cm"])
  <2>1. /\ Join(content["cm"], unread) # << >>
        /\ Head(Join(content["cm"], unread)) = Head(content["cm"])
    BY <1>2, <1>3, JoinPasses
  <2> QED BY <2>1 DEF Ahead, Join
<1>7. InFlight' = InFlight
  BY <1>1, <1>4, <1>5 DEF InFlight
<1>8. ~GaveUp /\ GaveUp'
  BY RolesAssumption DEF MapperGivesUp, Goes, GaveUp, IInv, PlaceInv
<1> QED BY <1>1, <1>5, <1>6, <1>7, <1>8 DEF Drops

LEMMA DataReduces ==
  ASSUME IInv, ChainInv, Reduces
  PROVE  Keeps /\ ChainInv'
<1>0. PICK r : r = Head(content["cr"])
  OBVIOUS
<1>1. /\ Read("reducer", "cr") /\ UNCHANGED << unread, queue, accs, mapped >>
      /\ folded' = [folded EXCEPT ![r.key] = Append(folded[r.key], r.value)]
      /\ reduced' = [key |-> r.key, value |-> Append(folded[r.key], r.value)]
      /\ at["reducer"] = "read"
  BY <1>0 DEF Reduces, cVars, mVars, Goes
<1>2. /\ DOMAIN content = Pipe /\ content["cr"] \in Seq(Result) /\ content["rc"] \in Seq(Folded)
      /\ folded \in [Key -> Seq(Value)]
  BY DEF IInv, DataInv
<1>3. /\ content["cr"] # << >> /\ content'["cr"] = Tail(content["cr"])
      /\ \A y \in Pipe : y # "cr" => content'[y] = content[y]
  BY <1>1, <1>2, RolesAssumption DEF Read
<1>4. content'["rc"] = content["rc"] /\ content'["mc"] = content["mc"] /\ content'["cm"] = content["cm"]
  BY <1>3, RolesAssumption
<1>5. r \in Result /\ r.key \in Key /\ r.value \in Value /\ r = [key |-> r.key, value |-> r.value]
  <2>1. r \in Result
    BY <1>0, <1>2, <1>3, TailFacts
  <2> QED BY <2>1 DEF Result
<1>6. PICK k \in Key, v \in Value : k = r.key /\ v = r.value
  BY <1>5
<1>7. /\ reduced' = [key |-> k, value |-> Append(folded[k], v)]
      /\ folded' = [folded EXCEPT ![k] = Append(folded[k], v)]
  BY <1>1, <1>6
<1>8. /\ Append(folded[k], v) \in Seq(Value) /\ Append(folded[k], v) # << >>
      /\ Last(Append(folded[k], v)) = v
  BY <1>2, <1>6, AppendFacts, LastAppended
<1>9. reduced' \in Folded /\ reduced' # NoResult /\ reduced'.key = k /\ Last(reduced'.value) = v
  BY <1>6, <1>7, <1>8 DEF Folded, NoResult
<1>10. Answers = content["rc"] /\ Answers' = Append(content["rc"], reduced')
  BY <1>1, <1>4, <1>9, AnswersFacts DEF Answers
<1>11. Newest(Append(content["rc"], reduced')) = Append(Newest(content["rc"]), r)
  <2>1. Newest(Append(content["rc"], reduced'))
          = Append(Newest(content["rc"]), [key |-> reduced'.key, value |-> Last(reduced'.value)])
    BY <1>2, <1>9, NewestAppend
  <2> QED BY <1>5, <1>6, <1>9, <2>1
<1>12. Newest(Answers)' = Append(Newest(Answers), Head(content["cr"]))
  <2>1. Newest(Answers)' = Newest(Append(content["rc"], reduced'))
    BY <1>10 DEF Newest
  <2> QED BY <1>0, <1>10, <1>11, <2>1
<1>13. Flight(Append(Newest(Answers), Head(content["cr"])), Tail(content["cr"]), queue,
              content["mc"], mapped) = InFlight
  BY <1>3, FlightIs, FlightPasses
<1>14. InFlight' = Flight(Newest(Answers)', content'["cr"], queue', content'["mc"], mapped')
  BY DEF InFlight, Flight, Join
<1>15. InFlight' = InFlight
  BY <1>1, <1>3, <1>4, <1>12, <1>13, <1>14
<1>16. Ahead' = Ahead
  BY <1>1, <1>4 DEF Ahead
<1>17. Chain(Append(content["rc"], [key |-> k, value |-> Append(folded[k], v)]), accs,
             [folded EXCEPT ![k] = Append(folded[k], v)])
  BY <1>2, <1>10, ChainAppend DEF ChainInv
<1>18. ChainInv'
  BY <1>1, <1>7, <1>10, <1>17 DEF ChainInv
<1> QED BY <1>1, <1>15, <1>16, <1>18 DEF Keeps

LEMMA DataReducerWrites ==
  ASSUME IInv, ChainInv, ReducerWrites
  PROVE  Keeps /\ ChainInv'
<1>1. /\ Write("reducer", "rc", reduced) /\ reduced' = NoResult
      /\ UNCHANGED << unread, queue, accs, mapped, folded >> /\ at["reducer"] = "write"
  BY DEF ReducerWrites, cVars, mVars, Goes
<1>2. DOMAIN content = Pipe
  BY DEF IInv, DataInv
<1>3. /\ content'["rc"] = Append(content["rc"], reduced)
      /\ \A y \in Pipe : y # "rc" => content'[y] = content[y]
  BY <1>1, <1>2, RolesAssumption DEF Write
<1>4. content'["cr"] = content["cr"] /\ content'["mc"] = content["mc"] /\ content'["cm"] = content["cm"]
  BY <1>3, RolesAssumption
<1>5. Answers' = Answers
  BY <1>1, <1>3, AnswersFacts DEF Answers
<1>6. Newest(Answers)' = Newest(Answers)
  BY <1>5 DEF Newest
<1>7. ChainInv'
  BY <1>1, <1>5 DEF ChainInv, Chain, First, Follows, Latest
<1>8. InFlight' = InFlight
  BY <1>1, <1>4, <1>6 DEF InFlight
<1>9. Ahead' = Ahead
  BY <1>1, <1>4 DEF Ahead
<1> QED BY <1>1, <1>7, <1>8, <1>9 DEF Keeps

LEMMA DataGetsReduced ==
  ASSUME IInv, ChainInv, GetsReduced
  PROVE  Takes /\ ChainInv'
<1>1. /\ Read("coordinator", "rc") /\ UNCHANGED << unread, queue, mapped, folded, reduced >>
      /\ accs' = [accs EXCEPT ![Head(content["rc"]).key] = Head(content["rc"]).value]
  BY DEF GetsReduced, mVars, rVars
<1>2. DOMAIN content = Pipe /\ content["rc"] \in Seq(Folded) /\ folded \in [Key -> Seq(Value)]
  BY DEF IInv, DataInv
<1>3. /\ content["rc"] # << >> /\ content'["rc"] = Tail(content["rc"])
      /\ \A y \in Pipe : y # "rc" => content'[y] = content[y]
  BY <1>1, <1>2, RolesAssumption DEF Read
<1>4. content'["cr"] = content["cr"] /\ content'["mc"] = content["mc"] /\ content'["cm"] = content["cm"]
  BY <1>3, RolesAssumption
<1>5. PICK q \in Seq(Folded) : q = Answers
  BY AnswersFacts
<1>6. q # << >> /\ q[1] = Head(content["rc"]) /\ Answers' = Tail(q)
  <2>1. CASE reduced = NoResult
    <3>1. q = content["rc"] /\ reduced = NoResult
      BY <1>5, <2>1 DEF Answers
    <3>2. Answers' = Tail(content["rc"])
      BY <1>1, <1>3, <3>1 DEF Answers
    <3> QED BY <1>2, <1>3, <3>1, <3>2, TailFacts
  <2>2. CASE reduced # NoResult
    <3>1. q = Append(content["rc"], reduced) /\ reduced \in Folded /\ reduced # NoResult
      BY <1>5, <2>2 DEF IInv, DataInv, Answers
    <3>2. Answers' = Append(Tail(content["rc"]), reduced)
      BY <1>1, <1>3, <3>1 DEF Answers
    <3>3. PICK one \in Seq(Folded) : one = << reduced >>
      <4>1. << reduced >> \in Seq(Folded)
        BY <3>1
      <4> QED BY <4>1
    <3>4. /\ Append(content["rc"], reduced) = content["rc"] \o one
          /\ Append(Tail(content["rc"]), reduced) = Tail(content["rc"]) \o one
      BY <1>2, <1>3, <3>1, <3>3, TailFacts, AppendIsConcat
    <3>5. /\ content["rc"] \o one # << >> /\ Head(content["rc"] \o one) = Head(content["rc"])
          /\ Tail(content["rc"] \o one) = Tail(content["rc"]) \o one
      <4>1. one \in Seq(Folded)
        BY <3>3
      <4>2. /\ Join(content["rc"], one) # << >>
            /\ Head(Join(content["rc"], one)) = Head(content["rc"])
            /\ Tail(Join(content["rc"], one)) = Join(Tail(content["rc"]), one)
        BY <1>2, <1>3, <4>1, JoinPasses
      <4> QED BY <4>2 DEF Join
    <3>6. q # << >> /\ Head(q) = Head(content["rc"]) /\ Tail(q) = Answers'
      BY <3>1, <3>2, <3>4, <3>5
    <3> QED BY <3>6, TailFacts
  <2> QED BY <2>1, <2>2
<1>7. accs' = [accs EXCEPT ![q[1].key] = q[1].value] /\ accs \in [Key -> Seq(Value)] /\ Chain(q, accs, folded)
  BY <1>1, <1>5, <1>6 DEF ChainInv
<1>8. /\ q[1].value = Append(accs[q[1].key], Last(q[1].value))
      /\ Chain(Tail(q), [accs EXCEPT ![q[1].key] = q[1].value], folded)
  BY <1>2, <1>6, <1>7, ChainTail
<1>9. q[1].key \in Key /\ q[1].value \in Seq(Value)
  <2>1. q[1] \in Folded
    BY <1>6, TailFacts
  <2> QED BY <2>1 DEF Folded
<1>10. ChainInv'
  <2>1. [accs EXCEPT ![q[1].key] = q[1].value] \in [Key -> Seq(Value)]
    BY <1>7, <1>9
  <2> QED BY <1>1, <1>6, <1>7, <1>8, <2>1 DEF ChainInv
<1>11. /\ Newest(q) # << >> /\ Newest(Tail(q)) = Tail(Newest(q))
       /\ Head(Newest(q)) = [key |-> q[1].key, value |-> Last(q[1].value)]
  BY <1>6, NewestFacts, NewestTail
<1>12. Newest(Answers)' = Tail(Newest(Answers))
  <2>1. Newest(Answers)' = Newest(Tail(q))
    BY <1>6 DEF Newest
  <2> QED BY <1>5, <1>11, <2>1
<1>13. /\ InFlight # << >> /\ Head(InFlight) = Head(Newest(Answers))
       /\ Tail(InFlight) = Flight(Tail(Newest(Answers)), content["cr"], queue, content["mc"], mapped)
  <2>1. InFlight = Flight(Newest(Answers), content["cr"], queue, content["mc"], mapped)
    BY FlightIs
  <2>2. PICK S : /\ Newest(Answers) \in Seq(S) /\ content["cr"] \in Seq(S) /\ queue \in Seq(S)
                 /\ content["mc"] \in Seq(S) /\ mapped \in Seq(S)
    BY FlightIs
  <2>3. Newest(Answers) # << >>
    BY <1>5, <1>11
  <2>4. FirstOf(Newest(Answers), Head(Newest(Answers)), Tail(Newest(Answers)))
    BY <2>3 DEF FirstOf
  <2>5. FirstOf(InFlight, Head(Newest(Answers)),
                Flight(Tail(Newest(Answers)), content["cr"], queue, content["mc"], mapped))
    BY <2>1, <2>2, <2>4, FlightEnds
  <2> QED BY <2>5 DEF FirstOf
<1>14. InFlight' = Flight(Newest(Answers)', content'["cr"], queue', content'["mc"], mapped')
  BY DEF InFlight, Flight, Join
<1>15. InFlight' = Tail(InFlight)
  BY <1>1, <1>4, <1>12, <1>13, <1>14
<1>16. Head(InFlight).key = q[1].key /\ Head(InFlight).value = Last(q[1].value)
  BY <1>5, <1>11, <1>13
<1>17. accs' = [accs EXCEPT ![Head(InFlight).key] = Append(@, Head(InFlight).value)]
  BY <1>7, <1>8, <1>16
<1>18. Ahead' = Ahead
  BY <1>1, <1>4 DEF Ahead
<1> QED BY <1>10, <1>13, <1>15, <1>17, <1>18 DEF Takes

(* What a step is for one process: nothing, a line mapped, a result reduced  *)
(* into the accumulator of the coordinator, or the return.                  *)
SameReturned == (at'["coordinator"] = "returned") = (at["coordinator"] = "returned")

SameMapping == GaveUp' = GaveUp

Ends ==
  /\ GaveUp \/ Ahead = << >>
  /\ InFlight = << >> /\ Keeps
  /\ at["coordinator"] # "returned" /\ at'["coordinator"] = "returned"

LEMMA MultiplexedMapping ==
  ASSUME IInv, Next
  PROVE  MapperGivesUp \/ SameMapping
<1>1. CASE CoordinatorRuns
  <2>1. at'["mapper"] = at["mapper"] \/ (at["mapper"] = "unborn" /\ at'["mapper"] = "close")
    BY <1>1, RolesAssumption DEF IInv, PlaceInv, Goes, CoordinatorRuns, ForksMapper, ForksReducer,
       ClosesFarEnds, Selects, SendsLine, CoordinatorKilled, EndsInput, GetsMapped, MapperEnded,
       SendsResult, EndsMapped, GetsReduced, ReducerEnded, Passes, Returns
  <2> QED BY <2>1 DEF SameMapping, GaveUp
<1>2. CASE MapperRuns
  <2>1. at \in [Process -> Place] /\ "mapper" \in Process
    BY RolesAssumption DEF IInv, PlaceInv
  <2>2. CASE MapperCloses
    BY <2>1, <2>2 DEF Goes, MapperCloses, SameMapping, GaveUp
  <2>3. CASE Maps
    BY <2>1, <2>3 DEF Goes, Maps, SameMapping, GaveUp
  <2>4. CASE MapperFails
    BY <2>1, <2>4 DEF Goes, MapperFails, SameMapping, GaveUp
  <2>5. CASE MapperWrites
    BY <2>5 DEF MapperWrites, SameMapping, GaveUp
  <2>6. CASE MapperExits
    BY <2>1, <2>6 DEF Goes, MapperExits, SameMapping, GaveUp
  <2> QED BY <1>2, <2>2, <2>3, <2>4, <2>5, <2>6 DEF MapperRuns
<1>3. CASE ReducerRuns
  <2>1. at'["mapper"] = at["mapper"]
    BY <1>3, RolesAssumption DEF IInv, PlaceInv, Goes, ReducerRuns, ReducerCloses, Reduces,
       ReducerWrites, ReducerFinishes, ReducerKilled, ReducerExits
  <2> QED BY <2>1 DEF SameMapping, GaveUp
<1> QED BY <1>1, <1>2, <1>3 DEF Next

LEMMA MultiplexedReturned ==
  ASSUME IInv, Next
  PROVE  Returns \/ SameReturned
<1>1. CASE CoordinatorRuns
  BY <1>1, RolesAssumption DEF IInv, PlaceInv, Goes, CoordinatorRuns, ForksMapper, ForksReducer,
     ClosesFarEnds, Selects, SendsLine, CoordinatorKilled, EndsInput, GetsMapped, MapperEnded,
     SendsResult, EndsMapped, GetsReduced, ReducerEnded, Passes, SameReturned
<1>2. CASE MapperRuns
  BY <1>2, RolesAssumption DEF IInv, PlaceInv, Goes, MapperRuns, MapperCloses, Maps, MapperGivesUp,
     MapperFails, MapperWrites, MapperExits, SameReturned
<1>3. CASE ReducerRuns
  BY <1>3, RolesAssumption DEF IInv, PlaceInv, Goes, ReducerRuns, ReducerCloses, Reduces,
     ReducerWrites, ReducerFinishes, ReducerKilled, ReducerExits, SameReturned
<1> QED BY <1>1, <1>2, <1>3 DEF Next

LEMMA MultiplexedStep ==
  ASSUME IInv, EndInv, ChainInv, Next
  PROVE  /\ EndInv' /\ ChainInv'
         /\ \/ Keeps /\ SameReturned /\ SameMapping
            \/ Adds /\ SameReturned /\ SameMapping
            \/ Drops /\ SameReturned
            \/ Takes /\ SameReturned /\ SameMapping
            \/ Ends /\ SameMapping
<1>1. EndInv'
  BY EndAfterFork, EndAfterCoordinator, EndAfterTransfer, EndAfterMapper, EndAfterReducer
     DEF Next, CoordinatorRuns
<1>2. Returns \/ SameReturned
  BY MultiplexedReturned
<1>3. CASE SendsLine \/ GetsMapped \/ SendsResult \/ MapperWrites \/ Reduces \/ ReducerWrites
  <2>1. Keeps /\ ChainInv'
    BY <1>3, DataSendsLine, DataGetsMapped, DataSendsResult, DataMapperWrites, DataReduces,
       DataReducerWrites
  <2>2. ~Returns
    BY <1>3, RolesAssumption DEF IInv, PlaceInv, SendsLine, GetsMapped, SendsResult, MapperWrites,
       Reduces, ReducerWrites, Returns, Goes
  <2>3. ~MapperGivesUp
    BY <1>3, RolesAssumption DEF IInv, PlaceInv, SendsLine, GetsMapped, SendsResult, MapperWrites,
       Reduces, ReducerWrites, MapperGivesUp, Goes
  <2> QED BY <1>1, <1>2, <2>1, <2>2, <2>3, MultiplexedMapping
<1>4. CASE Maps
  <2>1. Adds /\ ChainInv'
    BY <1>4, DataMaps
  <2>2. ~Returns
    BY <1>4, RolesAssumption DEF IInv, PlaceInv, Maps, Returns, Goes
  <2>3. ~MapperGivesUp
    BY <1>4 DEF Maps, MapperGivesUp
  <2> QED BY <1>1, <1>2, <2>1, <2>2, <2>3, MultiplexedMapping
<1>5. CASE GetsReduced
  <2>1. Takes /\ ChainInv'
    BY <1>5, DataGetsReduced
  <2>2. ~Returns /\ ~MapperGivesUp
    BY <1>5, RolesAssumption DEF IInv, PlaceInv, GetsReduced, Returns, MapperGivesUp, Goes
  <2> QED BY <1>1, <1>2, <2>1, <2>2, MultiplexedMapping
<1>6. CASE MapperGivesUp
  <2>1. Drops /\ ChainInv'
    BY <1>6, DataGivesUp
  <2>2. ~Returns
    BY <1>6, RolesAssumption DEF IInv, PlaceInv, MapperGivesUp, Returns, Goes
  <2> QED BY <1>1, <1>2, <2>1, <2>2
<1>7. CASE \/ ForksMapper \/ ForksReducer \/ ClosesFarEnds \/ Selects \/ EndsInput \/ MapperEnded
           \/ EndsMapped \/ ReducerEnded \/ Passes \/ CoordinatorKilled \/ MapperCloses
           \/ MapperFails \/ MapperExits \/ ReducerCloses \/ ReducerFinishes \/ ReducerKilled
           \/ ReducerExits
  <2>1. content' = content /\ UNCHANGED << cVars, mVars, rVars >>
    BY <1>7 DEF ForksMapper, ForksReducer, ClosesFarEnds, Selects, EndsInput, MapperEnded,
       EndsMapped, ReducerEnded, Passes, CoordinatorKilled, MapperCloses, MapperFails, MapperExits,
       ReducerCloses, ReducerFinishes, ReducerKilled, ReducerExits, WriteKills,
       Fork, Close, Select, pVars
  <2>2. Keeps /\ ChainInv'
    BY <2>1, SameData
  <2>3. ~Returns
    BY <1>7, RolesAssumption DEF IInv, PlaceInv, Returns, Goes, ForksMapper, ForksReducer,
       ClosesFarEnds, Selects, EndsInput, MapperEnded, EndsMapped, ReducerEnded, Passes,
       CoordinatorKilled, MapperCloses, MapperFails, MapperExits, ReducerCloses, ReducerFinishes,
       ReducerKilled, ReducerExits
  <2>4. ~MapperGivesUp
    BY <1>7, RolesAssumption DEF IInv, PlaceInv, MapperGivesUp, Goes, ForksMapper, ForksReducer,
       ClosesFarEnds, Selects, EndsInput, MapperEnded, EndsMapped, ReducerEnded, Passes,
       CoordinatorKilled, MapperCloses, MapperFails, MapperExits, ReducerCloses, ReducerFinishes,
       ReducerKilled, ReducerExits
  <2> QED BY <1>1, <1>2, <2>2, <2>3, <2>4, MultiplexedMapping
<1>8. CASE Returns
  <2>1. content' = content /\ UNCHANGED << cVars, mVars, rVars >>
    BY <1>8 DEF Returns, pVars
  <2>2. Keeps /\ ChainInv'
    BY <2>1, SameData
  <2>3. (GaveUp \/ Ahead = << >>) /\ InFlight = << >>
    <3>1. /\ GaveUp \/ content["cm"] = << >>
          /\ unread = << >> /\ content["rc"] = << >>
          /\ content["cr"] = << >> /\ queue = << >> /\ content["mc"] = << >> /\ mapped = << >>
          /\ reduced = NoResult
      BY <1>8, NothingLeft
    <3>2. Newest(Answers) = << >>
      BY <3>1, AnswersFacts, NewestFacts DEF Answers
    <3>3. InFlight = Flight(<< >>, << >>, << >>, << >>, << >>)
      BY <3>1, <3>2, FlightIs
    <3>4. GaveUp \/ Ahead = << >>
      BY <3>1, NoFlight DEF Ahead, Flight, Join
    <3> QED BY <3>3, <3>4, NoFlight
  <2>4. at["coordinator"] # "returned" /\ at'["coordinator"] = "returned"
    BY <1>8, RolesAssumption DEF Returns, Goes, IInv, PlaceInv
  <2>5. ~MapperGivesUp
    BY <1>8, RolesAssumption DEF IInv, PlaceInv, Returns, MapperGivesUp, Goes
  <2> QED BY <1>1, <2>2, <2>3, <2>4, <2>5, MultiplexedMapping DEF Ends
<1> QED BY <1>3, <1>4, <1>5, <1>6, <1>7, <1>8 DEF Next, CoordinatorRuns, MapperRuns, ReducerRuns

-----------------------------------------------------------------------------
(* The synchronous version: at most one message is on its way, a line or    *)
(* its vector while the coordinator is at "mc", a job or its answer while   *)
(* it is at "rc", and the accumulator in it is the one of the coordinator.  *)
(* When the mapper gives up, there is none any more.                        *)
LineOnItsWay ==
  \/ /\ \E l \in Line : content["cm"] = << l >>
     /\ content["mc"] = << >> /\ at["mapper"] # "write"
  \/ /\ content["cm"] = << >> /\ content["mc"] = << >> /\ at["mapper"] = "write"
  \/ /\ content["cm"] = << >> /\ at["mapper"] # "write"
     /\ \E v \in Seq(Result) : content["mc"] = << v >>
  \/ content["cm"] = << >> /\ content["mc"] = << >> /\ GaveUp

JobOnItsWay(k, v) ==
  \/ /\ content["cr"] = << [key |-> k, value |-> v, acc |-> accs[k]] >>
     /\ content["rc"] = << >> /\ at["reducer"] # "write"
  \/ /\ content["cr"] = << >> /\ content["rc"] = << >> /\ at["reducer"] = "write"
     /\ reduced = [key |-> k, value |-> Append(accs[k], v)]
  \/ /\ content["cr"] = << >> /\ at["reducer"] # "write"
     /\ content["rc"] = << [key |-> k, value |-> Append(accs[k], v)] >>

NoLine == content["cm"] = << >> /\ content["mc"] = << >> /\ at["mapper"] # "write"

NoJob == content["cr"] = << >> /\ content["rc"] = << >> /\ at["reducer"] # "write"

SyncInv ==
  /\ DOMAIN content = Pipe /\ DOMAIN at = Process
  /\ unread \in Seq(Line) /\ queue \in Seq(Result) /\ mapped \in Seq(Result)
  /\ accs \in [Key -> Seq(Value)]
  /\ at["mapper"] # "write" => mapped = << >>
  /\ at["reducer"] # "write" => reduced = NoResult
  /\ at["coordinator"] = "mc" => LineOnItsWay
  /\ at["coordinator"] # "mc" => NoLine
  /\ at["coordinator"] = "rc" => \E k \in Key, v \in Value : JobOnItsWay(k, v)
  /\ at["coordinator"] # "rc" => NoJob
  /\ at["coordinator"] \notin {"cr", "rc"} => queue = << >>
  /\ at["coordinator"] = "forks mapper" => at["mapper"] = "unborn"

(* SyncInFlight as a function of where the data are.                        *)
SyncFlight(rc, red, cr, q, mc, m) ==
  Newest(IF red = NoResult THEN rc ELSE Append(rc, red))
    \o [i \in DOMAIN cr |-> [key |-> cr[i].key, value |-> cr[i].value]]
    \o q \o (IF mc = << >> THEN m ELSE Head(mc))

LEMMA NoneNewest ==
  /\ Newest(<< >>) = << >>
  /\ [i \in DOMAIN << >> |-> [key |-> << >>[i].key, value |-> << >>[i].value]] = << >>
<1>1. DOMAIN << >> = {} /\ << >> \in Seq({})
  BY EmptySeq, LenProperties
<1>2. \A f : DOMAIN f = {} /\ f = [i \in {} |-> f[i]] => f = << >>
  <2>1. << >> = [i \in {} |-> << >>[i]]
    BY <1>1
  <2> QED BY <2>1
<1> QED BY <1>1, <1>2 DEF Newest

LEMMA FlightIdle ==
  ASSUME NEW q \in Seq(Result)
  PROVE  SyncFlight(<< >>, NoResult, << >>, q, << >>, << >>) = q
<1>1. << >> \o << >> = << >>
  BY NoFlight DEF Flight, Join
<1>2. << >> \o q = q /\ q \o << >> = q
  BY WithEmpty
<1> QED BY <1>1, <1>2, NoneNewest DEF SyncFlight

LEMMA FlightLine ==
  ASSUME NEW m \in Seq(Result)
  PROVE  /\ SyncFlight(<< >>, NoResult, << >>, << >>, << >>, m) = m
         /\ SyncFlight(<< >>, NoResult, << >>, << >>, << m >>, << >>) = m
<1>1. << >> \o << >> = << >>
  BY NoFlight DEF Flight, Join
<1>2. << >> \o m = m
  BY WithEmpty
<1>3. << m >> # << >> /\ Head(<< m >>) = m
  OBVIOUS
<1> QED BY <1>1, <1>2, <1>3, NoneNewest DEF SyncFlight

LEMMA FlightJob ==
  ASSUME NEW k \in Key, NEW v \in Value, NEW acc \in Seq(Value), NEW q \in Seq(Result)
  PROVE  /\ SyncFlight(<< >>, NoResult, << [key |-> k, value |-> v, acc |-> acc] >>, q, << >>, << >>)
              = << [key |-> k, value |-> v] >> \o q
         /\ SyncFlight(<< >>, [key |-> k, value |-> Append(acc, v)], << >>, q, << >>, << >>)
              = << [key |-> k, value |-> v] >> \o q
         /\ SyncFlight(<< [key |-> k, value |-> Append(acc, v)] >>, NoResult, << >>, q, << >>, << >>)
              = << [key |-> k, value |-> v] >> \o q
<1>1. << >> \o << >> = << >>
  BY NoFlight DEF Flight, Join
<1>2. PICK r \in Result : r = [key |-> k, value |-> v]
  BY DEF Result
<1>3. PICK one \in Seq(Result) : one = << r >>
  <2>1. << r >> \in Seq(Result)
    OBVIOUS
  <2> QED BY <2>1
<1>4. << >> \o one = one /\ one \o << >> = one
  BY WithEmpty
<1>5. PICK p : p = one \o q
  OBVIOUS
<1>6. p \in Seq(Result)
  BY <1>3, <1>5, ConcatFacts
<1>7. p \o << >> = p
  BY <1>6, WithEmpty
<1>8. PICK m \in Folded : m = [key |-> k, value |-> Append(acc, v)]
  <2>1. [key |-> k, value |-> Append(acc, v)] \in Folded
    BY AppendFacts DEF Folded
  <2> QED BY <2>1
<1>9. m # NoResult /\ m.key = k /\ Last(m.value) = v
  BY <1>8, AppendFacts, LastAppended DEF NoResult
<1>10. Newest(<< m >>) = one
  <2>1. << >> \in Seq(Folded) /\ << m >> = Append(<< >>, m)
    OBVIOUS
  <2>2. Newest(<< m >>) = Append(Newest(<< >>), [key |-> m.key, value |-> Last(m.value)])
    BY <2>1, NewestAppend
  <2>3. Newest(<< m >>) = Append(<< >>, r)
    BY <1>2, <1>9, <2>2, NoneNewest
  <2> QED BY <1>3, <2>3
<1>11. PICK job : job = [key |-> k, value |-> v, acc |-> acc]
  OBVIOUS
<1>12. [i \in DOMAIN << job >> |-> [key |-> << job >>[i].key, value |-> << job >>[i].value]] = one
  <2>1. job.key = k /\ job.value = v /\ DOMAIN << job >> = {1} /\ << job >>[1] = job
    BY <1>11
  <2>2. [i \in DOMAIN << job >> |-> [key |-> << job >>[i].key, value |-> << job >>[i].value]]
          = [i \in {1} |-> r]
    BY <1>2, <2>1
  <2>3. << r >> = [i \in {1} |-> r]
    OBVIOUS
  <2> QED BY <1>3, <2>2, <2>3
<1>13. SyncFlight(<< >>, NoResult, << job >>, q, << >>, << >>) = one \o q
  BY <1>4, <1>5, <1>7, <1>12, NoneNewest DEF SyncFlight
<1>14. SyncFlight(<< >>, m, << >>, q, << >>, << >>) = one \o q
  <2>1. Append(<< >>, m) = << m >>
    OBVIOUS
  <2> QED BY <1>4, <1>5, <1>7, <1>9, <1>10, <2>1, NoneNewest DEF SyncFlight
<1>15. SyncFlight(<< m >>, NoResult, << >>, q, << >>, << >>) = one \o q
  BY <1>4, <1>5, <1>7, <1>10, NoneNewest DEF SyncFlight
<1> QED BY <1>2, <1>3, <1>8, <1>11, <1>13, <1>14, <1>15

(* The same for the synchronous version, whose vector is one message.       *)
SyncKeeps == Ahead' = Ahead /\ SyncInFlight' = SyncInFlight /\ accs' = accs

SyncAdds ==
  /\ Ahead # << >> /\ Ahead' = Tail(Ahead) /\ Head(Ahead) \notin Fatal \cup Endless /\ ~GaveUp
  /\ SyncInFlight' = SyncInFlight \o MapFun[Head(Ahead)] /\ accs' = accs

SyncDrops ==
  /\ Ahead # << >> /\ Head(Ahead) \in Fatal \cup Endless /\ ~GaveUp /\ GaveUp'
  /\ SyncInFlight' = SyncInFlight /\ accs' = accs

SyncTakes ==
  /\ SyncInFlight # << >> /\ SyncInFlight' = Tail(SyncInFlight) /\ Ahead' = Ahead
  /\ accs' = [accs EXCEPT ![Head(SyncInFlight).key] = Append(@, Head(SyncInFlight).value)]

SyncEnds ==
  /\ GaveUp \/ Ahead = << >>
  /\ SyncInFlight = << >> /\ SyncKeeps
  /\ at["coordinator"] # "returned" /\ at'["coordinator"] = "returned"

LEMMA SyncFlightIs ==
  SyncInFlight = SyncFlight(content["rc"], reduced, content["cr"], queue, content["mc"], mapped)
BY DEF SyncInFlight, SyncFlight, Unreduced, Vector, Answers

LEMMA SyncSameData ==
  ASSUME content' = content, UNCHANGED << cVars, mVars, rVars >>
  PROVE  SyncKeeps
BY DEF SyncKeeps, Ahead, SyncInFlight, Newest, Answers, Unreduced, Vector, cVars, mVars, rVars

LEMMA SyncCoordinatorGoes ==
  ASSUME NEW from, NEW to, SyncInv, Goes("coordinator", from, to)
  PROVE  /\ at["coordinator"] = from /\ at'["coordinator"] = to
         /\ at'["mapper"] = at["mapper"] /\ at'["reducer"] = at["reducer"]
         /\ DOMAIN at' = Process
BY RolesAssumption DEF Goes, SyncInv

LEMMA SyncIdle ==
  ASSUME SyncInv, at["coordinator"] \notin {"mc", "rc"}
  PROVE  /\ content["cm"] = << >> /\ content["mc"] = << >> /\ content["cr"] = << >>
         /\ content["rc"] = << >> /\ mapped = << >> /\ reduced = NoResult
         /\ at["mapper"] # "write" /\ at["reducer"] # "write"
         /\ SyncInFlight = queue /\ Ahead = unread
<1>1. /\ content["cm"] = << >> /\ content["mc"] = << >> /\ content["cr"] = << >>
      /\ content["rc"] = << >> /\ mapped = << >> /\ reduced = NoResult
      /\ at["mapper"] # "write" /\ at["reducer"] # "write"
  BY DEF SyncInv, NoLine, NoJob
<1>2. queue \in Seq(Result) /\ unread \in Seq(Line)
  BY DEF SyncInv
<1>3. SyncInFlight = queue
  BY <1>1, <1>2, SyncFlightIs, FlightIdle
<1>4. << >> \o unread = unread
  BY <1>2, WithEmpty
<1> QED BY <1>1, <1>3, <1>4 DEF Ahead

(* The steps that leave the data alone.                                     *)
LEMMA SyncStepForks ==
  ASSUME SyncInv, SyncForksMapper \/ SyncForksReducer
  PROVE  SyncInv' /\ SyncKeeps /\ SameReturned
<1>1. content' = content /\ UNCHANGED << cVars, mVars, rVars >>
  BY DEF SyncForksMapper, SyncForksReducer, Fork
<1>2. /\ at["coordinator"] \in {"forks mapper", "forks reducer"}
      /\ at'["coordinator"] \in {"forks reducer", "next line"}
      /\ at'["mapper"] = at["mapper"] \/ at'["mapper"] = "read"
      /\ at'["reducer"] = at["reducer"] \/ at'["reducer"] = "read"
      /\ DOMAIN at' = Process
  BY RolesAssumption DEF SyncForksMapper, SyncForksReducer, SyncInv
<1>3. at'["mapper"] # "write" /\ at'["reducer"] # "write"
  BY <1>2, SyncIdle
<1>4. SyncInv'
  BY <1>1, <1>2, <1>3 DEF SyncInv, NoLine, NoJob, cVars, mVars, rVars
<1> QED BY <1>1, <1>2, <1>4, SyncSameData DEF SameReturned

LEMMA SyncStepLineDone ==
  ASSUME SyncInv, SyncLineDone
  PROVE  SyncInv' /\ SyncKeeps /\ SameReturned
<1>1. content' = content /\ UNCHANGED << cVars, mVars, rVars >> /\ queue = << >>
  BY DEF SyncLineDone, pVars
<1>2. /\ at["coordinator"] = "cr" /\ at'["coordinator"] = "next line"
      /\ at'["mapper"] = at["mapper"] /\ at'["reducer"] = at["reducer"] /\ DOMAIN at' = Process
  BY SyncCoordinatorGoes DEF SyncLineDone
<1>3. SyncInv'
  BY <1>1, <1>2 DEF SyncInv, NoLine, NoJob, cVars, mVars, rVars
<1> QED BY <1>1, <1>2, <1>3, SyncSameData DEF SameReturned

LEMMA SyncStepReturns ==
  ASSUME SyncInv, SyncReturns
  PROVE  SyncInv' /\ SyncEnds
<1>1. content' = content /\ UNCHANGED << cVars, mVars, rVars >> /\ unread = << >>
  BY DEF SyncReturns, Close
<1>2. /\ at["coordinator"] = "next line" /\ at'["coordinator"] = "returned"
      /\ at'["mapper"] = at["mapper"] /\ at'["reducer"] = at["reducer"] /\ DOMAIN at' = Process
  BY SyncCoordinatorGoes DEF SyncReturns
<1>3. SyncInv'
  BY <1>1, <1>2 DEF SyncInv, NoLine, NoJob, cVars, mVars, rVars
<1>4. queue = << >>
  BY <1>2 DEF SyncInv
<1> QED BY <1>1, <1>2, <1>3, <1>4, SyncSameData, SyncIdle DEF SyncEnds

LEMMA SyncStepExits ==
  ASSUME SyncInv, MapperExits \/ MapperFails \/ ReducerExits
  PROVE  SyncInv' /\ SyncKeeps /\ SameReturned
<1>1. content' = content /\ UNCHANGED << cVars, mVars, rVars >>
  BY DEF MapperExits, MapperFails, ReducerExits, Close
<1>2. /\ at'["coordinator"] = at["coordinator"] /\ DOMAIN at' = Process
      /\ \A c \in {"mapper", "reducer"} :
           at'[c] = at[c] \/ (at[c] # "write" /\ at'[c] # "write")
      /\ at["mapper"] = "unborn" => at'["mapper"] = "unborn"
      /\ GaveUp' = GaveUp
  <2>1. DOMAIN at = Process /\ "mapper" \in Process /\ "reducer" \in Process
    BY RolesAssumption DEF SyncInv
  <2>2. CASE MapperExits
    BY <2>1, <2>2 DEF MapperExits, Goes, GaveUp
  <2>3. CASE MapperFails
    BY <2>1, <2>3 DEF MapperFails, Goes, GaveUp
  <2>4. CASE ReducerExits
    BY <2>1, <2>4 DEF ReducerExits, Goes, GaveUp
  <2> QED BY <2>2, <2>3, <2>4
<1>3. at["coordinator"] = "rc" => \E k \in Key, v \in Value : JobOnItsWay(k, v)'
  BY <1>1, <1>2 DEF SyncInv, JobOnItsWay, cVars, mVars, rVars
<1>4. at["coordinator"] = "mc" => LineOnItsWay'
  BY <1>1, <1>2 DEF SyncInv, LineOnItsWay
<1>5. SyncInv'
  BY <1>1, <1>2, <1>3, <1>4 DEF SyncInv, NoLine, NoJob, cVars, mVars, rVars
<1> QED BY <1>1, <1>2, <1>5, SyncSameData DEF SameReturned

(* A line and its vector.                                                   *)
LEMMA SyncStepSendsLine ==
  ASSUME SyncInv, SyncSendsLine
  PROVE  SyncInv' /\ SyncKeeps /\ SameReturned
<1>1. /\ Write("coordinator", "cm", Head(unread)) /\ unread # << >> /\ unread' = Tail(unread)
      /\ UNCHANGED << queue, accs, mapped, folded, reduced >>
  BY DEF SyncSendsLine, mVars, rVars
<1>2. /\ at["coordinator"] = "next line" /\ at'["coordinator"] = "mc"
      /\ at'["mapper"] = at["mapper"] /\ at'["reducer"] = at["reducer"] /\ DOMAIN at' = Process
  BY SyncCoordinatorGoes DEF SyncSendsLine
<1>3. /\ content["cm"] = << >> /\ content["mc"] = << >> /\ content["cr"] = << >>
      /\ content["rc"] = << >> /\ mapped = << >> /\ reduced = NoResult
      /\ at["mapper"] # "write" /\ at["reducer"] # "write"
      /\ SyncInFlight = queue /\ Ahead = unread /\ queue = << >>
  BY <1>2, SyncIdle DEF SyncInv
<1>4. unread \in Seq(Line) /\ Head(unread) \in Line /\ Tail(unread) \in Seq(Line)
  <2>1. unread \in Seq(Line)
    BY DEF SyncInv
  <2> QED BY <1>1, <2>1, TailFacts
<1>5. /\ content'["cm"] = << Head(unread) >> /\ content'["mc"] = << >> /\ content'["cr"] = << >>
      /\ content'["rc"] = << >> /\ DOMAIN content' = Pipe
  <2>1. /\ content'["cm"] = Append(<< >>, Head(unread))
        /\ content'["mc"] = << >> /\ content'["cr"] = << >>
        /\ content'["rc"] = << >> /\ DOMAIN content' = Pipe
    BY <1>1, <1>3, RolesAssumption DEF Write, SyncInv
  <2> QED BY <2>1
<1>6. SyncInv'
  BY <1>1, <1>2, <1>3, <1>4, <1>5 DEF SyncInv, LineOnItsWay, NoJob
<1>7. Ahead' = Ahead
  <2>1. << Head(unread) >> \o Tail(unread) = unread
    BY <1>1, <1>4, OneConcat
  <2> QED BY <1>1, <1>3, <1>5, <2>1 DEF Ahead
<1>8. SyncInFlight' = SyncFlight(content'["rc"], reduced', content'["cr"], queue', content'["mc"], mapped')
  BY DEF SyncInFlight, SyncFlight, Unreduced, Vector, Answers
<1>9. SyncInFlight' = SyncInFlight
  BY <1>1, <1>3, <1>5, <1>8, SyncFlightIs
<1> QED BY <1>1, <1>2, <1>6, <1>7, <1>9 DEF SyncKeeps, SameReturned

LEMMA SyncStepMaps ==
  ASSUME SyncInv, Maps
  PROVE  SyncInv' /\ SyncAdds /\ SameReturned
<1>1. /\ Read("mapper", "cm") /\ mapped' = MapFun[Head(content["cm"])]
      /\ UNCHANGED << unread, queue, accs, folded, reduced >>
      /\ at["mapper"] = "read" /\ at'["mapper"] = "write"
      /\ at'["coordinator"] = at["coordinator"] /\ at'["reducer"] = at["reducer"]
      /\ DOMAIN at' = Process
  BY RolesAssumption DEF Maps, cVars, rVars, Goes, SyncInv
<1>2. /\ content["cm"] # << >> /\ content'["cm"] = Tail(content["cm"])
      /\ \A y \in Pipe : y # "cm" => content'[y] = content[y]
      /\ DOMAIN content' = Pipe
  BY <1>1, RolesAssumption DEF Read, SyncInv
<1>3. at["coordinator"] = "mc"
  BY <1>2 DEF SyncInv, NoLine
<1>4. PICK l \in Line : content["cm"] = << l >>
  BY <1>2, <1>3 DEF SyncInv, LineOnItsWay
<1>5. content["mc"] = << >> /\ mapped = << >>
  BY <1>1, <1>2, <1>3 DEF SyncInv, LineOnItsWay
<1>6. /\ content["cr"] = << >> /\ content["rc"] = << >> /\ at["reducer"] # "write"
      /\ queue = << >> /\ reduced = NoResult /\ unread \in Seq(Line)
  BY <1>3 DEF SyncInv, NoJob
<1>7. /\ content'["cm"] = << >> /\ content'["mc"] = << >> /\ content'["cr"] = << >>
      /\ content'["rc"] = << >>
  BY <1>2, <1>4, <1>5, <1>6, RolesAssumption
<1>8. mapped' = MapFun[l] /\ MapFun[l] \in Seq(Result)
  <2>1. l \notin Fatal \cup Endless
    BY <1>4 DEF Maps
  <2> QED BY <1>1, <1>4, <2>1, InputAssumption
<1>9. SyncInv'
  BY <1>1, <1>2, <1>3, <1>6, <1>7, <1>8 DEF SyncInv, LineOnItsWay, NoJob
<1>10. Ahead # << >> /\ Head(Ahead) = l /\ Tail(Ahead) = unread
  <2>1. PICK one : one = << l >>
    OBVIOUS
  <2>2. one \in Seq(Line) /\ one # << >> /\ Head(one) = l /\ Tail(one) = << >>
    BY <1>4, <2>1
  <2>3. /\ Join(one, unread) # << >> /\ Head(Join(one, unread)) = l
        /\ Tail(Join(one, unread)) = Join(<< >>, unread)
    <3>1. /\ Join(one, unread) # << >> /\ Head(Join(one, unread)) = Head(one)
          /\ Tail(Join(one, unread)) = Join(Tail(one), unread)
      BY <1>6, <2>2, JoinPasses
    <3> QED BY <2>2, <3>1
  <2>4. << >> \o unread = unread
    BY <1>6, WithEmpty
  <2> QED BY <1>4, <2>1, <2>3, <2>4 DEF Ahead, Join
<1>11. Ahead' = unread
  <2>1. << >> \o unread = unread
    BY <1>6, WithEmpty
  <2> QED BY <1>1, <1>7, <2>1 DEF Ahead
<1>12. SyncInFlight' = SyncFlight(content'["rc"], reduced', content'["cr"], queue', content'["mc"], mapped')
  BY DEF SyncInFlight, SyncFlight, Unreduced, Vector, Answers
<1>13. SyncInFlight' = MapFun[l]
  BY <1>1, <1>6, <1>7, <1>8, <1>12, FlightLine
<1>14. SyncInFlight = << >>
  <2>1. << >> \in Seq(Result)
    BY EmptySeq
  <2> QED BY <1>5, <1>6, <2>1, SyncFlightIs, FlightIdle
<1>15. SyncInFlight' = SyncInFlight \o MapFun[Head(Ahead)]
  <2>1. << >> \o MapFun[l] = MapFun[l]
    BY <1>8, WithEmpty
  <2> QED BY <1>10, <1>13, <1>14, <2>1
<1>16. l \notin Fatal \cup Endless /\ ~GaveUp
  BY <1>1, <1>4 DEF Maps, GaveUp
<1> QED BY <1>1, <1>9, <1>10, <1>11, <1>15, <1>16 DEF SyncAdds, SameReturned

LEMMA SyncStepGivesUp ==
  ASSUME SyncInv, MapperGivesUp
  PROVE  SyncInv' /\ SyncDrops /\ SameReturned
<1>1. /\ Read("mapper", "cm") /\ Head(content["cm"]) \in Fatal \cup Endless
      /\ UNCHANGED << unread, queue, accs, mapped, folded, reduced >>
      /\ at["mapper"] = "read" /\ at'["mapper"] \in {"fails", "loops"}
      /\ at'["coordinator"] = at["coordinator"] /\ at'["reducer"] = at["reducer"]
      /\ DOMAIN at' = Process
  BY RolesAssumption DEF MapperGivesUp, cVars, mVars, rVars, Goes, SyncInv
<1>2. /\ content["cm"] # << >> /\ content'["cm"] = Tail(content["cm"])
      /\ \A y \in Pipe : y # "cm" => content'[y] = content[y]
      /\ DOMAIN content' = Pipe
  BY <1>1, RolesAssumption DEF Read, SyncInv
<1>3. at["coordinator"] = "mc"
  BY <1>2 DEF SyncInv, NoLine
<1>4. PICK l \in Line : content["cm"] = << l >>
  BY <1>2, <1>3 DEF SyncInv, LineOnItsWay
<1>5. content["mc"] = << >> /\ mapped = << >>
  BY <1>1, <1>2, <1>3 DEF SyncInv, LineOnItsWay
<1>6. /\ content["cr"] = << >> /\ content["rc"] = << >> /\ at["reducer"] # "write"
      /\ queue = << >> /\ reduced = NoResult /\ unread \in Seq(Line)
  BY <1>3 DEF SyncInv, NoJob
<1>7. /\ content'["cm"] = << >> /\ content'["mc"] = << >> /\ content'["cr"] = << >>
      /\ content'["rc"] = << >>
  BY <1>2, <1>4, <1>5, <1>6, RolesAssumption
<1>8. ~GaveUp /\ GaveUp'
  BY <1>1 DEF GaveUp
<1>9. SyncInv'
  BY <1>1, <1>2, <1>3, <1>6, <1>7, <1>8 DEF SyncInv, LineOnItsWay, NoJob
<1>10. Ahead # << >> /\ Head(Ahead) = Head(content["cm"])
  <2>1. content["cm"] \in Seq(Line)
    BY <1>4
  <2>2. /\ Join(content["cm"], unread) # << >>
        /\ Head(Join(content["cm"], unread)) = Head(content["cm"])
    BY <1>2, <1>6, <2>1, JoinPasses
  <2> QED BY <2>2 DEF Ahead, Join
<1>11. SyncInFlight' = SyncFlight(content'["rc"], reduced', content'["cr"], queue', content'["mc"], mapped')
  BY DEF SyncInFlight, SyncFlight, Unreduced, Vector, Answers
<1>12. SyncInFlight' = SyncInFlight
  BY <1>1, <1>5, <1>6, <1>7, <1>11, SyncFlightIs
<1> QED BY <1>1, <1>8, <1>9, <1>10, <1>12 DEF SyncDrops, SameReturned

LEMMA SyncStepMapperWrites ==
  ASSUME SyncInv, SyncMapperWrites
  PROVE  SyncInv' /\ SyncKeeps /\ SameReturned
<1>1. /\ Write("mapper", "mc", mapped) /\ mapped' = << >>
      /\ UNCHANGED << unread, queue, accs, folded, reduced >>
      /\ at["mapper"] = "write" /\ at'["mapper"] = "read"
      /\ at'["coordinator"] = at["coordinator"] /\ at'["reducer"] = at["reducer"]
      /\ DOMAIN at' = Process
  BY RolesAssumption DEF SyncMapperWrites, cVars, rVars, Goes, SyncInv
<1>2. at["coordinator"] = "mc"
  BY <1>1 DEF SyncInv, NoLine
<1>3. /\ content["cm"] = << >> /\ content["mc"] = << >> /\ mapped \in Seq(Result)
      /\ content["cr"] = << >> /\ content["rc"] = << >> /\ at["reducer"] # "write"
      /\ queue = << >> /\ reduced = NoResult
  BY <1>1, <1>2 DEF SyncInv, LineOnItsWay, NoJob
<1>4. /\ content'["cm"] = << >> /\ content'["mc"] = << mapped >> /\ content'["cr"] = << >>
      /\ content'["rc"] = << >> /\ DOMAIN content' = Pipe
  <2>1. /\ content'["mc"] = Append(<< >>, mapped)
        /\ content'["cm"] = << >> /\ content'["cr"] = << >>
        /\ content'["rc"] = << >> /\ DOMAIN content' = Pipe
    BY <1>1, <1>3, RolesAssumption DEF Write, SyncInv
  <2> QED BY <2>1
<1>5. SyncInv'
  <2>1. LineOnItsWay'
    BY <1>1, <1>3, <1>4 DEF LineOnItsWay
  <2>2. << >> \in Seq(Result)
    BY EmptySeq
  <2> QED BY <1>1, <1>2, <1>3, <1>4, <2>1, <2>2 DEF SyncInv, NoJob
<1>6. SyncInFlight' = SyncFlight(content'["rc"], reduced', content'["cr"], queue', content'["mc"], mapped')
  BY DEF SyncInFlight, SyncFlight, Unreduced, Vector, Answers
<1>7. SyncInFlight' = mapped
  BY <1>1, <1>3, <1>4, <1>6, FlightLine
<1>8. SyncInFlight = mapped
  BY <1>3, SyncFlightIs, FlightLine
<1>9. Ahead' = Ahead
  BY <1>1, <1>3, <1>4 DEF Ahead
<1> QED BY <1>1, <1>5, <1>7, <1>8, <1>9 DEF SyncKeeps, SameReturned

LEMMA SyncStepGetsMapped ==
  ASSUME SyncInv, SyncGetsMapped
  PROVE  SyncInv' /\ SyncKeeps /\ SameReturned
<1>1. /\ Read("coordinator", "mc") /\ queue' = Head(content["mc"])
      /\ UNCHANGED << unread, accs, mapped, folded, reduced >>
  BY DEF SyncGetsMapped, mVars, rVars
<1>2. /\ at["coordinator"] = "mc" /\ at'["coordinator"] = "cr"
      /\ at'["mapper"] = at["mapper"] /\ at'["reducer"] = at["reducer"] /\ DOMAIN at' = Process
  BY SyncCoordinatorGoes DEF SyncGetsMapped
<1>3. /\ content["mc"] # << >> /\ content'["mc"] = Tail(content["mc"])
      /\ \A y \in Pipe : y # "mc" => content'[y] = content[y]
      /\ DOMAIN content' = Pipe
  BY <1>1, RolesAssumption DEF Read, SyncInv
<1>4. PICK w \in Seq(Result) : content["mc"] = << w >>
  BY <1>2, <1>3 DEF SyncInv, LineOnItsWay
<1>5. /\ content["cm"] = << >> /\ at["mapper"] # "write" /\ mapped = << >>
      /\ content["cr"] = << >> /\ content["rc"] = << >> /\ at["reducer"] # "write"
      /\ queue = << >> /\ reduced = NoResult
  BY <1>2, <1>3 DEF SyncInv, LineOnItsWay, NoJob
<1>6. /\ content'["cm"] = << >> /\ content'["mc"] = << >> /\ content'["cr"] = << >>
      /\ content'["rc"] = << >> /\ queue' = w
  BY <1>1, <1>3, <1>4, <1>5, RolesAssumption
<1>7. SyncInv'
  BY <1>1, <1>2, <1>3, <1>4, <1>5, <1>6 DEF SyncInv, NoLine, NoJob
<1>8. SyncInFlight' = SyncFlight(content'["rc"], reduced', content'["cr"], queue', content'["mc"], mapped')
  BY DEF SyncInFlight, SyncFlight, Unreduced, Vector, Answers
<1>9. SyncInFlight' = w
  BY <1>1, <1>4, <1>5, <1>6, <1>8, FlightIdle
<1>10. SyncInFlight = w
  BY <1>4, <1>5, SyncFlightIs, FlightLine
<1>11. Ahead' = Ahead
  BY <1>1, <1>5, <1>6 DEF Ahead
<1> QED BY <1>1, <1>2, <1>7, <1>9, <1>10, <1>11 DEF SyncKeeps, SameReturned

(* A job and its answer.                                                    *)
LEMMA SyncStepSendsResult ==
  ASSUME SyncInv, SyncSendsResult
  PROVE  SyncInv' /\ SyncKeeps /\ SameReturned
<1>1. /\ queue # << >> /\ queue' = Tail(queue)
      /\ Write("coordinator", "cr", [key |-> Head(queue).key, value |-> Head(queue).value,
                                     acc |-> accs[Head(queue).key]])
      /\ UNCHANGED << unread, accs, mapped, folded, reduced >>
  BY DEF SyncSendsResult, mVars, rVars
<1>2. /\ at["coordinator"] = "cr" /\ at'["coordinator"] = "rc"
      /\ at'["mapper"] = at["mapper"] /\ at'["reducer"] = at["reducer"] /\ DOMAIN at' = Process
  BY SyncCoordinatorGoes DEF SyncSendsResult
<1>3. /\ content["cm"] = << >> /\ content["mc"] = << >> /\ content["cr"] = << >>
      /\ content["rc"] = << >> /\ mapped = << >> /\ reduced = NoResult
      /\ at["mapper"] # "write" /\ at["reducer"] # "write"
      /\ SyncInFlight = queue /\ Ahead = unread
  BY <1>2, SyncIdle
<1>4. /\ queue \in Seq(Result) /\ Head(queue) \in Result /\ Tail(queue) \in Seq(Result)
      /\ accs \in [Key -> Seq(Value)]
  <2>1. queue \in Seq(Result) /\ accs \in [Key -> Seq(Value)]
    BY DEF SyncInv
  <2> QED BY <1>1, <2>1, TailFacts
<1>5. PICK k \in Key, v \in Value : Head(queue) = [key |-> k, value |-> v]
  BY <1>4 DEF Result
<1>6. accs[k] \in Seq(Value)
  BY <1>4
<1>7. /\ content'["cr"] = << [key |-> k, value |-> v, acc |-> accs[k]] >>
      /\ content'["cm"] = << >> /\ content'["mc"] = << >>
      /\ content'["rc"] = << >> /\ DOMAIN content' = Pipe
  <2>1. /\ content'["cr"] = Append(<< >>, [key |-> Head(queue).key, value |-> Head(queue).value,
                                          acc |-> accs[Head(queue).key]])
        /\ content'["cm"] = << >> /\ content'["mc"] = << >>
        /\ content'["rc"] = << >> /\ DOMAIN content' = Pipe
    BY <1>1, <1>3, RolesAssumption DEF Write, SyncInv
  <2>2. Head(queue).key = k /\ Head(queue).value = v
    BY <1>5
  <2> QED BY <2>1, <2>2
<1>8. SyncInv'
  <2>1. JobOnItsWay(k, v)'
    BY <1>1, <1>2, <1>3, <1>7 DEF JobOnItsWay
  <2>2. \E c \in Key, d \in Value : JobOnItsWay(c, d)'
    BY <1>5, <2>1
  <2> QED BY <1>1, <1>2, <1>3, <1>4, <1>7, <2>2 DEF SyncInv, NoLine
<1>9. SyncInFlight' = SyncFlight(content'["rc"], reduced', content'["cr"], queue', content'["mc"], mapped')
  BY DEF SyncInFlight, SyncFlight, Unreduced, Vector, Answers
<1>10. SyncInFlight' = << [key |-> k, value |-> v] >> \o Tail(queue)
  BY <1>1, <1>3, <1>4, <1>5, <1>6, <1>7, <1>9, FlightJob
<1>11. << Head(queue) >> \o Tail(queue) = queue
  BY <1>1, <1>4, OneConcat
<1>12. Ahead' = Ahead
  BY <1>1, <1>3, <1>7 DEF Ahead
<1> QED BY <1>1, <1>2, <1>3, <1>5, <1>8, <1>10, <1>11, <1>12 DEF SyncKeeps, SameReturned

LEMMA SyncStepReduces ==
  ASSUME SyncInv, SyncReduces
  PROVE  SyncInv' /\ SyncKeeps /\ SameReturned
<1>1. /\ Read("reducer", "cr")
      /\ reduced' = [key |-> Head(content["cr"]).key,
                     value |-> Append(Head(content["cr"]).acc, Head(content["cr"]).value)]
      /\ UNCHANGED << unread, queue, accs, mapped, folded >>
      /\ at["reducer"] = "read" /\ at'["reducer"] = "write"
      /\ at'["coordinator"] = at["coordinator"] /\ at'["mapper"] = at["mapper"]
      /\ DOMAIN at' = Process
  BY RolesAssumption DEF SyncReduces, cVars, mVars, Goes, SyncInv
<1>2. /\ content["cr"] # << >> /\ content'["cr"] = Tail(content["cr"])
      /\ \A y \in Pipe : y # "cr" => content'[y] = content[y]
      /\ DOMAIN content' = Pipe
  BY <1>1, RolesAssumption DEF Read, SyncInv
<1>3. at["coordinator"] = "rc"
  BY <1>2 DEF SyncInv, NoJob
<1>4. PICK k \in Key, v \in Value : JobOnItsWay(k, v)
  BY <1>3 DEF SyncInv
<1>5. /\ content["cr"] = << [key |-> k, value |-> v, acc |-> accs[k]] >>
      /\ content["rc"] = << >>
  BY <1>2, <1>4 DEF JobOnItsWay
<1>6. /\ content["cm"] = << >> /\ content["mc"] = << >> /\ at["mapper"] # "write"
      /\ mapped = << >> /\ reduced = NoResult /\ queue \in Seq(Result) /\ accs[k] \in Seq(Value)
  BY <1>1, <1>3, <1>4 DEF SyncInv, NoLine
<1>7. reduced' = [key |-> k, value |-> Append(accs[k], v)]
  <2>1. PICK job : job = [key |-> k, value |-> v, acc |-> accs[k]]
    OBVIOUS
  <2>2. job.key = k /\ job.value = v /\ job.acc = accs[k]
    BY <2>1
  <2>3. Head(content["cr"]) = job
    BY <1>5, <2>1
  <2> QED BY <1>1, <2>2, <2>3
<1>8. /\ content'["cm"] = << >> /\ content'["mc"] = << >> /\ content'["cr"] = << >>
      /\ content'["rc"] = << >>
  BY <1>2, <1>5, <1>6, RolesAssumption
<1>9. SyncInv'
  <2>1. JobOnItsWay(k, v)'
    BY <1>1, <1>7, <1>8 DEF JobOnItsWay
  <2>2. \E c \in Key, d \in Value : JobOnItsWay(c, d)'
    BY <1>4, <2>1
  <2> QED BY <1>1, <1>2, <1>3, <1>6, <1>8, <2>2 DEF SyncInv, NoLine
<1>10. SyncInFlight' = SyncFlight(content'["rc"], reduced', content'["cr"], queue', content'["mc"], mapped')
  BY DEF SyncInFlight, SyncFlight, Unreduced, Vector, Answers
<1>11. SyncInFlight' = << [key |-> k, value |-> v] >> \o queue
  BY <1>1, <1>4, <1>6, <1>7, <1>8, <1>10, FlightJob
<1>12. SyncInFlight = << [key |-> k, value |-> v] >> \o queue
  BY <1>4, <1>5, <1>6, SyncFlightIs, FlightJob
<1>13. Ahead' = Ahead
  BY <1>1, <1>6, <1>8 DEF Ahead
<1> QED BY <1>1, <1>9, <1>11, <1>12, <1>13 DEF SyncKeeps, SameReturned

LEMMA SyncStepReducerWrites ==
  ASSUME SyncInv, SyncReducerWrites
  PROVE  SyncInv' /\ SyncKeeps /\ SameReturned
<1>1. /\ Write("reducer", "rc", reduced) /\ reduced' = NoResult
      /\ UNCHANGED << unread, queue, accs, mapped, folded >>
      /\ at["reducer"] = "write" /\ at'["reducer"] = "read"
      /\ at'["coordinator"] = at["coordinator"] /\ at'["mapper"] = at["mapper"]
      /\ DOMAIN at' = Process
  BY RolesAssumption DEF SyncReducerWrites, cVars, mVars, Goes, SyncInv
<1>2. at["coordinator"] = "rc"
  BY <1>1 DEF SyncInv, NoJob
<1>3. PICK k \in Key, v \in Value : JobOnItsWay(k, v)
  BY <1>2 DEF SyncInv
<1>4. /\ content["cr"] = << >> /\ content["rc"] = << >>
      /\ reduced = [key |-> k, value |-> Append(accs[k], v)]
  BY <1>1, <1>3 DEF JobOnItsWay
<1>5. /\ content["cm"] = << >> /\ content["mc"] = << >> /\ at["mapper"] # "write"
      /\ mapped = << >> /\ queue \in Seq(Result) /\ accs[k] \in Seq(Value)
  BY <1>2, <1>3 DEF SyncInv, NoLine
<1>6. /\ content'["cm"] = << >> /\ content'["mc"] = << >> /\ content'["cr"] = << >>
      /\ content'["rc"] = << [key |-> k, value |-> Append(accs[k], v)] >> /\ DOMAIN content' = Pipe
  <2>1. /\ content'["rc"] = Append(<< >>, reduced)
        /\ content'["cm"] = << >> /\ content'["mc"] = << >> /\ content'["cr"] = << >>
        /\ DOMAIN content' = Pipe
    BY <1>1, <1>4, <1>5, RolesAssumption DEF Write, SyncInv
  <2> QED BY <1>4, <2>1
<1>7. SyncInv'
  <2>1. JobOnItsWay(k, v)'
    BY <1>1, <1>6 DEF JobOnItsWay
  <2>2. \E c \in Key, d \in Value : JobOnItsWay(c, d)'
    BY <1>3, <2>1
  <2> QED BY <1>1, <1>2, <1>5, <1>6, <2>2 DEF SyncInv, NoLine
<1>8. SyncInFlight' = SyncFlight(content'["rc"], reduced', content'["cr"], queue', content'["mc"], mapped')
  BY DEF SyncInFlight, SyncFlight, Unreduced, Vector, Answers
<1>9. SyncInFlight' = << [key |-> k, value |-> v] >> \o queue
  BY <1>1, <1>3, <1>5, <1>6, <1>8, FlightJob
<1>10. SyncInFlight = << [key |-> k, value |-> v] >> \o queue
  BY <1>3, <1>4, <1>5, SyncFlightIs, FlightJob
<1>11. Ahead' = Ahead
  BY <1>1, <1>5, <1>6 DEF Ahead
<1> QED BY <1>1, <1>7, <1>9, <1>10, <1>11 DEF SyncKeeps, SameReturned

LEMMA SyncStepGetsReduced ==
  ASSUME SyncInv, SyncGetsReduced
  PROVE  SyncInv' /\ SyncTakes /\ SameReturned
<1>1. /\ Read("coordinator", "rc")
      /\ accs' = [accs EXCEPT ![Head(content["rc"]).key] = Head(content["rc"]).value]
      /\ UNCHANGED << unread, queue, mapped, folded, reduced >>
  BY DEF SyncGetsReduced, mVars, rVars
<1>2. /\ at["coordinator"] = "rc" /\ at'["coordinator"] = "cr"
      /\ at'["mapper"] = at["mapper"] /\ at'["reducer"] = at["reducer"] /\ DOMAIN at' = Process
  BY SyncCoordinatorGoes DEF SyncGetsReduced
<1>3. /\ content["rc"] # << >> /\ content'["rc"] = Tail(content["rc"])
      /\ \A y \in Pipe : y # "rc" => content'[y] = content[y]
      /\ DOMAIN content' = Pipe
  BY <1>1, RolesAssumption DEF Read, SyncInv
<1>4. PICK k \in Key, v \in Value : JobOnItsWay(k, v)
  BY <1>2 DEF SyncInv
<1>5. /\ content["cr"] = << >> /\ at["reducer"] # "write"
      /\ content["rc"] = << [key |-> k, value |-> Append(accs[k], v)] >>
  BY <1>3, <1>4 DEF JobOnItsWay
<1>6. /\ content["cm"] = << >> /\ content["mc"] = << >> /\ at["mapper"] # "write"
      /\ mapped = << >> /\ reduced = NoResult /\ queue \in Seq(Result)
      /\ accs \in [Key -> Seq(Value)] /\ accs[k] \in Seq(Value)
  BY <1>2, <1>4, <1>5 DEF SyncInv, NoLine
<1>7. accs' = [accs EXCEPT ![k] = Append(accs[k], v)]
  <2>1. PICK m : m = [key |-> k, value |-> Append(accs[k], v)]
    OBVIOUS
  <2>2. m.key = k /\ m.value = Append(accs[k], v)
    BY <2>1
  <2>3. Head(content["rc"]) = m
    BY <1>5, <2>1
  <2> QED BY <1>1, <2>2, <2>3
<1>8. /\ content'["cm"] = << >> /\ content'["mc"] = << >> /\ content'["cr"] = << >>
      /\ content'["rc"] = << >>
  BY <1>3, <1>5, <1>6, RolesAssumption
<1>9. accs' \in [Key -> Seq(Value)]
  <2>1. Append(accs[k], v) \in Seq(Value)
    BY <1>4, <1>6, AppendFacts
  <2> QED BY <1>6, <1>7, <2>1
<1>10. SyncInv'
  BY <1>1, <1>2, <1>3, <1>5, <1>6, <1>8, <1>9 DEF SyncInv, NoLine, NoJob
<1>11. SyncInFlight' = SyncFlight(content'["rc"], reduced', content'["cr"], queue', content'["mc"], mapped')
  BY DEF SyncInFlight, SyncFlight, Unreduced, Vector, Answers
<1>12. SyncInFlight' = queue
  BY <1>1, <1>6, <1>8, <1>11, FlightIdle
<1>13. PICK r \in Result : r = [key |-> k, value |-> v]
  BY <1>4 DEF Result
<1>14. SyncInFlight = << r >> \o queue
  BY <1>4, <1>5, <1>6, <1>13, SyncFlightIs, FlightJob
<1>15. SyncInFlight # << >> /\ Head(SyncInFlight) = r /\ Tail(SyncInFlight) = queue
  <2>1. PICK one : one = << r >>
    OBVIOUS
  <2>2. one \in Seq(Result) /\ one # << >> /\ Head(one) = r /\ Tail(one) = << >>
    BY <1>13, <2>1
  <2>3. /\ Join(one, queue) # << >> /\ Head(Join(one, queue)) = r
        /\ Tail(Join(one, queue)) = Join(<< >>, queue)
    <3>1. /\ Join(one, queue) # << >> /\ Head(Join(one, queue)) = Head(one)
          /\ Tail(Join(one, queue)) = Join(Tail(one), queue)
      BY <1>6, <2>2, JoinPasses
    <3> QED BY <2>2, <3>1
  <2>4. << >> \o queue = queue
    BY <1>6, WithEmpty
  <2> QED BY <1>14, <2>1, <2>3, <2>4 DEF Join
<1>16. r.key = k /\ r.value = v
  BY <1>13
<1>17. accs' = [accs EXCEPT ![Head(SyncInFlight).key] = Append(@, Head(SyncInFlight).value)]
  BY <1>7, <1>15, <1>16
<1>18. Ahead' = Ahead
  BY <1>1, <1>6, <1>8 DEF Ahead
<1> QED BY <1>2, <1>10, <1>12, <1>15, <1>17, <1>18 DEF SyncTakes, SameReturned

LEMMA SynchronousMapping ==
  ASSUME SyncInv, SyncCoordinatorRuns \/ SyncMapperRuns \/ SyncReducerRuns
  PROVE  MapperGivesUp \/ SameMapping
<1>1. CASE SyncCoordinatorRuns
  <2>1. at'["mapper"] = at["mapper"] \/ (at["coordinator"] = "forks mapper" /\ at'["mapper"] = "read")
    BY <1>1, RolesAssumption DEF SyncInv, Goes, SyncCoordinatorRuns, SyncForksMapper,
       SyncForksReducer, SyncSendsLine, SyncGetsMapped, SyncSendsResult, SyncGetsReduced,
       SyncLineDone, SyncReturns
  <2>2. at["coordinator"] = "forks mapper" => ~GaveUp
    BY DEF SyncInv, GaveUp
  <2>3. CASE at'["mapper"] = at["mapper"]
    BY <2>3 DEF SameMapping, GaveUp
  <2>4. CASE at["coordinator"] = "forks mapper" /\ at'["mapper"] = "read"
    <3>1. ~GaveUp /\ ~GaveUp'
      BY <2>2, <2>4 DEF GaveUp
    <3> QED BY <3>1 DEF SameMapping, GaveUp
  <2> QED BY <2>1, <2>3, <2>4
<1>2. CASE SyncMapperRuns
  <2>1. DOMAIN at = Process /\ "mapper" \in Process
    BY RolesAssumption DEF SyncInv
  <2>3. CASE Maps
    BY <2>1, <2>3 DEF Goes, Maps, SameMapping, GaveUp
  <2>4. CASE MapperFails
    BY <2>1, <2>4 DEF Goes, MapperFails, SameMapping, GaveUp
  <2>5. CASE SyncMapperWrites
    BY <2>1, <2>5 DEF Goes, SyncMapperWrites, SameMapping, GaveUp
  <2>6. CASE MapperExits
    BY <2>1, <2>6 DEF Goes, MapperExits, SameMapping, GaveUp
  <2> QED BY <1>2, <2>3, <2>4, <2>5, <2>6 DEF SyncMapperRuns
<1>3. CASE SyncReducerRuns
  <2>1. at'["mapper"] = at["mapper"]
    BY <1>3, RolesAssumption DEF SyncInv, Goes, SyncReducerRuns, SyncReduces, SyncReducerWrites,
       ReducerExits
  <2> QED BY <2>1 DEF SameMapping, GaveUp
<1> QED BY <1>1, <1>2, <1>3

LEMMA SynchronousStep ==
  ASSUME SyncInv, SyncCoordinatorRuns \/ SyncMapperRuns \/ SyncReducerRuns
  PROVE  /\ SyncInv'
         /\ \/ SyncKeeps /\ SameReturned /\ SameMapping
            \/ SyncAdds /\ SameReturned /\ SameMapping
            \/ SyncDrops /\ SameReturned
            \/ SyncTakes /\ SameReturned /\ SameMapping
            \/ SyncEnds /\ SameMapping
<1>1. CASE MapperGivesUp
  BY <1>1, SyncStepGivesUp
<1>2. CASE ~MapperGivesUp
  <2>1. SameMapping
    BY <1>2, SynchronousMapping
  <2>2. /\ SyncInv'
        /\ (SyncKeeps /\ SameReturned) \/ (SyncAdds /\ SameReturned)
             \/ (SyncTakes /\ SameReturned) \/ SyncEnds
    BY <1>2, SyncStepForks, SyncStepLineDone, SyncStepReturns, SyncStepExits, SyncStepSendsLine,
       SyncStepMaps, SyncStepMapperWrites, SyncStepGetsMapped, SyncStepSendsResult, SyncStepReduces,
       SyncStepReducerWrites, SyncStepGetsReduced
       DEF SyncCoordinatorRuns, SyncMapperRuns, SyncReducerRuns
  <2> QED BY <2>1, <2>2
<1> QED BY <1>1, <1>2

-----------------------------------------------------------------------------
(* In the synchronous version a process holds all descriptors or none, and  *)
(* nobody calls select().                                                   *)
AllOrNone ==
  /\ ready = {} /\ held \subseteq Process \X Pipe \X End
  /\ \A p \in Process : \/ \A x \in Pipe, e \in End : << p, x, e >> \in held
                        \/ \A x \in Pipe, e \in End : << p, x, e >> \notin held

LEMMA AllOrNoneStep ==
  ASSUME AllOrNone, SyncCoordinatorRuns \/ SyncMapperRuns \/ SyncReducerRuns
  PROVE  AllOrNone'
<1>1. CASE SyncForksMapper \/ SyncForksReducer
  <2>1. PICK c \in {"mapper", "reducer"} : Fork(c)
    BY <1>1 DEF SyncForksMapper, SyncForksReducer
  <2>2. c \in Process /\ "coordinator" \in Process
    BY RolesAssumption
  <2>3. /\ \A q \in Process, x \in Pipe, e \in End :
             << q, x, e >> \in held' <=>
               << q, x, e >> \in held \/ (q = c /\ << "coordinator", x, e >> \in held)
        /\ held' \subseteq Process \X Pipe \X End
        /\ ready' = ready
    BY <2>1, <2>2, ForkFacts DEF AllOrNone
  <2>4. ASSUME NEW p \in Process
        PROVE  \/ \A x \in Pipe, e \in End : << p, x, e >> \in held'
               \/ \A x \in Pipe, e \in End : << p, x, e >> \notin held'
    <3>1. CASE p = c
      BY <2>2, <2>3, <3>1 DEF AllOrNone
    <3>2. CASE p # c
      BY <2>3, <3>2 DEF AllOrNone
    <3> QED BY <3>1, <3>2
  <2> QED BY <2>3, <2>4 DEF AllOrNone
<1>2. CASE SyncReturns \/ MapperExits \/ MapperFails \/ ReducerExits
  <2>1. PICK c \in Process : Close(c, Both(Pipe))
    BY <1>2, RolesAssumption DEF SyncReturns, MapperExits, MapperFails, ReducerExits
  <2>2. Both(Pipe) \in SUBSET (Pipe \X End) /\ \A x \in Pipe, e \in End : << x, e >> \in Both(Pipe)
    BY DEF Both
  <2>3. /\ \A q \in Process, x \in Pipe, e \in End :
             << q, x, e >> \in held' <=> << q, x, e >> \in held /\ q # c
        /\ held' \subseteq held /\ ready' = {}
    BY <2>1, <2>2, CloseFacts DEF AllOrNone
  <2>4. ASSUME NEW p \in Process
        PROVE  \/ \A x \in Pipe, e \in End : << p, x, e >> \in held'
               \/ \A x \in Pipe, e \in End : << p, x, e >> \notin held'
    BY <2>3 DEF AllOrNone
  <2> QED BY <2>3, <2>4 DEF AllOrNone
<1>3. CASE \/ SyncSendsLine \/ SyncGetsMapped \/ SyncSendsResult \/ SyncGetsReduced \/ SyncLineDone
           \/ Maps \/ MapperGivesUp \/ SyncMapperWrites \/ SyncReduces \/ SyncReducerWrites
  <2>1. held' = held
    BY <1>3 DEF SyncSendsLine, SyncGetsMapped, SyncSendsResult, SyncGetsReduced, SyncLineDone,
       Maps, MapperGivesUp, SyncMapperWrites, SyncReduces, SyncReducerWrites, Read, Write, pVars
  <2>2. ready' = {}
    BY <1>3 DEF SyncSendsLine, SyncGetsMapped, SyncSendsResult, SyncGetsReduced, SyncLineDone,
       Maps, MapperGivesUp, SyncMapperWrites, SyncReduces, SyncReducerWrites, Read, Write, Reset, pVars, AllOrNone
  <2> QED BY <2>1, <2>2 DEF AllOrNone
<1> QED BY <1>1, <1>2, <1>3 DEF SyncCoordinatorRuns, SyncMapperRuns, SyncReducerRuns

-----------------------------------------------------------------------------
(* Both versions.                                                           *)
InvOf ==
  /\ version \in {"multiplexed", "synchronous"}
  /\ version = "multiplexed" => IInv /\ EndInv /\ ChainInv
  /\ version = "synchronous" => SyncInv /\ AllOrNone

StepOf == CoordinatorOf \/ MapperOf \/ ReducerOf

LEMMA StepOfVersion ==
  ASSUME StepOf, InvOf
  PROVE  /\ version' = version
         /\ version = "multiplexed" => Next
         /\ version = "synchronous" => SyncCoordinatorRuns \/ SyncMapperRuns \/ SyncReducerRuns
BY DEF StepOf, CoordinatorOf, MapperOf, ReducerOf, Next, InvOf

LEMMA InvOfInit == InitOf => InvOf
<1> SUFFICES ASSUME InitOf PROVE InvOf
  OBVIOUS
<1>1. IInv
  BY IInvInit DEF InitOf
<1>2. /\ content["cm"] = << >> /\ content["mc"] = << >> /\ content["cr"] = << >>
      /\ content["rc"] = << >> /\ DOMAIN content = Pipe
      /\ held = {"coordinator"} \X Pipe \X End /\ ready = {}
  BY RolesAssumption DEF InitOf, Init, PipesInit
<1>3. /\ at["coordinator"] = "forks mapper" /\ at["mapper"] = "unborn" /\ at["reducer"] = "unborn"
      /\ DOMAIN at = Process
  BY RolesAssumption DEF InitOf, Init
<1>4. /\ unread \in Seq(Line) /\ queue = << >> /\ mapped = << >> /\ reduced = NoResult
      /\ accs = [k \in Key |-> << >>] /\ folded = accs
  BY InputAssumption DEF InitOf, Init
<1>5. << >> \in Seq(Value) /\ << >> \in Seq(Result)
  BY EmptySeq
<1>6. accs \in [Key -> Seq(Value)]
  BY <1>4, <1>5
<1>7. EndInv
  BY <1>2, <1>3, RolesAssumption DEF EndInv, Alive, End
<1>8. ChainInv
  <2>1. Answers = << >>
    BY <1>2, <1>4 DEF Answers
  <2>2. Len(<< >>) = 0 /\ 1..0 = {}
    OBVIOUS
  <2>3. Chain(<< >>, accs, folded)
    BY <1>4, <2>2 DEF Chain
  <2> QED BY <1>6, <2>1, <2>3 DEF ChainInv
<1>9. SyncInv
  BY <1>2, <1>3, <1>4, <1>5, <1>6 DEF SyncInv, NoLine, NoJob
<1>10. AllOrNone
  <2>1. ASSUME NEW p \in Process
        PROVE  \/ \A x \in Pipe, e \in End : << p, x, e >> \in held
               \/ \A x \in Pipe, e \in End : << p, x, e >> \notin held
    BY <1>2
  <2>2. held \subseteq Process \X Pipe \X End
    BY <1>2, RolesAssumption
  <2> QED BY <1>2, <2>1, <2>2 DEF AllOrNone
<1> QED BY <1>1, <1>7, <1>8, <1>9, <1>10 DEF InvOf, InitOf

LEMMA InvOfStep ==
  ASSUME InvOf, StepOf
  PROVE  InvOf'
<1>1. CASE version = "multiplexed"
  <2>1. Next /\ version' = version /\ IInv /\ EndInv /\ ChainInv
    BY <1>1, StepOfVersion DEF InvOf
  <2>2. IInv'
    BY <2>1, IInvNext
  <2>3. EndInv' /\ ChainInv'
    BY <2>1, MultiplexedStep
  <2> QED BY <1>1, <2>1, <2>2, <2>3 DEF InvOf
<1>2. CASE version = "synchronous"
  <2>1. /\ SyncCoordinatorRuns \/ SyncMapperRuns \/ SyncReducerRuns
        /\ version' = version /\ SyncInv /\ AllOrNone
    BY <1>2, StepOfVersion DEF InvOf
  <2>2. SyncInv' /\ AllOrNone'
    BY <2>1, SynchronousStep, AllOrNoneStep
  <2> QED BY <1>2, <2>1, <2>2 DEF InvOf
<1> QED BY <1>1, <1>2 DEF InvOf

LEMMA InvOfStutter ==
  ASSUME InvOf, UNCHANGED varsOf
  PROVE  InvOf'
<1>1. /\ content' = content /\ held' = held /\ ready' = ready /\ at' = at
      /\ unread' = unread /\ queue' = queue /\ accs' = accs /\ mapped' = mapped
      /\ folded' = folded /\ reduced' = reduced /\ version' = version
  BY DEF varsOf, vars, pVars, cVars, mVars, rVars
<1>2. CASE version = "multiplexed"
  <2>1. IInv /\ EndInv /\ ChainInv
    BY <1>2 DEF InvOf
  <2>2. IInv'
    <3>1. UNCHANGED vars
      BY DEF varsOf
    <3> QED BY <2>1, <3>1, IInvNext
  <2>3. EndInv'
    BY <1>1, <2>1, EndAfterNothing
  <2>4. ChainInv'
    BY <1>1, <2>1, SameAnswers
  <2> QED BY <1>1, <1>2, <2>2, <2>3, <2>4 DEF InvOf
<1>3. CASE version = "synchronous"
  <2>1. SyncInv /\ AllOrNone
    BY <1>3 DEF InvOf
  <2>2. \A k, v : JobOnItsWay(k, v) => JobOnItsWay(k, v)'
    BY <1>1 DEF JobOnItsWay
  <2>3. SyncInv'
    BY <1>1, <2>1, <2>2 DEF SyncInv, LineOnItsWay, NoLine, NoJob, GaveUp
  <2>4. AllOrNone'
    BY <1>1, <2>1 DEF AllOrNone
  <2> QED BY <1>1, <1>3, <2>3, <2>4 DEF InvOf
<1> QED BY <1>2, <1>3 DEF InvOf

LEMMA InvOfHolds == SpecOf => []InvOf
<1>1. InvOf /\ [CoordinatorOf \/ MapperOf \/ ReducerOf]_varsOf => InvOf'
  BY InvOfStep, InvOfStutter DEF StepOf
<1> QED BY <1>1, InvOfInit, PTL DEF SpecOf

(* A flag set by select() is true until it is used: with any input and any *)
(* capacity of the pipes, the coordinator never blocks in a read or write; *)
(* the synchronous version sets none.                                      *)
THEOREM FlagsStayTrue == SpecOf => []FlagsAreTrue
<1>1. InvOf => FlagsAreTrue
  BY DEF InvOf, IInv, FlagInv, AllOrNone, FlagsAreTrue
<1> QED BY <1>1, InvOfHolds, PTL

(* In whatever order the processes close their descriptors, or if they     *)
(* close none before they end, a pipe with a writer has a reader: nobody   *)
(* is killed by SIGPIPE, unless the mapper has called std::exit(), and     *)
(* then only the coordinator on its pipe to the mapper, and after it the   *)
(* reducer on its pipe to the coordinator.                                 *)
THEOREM PipesHaveReaders == SpecOf => []NoBrokenPipe
<1>1. AllOrNone => NoBrokenPipe
  <2>1. "read" \in End /\ "write" \in End
    BY DEF End
  <2> QED BY <2>1 DEF AllOrNone, NoBrokenPipe, HasReader
<1>2. InvOf => NoBrokenPipe
  BY <1>1, NoBrokenPipeFollows DEF InvOf
<1> QED BY <1>2, InvOfHolds, PTL

-----------------------------------------------------------------------------
(* Both versions compute what one process computes.                        *)

LEMMA OneProcessInit == InitOf => OneProcess!Init
<1> SUFFICES ASSUME InitOf PROVE OneProcess!Init
  OBVIOUS
<1>1. InvOf
  BY InvOfInit
<1>2. /\ content["cm"] = << >> /\ content["mc"] = << >> /\ content["cr"] = << >>
      /\ content["rc"] = << >> /\ unread \in Inputs /\ queue = << >> /\ mapped = << >>
      /\ reduced = NoResult /\ accs = [k \in Key |-> << >>]
      /\ at["coordinator"] # "returned"
  BY RolesAssumption DEF InitOf, Init, PipesInit
<1>3. ToMap = unread /\ ~GaveUp
  <2>1. << >> \o unread = unread
    BY <1>2, InputAssumption, WithEmpty
  <2>2. ~GaveUp
    BY RolesAssumption DEF InitOf, Init, GaveUp
  <2> QED BY <1>2, <2>1, <2>2 DEF ToMap
<1>4. InFlight = << >>
  <2>1. Newest(Answers) = << >>
    BY <1>2, NoneNewest DEF Answers
  <2>2. InFlight = Flight(<< >>, << >>, << >>, << >>, << >>)
    BY <1>2, <2>1 DEF InFlight, Flight, Join
  <2> QED BY <2>2, NoFlight
<1>5. SyncInFlight = << >>
  <2>1. << >> \in Seq(Result)
    BY EmptySeq
  <2> QED BY <1>2, <2>1, SyncFlightIs, FlightIdle
<1> QED BY <1>2, <1>3, <1>4, <1>5 DEF OneProcess!Init

LEMMA ToMapIs ==
  /\ ToMap = IF GaveUp THEN << >> ELSE Ahead
  /\ ToMap' = IF GaveUp' THEN << >> ELSE Ahead'
BY DEF ToMap, Ahead

LEMMA OneProcessStep ==
  ASSUME InvOf, StepOf
  PROVE  OneProcess!Next \/ UNCHANGED OneProcess!vars
<1>0. version' = version
  BY StepOfVersion
<1>1. CASE version = "multiplexed"
  <2>1. \/ Keeps /\ SameReturned /\ SameMapping
        \/ Adds /\ SameReturned /\ SameMapping
        \/ Drops /\ SameReturned
        \/ Takes /\ SameReturned /\ SameMapping
        \/ Ends /\ SameMapping
    BY <1>1, StepOfVersion, MultiplexedStep DEF InvOf
  <2>2. CASE Keeps /\ SameReturned /\ SameMapping
    BY <1>0, <1>1, <2>2, ToMapIs DEF Keeps, SameReturned, SameMapping, OneProcess!vars
  <2>3. CASE Adds /\ SameReturned /\ SameMapping
    BY <1>0, <1>1, <2>3, ToMapIs
       DEF Adds, SameReturned, SameMapping, OneProcess!Maps, OneProcess!Next
  <2>4. CASE Takes /\ SameReturned /\ SameMapping
    BY <1>0, <1>1, <2>4, ToMapIs
       DEF Takes, SameReturned, SameMapping, OneProcess!Reduces, OneProcess!Next
  <2>5. CASE Ends /\ SameMapping
    BY <1>0, <1>1, <2>5, ToMapIs DEF Ends, Keeps, SameMapping, OneProcess!Returns, OneProcess!Next
  <2>6. CASE Drops /\ SameReturned
    BY <1>0, <1>1, <2>6, ToMapIs DEF Drops, SameReturned, OneProcess!GivesUp, OneProcess!Next
  <2> QED BY <2>1, <2>2, <2>3, <2>4, <2>5, <2>6
<1>2. CASE version = "synchronous"
  <2>0. version # "multiplexed"
    BY <1>2
  <2>1. \/ SyncKeeps /\ SameReturned /\ SameMapping
        \/ SyncAdds /\ SameReturned /\ SameMapping
        \/ SyncDrops /\ SameReturned
        \/ SyncTakes /\ SameReturned /\ SameMapping
        \/ SyncEnds /\ SameMapping
    BY <1>2, StepOfVersion, SynchronousStep DEF InvOf
  <2>2. CASE SyncKeeps /\ SameReturned /\ SameMapping
    BY <1>0, <2>0, <2>2, ToMapIs DEF SyncKeeps, SameReturned, SameMapping, OneProcess!vars
  <2>3. CASE SyncAdds /\ SameReturned /\ SameMapping
    BY <1>0, <2>0, <2>3, ToMapIs
       DEF SyncAdds, SameReturned, SameMapping, OneProcess!Maps, OneProcess!Next
  <2>4. CASE SyncTakes /\ SameReturned /\ SameMapping
    BY <1>0, <2>0, <2>4, ToMapIs
       DEF SyncTakes, SameReturned, SameMapping, OneProcess!Reduces, OneProcess!Next
  <2>5. CASE SyncEnds /\ SameMapping
    BY <1>0, <2>0, <2>5, ToMapIs
       DEF SyncEnds, SyncKeeps, SameMapping, OneProcess!Returns, OneProcess!Next
  <2>6. CASE SyncDrops /\ SameReturned
    BY <1>0, <2>0, <2>6, ToMapIs DEF SyncDrops, SameReturned, OneProcess!GivesUp, OneProcess!Next
  <2> QED BY <2>1, <2>2, <2>3, <2>4, <2>5, <2>6
<1> QED BY <1>1, <1>2 DEF InvOf

(* Both versions implement the map-reduce of one process, but for its      *)
(* liveness: for every input, every mapper and every capacity of the pipes, *)
(* the accumulators of the coordinator take the values that one process    *)
(* gives them, in the same order; no result is lost, reduced twice or      *)
(* reduced into an accumulator that is out of date; and the function       *)
(* returns only when all is reduced, or the map function has not come back *)
(* from a line and all results of the lines before are reduced.            *)
THEOREM ImplementsMapReduceSafely ==
  SpecOf => OneProcess!Init /\ [][OneProcess!Next]_(OneProcess!vars)
<1>1. InvOf /\ [CoordinatorOf \/ MapperOf \/ ReducerOf]_varsOf => [OneProcess!Next]_(OneProcess!vars)
  <2> SUFFICES ASSUME InvOf, [CoordinatorOf \/ MapperOf \/ ReducerOf]_varsOf
               PROVE  [OneProcess!Next]_(OneProcess!vars)
    OBVIOUS
  <2>1. CASE StepOf
    BY <2>1, OneProcessStep
  <2>2. CASE UNCHANGED varsOf
    <3>1. UNCHANGED OneProcess!vars
      BY <2>2 DEF varsOf, vars, pVars, cVars, mVars, rVars, OneProcess!vars, ToMap, GaveUp, InFlight,
         SyncInFlight, Newest, Answers, Unreduced, Vector
    <3> QED BY <3>1
  <2> QED BY <2>1, <2>2 DEF StepOf
<1> QED BY <1>1, OneProcessInit, InvOfHolds, PTL DEF SpecOf
=============================================================================
