-------------------------- MODULE FileSearchProofs --------------------------
(***************************************************************************)
(* Theorems about FileSearch, for any directory, any positive numbers of   *)
(* producers and consumers and queues of any size: no put() on a closed    *)
(* queue, every match printed once, and the lines of a file in order.      *)
(*                                                                         *)
(* The argument follows a file from the directory to its producer and a    *)
(* line from its file to its consumer: each is at one place at a time.     *)
(***************************************************************************)
EXTENDS FileSearch, FiniteSetTheorems, TLAPS

Queued(q) == {q[n] : n \in 1 .. Len(q)}

Distinct(q) == \A i, j \in 1 .. Len(q) : q[i] = q[j] => i = j

Ordered(q) ==    \* the lines of each file in increasing order
  \A i, j \in 1 .. Len(q) : i < j /\ q[i][1] = q[j][1] => q[i][2] < q[j][2]

ReadFiles == {f \in File : \E p \in Producer : reading[p] # None /\ reading[p][1] = f}

Unreads == {l \in Line : Unread(l)}

Matched == {l \in Line : \E c \in Consumer : matching[c] # None /\ matching[c][1] = l}

TypeOK ==
  /\ fQueue \in Seq(File) /\ fClosed \in BOOLEAN
  /\ fPending \in [Producer \cup {Main} -> {"none", "put", "get"}]
  /\ fArg \in [Producer \cup {Main} -> File \cup {None}]
  /\ lQueue \in Seq(Line) /\ lClosed \in BOOLEAN
  /\ lPending \in [Producer \cup Consumer -> {"none", "put", "get"}]
  /\ lArg \in [Producer \cup Consumer -> (File \X Nat) \cup {None}]
  /\ mainAt \in {"listing", "joining_producers", "joining_consumers", "exit"}
  /\ unlisted \in SUBSET File
  /\ reading \in [Producer -> {None} \cup (File \X (Nat \ {0}))]
  /\ matching \in [Consumer -> {None} \cup (Line \X Nat)]
  /\ done \in SUBSET (Producer \cup Consumer)
  /\ printed \in [Match -> Nat]

(* What a blocked call of each thread is about.                            *)
CallInv ==
  /\ fPending[Main] # "get"
  /\ fPending[Main] = "put" <=> fArg[Main] # None
  /\ \A p \in Producer :
       /\ fPending[p] # "put" /\ lPending[p] # "get"
       /\ fPending[p] = "get" => reading[p] = None /\ p \notin done
       /\ lPending[p] = "put" => reading[p] \in Line /\ lArg[p] = reading[p]
  /\ \A c \in Consumer :
       /\ lPending[c] # "put"
       /\ lPending[c] = "get" => matching[c] = None /\ c \notin done

(* The order in which main closes and joins, and what a thread that has    *)
(* returned leaves behind.                                                 *)
CloseInv ==
  /\ fClosed <=> mainAt # "listing"
  /\ fClosed => unlisted = {} /\ fPending[Main] = "none"
  /\ lClosed <=> mainAt \in {"joining_consumers", "exit"}
  /\ lClosed => Producer \subseteq done
  /\ mainAt = "exit" => Consumer \subseteq done
  /\ \A p \in Producer \cap done : fClosed /\ fQueue = << >> /\ reading[p] = None
  /\ \A c \in Consumer \cap done : lClosed /\ lQueue = << >> /\ matching[c] = None

(* A file is at one place, once.                                           *)
FileInv ==
  /\ Distinct(fQueue)
  /\ \A p, q \in Producer :
       reading[p] # None /\ reading[q] # None /\ reading[p][1] = reading[q][1] => p = q
  /\ unlisted \cap Queued(fQueue) = {}
  /\ fArg[Main] \notin unlisted \cup Queued(fQueue) \cup ReadFiles
  /\ ReadFiles \cap (unlisted \cup Queued(fQueue)) = {}
  /\ ReadFiles \subseteq TxtFile

(* So is a line.                                                           *)
LineInv ==
  /\ Distinct(lQueue)
  /\ \A c, d \in Consumer :
       matching[c] # None /\ matching[d] # None /\ matching[c][1] = matching[d][1] => c = d
  /\ Unreads \cap (Queued(lQueue) \cup Matched) = {}
  /\ Queued(lQueue) \cap Matched = {}
  /\ \A l \in Queued(lQueue) \cup Matched : l[1] \in TxtFile

(* A line is put after those before it in its file.                        *)
OrderInv ==
  /\ Ordered(lQueue)
  /\ \A l \in Queued(lQueue), k \in Unreads : k[1] = l[1] => k[2] > l[2]

(* The matches that are still to be printed.                               *)
Pending(m) ==
  \/ m[1] \in Unreads \cup Queued(lQueue)
  \/ \E c \in Consumer : matching[c] # None /\ matching[c][1] = m[1] /\ matching[c][2] < m[2]

PrintInv ==
  \A m \in Match : printed[m] = IF Pending(m) \/ m[1][1] \notin TxtFile THEN 0 ELSE 1

IInv == TypeOK /\ CallInv /\ CloseInv /\ FileInv /\ LineInv /\ OrderInv /\ PrintInv
-----------------------------------------------------------------------------
(* Queues without repetition, as sets.                                     *)
LEMMA AppendQueued ==
  ASSUME NEW S, NEW q \in Seq(S), NEW x \in S
  PROVE  /\ Append(q, x) \in Seq(S) /\ Queued(q) \subseteq S
         /\ Queued(Append(q, x)) = Queued(q) \cup {x}
         /\ Distinct(q) /\ x \notin Queued(q) => Distinct(Append(q, x))
<1>1. /\ Append(q, x) \in Seq(S) /\ Len(Append(q, x)) = Len(q) + 1 /\ Len(q) \in Nat
      /\ \A i \in 1 .. Len(q) : Append(q, x)[i] = q[i] /\ q[i] \in S
      /\ Append(q, x)[Len(q) + 1] = x
  OBVIOUS
<1>2. \A i \in 1 .. Len(q) + 1 : i \in 1 .. Len(q) \/ i = Len(q) + 1
  BY <1>1
<1>3. \A i \in 1 .. Len(q) : i \in 1 .. Len(q) + 1
  BY <1>1
<1>4. Len(q) + 1 \in 1 .. Len(q) + 1
  BY <1>1
<1>5. Queued(Append(q, x)) = Queued(q) \cup {x}
  <2>1. ASSUME NEW y \in Queued(Append(q, x)) PROVE y \in Queued(q) \cup {x}
    <3>1. PICK i \in 1 .. Len(q) + 1 : y = Append(q, x)[i]
      BY <1>1, <2>1 DEF Queued
    <3> QED BY <1>1, <1>2, <3>1 DEF Queued
  <2>2. ASSUME NEW y \in Queued(q) PROVE y \in Queued(Append(q, x))
    <3>1. PICK i \in 1 .. Len(q) : y = q[i]
      BY <2>2 DEF Queued
    <3>2. y = Append(q, x)[i] /\ i \in 1 .. Len(Append(q, x))
      BY <1>1, <1>3, <3>1
    <3> QED BY <3>2 DEF Queued
  <2>3. x \in Queued(Append(q, x))
    BY <1>1, <1>4 DEF Queued
  <2> QED BY <2>1, <2>2, <2>3
<1>6. ASSUME Distinct(q), x \notin Queued(q) PROVE Distinct(Append(q, x))
  <2>1. \A i \in 1 .. Len(q) : q[i] # x
    BY <1>6 DEF Queued
  <2> QED BY <1>1, <1>2, <1>6, <2>1 DEF Distinct
<1>7. Queued(q) \subseteq S
  BY <1>1 DEF Queued
<1> QED BY <1>1, <1>5, <1>6, <1>7

LEMMA TailQueued ==
  ASSUME NEW S, NEW q \in Seq(S), q # << >>, Distinct(q)
  PROVE  /\ Head(q) \in S /\ Head(q) \in Queued(q) /\ Queued(q) \subseteq S
         /\ Tail(q) \in Seq(S)
         /\ Queued(Tail(q)) = Queued(q) \ {Head(q)}
         /\ Distinct(Tail(q))
<1>1. /\ Len(q) \in Nat /\ Len(q) > 0 /\ Head(q) = q[1]
      /\ Tail(q) \in Seq(S) /\ Len(Tail(q)) = Len(q) - 1
      /\ \A i \in 1 .. Len(q) : q[i] \in S
      /\ \A i \in 1 .. Len(q) - 1 : Tail(q)[i] = q[i + 1]
  OBVIOUS
<1>2. 1 \in 1 .. Len(q)
  BY <1>1
<1>3. \A i \in 1 .. Len(q) - 1 : i + 1 \in 1 .. Len(q) /\ i + 1 # 1
  BY <1>1
<1>4. \A i \in 1 .. Len(q) : i # 1 => i - 1 \in 1 .. Len(q) - 1 /\ (i - 1) + 1 = i
  BY <1>1
<1>5. Queued(Tail(q)) = Queued(q) \ {Head(q)}
  <2>1. ASSUME NEW y \in Queued(Tail(q)) PROVE y \in Queued(q) /\ y # Head(q)
    <3>1. PICK i \in 1 .. Len(q) - 1 : y = Tail(q)[i]
      BY <1>1, <2>1 DEF Queued
    <3>2. y = q[i + 1] /\ i + 1 \in 1 .. Len(q) /\ i + 1 # 1
      BY <1>1, <1>3, <3>1
    <3> QED BY <1>1, <1>2, <3>2 DEF Queued, Distinct
  <2>2. ASSUME NEW y \in Queued(q), y # Head(q) PROVE y \in Queued(Tail(q))
    <3>1. PICK i \in 1 .. Len(q) : y = q[i]
      BY <2>2 DEF Queued
    <3>2. i # 1
      BY <1>1, <2>2, <3>1
    <3>3. y = Tail(q)[i - 1] /\ i - 1 \in 1 .. Len(Tail(q))
      BY <1>1, <1>4, <3>1, <3>2
    <3> QED BY <3>3 DEF Queued
  <2> QED BY <2>1, <2>2
<1>6. Distinct(Tail(q))
  <2> SUFFICES ASSUME NEW i \in 1 .. Len(q) - 1, NEW j \in 1 .. Len(q) - 1,
                      Tail(q)[i] = Tail(q)[j]
               PROVE  i = j
    BY <1>1 DEF Distinct
  <2>1. q[i + 1] = q[j + 1]
    BY <1>1
  <2>2. i + 1 = j + 1
    BY <1>3, <2>1 DEF Distinct
  <2> QED BY <1>1, <2>2
<1>7. Head(q) \in Queued(q) /\ Queued(q) \subseteq S
  BY <1>1, <1>2 DEF Queued
<1> QED BY <1>1, <1>5, <1>6, <1>7

LEMMA AppendOrdered ==
  ASSUME NEW S, NEW q \in Seq(S), NEW l \in S, Ordered(q),
         \A k \in Queued(q) : k[1] = l[1] => k[2] < l[2]
  PROVE  Ordered(Append(q, l))
<1>1. /\ Len(Append(q, l)) = Len(q) + 1 /\ Len(q) \in Nat
      /\ \A i \in 1 .. Len(q) : Append(q, l)[i] = q[i]
      /\ Append(q, l)[Len(q) + 1] = l
  OBVIOUS
<1> SUFFICES ASSUME NEW i \in 1 .. Len(q) + 1, NEW j \in 1 .. Len(q) + 1, i < j,
                    Append(q, l)[i][1] = Append(q, l)[j][1]
             PROVE  Append(q, l)[i][2] < Append(q, l)[j][2]
  BY <1>1 DEF Ordered
<1>2. i \in 1 .. Len(q) /\ Append(q, l)[i] = q[i] /\ q[i] \in Queued(q)
  BY <1>1 DEF Queued
<1>3. CASE j = Len(q) + 1
  BY <1>1, <1>2, <1>3
<1>4. CASE j \in 1 .. Len(q)
  BY <1>1, <1>2, <1>4 DEF Ordered
<1> QED BY <1>1, <1>3, <1>4

LEMMA TailOrdered ==
  ASSUME NEW S, NEW q \in Seq(S), q # << >>, Ordered(q)
  PROVE  /\ Ordered(Tail(q))
         /\ \A k \in Queued(Tail(q)) : k[1] = Head(q)[1] => Head(q)[2] < k[2]
<1>1. /\ Len(q) \in Nat /\ Len(q) > 0 /\ Head(q) = q[1] /\ Len(Tail(q)) = Len(q) - 1
      /\ \A i \in 1 .. Len(q) - 1 : Tail(q)[i] = q[i + 1] /\ i + 1 \in 1 .. Len(q)
  OBVIOUS
<1>2. Ordered(Tail(q))
  <2> SUFFICES ASSUME NEW i \in 1 .. Len(q) - 1, NEW j \in 1 .. Len(q) - 1, i < j,
                      Tail(q)[i][1] = Tail(q)[j][1]
               PROVE  Tail(q)[i][2] < Tail(q)[j][2]
    BY <1>1 DEF Ordered
  <2>1. i + 1 < j + 1
    BY <1>1
  <2> QED BY <1>1, <2>1 DEF Ordered
<1>3. ASSUME NEW k \in Queued(Tail(q)), k[1] = Head(q)[1] PROVE Head(q)[2] < k[2]
  <2>1. PICK i \in 1 .. Len(q) - 1 : k = Tail(q)[i]
    BY <1>1, <1>3 DEF Queued
  <2>2. k = q[i + 1] /\ 1 < i + 1 /\ 1 \in 1 .. Len(q) /\ i + 1 \in 1 .. Len(q)
    BY <1>1, <2>1
  <2> QED BY <1>1, <1>3, <2>2 DEF Ordered
<1> QED BY <1>2, <1>3

(* Lines and matches by their coordinates.                                 *)
LEMMA LineIs ==
  /\ Line \subseteq File \X (Nat \ {0})
  /\ \A f \in File, n \in Nat \ {0} : << f, n >> \in Line <=> n <= Len(Content[f])
  /\ \A f \in File : Len(Content[f]) \in Nat
<1>1. \A f \in File : Content[f] \in Seq(Nat) /\ Len(Content[f]) \in Nat
  BY FilesAssumption
<1>2. ASSUME NEW l \in Line PROVE l \in File \X (Nat \ {0})
  <2>1. PICK f \in File : \E n \in 1 .. Len(Content[f]) : l = << f, n >>
    BY DEF Line
  <2> QED BY <1>1, <2>1
<1>3. ASSUME NEW f \in File, NEW n \in Nat \ {0} PROVE << f, n >> \in Line <=> n <= Len(Content[f])
  <2>1. ASSUME << f, n >> \in Line PROVE n <= Len(Content[f])
    <3>1. PICK g \in File : \E k \in 1 .. Len(Content[g]) : << f, n >> = << g, k >>
      BY <2>1 DEF Line
    <3> QED BY <1>1, <3>1
  <2>2. ASSUME n <= Len(Content[f]) PROVE << f, n >> \in Line
    BY <1>1, <2>2 DEF Line
  <2> QED BY <2>1, <2>2
<1> QED BY <1>1, <1>2, <1>3

LEMMA MatchIs ==
  /\ Match \subseteq Line \X (Nat \ {0})
  /\ \A l \in Line, i \in Nat \ {0} : << l, i >> \in Match <=> i <= Content[l[1]][l[2]]
  /\ \A l \in Line : Content[l[1]][l[2]] \in Nat
<1>1. ASSUME NEW l \in Line PROVE Content[l[1]][l[2]] \in Nat
  <2>1. PICK f \in File : \E n \in 1 .. Len(Content[f]) : l = << f, n >>
    BY DEF Line
  <2>2. Content[f] \in Seq(Nat)
    BY FilesAssumption
  <2> QED BY <2>1, <2>2
<1>2. ASSUME NEW m \in Match PROVE m \in Line \X (Nat \ {0})
  <2>1. PICK l \in Line : \E i \in 1 .. Content[l[1]][l[2]] : m = << l, i >>
    BY DEF Match
  <2> QED BY <1>1, <2>1
<1>3. ASSUME NEW l \in Line, NEW i \in Nat \ {0}
      PROVE  << l, i >> \in Match <=> i <= Content[l[1]][l[2]]
  <2>1. ASSUME << l, i >> \in Match PROVE i <= Content[l[1]][l[2]]
    <3>1. PICK k \in Line : \E j \in 1 .. Content[k[1]][k[2]] : << l, i >> = << k, j >>
      BY <2>1 DEF Match
    <3>2. PICK j \in 1 .. Content[k[1]][k[2]] : << l, i >> = << k, j >>
      BY <3>1
    <3>3. l = k /\ i = j
      BY <3>2
    <3> QED BY <1>1, <3>2, <3>3
  <2>2. ASSUME i <= Content[l[1]][l[2]] PROVE << l, i >> \in Match
    <3>1. i \in 1 .. Content[l[1]][l[2]]
      BY <1>1, <2>2
    <3> QED BY <3>1 DEF Match
  <2> QED BY <2>1, <2>2
<1> QED BY <1>1, <1>2, <1>3

-----------------------------------------------------------------------------
LEMMA IInvInit == Init => IInv
<1> SUFFICES ASSUME Init PROVE IInv
  OBVIOUS
<1> USE ThreadAssumption, NoneAssumption DEF Init, FileJobs!Init, LineJobs!Init
<1>1. /\ fQueue \in Seq(File) /\ lQueue \in Seq(Line)
      /\ fClosed \in BOOLEAN /\ lClosed \in BOOLEAN
  <2>1. fQueue = << >> /\ lQueue = << >>
    OBVIOUS
  <2>2. << >> \in Seq(File) /\ << >> \in Seq(Line)
    OBVIOUS
  <2>3. fClosed \in BOOLEAN /\ lClosed \in BOOLEAN
    BY Zenon
  <2> QED BY <2>1, <2>2, <2>3
<1>2. /\ fPending \in [Producer \cup {Main} -> {"none", "put", "get"}]
      /\ fArg \in [Producer \cup {Main} -> File \cup {None}]
  OBVIOUS
<1>3. /\ lPending \in [Producer \cup Consumer -> {"none", "put", "get"}]
      /\ lArg \in [Producer \cup Consumer -> (File \X Nat) \cup {None}]
  OBVIOUS
<1>4. /\ reading \in [Producer -> {None} \cup (File \X (Nat \ {0}))]
      /\ matching \in [Consumer -> {None} \cup (Line \X Nat)]
      /\ printed \in [Match -> Nat]
  OBVIOUS
<1>5. TypeOK
  <2>1. mainAt = "listing" /\ unlisted = File /\ done = {}
    OBVIOUS
  <2> QED BY ONLY <1>1, <1>2, <1>3, <1>4, <2>1 DEF TypeOK
<1>6. CallInv /\ CloseInv
  BY DEF CallInv, CloseInv
<1>7. Queued(fQueue) = {} /\ Queued(lQueue) = {} /\ Distinct(fQueue) /\ Distinct(lQueue)
      /\ Ordered(lQueue)
  BY DEF Queued, Distinct, Ordered
<1>8. ReadFiles = {}
  BY DEF ReadFiles
<1>9. FileInv
  BY <1>7, <1>8 DEF FileInv
<1>10. Unreads = Line
  BY LineIs DEF Unreads, Unread
<1>11. Matched = {}
  BY DEF Matched
<1>12. LineInv /\ OrderInv
  BY <1>7, <1>11 DEF LineInv, OrderInv
<1>13. PrintInv
  BY <1>10, MatchIs DEF PrintInv, Pending
<1> QED BY <1>5, <1>6, <1>9, <1>12, <1>13 DEF IInv

-----------------------------------------------------------------------------
(* When files move and lines do not.  The lines of a file that is no .txt  *)
(* are never read.                                                         *)
LEMMA LinesStay ==
  ASSUME LineInv, OrderInv, PrintInv, UNCHANGED << lQueue, matching, printed >>,
         Unreads' \subseteq Unreads, \A l \in Unreads : l \in Unreads' \/ l[1] \notin TxtFile
  PROVE  LineInv' /\ OrderInv' /\ PrintInv'
<1>1. Matched' = Matched
  BY DEF Matched
<1>2. LineInv' /\ OrderInv'
  BY <1>1 DEF LineInv, OrderInv
<1>3. PrintInv'
  <2>1. \A m \in Match : (Pending(m) \/ m[1][1] \notin TxtFile) <=> (Pending(m)' \/ m[1][1] \notin TxtFile)
    BY DEF Pending
  <2> QED BY <2>1 DEF PrintInv
<1> QED BY <1>2, <1>3

LEMMA UnreadsStay ==
  ASSUME UNCHANGED << unlisted, fQueue, reading >>, fArg'[Main] = fArg[Main]
  PROVE  Unreads' = Unreads /\ ReadFiles' = ReadFiles
BY DEF Unreads, Unread, ReadFiles

-----------------------------------------------------------------------------
(* main                                                                    *)
LEMMA ListsEntryKeeps == ASSUME IInv, ListsEntry PROVE IInv'
<1> USE ThreadAssumption
<1>1. PICK f \in unlisted :
        /\ unlisted' = unlisted \ {f}
        /\ FileJobs!PutReturns(Main, f) \/ FileJobs!PutBlocks(Main, f)
  BY DEF ListsEntry
<1>2. /\ TypeOK /\ f \in File /\ mainAt = "listing" /\ fPending[Main] = "none" /\ ~fClosed
      /\ fClosed' = fClosed
      /\ UNCHANGED << lVars, mainAt, reading, matching, done, printed >>
      /\ fArg[Main] = None
  BY <1>1 DEF IInv, TypeOK, CallInv, ListsEntry, FileJobs!PutReturns, FileJobs!PutBlocks, FileJobs!Idle
<1>3. /\ f \notin Queued(fQueue) \cup ReadFiles /\ ReadFiles' = ReadFiles
      /\ f # None
  BY <1>1, <1>2, NoneAssumption DEF IInv, FileInv, ReadFiles
<1>4. /\ unlisted' \cup Queued(fQueue') \cup ({fArg'[Main]} \ {None})
           = unlisted \cup Queued(fQueue)
      /\ TypeOK' /\ CallInv' /\ CloseInv' /\ FileInv'
  <2>1. CASE FileJobs!PutReturns(Main, f)
    <3>1. fQueue' = Append(fQueue, f) /\ UNCHANGED << fPending, fArg >>
      BY <2>1 DEF FileJobs!PutReturns
    <3>2. /\ fQueue' \in Seq(File) /\ Queued(fQueue') = Queued(fQueue) \cup {f}
          /\ Distinct(fQueue')
      BY <1>2, <1>3, <3>1, AppendQueued DEF IInv, TypeOK, FileInv
    <3>3. TypeOK'
      BY <1>1, <1>2, <3>1, <3>2 DEF TypeOK, lVars
    <3>4. CallInv' /\ CloseInv'
      BY <1>1, <1>2, <3>1 DEF IInv, CallInv, CloseInv, lVars
    <3>5. FileInv'
      BY <1>1, <1>2, <1>3, <3>1, <3>2, NoneAssumption DEF IInv, FileInv, TypeOK, ReadFiles
    <3> QED BY <1>1, <1>2, <3>1, <3>2, <3>3, <3>4, <3>5
  <2>2. CASE FileJobs!PutBlocks(Main, f)
    <3>1. /\ fQueue' = fQueue
          /\ fPending' = [fPending EXCEPT ![Main] = "put"] /\ fArg' = [fArg EXCEPT ![Main] = f]
      BY <2>2 DEF FileJobs!PutBlocks
    <3>2. TypeOK'
      BY <1>1, <1>2, <3>1 DEF TypeOK, lVars
    <3>3. fArg'[Main] = f /\ fPending'[Main] = "put"
          /\ \A p \in Producer : fPending'[p] = fPending[p]
      BY <1>2, <3>1 DEF TypeOK
    <3>4. CallInv' /\ CloseInv'
      BY <1>1, <1>2, <1>3, <3>1, <3>3 DEF IInv, CallInv, CloseInv, lVars
    <3>5. FileInv'
      BY <1>1, <1>2, <1>3, <3>1, <3>3 DEF IInv, FileInv
    <3> QED BY <1>1, <1>2, <1>3, <3>1, <3>2, <3>3, <3>4, <3>5
  <2> QED BY <1>1, <2>1, <2>2
<1>5. Unreads' = Unreads
  <2>1. /\ \A l \in Line : l[1] \in File /\ l[1] # None
        /\ \A q : {q[i] : i \in 1 .. Len(q)} = Queued(q)
    BY LineIs, NoneAssumption DEF Queued
  <2> QED BY <1>2, <1>4, <2>1 DEF Unreads, Unread
<1>6. LineInv' /\ OrderInv' /\ PrintInv'
  BY <1>2, <1>5, LinesStay DEF IInv, lVars
<1> QED BY <1>4, <1>6 DEF IInv

LEMMA ListsEntryLaterKeeps == ASSUME IInv, ListsEntryLater PROVE IInv'
<1> USE ThreadAssumption
<1> DEFINE f == fArg[Main]
<1>1. /\ TypeOK /\ fPending[Main] = "put" /\ f \in File /\ f # None
      /\ fQueue' = Append(fQueue, f) /\ fClosed' = fClosed
      /\ fPending' = [fPending EXCEPT ![Main] = "none"] /\ fArg' = [fArg EXCEPT ![Main] = None]
      /\ UNCHANGED << lVars, mainAt, unlisted, reading, matching, done, printed >>
  BY DEF IInv, TypeOK, CallInv, ListsEntryLater, FileJobs!PutResumes
<1>2. ~fClosed /\ mainAt = "listing"
  BY <1>1 DEF IInv, CloseInv
<1>3. /\ f \notin unlisted \cup Queued(fQueue) \cup ReadFiles /\ ReadFiles' = ReadFiles
  BY <1>1 DEF IInv, FileInv, ReadFiles
<1>4. /\ fArg'[Main] = None /\ fPending'[Main] = "none"
      /\ \A p \in Producer : fPending'[p] = fPending[p]
  BY <1>1 DEF TypeOK
<1>5. /\ fQueue' \in Seq(File) /\ Queued(fQueue') = Queued(fQueue) \cup {f}
      /\ Distinct(fQueue')
  BY <1>1, <1>3, AppendQueued DEF IInv, TypeOK, FileInv
<1>6. TypeOK'
  BY <1>1, <1>5 DEF TypeOK, lVars
<1>7. CallInv' /\ CloseInv'
  BY <1>1, <1>2, <1>4 DEF IInv, CallInv, CloseInv, lVars
<1>8. None \notin unlisted' \cup Queued(fQueue') \cup ReadFiles'
  BY <1>1, <1>3, <1>5, AppendQueued, NoneAssumption DEF TypeOK, ReadFiles
<1>9. Unreads' = Unreads
  <2>1. /\ \A l \in Line : l[1] \in File /\ l[1] # None
        /\ \A q : {q[i] : i \in 1 .. Len(q)} = Queued(q)
    BY LineIs, NoneAssumption DEF Queued
  <2> QED BY <1>1, <1>4, <1>5, <2>1 DEF Unreads, Unread
<1> HIDE DEF f
<1>10. FileInv'
  BY <1>1, <1>3, <1>4, <1>5, <1>8 DEF IInv, FileInv
<1>11. LineInv' /\ OrderInv' /\ PrintInv'
  BY <1>1, <1>9, LinesStay DEF IInv, lVars
<1> QED BY <1>6, <1>7, <1>10, <1>11 DEF IInv

LEMMA ClosesKeeps ==
  ASSUME IInv, ClosesFiles \/ JoinsProducersAndClosesLines \/ JoinsConsumers
  PROVE  IInv'
<1> USE ThreadAssumption
<1>1. /\ UNCHANGED << fQueue, fPending, fArg, lQueue, lPending, lArg >>
      /\ UNCHANGED << unlisted, reading, matching, done, printed >>
  BY DEF ClosesFiles, JoinsProducersAndClosesLines, JoinsConsumers, FileJobs!Close, fVars, lVars
<1>2. TypeOK' /\ CloseInv'
  <2>1. CASE ClosesFiles
    BY <1>1, <2>1 DEF IInv, TypeOK, CloseInv, ClosesFiles, FileJobs!Close, FileJobs!Idle, lVars
  <2>2. CASE JoinsProducersAndClosesLines
    BY <1>1, <2>2 DEF IInv, TypeOK, CloseInv, JoinsProducersAndClosesLines, fVars
  <2>3. CASE JoinsConsumers
    BY <1>1, <2>3 DEF IInv, TypeOK, CloseInv, JoinsConsumers, fVars, lVars
  <2> QED BY <2>1, <2>2, <2>3
<1>3. CallInv'
  BY <1>1 DEF IInv, CallInv
<1>4. FileInv'
  BY <1>1, UnreadsStay DEF IInv, FileInv
<1>5. LineInv' /\ OrderInv' /\ PrintInv'
  BY <1>1, UnreadsStay, LinesStay DEF IInv
<1> QED BY <1>2, <1>3, <1>4, <1>5 DEF IInv

-----------------------------------------------------------------------------
(* Producers                                                               *)
LEMMA TakesFileKeeps ==
  ASSUME IInv, NEW p \in Producer,
         \/ GetsFile(p) /\ FileJobs!GetReturns(p) /\ StartsReading(p, Head(fQueue))
         \/ GetsFileLater(p)
  PROVE  IInv'
<1> USE ThreadAssumption
<1> DEFINE f == Head(fQueue)
           place == IF f \in TxtFile THEN << f, 1 >> ELSE None
<1>1. /\ TypeOK /\ fQueue # << >> /\ fQueue' = Tail(fQueue) /\ fClosed' = fClosed /\ fArg' = fArg
      /\ reading' = [reading EXCEPT ![p] = place]
      /\ UNCHANGED << lVars, mainAt, unlisted, matching, done, printed >>
  BY DEF IInv, GetsFileLater, StartsReading, FileJobs!GetReturns, FileJobs!GetResumes
<1>2. /\ p \notin done /\ reading[p] = None
      /\ fPending' \in [Producer \cup {Main} -> {"none", "put", "get"}] /\ fPending'[p] = "none"
      /\ \A t \in (Producer \cup {Main}) \ {p} : fPending'[t] = fPending[t]
  <2>1. CASE GetsFile(p) /\ FileJobs!GetReturns(p)
    BY <1>1, <2>1 DEF GetsFile, Free, FileJobs!GetReturns, FileJobs!Idle, TypeOK
  <2>2. CASE GetsFileLater(p)
    <3>1. fPending[p] = "get" /\ fPending' = [fPending EXCEPT ![p] = "none"]
      BY <2>2 DEF GetsFileLater, FileJobs!GetResumes
    <3> QED BY <1>1, <3>1 DEF IInv, TypeOK, CallInv
  <2> QED BY <2>1, <2>2
<1>3. /\ f \in File /\ f \in Queued(fQueue) /\ fQueue' \in Seq(File)
      /\ Queued(fQueue') = Queued(fQueue) \ {f} /\ Distinct(fQueue')
  BY <1>1, TailQueued DEF IInv, TypeOK, FileInv
<1>4. /\ place \in {None} \cup (File \X (Nat \ {0}))
      /\ f \in TxtFile => place # None /\ place[1] = f /\ place[2] = 1
      /\ f \notin TxtFile => place = None
  BY <1>3, NoneAssumption
<1> HIDE DEF f, place
<1>5. \A q \in Producer : reading'[q] = IF q = p THEN place ELSE reading[q]
  BY <1>1 DEF TypeOK
<1>6. ReadFiles' = ReadFiles \cup ({f} \cap TxtFile)
  BY <1>2, <1>3, <1>4, <1>5 DEF ReadFiles
<1>7. f \notin unlisted \cup ReadFiles \cup {fArg[Main]}
  BY <1>3 DEF IInv, FileInv
<1>8. TypeOK'
  BY <1>1, <1>2, <1>3, <1>4 DEF TypeOK, lVars
<1>9. CallInv'
  <2>1. lPending[p] # "put"
    BY <1>2, LineIs, NoneAssumption DEF IInv, CallInv
  <2> QED BY <1>1, <1>2, <1>5, <2>1 DEF IInv, CallInv, lVars
<1>10. CloseInv'
  BY <1>1, <1>2, <1>5 DEF IInv, CloseInv, lVars
<1>11. FileInv'
  <2>1. \A q \in Producer : reading[q] # None => reading[q][1] # f
    <3>1. \A q \in Producer : reading[q] # None => reading[q][1] \in File
      BY <1>1 DEF TypeOK
    <3> QED BY <1>7, <3>1 DEF ReadFiles
  <2> QED BY <1>1, <1>3, <1>4, <1>5, <1>6, <1>7, <2>1 DEF IInv, FileInv
<1>12. \A l \in Line : Unread(l)' <=> Unread(l) /\ (l[1] = f => f \in TxtFile)
  <2> SUFFICES ASSUME NEW l \in Line
               PROVE  Unread(l)' <=> Unread(l) /\ (l[1] = f => f \in TxtFile)
    OBVIOUS
  <2>1. l[1] \in File /\ l[2] \in Nat \ {0}
    BY LineIs
  <2>2. \A q : {q[i] : i \in 1 .. Len(q)} = Queued(q)
    BY DEF Queued
  <2>3. CASE l[1] # f
    <3>1. /\ l[1] \in unlisted' \cup Queued(fQueue') \cup {fArg'[Main]}
               <=> l[1] \in unlisted \cup Queued(fQueue) \cup {fArg[Main]}
      BY <1>1, <1>2, <1>3, <2>3
    <3>2. ASSUME NEW q \in Producer
          PROVE  reading'[q] # None /\ reading'[q][1] = l[1] /\ reading'[q][2] <= l[2]
                   <=> reading[q] # None /\ reading[q][1] = l[1] /\ reading[q][2] <= l[2]
      BY <1>2, <1>4, <1>5, <2>3
    <3> QED BY <2>2, <2>3, <3>1, <3>2 DEF Unread
  <2>4. CASE l[1] = f /\ f \in TxtFile
    <3>1. Unread(l)
      BY <1>3, <2>2, <2>4 DEF Unread
    <3>2. reading'[p] # None /\ reading'[p][1] = l[1] /\ reading'[p][2] <= l[2]
      BY <1>4, <1>5, <2>1, <2>4
    <3> QED BY <2>4, <3>1, <3>2 DEF Unread
  <2>5. CASE l[1] = f /\ f \notin TxtFile
    <3>1. \A q \in Producer : reading'[q] # None => reading'[q][1] # f
      <4>1. \A q \in Producer : reading[q] # None => reading[q][1] \in File
        BY <1>1 DEF TypeOK
      <4> QED BY <1>4, <1>5, <1>7, <2>5, <4>1 DEF ReadFiles
    <3>2. l[1] \notin unlisted' \cup Queued(fQueue') \cup {fArg'[Main]}
      BY <1>1, <1>3, <1>7, <2>5
    <3> QED BY <2>2, <2>5, <3>1, <3>2 DEF Unread
  <2> QED BY <2>3, <2>4, <2>5
<1>13. LineInv' /\ OrderInv' /\ PrintInv'
  <2>1. /\ Unreads' \subseteq Unreads
        /\ \A l \in Unreads : l \in Unreads' \/ l[1] \notin TxtFile
    BY <1>12 DEF Unreads
  <2> QED BY <1>1, <2>1, LinesStay DEF IInv, lVars
<1> QED BY <1>8, <1>9, <1>10, <1>11, <1>13 DEF IInv

LEMMA WaitsForFileKeeps ==
  ASSUME IInv, NEW p \in Producer,
         \/ GetsFile(p) /\ FileJobs!GetNone(p) /\ Stops(p) /\ UNCHANGED lVars
         \/ GetsNoFileLater(p)
         \/ /\ GetsFile(p) /\ FileJobs!GetBlocks(p)
            /\ UNCHANGED << lVars, mainAt, unlisted, reading, matching, done, printed >>
  PROVE  IInv'
<1> USE ThreadAssumption
<1>1. /\ TypeOK /\ fQueue = << >>
      /\ UNCHANGED << fQueue, fClosed, fArg, lVars, mainAt, unlisted, reading, matching, printed >>
  BY DEF IInv, GetsNoFileLater, Stops, FileJobs!GetNone, FileJobs!GetBlocks,
         FileJobs!GetResumesNone, FileJobs!vars
<1>2. /\ p \notin done /\ reading[p] = None
      /\ fPending' \in [Producer \cup {Main} -> {"none", "put", "get"}]
      /\ \A t \in (Producer \cup {Main}) \ {p} : fPending'[t] = fPending[t]
      /\ \/ fPending'[p] = "none" /\ done' = done \cup {p} /\ fClosed
         \/ fPending'[p] = "get" /\ done' = done
  <2>1. CASE GetsFile(p) /\ FileJobs!GetNone(p) /\ Stops(p)
    BY <1>1, <2>1 DEF GetsFile, Free, FileJobs!GetNone, FileJobs!vars, FileJobs!Idle, Stops, TypeOK
  <2>2. CASE GetsNoFileLater(p)
    <3>1. /\ fPending[p] = "get" /\ fPending' = [fPending EXCEPT ![p] = "none"]
          /\ fClosed /\ done' = done \cup {p}
      BY <2>2 DEF GetsNoFileLater, FileJobs!GetResumesNone, Stops
    <3> QED BY <1>1, <3>1 DEF IInv, TypeOK, CallInv
  <2>3. CASE GetsFile(p) /\ FileJobs!GetBlocks(p) /\ done' = done
    BY <1>1, <2>3 DEF GetsFile, Free, FileJobs!GetBlocks, FileJobs!Idle, TypeOK
  <2> QED BY <2>1, <2>2, <2>3
<1>3. TypeOK'
  BY <1>1, <1>2 DEF TypeOK, lVars
<1>4. CallInv'
  BY <1>1, <1>2 DEF IInv, CallInv, lVars
<1>5. CloseInv'
  BY <1>1, <1>2 DEF IInv, CloseInv, lVars
<1>6. FileInv' /\ LineInv' /\ OrderInv' /\ PrintInv'
  BY <1>1, UnreadsStay, LinesStay DEF IInv, FileInv, lVars
<1> QED BY <1>3, <1>4, <1>5, <1>6 DEF IInv

LEMMA EndsFileKeeps == ASSUME IInv, NEW p \in Producer, EndsFile(p) PROVE IInv'
<1> USE ThreadAssumption
<1>1. /\ TypeOK /\ p \notin done /\ reading[p] # None /\ reading[p] \notin Line
      /\ reading' = [reading EXCEPT ![p] = None]
      /\ UNCHANGED << fVars, lVars, mainAt, unlisted, matching, done, printed >>
  BY DEF IInv, EndsFile
<1>2. \A q \in Producer : reading'[q] = IF q = p THEN None ELSE reading[q]
  BY <1>1 DEF TypeOK
<1>3. TypeOK'
  BY <1>1 DEF TypeOK, fVars, lVars
<1>4. CallInv' /\ CloseInv'
  BY <1>1, <1>2 DEF IInv, CallInv, CloseInv, fVars, lVars
<1>5. FileInv'
  <2>1. ReadFiles' \subseteq ReadFiles
    BY <1>2 DEF ReadFiles
  <2> QED BY <1>1, <1>2, <2>1 DEF IInv, FileInv, fVars
<1>6. Unreads' = Unreads
  <2>1. ASSUME NEW l \in Line, reading[p][1] = l[1], reading[p][2] <= l[2] PROVE FALSE
    <3>1. /\ reading[p] \in File \X (Nat \ {0})
          /\ reading[p] = << l[1], reading[p][2] >> /\ reading[p][2] \in Nat \ {0}
      BY <1>1, <2>1 DEF TypeOK
    <3>2. l = << l[1], l[2] >> /\ l[1] \in File /\ l[2] \in Nat \ {0}
      BY LineIs
    <3>3. l[2] <= Len(Content[l[1]]) /\ Len(Content[l[1]]) \in Nat
      BY <3>2, LineIs
    <3>4. << l[1], reading[p][2] >> \in Line
      BY <2>1, <3>1, <3>2, <3>3, LineIs
    <3> QED BY <1>1, <3>1, <3>4
  <2>2. \A l \in Line : Unread(l)' <=> Unread(l)
    BY <1>1, <1>2, <2>1 DEF Unread, fVars
  <2> QED BY <2>2 DEF Unreads
<1>7. LineInv' /\ OrderInv' /\ PrintInv'
  BY <1>1, <1>6, LinesStay DEF IInv, lVars
<1> QED BY <1>3, <1>4, <1>5, <1>7 DEF IInv

(* The line put is the first of its file that is still unread.             *)
LEMMA PutsLineKeeps ==
  ASSUME IInv, NEW p \in Producer,
         \/ PutsLine(p) /\ LineJobs!PutReturns(p, reading[p]) /\ Advances(p)
         \/ PutsLineLater(p)
  PROVE  IInv'
<1> USE ThreadAssumption
<1> DEFINE l == reading[p]
<1>1. /\ TypeOK /\ reading' = [reading EXCEPT ![p] = << @[1], @[2] + 1 >>]
      /\ lClosed' = lClosed
      /\ UNCHANGED << fVars, mainAt, unlisted, matching, done, printed >>
  BY DEF IInv, PutsLineLater, Advances, LineJobs!PutReturns, LineJobs!PutResumes
<1>2. /\ l \in Line /\ lQueue' = Append(lQueue, l)
      /\ lPending' \in [Producer \cup Consumer -> {"none", "put", "get"}] /\ lPending'[p] = "none"
      /\ lArg' \in [Producer \cup Consumer -> (File \X Nat) \cup {None}]
      /\ \A t \in (Producer \cup Consumer) \ {p} : lPending'[t] = lPending[t] /\ lArg'[t] = lArg[t]
  <2>1. CASE PutsLine(p) /\ LineJobs!PutReturns(p, l)
    <3>1. /\ l \in Line /\ lPending[p] = "none" /\ lQueue' = Append(lQueue, l)
          /\ UNCHANGED << lPending, lArg >>
      BY <2>1 DEF PutsLine, LineJobs!PutReturns, LineJobs!Idle
    <3> QED BY <1>1, <3>1 DEF TypeOK
  <2>2. CASE PutsLineLater(p)
    <3>1. /\ lPending[p] = "put" /\ lPending' = [lPending EXCEPT ![p] = "none"]
          /\ lArg' = [lArg EXCEPT ![p] = None] /\ lQueue' = Append(lQueue, lArg[p])
      BY <2>2 DEF PutsLineLater, LineJobs!PutResumes
    <3>2. l \in Line /\ lArg[p] = l
      BY <3>1 DEF IInv, CallInv
    <3> HIDE DEF l
    <3> QED BY <1>1, <3>1, <3>2 DEF TypeOK
  <2> QED BY <2>1, <2>2
<1>3. /\ l # None /\ l = << l[1], l[2] >> /\ l[1] \in File /\ l[2] \in Nat \ {0}
      /\ reading'[p] = << l[1], l[2] + 1 >> /\ reading'[p] # None
      /\ \A q \in Producer : q # p => reading'[q] = reading[q]
  <2>1. l # None /\ l = << l[1], l[2] >> /\ l[1] \in File /\ l[2] \in Nat \ {0}
    BY <1>2, LineIs, NoneAssumption
  <2>2. << l[1], l[2] + 1 >> # None
    BY <2>1, NoneAssumption
  <2>3. /\ reading'[p] = << l[1], l[2] + 1 >>
        /\ \A q \in Producer : q # p => reading'[q] = reading[q]
    BY <1>1 DEF TypeOK
  <2> QED BY <2>1, <2>2, <2>3
<1>4. p \notin done /\ ~lClosed
  BY <1>3 DEF IInv, CloseInv
<1>5. /\ ReadFiles' = ReadFiles /\ l[1] \in ReadFiles
      /\ \A q \in Producer : q # p /\ reading[q] # None => reading[q][1] # l[1]
  <2>1. ReadFiles' = ReadFiles
    <3>1. reading'[p] # None /\ reading'[p][1] = reading[p][1] /\ reading[p] # None
      BY <1>3
    <3>2. \A q \in Producer :
            /\ reading'[q] # None <=> reading[q] # None
            /\ reading[q] # None => reading'[q][1] = reading[q][1]
      BY <1>3, <3>1, Zenon
    <3> QED BY <3>2 DEF ReadFiles
  <2>2. l[1] \in ReadFiles
    BY <1>3 DEF ReadFiles
  <2>3. \A q \in Producer : q # p /\ reading[q] # None => reading[q][1] # l[1]
    BY <1>3 DEF IInv, FileInv
  <2> QED BY <2>1, <2>2, <2>3
<1>6. \A k \in Line : k[1] = l[1] =>
        (Unread(k) <=> l[2] <= k[2]) /\ (Unread(k)' <=> l[2] + 1 <= k[2])
  <2>1. l[1] \notin unlisted \cup Queued(fQueue) \cup {fArg[Main]}
    BY <1>5 DEF IInv, FileInv
  <2>2. UNCHANGED << unlisted, fQueue, fArg >>
    BY <1>1 DEF fVars
  <2> HIDE DEF l
  <2> SUFFICES ASSUME NEW k \in Line, k[1] = l[1]
               PROVE  (Unread(k) <=> l[2] <= k[2]) /\ (Unread(k)' <=> l[2] + 1 <= k[2])
    OBVIOUS
  <2>3. Unread(k) <=> l[2] <= k[2]
    BY <1>3, <1>5, <2>1 DEF Unread, Queued, l
  <2>4. Unread(k)' <=> l[2] + 1 <= k[2]
    BY <1>3, <1>5, <2>1, <2>2 DEF Unread, Queued
  <2> QED BY <2>3, <2>4
<1>7. \A k \in Line : k[1] # l[1] => (Unread(k)' <=> Unread(k))
  BY <1>1, <1>3 DEF Unread, fVars
<1> HIDE DEF l
<1>8. l \in Unreads /\ Unreads' = Unreads \ {l}
  <2>1. \A k \in Line : k[2] \in Nat /\ (k[1] = l[1] /\ k # l => k[2] # l[2])
    BY <1>3, LineIs
  <2>2. \A k \in Line : Unread(k)' <=> Unread(k) /\ k # l
    BY <1>3, <1>6, <1>7, <2>1
  <2>3. Unread(l)
    BY <1>2, <1>3, <1>6
  <2> QED BY <1>2, <2>2, <2>3 DEF Unreads
<1>9. /\ Matched' = Matched /\ l \notin Queued(lQueue) \cup Matched
  BY <1>1, <1>8 DEF IInv, LineInv, Matched
<1>10. /\ lQueue' \in Seq(Line) /\ Queued(lQueue') = Queued(lQueue) \cup {l}
       /\ Distinct(lQueue') /\ Queued(lQueue) \subseteq Line
  BY <1>1, <1>2, <1>9, AppendQueued DEF IInv, TypeOK, LineInv
<1>11. TypeOK'
  <2>1. << l[1], l[2] + 1 >> \in {None} \cup (File \X (Nat \ {0}))
    BY <1>3
  <2> QED BY <1>1, <1>2, <1>10, <2>1 DEF TypeOK, fVars, l
<1>12. CallInv' /\ CloseInv'
  <2>1. fPending[p] # "get"
    BY <1>3 DEF IInv, CallInv, l
  <2> QED BY <1>1, <1>2, <1>3, <1>4, <2>1 DEF IInv, CallInv, CloseInv, fVars
<1>13. FileInv'
  <2>1. \A q, s \in Producer :
          reading'[q] # None /\ reading'[s] # None /\ reading'[q][1] = reading'[s][1] => q = s
    BY <1>3, <1>5 DEF IInv, FileInv
  <2> QED BY <1>1, <1>5, <2>1 DEF IInv, FileInv, fVars
<1>14. LineInv'
  <2>1. l[1] \in TxtFile
    BY <1>5 DEF IInv, FileInv
  <2> QED BY <1>1, <1>8, <1>9, <1>10, <2>1 DEF IInv, LineInv
<1>15. OrderInv'
  <2>1. \A k \in Queued(lQueue) : k[1] = l[1] => k[2] < l[2]
    BY <1>3, <1>8, <1>10, LineIs DEF IInv, OrderInv
  <2>2. Ordered(lQueue')
    BY <1>1, <1>2, <2>1, AppendOrdered DEF IInv, OrderInv, TypeOK
  <2>3. \A k \in Unreads' : k[1] = l[1] => k[2] > l[2]
    BY <1>3, <1>6, LineIs DEF Unreads
  <2> QED BY <1>8, <1>10, <2>2, <2>3 DEF IInv, OrderInv
<1>16. PrintInv'
  <2>1. Unreads' \cup Queued(lQueue') = Unreads \cup Queued(lQueue)
    BY <1>8, <1>10
  <2>2. UNCHANGED << matching, printed >>
    BY <1>1
  <2>3. \A m \in Match : Pending(m)' <=> Pending(m)
    BY <2>1, <2>2 DEF Pending
  <2> QED BY <2>2, <2>3 DEF IInv, PrintInv
<1> QED BY <1>11, <1>12, <1>13, <1>14, <1>15, <1>16 DEF IInv

LEMMA WaitsForRoomKeeps ==
  ASSUME IInv, NEW p \in Producer, PutsLine(p), LineJobs!PutBlocks(p, reading[p]),
         UNCHANGED << fVars, mainAt, unlisted, reading, matching, done, printed >>
  PROVE  IInv'
<1> USE ThreadAssumption
<1> DEFINE l == reading[p]
<1>1. /\ TypeOK /\ l \in Line /\ UNCHANGED << lQueue, lClosed >>
      /\ lPending' = [lPending EXCEPT ![p] = "put"] /\ lArg' = [lArg EXCEPT ![p] = l]
  BY DEF IInv, PutsLine, LineJobs!PutBlocks
<1>2. l \in File \X Nat
  BY <1>1, LineIs
<1>3. TypeOK'
  <2> HIDE DEF l
  <2> QED BY <1>1, <1>2 DEF TypeOK, fVars
<1>4. CallInv' /\ CloseInv'
  BY <1>1 DEF IInv, TypeOK, CallInv, CloseInv, fVars
<1>5. FileInv' /\ LineInv' /\ OrderInv' /\ PrintInv'
  BY <1>1, UnreadsStay, LinesStay DEF IInv, FileInv, fVars
<1> QED BY <1>3, <1>4, <1>5 DEF IInv

-----------------------------------------------------------------------------
(* Consumers                                                               *)
LEMMA TakesLineKeeps ==
  ASSUME IInv, NEW c \in Consumer,
         \/ GetsLine(c) /\ LineJobs!GetReturns(c) /\ StartsMatching(c, Head(lQueue))
         \/ GetsLineLater(c)
  PROVE  IInv'
<1> USE ThreadAssumption
<1> DEFINE l == Head(lQueue)
<1>1. /\ TypeOK /\ lQueue # << >> /\ lQueue' = Tail(lQueue) /\ lClosed' = lClosed /\ lArg' = lArg
      /\ matching' = [matching EXCEPT ![c] = << l, 0 >>]
      /\ UNCHANGED << fVars, mainAt, unlisted, reading, done, printed >>
  BY DEF IInv, GetsLineLater, StartsMatching, LineJobs!GetReturns, LineJobs!GetResumes
<1>2. /\ c \notin done /\ matching[c] = None
      /\ lPending' \in [Producer \cup Consumer -> {"none", "put", "get"}] /\ lPending'[c] = "none"
      /\ \A t \in (Producer \cup Consumer) \ {c} : lPending'[t] = lPending[t]
  <2>1. CASE GetsLine(c) /\ LineJobs!GetReturns(c)
    BY <1>1, <2>1 DEF GetsLine, LineJobs!GetReturns, LineJobs!Idle, TypeOK
  <2>2. CASE GetsLineLater(c)
    <3>1. lPending[c] = "get" /\ lPending' = [lPending EXCEPT ![c] = "none"]
      BY <2>2 DEF GetsLineLater, LineJobs!GetResumes
    <3> QED BY <1>1, <3>1 DEF IInv, TypeOK, CallInv
  <2> QED BY <2>1, <2>2
<1>3. /\ l \in Line /\ l \in Queued(lQueue) /\ lQueue' \in Seq(Line)
      /\ Queued(lQueue') = Queued(lQueue) \ {l} /\ Distinct(lQueue')
  BY <1>1, TailQueued DEF IInv, TypeOK, LineInv
<1>4. Ordered(lQueue')
  BY <1>1, TailOrdered DEF IInv, TypeOK, OrderInv
<1> HIDE DEF l
<1>5. /\ << l, 0 >> # None /\ \A d \in Consumer : matching'[d] = IF d = c THEN << l, 0 >> ELSE matching[d]
  <2>1. << l, 0 >> # None
    BY <1>3, LineIs, NoneAssumption
  <2> QED BY <1>1, <2>1 DEF TypeOK
<1>6. Matched' = Matched \cup {l} /\ Unreads' = Unreads
  <2>1. Matched' = Matched \cup {l}
    BY <1>2, <1>3, <1>5 DEF Matched
  <2> QED BY <1>1, <2>1, UnreadsStay DEF fVars
<1>7. TypeOK'
  BY <1>1, <1>2, <1>3 DEF TypeOK, fVars
<1>8. CallInv' /\ CloseInv'
  BY <1>1, <1>2, <1>5 DEF IInv, CallInv, CloseInv, fVars
<1>9. FileInv'
  BY <1>1, UnreadsStay DEF IInv, FileInv, fVars
<1>10. LineInv'
  <2>1. l \notin Matched /\ \A d \in Consumer : matching[d] # None => matching[d][1] # l
    BY <1>3 DEF IInv, LineInv, Matched
  <2>2. \A d, e \in Consumer :
          matching'[d] # None /\ matching'[e] # None /\ matching'[d][1] = matching'[e][1] => d = e
    BY <1>5, <2>1 DEF IInv, LineInv
  <2> QED BY <1>3, <1>6, <2>1, <2>2 DEF IInv, LineInv
<1>11. OrderInv'
  BY <1>3, <1>4, <1>6 DEF IInv, OrderInv
<1>12. PrintInv'
  <2>1. \A m \in Match : Pending(m)' <=> Pending(m)
    <3> SUFFICES ASSUME NEW m \in Match PROVE Pending(m)' <=> Pending(m)
      OBVIOUS
    <3>1. m[1] \in Line /\ m[2] \in Nat \ {0}
      BY MatchIs
    <3>2. CASE m[1] = l
      <4>1. Pending(m)
        BY <1>3, <3>2 DEF Pending
      <4>2. matching'[c] # None /\ matching'[c][1] = m[1] /\ matching'[c][2] < m[2]
        BY <1>5, <3>1, <3>2
      <4> QED BY <4>1, <4>2 DEF Pending
    <3>3. CASE m[1] # l
      <4>1. m[1] \in Unreads' \cup Queued(lQueue') <=> m[1] \in Unreads \cup Queued(lQueue)
        BY <1>3, <1>6, <3>3
      <4>2. \A d \in Consumer :
              matching'[d] # None /\ matching'[d][1] = m[1] /\ matching'[d][2] < m[2]
                <=> matching[d] # None /\ matching[d][1] = m[1] /\ matching[d][2] < m[2]
        BY <1>2, <1>5, <3>3
      <4> QED BY <4>1, <4>2 DEF Pending
    <3> QED BY <3>2, <3>3
  <2> QED BY <1>1, <2>1 DEF IInv, PrintInv
<1> QED BY <1>7, <1>8, <1>9, <1>10, <1>11, <1>12 DEF IInv

LEMMA WaitsForLineKeeps ==
  ASSUME IInv, NEW c \in Consumer,
         \/ GetsLine(c) /\ LineJobs!GetNone(c) /\ Stops(c) /\ UNCHANGED fVars
         \/ GetsNoLineLater(c)
         \/ /\ GetsLine(c) /\ LineJobs!GetBlocks(c)
            /\ UNCHANGED << fVars, mainAt, unlisted, reading, matching, done, printed >>
  PROVE  IInv'
<1> USE ThreadAssumption
<1>1. /\ TypeOK /\ lQueue = << >>
      /\ UNCHANGED << lQueue, lClosed, lArg, fVars, mainAt, unlisted, reading, matching, printed >>
  BY DEF IInv, GetsNoLineLater, Stops, LineJobs!GetNone, LineJobs!GetBlocks,
         LineJobs!GetResumesNone, LineJobs!vars
<1>2. /\ c \notin done /\ matching[c] = None
      /\ lPending' \in [Producer \cup Consumer -> {"none", "put", "get"}]
      /\ \A t \in (Producer \cup Consumer) \ {c} : lPending'[t] = lPending[t]
      /\ \/ lPending'[c] = "none" /\ done' = done \cup {c} /\ lClosed
         \/ lPending'[c] = "get" /\ done' = done
  <2>1. CASE GetsLine(c) /\ LineJobs!GetNone(c) /\ Stops(c)
    BY <1>1, <2>1 DEF GetsLine, LineJobs!GetNone, LineJobs!vars, LineJobs!Idle, Stops, TypeOK
  <2>2. CASE GetsNoLineLater(c)
    <3>1. /\ lPending[c] = "get" /\ lPending' = [lPending EXCEPT ![c] = "none"]
          /\ lClosed /\ done' = done \cup {c}
      BY <2>2 DEF GetsNoLineLater, LineJobs!GetResumesNone, Stops
    <3> QED BY <1>1, <3>1 DEF IInv, TypeOK, CallInv
  <2>3. CASE GetsLine(c) /\ LineJobs!GetBlocks(c) /\ done' = done
    BY <1>1, <2>3 DEF GetsLine, LineJobs!GetBlocks, LineJobs!Idle, TypeOK
  <2> QED BY <2>1, <2>2, <2>3
<1>3. TypeOK'
  BY <1>1, <1>2 DEF TypeOK, fVars
<1>4. CallInv'
  BY <1>1, <1>2 DEF IInv, CallInv, fVars
<1>5. CloseInv'
  BY <1>1, <1>2 DEF IInv, CloseInv, fVars
<1>6. FileInv' /\ LineInv' /\ OrderInv' /\ PrintInv'
  BY <1>1, UnreadsStay, LinesStay DEF IInv, FileInv, fVars
<1> QED BY <1>3, <1>4, <1>5, <1>6 DEF IInv

LEMMA PrintsKeeps == ASSUME IInv, NEW c \in Consumer, Prints(c) PROVE IInv'
<1> USE ThreadAssumption
<1> DEFINE l == matching[c][1]
           k == matching[c][2]
           m == << l, k + 1 >>
<1>1. /\ TypeOK /\ matching[c] # None
      /\ \/ m \in Match /\ printed' = [printed EXCEPT ![m] = @ + 1]
            /\ matching' = [matching EXCEPT ![c] = m]
         \/ m \notin Match /\ printed' = printed /\ matching' = [matching EXCEPT ![c] = None]
      /\ UNCHANGED << fVars, lVars, mainAt, unlisted, reading, done >>
  BY DEF IInv, Prints
<1>2. l \in Line /\ k \in Nat /\ m \in Line \X Nat /\ m # None
  <2>1. l \in Line /\ k \in Nat
    BY <1>1 DEF TypeOK
  <2>2. l \in File \X Nat
    BY <2>1, LineIs
  <2> QED BY <2>1, <2>2, NoneAssumption
<1>3. /\ l \in Matched /\ l \notin Unreads \cup Queued(lQueue)
      /\ l[1] \in TxtFile
      /\ \A d \in Consumer : d # c /\ matching[d] # None => matching[d][1] # l
  <2>1. l \in Matched
    BY <1>1, <1>2 DEF Matched
  <2> QED BY <1>1, <2>1 DEF IInv, LineInv
<1>4. /\ \A d \in Consumer : d # c => matching'[d] = matching[d]
      /\ matching'[c] = IF m \in Match THEN m ELSE None
  BY <1>1 DEF TypeOK
<1>5. /\ m[1] = l /\ m[2] = k + 1
      /\ UNCHANGED << lQueue, lClosed, lPending, lArg >>
  BY <1>1 DEF lVars
<1>6. Unreads' = Unreads
  BY <1>1, UnreadsStay DEF fVars
<1>7. \A x \in Match : x[1] = l => x[2] \in Nat /\ (x[2] > k => m \in Match)
  <2>1. k + 1 \in Nat \ {0} /\ Content[l[1]][l[2]] \in Nat
    BY <1>2, MatchIs
  <2>2. m \in Match <=> k + 1 <= Content[l[1]][l[2]]
    BY <1>2, <2>1, MatchIs
  <2> SUFFICES ASSUME NEW x \in Match, x[1] = l
               PROVE  x[2] \in Nat /\ (x[2] > k => k + 1 <= Content[l[1]][l[2]])
    BY <2>2
  <2>3. x = << l, x[2] >> /\ x[2] \in Nat \ {0}
    BY MatchIs
  <2>4. x[2] <= Content[l[1]][l[2]]
    BY <1>2, <2>3, MatchIs
  <2> QED BY <1>2, <2>1, <2>3, <2>4
<1> HIDE DEF l, k, m
<1>8. TypeOK'
  <2>1. printed' \in [Match -> Nat]
    BY <1>1 DEF TypeOK
  <2>2. matching' \in [Consumer -> {None} \cup (Line \X Nat)]
    BY <1>1, <1>2 DEF TypeOK
  <2> QED BY <1>1, <2>1, <2>2 DEF TypeOK, fVars, lVars
<1>9. CallInv' /\ CloseInv'
  BY <1>1, <1>4 DEF IInv, CallInv, CloseInv, fVars, lVars
<1>10. FileInv'
  BY <1>1, UnreadsStay DEF IInv, FileInv, fVars
<1>11. Matched' \subseteq Matched
  <2>1. \A d \in Consumer : matching'[d] # None =>
          matching[d] # None /\ matching'[d][1] = matching[d][1]
    BY <1>1, <1>4, <1>5 DEF l
  <2> QED BY <2>1 DEF Matched
<1>12. LineInv' /\ OrderInv'
  <2>1. \A d, e \in Consumer :
          matching'[d] # None /\ matching'[e] # None /\ matching'[d][1] = matching'[e][1] => d = e
    BY <1>3, <1>4, <1>5 DEF IInv, LineInv
  <2> QED BY <1>5, <1>6, <1>11, <2>1 DEF IInv, LineInv, OrderInv
<1>13. \A x \in Match : x[1] # l => (Pending(x)' <=> Pending(x)) /\ printed'[x] = printed[x]
  <2> SUFFICES ASSUME NEW x \in Match, x[1] # l
               PROVE  (Pending(x)' <=> Pending(x)) /\ printed'[x] = printed[x]
    OBVIOUS
  <2>1. printed'[x] = printed[x]
    BY <1>1, <1>5 DEF TypeOK
  <2>2. \A d \in Consumer :
          matching'[d] # None /\ matching'[d][1] = x[1] /\ matching'[d][2] < x[2]
            <=> matching[d] # None /\ matching[d][1] = x[1] /\ matching[d][2] < x[2]
    BY <1>4, <1>5 DEF l
  <2> QED BY <1>5, <1>6, <2>1, <2>2 DEF Pending
<1>14. \A x \in Match : x[1] = l =>
         /\ Pending(x) <=> x[2] > k
         /\ Pending(x)' <=> x[2] > k + 1
  <2> SUFFICES ASSUME NEW x \in Match, x[1] = l
               PROVE  (Pending(x) <=> x[2] > k) /\ (Pending(x)' <=> x[2] > k + 1)
    OBVIOUS
  <2>1. x[2] \in Nat /\ (x[2] > k => m \in Match)
    BY <1>7
  <2>2. Pending(x) <=> x[2] > k
    <3>1. matching[c] # None /\ matching[c][1] = l /\ matching[c][2] = k
      BY <1>1 DEF l, k
    <3> QED BY <1>2, <1>3, <2>1, <3>1 DEF Pending
  <2>3. Pending(x)' <=> x[2] > k + 1
    <3>1. m \in Match => matching'[c] # None /\ matching'[c][1] = l /\ matching'[c][2] = k + 1
      BY <1>2, <1>4, <1>5
    <3>2. m \notin Match => matching'[c] = None
      BY <1>4
    <3>3. x[1] \notin Unreads' \cup Queued(lQueue')
      BY <1>3, <1>5, <1>6
    <3>4. \A d \in Consumer : d # c /\ matching'[d] # None => matching'[d][1] # l
      BY <1>3, <1>4
    <3> QED BY <1>2, <2>1, <3>1, <3>2, <3>3, <3>4 DEF Pending
  <2> QED BY <2>2, <2>3
<1>15. PrintInv'
  <2> SUFFICES ASSUME NEW x \in Match
               PROVE  printed'[x] = IF Pending(x)' \/ x[1][1] \notin TxtFile THEN 0 ELSE 1
    BY DEF PrintInv
  <2>1. printed[x] = IF Pending(x) \/ x[1][1] \notin TxtFile THEN 0 ELSE 1
    BY DEF IInv, PrintInv
  <2>2. CASE x[1] # l
    BY <1>13, <2>1, <2>2
  <2>3. CASE x = m
    <3>1. printed'[x] = printed[x] + 1
      BY <1>1, <2>3 DEF TypeOK
    <3>2. Pending(x) /\ ~Pending(x)'
      BY <1>2, <1>5, <1>14, <2>3
    <3> QED BY <1>3, <1>5, <2>1, <2>3, <3>1, <3>2
  <2>4. CASE x[1] = l /\ x # m
    <3>1. x = << x[1], x[2] >> /\ x[2] \in Nat
      BY MatchIs
    <3>2. x[2] # k + 1
      BY <2>4, <3>1 DEF m
    <3>3. Pending(x)' <=> Pending(x)
      BY <1>2, <1>14, <2>4, <3>1, <3>2
    <3>4. printed'[x] = printed[x]
      BY <1>1, <2>4 DEF TypeOK
    <3> QED BY <2>1, <3>3, <3>4
  <2> QED BY <2>2, <2>3, <2>4
<1> QED BY <1>8, <1>9, <1>10, <1>12, <1>15 DEF IInv

-----------------------------------------------------------------------------
LEMMA IInvNext == IInv /\ [Next]_vars => IInv'
<1> SUFFICES ASSUME IInv, [Next]_vars PROVE IInv'
  OBVIOUS
<1>1. CASE UNCHANGED vars
  BY <1>1 DEF vars, fVars, lVars, IInv, TypeOK, CallInv, CloseInv, FileInv, LineInv, OrderInv,
              PrintInv, Pending, Unreads, Unread, Matched, ReadFiles
<1>2. CASE MainRuns
  BY <1>2, ListsEntryKeeps, ClosesKeeps DEF MainRuns
<1>3. CASE ListsEntryLater
  BY <1>3, ListsEntryLaterKeeps
<1>4. ASSUME NEW p \in Producer,
             ProducerRuns(p) \/ GetsFileLater(p) \/ GetsNoFileLater(p) \/ PutsLineLater(p)
      PROVE  IInv'
  <2>1. CASE GetsFile(p)
    <3>1. CASE FileJobs!GetReturns(p) /\ StartsReading(p, Head(fQueue))
      BY <2>1, <3>1, TakesFileKeeps
    <3>2. CASE FileJobs!GetNone(p) /\ Stops(p) /\ UNCHANGED lVars
      BY <2>1, <3>2, WaitsForFileKeeps
    <3>3. CASE /\ FileJobs!GetBlocks(p)
               /\ UNCHANGED << lVars, mainAt, unlisted, reading, matching, done, printed >>
      BY <2>1, <3>3, WaitsForFileKeeps
    <3> QED BY <2>1, <3>1, <3>2, <3>3 DEF GetsFile
  <2>2. CASE PutsLine(p)
    <3>1. CASE LineJobs!PutReturns(p, reading[p]) /\ Advances(p)
      BY <2>2, <3>1, PutsLineKeeps
    <3>2. CASE /\ LineJobs!PutBlocks(p, reading[p])
               /\ UNCHANGED << fVars, mainAt, unlisted, reading, matching, done, printed >>
      BY <2>2, <3>2, WaitsForRoomKeeps
    <3> QED BY <2>2, <3>1, <3>2 DEF PutsLine
  <2>3. CASE EndsFile(p)
    BY <2>3, EndsFileKeeps
  <2>4. CASE GetsFileLater(p)
    BY <2>4, TakesFileKeeps
  <2>5. CASE GetsNoFileLater(p)
    BY <2>5, WaitsForFileKeeps
  <2>6. CASE PutsLineLater(p)
    BY <2>6, PutsLineKeeps
  <2> QED BY <1>4, <2>1, <2>2, <2>3, <2>4, <2>5, <2>6 DEF ProducerRuns
<1>5. ASSUME NEW c \in Consumer, ConsumerRuns(c) \/ GetsLineLater(c) \/ GetsNoLineLater(c)
      PROVE  IInv'
  <2>1. CASE GetsLine(c)
    <3>1. CASE LineJobs!GetReturns(c) /\ StartsMatching(c, Head(lQueue))
      BY <2>1, <3>1, TakesLineKeeps
    <3>2. CASE LineJobs!GetNone(c) /\ Stops(c) /\ UNCHANGED fVars
      BY <2>1, <3>2, WaitsForLineKeeps
    <3>3. CASE /\ LineJobs!GetBlocks(c)
               /\ UNCHANGED << fVars, mainAt, unlisted, reading, matching, done, printed >>
      BY <2>1, <3>3, WaitsForLineKeeps
    <3> QED BY <2>1, <3>1, <3>2, <3>3 DEF GetsLine
  <2>2. CASE Prints(c)
    BY <2>2, PrintsKeeps
  <2>3. CASE GetsLineLater(c)
    BY <2>3, TakesLineKeeps
  <2>4. CASE GetsNoLineLater(c)
    BY <2>4, WaitsForLineKeeps
  <2> QED BY <1>5, <2>1, <2>2, <2>3, <2>4 DEF ConsumerRuns
<1> QED BY <1>1, <1>2, <1>3, <1>4, <1>5 DEF Next

LEMMA IInvHolds == Spec => []IInv
<1>1. Init => IInv
  BY IInvInit
<1>2. IInv /\ [Next]_vars => IInv'
  BY IInvNext
<1> QED BY <1>1, <1>2, PTL DEF Spec

-----------------------------------------------------------------------------
(* Main closes each queue after the last put() on it, so that no thread    *)
(* ever meets the std::logic_error of put() that nobody catches.           *)
THEOREM NoPutOnClosedQueueHolds == Spec => []NoPutOnClosedQueue
<1>1. IInv => NoPutOnClosedQueue
  <2> SUFFICES ASSUME IInv PROVE NoPutOnClosedQueue
    OBVIOUS
  <2>1. unlisted # {} => ~fClosed
    BY DEF IInv, CloseInv
  <2>2. ASSUME lClosed, NEW p \in Producer
        PROVE  reading[p] = None /\ lPending[p] = "none" /\ p \in done
    <3>1. p \in done /\ reading[p] = None
      BY <2>2 DEF IInv, CloseInv
    <3>2. None \notin Line
      BY LineIs, NoneAssumption
    <3>3. lPending[p] \in {"none", "put", "get"}
      BY DEF IInv, TypeOK
    <3> QED BY <3>1, <3>2, <3>3 DEF IInv, CallInv
  <2> QED BY <2>1, <2>2 DEF NoPutOnClosedQueue
<1> QED BY <1>1, IInvHolds, PTL

LEMMA AtMostOne ==
  ASSUME NEW S, \A x, y \in S : x = y
  PROVE  Cardinality(S) = IF S = {} THEN 0 ELSE 1
<1>1. CASE S = {}
  BY <1>1, FS_EmptySet
<1>2. CASE S # {}
  <2>1. PICK x \in S : S = {x}
    BY <1>2
  <2> QED BY <1>2, <2>1, FS_Singleton
<1> QED BY <1>1, <1>2

(* No line is lost or duplicated on its way through the two queues, and at *)
(* the end each match of each .txt file has been printed exactly once.     *)
THEOREM MatchesPrintedOnceHolds == Spec => []MatchesPrintedOnce
<1>1. IInv => NothingDuplicated
  <2> SUFFICES ASSUME IInv PROVE NothingDuplicated
    OBVIOUS
  <2>1. ASSUME NEW l \in Line PROVE Copies(l) + (IF Unread(l) THEN 1 ELSE 0) <= 1
    <3> DEFINE InQueue == {i \in 1 .. Len(lQueue) : lQueue[i] = l}
               InHands == {c \in Consumer : matching[c] # None /\ matching[c][1] = l}
    <3>1. Cardinality(InQueue) = IF InQueue = {} THEN 0 ELSE 1
      <4>1. \A i, j \in InQueue : i = j
        BY DEF IInv, LineInv, Distinct
      <4> QED BY <4>1, AtMostOne, Zenon
    <3>2. Cardinality(InHands) = IF InHands = {} THEN 0 ELSE 1
      <4>1. \A c, d \in InHands : c = d
        BY DEF IInv, LineInv
      <4> QED BY <4>1, AtMostOne, Zenon
    <3>3. /\ InQueue # {} => l \in Queued(lQueue)
          /\ InHands # {} => l \in Matched
          /\ Unread(l) => l \in Unreads
      BY DEF Queued, Matched, Unreads
    <3>4. /\ ~(InQueue # {} /\ InHands # {})
          /\ Unread(l) => InQueue = {} /\ InHands = {}
      BY <3>3 DEF IInv, LineInv
    <3>5. Copies(l) = Cardinality(InQueue) + Cardinality(InHands)
      BY DEF Copies
    <3> HIDE DEF InQueue, InHands
    <3> QED BY <3>1, <3>2, <3>4, <3>5
  <2>2. \A m \in Match : m[1] \in Line
    BY MatchIs
  <2>3. \A m \in Match :
          Pending(m) <=> \/ Unread(m[1])
                         \/ \E i \in 1 .. Len(lQueue) : lQueue[i] = m[1]
                         \/ \E c \in Consumer :
                              matching[c] # None /\ matching[c][1] = m[1] /\ matching[c][2] < m[2]
    BY <2>2 DEF Pending, Unreads, Queued
  <2> QED BY <2>1, <2>3 DEF NothingDuplicated, IInv, PrintInv
<1>2. IInv => ExitComplete
  <2> SUFFICES ASSUME IInv, mainAt = "exit"
               PROVE  /\ \A m \in Match : printed[m] = IF m[1][1] \in TxtFile THEN 1 ELSE 0
                      /\ Producer \cup Consumer \subseteq done
                      /\ fQueue = << >> /\ lQueue = << >>
    BY DEF ExitComplete
  <2>1. /\ Producer \cup Consumer \subseteq done /\ fQueue = << >> /\ lQueue = << >>
        /\ unlisted = {} /\ fArg[Main] = None
        /\ \A p \in Producer : reading[p] = None
        /\ \A c \in Consumer : matching[c] = None
    BY ThreadAssumption DEF IInv, CloseInv, CallInv
  <2>2. \A l \in Line : l[1] # None
    BY LineIs, NoneAssumption
  <2>3. Unreads = {} /\ Queued(lQueue) = {}
    BY <2>1, <2>2 DEF Unreads, Unread, Queued
  <2>4. \A m \in Match : ~Pending(m)
    BY <2>1, <2>3 DEF Pending
  <2> QED BY <2>1, <2>4 DEF IInv, PrintInv
<1> QED BY <1>1, <1>2, IInvHolds, PTL DEF MatchesPrintedOnce

(* A line that is taken from line_jobs has every earlier line of its file  *)
(* behind it: none is still unread and none is still in the queue.         *)
THEOREM LinesTakenInOrderHolds == Spec => LinesTakenInOrder
<1>1. ASSUME IInv, IInv'
      PROVE  \A l \in Line :
               Len(lQueue') < Len(lQueue) /\ Head(lQueue) = l =>
                 \A k \in 1 .. l[2] - 1 :
                   ~Unread(<< l[1], k >>) /\ \A i \in 1 .. Len(lQueue) : lQueue[i] # << l[1], k >>
  <2> SUFFICES ASSUME NEW l \in Line, Len(lQueue') < Len(lQueue), Head(lQueue) = l,
                      NEW k \in 1 .. l[2] - 1
               PROVE  ~Unread(<< l[1], k >>) /\ \A i \in 1 .. Len(lQueue) : lQueue[i] # << l[1], k >>
    OBVIOUS
  <2>1. /\ lQueue \in Seq(Line) /\ Len(lQueue) \in Nat /\ 1 \in 1 .. Len(lQueue) /\ lQueue[1] = l
    <3>1. lQueue \in Seq(Line) /\ lQueue' \in Seq(Line)
      BY <1>1 DEF IInv, TypeOK
    <3> QED BY <3>1
  <2>2. l \in Queued(lQueue)
    BY <2>1 DEF Queued
  <2>3. /\ l = << l[1], l[2] >> /\ l[1] \in File /\ l[2] \in Nat \ {0} /\ k \in Nat \ {0} /\ k < l[2]
        /\ << l[1], k >> \in Line
    <3>1. l = << l[1], l[2] >> /\ l[1] \in File /\ l[2] \in Nat \ {0}
      BY LineIs
    <3>2. l[2] <= Len(Content[l[1]]) /\ Len(Content[l[1]]) \in Nat
      BY <3>1, LineIs
    <3>3. k \in Nat \ {0} /\ k < l[2] /\ k <= Len(Content[l[1]])
      BY <3>1, <3>2
    <3> QED BY <3>1, <3>3, LineIs
  <2>4. ~Unread(<< l[1], k >>)
    BY <1>1, <2>2, <2>3 DEF IInv, OrderInv, Unreads
  <2>5. ASSUME NEW i \in 1 .. Len(lQueue) PROVE lQueue[i] # << l[1], k >>
    <3>1. CASE i = 1
      BY <2>1, <2>3, <3>1
    <3>2. CASE i # 1
      <4>1. 1 < i
        BY <2>1, <3>2
      <4>2. lQueue[i][1] = l[1] => l[2] < lQueue[i][2]
        BY <1>1, <2>1, <4>1 DEF IInv, OrderInv, Ordered
      <4> QED BY <2>3, <4>2
    <3> QED BY <3>1, <3>2
  <2> QED BY <2>4, <2>5
<1> QED BY <1>1, IInvHolds, PTL DEF LinesTakenInOrder
=============================================================================
