----------------------- MODULE ThreadMapReduceProofs ------------------------
(***************************************************************************)
(* Theorems about ThreadMapReduce, for any input, any map functions and    *)
(* any positive numbers of mappers and reducers over queues of any size:   *)
(* the queues are closed in order, and the threads implement the safety    *)
(* part of UnorderedMapReduce.                                             *)
(*                                                                         *)
(* The argument follows a line through the program.  It is at one place at *)
(* a time: still in the file, held by main in a blocked put(), in          *)
(* line_jobs, with a mapper, in result_jobs, with a reducer or             *)
(* accumulated; and a line that yields a result is always at one of them.  *)
(***************************************************************************)
EXTENDS ThreadMapReduce, SequenceTheorems, TLAPS

Queued(q) == {q[n] : n \in 1 .. Len(q)}

Distinct(q) == \A i, j \in 1 .. Len(q) : q[i] = q[j] => i = j

Unread == {i \in Line : next <= i}

Held == {i \in Line : lPending[Main] = "put" /\ lArg[Main] = i}

Mapped == {i \in Line : \E m \in Mapper : mapping[m] # None /\ mapping[m][1] = i}

Reduced == {i \in Line : \E r \in Reducer : reducing[r] = i}

Accumulated == UNION {{accs[k][n] : n \in DOMAIN accs[k]} : k \in Key}

Yielding == {i \in Line : Running /\ KeyOf(call, Input[i]) # NoKey}

TypeOK ==
  /\ lQueue \in Seq(Line) /\ lClosed \in BOOLEAN
  /\ lPending \in [Mapper \cup {Main} -> {"none", "put", "get"}]
  /\ lArg \in [Mapper \cup {Main} -> Line \cup {None}]
  /\ rQueue \in Seq(Line) /\ rClosed \in BOOLEAN
  /\ rPending \in [Mapper \cup Reducer -> {"none", "put", "get"}]
  /\ rArg \in [Mapper \cup Reducer -> Line \cup {None}]
  /\ call \in Nat \ {0}
  /\ mainAt \in {"reading", "joining_mappers", "joining_reducers"}
  /\ next \in Nat \ {0}
  /\ mapping \in [Mapper -> {None} \cup (Line \X Nat)]
  /\ reducing \in [Reducer -> Line \cup {None}]
  /\ done \in SUBSET (Mapper \cup Reducer)
  /\ accs \in [Key -> Seq(Line)]

(* What a blocked call of each thread is about.                            *)
CallInv ==
  /\ lPending[Main] = "put" => lArg[Main] \in Line
  /\ lPending[Main] # "get"
  /\ \A m \in Mapper :
       /\ lPending[m] # "put" /\ rPending[m] # "get"
       /\ lPending[m] = "get" => mapping[m] = None /\ m \notin done
       /\ rPending[m] = "put" =>
            mapping[m] # None /\ rArg[m] = mapping[m][1] /\ rArg[m] \in Yielding
  /\ \A r \in Reducer :
       /\ rPending[r] # "put"
       /\ rPending[r] = "get" => reducing[r] = None /\ r \notin done

(* The order in which main closes and joins, and what a thread that has    *)
(* returned leaves behind.                                                 *)
CloseInv ==
  /\ lClosed <=> mainAt # "reading"
  /\ lClosed => next \notin Line /\ lPending[Main] = "none"
  /\ rClosed <=> mainAt = "joining_reducers"
  /\ rClosed => Mapper \subseteq done
  /\ \A m \in Mapper \cap done :
       lClosed /\ lQueue = << >> /\ mapping[m] = None
  /\ \A r \in Reducer \cap done :
       rClosed /\ rQueue = << >> /\ reducing[r] = None

(* Nothing runs before the first call of main() or after the last.         *)
CallsInv ==
  Running \/ /\ mainAt = "reading" /\ lPending[Main] = "none"
             /\ lQueue = << >> /\ rQueue = << >>
             /\ \A m \in Mapper :
                  lPending[m] = "none" /\ rPending[m] = "none" /\ mapping[m] = None
             /\ \A r \in Reducer : rPending[r] = "none" /\ reducing[r] = None

(* A line is at one place, once.                                           *)
OnceInv ==
  /\ Distinct(lQueue) /\ Distinct(rQueue)
  /\ \A m, n \in Mapper :
       mapping[m] # None /\ mapping[n] # None /\ mapping[m][1] = mapping[n][1] => m = n
  /\ \A r, s \in Reducer : reducing[r] # None /\ reducing[r] = reducing[s] => r = s

Apart(u, h, l, m, q, r, a) ==
  /\ u \cap h = {} /\ (u \cup h) \cap (l \cup m \cup q \cup r \cup a) = {}
  /\ l \cap (m \cup q \cup r \cup a) = {}
  /\ m \cap (q \cup r \cup a) = {}
  /\ q \cap (r \cup a) = {} /\ r \cap a = {}

PlaceInv ==
  /\ Apart(Unread, Held, Queued(lQueue), Mapped, Queued(rQueue), Reduced, Accumulated)
  /\ Yielding \subseteq Unread \cup Held \cup Queued(lQueue) \cup Mapped
                          \cup Queued(rQueue) \cup Reduced \cup Accumulated
  /\ Queued(rQueue) \cup Reduced \subseteq Yielding

IInv == TypeOK /\ CallInv /\ CloseInv /\ CallsInv /\ OnceInv /\ PlaceInv

-----------------------------------------------------------------------------
(* Queues without repetition, as sets.                                     *)
LEMMA AppendQueued ==
  ASSUME NEW S, NEW q \in Seq(S), NEW x \in S
  PROVE  /\ Append(q, x) \in Seq(S) /\ Queued(q) \subseteq S
         /\ Queued(Append(q, x)) = Queued(q) \cup {x}
         /\ Distinct(q) /\ x \notin Queued(q) => Distinct(Append(q, x))
<1>1. /\ Append(q, x) \in Seq(S) /\ Len(Append(q, x)) = Len(q) + 1 /\ Len(q) \in Nat
      /\ \A i \in 1 .. Len(q) : Append(q, x)[i] = q[i] /\ q[i] \in S
      /\ Append(q, x)[Len(q) + 1] = x
  OBVIOUS
<1>2. \A i \in 1 .. Len(q) + 1 : i \in 1 .. Len(q) \/ i = Len(q) + 1
  BY <1>1
<1>3. \A i \in 1 .. Len(q) : i \in 1 .. Len(q) + 1
  BY <1>1
<1>4. Len(q) + 1 \in 1 .. Len(q) + 1
  BY <1>1
<1>5. Queued(Append(q, x)) = Queued(q) \cup {x}
  <2>1. ASSUME NEW y \in Queued(Append(q, x)) PROVE y \in Queued(q) \cup {x}
    <3>1. PICK i \in 1 .. Len(q) + 1 : y = Append(q, x)[i]
      BY <1>1, <2>1 DEF Queued
    <3> QED BY <1>1, <1>2, <3>1 DEF Queued
  <2>2. ASSUME NEW y \in Queued(q) PROVE y \in Queued(Append(q, x))
    <3>1. PICK i \in 1 .. Len(q) : y = q[i]
      BY <2>2 DEF Queued
    <3>2. y = Append(q, x)[i] /\ i \in 1 .. Len(Append(q, x))
      BY <1>1, <1>3, <3>1
    <3> QED BY <3>2 DEF Queued
  <2>3. x \in Queued(Append(q, x))
    BY <1>1, <1>4 DEF Queued
  <2> QED BY <2>1, <2>2, <2>3
<1>6. ASSUME Distinct(q), x \notin Queued(q) PROVE Distinct(Append(q, x))
  <2>1. \A i \in 1 .. Len(q) : q[i] # x
    BY <1>6 DEF Queued
  <2> QED BY <1>1, <1>2, <1>6, <2>1 DEF Distinct
<1>7. Queued(q) \subseteq S
  BY <1>1 DEF Queued
<1> QED BY <1>1, <1>5, <1>6, <1>7

LEMMA TailQueued ==
  ASSUME NEW S, NEW q \in Seq(S), q # << >>, Distinct(q)
  PROVE  /\ Head(q) \in S /\ Head(q) \in Queued(q) /\ Queued(q) \subseteq S
         /\ Tail(q) \in Seq(S)
         /\ Queued(Tail(q)) = Queued(q) \ {Head(q)}
         /\ Distinct(Tail(q))
<1>1. /\ Len(q) \in Nat /\ Len(q) > 0 /\ Head(q) = q[1]
      /\ Tail(q) \in Seq(S) /\ Len(Tail(q)) = Len(q) - 1
      /\ \A i \in 1 .. Len(q) : q[i] \in S
      /\ \A i \in 1 .. Len(q) - 1 : Tail(q)[i] = q[i + 1]
  OBVIOUS
<1>2. 1 \in 1 .. Len(q)
  BY <1>1
<1>3. \A i \in 1 .. Len(q) - 1 : i + 1 \in 1 .. Len(q) /\ i + 1 # 1
  BY <1>1
<1>4. \A i \in 1 .. Len(q) : i # 1 => i - 1 \in 1 .. Len(q) - 1 /\ (i - 1) + 1 = i
  BY <1>1
<1>5. Queued(Tail(q)) = Queued(q) \ {Head(q)}
  <2>1. ASSUME NEW y \in Queued(Tail(q)) PROVE y \in Queued(q) /\ y # Head(q)
    <3>1. PICK i \in 1 .. Len(q) - 1 : y = Tail(q)[i]
      BY <1>1, <2>1 DEF Queued
    <3>2. y = q[i + 1] /\ i + 1 \in 1 .. Len(q) /\ i + 1 # 1
      BY <1>1, <1>3, <3>1
    <3> QED BY <1>1, <1>2, <3>2 DEF Queued, Distinct
  <2>2. ASSUME NEW y \in Queued(q), y # Head(q) PROVE y \in Queued(Tail(q))
    <3>1. PICK i \in 1 .. Len(q) : y = q[i]
      BY <2>2 DEF Queued
    <3>2. i # 1
      BY <1>1, <2>2, <3>1
    <3>3. y = Tail(q)[i - 1] /\ i - 1 \in 1 .. Len(Tail(q))
      BY <1>1, <1>4, <3>1, <3>2
    <3> QED BY <3>3 DEF Queued
  <2> QED BY <2>1, <2>2
<1>6. Distinct(Tail(q))
  <2> SUFFICES ASSUME NEW i \in 1 .. Len(q) - 1, NEW j \in 1 .. Len(q) - 1,
                      Tail(q)[i] = Tail(q)[j]
               PROVE  i = j
    BY <1>1 DEF Distinct
  <2>1. q[i + 1] = q[j + 1]
    BY <1>1
  <2>2. i + 1 = j + 1
    BY <1>3, <2>1 DEF Distinct
  <2> QED BY <1>1, <2>2
<1>7. Head(q) \in Queued(q) /\ Queued(q) \subseteq S
  BY <1>1, <1>2 DEF Queued
<1> QED BY <1>1, <1>5, <1>6, <1>7

(* The keys that results are grouped by.                                   *)
LEMMA KeyTyped ==
  ASSUME call \in Nat \ {0}, Running, NEW i \in Line
  PROVE  KeyOf(call, Input[i]) \in Key \cup {NoKey}
<1> DEFINE Record == [count : Key \cup {NoKey}, hasIp : BOOLEAN, quoted : Seq(Key \cup {NoKey})]
<1>1. Input[i].count \in Key \cup {NoKey} /\ BadCode \subseteq Key
  <2>1. Input \in Seq(Record) /\ i \in 1 .. Len(Input) /\ BadCode \subseteq Key
    BY InputAssumption DEF Line
  <2>2. Input[i] \in Record
    <3> HIDE DEF Record
    <3> QED BY <2>1
  <2> QED BY <2>1, <2>2
<1>2. CASE Calls[call] = "count"
  BY <1>1, <1>2 DEF KeyOf
<1>3. CASE Calls[call] # "count" /\ Input[i].hasIp /\ FirstCode(Input[i]) \in BadCode
  <2>1. KeyOf(call, Input[i]) = FirstCode(Input[i])
    BY <1>3 DEF KeyOf
  <2> QED BY <1>1, <1>3, <2>1
<1>4. CASE Calls[call] # "count" /\ ~(Input[i].hasIp /\ FirstCode(Input[i]) \in BadCode)
  BY <1>4, Zenon DEF KeyOf
<1> QED BY <1>2, <1>3, <1>4

-----------------------------------------------------------------------------
LEMMA IInvInit == Init => IInv
<1> SUFFICES ASSUME Init PROVE IInv
  OBVIOUS
<1> USE ThreadAssumption, NoneAssumption DEF Init, LineJobs!Init, ResultJobs!Init
<1>1. TypeOK
  <2>1. << >> \in Seq(Line)
    OBVIOUS
  <2>2. accs \in [Key -> Seq(Line)]
    BY <2>1
  <2>3. mapping \in [Mapper -> {None} \cup (Line \X Nat)]
    OBVIOUS
  <2>4. reducing \in [Reducer -> Line \cup {None}]
    OBVIOUS
  <2>5. lQueue \in Seq(Line) /\ rQueue \in Seq(Line)
    BY <2>1
  <2>6. /\ lPending \in [Mapper \cup {Main} -> {"none", "put", "get"}]
        /\ lArg \in [Mapper \cup {Main} -> Line \cup {None}]
    OBVIOUS
  <2>7. /\ rPending \in [Mapper \cup Reducer -> {"none", "put", "get"}]
        /\ rArg \in [Mapper \cup Reducer -> Line \cup {None}]
    OBVIOUS
  <2>8. done = {} /\ call = 1 /\ next = 1 /\ mainAt = "reading"
    OBVIOUS
  <2>9. lClosed \in BOOLEAN /\ rClosed \in BOOLEAN
    BY Zenon
  <2> QED BY ONLY <2>2, <2>3, <2>4, <2>5, <2>6, <2>7, <2>8, <2>9 DEF TypeOK
<1>2. CallInv /\ CloseInv
  BY DEF CallInv, CloseInv
<1>3. CallsInv
  BY DEF CallsInv
<1>4. Queued(lQueue) = {} /\ Queued(rQueue) = {} /\ OnceInv
  BY DEF Queued, Distinct, OnceInv
<1>5. Unread = Line /\ Held = {} /\ Mapped = {}
  BY DEF Unread, Held, Mapped, Line
<1>6. Reduced = {}
  BY DEF Reduced, Line
<1>7. Accumulated = {}
  BY DEF Accumulated
<1>8. PlaceInv
  BY <1>4, <1>5, <1>6, <1>7 DEF PlaceInv, Apart, Yielding
<1> QED BY <1>1, <1>2, <1>3, <1>4, <1>8 DEF IInv

-----------------------------------------------------------------------------
(* main                                                                    *)
LEMMA ReadsLineKeeps == ASSUME IInv, ReadsLine PROVE IInv'
<1> USE ThreadAssumption
<1>1. /\ TypeOK /\ Running /\ mainAt = "reading" /\ next \in Line /\ next' = next + 1
      /\ UNCHANGED << rVars, call, mainAt, mapping, reducing, done, accs >>
      /\ lPending[Main] = "none" /\ ~lClosed /\ lClosed' = lClosed
  BY DEF IInv, ReadsLine, LineJobs!PutReturns, LineJobs!PutBlocks, LineJobs!Idle
<1>2. /\ next \in Unread /\ Unread' = Unread \ {next} /\ next' \in Nat \ {0}
  BY <1>1, SMTT(30) DEF TypeOK, Unread, Line
<1>3. /\ Mapped' = Mapped /\ Reduced' = Reduced /\ Accumulated' = Accumulated
      /\ Yielding' = Yielding /\ Running' /\ rQueue' = rQueue
  BY <1>1 DEF Mapped, Reduced, Accumulated, Yielding, Running, rVars
<1>4. Held = {}
  BY <1>1 DEF Held
<1>5. CASE LineJobs!PutReturns(Main, next)
  <2>1. lQueue' = Append(lQueue, next) /\ UNCHANGED << lPending, lArg >>
    BY <1>5 DEF LineJobs!PutReturns
  <2>2. next \notin Queued(lQueue)
    BY <1>2 DEF IInv, PlaceInv, Apart
  <2>3. /\ lQueue' \in Seq(Line) /\ Queued(lQueue') = Queued(lQueue) \cup {next}
        /\ Distinct(lQueue')
    BY <1>1, <2>1, <2>2, AppendQueued DEF IInv, TypeOK, OnceInv
  <2>4. TypeOK'
    BY <1>1, <1>2, <2>1, <2>3 DEF TypeOK, rVars
  <2>5. CallInv' /\ CloseInv' /\ CallsInv'
    BY <1>1, <1>3, <2>1 DEF IInv, CallInv, CloseInv, CallsInv, rVars
  <2>6. Held' = Held
    BY <2>1 DEF Held
  <2>7. OnceInv' /\ PlaceInv'
    BY <1>1, <1>2, <1>3, <2>3, <2>6 DEF IInv, OnceInv, PlaceInv, Apart
  <2> QED BY <2>4, <2>5, <2>7 DEF IInv
<1>6. CASE LineJobs!PutBlocks(Main, next)
  <2>1. /\ lQueue' = lQueue
        /\ lPending' = [lPending EXCEPT ![Main] = "put"] /\ lArg' = [lArg EXCEPT ![Main] = next]
    BY <1>6 DEF LineJobs!PutBlocks
  <2>2. TypeOK'
    BY <1>1, <1>2, <2>1 DEF TypeOK, rVars
  <2>3. CallInv' /\ CloseInv' /\ CallsInv'
    BY <1>1, <1>3, <2>1 DEF IInv, TypeOK, CallInv, CloseInv, CallsInv, rVars
  <2>4. Held' = {next}
    BY <1>1, <2>1 DEF Held, TypeOK
  <2>5. OnceInv' /\ PlaceInv'
    BY <1>1, <1>2, <1>3, <1>4, <2>1, <2>4 DEF IInv, OnceInv, PlaceInv, Apart
  <2> QED BY <2>2, <2>3, <2>5 DEF IInv
<1> QED BY <1>5, <1>6 DEF ReadsLine

LEMMA ReadsLineLaterKeeps == ASSUME IInv, ReadsLineLater PROVE IInv'
<1> USE ThreadAssumption
<1> DEFINE i == lArg[Main]
<1>1. /\ TypeOK /\ lPending[Main] = "put" /\ i \in Line
      /\ UNCHANGED << rVars, call, mainAt, next, mapping, reducing, done, accs >>
      /\ lQueue' = Append(lQueue, i) /\ lClosed' = lClosed
      /\ lPending' = [lPending EXCEPT ![Main] = "none"]
      /\ lArg' = [lArg EXCEPT ![Main] = None]
  BY DEF IInv, CallInv, ReadsLineLater, LineJobs!PutResumes
<1>2. ~lClosed /\ mainAt = "reading" /\ Running
  BY <1>1 DEF IInv, CloseInv, CallsInv
<1>3. /\ Unread' = Unread /\ Mapped' = Mapped /\ Reduced' = Reduced
      /\ Accumulated' = Accumulated /\ Yielding' = Yielding /\ Running'
      /\ rQueue' = rQueue
  BY <1>1, <1>2 DEF Unread, Mapped, Reduced, Accumulated, Yielding, Running, rVars
<1>4. Held = {i} /\ Held' = {}
  BY <1>1 DEF Held, TypeOK
<1>5. i \notin Queued(lQueue)
  BY <1>4 DEF IInv, PlaceInv, Apart
<1>6. /\ lQueue' \in Seq(Line) /\ Queued(lQueue') = Queued(lQueue) \cup {i}
      /\ Distinct(lQueue')
  BY <1>1, <1>5, AppendQueued DEF IInv, TypeOK, OnceInv
<1>7. TypeOK'
  BY <1>1, <1>6 DEF TypeOK, rVars
<1>8. CallInv' /\ CloseInv' /\ CallsInv'
  BY <1>1, <1>2, <1>3 DEF IInv, TypeOK, CallInv, CloseInv, CallsInv, rVars
<1> HIDE DEF i
<1>9. OnceInv' /\ PlaceInv'
  BY <1>1, <1>3, <1>4, <1>5, <1>6 DEF IInv, OnceInv, PlaceInv, Apart
<1> QED BY <1>7, <1>8, <1>9 DEF IInv

(* What a step of main or of a thread that returns leaves where it is.      *)
LEMMA PlacesStay ==
  ASSUME OnceInv, PlaceInv,
         UNCHANGED << lQueue, rQueue, call, next, mapping, reducing, accs >>,
         Held' = Held
  PROVE  OnceInv' /\ PlaceInv'
<1>1. /\ Unread' = Unread /\ Mapped' = Mapped /\ Reduced' = Reduced
      /\ Accumulated' = Accumulated /\ Yielding' = Yielding
  BY DEF Unread, Mapped, Reduced, Accumulated, Yielding, Running
<1> QED BY <1>1 DEF OnceInv, PlaceInv

LEMMA ClosesKeeps ==
  ASSUME IInv, ClosesLines \/ JoinsMappersAndClosesResults
  PROVE  IInv'
<1> USE ThreadAssumption
<1>1. /\ UNCHANGED << lQueue, lPending, lArg, rQueue, rPending, rArg >>
      /\ UNCHANGED << call, next, mapping, reducing, done, accs >>
  BY DEF ClosesLines, JoinsMappersAndClosesResults, LineJobs!Close, rVars, lVars
<1>2. TypeOK'
  <2>1. CASE ClosesLines
    BY <1>1, <2>1 DEF IInv, TypeOK, ClosesLines, LineJobs!Close, rVars
  <2>2. CASE JoinsMappersAndClosesResults
    BY <1>1, <2>2 DEF IInv, TypeOK, JoinsMappersAndClosesResults, lVars
  <2> QED BY <2>1, <2>2
<1>3. CallInv'
  BY <1>1 DEF IInv, CallInv, Yielding, Running
<1>4. CloseInv' /\ CallsInv'
  <2>1. CASE ClosesLines
    BY <1>1, <2>1 DEF IInv, CloseInv, CallsInv, Running, ClosesLines, LineJobs!Close,
                      LineJobs!Idle, rVars
  <2>2. CASE JoinsMappersAndClosesResults
    BY <1>1, <2>2 DEF IInv, CloseInv, CallsInv, Running, JoinsMappersAndClosesResults, lVars
  <2> QED BY <2>1, <2>2
<1>5. Held' = Held
  BY <1>1 DEF Held
<1> QED BY <1>1, <1>2, <1>3, <1>4, <1>5, PlacesStay DEF IInv

(* When the reducers have returned, every line that yields a result has    *)
(* been accumulated.                                                       *)
LEMMA AllAccumulated ==
  ASSUME IInv, JoinsReducersAndPrints
  PROVE  Running /\ Yielding \subseteq Accumulated
<1>1. mainAt = "joining_reducers" /\ Reducer \subseteq done
  BY DEF JoinsReducersAndPrints
<1>2. rClosed /\ lClosed /\ Mapper \subseteq done /\ Running
  BY <1>1 DEF IInv, CloseInv, CallsInv
<1>3. /\ lQueue = << >> /\ \A m \in Mapper : mapping[m] = None
      /\ rQueue = << >> /\ \A r \in Reducer : reducing[r] = None
      /\ next \notin Line /\ lPending[Main] = "none"
  BY <1>1, <1>2, ThreadAssumption DEF IInv, CloseInv
<1>4. Queued(lQueue) = {} /\ Queued(rQueue) = {}
  BY <1>3 DEF Queued
<1>5. Mapped = {} /\ Held = {}
  BY <1>3 DEF Mapped, Held
<1>6. Reduced = {}
  BY <1>3, NoneAssumption DEF Reduced, Line
<1>7. Unread = {}
  BY <1>3 DEF Unread, Line, IInv, TypeOK
<1> QED BY <1>2, <1>4, <1>5, <1>6, <1>7 DEF IInv, PlaceInv

LEMMA BeginsNextCallKeeps == ASSUME IInv, JoinsReducersAndPrints PROVE IInv'
<1> USE ThreadAssumption, NoneAssumption DEF BeginsNextCall
<1>1. BeginsNextCall
  BY DEF JoinsReducersAndPrints
<1>2. TypeOK'
  <2>1. << >> \in Seq(Line)
    OBVIOUS
  <2>2. accs' \in [Key -> Seq(Line)]
    BY <1>1, <2>1
  <2>3. mapping' \in [Mapper -> {None} \cup (Line \X Nat)]
    BY <1>1
  <2>4. reducing' \in [Reducer -> Line \cup {None}]
    BY <1>1
  <2>5. lQueue' \in Seq(Line) /\ rQueue' \in Seq(Line)
    BY <1>1, <2>1
  <2>6. call' \in Nat \ {0} /\ next' \in Nat \ {0}
    BY <1>1 DEF IInv, TypeOK
  <2> QED BY <1>1, <2>2, <2>3, <2>4, <2>5, <2>6 DEF TypeOK
<1>3. CallInv' /\ CloseInv'
  BY <1>1 DEF CallInv, CloseInv
<1>4. CallsInv'
  BY <1>1 DEF CallsInv
<1>5. Queued(lQueue') = {} /\ Queued(rQueue') = {} /\ OnceInv'
  BY <1>1 DEF Queued, Distinct, OnceInv
<1>6. Unread' = Line /\ Held' = {} /\ Mapped' = {}
  BY <1>1 DEF Unread, Held, Mapped, Line
<1>7. Reduced' = {}
  BY <1>1 DEF Reduced, Line
<1>8. Accumulated' = {}
  BY <1>1 DEF Accumulated
<1>9. PlaceInv'
  BY <1>5, <1>6, <1>7, <1>8 DEF PlaceInv, Apart, Yielding
<1> QED BY <1>2, <1>3, <1>4, <1>5, <1>9 DEF IInv

-----------------------------------------------------------------------------
(* Mappers                                                                 *)
LEMMA TakesLineKeeps ==
  ASSUME IInv, NEW m \in Mapper,
         \/ GetsLine(m) /\ LineJobs!GetReturns(m) /\ StartsMapping(m, Head(lQueue))
         \/ GetsLineLater(m)
  PROVE  IInv'
<1> USE ThreadAssumption
<1> DEFINE i == Head(lQueue)
<1>1. /\ TypeOK /\ lQueue # << >> /\ lQueue' = Tail(lQueue) /\ lClosed' = lClosed /\ lArg' = lArg
      /\ mapping' = [mapping EXCEPT ![m] = << i, 0 >>]
      /\ UNCHANGED << rVars, call, mainAt, next, reducing, done, accs >>
  BY DEF IInv, GetsLineLater, StartsMapping, LineJobs!GetReturns, LineJobs!GetResumes
<1>2. /\ m \notin done /\ mapping[m] = None /\ Running
      /\ lPending' \in [Mapper \cup {Main} -> {"none", "put", "get"}] /\ lPending'[m] = "none"
      /\ \A t \in (Mapper \cup {Main}) \ {m} : lPending'[t] = lPending[t]
  <2>1. CASE GetsLine(m) /\ LineJobs!GetReturns(m)
    BY <1>1, <2>1 DEF GetsLine, LineJobs!GetReturns, LineJobs!Idle, TypeOK
  <2>2. CASE GetsLineLater(m)
    <3>1. lPending[m] = "get" /\ lPending' = [lPending EXCEPT ![m] = "none"]
      BY <2>2 DEF GetsLineLater, LineJobs!GetResumes
    <3> QED BY <1>1, <3>1 DEF IInv, TypeOK, CallInv, CallsInv
  <2> QED BY <2>1, <2>2
<1>3. /\ i \in Line /\ i \in Queued(lQueue) /\ lQueue' \in Seq(Line)
      /\ Queued(lQueue') = Queued(lQueue) \ {i} /\ Distinct(lQueue')
  BY <1>1, TailQueued DEF IInv, TypeOK, OnceInv
<1> HIDE DEF i
<1>4. /\ Unread' = Unread /\ Reduced' = Reduced /\ Accumulated' = Accumulated
      /\ Yielding' = Yielding /\ Running' /\ rQueue' = rQueue
  BY <1>1, <1>2 DEF Unread, Reduced, Accumulated, Yielding, Running, rVars
<1>5. Held' = Held
  BY <1>1, <1>2 DEF Held
<1>6. << i, 0 >> # None /\ << i, 0 >> \in Line \X Nat /\ << i, 0 >>[1] = i
  BY <1>3, NoneAssumption DEF Line
<1>7. \A n \in Mapper : mapping'[n] = IF n = m THEN << i, 0 >> ELSE mapping[n]
  BY <1>1 DEF TypeOK
<1>8. Mapped' = Mapped \cup {i}
  BY <1>2, <1>3, <1>6, <1>7 DEF Mapped
<1>9. TypeOK'
  BY <1>1, <1>2, <1>3, <1>6 DEF TypeOK, rVars
<1>10. CallInv'
  BY <1>1, <1>2, <1>4, <1>7 DEF IInv, CallInv, rVars
<1>11. CloseInv'
  BY <1>1, <1>2, <1>7 DEF IInv, CloseInv, rVars
<1>12. OnceInv'
  <2>1. i \notin Mapped
    BY <1>3 DEF IInv, PlaceInv, Apart
  <2>2. \A n \in Mapper : mapping[n] # None => mapping[n][1] \in Line
    BY <1>1 DEF TypeOK
  <2>3. \A n \in Mapper : mapping[n] # None => mapping[n][1] # i
    BY <2>1, <2>2 DEF Mapped
  <2> QED BY <1>1, <1>3, <1>4, <1>6, <1>7, <2>3 DEF IInv, OnceInv
<1>13. PlaceInv'
  BY <1>3, <1>4, <1>5, <1>8 DEF IInv, PlaceInv, Apart
<1> QED BY <1>4, <1>9, <1>10, <1>11, <1>12, <1>13 DEF IInv, CallsInv

LEMMA WaitsForLineKeeps ==
  ASSUME IInv, NEW m \in Mapper,
         \/ GetsLine(m) /\ LineJobs!GetNone(m) /\ Stops(m) /\ UNCHANGED rVars
         \/ GetsNoLineLater(m)
         \/ /\ GetsLine(m) /\ LineJobs!GetBlocks(m)
            /\ UNCHANGED << rVars, call, mainAt, next, mapping, reducing, done, accs >>
  PROVE  IInv'
<1> USE ThreadAssumption
<1>1. /\ TypeOK /\ lQueue = << >>
      /\ UNCHANGED << lQueue, lClosed, lArg, rVars, call, mainAt, next, mapping, reducing, accs >>
  BY DEF IInv, GetsNoLineLater, Stops, LineJobs!GetNone, LineJobs!GetBlocks,
         LineJobs!GetResumesNone, LineJobs!vars
<1>2. /\ m \notin done /\ mapping[m] = None /\ Running
      /\ lPending' \in [Mapper \cup {Main} -> {"none", "put", "get"}]
      /\ \A t \in (Mapper \cup {Main}) \ {m} : lPending'[t] = lPending[t]
      /\ \/ lPending'[m] = "none" /\ done' = done \cup {m} /\ lClosed
         \/ lPending'[m] = "get" /\ done' = done
  <2>1. CASE GetsLine(m) /\ LineJobs!GetNone(m) /\ Stops(m)
    BY <1>1, <2>1 DEF GetsLine, LineJobs!GetNone, LineJobs!vars, LineJobs!Idle, Stops, TypeOK
  <2>2. CASE GetsNoLineLater(m)
    <3>1. /\ lPending[m] = "get" /\ lPending' = [lPending EXCEPT ![m] = "none"]
          /\ lClosed /\ done' = done \cup {m}
      BY <2>2 DEF GetsNoLineLater, LineJobs!GetResumesNone, Stops
    <3> QED BY <1>1, <3>1 DEF IInv, TypeOK, CallInv, CallsInv
  <2>3. CASE GetsLine(m) /\ LineJobs!GetBlocks(m) /\ done' = done
    BY <1>1, <2>3 DEF GetsLine, LineJobs!GetBlocks, LineJobs!Idle, TypeOK
  <2> QED BY <2>1, <2>2, <2>3
<1>3. TypeOK'
  BY <1>1, <1>2 DEF TypeOK, rVars
<1>4. CallInv' /\ CallsInv'
  BY <1>1, <1>2 DEF IInv, CallInv, CallsInv, Running, Yielding, rVars
<1>5. CloseInv'
  BY <1>1, <1>2 DEF IInv, CloseInv, rVars
<1>6. Held' = Held
  BY <1>1, <1>2 DEF Held
<1> QED BY <1>1, <1>3, <1>4, <1>5, <1>6, PlacesStay DEF IInv, rVars

LEMMA TriesNumberKeeps == ASSUME IInv, NEW m \in Mapper, TriesNumber(m) PROVE IInv'
<1> USE ThreadAssumption
<1>1. /\ TypeOK /\ mapping[m] \in Line \X Nat
      /\ UNCHANGED << lVars, rVars, call, mainAt, next, reducing, done, accs >>
  BY DEF IInv, TypeOK, TriesNumber
<1>2. PICK n \in Nat : mapping' = [mapping EXCEPT ![m] = << mapping[m][1], n >>]
  <2>1. PICK n : mapping' = [mapping EXCEPT ![m][2] = n] /\ n \in {mapping[m][2], mapping[m][2] + 1}
    BY DEF TriesNumber
  <2>2. n \in Nat
    BY <1>1, <2>1
  <2>3. [mapping[m] EXCEPT ![2] = n] = << mapping[m][1], n >>
    BY <1>1
  <2> QED BY <1>1, <2>1, <2>2, <2>3 DEF TypeOK
<1>3. /\ << mapping[m][1], n >> \in Line \X Nat /\ << mapping[m][1], n >> # None
      /\ << mapping[m][1], n >>[1] = mapping[m][1] /\ mapping[m] # None
  BY <1>1, NoneAssumption DEF Line
<1>4. \A d \in Mapper :
        /\ mapping'[d] # None <=> mapping[d] # None
        /\ mapping[d] # None => mapping'[d][1] = mapping[d][1]
  BY <1>1, <1>2, <1>3 DEF TypeOK
<1>5. TypeOK'
  BY <1>1, <1>2, <1>3 DEF TypeOK, lVars, rVars
<1>6. CallInv' /\ CloseInv' /\ CallsInv'
  BY <1>1, <1>3, <1>4 DEF IInv, CallInv, CloseInv, CallsInv, Running, Yielding, lVars, rVars
<1>7. /\ Unread' = Unread /\ Held' = Held /\ Reduced' = Reduced
      /\ Accumulated' = Accumulated /\ Yielding' = Yielding
  BY <1>1 DEF Unread, Held, Reduced, Accumulated, Yielding, Running, lVars
<1>8. Mapped' = Mapped
  BY <1>4 DEF Mapped
<1>9. OnceInv' /\ PlaceInv'
  BY <1>1, <1>4, <1>7, <1>8 DEF IInv, OnceInv, PlaceInv, lVars, rVars
<1> QED BY <1>5, <1>6, <1>9 DEF IInv

(* What a mapper has no line for any more is with no mapper.                *)
LEMMA MapperTakesNext ==
  ASSUME IInv, NEW m \in Mapper, mapping[m] # None,
         mapping' = [mapping EXCEPT ![m] = None]
  PROVE  /\ mapping' \in [Mapper -> {None} \cup (Line \X Nat)]
         /\ \A n \in Mapper : mapping'[n] = IF n = m THEN None ELSE mapping[n]
         /\ mapping[m][1] \in Mapped /\ Mapped' = Mapped \ {mapping[m][1]}
<1>1. /\ mapping \in [Mapper -> {None} \cup (Line \X Nat)]
      /\ mapping[m][1] \in Line
  BY DEF IInv, TypeOK
<1>2. /\ \A n \in Mapper : mapping'[n] = IF n = m THEN None ELSE mapping[n]
      /\ mapping' \in [Mapper -> {None} \cup (Line \X Nat)]
  BY <1>1
<1>3. \A n \in Mapper \ {m} : mapping[n] # None => mapping[n][1] # mapping[m][1]
  BY DEF IInv, OnceInv
<1> QED BY <1>1, <1>2, <1>3 DEF Mapped

LEMMA DropsLineKeeps == ASSUME IInv, NEW m \in Mapper, DropsLine(m) PROVE IInv'
<1> USE ThreadAssumption
<1> DEFINE i == mapping[m][1]
<1>1. /\ TypeOK /\ mapping[m] # None /\ rPending[m] = "none"
      /\ KeyOf(call, Input[i]) = NoKey
      /\ mapping' = [mapping EXCEPT ![m] = None]
      /\ UNCHANGED << lVars, rVars, call, mainAt, next, reducing, done, accs >>
  BY DEF IInv, DropsLine, Ready
<1>2. /\ mapping' \in [Mapper -> {None} \cup (Line \X Nat)]
      /\ \A n \in Mapper : mapping'[n] = IF n = m THEN None ELSE mapping[n]
      /\ i \in Mapped /\ Mapped' = Mapped \ {i}
  BY <1>1, MapperTakesNext
<1>3. i \notin Yielding
  BY <1>1 DEF Yielding
<1> HIDE DEF i
<1>4. TypeOK'
  BY <1>1, <1>2 DEF TypeOK, lVars, rVars
<1>5. CallInv' /\ CloseInv' /\ CallsInv'
  BY <1>1, <1>2 DEF IInv, CallInv, CloseInv, CallsInv, Running, Yielding, lVars, rVars
<1>6. /\ Unread' = Unread /\ Held' = Held /\ Reduced' = Reduced
      /\ Accumulated' = Accumulated /\ Yielding' = Yielding
  BY <1>1 DEF Unread, Held, Reduced, Accumulated, Yielding, Running, lVars
<1>7. OnceInv' /\ PlaceInv'
  BY <1>1, <1>2, <1>3, <1>6 DEF IInv, OnceInv, PlaceInv, Apart, lVars, rVars
<1> QED BY <1>4, <1>5, <1>7 DEF IInv

LEMMA PutsResultKeeps ==
  ASSUME IInv, NEW m \in Mapper,
         \/ PutsResult(m) /\ ResultJobs!PutReturns(m, mapping[m][1]) /\ TakesNextLine(m)
         \/ PutsResultLater(m)
  PROVE  IInv'
<1> USE ThreadAssumption
<1> DEFINE i == mapping[m][1]
<1>1. /\ TypeOK /\ mapping' = [mapping EXCEPT ![m] = None]
      /\ rClosed' = rClosed
      /\ UNCHANGED << lVars, call, mainAt, next, reducing, done, accs >>
  BY DEF IInv, PutsResultLater, TakesNextLine, ResultJobs!PutReturns, ResultJobs!PutResumes
<1>2. /\ mapping[m] # None /\ Running /\ rQueue' = Append(rQueue, i) /\ i \in Yielding
      /\ rPending' \in [Mapper \cup Reducer -> {"none", "put", "get"}] /\ rPending'[m] = "none"
      /\ rArg' \in [Mapper \cup Reducer -> Line \cup {None}]
      /\ \A t \in (Mapper \cup Reducer) \ {m} : rPending'[t] = rPending[t] /\ rArg'[t] = rArg[t]
  <2>1. CASE PutsResult(m) /\ ResultJobs!PutReturns(m, i)
    <3>1. /\ mapping[m] # None /\ KeyOf(call, Input[i]) # NoKey /\ Running
          /\ rPending[m] = "none" /\ rQueue' = Append(rQueue, i)
          /\ UNCHANGED << rPending, rArg >>
      BY <2>1 DEF PutsResult, Ready, ResultJobs!PutReturns, IInv, CallsInv
    <3>2. i \in Yielding
      BY <1>1, <3>1 DEF Yielding, TypeOK
    <3> QED BY <1>1, <3>1, <3>2 DEF TypeOK
  <2>2. CASE PutsResultLater(m)
    <3>1. /\ rPending[m] = "put" /\ rPending' = [rPending EXCEPT ![m] = "none"]
          /\ rArg' = [rArg EXCEPT ![m] = None] /\ rQueue' = Append(rQueue, rArg[m])
      BY <2>2 DEF PutsResultLater, ResultJobs!PutResumes
    <3>2. mapping[m] # None /\ rArg[m] = i /\ i \in Yielding /\ Running
      BY <3>1 DEF IInv, CallInv, CallsInv
    <3> HIDE DEF i
    <3> QED BY <1>1, <3>1, <3>2 DEF TypeOK
  <2> QED BY <2>1, <2>2
<1>3. /\ mapping' \in [Mapper -> {None} \cup (Line \X Nat)]
      /\ \A n \in Mapper : mapping'[n] = IF n = m THEN None ELSE mapping[n]
      /\ i \in Mapped /\ i \in Line /\ Mapped' = Mapped \ {i}
  BY <1>1, <1>2, MapperTakesNext DEF Yielding
<1> HIDE DEF i
<1>4. i \notin Queued(rQueue)
  BY <1>3 DEF IInv, PlaceInv, Apart
<1>5. /\ rQueue' \in Seq(Line) /\ Queued(rQueue') = Queued(rQueue) \cup {i}
      /\ Distinct(rQueue')
  BY <1>1, <1>2, <1>3, <1>4, AppendQueued DEF IInv, TypeOK, OnceInv
<1>6. TypeOK'
  BY <1>1, <1>2, <1>3, <1>5 DEF TypeOK, lVars
<1>7. /\ Unread' = Unread /\ Held' = Held /\ Reduced' = Reduced
      /\ Accumulated' = Accumulated /\ Yielding' = Yielding /\ Running'
  BY <1>1, <1>2 DEF Unread, Held, Reduced, Accumulated, Yielding, Running, lVars
<1>8. CallInv' /\ CallsInv'
  BY <1>1, <1>2, <1>3, <1>7 DEF IInv, CallInv, CallsInv, lVars
<1>9. CloseInv'
  <2>1. m \notin done
    BY <1>2 DEF IInv, CloseInv
  <2>2. ~rClosed
    BY <2>1 DEF IInv, CloseInv
  <2> QED BY <1>1, <1>2, <1>3, <2>2 DEF IInv, CloseInv, lVars
<1>10. OnceInv' /\ PlaceInv'
  BY <1>1, <1>2, <1>3, <1>4, <1>5, <1>7 DEF IInv, OnceInv, PlaceInv, Apart, lVars
<1> QED BY <1>6, <1>8, <1>9, <1>10 DEF IInv

LEMMA WaitsForRoomKeeps ==
  ASSUME IInv, NEW m \in Mapper, PutsResult(m), ResultJobs!PutBlocks(m, mapping[m][1]),
         UNCHANGED << lVars, call, mainAt, next, mapping, reducing, done, accs >>
  PROVE  IInv'
<1> USE ThreadAssumption
<1> DEFINE i == mapping[m][1]
<1>1. /\ TypeOK /\ rPending' = [rPending EXCEPT ![m] = "put"] /\ rArg' = [rArg EXCEPT ![m] = i]
      /\ UNCHANGED << rQueue, rClosed >> /\ mapping[m] # None
      /\ KeyOf(call, Input[i]) # NoKey
  BY DEF IInv, PutsResult, Ready, ResultJobs!PutBlocks
<1>2. i \in Line /\ Running /\ i \in Yielding
  BY <1>1 DEF IInv, TypeOK, CallsInv, Yielding
<1>3. TypeOK'
  <2> HIDE DEF i
  <2> QED BY <1>1, <1>2 DEF TypeOK, lVars
<1>4. CallInv' /\ CallsInv'
  <2>1. Yielding' = Yielding /\ Running'
    BY <1>2 DEF Yielding, Running
  <2> QED BY <1>1, <1>2, <2>1 DEF IInv, TypeOK, CallInv, CallsInv, lVars
<1>5. CloseInv' /\ Held' = Held
  BY <1>1 DEF IInv, CloseInv, Held, lVars
<1> QED BY <1>1, <1>3, <1>4, <1>5, PlacesStay DEF IInv, lVars

-----------------------------------------------------------------------------
(* Reducers                                                                *)
LEMMA TakesResultKeeps ==
  ASSUME IInv, NEW r \in Reducer,
         \/ GetsResult(r) /\ ResultJobs!GetReturns(r) /\ StartsReducing(r, Head(rQueue))
         \/ GetsResultLater(r)
  PROVE  IInv'
<1> USE ThreadAssumption
<1> DEFINE i == Head(rQueue)
<1>1. /\ TypeOK /\ rQueue # << >> /\ rQueue' = Tail(rQueue) /\ rClosed' = rClosed /\ rArg' = rArg
      /\ reducing' = [reducing EXCEPT ![r] = i]
      /\ UNCHANGED << lVars, call, mainAt, next, mapping, done, accs >>
  BY DEF IInv, GetsResultLater, StartsReducing, ResultJobs!GetReturns, ResultJobs!GetResumes
<1>2. /\ r \notin done /\ reducing[r] = None /\ Running
      /\ rPending' \in [Mapper \cup Reducer -> {"none", "put", "get"}] /\ rPending'[r] = "none"
      /\ \A t \in (Mapper \cup Reducer) \ {r} : rPending'[t] = rPending[t]
  <2>1. CASE GetsResult(r) /\ ResultJobs!GetReturns(r)
    BY <1>1, <2>1 DEF GetsResult, ResultJobs!GetReturns, ResultJobs!Idle, TypeOK
  <2>2. CASE GetsResultLater(r)
    <3>1. rPending[r] = "get" /\ rPending' = [rPending EXCEPT ![r] = "none"]
      BY <2>2 DEF GetsResultLater, ResultJobs!GetResumes
    <3> QED BY <1>1, <3>1 DEF IInv, TypeOK, CallInv, CallsInv
  <2> QED BY <2>1, <2>2
<1>3. /\ i \in Line /\ i \in Queued(rQueue) /\ rQueue' \in Seq(Line)
      /\ Queued(rQueue') = Queued(rQueue) \ {i} /\ Distinct(rQueue')
  BY <1>1, TailQueued DEF IInv, TypeOK, OnceInv
<1> HIDE DEF i
<1>4. /\ Unread' = Unread /\ Held' = Held /\ Mapped' = Mapped /\ Accumulated' = Accumulated
      /\ Yielding' = Yielding /\ Running' /\ lQueue' = lQueue
  BY <1>1, <1>2 DEF Unread, Held, Mapped, Accumulated, Yielding, Running, lVars
<1>5. /\ \A s \in Reducer : reducing'[s] = IF s = r THEN i ELSE reducing[s]
      /\ i # None
  BY <1>1, <1>3, NoneAssumption DEF TypeOK, Line
<1>6. Reduced' = Reduced \cup {i}
  <2>1. \A j \in Line : j # None
    BY NoneAssumption DEF Line
  <2> QED BY <1>2, <1>3, <1>5, <2>1 DEF Reduced
<1>7. TypeOK'
  BY <1>1, <1>2, <1>3 DEF TypeOK, lVars
<1>8. CallInv' /\ CallsInv'
  BY <1>1, <1>2, <1>4, <1>5 DEF IInv, CallInv, CallsInv, lVars
<1>9. CloseInv'
  BY <1>1, <1>2, <1>5 DEF IInv, CloseInv, lVars
<1>10. OnceInv'
  <2>1. i \notin Reduced
    BY <1>3 DEF IInv, PlaceInv, Apart
  <2>2. \A s \in Reducer : reducing[s] # i
    BY <1>3, <2>1 DEF Reduced
  <2> QED BY <1>1, <1>3, <1>4, <1>5, <2>2 DEF IInv, OnceInv
<1>11. PlaceInv'
  BY <1>3, <1>4, <1>6 DEF IInv, PlaceInv, Apart
<1> QED BY <1>7, <1>8, <1>9, <1>10, <1>11 DEF IInv

LEMMA WaitsForResultKeeps ==
  ASSUME IInv, NEW r \in Reducer,
         \/ GetsResult(r) /\ ResultJobs!GetNone(r) /\ Stops(r) /\ UNCHANGED lVars
         \/ GetsNoResultLater(r)
         \/ /\ GetsResult(r) /\ ResultJobs!GetBlocks(r)
            /\ UNCHANGED << lVars, call, mainAt, next, mapping, reducing, done, accs >>
  PROVE  IInv'
<1> USE ThreadAssumption
<1>1. /\ TypeOK /\ rQueue = << >>
      /\ UNCHANGED << lVars, rQueue, rClosed, rArg, call, mainAt, next, mapping, reducing, accs >>
  BY DEF IInv, GetsNoResultLater, Stops, ResultJobs!GetNone, ResultJobs!GetBlocks,
         ResultJobs!GetResumesNone, ResultJobs!vars
<1>2. /\ r \notin done /\ reducing[r] = None /\ Running
      /\ rPending' \in [Mapper \cup Reducer -> {"none", "put", "get"}]
      /\ \A t \in (Mapper \cup Reducer) \ {r} : rPending'[t] = rPending[t]
      /\ \/ rPending'[r] = "none" /\ done' = done \cup {r} /\ rClosed
         \/ rPending'[r] = "get" /\ done' = done
  <2>1. CASE GetsResult(r) /\ ResultJobs!GetNone(r) /\ Stops(r)
    BY <1>1, <2>1 DEF GetsResult, ResultJobs!GetNone, ResultJobs!vars, ResultJobs!Idle, Stops, TypeOK
  <2>2. CASE GetsNoResultLater(r)
    <3>1. /\ rPending[r] = "get" /\ rPending' = [rPending EXCEPT ![r] = "none"]
          /\ rClosed /\ done' = done \cup {r}
      BY <2>2 DEF GetsNoResultLater, ResultJobs!GetResumesNone, Stops
    <3> QED BY <1>1, <3>1 DEF IInv, TypeOK, CallInv, CallsInv
  <2>3. CASE GetsResult(r) /\ ResultJobs!GetBlocks(r) /\ done' = done
    BY <1>1, <2>3 DEF GetsResult, ResultJobs!GetBlocks, ResultJobs!Idle, TypeOK
  <2> QED BY <2>1, <2>2, <2>3
<1>3. TypeOK'
  BY <1>1, <1>2 DEF TypeOK, lVars
<1>4. CallInv' /\ CallsInv'
  BY <1>1, <1>2 DEF IInv, CallInv, CallsInv, Running, Yielding, lVars
<1>5. CloseInv'
  BY <1>1, <1>2 DEF IInv, CloseInv, lVars
<1>6. Held' = Held
  BY <1>1 DEF Held, lVars
<1> QED BY <1>1, <1>3, <1>4, <1>5, <1>6, PlacesStay DEF IInv, lVars

(* What is accumulated under a key becomes one line more.                   *)
LEMMA AccumulatedGrows ==
  ASSUME accs \in [Key -> Seq(Line)], NEW k \in Key, NEW i \in Line,
         accs' = [accs EXCEPT ![k] = Append(accs[k], i)]
  PROVE  accs' \in [Key -> Seq(Line)] /\ Accumulated' = Accumulated \cup {i}
<1>1. /\ accs[k] \in Seq(Line) /\ Append(accs[k], i) \in Seq(Line)
      /\ Queued(Append(accs[k], i)) = Queued(accs[k]) \cup {i}
  BY AppendQueued
<1>2. accs' \in [Key -> Seq(Line)]
  BY <1>1
<1>3. \A h \in Key : accs'[h] = IF h = k THEN Append(accs[k], i) ELSE accs[h]
  OBVIOUS
<1>4. \A s \in Seq(Line) : {s[n] : n \in DOMAIN s} = Queued(s)
  BY DEF Queued
<1>5. Accumulated = UNION {Queued(accs[h]) : h \in Key}
  BY <1>4 DEF Accumulated
<1>6. Accumulated' = UNION {Queued(accs'[h]) : h \in Key}
  BY <1>2, <1>4 DEF Accumulated
<1> QED BY <1>1, <1>2, <1>3, <1>5, <1>6

LEMMA AccumulatesTo ==
  ASSUME IInv, NEW r \in Reducer, Accumulates(r)
  PROVE  /\ Running /\ reducing[r] \in Yielding \cap Reduced
         /\ accs' \in [Key -> Seq(Line)]
         /\ Accumulated' = Accumulated \cup {reducing[r]}
<1> DEFINE i == reducing[r]
           k == KeyOf(call, Input[i])
<1>1. /\ TypeOK /\ i # None /\ Running /\ i \in Line
  BY DEF IInv, TypeOK, CallsInv, Accumulates
<1>2. i \in Reduced /\ i \in Yielding
  BY <1>1 DEF IInv, PlaceInv, Reduced
<1>3. k \in Key
  BY <1>1, <1>2, KeyTyped DEF Yielding, TypeOK
<1>4. accs' = [accs EXCEPT ![k] = Append(accs[k], i)]
  BY DEF Accumulates
<1> HIDE DEF i, k
<1>5. accs' \in [Key -> Seq(Line)] /\ Accumulated' = Accumulated \cup {i}
  BY <1>1, <1>3, <1>4, AccumulatedGrows DEF TypeOK
<1> QED BY <1>1, <1>2, <1>5 DEF i

LEMMA AccumulatesKeeps == ASSUME IInv, NEW r \in Reducer, Accumulates(r) PROVE IInv'
<1> USE ThreadAssumption
<1> DEFINE i == reducing[r]
<1>1. /\ TypeOK /\ i # None /\ reducing' = [reducing EXCEPT ![r] = None]
      /\ UNCHANGED << lVars, rVars, call, mainAt, next, mapping, done >>
  BY DEF IInv, Accumulates
<1>2. /\ Running /\ i \in Yielding \cap Reduced
      /\ accs' \in [Key -> Seq(Line)] /\ Accumulated' = Accumulated \cup {i}
  BY AccumulatesTo
<1>3. \A s \in Reducer : reducing'[s] = IF s = r THEN None ELSE reducing[s]
  BY <1>1 DEF TypeOK
<1>4. Reduced' = Reduced \ {i}
  <2>1. \A s \in Reducer \ {r} : reducing[s] # i
    BY <1>1 DEF IInv, OnceInv
  <2>2. \A j \in Line : j # None
    BY NoneAssumption DEF Line
  <2> QED BY <1>3, <2>1, <2>2 DEF Reduced
<1>5. TypeOK'
  BY <1>1, <1>2 DEF TypeOK, lVars, rVars
<1>6. CallInv' /\ CloseInv' /\ CallsInv'
  BY <1>1, <1>3 DEF IInv, CallInv, CloseInv, CallsInv, Running, Yielding, lVars, rVars
<1> HIDE DEF i
<1>7. /\ Unread' = Unread /\ Held' = Held /\ Mapped' = Mapped /\ Yielding' = Yielding
  BY <1>1 DEF Unread, Held, Mapped, Yielding, Running, lVars
<1>8. OnceInv' /\ PlaceInv'
  BY <1>1, <1>2, <1>3, <1>4, <1>7 DEF IInv, OnceInv, PlaceInv, Apart, lVars, rVars
<1> QED BY <1>5, <1>6, <1>8 DEF IInv

-----------------------------------------------------------------------------
LEMMA IInvNext == IInv /\ [Next]_vars => IInv'
<1> SUFFICES ASSUME IInv, [Next]_vars PROVE IInv'
  OBVIOUS
<1>1. CASE MainRuns \/ ReadsLineLater
  BY <1>1, ReadsLineKeeps, ReadsLineLaterKeeps, ClosesKeeps, BeginsNextCallKeeps DEF MainRuns
<1>2. ASSUME NEW m \in Mapper,
             MapperRuns(m) \/ GetsLineLater(m) \/ GetsNoLineLater(m) \/ PutsResultLater(m)
      PROVE  IInv'
  <2>1. CASE GetsLine(m)
    BY <2>1, TakesLineKeeps, WaitsForLineKeeps DEF GetsLine
  <2>2. CASE PutsResult(m)
    BY <2>2, PutsResultKeeps, WaitsForRoomKeeps DEF PutsResult
  <2> QED BY <1>2, <2>1, <2>2, TakesLineKeeps, WaitsForLineKeeps, TriesNumberKeeps,
             DropsLineKeeps, PutsResultKeeps DEF MapperRuns
<1>3. ASSUME NEW r \in Reducer,
             ReducerRuns(r) \/ GetsResultLater(r) \/ GetsNoResultLater(r)
      PROVE  IInv'
  <2>1. CASE GetsResult(r)
    BY <2>1, TakesResultKeeps, WaitsForResultKeeps DEF GetsResult
  <2> QED BY <1>3, <2>1, TakesResultKeeps, WaitsForResultKeeps, AccumulatesKeeps
          DEF ReducerRuns
<1>4. CASE UNCHANGED vars
  <2>1. TypeOK' /\ CallInv' /\ CloseInv' /\ CallsInv'
    BY <1>4 DEF IInv, TypeOK, CallInv, CloseInv, CallsInv, Running, Yielding, vars, lVars, rVars
  <2>2. Held' = Held
    BY <1>4 DEF Held, vars, lVars
  <2> QED BY <1>4, <2>1, <2>2, PlacesStay DEF IInv, vars, lVars, rVars
<1> QED BY <1>1, <1>2, <1>3, <1>4 DEF Next

LEMMA IInvHolds == Spec => []IInv
BY IInvInit, IInvNext, PTL DEF Spec

(* main closes line_jobs after its last put() and result_jobs when every    *)
(* mapper has returned, and prints when every reducer has: no put() meets   *)
(* a closed queue, and nothing is reduced into a table that is printed.     *)
THEOREM ClosedInOrderHolds == Spec => ClosedInOrder
<1> DEFINE Lines == lClosed => next \notin Line /\ lPending[Main] = "none"
           Results == rClosed => /\ lQueue = << >>
                                 /\ \A m \in Mapper :
                                      mapping[m] = None /\ rPending[m] = "none" /\ m \in done
           Printed == rQueue = << >>
                        /\ \A r \in Reducer : reducing[r] = None /\ rPending[r] = "none"
<1>1. IInv => Lines /\ Results
  BY ThreadAssumption DEF IInv, TypeOK, CallInv, CloseInv
<1>2. IInv /\ [Next]_vars => [call' # call => Printed]_vars
  <2> SUFFICES ASSUME IInv, Next, call' # call PROVE Printed
    OBVIOUS
  <2>1. JoinsReducersAndPrints
    BY DEF Next, MainRuns, ReadsLine, ReadsLineLater, ClosesLines, JoinsMappersAndClosesResults,
           MapperRuns, GetsLine, StartsMapping, Stops, GetsLineLater, GetsNoLineLater,
           TriesNumber, DropsLine, PutsResult, TakesNextLine, PutsResultLater,
           ReducerRuns, GetsResult, StartsReducing, Accumulates, GetsResultLater, GetsNoResultLater
  <2>2. Reducer \subseteq done
    BY <2>1 DEF JoinsReducersAndPrints
  <2>3. ASSUME NEW r \in Reducer
        PROVE  rQueue = << >> /\ reducing[r] = None /\ rPending[r] = "none"
    <3>1. r \in Reducer \cap done /\ r \in Mapper \cup Reducer
      BY <2>2
    <3>2. /\ rPending[r] \in {"none", "put", "get"}
          /\ rPending[r] # "put" /\ (rPending[r] = "get" => r \notin done)
      BY <3>1 DEF IInv, TypeOK, CallInv
    <3> QED BY <3>1, <3>2 DEF IInv, CloseInv
  <2> QED BY <2>3, ThreadAssumption
<1> HIDE DEF Lines, Results, Printed
<1>3. Spec => [](Lines /\ Results) /\ [][call' # call => Printed]_vars
  BY <1>1, <1>2, IInvHolds, PTL DEF Spec
<1> QED BY <1>3, PTL DEF ClosedInOrder, Lines, Results, Printed

-----------------------------------------------------------------------------
(* The refinement.  Yield is what UnorderedMapReduce is told of the calls.  *)
Yield == [c \in DOMAIN Calls |-> [i \in Line |-> KeyOf(c, Input[i])]]

LEMMA YieldLength == Len(Yield) = Len(Calls)
<1>1. Len(Calls) \in Nat /\ DOMAIN Calls = 1 .. Len(Calls)
  BY InputAssumption
<1> DEFINE S == {Yield[c] : c \in DOMAIN Calls}
<1>2. DOMAIN Yield = 1 .. Len(Calls) /\ Yield \in [1 .. Len(Calls) -> S]
  BY <1>1 DEF Yield
<1> HIDE DEF S
<1>3. Yield \in Seq(S)
  BY <1>1, <1>2, SeqDef
<1>4. Len(Yield) \in Nat /\ DOMAIN Yield = 1 .. Len(Yield)
  BY <1>3, LenProperties
<1> QED BY <1>1, <1>2, <1>4

LEMMA YieldReads ==
  ASSUME call \in Nat \ {0}, Running
  PROVE  /\ call <= Len(Yield)
         /\ DOMAIN Yield[call] = Line
         /\ \A i \in Line : Yield[call][i] = KeyOf(call, Input[i])
<1>1. call \in DOMAIN Calls
  BY InputAssumption DEF Running
<1>2. Yield[call] = [i \in Line |-> KeyOf(call, Input[i])]
  BY <1>1 DEF Yield
<1> QED BY <1>2, YieldLength DEF Running

LEMMA LeftIs ==
  ASSUME TypeOK, Running
  PROVE  Unordered!Left = Yielding \ Accumulated
<1>1. Unordered!Left = {i \in DOMAIN Yield[call] : Yield[call][i] # NoKey} \ Accumulated
  BY DEF Unordered!Left, Unordered!Accumulated, Accumulated, Yield
<1>2. call \in Nat \ {0}
  BY DEF TypeOK
<1>3. {i \in DOMAIN Yield[call] : Yield[call][i] # NoKey} = Yielding
  BY <1>2, YieldReads DEF Yielding
<1> QED BY <1>1, <1>3

LEMMA StepImplements ==
  IInv /\ [Next]_vars => [Unordered!Next]_<< call, accs >>
<1> SUFFICES ASSUME IInv, [Next]_vars PROVE [Unordered!Next]_<< call, accs >>
  OBVIOUS
<1>1. TypeOK /\ call \in Nat \ {0}
  BY DEF IInv, TypeOK
<1>2. ASSUME NEW r \in Reducer, Accumulates(r) PROVE Unordered!Accumulates
  <2> DEFINE i == reducing[r]
  <2>1. /\ Running /\ i \in Yielding \cap Reduced
    BY <1>2, AccumulatesTo
  <2>2. i \in Unordered!Left
    BY <1>1, <2>1, LeftIs DEF IInv, PlaceInv, Apart
  <2>3. call <= Len(Yield) /\ Yield[call][i] = KeyOf(call, Input[i])
    BY <1>1, <2>1, YieldReads DEF Yielding
  <2>4. accs' = [accs EXCEPT ![Yield[call][i]] = Append(@, i)] /\ UNCHANGED call
    BY <1>2, <2>3 DEF Accumulates
  <2> HIDE DEF i
  <2> QED BY <2>2, <2>3, <2>4 DEF Unordered!Accumulates, Yield
<1>3. ASSUME JoinsReducersAndPrints PROVE Unordered!Prints
  <2>1. Running /\ Yielding \subseteq Accumulated
    BY <1>3, AllAccumulated
  <2>2. Unordered!Left = {}
    BY <1>1, <2>1, LeftIs
  <2>3. call <= Len(Yield)
    BY <1>1, <2>1, YieldReads
  <2>4. call' = call + 1 /\ accs' = Unordered!Nothing
    BY <1>3 DEF JoinsReducersAndPrints, BeginsNextCall, Unordered!Nothing
  <2> QED BY <2>2, <2>3, <2>4 DEF Unordered!Prints, Yield
<1>4. ASSUME NEW m \in Mapper,
             MapperRuns(m) \/ GetsLineLater(m) \/ GetsNoLineLater(m) \/ PutsResultLater(m)
      PROVE  UNCHANGED << call, accs >>
  BY <1>4 DEF MapperRuns, GetsLine, TriesNumber, DropsLine, PutsResult, GetsLineLater,
              GetsNoLineLater, PutsResultLater, StartsMapping, Stops, TakesNextLine
<1>5. ASSUME NEW r \in Reducer, GetsResult(r) \/ GetsResultLater(r) \/ GetsNoResultLater(r)
      PROVE  UNCHANGED << call, accs >>
  BY <1>5 DEF GetsResult, GetsResultLater, GetsNoResultLater, StartsReducing, Stops
<1>6. ASSUME ReadsLine \/ ReadsLineLater \/ ClosesLines \/ JoinsMappersAndClosesResults
      PROVE  UNCHANGED << call, accs >>
  BY <1>6 DEF ReadsLine, ReadsLineLater, ClosesLines, JoinsMappersAndClosesResults
<1>7. CASE UNCHANGED vars
  BY <1>7 DEF vars
<1> QED BY <1>2, <1>3, <1>4, <1>5, <1>6, <1>7 DEF Next, MainRuns, ReducerRuns, Unordered!Next

(* The threads, queues and joins do what UnorderedMapReduce allows and     *)
(* nothing else: a result is accumulated once, under its key, and a call   *)
(* prints when all of them have been.                                       *)
THEOREM ImplementsUnorderedSafety ==
  Spec => Unordered!Init /\ [][Unordered!Next]_<< call, accs >>
<1>1. Init => Unordered!Init
  BY DEF Init, Unordered!Init, Unordered!Nothing
<1> QED BY <1>1, StepImplements, IInvHolds, PTL DEF Spec
=============================================================================
