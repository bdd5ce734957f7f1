----------------------------- MODULE JobsProofs -----------------------------
(***************************************************************************)
(* The monitor of Jobs.h for any finite set of threads and any capacity:   *)
(* no wake-up is lost, nobody sleeps in get() on a closed queue, and the   *)
(* queue keeps the safety part of its contract.                            *)
(***************************************************************************)
EXTENDS Jobs, FiniteSetTheorems, TLAPS

(* n units of what the sleepers wait for are covered by woken threads.      *)
Signalled(st, asleep, woken, n) ==
  In(st, asleep) # {} => Cardinality(In(st, woken)) >= n

-----------------------------------------------------------------------------
LEMMA InFinite ==
  ASSUME NEW st, NEW w
  PROVE  /\ IsFiniteSet(In(st, w))
         /\ Cardinality(In(st, w)) \in Nat
<1>1. In(st, w) \subseteq Thread
  BY DEF In
<1> QED
  BY <1>1, ThreadAssumption, FS_Subset, FS_CardinalityType

LEMMA InExcept ==
  ASSUME NEW st \in [Thread -> Status], NEW t \in Thread, NEW v \in Status, NEW w
  PROVE  /\ [st EXCEPT ![t] = v] \in [Thread -> Status]
         /\ In([st EXCEPT ![t] = v], w) = IF v = w THEN In(st, w) \cup {t} ELSE In(st, w) \ {t}
BY DEF In

LEMMA NotifyOneOutcome ==
  ASSUME NEW st \in [Thread -> Status], NEW asleep \in Status, NEW woken \in Status,
         NEW st2 \in NotifyOne(st, asleep, woken)
  PROVE  \/ In(st, asleep) = {} /\ st2 = st
         \/ \E u \in Thread : st[u] = asleep /\ st2 = [st EXCEPT ![u] = woken]
BY DEF NotifyOne, In

LEMMA NotifyOneKeeps ==
  ASSUME NEW st \in [Thread -> Status], NEW asleep \in Status, NEW woken \in Status,
         NEW st2 \in NotifyOne(st, asleep, woken)
  PROVE  /\ st2 \in [Thread -> Status]
         /\ \A t \in Thread : st2[t] = st[t] \/ (st[t] = asleep /\ st2[t] = woken)
         /\ \A w : w \notin {asleep, woken} => In(st2, w) = In(st, w)
<1>1. CASE st2 = st
  BY <1>1
<1>2. ASSUME NEW u \in Thread, st[u] = asleep, st2 = [st EXCEPT ![u] = woken]
      PROVE  /\ st2 \in [Thread -> Status]
             /\ \A t \in Thread : st2[t] = st[t] \/ (st[t] = asleep /\ st2[t] = woken)
             /\ \A w : w \notin {asleep, woken} => In(st2, w) = In(st, w)
  BY <1>2 DEF In
<1> QED
  BY <1>1, <1>2, NotifyOneOutcome

(* A notify covers one unit more.                                          *)
LEMMA NotifyOneSignals ==
  ASSUME NEW st \in [Thread -> Status], NEW asleep \in Status, NEW woken \in Status,
         asleep # woken, NEW n \in Int, Signalled(st, asleep, woken, n),
         NEW st2 \in NotifyOne(st, asleep, woken)
  PROVE  Signalled(st2, asleep, woken, n + 1)
<1>1. CASE In(st, asleep) = {} /\ st2 = st
  BY <1>1 DEF Signalled
<1>2. ASSUME NEW u \in Thread, st[u] = asleep, st2 = [st EXCEPT ![u] = woken]
      PROVE  Signalled(st2, asleep, woken, n + 1)
  <2>1. In(st2, woken) = In(st, woken) \cup {u}
    BY <1>2, InExcept
  <2>2. u \notin In(st, woken) /\ In(st, asleep) # {}
    BY <1>2 DEF In
  <2>3. Cardinality(In(st2, woken)) = Cardinality(In(st, woken)) + 1
    BY <2>1, <2>2, InFinite, FS_AddElement
  <2> QED
    BY <2>2, <2>3, InFinite DEF Signalled
<1> QED
  BY <1>1, <1>2, NotifyOneOutcome

(* A woken thread that leaves takes one unit with it.                       *)
LEMMA LeaverTakesOne ==
  ASSUME NEW st \in [Thread -> Status], NEW asleep \in Status, NEW woken \in Status,
         asleep # "out", woken # "out", NEW n \in Int, Signalled(st, asleep, woken, n),
         NEW t \in Thread, st[t] = woken,
         NEW st2, \A u \in Thread : st2[u] = IF u = t THEN "out" ELSE st[u]
  PROVE  Signalled(st2, asleep, woken, n - 1)
<1>1. /\ In(st2, woken) = In(st, woken) \ {t}
      /\ In(st2, asleep) \subseteq In(st, asleep)
  BY DEF In
<1>2. t \in In(st, woken)
  BY DEF In
<1>3. Cardinality(In(st2, woken)) = Cardinality(In(st, woken)) - 1
  BY <1>1, <1>2, InFinite, FS_RemoveElement
<1>4. Cardinality(In(st, woken)) \in Nat
  BY InFinite
<1>5. In(st2, asleep) # {} => In(st, asleep) # {}
  BY <1>1
<1> QED
  BY <1>3, <1>4, <1>5 DEF Signalled

(* A spurious wake-up uncovers nothing.                                     *)
LEMMA WakingKeepsSignalled ==
  ASSUME NEW st \in [Thread -> Status], NEW asleep \in Status, NEW woken \in Status,
         asleep # woken, NEW n \in Int, Signalled(st, asleep, woken, n),
         NEW t \in Thread, st[t] = asleep,
         NEW st2, \A u \in Thread : st2[u] = IF u = t THEN woken ELSE st[u]
  PROVE  Signalled(st2, asleep, woken, n)
<1>1. /\ In(st2, woken) = In(st, woken) \cup {t}
      /\ In(st2, asleep) \subseteq In(st, asleep)
      /\ t \notin In(st, woken)
  BY DEF In
<1>2. Cardinality(In(st2, woken)) = Cardinality(In(st, woken)) + 1
  BY <1>1, InFinite, FS_AddElement
<1>3. Cardinality(In(st, woken)) \in Nat
  BY InFinite
<1>4. In(st2, asleep) # {} => In(st, asleep) # {}
  BY <1>1
<1> QED
  BY <1>2, <1>3, <1>4 DEF Signalled

LEMMA NothingToSignal ==
  ASSUME NEW st, NEW asleep, NEW woken, NEW n \in Int, n <= 0
  PROVE  Signalled(st, asleep, woken, n)
BY InFinite DEF Signalled

LEMMA SameSleepersSignalled ==
  ASSUME NEW st, NEW st2, NEW asleep, NEW woken, NEW n,
         In(st2, asleep) = In(st, asleep), In(st2, woken) = In(st, woken),
         Signalled(st, asleep, woken, n)
  PROVE  Signalled(st2, asleep, woken, n)
BY DEF Signalled

-----------------------------------------------------------------------------
Signals ==
  /\ Signalled(status, "get_wait", "get_woken", Len(jobs))
  /\ Signalled(status, "put_wait", "put_woken", MaxSize - Len(jobs))

LEMMA SignalsIsSignalled == Signals <=> GettersSignalled /\ PuttersSignalled
BY DEF Signals, Signalled, GettersSignalled, PuttersSignalled

IInv == TypeOK /\ Signals /\ NoGetterSleepsAfterClose

LEMMA InitIInv == Init => IInv
<1> SUFFICES ASSUME Init PROVE IInv
  OBVIOUS
<1>1. TypeOK
  <2>1. jobs \in Seq(Job) /\ Len(jobs) = 0
    BY DEF Init
  <2>2. /\ status \in [Thread -> Status] /\ arg \in [Thread -> Job \cup {NoJob}]
        /\ \A t \in Thread : status[t] = "out" /\ arg[t] = NoJob
    BY DEF Init, Status
  <2>3. Len(jobs) <= MaxSize
    BY <2>1, SizeAssumption
  <2>5. closed \in BOOLEAN
    BY DEF Init
  <2>4. \A t \in Thread : arg[t] # NoJob <=> status[t] \in {"put_wait", "put_woken"}
    BY <2>2
  <2> QED
    BY <2>1, <2>2, <2>3, <2>4, <2>5 DEF TypeOK
<1>2. In(status, "get_wait") = {} /\ In(status, "put_wait") = {}
  BY DEF Init, In
<1> QED
  BY <1>1, <1>2 DEF IInv, Signals, Signalled, NoGetterSleepsAfterClose

(* One job more inside: used by both ways put() ends.                       *)
LEMMA PushStep ==
  ASSUME IInv, Room, NEW t \in Thread, NEW x \in Job, NEW st1,
         \/ status[t] = "out" /\ st1 = status /\ arg' = arg
         \/ /\ status[t] = "put_woken"
            /\ st1 = [status EXCEPT ![t] = "out"]
            /\ arg' = [arg EXCEPT ![t] = NoJob],
         jobs' = Append(jobs, x), closed' = closed,
         status' \in NotifyOne(st1, "get_wait", "get_woken")
  PROVE  IInv'
<1>1. /\ jobs \in Seq(Job) /\ Len(jobs) \in Nat /\ Len(jobs) < MaxSize
      /\ Len(jobs') = Len(jobs) + 1 /\ jobs' \in Seq(Job)
      /\ MaxSize \in Nat
  BY SizeAssumption DEF IInv, TypeOK, Room
<1>2. status \in [Thread -> Status] /\ st1 \in [Thread -> Status]
  BY DEF IInv, TypeOK, Status
<1>3. /\ status' \in [Thread -> Status]
      /\ \A u \in Thread : status'[u] = st1[u] \/ (st1[u] = "get_wait" /\ status'[u] = "get_woken")
      /\ \A w : w \notin {"get_wait", "get_woken"} => In(status', w) = In(st1, w)
  BY <1>2, NotifyOneKeeps DEF Status
<1>4. TypeOK'
  BY <1>1, <1>2, <1>3, NoJobAssumption DEF IInv, TypeOK, Status
<1>5. Signalled(status', "get_wait", "get_woken", Len(jobs'))
  <2>1. Signalled(st1, "get_wait", "get_woken", Len(jobs))
    <3>1. In(st1, "get_wait") = In(status, "get_wait") /\ In(st1, "get_woken") = In(status, "get_woken")
      BY <1>2 DEF In
    <3> QED
      BY <3>1, SameSleepersSignalled DEF IInv, Signals
  <2> QED
    BY <1>1, <1>2, <2>1, NotifyOneSignals DEF Status
<1>6. Signalled(status', "put_wait", "put_woken", MaxSize - Len(jobs'))
  <2>1. In(status', "put_wait") = In(st1, "put_wait") /\ In(status', "put_woken") = In(st1, "put_woken")
    BY <1>3
  <2>2. Signalled(status, "put_wait", "put_woken", MaxSize - Len(jobs))
    BY DEF IInv, Signals
  <2>3. Signalled(st1, "put_wait", "put_woken", MaxSize - Len(jobs'))
    <3>1. CASE st1 = status
      <4>1. Cardinality(In(status, "put_woken")) \in Nat
        BY InFinite
      <4> QED
        BY <1>1, <2>2, <3>1, <4>1 DEF Signalled
    <3>2. CASE status[t] = "put_woken" /\ st1 = [status EXCEPT ![t] = "out"]
      <4>1. \A u \in Thread : st1[u] = IF u = t THEN "out" ELSE status[u]
        BY <1>2, <3>2
      <4>3. "put_wait" \in Status /\ "put_woken" \in Status /\ status[t] = "put_woken"
        BY <3>2 DEF Status
      <4>4. MaxSize - Len(jobs) \in Int
        BY <1>1
      <4>5. Signalled(st1, "put_wait", "put_woken", (MaxSize - Len(jobs)) - 1)
        BY <1>2, <2>2, <4>1, <4>3, <4>4, LeaverTakesOne
      <4>2. (MaxSize - Len(jobs)) - 1 = MaxSize - Len(jobs')
        BY <1>1
      <4> QED
        BY <4>2, <4>5
    <3> QED
      BY <3>1, <3>2
  <2> QED
    BY <2>1, <2>3, SameSleepersSignalled
<1>7. NoGetterSleepsAfterClose'
  BY <1>2, <1>3 DEF IInv, NoGetterSleepsAfterClose, In
<1> QED
  BY <1>4, <1>5, <1>6, <1>7 DEF IInv, Signals

(* One job less inside: used by both ways get() returns a job.              *)
LEMMA PullStep ==
  ASSUME IInv, jobs # << >>, NEW t \in Thread, NEW st1,
         \/ status[t] = "out" /\ st1 = status
         \/ status[t] = "get_woken" /\ st1 = [status EXCEPT ![t] = "out"],
         jobs' = Tail(jobs), closed' = closed, arg' = arg,
         status' \in NotifyOne(st1, "put_wait", "put_woken")
  PROVE  IInv'
<1>1. /\ jobs \in Seq(Job) /\ Len(jobs) \in Nat /\ Len(jobs) <= MaxSize
      /\ Len(jobs') = Len(jobs) - 1 /\ jobs' \in Seq(Job) /\ Len(jobs') \in Nat
      /\ MaxSize \in Nat
  BY SizeAssumption DEF IInv, TypeOK
<1>2. status \in [Thread -> Status] /\ st1 \in [Thread -> Status]
  BY DEF IInv, TypeOK, Status
<1>3. /\ status' \in [Thread -> Status]
      /\ \A u \in Thread : status'[u] = st1[u] \/ (st1[u] = "put_wait" /\ status'[u] = "put_woken")
      /\ \A w : w \notin {"put_wait", "put_woken"} => In(status', w) = In(st1, w)
  BY <1>2, NotifyOneKeeps DEF Status
<1>4. TypeOK'
  BY <1>1, <1>2, <1>3 DEF IInv, TypeOK, Status
<1>5. Signalled(status', "put_wait", "put_woken", MaxSize - Len(jobs'))
  <2>1. Signalled(st1, "put_wait", "put_woken", MaxSize - Len(jobs))
    <3>1. In(st1, "put_wait") = In(status, "put_wait") /\ In(st1, "put_woken") = In(status, "put_woken")
      BY <1>2 DEF In
    <3> QED
      BY <3>1, SameSleepersSignalled DEF IInv, Signals
  <2>2. MaxSize - Len(jobs) \in Int /\ (MaxSize - Len(jobs)) + 1 = MaxSize - Len(jobs')
    BY <1>1
  <2>3. Signalled(status', "put_wait", "put_woken", (MaxSize - Len(jobs)) + 1)
    BY <1>2, <2>1, <2>2, NotifyOneSignals DEF Status
  <2> QED
    BY <2>2, <2>3
<1>6. Signalled(status', "get_wait", "get_woken", Len(jobs'))
  <2>1. In(status', "get_wait") = In(st1, "get_wait") /\ In(status', "get_woken") = In(st1, "get_woken")
    BY <1>3
  <2>2. Signalled(status, "get_wait", "get_woken", Len(jobs))
    BY DEF IInv, Signals
  <2>3. Signalled(st1, "get_wait", "get_woken", Len(jobs'))
    <3>1. CASE st1 = status
      <4>1. Cardinality(In(status, "get_woken")) \in Nat
        BY InFinite
      <4> QED
        BY <1>1, <2>2, <3>1, <4>1 DEF Signalled
    <3>2. CASE status[t] = "get_woken" /\ st1 = [status EXCEPT ![t] = "out"]
      <4>1. \A u \in Thread : st1[u] = IF u = t THEN "out" ELSE status[u]
        BY <1>2, <3>2
      <4>2. "get_wait" \in Status /\ "get_woken" \in Status /\ status[t] = "get_woken"
        BY <3>2 DEF Status
      <4>3. Signalled(st1, "get_wait", "get_woken", Len(jobs) - 1)
        BY <1>1, <1>2, <2>2, <4>1, <4>2, LeaverTakesOne
      <4> QED
        BY <1>1, <4>3
    <3> QED
      BY <3>1, <3>2
  <2> QED
    BY <2>1, <2>3, SameSleepersSignalled
<1>7. NoGetterSleepsAfterClose'
  BY <1>2, <1>3 DEF IInv, NoGetterSleepsAfterClose, In
<1> QED
  BY <1>4, <1>5, <1>6, <1>7 DEF IInv, Signals

(* A producer goes to sleep, on a full queue.                               *)
LEMMA PutSleepStep ==
  ASSUME IInv, ~Room, NEW t \in Thread, status[t] \in {"out", "put_woken"},
         status' = [status EXCEPT ![t] = "put_wait"],
         arg' \in [Thread -> Job \cup {NoJob}],
         \A u \in Thread : IF u = t THEN arg'[u] # NoJob ELSE arg'[u] = arg[u],
         jobs' = jobs, closed' = closed
  PROVE  IInv'
<1>1. /\ status \in [Thread -> Status] /\ Len(jobs) \in Nat
      /\ Len(jobs) = MaxSize /\ MaxSize \in Nat
  BY SizeAssumption DEF IInv, TypeOK, Room
<1>2. TypeOK'
  BY <1>1 DEF IInv, TypeOK, Status
<1>3. /\ In(status', "get_wait") = In(status, "get_wait")
      /\ In(status', "get_woken") = In(status, "get_woken")
  BY <1>1 DEF In
<1>4. Signalled(status', "get_wait", "get_woken", Len(jobs'))
  BY <1>3, SameSleepersSignalled DEF IInv, Signals
<1>5. Signalled(status', "put_wait", "put_woken", MaxSize - Len(jobs'))
  <2>1. MaxSize - Len(jobs') \in Int /\ MaxSize - Len(jobs') <= 0
    BY <1>1
  <2> QED
    BY <2>1, NothingToSignal
<1>6. NoGetterSleepsAfterClose'
  BY <1>3 DEF IInv, NoGetterSleepsAfterClose
<1> QED
  BY <1>2, <1>4, <1>5, <1>6 DEF IInv, Signals

(* A consumer goes to sleep, on an empty open queue.                        *)
LEMMA GetSleepStep ==
  ASSUME IInv, jobs = << >>, ~closed, NEW t \in Thread, status[t] \in {"out", "get_woken"},
         status' = [status EXCEPT ![t] = "get_wait"],
         UNCHANGED << jobs, closed, arg >>
  PROVE  IInv'
<1>1. status \in [Thread -> Status] /\ Len(jobs') = 0
  BY DEF IInv, TypeOK
<1>2. TypeOK'
  BY <1>1 DEF IInv, TypeOK, Status
<1>3. /\ In(status', "put_wait") = In(status, "put_wait")
      /\ In(status', "put_woken") = In(status, "put_woken")
  BY <1>1 DEF In
<1>4. Signalled(status', "put_wait", "put_woken", MaxSize - Len(jobs'))
  BY <1>3, SameSleepersSignalled DEF IInv, Signals
<1>5. Signalled(status', "get_wait", "get_woken", Len(jobs'))
  BY <1>1, NothingToSignal
<1>6. NoGetterSleepsAfterClose'
  BY DEF NoGetterSleepsAfterClose
<1> QED
  BY <1>2, <1>4, <1>5, <1>6 DEF IInv, Signals

LEMMA NextIInv == IInv /\ [Next]_vars => IInv'
<1> SUFFICES ASSUME IInv, [Next]_vars PROVE IInv'
  OBVIOUS
<1>1. ASSUME NEW t \in Thread, NEW x \in Job, PutReturns(t, x) PROVE IInv'
  BY <1>1, PushStep DEF PutReturns
<1>2. ASSUME NEW t \in Thread, NEW x \in Job, PutBlocks(t, x) PROVE IInv'
  <2>1. /\ arg' \in [Thread -> Job \cup {NoJob}]
        /\ \A u \in Thread : IF u = t THEN arg'[u] # NoJob ELSE arg'[u] = arg[u]
    BY <1>2, NoJobAssumption DEF PutBlocks, IInv, TypeOK
  <2> QED
    BY <1>2, <2>1, PutSleepStep DEF PutBlocks
<1>3. ASSUME NEW t \in Thread, PutResumes(t) PROVE IInv'
  <2>1. arg[t] \in Job
    BY <1>3 DEF PutResumes, IInv, TypeOK
  <2> QED
    BY <1>3, <2>1, PushStep DEF PutResumes
<1>4. ASSUME NEW t \in Thread, PutSleepsAgain(t) PROVE IInv'
  <2>1. /\ arg' \in [Thread -> Job \cup {NoJob}]
        /\ \A u \in Thread : IF u = t THEN arg'[u] # NoJob ELSE arg'[u] = arg[u]
    BY <1>4 DEF PutSleepsAgain, IInv, TypeOK
  <2> QED
    BY <1>4, <2>1, PutSleepStep DEF PutSleepsAgain
<1>5. ASSUME NEW t \in Thread, GetReturns(t) PROVE IInv'
  BY <1>5, PullStep DEF GetReturns
<1>6. ASSUME NEW t \in Thread, GetResumes(t) PROVE IInv'
  BY <1>6, PullStep DEF GetResumes
<1>7. ASSUME NEW t \in Thread, GetBlocks(t) \/ GetSleepsAgain(t) PROVE IInv'
  BY <1>7, GetSleepStep DEF GetBlocks, GetSleepsAgain
<1>8. ASSUME NEW t \in Thread, GetResumesNone(t) PROVE IInv'
  <2>1. /\ status \in [Thread -> Status] /\ status[t] = "get_woken" /\ closed
        /\ status' = [status EXCEPT ![t] = "out"]
        /\ In(status, "get_wait") = {} /\ jobs' = jobs /\ closed' = closed /\ arg' = arg
    BY <1>8 DEF GetResumesNone, IInv, TypeOK, NoGetterSleepsAfterClose
  <2>2. TypeOK'
    BY <2>1 DEF IInv, TypeOK, Status
  <2>3. /\ In(status', "put_wait") = In(status, "put_wait")
        /\ In(status', "put_woken") = In(status, "put_woken")
        /\ In(status', "get_wait") = {}
    BY <2>1 DEF In
  <2>4. Signalled(status', "put_wait", "put_woken", MaxSize - Len(jobs'))
    BY <2>1, <2>3, SameSleepersSignalled DEF IInv, Signals
  <2> QED
    BY <2>2, <2>3, <2>4 DEF IInv, Signals, Signalled, NoGetterSleepsAfterClose
<1>9. ASSUME NEW t \in Thread, Close(t) PROVE IInv'
  <2>1. /\ status \in [Thread -> Status] /\ jobs' = jobs /\ closed' = TRUE /\ arg' = arg
        /\ status' = [u \in Thread |-> IF status[u] = "get_wait" THEN "get_woken" ELSE status[u]]
    BY <1>9 DEF Close, NotifyAll, IInv, TypeOK
  <2>2. TypeOK'
    BY <2>1 DEF IInv, TypeOK, Status
  <2>3. /\ In(status', "put_wait") = In(status, "put_wait")
        /\ In(status', "put_woken") = In(status, "put_woken")
        /\ In(status', "get_wait") = {}
    BY <2>1 DEF In
  <2>4. Signalled(status', "put_wait", "put_woken", MaxSize - Len(jobs'))
    BY <2>1, <2>3, SameSleepersSignalled DEF IInv, Signals
  <2> QED
    BY <2>2, <2>3, <2>4 DEF IInv, Signals, Signalled, NoGetterSleepsAfterClose
<1>10. ASSUME NEW t \in Thread, SpuriousWakeup(t) PROVE IInv'
  <2> DEFINE Wakes(asleep, woken) ==
        status[t] = asleep /\ status' = [status EXCEPT ![t] = woken]
  <2>1. /\ status \in [Thread -> Status] /\ jobs' = jobs /\ closed' = closed /\ arg' = arg
        /\ Len(jobs) \in Nat /\ MaxSize - Len(jobs) \in Int
        /\ Wakes("get_wait", "get_woken") \/ Wakes("put_wait", "put_woken")
    BY <1>10, SizeAssumption DEF SpuriousWakeup, IInv, TypeOK
  <2>2. TypeOK'
    BY <2>1 DEF IInv, TypeOK, Status
  <2>3. NoGetterSleepsAfterClose'
    BY <2>1 DEF IInv, NoGetterSleepsAfterClose, In
  <2>4. CASE Wakes("get_wait", "get_woken")
    <3>1. \A u \in Thread : status'[u] = IF u = t THEN "get_woken" ELSE status[u]
      BY <2>1, <2>4
    <3>5. status' \in [Thread -> Status] /\ status[t] = "get_wait"
      BY <2>2, <2>4 DEF TypeOK
    <3>6. "get_wait" \in Status /\ "get_woken" \in Status /\ Len(jobs) \in Int
      BY <2>1 DEF Status
    <3>7. Signalled(status, "get_wait", "get_woken", Len(jobs))
      BY DEF IInv, Signals
    <3>8. Signalled(status', "get_wait", "get_woken", Len(jobs))
      BY <2>1, <3>1, <3>5, <3>6, <3>7, WakingKeepsSignalled
    <3>2. Signalled(status', "get_wait", "get_woken", Len(jobs'))
      BY <2>1, <3>8
    <3>3. /\ In(status', "put_wait") = In(status, "put_wait")
          /\ In(status', "put_woken") = In(status, "put_woken")
      BY <2>1, <2>4, <3>1 DEF In
    <3>4. Signalled(status', "put_wait", "put_woken", MaxSize - Len(jobs'))
      BY <2>1, <3>3, SameSleepersSignalled DEF IInv, Signals
    <3> QED
      BY <2>2, <2>3, <3>2, <3>4 DEF IInv, Signals
  <2>5. CASE Wakes("put_wait", "put_woken")
    <3>1. \A u \in Thread : status'[u] = IF u = t THEN "put_woken" ELSE status[u]
      BY <2>1, <2>5
    <3>2. Signalled(status', "put_wait", "put_woken", MaxSize - Len(jobs'))
      BY <2>1, <2>5, <3>1, WakingKeepsSignalled DEF IInv, Signals, Status
    <3>3. /\ In(status', "get_wait") = In(status, "get_wait")
          /\ In(status', "get_woken") = In(status, "get_woken")
      BY <2>1, <2>5, <3>1 DEF In
    <3>4. Signalled(status', "get_wait", "get_woken", Len(jobs'))
      BY <2>1, <3>3, SameSleepersSignalled DEF IInv, Signals
    <3> QED
      BY <2>2, <2>3, <3>2, <3>4 DEF IInv, Signals
  <2> QED
    BY <2>1, <2>4, <2>5
<1>11. CASE UNCHANGED vars
  BY <1>11 DEF vars, IInv, TypeOK, Signals, Signalled, NoGetterSleepsAfterClose, In
<1>12. ASSUME NEW t \in Thread, PutThrows(t) \/ GetNone(t) PROVE IInv'
  BY <1>11, <1>12 DEF PutThrows, GetNone
<1> QED
  BY <1>1, <1>2, <1>3, <1>4, <1>5, <1>6, <1>7, <1>8, <1>9, <1>10, <1>11, <1>12
  DEF Next, Reacquires

LEMMA Invariance == Safety => []IInv
BY InitIInv, NextIInv, PTL DEF Safety

\* The queue respects its capacity and every blocked producer still holds its
\* job, for any number of threads and any max_size_.
THEOREM TypeCorrect == Spec => []TypeOK
<1>1. IInv => TypeOK
  BY DEF IInv
<1> QED
  BY <1>1, Invariance, PTL DEF Spec

\* No wake-up is lost, on either condition variable: notify_one from put()
\* and get() alone covers every queued job and every free place.
THEOREM NoLostWakeup == Spec => []NoWakeupLost
<1>1. IInv => NoWakeupLost
  BY SignalsIsSignalled DEF IInv, NoWakeupLost
<1> QED
  BY <1>1, Invariance, PTL DEF Spec

\* No thread is asleep in get() once close() has been called.
THEOREM CloseReleasesGetters == Spec => []NoGetterSleepsAfterClose
<1>1. IInv => NoGetterSleepsAfterClose
  BY DEF IInv
<1> QED
  BY <1>1, Invariance, PTL DEF Spec

-----------------------------------------------------------------------------
(* The monitor implements its contract.  A thread that changes between       *)
(* asleep and woken is pending all along: notifies are invisible.            *)
LEMMA NotifyOneKeepsCalls ==
  ASSUME NEW st \in [Thread -> Status], NEW asleep, NEW woken,
         \/ asleep = "get_wait" /\ woken = "get_woken"
         \/ asleep = "put_wait" /\ woken = "put_woken",
         NEW st2 \in NotifyOne(st, asleep, woken)
  PROVE  \A t \in Thread : Call(st2[t]) = Call(st[t])
<1>1. \A t \in Thread : st2[t] = st[t] \/ (st[t] = asleep /\ st2[t] = woken)
  BY NotifyOneKeeps DEF Status
<1> QED
  BY <1>1 DEF Call

(* When a push or a pull ends the call of t (or t was not pending at all).   *)
LEMMA PendingAfterNotify ==
  ASSUME status \in [Thread -> Status], NEW t \in Thread,
         NEW asleep, NEW woken,
         \/ asleep = "get_wait" /\ woken = "get_woken"
         \/ asleep = "put_wait" /\ woken = "put_woken",
         NEW st1 \in [Thread -> Status],
         \A u \in Thread : st1[u] = IF u = t THEN "out" ELSE status[u],
         status' \in NotifyOne(st1, asleep, woken)
  PROVE  Pending' = [Pending EXCEPT ![t] = "none"]
<1>1. \A u \in Thread : Call(status'[u]) = Call(st1[u])
  BY NotifyOneKeepsCalls
<1>2. \A u \in Thread : Call(st1[u]) = IF u = t THEN "none" ELSE Call(status[u])
  BY DEF Call
<1> QED
  BY <1>1, <1>2 DEF Pending

LEMMA PendingExcept ==
  ASSUME status \in [Thread -> Status], NEW t \in Thread, NEW v,
         status' = [status EXCEPT ![t] = v]
  PROVE  Pending' = [Pending EXCEPT ![t] = Call(v)]
BY DEF Pending

LEMMA PendingUnchanged ==
  ASSUME \A u \in Thread : Call(status'[u]) = Call(status[u])
  PROVE  Pending' = Pending
BY DEF Pending

\* Each call of put(), get() and close() takes effect in one instant, for any
\* number of threads and any capacity: every run of the monitor is, wake-ups
\* aside, a run of the contract.
THEOREM ImplementsContract == Spec => ContractSafety
<1>1. Init => Contract!Init
  BY DEF Init, Contract!Init, Pending, Call
<1>2. IInv /\ [Next]_vars => [Contract!Next]_Contract!vars
  <2> SUFFICES ASSUME IInv, [Next]_vars PROVE [Contract!Next]_Contract!vars
    OBVIOUS
  <2>1. status \in [Thread -> Status]
    BY DEF IInv, TypeOK
  <2>2. ASSUME NEW t \in Thread, NEW x \in Job, PutReturns(t, x) PROVE Contract!Next
    <3>1. status' \in NotifyOne(status, "get_wait", "get_woken") /\ status[t] = "out"
      BY <2>2 DEF PutReturns
    <3>2. Pending' = Pending
      BY <2>1, <3>1, NotifyOneKeepsCalls, PendingUnchanged
    <3>3. Pending[t] = "none"
      BY <3>1 DEF Pending, Call
    <3>4. Contract!PutReturns(t, x)
      BY <2>2, <3>2, <3>3 DEF PutReturns, Room, Contract!PutReturns, Contract!Idle, Contract!Room
    <3> QED
      BY <3>4 DEF Contract!Next
  <2>3. ASSUME NEW t \in Thread, NEW x \in Job, PutBlocks(t, x) PROVE Contract!Next
    <3>1. Pending' = [Pending EXCEPT ![t] = "put"] /\ Pending[t] = "none"
      BY <2>1, <2>3, PendingExcept DEF PutBlocks, Pending, Call
    <3>2. Contract!PutBlocks(t, x)
      BY <2>3, <3>1 DEF PutBlocks, Room, Contract!PutBlocks, Contract!Idle, Contract!Room
    <3> QED
      BY <3>2 DEF Contract!Next
  <2>4. ASSUME NEW t \in Thread, PutResumes(t) PROVE Contract!Next
    <3> DEFINE st1 == [status EXCEPT ![t] = "out"]
    <3>1. st1 \in [Thread -> Status] /\ \A u \in Thread : st1[u] = IF u = t THEN "out" ELSE status[u]
      BY <2>1 DEF Status
    <3>2. status' \in NotifyOne(st1, "get_wait", "get_woken") /\ status[t] = "put_woken"
      BY <2>4 DEF PutResumes
    <3> HIDE DEF st1
    <3>3. Pending' = [Pending EXCEPT ![t] = "none"]
      BY <2>1, <3>1, <3>2, PendingAfterNotify
    <3>4. Pending[t] = "put"
      BY <3>2 DEF Pending, Call
    <3>5. Contract!PutResumes(t)
      BY <2>4, <3>3, <3>4 DEF PutResumes, Room, Contract!PutResumes, Contract!Room
    <3> QED
      BY <3>5 DEF Contract!Next, Contract!Resumes
  <2>5. ASSUME NEW t \in Thread, GetReturns(t) PROVE Contract!Next
    <3>1. status' \in NotifyOne(status, "put_wait", "put_woken") /\ status[t] = "out"
      BY <2>5 DEF GetReturns
    <3>2. Pending' = Pending
      BY <2>1, <3>1, NotifyOneKeepsCalls, PendingUnchanged
    <3>3. Pending[t] = "none"
      BY <3>1 DEF Pending, Call
    <3>4. Contract!GetReturns(t)
      BY <2>5, <3>2, <3>3 DEF GetReturns, Contract!GetReturns, Contract!Idle
    <3> QED
      BY <3>4 DEF Contract!Next
  <2>6. ASSUME NEW t \in Thread, GetBlocks(t) PROVE Contract!Next
    <3>1. Pending' = [Pending EXCEPT ![t] = "get"] /\ Pending[t] = "none"
      BY <2>1, <2>6, PendingExcept DEF GetBlocks, Pending, Call
    <3>2. Contract!GetBlocks(t)
      BY <2>6, <3>1 DEF GetBlocks, Contract!GetBlocks, Contract!Idle
    <3> QED
      BY <3>2 DEF Contract!Next
  <2>7. ASSUME NEW t \in Thread, GetResumes(t) PROVE Contract!Next
    <3> DEFINE st1 == [status EXCEPT ![t] = "out"]
    <3>1. st1 \in [Thread -> Status] /\ \A u \in Thread : st1[u] = IF u = t THEN "out" ELSE status[u]
      BY <2>1 DEF Status
    <3>2. status' \in NotifyOne(st1, "put_wait", "put_woken") /\ status[t] = "get_woken"
      BY <2>7 DEF GetResumes
    <3> HIDE DEF st1
    <3>3. Pending' = [Pending EXCEPT ![t] = "none"]
      BY <2>1, <3>1, <3>2, PendingAfterNotify
    <3>4. Pending[t] = "get"
      BY <3>2 DEF Pending, Call
    <3>5. Contract!GetResumes(t)
      BY <2>7, <3>3, <3>4 DEF GetResumes, Contract!GetResumes
    <3> QED
      BY <3>5 DEF Contract!Next, Contract!Resumes
  <2>8. ASSUME NEW t \in Thread, GetResumesNone(t) PROVE Contract!Next
    <3>1. Pending' = [Pending EXCEPT ![t] = "none"] /\ Pending[t] = "get"
      BY <2>1, <2>8, PendingExcept DEF GetResumesNone, Pending, Call
    <3>2. Contract!GetResumesNone(t)
      BY <2>8, <3>1 DEF GetResumesNone, Contract!GetResumesNone
    <3> QED
      BY <3>2 DEF Contract!Next, Contract!Resumes
  <2>9. ASSUME NEW t \in Thread, Close(t) PROVE Contract!Next
    <3>1. Pending[t] = "none"
      BY <2>9 DEF Close, Pending, Call
    <3>2. \A u \in Thread : Call(status'[u]) = Call(status[u])
      BY <2>9 DEF Close, NotifyAll, Call
    <3>3. Contract!Close(t)
      BY <2>9, <3>1, <3>2, PendingUnchanged DEF Close, Contract!Close, Contract!Idle
    <3> QED
      BY <3>3 DEF Contract!Next
  <2>10. ASSUME NEW t \in Thread, PutThrows(t) \/ GetNone(t)
         PROVE  [Contract!Next]_Contract!vars
    <3>1. UNCHANGED vars
      BY <2>10 DEF PutThrows, GetNone
    <3> QED
      BY <3>1 DEF vars, Contract!vars, Pending
  <2>11. ASSUME NEW t \in Thread, PutSleepsAgain(t) \/ GetSleepsAgain(t) \/ SpuriousWakeup(t)
         PROVE  UNCHANGED Contract!vars
    <3>1. \A u \in Thread : Call(status'[u]) = Call(status[u])
      BY <2>1, <2>11 DEF PutSleepsAgain, GetSleepsAgain, SpuriousWakeup, Call
    <3> QED
      BY <2>11, <3>1, PendingUnchanged
      DEF PutSleepsAgain, GetSleepsAgain, SpuriousWakeup, Contract!vars
  <2>12. CASE UNCHANGED vars
    BY <2>12 DEF vars, Contract!vars, Pending
  <2> QED
    BY <2>2, <2>3, <2>4, <2>5, <2>6, <2>7, <2>8, <2>9, <2>10, <2>11, <2>12
    DEF Next, Reacquires
<1> QED
  BY <1>1, <1>2, Invariance, PTL DEF Spec, ContractSafety, Contract!Safety, Safety
=============================================================================
