-------------------------------- MODULE Jobs --------------------------------
(***************************************************************************)
(* The monitor of lab5/include/Jobs.h: a queue, one mutex and two          *)
(* condition variables.  All shared state is read and written with the     *)
(* mutex held, so a critical section (from a lock or a wake-up to the next *)
(* wait or unlock) is one action.  A thread inside a call is asleep on a   *)
(* condition variable ("put_wait", "get_wait") or has been woken and       *)
(* competes for the mutex with everybody else ("put_woken", "get_woken"):  *)
(* between the wake-up and the predicate's next evaluation other threads   *)
(* may enter and undo what it was woken for.  Wake-ups may be spurious.    *)
(***************************************************************************)
EXTENDS Naturals, Sequences, FiniteSets

CONSTANTS
  Thread,
  Job,
  MaxSize,    \* max_size_
  NoJob

ASSUME ThreadAssumption == IsFiniteSet(Thread)
ASSUME SizeAssumption == MaxSize \in Nat
ASSUME NoJobAssumption == NoJob \notin Job

VARIABLES
  jobs,       \* jobs_
  closed,     \* closed_
  status,     \* where each thread is
  arg         \* the job held by a thread blocked in put()

vars == << jobs, closed, status, arg >>

Init ==
  /\ jobs = << >>
  /\ closed = FALSE
  /\ status = [t \in Thread |-> "out"]
  /\ arg = [t \in Thread |-> NoJob]

In(st, where) == {t \in Thread : st[t] = where}

Room == Len(jobs) < MaxSize

(* notify_one(): any one of the threads asleep, if there is one.            *)
NotifyOne(st, asleep, woken) ==
  IF In(st, asleep) = {} THEN {st}
  ELSE {[st EXCEPT ![t] = woken] : t \in In(st, asleep)}

NotifyAll(st, asleep, woken) ==
  [t \in Thread |-> IF st[t] = asleep THEN woken ELSE st[t]]

-----------------------------------------------------------------------------
(* put(job), from the lock at line 40: closed_ is tested once, before the   *)
(* wait.                                                                   *)
PutReturnsSignallingOnce(t, x) ==    \* variant: signals the first job only
  /\ status[t] = "out" /\ ~closed /\ Room
  /\ jobs' = Append(jobs, x)
  /\ status' \in IF jobs = << >> THEN NotifyOne(status, "get_wait", "get_woken") ELSE {status}
  /\ UNCHANGED << closed, arg >>

PutReturns(t, x) ==
  /\ status[t] = "out" /\ ~closed /\ Room
  /\ jobs' = Append(jobs, x)
  /\ status' \in NotifyOne(status, "get_wait", "get_woken")
  /\ UNCHANGED << closed, arg >>

PutBlocks(t, x) ==
  /\ status[t] = "out" /\ ~closed /\ ~Room
  /\ status' = [status EXCEPT ![t] = "put_wait"]
  /\ arg' = [arg EXCEPT ![t] = x]
  /\ UNCHANGED << jobs, closed >>

PutThrows(t) ==
  /\ status[t] = "out" /\ closed
  /\ UNCHANGED vars

(* put(), from a wake-up: no second look at closed_, so that a job may be   *)
(* added after close().                                                    *)
PutResumesUnchecked(t) ==    \* variant: the predicate is not evaluated again
  /\ status[t] = "put_woken"
  /\ jobs' = Append(jobs, arg[t])
  /\ status' \in NotifyOne([status EXCEPT ![t] = "out"], "get_wait", "get_woken")
  /\ arg' = [arg EXCEPT ![t] = NoJob]
  /\ UNCHANGED closed

PutResumes(t) ==
  /\ status[t] = "put_woken" /\ Room
  /\ jobs' = Append(jobs, arg[t])
  /\ status' \in NotifyOne([status EXCEPT ![t] = "out"], "get_wait", "get_woken")
  /\ arg' = [arg EXCEPT ![t] = NoJob]
  /\ UNCHANGED closed

PutSleepsAgain(t) ==
  /\ status[t] = "put_woken" /\ ~Room
  /\ status' = [status EXCEPT ![t] = "put_wait"]
  /\ UNCHANGED << jobs, closed, arg >>

(* get() from the lock at line 49, then from a wake-up.                     *)
GetReturnsSignallingOnce(t) ==    \* variant: signals the first free place only
  /\ status[t] = "out" /\ jobs # << >>
  /\ jobs' = Tail(jobs)
  /\ status' \in IF Room THEN {status} ELSE NotifyOne(status, "put_wait", "put_woken")
  /\ UNCHANGED << closed, arg >>

GetReturns(t) ==
  /\ status[t] = "out" /\ jobs # << >>
  /\ jobs' = Tail(jobs)
  /\ status' \in NotifyOne(status, "put_wait", "put_woken")
  /\ UNCHANGED << closed, arg >>

GetNone(t) ==
  /\ status[t] = "out" /\ jobs = << >> /\ closed
  /\ UNCHANGED vars

GetBlocks(t) ==
  /\ status[t] = "out" /\ jobs = << >> /\ ~closed
  /\ status' = [status EXCEPT ![t] = "get_wait"]
  /\ UNCHANGED << jobs, closed, arg >>

GetResumes(t) ==
  /\ status[t] = "get_woken" /\ jobs # << >>
  /\ jobs' = Tail(jobs)
  /\ status' \in NotifyOne([status EXCEPT ![t] = "out"], "put_wait", "put_woken")
  /\ UNCHANGED << closed, arg >>

GetResumesNoneUnchecked(t) ==    \* variant: the predicate is not evaluated again
  /\ status[t] = "get_woken" /\ jobs = << >>
  /\ status' = [status EXCEPT ![t] = "out"]
  /\ UNCHANGED << jobs, closed, arg >>

GetResumesNone(t) ==
  /\ status[t] = "get_woken" /\ jobs = << >> /\ closed
  /\ status' = [status EXCEPT ![t] = "out"]
  /\ UNCHANGED << jobs, closed, arg >>

GetSleepsAgain(t) ==
  /\ status[t] = "get_woken" /\ jobs = << >> /\ ~closed
  /\ status' = [status EXCEPT ![t] = "get_wait"]
  /\ UNCHANGED << jobs, closed, arg >>

(* close() wakes the consumers; blocked producers are not notified.         *)
CloseNotifyingOne(t) ==    \* variant: notify_one
  /\ status[t] = "out"
  /\ closed' = TRUE
  /\ status' \in NotifyOne(status, "get_wait", "get_woken")
  /\ UNCHANGED << jobs, arg >>

Close(t) ==
  /\ status[t] = "out"
  /\ closed' = TRUE
  /\ status' = NotifyAll(status, "get_wait", "get_woken")
  /\ UNCHANGED << jobs, arg >>

SpuriousWakeup(t) ==
  /\ \/ status[t] = "get_wait" /\ status' = [status EXCEPT ![t] = "get_woken"]
     \/ status[t] = "put_wait" /\ status' = [status EXCEPT ![t] = "put_woken"]
  /\ UNCHANGED << jobs, closed, arg >>

-----------------------------------------------------------------------------
(* What a woken thread does once it has the mutex again.                    *)
Reacquires(t) ==
  \/ PutResumes(t) \/ PutSleepsAgain(t)
  \/ GetResumes(t) \/ GetResumesNone(t) \/ GetSleepsAgain(t)

Next ==
  \E t \in Thread :
    \/ \E x \in Job : PutReturns(t, x) \/ PutBlocks(t, x)
    \/ PutThrows(t) \/ GetReturns(t) \/ GetNone(t) \/ GetBlocks(t)
    \/ Reacquires(t) \/ Close(t) \/ SpuriousWakeup(t)

Safety == Init /\ [][Next]_vars

(* A woken thread gets the mutex in the end.  Nothing makes a thread call   *)
(* the queue, nor a wake-up happen that no notify caused.                   *)
Spec == Safety /\ \A t \in Thread : WF_vars(Reacquires(t))

-----------------------------------------------------------------------------
Status == {"out", "put_wait", "put_woken", "get_wait", "get_woken"}

\* The queue never exceeds its capacity, also when several producers are woken
\* for one free place or a newcomer overtakes the one that was woken, and a
\* thread holds a job exactly while it is blocked in put().
TypeOK ==
  /\ jobs \in Seq(Job)
  /\ Len(jobs) <= MaxSize
  /\ closed \in BOOLEAN
  /\ status \in [Thread -> Status]
  /\ arg \in [Thread -> Job \cup {NoJob}]
  /\ \A t \in Thread : arg[t] # NoJob <=> status[t] \in {"put_wait", "put_woken"}

\* No lost wake-up of consumers: while one is asleep, each queued job has a
\* woken consumer coming for it.  notify_one (not notify_all) suffices, and
\* signalling only from put() suffices.
GettersSignalled ==
  In(status, "get_wait") # {} =>
    Cardinality(In(status, "get_woken")) >= Len(jobs)

\* No lost wake-up of producers: while one is asleep, each free place has a
\* woken producer coming for it, although get() on an empty closed queue
\* returns without a notify and close() does not notify producers at all.
PuttersSignalled ==
  In(status, "put_wait") # {} =>
    Cardinality(In(status, "put_woken")) >= MaxSize - Len(jobs)

\* No wake-up is lost, on either condition variable: notify_one() is enough.
NoWakeupLost == GettersSignalled /\ PuttersSignalled

\* Nobody is left asleep in get() on a closed queue, and none falls asleep.
NoGetterSleepsAfterClose == closed => In(status, "get_wait") = {}

Call(where) ==
  IF where = "out" THEN "none"
  ELSE IF where \in {"put_wait", "put_woken"} THEN "put" ELSE "get"

Pending == [t \in Thread |-> Call(status[t])]

Contract == INSTANCE JobsContract WITH queue <- jobs, pending <- Pending

\* Each call takes effect in one instant: FIFO, no job lost or repeated, put
\* refused after close, none only from a closed and drained queue.
ContractSafety == Contract!Safety

\* No call hangs that the contract says must return: the notifies reach
\* everybody whose condition has come true.
ContractProgress == Contract!Progress
=============================================================================
