------------------------------ MODULE RingJobs ------------------------------
(***************************************************************************)
(* lab4/Jobs.h: the same monitor as lab5/include/Jobs.h, built on the ring *)
(* of lab4/CircularBuffer.h in place of std::queue.  It composes           *)
(* CircularBuffer with the locking of the monitor, and implements Jobs.    *)
(***************************************************************************)
EXTENDS CircularBuffer, FiniteSets

CONSTANTS Thread, NoJob

VARIABLES closed, status, arg

Monitor == INSTANCE Jobs WITH jobs <- Contents, Job <- Item, MaxSize <- Requested

all == << buffer, head, tail, closed, status, arg >>

InitJobs ==
  /\ RingInit
  /\ closed = FALSE
  /\ status = [t \in Thread |-> "out"]
  /\ arg = [t \in Thread |-> NoJob]

Goes(t, where) == [status EXCEPT ![t] = where]

-----------------------------------------------------------------------------
(* put(): lock, test of closed, then the loop of cv_full.wait.              *)
PutSection(t, x) ==
  \/ /\ Full
     /\ status' = Goes(t, "put_wait")
     /\ arg' = [arg EXCEPT ![t] = x]
     /\ UNCHANGED << buffer, head, tail, closed >>
  \/ /\ Put(x)
     /\ status' \in Monitor!NotifyOne(Goes(t, "out"), "get_wait", "get_woken")
     /\ arg' = [arg EXCEPT ![t] = NoJob]
     /\ UNCHANGED closed

PutJob(t, x) == status[t] = "out" /\ ~closed /\ PutSection(t, x)

PutThrows(t) == status[t] = "out" /\ closed /\ UNCHANGED all

(* get(): lock, then the loop of cv_empty.wait, then a second empty() that  *)
(* tells a job from the end of the jobs.                                   *)
GetSection(t) ==
  \/ /\ Empty /\ ~closed
     /\ status' = Goes(t, "get_wait")
     /\ UNCHANGED << buffer, head, tail, closed, arg >>
  \/ /\ Empty /\ closed
     /\ status' = Goes(t, "out")
     /\ UNCHANGED << buffer, head, tail, closed, arg >>
  \/ /\ Get
     /\ status' \in Monitor!NotifyOne(Goes(t, "out"), "put_wait", "put_woken")
     /\ UNCHANGED << closed, arg >>

GetJob(t) == status[t] = "out" /\ GetSection(t)

CloseNotifyingOne(t) ==    \* variant: notify_one
  /\ status[t] = "out"
  /\ closed' = TRUE
  /\ status' \in Monitor!NotifyOne(status, "get_wait", "get_woken")
  /\ UNCHANGED << buffer, head, tail, arg >>

Close(t) ==
  /\ status[t] = "out"
  /\ closed' = TRUE
  /\ status' = Monitor!NotifyAll(status, "get_wait", "get_woken")
  /\ UNCHANGED << buffer, head, tail, arg >>

Reacquires(t) ==
  \/ status[t] = "put_woken" /\ PutSection(t, arg[t])
  \/ status[t] = "get_woken" /\ GetSection(t)

SpuriousWakeup(t) ==
  /\ \/ status[t] = "get_wait" /\ status' = Goes(t, "get_woken")
     \/ status[t] = "put_wait" /\ status' = Goes(t, "put_woken")
  /\ UNCHANGED << buffer, head, tail, closed, arg >>

NextJobs ==
  \E t \in Thread :
    \/ \E x \in Item : PutJob(t, x)
    \/ PutThrows(t) \/ GetJob(t) \/ Close(t) \/ Reacquires(t) \/ SpuriousWakeup(t)

SpecJobs == InitJobs /\ [][NextJobs]_all /\ \A t \in Thread : WF_all(Reacquires(t))

-----------------------------------------------------------------------------
\* The lab4 queue is the monitor of Jobs step for step: whatever the indices
\* of the ring, put() sleeps exactly when Requested jobs are inside and get()
\* exactly when none is, and the same threads are woken (safety and fairness).
ImplementsJobs == Monitor!Spec
=============================================================================
