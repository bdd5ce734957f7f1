---------------------------- MODULE JobsContract ----------------------------
(***************************************************************************)
(* What the thread-safe queues of lab4/Jobs.h and lab5/include/Jobs.h      *)
(* promise to the threads that share one, with no mutex and no condition   *)
(* variable: put() and get() take effect in one instant, possibly after a  *)
(* period in which the call is pending.  FileSearch and ChatServer are     *)
(* composed over this module; Jobs is shown to implement it.               *)
(***************************************************************************)
EXTENDS Naturals, Sequences

CONSTANTS
  Thread,     \* the threads that call the queue
  Job,        \* what is queued
  MaxSize,    \* capacity
  NoJob       \* the argument of a thread that is not blocked in put()

VARIABLES
  queue,      \* jobs put and not yet got, oldest first
  closed,     \* close() has been called
  pending,    \* the call each thread is blocked in: "none", "put" or "get"
  arg         \* the job of a thread blocked in put()

vars == << queue, closed, pending, arg >>

Room == Len(queue) < MaxSize

Idle(t) == pending[t] = "none"

Init ==
  /\ queue = << >>
  /\ closed = FALSE
  /\ pending = [t \in Thread |-> "none"]
  /\ arg = [t \in Thread |-> NoJob]

-----------------------------------------------------------------------------
(* put(): refused once closed; otherwise admitted, at once if there is room *)
(* and later if there is none.  An admitted put is not refused later, not   *)
(* even by a close().                                                      *)
PutReturnsLifo(t, x) ==    \* variant: a stack
  /\ Idle(t) /\ ~closed /\ Room
  /\ queue' = << x >> \o queue
  /\ UNCHANGED << closed, pending, arg >>

PutReturns(t, x) ==
  /\ Idle(t) /\ ~closed /\ Room
  /\ queue' = Append(queue, x)
  /\ UNCHANGED << closed, pending, arg >>

PutBlocks(t, x) ==
  /\ Idle(t) /\ ~closed /\ ~Room
  /\ pending' = [pending EXCEPT ![t] = "put"]
  /\ arg' = [arg EXCEPT ![t] = x]
  /\ UNCHANGED << queue, closed >>

PutThrows(t) ==
  /\ Idle(t) /\ closed
  /\ UNCHANGED vars

PutResumes(t) ==
  /\ pending[t] = "put" /\ Room
  /\ queue' = Append(queue, arg[t])
  /\ pending' = [pending EXCEPT ![t] = "none"]
  /\ arg' = [arg EXCEPT ![t] = NoJob]
  /\ UNCHANGED closed

(* get(): the oldest job, or nothing once the queue is closed and drained.  *)
GetReturns(t) ==
  /\ Idle(t) /\ queue # << >>
  /\ queue' = Tail(queue)
  /\ UNCHANGED << closed, pending, arg >>

GetNone(t) ==
  /\ Idle(t) /\ queue = << >> /\ closed
  /\ UNCHANGED vars

GetBlocks(t) ==
  /\ Idle(t) /\ queue = << >> /\ ~closed
  /\ pending' = [pending EXCEPT ![t] = "get"]
  /\ UNCHANGED << queue, closed, arg >>

GetResumes(t) ==
  /\ pending[t] = "get" /\ queue # << >>
  /\ queue' = Tail(queue)
  /\ pending' = [pending EXCEPT ![t] = "none"]
  /\ UNCHANGED << closed, arg >>

GetResumesNone(t) ==
  /\ pending[t] = "get" /\ queue = << >> /\ closed
  /\ pending' = [pending EXCEPT ![t] = "none"]
  /\ UNCHANGED << queue, closed, arg >>

Close(t) ==
  /\ Idle(t)
  /\ closed' = TRUE
  /\ UNCHANGED << queue, pending, arg >>

Resumes(t) == PutResumes(t) \/ GetResumes(t) \/ GetResumesNone(t)

Next ==
  \E t \in Thread :
    \/ \E x \in Job : PutReturns(t, x) \/ PutBlocks(t, x)
    \/ PutThrows(t) \/ GetReturns(t) \/ GetNone(t) \/ GetBlocks(t)
    \/ Resumes(t) \/ Close(t)

Safety == Init /\ [][Next]_vars

(* A pending put does not wait for ever while there is room, nor a pending  *)
(* get while there are jobs, although which of several pending calls is     *)
(* served, and whether a newcomer overtakes them, is left open.  After a    *)
(* close() every pending get returns.                                      *)
Progress ==
  /\ WF_vars(\E t \in Thread : PutResumes(t))
  /\ WF_vars(\E t \in Thread : GetResumes(t))
  /\ \A t \in Thread : WF_vars(closed /\ (GetResumes(t) \/ GetResumesNone(t)))

Spec == Safety /\ Progress
=============================================================================
