------------------------------ MODULE MCQueues ------------------------------
(* The queue of the chat room and that of lab 4, one or the other.          *)
EXTENDS Jobs, CircularBuffer

CONSTANT RingThread

VARIABLES lab, ringClosed, ringStatus, ringArg

Ring == INSTANCE RingJobs WITH
  Thread <- RingThread, closed <- ringClosed, status <- ringStatus, arg <- ringArg

ring == << ringVars, ringClosed, ringStatus, ringArg >>

queues == << vars, ring, lab >>

QueuesInit == Init /\ Ring!InitJobs /\ lab \in {4, 5}

OfLab5 == lab = 5 /\ Next /\ UNCHANGED << ring, lab >>

OfLab4 == lab = 4 /\ Ring!NextJobs /\ UNCHANGED << vars, lab >>

QueuesSpec ==
  /\ QueuesInit /\ [][OfLab5 \/ OfLab4]_queues
  /\ \A t \in Thread : WF_queues(lab = 5 /\ Reacquires(t) /\ UNCHANGED << ring, lab >>)
  /\ \A t \in RingThread : WF_queues(lab = 4 /\ Ring!Reacquires(t) /\ UNCHANGED << vars, lab >>)

\* The lab4 queue implements the monitor of Jobs, as RingJobs states it.
ImplementsJobs == Ring!ImplementsJobs
=============================================================================
