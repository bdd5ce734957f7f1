---------------------------- MODULE SyncMapReduce ---------------------------
(***************************************************************************)
(* lab3/main.cpp, map_reduce_multi_process_synchronous(): the same three   *)
(* processes and pipes as in ProcessMapReduce, one line and one result at  *)
(* a time.  The results of a line travel as one message, a vector, and the *)
(* accumulator goes to the reducer and back.  No process closes the ends   *)
(* of the pipes that it does not use.  The accumulators that travel may be *)
(* more than a write puts into a pipe at once; that changes nothing here,  *)
(* where the one process that reads the pipe waits for this message, and   *)
(* its writer does nothing else until it reads the answer.                 *)
(*                                                                         *)
(* The state is that of ProcessMapReduce, where folded is not used, and    *)
(* version says which of the two functions is called.                      *)
(***************************************************************************)
EXTENDS ProcessMapReduce

VARIABLE version

SyncForksMapper ==
  /\ at["coordinator"] = "forks mapper"
  /\ Fork("mapper")
  /\ at' = [at EXCEPT !["coordinator"] = "forks reducer", !["mapper"] = "read"]
  /\ UNCHANGED << cVars, mVars, rVars >>

SyncForksReducer ==
  /\ at["coordinator"] = "forks reducer"
  /\ Fork("reducer")
  /\ at' = [at EXCEPT !["coordinator"] = "next line", !["reducer"] = "read"]
  /\ UNCHANGED << cVars, mVars, rVars >>

(* communicate with mapper                                                  *)
SyncSendsLine ==
  /\ unread # << >>
  /\ Goes("coordinator", "next line", "mc")
  /\ Write("coordinator", "cm", Head(unread))
  /\ unread' = Tail(unread)
  /\ UNCHANGED << queue, accs, mVars, rVars >>

SyncGetsMapped ==
  /\ Goes("coordinator", "mc", "cr")
  /\ Read("coordinator", "mc")
  /\ queue' = Head(content["mc"])
  /\ UNCHANGED << unread, accs, mVars, rVars >>

(* communicate with reducer                                                 *)
SyncSendsAhead ==    \* variant: all results are written before one is read
  /\ queue # << >>
  /\ Goes("coordinator", "cr", IF Len(queue) = 1 THEN "rc" ELSE "cr")
  /\ Write("coordinator", "cr", [key |-> Head(queue).key, value |-> Head(queue).value,
                                 acc |-> accs[Head(queue).key]])
  /\ queue' = Tail(queue)
  /\ UNCHANGED << unread, accs, mVars, rVars >>

SyncSendsResult ==
  /\ queue # << >>
  /\ Goes("coordinator", "cr", "rc")
  /\ Write("coordinator", "cr", [key |-> Head(queue).key, value |-> Head(queue).value,
                                 acc |-> accs[Head(queue).key]])
  /\ queue' = Tail(queue)
  /\ UNCHANGED << unread, accs, mVars, rVars >>

SyncGetsReduced ==
  /\ Goes("coordinator", "rc", "cr")
  /\ Read("coordinator", "rc")
  /\ accs' = [accs EXCEPT ![Head(content["rc"]).key] = Head(content["rc"]).value]
  /\ UNCHANGED << unread, queue, mVars, rVars >>

SyncLineDone ==
  /\ queue = << >>
  /\ Goes("coordinator", "cr", "next line")
  /\ UNCHANGED << pVars, cVars, mVars, rVars >>

(* The pipes are destroyed, which closes the coordinator's ends.            *)
SyncReturns ==
  /\ unread = << >>
  /\ Goes("coordinator", "next line", "returned")
  /\ Close("coordinator", Both(Pipe))
  /\ UNCHANGED << cVars, mVars, rVars >>

SyncCoordinatorRuns ==
  \/ SyncForksMapper \/ SyncForksReducer
  \/ SyncSendsLine \/ SyncGetsMapped \/ SyncSendsResult \/ SyncGetsReduced
  \/ SyncLineDone \/ SyncReturns

-----------------------------------------------------------------------------
(* The children, which read again after each message.  At the end of file  *)
(* they would exit as those of the other version do.                        *)
SyncMapperWrites ==
  /\ Goes("mapper", "write", "read")
  /\ Write("mapper", "mc", mapped)
  /\ mapped' = << >>
  /\ UNCHANGED << cVars, rVars >>

SyncMapperRuns == Maps \/ MapperGivesUp \/ MapperFails \/ SyncMapperWrites \/ MapperExits

SyncReduces ==
  LET r == Head(content["cr"])
  IN /\ Goes("reducer", "read", "write")
     /\ Read("reducer", "cr")
     /\ reduced' = [key |-> r.key, value |-> Append(r.acc, r.value)]
     /\ UNCHANGED << cVars, mVars, folded >>

SyncReducerWrites ==
  /\ Goes("reducer", "write", "read")
  /\ Write("reducer", "rc", reduced)
  /\ reduced' = NoResult
  /\ UNCHANGED << cVars, mVars, folded >>

SyncReducerRuns == SyncReduces \/ SyncReducerWrites \/ ReducerExits

-----------------------------------------------------------------------------
(* One of the two versions is called.                                       *)
CoordinatorOf ==
  \/ version = "multiplexed" /\ CoordinatorRuns /\ UNCHANGED version
  \/ version = "synchronous" /\ SyncCoordinatorRuns /\ UNCHANGED version

MapperOf ==
  \/ version = "multiplexed" /\ MapperRuns /\ UNCHANGED version
  \/ version = "synchronous" /\ SyncMapperRuns /\ UNCHANGED version

ReducerOf ==
  \/ version = "multiplexed" /\ ReducerRuns /\ UNCHANGED version
  \/ version = "synchronous" /\ SyncReducerRuns /\ UNCHANGED version

varsOf == << vars, version >>

InitOf == Init /\ version \in {"multiplexed", "synchronous"}

SpecOf ==
  /\ InitOf /\ [][CoordinatorOf \/ MapperOf \/ ReducerOf]_varsOf
  /\ WF_varsOf(CoordinatorOf) /\ WF_varsOf(MapperOf) /\ WF_varsOf(ReducerOf)

-----------------------------------------------------------------------------
(* As InFlight, of the synchronous version: jobs carry an accumulator, and  *)
(* the vector of a line is one message.                                     *)
Unreduced ==
  [i \in DOMAIN content["cr"] |->
     [key |-> content["cr"][i].key, value |-> content["cr"][i].value]]

Vector == IF content["mc"] = << >> THEN mapped ELSE Head(content["mc"])

SyncInFlight == Newest(Answers) \o Unreduced \o queue \o Vector

OneProcess == INSTANCE MapReduce WITH
  lines <- ToMap,
  results <- IF version = "multiplexed" THEN InFlight ELSE SyncInFlight,
  returned <- at["coordinator"] = "returned",
  failed <- GaveUp,
  Hopeless <- Fatal \cup Endless

\* Both versions compute what map_reduce_single_process() computes: the
\* coordinator's accumulators take the same values in the same order, nothing is
\* lost or reduced twice, although the accumulator that a result is reduced into
\* is the one that was read when it was sent, and the function returns.  When the
\* map function does not come back from a line, no result of a later one is
\* reduced.
ImplementsMapReduce == OneProcess!Spec

\* Whatever the input, the three processes of the multiplexed version end: both
\* children see the end of their input and exit, "input terminated => all done"
\* (main.cpp 162, 191), and when the mapper fails on a line nobody is left waiting
\* for it; unless the mapper looks for ever for a code (main.cpp 411-415).
ChildrenEnd ==
  version = "multiplexed" =>
    <>(\/ at["mapper"] = "loops"
       \/ at["mapper"] = "exit" /\ at["reducer"] = "exit" /\ at["coordinator"] = "returned"
       \/ /\ at["mapper"] = "failed" /\ at["reducer"] \in {"exit", "killed"}
          /\ at["coordinator"] \in {"returned", "killed"})

\* "input terminated => all done for the mapper", "all done for the reducer"
\* (main.cpp 59, 81): in the synchronous version too the children exit when the
\* input has been sent.  They do not: each of them holds the end to write of the
\* pipe that it reads, so that it waits for ever when the coordinator has
\* returned.
ChildrenExit ==
  version = "synchronous" => <>(at["mapper"] = "exit" /\ at["reducer"] = "exit")
=============================================================================
