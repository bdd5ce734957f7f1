--------------------------- MODULE ProcessMapReduce -------------------------
(***************************************************************************)
(* lab3/main.cpp, map_reduce_multi_process_multiplexed(): a coordinator    *)
(* forks a mapper and a reducer and talks to them over four pipes, cm and  *)
(* mc to and from the mapper, cr and rc to and from the reducer, which it  *)
(* multiplexes with select().  The end of the input travels through them   *)
(* as the closing of a pipe.                                               *)
(***************************************************************************)
EXTENDS Pipes, SequencesExt

CONSTANTS
  Line, Key, Value,
  Inputs,     \* the inputs, each the sequence of its lines
  Fatal,      \* the lines on which the map function calls std::exit()
  Endless,    \* the lines in which map_attacks looks for ever for a code
  MapFun      \* MapFun[l]: the results the mapper makes of another line l

Result == [key : Key, value : Value]

ASSUME RolesAssumption ==
  /\ Process = {"coordinator", "mapper", "reducer"} /\ Selector = "coordinator"
  /\ Pipe = {"cm", "mc", "cr", "rc"}

ASSUME InputAssumption ==
  /\ Inputs \subseteq Seq(Line)
  /\ MapFun \in [Line \ (Fatal \cup Endless) -> Seq(Result)]

VARIABLES
  at,         \* where each process is
  unread,     \* the lines of the input that follow
  queue,      \* mapper_results of the coordinator
  accs,       \* accs of the coordinator
  mapped,     \* the mapper's results of its line, not yet written
  folded,     \* accs of the reducer
  reduced     \* the result the reducer is about to write

pVars == << content, held, ready >>
cVars == << unread, queue, accs >>
mVars == << mapped >>
rVars == << folded, reduced >>
vars == << pVars, at, cVars, mVars, rVars >>

Both(xs) == xs \X End

NoResult == [key |-> "none", value |-> << >>]

Init ==
  /\ PipesInit
  /\ at = [p \in Process |-> IF p = "coordinator" THEN "forks mapper" ELSE "unborn"]
  /\ unread \in Inputs
  /\ queue = << >>
  /\ accs = [k \in Key |-> << >>]
  /\ mapped = << >>
  /\ folded = [k \in Key |-> << >>]
  /\ reduced = NoResult

Goes(p, from, to) == at[p] = from /\ at' = [at EXCEPT ![p] = to]

-----------------------------------------------------------------------------
(* The coordinator.  The reducer is forked after the mapper, with copies    *)
(* of all that the coordinator holds.                                      *)
ForksMapper ==
  /\ at["coordinator"] = "forks mapper"
  /\ Fork("mapper")
  /\ at' = [at EXCEPT !["coordinator"] = "forks reducer", !["mapper"] = "close"]
  /\ UNCHANGED << cVars, mVars, rVars >>

ForksReducer ==
  /\ at["coordinator"] = "forks reducer"
  /\ Fork("reducer")
  /\ at' = [at EXCEPT !["coordinator"] = "close", !["reducer"] = "close"]
  /\ UNCHANGED << cVars, mVars, rVars >>

ClosesFarEnds ==
  /\ Goes("coordinator", "close", "select")
  /\ Close("coordinator", {<< "cm", "read" >>, << "mc", "write" >>,
                           << "cr", "read" >>, << "rc", "write" >>})
  /\ UNCHANGED << cVars, mVars, rVars >>

Selects ==
  /\ \E x \in Pipe : ~IsClose(x)
  /\ Goes("coordinator", "select", "cm")
  /\ Select
  /\ UNCHANGED << cVars, mVars, rVars >>

(* send work to mapper                                                     *)
SendsLine ==
  /\ Goes("coordinator", "cm", "mc")
  /\ << "cm", "write" >> \in ready /\ unread # << >>
  /\ Write("coordinator", "cm", Head(unread))
  /\ unread' = Tail(unread)
  /\ UNCHANGED << queue, accs, mVars, rVars >>

(* The mapper has exited and nobody else has the end to read.              *)
CoordinatorKilled ==
  /\ Goes("coordinator", "cm", "killed")
  /\ << "cm", "write" >> \in ready /\ unread # << >>
  /\ WriteKills("coordinator", "cm")
  /\ UNCHANGED << cVars, mVars, rVars >>

EndsInput ==
  /\ Goes("coordinator", "cm", "mc")
  /\ << "cm", "write" >> \in ready /\ unread = << >>
  /\ Close("coordinator", Both({"cm"}))
  /\ UNCHANGED << cVars, mVars, rVars >>

(* get (one!) result from mapper                                           *)
GetsMapped ==
  /\ Goes("coordinator", "mc", "cr")
  /\ << "mc", "read" >> \in ready
  /\ Read("coordinator", "mc")
  /\ queue' = Append(queue, Head(content["mc"]))
  /\ UNCHANGED << unread, accs, mVars, rVars >>

MapperEnded ==
  /\ Goes("coordinator", "mc", "cr")
  /\ << "mc", "read" >> \in ready /\ AtEof("mc")
  /\ Close("coordinator", Both({"mc"}))
  /\ UNCHANGED << cVars, mVars, rVars >>

(* send work to reducer                                                    *)
SendsResult ==
  /\ Goes("coordinator", "cr", "rc")
  /\ << "cr", "write" >> \in ready /\ queue # << >>
  /\ Write("coordinator", "cr", Head(queue))
  /\ queue' = Tail(queue)
  /\ UNCHANGED << unread, accs, mVars, rVars >>

AllSentToMapper == queue = << >> /\ IsClose("cm")    \* variant: mc is not tested

AllMapped == queue = << >> /\ IsClose("cm") /\ IsClose("mc")

EndsMapped ==
  /\ Goes("coordinator", "cr", "rc")
  /\ << "cr", "write" >> \in ready /\ AllMapped
  /\ Close("coordinator", Both({"cr"}))
  /\ UNCHANGED << cVars, mVars, rVars >>

(* get result from reducer.  The read waits for the rest of a result that   *)
(* the reducer is still writing.                                           *)
Whole == ~(Len(content["rc"]) = 1 /\ at["reducer"] = "rest")

GetsReduced ==
  /\ Goes("coordinator", "rc", "select")
  /\ << "rc", "read" >> \in ready /\ Whole
  /\ Read("coordinator", "rc")
  /\ accs' = [accs EXCEPT ![Head(content["rc"]).key] = Head(content["rc"]).value]
  /\ UNCHANGED << unread, queue, mVars, rVars >>

ReducerEnded ==
  /\ Goes("coordinator", "rc", "select")
  /\ << "rc", "read" >> \in ready /\ AtEof("rc")
  /\ Close("coordinator", Both({"rc"}))
  /\ UNCHANGED << cVars, mVars, rVars >>

(* The flag is not set, or there is nothing to send to the reducer.        *)
Passes ==
  /\ \/ Goes("coordinator", "cm", "mc") /\ << "cm", "write" >> \notin ready
     \/ Goes("coordinator", "mc", "cr") /\ << "mc", "read" >> \notin ready
     \/ Goes("coordinator", "cr", "rc") /\ << "cr", "write" >> \notin ready
     \/ Goes("coordinator", "cr", "rc") /\ queue = << >> /\ ~AllMapped
     \/ Goes("coordinator", "rc", "select") /\ << "rc", "read" >> \notin ready
  /\ UNCHANGED << pVars, cVars, mVars, rVars >>

Returns ==
  /\ \A x \in Pipe : IsClose(x)
  /\ Goes("coordinator", "select", "returned")
  /\ UNCHANGED << pVars, cVars, mVars, rVars >>

CoordinatorRuns ==
  \/ ForksMapper \/ ForksReducer \/ ClosesFarEnds \/ Selects
  \/ SendsLine \/ CoordinatorKilled \/ EndsInput \/ GetsMapped \/ MapperEnded
  \/ SendsResult \/ EndsMapped \/ GetsReduced \/ ReducerEnded
  \/ Passes \/ Returns

-----------------------------------------------------------------------------
(* The mapper.  It closes what it does not use at the head of its loop.     *)
MapperCloses ==
  /\ mapped = << >>
  /\ Goes("mapper", "close", "read") \/ Goes("mapper", "write", "read")
  /\ Close("mapper", {<< "cm", "write" >>, << "mc", "read" >>} \cup Both({"cr", "rc"}))
  /\ UNCHANGED << cVars, mVars, rVars >>

Maps ==
  /\ Goes("mapper", "read", "write")
  /\ Read("mapper", "cm") /\ Head(content["cm"]) \notin Fatal \cup Endless
  /\ mapped' = MapFun[Head(content["cm"])]
  /\ UNCHANGED << cVars, rVars >>

(* The map function does not come back.                                    *)
MapperGivesUp ==
  /\ Read("mapper", "cm")
  /\ \/ Goes("mapper", "read", "fails") /\ Head(content["cm"]) \in Fatal
     \/ Goes("mapper", "read", "loops") /\ Head(content["cm"]) \in Endless
  /\ UNCHANGED << cVars, mVars, rVars >>

(* std::exit(EXIT_FAILURE) in the map function.                            *)
MapperFails ==
  /\ Goes("mapper", "fails", "failed")
  /\ Close("mapper", Both(Pipe))
  /\ UNCHANGED << cVars, mVars, rVars >>

MapperWrites ==
  /\ at["mapper"] = "write" /\ mapped # << >>
  /\ Write("mapper", "mc", Head(mapped))
  /\ mapped' = Tail(mapped)
  /\ UNCHANGED << at, cVars, rVars >>

MapperExits ==
  /\ Goes("mapper", "read", "exit")
  /\ AtEof("cm")
  /\ Close("mapper", Both(Pipe))
  /\ UNCHANGED << cVars, mVars, rVars >>

MapperRuns ==
  MapperCloses \/ Maps \/ MapperGivesUp \/ MapperFails \/ MapperWrites \/ MapperExits

-----------------------------------------------------------------------------
(* The reducer.                                                             *)
ReducerKeepsMapperPipes ==    \* variant: pipe_cm->close() is missing
  /\ Goes("reducer", "close", "read")
  /\ Close("reducer", {<< "cr", "write" >>, << "rc", "read" >>} \cup Both({"mc"}))
  /\ UNCHANGED << cVars, mVars, rVars >>

ReducerClosesWrongEnd ==    \* variant: pipe_cr->closeRead()
  /\ Goes("reducer", "close", "read")
  /\ Close("reducer", {<< "cr", "read" >>, << "rc", "read" >>} \cup Both({"cm", "mc"}))
  /\ UNCHANGED << cVars, mVars, rVars >>

ReducerCloses ==
  /\ Goes("reducer", "close", "read")
  /\ Close("reducer", {<< "cr", "write" >>, << "rc", "read" >>} \cup Both({"cm", "mc"}))
  /\ UNCHANGED << cVars, mVars, rVars >>

Reduces ==
  LET r == Head(content["cr"])
      acc == Append(folded[r.key], r.value)
  IN /\ Goes("reducer", "read", "write")
     /\ Read("reducer", "cr")
     /\ folded' = [folded EXCEPT ![r.key] = acc]
     /\ reduced' = [key |-> r.key, value |-> acc]
     /\ UNCHANGED << cVars, mVars >>

(* The accumulator of reduce_attacks grows with every result, so that it    *)
(* may be more than a write puts into the pipe at once: the reducer is at  *)
(* "rest" while a part of the last message is not in the pipe.             *)
ReducerWrites ==
  /\ Goes("reducer", "write", "close") \/ Goes("reducer", "write", "rest")
  /\ Write("reducer", "rc", reduced)
  /\ reduced' = NoResult
  /\ UNCHANGED << cVars, mVars, folded >>

ReducerFinishes ==
  /\ Goes("reducer", "rest", "close")
  /\ Room("rc") \/ (at["coordinator"] = "rc" /\ << "rc", "read" >> \in ready)
  /\ HasReader("rc")
  /\ UNCHANGED << pVars, cVars, mVars, rVars >>

(* The coordinator was killed.                                             *)
ReducerKilled ==
  /\ Goes("reducer", "write", "killed") \/ Goes("reducer", "rest", "killed")
  /\ WriteKills("reducer", "rc")
  /\ UNCHANGED << cVars, mVars, rVars >>

ReducerExits ==
  /\ Goes("reducer", "read", "exit")
  /\ AtEof("cr")
  /\ Close("reducer", Both(Pipe))
  /\ UNCHANGED << cVars, mVars, rVars >>

ReducerRuns ==
  \/ ReducerCloses \/ Reduces \/ ReducerWrites \/ ReducerFinishes
  \/ ReducerKilled \/ ReducerExits

Next == CoordinatorRuns \/ MapperRuns \/ ReducerRuns

(* The operating system runs every process that can run.                   *)
Spec ==
  /\ Init /\ [][Next]_vars
  /\ WF_vars(CoordinatorRuns) /\ WF_vars(MapperRuns) /\ WF_vars(ReducerRuns)

-----------------------------------------------------------------------------
(* No pipe is over-full, no flag is set for a descriptor that is closed,   *)
(* and a child has results in hand only between its read and its write.    *)
TypeOK ==
  /\ content["cm"] \in Seq(Line) /\ content["rc"] \in Seq([key : Key, value : Seq(Value)])
  /\ \A x \in {"mc", "cr"} : content[x] \in Seq(Result)
  /\ \A x \in Pipe : Len(content[x]) <= Capacity
  /\ held \subseteq Process \X Pipe \X End
  /\ \A d \in ready : << "coordinator", d[1], d[2] >> \in held
  /\ mapped # << >> => at["mapper"] = "write"
  /\ at["reducer"] # "killed" => (reduced # NoResult <=> at["reducer"] = "write")

(* A flag tells the truth for as long as it is set, although the other     *)
(* processes go on, or end, between select() and its use: the coordinator, *)
(* the only process that could relieve the others, never blocks in a write *)
(* and never reads a pipe that is empty (main.cpp 211-256).                *)
FlagsAreTrue ==
  \A x \in Pipe : /\ << x, "write" >> \in ready => Writable(x)
                  /\ << x, "read" >> \in ready => Readable(x)

(* A pipe that somebody may still write to has a reader, whatever the      *)
(* order in which the three close their descriptors (main.cpp 148-151,     *)
(* 176-179, 202-205 and the EOF branches): no process is killed by SIGPIPE *)
(* but for a map function that calls std::exit() (333, 360, 386).  Then it *)
(* is the coordinator that may write to the mapper that is gone, and,      *)
(* killed by that, only the reducer that may answer nobody.                *)
NoBrokenPipe ==
  \A x \in Pipe :
    (\E p \in Process : << p, x, "write" >> \in held) /\ ~HasReader(x)
      => \/ x = "cm" /\ at["mapper"] = "failed"
         \/ x = "rc" /\ at["coordinator"] = "killed" /\ at["mapper"] = "failed"

(* What is left to map, and the results on their way, the oldest first.    *)
GaveUp == at["mapper"] \in {"fails", "failed", "loops"}

ToMap == IF GaveUp THEN << >> ELSE content["cm"] \o unread

Answers == IF reduced = NoResult THEN content["rc"] ELSE Append(content["rc"], reduced)

Newest(answers) ==    \* the value that each of them has reduced
  [i \in DOMAIN answers |-> [key |-> answers[i].key, value |-> Last(answers[i].value)]]

InFlight == Newest(Answers) \o content["cr"] \o queue \o content["mc"] \o mapped
=============================================================================
