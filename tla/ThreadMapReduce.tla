--------------------------- MODULE ThreadMapReduce --------------------------
(***************************************************************************)
(* lab4/part2.cpp: four map-reduces over the same file, one after the      *)
(* other.  In each the main thread puts the lines into line_jobs, mappers  *)
(* turn them into results in result_jobs and reducers accumulate these in  *)
(* a table behind a mutex.  Main closes line_jobs after the last line and  *)
(* result_jobs after joining the mappers, joins the reducers and prints.   *)
(*                                                                         *)
(* The queues are JobsContract, which the monitor of lab4/Jobs.h           *)
(* implements.  A line is its position in the file, and so is the result   *)
(* made of it: no map function makes more than one.                        *)
(***************************************************************************)
EXTENDS Naturals, Sequences, FiniteSets

CONSTANTS
  Mapper, Reducer, Main,   \* the threads
  Key, NoKey,              \* what results are grouped by
  BadCode,                 \* the keys of the attacks: 400, 404 and 405
  Calls,                   \* the map functions in the order of main()
  Input,                   \* the lines: [count, hasIp, quoted]
  QueueSize,               \* default_size of lab4/Jobs.h
  None                     \* no line

(* Input[i].count is the key that a counting map function finds in line i, *)
(* or NoKey when the line is invalid.  hasIp says whether it begins with   *)
(* an address, and quoted is what can be read after each quotation mark    *)
(* from the second on: a code, or NoKey when reading a number fails.       *)
ASSUME InputAssumption ==
  /\ Calls \in Seq({"count", "attacks"})
  /\ Input \in Seq([count : Key \cup {NoKey}, hasIp : BOOLEAN, quoted : Seq(Key \cup {NoKey})])
  /\ BadCode \subseteq Key /\ NoKey \notin Key
ASSUME ThreadAssumption ==    \* N_MAPPERS and N_REDUCERS are positive
  /\ Mapper # {} /\ Reducer # {}
  /\ Mapper \cap Reducer = {} /\ Main \notin Mapper \cup Reducer
ASSUME NoneAssumption == None \notin Nat /\ None \notin Nat \X Nat

VARIABLES
  lQueue, lClosed, lPending, lArg,   \* line_jobs
  rQueue, rClosed, rPending, rArg,   \* result_jobs
  call,       \* which of Calls is in progress
  mainAt,     \* "reading", "joining_mappers" or "joining_reducers"
  next,       \* the line that getline() reads next
  mapping,    \* per mapper: << line, numbers tried >>, or None
  reducing,   \* per reducer: the result it has taken, or None
  done,       \* the threads whose function has returned
  accs        \* Results: the lines accumulated under each key

lVars == << lQueue, lClosed, lPending, lArg >>
rVars == << rQueue, rClosed, rPending, rArg >>
vars == << lVars, rVars, call, mainAt, next, mapping, reducing, done, accs >>

Line == 1 .. Len(Input)

LineJobs == INSTANCE JobsContract WITH
  Thread <- Mapper \cup {Main}, Job <- Line, MaxSize <- QueueSize, NoJob <- None,
  queue <- lQueue, closed <- lClosed, pending <- lPending, arg <- lArg

ResultJobs == INSTANCE JobsContract WITH
  Thread <- Mapper \cup Reducer, Job <- Line, MaxSize <- QueueSize, NoJob <- None,
  queue <- rQueue, closed <- rClosed, pending <- rPending, arg <- rArg

-----------------------------------------------------------------------------
(* What the map functions make of a line.  The attacks skip a number that   *)
(* cannot be read, since there may be quotation marks in the URL, and keep  *)
(* the codes of BadCode.                                                    *)
FirstCode(l) ==
  LET codes == {n \in DOMAIN l.quoted : l.quoted[n] # NoKey}
  IN  IF codes = {} THEN NoKey ELSE l.quoted[CHOOSE n \in codes : \A m \in codes : n <= m]

KeyOf(c, l) ==
  IF Calls[c] = "count" THEN l.count
  ELSE IF l.hasIp /\ FirstCode(l) \in BadCode THEN FirstCode(l) ELSE NoKey

(* Whether a mapper that has tried n numbers of line l knows what to do.    *)
Decided(l, n) ==
  \/ Calls[call] = "count"
  \/ ~l.hasIp
  \/ n > 0 /\ l.quoted[n] # NoKey

Init ==
  /\ LineJobs!Init
  /\ ResultJobs!Init
  /\ call = 1
  /\ mainAt = "reading"
  /\ next = 1
  /\ mapping = [m \in Mapper |-> None]
  /\ reducing = [r \in Reducer |-> None]
  /\ done = {}
  /\ accs = [k \in Key |-> << >>]

Running == call <= Len(Calls)

-----------------------------------------------------------------------------
(* map_reduce() in the main thread.                                         *)
ReadsLine ==
  /\ Running /\ mainAt = "reading" /\ next \in Line
  /\ LineJobs!PutReturns(Main, next) \/ LineJobs!PutBlocks(Main, next)
  /\ next' = next + 1
  /\ UNCHANGED << rVars, call, mainAt, mapping, reducing, done, accs >>

ReadsLineLater ==
  /\ LineJobs!PutResumes(Main)
  /\ UNCHANGED << rVars, call, mainAt, next, mapping, reducing, done, accs >>

ClosesLines ==
  /\ Running /\ mainAt = "reading" /\ next \notin Line
  /\ LineJobs!Close(Main)
  /\ mainAt' = "joining_mappers"
  /\ UNCHANGED << rVars, call, next, mapping, reducing, done, accs >>

ClosesResultsEarly ==    \* variant: closes before it joins
  /\ mainAt = "joining_mappers"
  /\ rClosed' = TRUE
  /\ mainAt' = "joining_reducers"
  /\ UNCHANGED << lVars, rQueue, rPending, rArg, call, next, mapping, reducing, done, accs >>

JoinsMappersAndClosesResults ==
  /\ mainAt = "joining_mappers" /\ Mapper \subseteq done
  /\ rClosed' = TRUE
  /\ mainAt' = "joining_reducers"
  /\ UNCHANGED << lVars, rQueue, rPending, rArg, call, next, mapping, reducing, done, accs >>

(* main() rewinds the file with clear() and seekg(0); the queues, the table *)
(* and the threads of the next call are new.                                *)
BeginsNextCall ==
  /\ call' = call + 1
  /\ next' = 1
  /\ mainAt' = "reading"
  /\ lQueue' = << >> /\ lClosed' = FALSE
  /\ lPending' = [t \in Mapper \cup {Main} |-> "none"]
  /\ lArg' = [t \in Mapper \cup {Main} |-> None]
  /\ rQueue' = << >> /\ rClosed' = FALSE
  /\ rPending' = [t \in Mapper \cup Reducer |-> "none"]
  /\ rArg' = [t \in Mapper \cup Reducer |-> None]
  /\ mapping' = [m \in Mapper |-> None]
  /\ reducing' = [r \in Reducer |-> None]
  /\ done' = {}
  /\ accs' = [k \in Key |-> << >>]

PrintsWithoutJoining ==    \* variant: does not wait for the reducers
  mainAt = "joining_reducers" /\ BeginsNextCall

JoinsReducersAndPrints ==
  mainAt = "joining_reducers" /\ Reducer \subseteq done /\ BeginsNextCall

MainRuns ==
  ReadsLine \/ ClosesLines \/ JoinsMappersAndClosesResults \/ JoinsReducersAndPrints

-----------------------------------------------------------------------------
(* The loop of the map functions.                                           *)
StartsMapping(m, i) ==
  /\ mapping' = [mapping EXCEPT ![m] = << i, 0 >>]
  /\ UNCHANGED << rVars, call, mainAt, next, reducing, done, accs >>

Stops(t) ==
  /\ done' = done \cup {t}
  /\ UNCHANGED << call, mainAt, next, mapping, reducing, accs >>

GetsLine(m) ==
  /\ Running /\ m \notin done /\ mapping[m] = None
  /\ \/ LineJobs!GetReturns(m) /\ StartsMapping(m, Head(lQueue))
     \/ LineJobs!GetNone(m) /\ Stops(m) /\ UNCHANGED rVars
     \/ LineJobs!GetBlocks(m)
        /\ UNCHANGED << rVars, call, mainAt, next, mapping, reducing, done, accs >>

GetsLineLater(m) == LineJobs!GetResumes(m) /\ StartsMapping(m, Head(lQueue))

GetsNoLineLater(m) == LineJobs!GetResumesNone(m) /\ Stops(m) /\ UNCHANGED rVars

(* do { clear(); ignore(max, '"'); iss >> code; } while (fail()): behind the *)
(* last quotation mark the stream is at its end and every attempt fails.    *)
TriesNumber(m) ==
  /\ mapping[m] # None
  /\ LET l == Input[mapping[m][1]]  n == mapping[m][2]
     IN  /\ ~Decided(l, n)
         /\ mapping' = [mapping EXCEPT ![m][2] = IF n < Len(l.quoted) THEN n + 1 ELSE n]
  /\ UNCHANGED << lVars, rVars, call, mainAt, next, reducing, done, accs >>

Ready(m) ==
  /\ mapping[m] # None /\ rPending[m] = "none"
  /\ Decided(Input[mapping[m][1]], mapping[m][2])

DropsLine(m) ==
  /\ Ready(m) /\ KeyOf(call, Input[mapping[m][1]]) = NoKey
  /\ mapping' = [mapping EXCEPT ![m] = None]
  /\ UNCHANGED << lVars, rVars, call, mainAt, next, reducing, done, accs >>

TakesNextLine(m) ==
  /\ mapping' = [mapping EXCEPT ![m] = None]
  /\ UNCHANGED << lVars, call, mainAt, next, reducing, done, accs >>

PutsResult(m) ==
  /\ Ready(m) /\ KeyOf(call, Input[mapping[m][1]]) # NoKey
  /\ \/ ResultJobs!PutReturns(m, mapping[m][1]) /\ TakesNextLine(m)
     \/ ResultJobs!PutBlocks(m, mapping[m][1])
        /\ UNCHANGED << lVars, call, mainAt, next, mapping, reducing, done, accs >>

PutsResultLater(m) == ResultJobs!PutResumes(m) /\ TakesNextLine(m)

MapperRuns(m) == GetsLine(m) \/ TriesNumber(m) \/ DropsLine(m) \/ PutsResult(m)

-----------------------------------------------------------------------------
(* The loop of the reduce functions: get(), then accumulate() under         *)
(* m_results.                                                               *)
StartsReducing(r, i) ==
  /\ reducing' = [reducing EXCEPT ![r] = i]
  /\ UNCHANGED << lVars, call, mainAt, next, mapping, done, accs >>

GetsResult(r) ==
  /\ Running /\ r \notin done /\ reducing[r] = None
  /\ \/ ResultJobs!GetReturns(r) /\ StartsReducing(r, Head(rQueue))
     \/ ResultJobs!GetNone(r) /\ Stops(r) /\ UNCHANGED lVars
     \/ ResultJobs!GetBlocks(r)
        /\ UNCHANGED << lVars, call, mainAt, next, mapping, reducing, done, accs >>

GetsResultLater(r) == ResultJobs!GetResumes(r) /\ StartsReducing(r, Head(rQueue))

GetsNoResultLater(r) == ResultJobs!GetResumesNone(r) /\ Stops(r) /\ UNCHANGED lVars

Accumulates(r) ==
  /\ reducing[r] # None
  /\ accs' = [accs EXCEPT ![KeyOf(call, Input[reducing[r]])] = Append(@, reducing[r])]
  /\ reducing' = [reducing EXCEPT ![r] = None]
  /\ UNCHANGED << lVars, rVars, call, mainAt, next, mapping, done >>

ReducerRuns(r) == GetsResult(r) \/ Accumulates(r)

-----------------------------------------------------------------------------
Next ==
  \/ MainRuns \/ ReadsLineLater
  \/ \E m \in Mapper :
       MapperRuns(m) \/ GetsLineLater(m) \/ GetsNoLineLater(m) \/ PutsResultLater(m)
  \/ \E r \in Reducer : ReducerRuns(r) \/ GetsResultLater(r) \/ GetsNoResultLater(r)

(* As in FileSearch: threads that are not blocked run, blocked ones are     *)
(* promised what the contract of the queues promises.                       *)
Fairness ==
  /\ WF_vars(MainRuns)
  /\ \A m \in Mapper : WF_vars(MapperRuns(m))
  /\ \A r \in Reducer : WF_vars(ReducerRuns(r))
  /\ WF_vars(ReadsLineLater)
  /\ WF_vars(\E m \in Mapper : GetsLineLater(m))
  /\ WF_vars(\E m \in Mapper : PutsResultLater(m))
  /\ WF_vars(\E r \in Reducer : GetsResultLater(r))
  /\ \A m \in Mapper : WF_vars(lClosed /\ (GetsLineLater(m) \/ GetsNoLineLater(m)))
  /\ \A r \in Reducer : WF_vars(rClosed /\ (GetsResultLater(r) \/ GetsNoResultLater(r)))

Spec == Init /\ [][Next]_vars /\ Fairness

-----------------------------------------------------------------------------
Unordered == INSTANCE UnorderedMapReduce WITH
  Yields <- [c \in DOMAIN Calls |-> [i \in Line |-> KeyOf(c, Input[i])]]

\* The put() of a mapper never finds result_jobs closed (the std::logic_error
\* would end the program), and no result reaches a table that main has printed:
\* main closes the queue when no mapper holds a line, and when it prints nothing
\* is left in the queue and no reducer holds a result or waits for one.
ClosedInOrder ==
  /\ [](lClosed => next \notin Line /\ lPending[Main] = "none")
  /\ [](rClosed => /\ lQueue = << >>
                   /\ \A m \in Mapper : mapping[m] = None /\ rPending[m] = "none" /\ m \in done)
  /\ [][call' # call => /\ rQueue = << >>
                        /\ \A r \in Reducer : reducing[r] = None /\ rPending[r] = "none"]_vars

\* The four calls of main() end with every result accumulated exactly once
\* and under its key, in each of them: threads, queues and joins implement
\* UnorderedMapReduce, termination included.
ImplementsUnordered == Unordered!Spec
=============================================================================
