----------------------------- MODULE FileSearch -----------------------------
(***************************************************************************)
(* lab4/part1.cpp: the main thread lists a directory into file_jobs;       *)
(* producers read the .txt files among them and put their lines into       *)
(* line_jobs; consumers print every match of a regex on each line.  Main   *)
(* closes file_jobs after the listing and line_jobs after joining the      *)
(* producers, and exits after joining the consumers.                       *)
(*                                                                         *)
(* The two queues are JobsContract, which the monitor of lab4/Jobs.h       *)
(* implements (RingJobs, Jobs).  A line is << file, number >> and Content  *)
(* gives how many matches each line of a file has.                         *)
(***************************************************************************)
EXTENDS Naturals, Sequences, FiniteSets

CONSTANTS
  Producer, Consumer, Main,   \* the threads
  File,                       \* the entries of the directory
  TxtFile,                    \* those whose name matches .+\.txt
  Content,                    \* Content[f][n]: matches on line n of f
  QueueSize,                  \* default_size of lab4/Jobs.h
  None                        \* no file, no line

ASSUME FilesAssumption == TxtFile \subseteq File /\ Content \in [File -> Seq(Nat)]
ASSUME ThreadAssumption ==    \* N_PRODUCERS and N_CONSUMERS are positive
  /\ Producer # {} /\ Consumer # {}
  /\ Producer \cap Consumer = {} /\ Main \notin Producer \cup Consumer
ASSUME NoneAssumption ==
  /\ None \notin File /\ None \notin File \X Nat
  /\ None \notin (File \X Nat) \X Nat

VARIABLES
  fQueue, fClosed, fPending, fArg,   \* file_jobs
  lQueue, lClosed, lPending, lArg,   \* line_jobs
  mainAt,     \* where main is: "listing", "joining_producers", ...
  unlisted,   \* directory entries not yet reached by the iterator
  reading,    \* per producer: << file, next line >>, or None between files
  matching,   \* per consumer: << line, matches printed so far >>, or None
  done,       \* the threads whose function has returned
  printed     \* how many times each match of each line was printed

fVars == << fQueue, fClosed, fPending, fArg >>
lVars == << lQueue, lClosed, lPending, lArg >>
vars == << fVars, lVars, mainAt, unlisted, reading, matching, done, printed >>

Line == UNION {{<< f, n >> : n \in 1 .. Len(Content[f])} : f \in File}

Match == UNION {{<< l, i >> : i \in 1 .. Content[l[1]][l[2]]} : l \in Line}

FileJobs == INSTANCE JobsContract WITH
  Thread <- Producer \cup {Main}, Job <- File, MaxSize <- QueueSize, NoJob <- None,
  queue <- fQueue, closed <- fClosed, pending <- fPending, arg <- fArg

LineJobs == INSTANCE JobsContract WITH
  Thread <- Producer \cup Consumer, Job <- Line, MaxSize <- QueueSize, NoJob <- None,
  queue <- lQueue, closed <- lClosed, pending <- lPending, arg <- lArg

Init ==
  /\ FileJobs!Init
  /\ LineJobs!Init
  /\ mainAt = "listing"
  /\ unlisted = File
  /\ reading = [p \in Producer |-> None]
  /\ matching = [c \in Consumer |-> None]
  /\ done = {}
  /\ printed = [m \in Match |-> 0]

-----------------------------------------------------------------------------
(* main: for (entry : directory_iterator) file_jobs.put(entry.path())       *)
ListsEntry ==
  /\ mainAt = "listing"
  /\ \E f \in unlisted :
       /\ unlisted' = unlisted \ {f}
       /\ FileJobs!PutReturns(Main, f) \/ FileJobs!PutBlocks(Main, f)
  /\ UNCHANGED << lVars, mainAt, reading, matching, done, printed >>

ListsNoMore ==    \* variant: file_jobs stays open
  /\ mainAt = "listing" /\ unlisted = {}
  /\ mainAt' = "joining_producers"
  /\ UNCHANGED << fVars, lVars, unlisted, reading, matching, done, printed >>

ClosesFiles ==
  /\ mainAt = "listing" /\ unlisted = {}
  /\ FileJobs!Close(Main)
  /\ mainAt' = "joining_producers"
  /\ UNCHANGED << lVars, unlisted, reading, matching, done, printed >>

ClosesLinesEarly ==    \* variant: closes before it joins
  /\ mainAt = "joining_producers"
  /\ lClosed' = TRUE
  /\ mainAt' = "joining_consumers"
  /\ UNCHANGED << fVars, lQueue, lPending, lArg, unlisted, reading, matching, done, printed >>

JoinsProducersAndClosesLines ==
  /\ mainAt = "joining_producers" /\ Producer \subseteq done
  /\ lClosed' = TRUE
  /\ mainAt' = "joining_consumers"
  /\ UNCHANGED << fVars, lQueue, lPending, lArg, unlisted, reading, matching, done, printed >>

JoinsConsumers ==
  /\ mainAt = "joining_consumers" /\ Consumer \subseteq done
  /\ mainAt' = "exit"
  /\ UNCHANGED << fVars, lVars, unlisted, reading, matching, done, printed >>

MainRuns ==
  ListsEntry \/ ClosesFiles \/ JoinsProducersAndClosesLines \/ JoinsConsumers

-----------------------------------------------------------------------------
(* produce(): a file is taken; unless it is a .txt the producer goes back   *)
(* for the next one.                                                       *)
Free(p) == p \notin done /\ reading[p] = None

StartsReading(p, f) ==
  /\ reading' = [reading EXCEPT ![p] = IF f \in TxtFile THEN << f, 1 >> ELSE None]
  /\ UNCHANGED << lVars, mainAt, unlisted, matching, done, printed >>

Stops(t) ==
  /\ done' = done \cup {t}
  /\ UNCHANGED << mainAt, unlisted, reading, matching, printed >>

GetsFile(p) ==
  /\ Free(p)
  /\ \/ FileJobs!GetReturns(p) /\ StartsReading(p, Head(fQueue))
     \/ FileJobs!GetNone(p) /\ Stops(p) /\ UNCHANGED lVars
     \/ FileJobs!GetBlocks(p) /\ UNCHANGED << lVars, mainAt, unlisted, reading, matching, done, printed >>

GetsFileLater(p) == FileJobs!GetResumes(p) /\ StartsReading(p, Head(fQueue))

GetsNoFileLater(p) == FileJobs!GetResumesNone(p) /\ Stops(p) /\ UNCHANGED lVars

ListsEntryLater ==
  /\ FileJobs!PutResumes(Main)
  /\ UNCHANGED << lVars, mainAt, unlisted, reading, matching, done, printed >>

(* while (getline(ifs, line)) line_jobs.put(..., line_number++).  That put  *)
(* on a closed queue would throw in a thread with no handler and end the    *)
(* program; NoPutOnClosedQueue says it cannot happen.                      *)
StaysOnLine(p) ==    \* variant: the line is produced again
  UNCHANGED << fVars, mainAt, unlisted, reading, matching, done, printed >>

Advances(p) ==
  /\ reading' = [reading EXCEPT ![p] = << @[1], @[2] + 1 >>]
  /\ UNCHANGED << fVars, mainAt, unlisted, matching, done, printed >>

PutsLine(p) ==
  /\ p \notin done /\ reading[p] \in Line
  /\ \/ LineJobs!PutReturns(p, reading[p]) /\ Advances(p)
     \/ LineJobs!PutBlocks(p, reading[p])
        /\ UNCHANGED << fVars, mainAt, unlisted, reading, matching, done, printed >>

PutsLineLater(p) == LineJobs!PutResumes(p) /\ Advances(p)

EndsFile(p) ==
  /\ p \notin done /\ reading[p] \notin Line \cup {None}
  /\ reading' = [reading EXCEPT ![p] = None]
  /\ UNCHANGED << fVars, lVars, mainAt, unlisted, matching, done, printed >>

ProducerRuns(p) == GetsFile(p) \/ PutsLine(p) \/ EndsFile(p)

-----------------------------------------------------------------------------
(* consume(): take a line, print its matches one by one (print() locks      *)
(* m_output for one message at a time).                                    *)
StartsMatching(c, l) ==
  /\ matching' = [matching EXCEPT ![c] = << l, 0 >>]
  /\ UNCHANGED << fVars, mainAt, unlisted, reading, done, printed >>

GetsLine(c) ==
  /\ c \notin done /\ matching[c] = None
  /\ \/ LineJobs!GetReturns(c) /\ StartsMatching(c, Head(lQueue))
     \/ LineJobs!GetNone(c) /\ Stops(c) /\ UNCHANGED fVars
     \/ LineJobs!GetBlocks(c) /\ UNCHANGED << fVars, mainAt, unlisted, reading, matching, done, printed >>

GetsLineLater(c) == LineJobs!GetResumes(c) /\ StartsMatching(c, Head(lQueue))

GetsNoLineLater(c) == LineJobs!GetResumesNone(c) /\ Stops(c) /\ UNCHANGED fVars

Prints(c) ==
  /\ matching[c] # None
  /\ LET m == << matching[c][1], matching[c][2] + 1 >> IN
       IF m \in Match
       THEN /\ printed' = [printed EXCEPT ![m] = @ + 1]
            /\ matching' = [matching EXCEPT ![c] = m]
       ELSE /\ matching' = [matching EXCEPT ![c] = None]
            /\ UNCHANGED printed
  /\ UNCHANGED << fVars, lVars, mainAt, unlisted, reading, done >>

ConsumerRuns(c) == GetsLine(c) \/ Prints(c)

-----------------------------------------------------------------------------
Next ==
  \/ MainRuns \/ ListsEntryLater
  \/ \E p \in Producer :
       ProducerRuns(p) \/ GetsFileLater(p) \/ GetsNoFileLater(p) \/ PutsLineLater(p)
  \/ \E c \in Consumer : ConsumerRuns(c) \/ GetsLineLater(c) \/ GetsNoLineLater(c)

(* Threads that are not blocked run; blocked ones are promised what the     *)
(* contract of the queues promises, not that each of them is served.        *)
Fairness ==
  /\ WF_vars(MainRuns)
  /\ \A p \in Producer : WF_vars(ProducerRuns(p))
  /\ \A c \in Consumer : WF_vars(ConsumerRuns(c))
  /\ WF_vars(ListsEntryLater)
  /\ WF_vars(\E p \in Producer : GetsFileLater(p))
  /\ WF_vars(\E p \in Producer : PutsLineLater(p))
  /\ WF_vars(\E c \in Consumer : GetsLineLater(c))
  /\ \A p \in Producer : WF_vars(fClosed /\ (GetsFileLater(p) \/ GetsNoFileLater(p)))
  /\ \A c \in Consumer : WF_vars(lClosed /\ (GetsLineLater(c) \/ GetsNoLineLater(c)))

Spec == Init /\ [][Next]_vars /\ Fairness

-----------------------------------------------------------------------------
(* Where a line is on its way from its file to the output.                  *)
Unread(l) ==
  \/ l[1] \in unlisted \cup {fQueue[i] : i \in 1 .. Len(fQueue)} \cup {fArg[Main]}
  \/ \E p \in Producer : reading[p] # None /\ reading[p][1] = l[1] /\ reading[p][2] <= l[2]

Copies(l) ==
  Cardinality({i \in 1 .. Len(lQueue) : lQueue[i] = l})
    + Cardinality({c \in Consumer : matching[c] # None /\ matching[c][1] = l})

\* A line that is still to be read is in no queue and no consumer's hands, a
\* line that was read is in at most one place, and none of its matches has
\* been printed more often than the consumers' progress says: nothing is
\* duplicated by the hand-overs file_jobs -> producer -> line_jobs -> consumer.
NothingDuplicated ==
  /\ \A l \in Line : Copies(l) + (IF Unread(l) THEN 1 ELSE 0) <= 1
  /\ \A m \in Match :
       printed[m] = IF Unread(m[1]) THEN 0
                    ELSE IF \E i \in 1 .. Len(lQueue) : lQueue[i] = m[1] THEN 0
                    ELSE IF \E c \in Consumer :
                              matching[c] # None /\ matching[c][1] = m[1] /\ matching[c][2] < m[2]
                         THEN 0
                    ELSE IF m[1][1] \in TxtFile THEN 1 ELSE 0

\* When main returns, every match of every line of every .txt file has been
\* printed exactly once and no other, and no thread is left behind: the
\* order join / close / join loses nothing that was still in a queue.
ExitComplete ==
  mainAt = "exit" =>
    /\ \A m \in Match : printed[m] = IF m[1][1] \in TxtFile THEN 1 ELSE 0
    /\ Producer \cup Consumer \subseteq done
    /\ fQueue = << >> /\ lQueue = << >>

\* At any time each match has been printed at most once, and once if its line has
\* got that far; in the end all have.
MatchesPrintedOnce == NothingDuplicated /\ ExitComplete

\* Whoever is about to put finds the queue open: main closes file_jobs after
\* its own last put, and line_jobs only when no producer can put any more, so
\* the std::logic_error of put(), which no thread catches, is never thrown.
NoPutOnClosedQueue ==
  /\ unlisted # {} => ~fClosed
  /\ lClosed => \A p \in Producer : reading[p] = None /\ lPending[p] = "none" /\ p \in done

\* The lines of one file reach the consumers in the order of the file, though
\* several producers share line_jobs.
LinesTakenInOrder ==
  [][\A l \in Line :
       Len(lQueue') < Len(lQueue) /\ Head(lQueue) = l =>
         \A k \in 1 .. l[2] - 1 :
           ~Unread(<< l[1], k >>) /\ \A i \in 1 .. Len(lQueue) : lQueue[i] # << l[1], k >>]_vars

\* The program ends, whatever the interleaving: no thread stays blocked in a
\* put or a get, and the joins return.
Terminates == <>(mainAt = "exit")
=============================================================================
