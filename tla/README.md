# Verification of the system programming labs

TLA+ specifications of the programs in this repository, TLC configurations that model-check them on
small instances, and proofs, checked by TLAPS, of what matters most for every instance.

The repository holds five laboratories. Two are sequential (a store of messages, a directory tree), one
runs map-reduce over processes and pipes, one has two multi-threaded programs on a shared queue, and the
last is a multi-threaded chat server with its client. All five are modelled; the concurrent ones in more depth.

Line numbers below are those of the files under `src/`. `PROJECT.json` maps each definition to its lines.

## 1. Inventory

### Job queues - `lab4/Jobs.h`, `lab4/CircularBuffer.h`, `lab5/include/Jobs.h`

* State: a bounded container (a ring of `max_size + 1` slots in lab 4, `std::queue` with a limit in lab 5),
  a flag `closed`, one mutex, one condition variable per direction.
* Operations: `put` blocks while the container is full and throws if the queue is closed; `get` blocks while
  it is empty and open and returns nothing once it is empty and closed; `close`.
* Used by every concurrent program except lab 3: as the hand-over between threads, as the inbox of a chat
  user, as the list of connections a pool of threads serves.
* Hard: one `notify_one` per transition with newcomers and spurious wake-ups competing for the mutex;
  `close()` does not wake producers; `put()` does not test `closed` again after it slept; the two indices of
  the ring are reduced modulo the size at different moments.
* Correct when: no thread sleeps beside work or room that nobody was woken for, a call takes effect in one
  instant, jobs come out once and in order, `close()` releases the consumers.

### File search - `lab4/part1.cpp`

* Main lists a directory into `file_jobs`, producers turn `.txt` files into lines in `line_jobs`, consumers
  print the matches of a regex. Main closes the first queue, joins the producers, closes the second, joins
  the consumers.
* Correct when: every match is printed exactly once before `main` returns, nobody puts into a closed queue,
  the lines of a file are taken in order, the program ends.

### Map-reduce with threads - `lab4/part2.cpp`, `lab4/Results.h`

* The same shape with mappers, reducers and a table behind a mutex, run four times over one file.
* Correct when: each call prints a table in which every result was accumulated once, whatever the order.
* Hard: `map_attacks` retries inside a line until it finds a number.

### Map-reduce with processes - `lab3/main.cpp`, `lab3/Pipe.*`, `lab3/Serializable.*`, `MapperInput.h`, `Result.h`, `ReducerInput.h`

* A coordinator forks a mapper and a reducer and multiplexes four pipes with `select()`. State: descriptors
  per process, copied by `fork()`; the flags `readyRead` and `readyWrite` of each pipe; a queue of results.
* The end of the input travels as the closing of pipes. The objects are framed by a leading size.
* Hard: a flag set by `select()` is used after the other processes have moved; every inherited descriptor
  counts, a write end left open hides EOF and a read end closed early kills the writer; three bounded pipes in
  a cycle; a map function that calls `std::exit()`, or does not return, in the child.
* Correct when: the result is that of the loop in one process, no process blocks another for ever, all exit.
* A synchronous version (34-115), which has no caller, sends one line and one result at a time; the results of
  a line come back as one serialised vector, and the accumulator goes to the reducer and back.

### Chat server - `lab5/src/server`, `lab5/src/protocol`, `lab5/src/socket`

* State: `online_users` (nickname to user) under `m_users`, with the condition variable `cv_users`;
  `last_messages` under `m_messages`; the queues `users_login`, `users_send`, `users_receive`,
  `users_logout`; one inbox (a job queue) per user.
* Operations: `main` accepts connections; pools of threads run `login()`, `send_messages()`,
  `receive_messages()` and `logout()` and hand users to each other through the queues.
* Hard: `m_users` is held across blocking calls (a `put` into an inbox or into `users_login`, a write to a
  socket whose client does not read); an inbox is closed before its user is erased; a login that fails half-way; distribution and
  archiving of a message are two critical sections; waiting for a free spot.
* Correct when: the limit of users holds, a nickname has one owner, clients' views agree with the server's
  table, messages stay in order and private ones private, logins and logouts complete.

### Chat client - `lab5/src/client`

* A refresher, a sender and a receiver share the last messages, the command being edited and three flags,
  under one mutex and one condition variable. `getch()` and `recv()` are called without the mutex.
* Correct when: the screen does not miss a change, nothing is sent after the end, no thread is left behind.

### Sockets - `lab5/src/socket`

* `receive_line(timeout)` reads a line byte by byte with `select()` and `recv()`; `send_line()` sends a line
  with as many calls of `send()` as it takes. Several threads of the server send on the socket of a user, with
  no lock, and one reads.
* Hard: partial sends, interrupted calls, one timeout for many calls, an end of the connection inside a line.
* Correct when: a line arrives whole, once and in order, or not at all, and a call ends with its timeout.

### Sequential parts

* `lab1`: `Message` owns a block of memory and has explicit copy and move operations; `MessageStore` is an array
  of messages that grows by `n` and is compacted. Hard: every sequence of copies, moves and destructions has
  to leave one owner to each block; a moved-from message keeps its identifier. Correct when nothing is
  leaked or freed twice and the array is a map from identifiers to messages, no identifier twice.
* `lab2`: `Directory`, a tree of directories and files, held by shared pointers from the parent and from
  clients and by weak ones from the children. Hard: what is freed when a subtree is removed that a client
  holds a part of. Correct when what exists is what can be reached, and `..` leads back from every child.
* Both labs' `DurationLogger` prints elapsed times.

## 2. Modules

| module | models | status |
|---|---|---|
| `CircularBuffer`, abstract `BoundedFifo` | `lab4/CircularBuffer.h` | checked (in `Queues`) and proved |
| `Jobs` | `lab5/include/Jobs.h`: mutex, condition variables, queue | checked and proved |
| `JobsContract` | what a queue promises, with no mutex | the abstract specification of `Jobs` |
| `RingJobs` | `lab4/Jobs.h` on the ring | checked and proved to implement `Jobs` |
| `MCQueues` | the queue of lab 5 or that of lab 4, one of the two | - |
| `FileSearch`, `MCFileSearch` | `lab4/part1.cpp` over two `JobsContract` | checked and proved |
| `ThreadMapReduce`, `MCThreadMapReduce`, abstract `UnorderedMapReduce` | `lab4/part2.cpp`, `lab4/Results.h` | checked, safety of the refinement proved |
| `Pipes`, `ProcessMapReduce`, abstract `MapReduce` | `lab3/Pipe.cpp`, the multiplexed map-reduce | checked; invariants and safety of the refinement proved |
| `SyncMapReduce` | the synchronous map-reduce, and the choice of one of the two | checked; the same proved |
| `PipeBytes`, `MCProcessMapReduce` | the binary serialisation of lab 3 | checked |
| `MessageStore`, abstract `Dictionary` | `lab1/Message.cpp`, `lab1/MessageStore.cpp` | checked and proved |
| `DirectoryTree` | `lab2/Directory.cpp`, `lab2/File.cpp` | checked and proved |
| `DirectoryPaths`, abstract `PathTree` | the same tree as a set of paths, to show the refinement | checked |
| `MCSequentialLabs` | lab 1 or lab 2, one of the two programs | - |
| `SocketLines`, `MCSocketLines` | `lab5/src/socket/Socket.cpp`, the two transfers of a line | checked, safety proved |
| `ChatMessages` | `lab5/src/protocol/Message.cpp` | checked (in `ChatClient`, `ChatTalk`, `ChatChurn`), the round trip proved |
| `ChatServer`, `ChatServerViews`, `MCChatServer` | the chat server | checked, safety proved |
| `ChatClient`, `MCChatClient` | the chat client | checked, safety proved |
| `ContainerProofs` (of `RingJobs` with its ring, of `MessageStore` and of `DirectoryTree`), `JobsProofs`, `FileSearchProofs`, `ThreadMapReduceProofs`, `ProcessMapReduceProofs`, `ChatServerProofs`, `ChatClientProofs`, `SocketLinesProofs` | theorems | proved |

The layers fit together as follows. `CircularBuffer` implements `BoundedFifo`; `RingJobs` composes it with the
locking of `lab4/Jobs.h` and implements `Jobs`; `Jobs` implements `JobsContract`; `FileSearch` and
`ThreadMapReduce` are built on instances of `JobsContract`, and the four queues and the inboxes of
`ChatServer` follow it. `ProcessMapReduce` and, on the same state, `SyncMapReduce` are built on `Pipes` and
implement `MapReduce`; `ThreadMapReduce` implements `UnorderedMapReduce`. `PipeBytes` justifies that `Pipes`
holds whole messages, as `SocketLines` justifies that a connection of `ChatServer` and `ChatClient` holds whole
lines. `MessageStore` implements `Dictionary`, and `DirectoryTree`, read by
its paths in `DirectoryPaths`, implements `PathTree`.

Definitions whose comment begins with *variant* are altered forms of the definition that follows them: what
the code would be after a plausible mistake. No specification uses them. For each checked property one of
them, put in the place of the original, makes TLC find the property violated (`mutants` in `PROJECT.json`).

### How state and actions correspond to the code

* **`Jobs`.** A critical section of the mutex is one action, since nothing else can see its middle. `status`
  says where a thread is: outside, waiting on one of the two condition variables (`put_wait`, `get_wait`), or
  woken and competing for the mutex (`put_woken`, `get_woken`). `notify_one` moves any one waiting thread, or
  none if none waits; `Reacquires` is the return of `wait()`, which tests its predicate again.
* **`JobsContract`.** A call returns at once, throws, or becomes *pending* and resumes later.
* **`ThreadMapReduce`, `FileSearch`.** One action per turn of each loop between two calls of the queues. In
  `ThreadMapReduce` a line is its position in the file and a result the position of its line: no map function
  makes more than one result of a line. Accumulators are the sequence of lines accumulated, from which
  the count (its length) and the string of addresses (its elements, in order) follow.
* **`Pipes`.** `held` is the set of open descriptors of all processes. Every `Pipe::write` of the program is
  one `::write`, and a pipe is writable when a message fits. A line and a result of one line, which are taken
  to be at most `PIPE_BUF` bytes long, enter the pipe at once, so its content is a sequence of messages. What
  the reducer answers is another matter: `reduce_attacks` (428-430) sends the whole growing
  accumulator, and a write of more than `PIPE_BUF` bytes enters the pipe in parts. After `ReducerWrites` the reducer
  may be at *rest*, with a part of its last message not yet in the pipe; the coordinator may find the pipe readable and
  then waits in `Pipe::read` (`Whole`) for a reducer that is waiting for nothing else. In the synchronous
  version one message is under way at a time, and its reader is there to take its parts. `FD_ISSET(-1, ...)` for a closed end (101-104) reads before the
  set; in an ordinary build that bit is clear, a build with `_FORTIFY_SOURCE` would abort instead.
* **`PipeBytes`.** The sizes that `Result.h:70` and `ReducerInput.h:71` add up by hand are added up by hand
  there too; the variant leaves one term out.
* **`ProcessMapReduce`.** `at` is the program counter of each process: the coordinator's four tests of flags
  (211-256) are four steps, between which the children move. The map functions of `main()` have two ways not
  to return, and the constants `Fatal` and `Endless` are the lines that make them: `std::exit()` in the mapper
  child (333, 360, 386; the one at 423 is never reached), which closes its descriptors, so that the next write to `pipe_cm` kills the
  coordinator with SIGPIPE (`CoordinatorKilled`) and then perhaps the reducer (`ReducerKilled`); and the loop of
  `map_attacks` (411-415), which goes on for ever once the stream has failed. The accumulators are sequences of values, so
  that nothing is assumed of the reduction; a program that computes the same sequences computes the same
  under every `reduce_fun`. As `MapReduce`, the state is read from both ends of the pipes: the lines to be
  mapped are those in `pipe_cm` and those unread; the results to be reduced are the answers of the reducer, the
  results in `pipe_cr`, in the queue, in `pipe_mc` and in the mapper's hands (`InFlight`). A result counts as
  reduced when its answer reaches the coordinator. `MapReduce` lets lines be mapped ahead of the
  reduction, as both child processes do; what is reduced into what, in which order, is that of the loop (17-24).
* **`ChatServer`.** The threads of a pool are interchangeable and each serves one connection at a time, so
  the program counters are kept per connection (`at[c].login`, ...), and a pool is exhausted when as many
  connections occupy it as it has threads. `section` is the critical section of `m_users`, with what is left
  of the loop over `online_users`: the loop blocks on a full inbox with the mutex held, as in the code.
  `up = FALSE` is the end of the process by an exception that no thread catches. `send()` has no timeout, so
  a write is two steps: the line is handed to the socket (`Writes`), and the thread goes on when the socket has
  taken it (`Written`), which it does not while a client that stays does not read (`stalled`). What is held
  meanwhile is what the code holds: `m_users` while a login is refused (70-71) or a private message denied
  (143-145), `m_messages` while the history is written (99, `HistoryFree`). A message in an inbox is the parsed
  line with source and destination as its client wrote them, with the connection it came from and its number
  there, so that what is delivered can be compared with what was addressed and signed.
* **`ChatClient`.** All the shared state is under one mutex, and a critical section is one action; a key or a
  line that was read but not yet handled is in `sender` or `receiver`. The server and the user are the
  environment. What the user types is counted in words, of which each may be empty: two spaces in a row, and
  spaces at either end. The two exceptions that an unexpected line causes, of the parser in the receiver
  (`RecordThrows`) and of `to_console()` in the refresher (`DrawThrows`), abort the process.
* **`SyncMapReduce`.** The state, the pipes and the children's reads are those of `ProcessMapReduce`; `version`
  says which of the two functions was called. Neither child closes the ends it does not use, as in the code.
* **`MessageStore`.** The client's variables, the array and the heap: a block of memory holds the identifier
  its text was made with. Every special member of `Message` and every operation of the store is an action,
  and the client calls them in any order on objects that are alive, as `lab1/main.cpp` does in one order. A
  call that would read a null pointer ends the run (`ReadsNull`). The size of a text goes
  where its identifier goes and is left out.
* **`DirectoryTree`.** A shared pointer is counted, and the release of the last one destroys the node and
  releases its children, which may destroy them in turn. The code does that one destructor inside the other;
  the model says which nodes end so, the least set of those to which no pointer is left from outside it
  (`Destroyed`). An assignment to a variable of the client acquires before it releases, so that
  `d = d->addDirectory(n)` is one of the steps. A node is free for re-use only when no weak pointer to it is
  left, which is when its control block is.
* **`SocketLines`.** One action per system call. A signal may interrupt `select()`, `recv()` and `send()`, the
  last also after a part was taken. The clock advances by seconds, as `std::time` does.
* **`ChatMessages`.** A line is the sequence of its words, with empty words where spaces meet, and that is all
  that the regular expressions of `Message.cpp` tell apart.

## 3. Runs

| run | instance | shows | distinct states |
|---|---|---|---|
| `Queues` | the queue of lab 5 with 4 threads, or that of lab 4 with 3; 2 jobs, room for 2 | no wake-up is lost; atomicity and progress of every call, under spurious wake-ups (`ContractSafety`, `ContractProgress`); `empty()` and `full()` of the ring are exact, the ring is a FIFO, and the queue on it implements `Jobs` | 28 090 |
| `FileSearch` | 2 producers, 2 consumers, queues of 2, 4 files | every match once, in order, no `put` on a closed queue, termination | 127 010 |
| `ThreadMapReduce` | 2 mappers, 2 reducers, queues of 1, 4 lines, 2 calls | queues are closed, and tables printed, in order; refinement of `UnorderedMapReduce`, with termination | 11 517 |
| `ProcessMapReduce` | four inputs: 5 lines, two with one that ends the mapper, one with one it never leaves; pipes of 2 messages, both versions | flags are true when used, no process is killed but after such an exit, bytes are read back, refinement of `MapReduce`, the children end | 37 314 |
| `ChildrenLeft` | the input of 5 lines | a finding, section 6 | |
| `ChatFull` | 5 connections, 2 login threads, `max_clients` 2, inboxes of 1 | the limit of users under concurrent logins, and the senders' pool never overbooked | 917 552 |
| `ChatChurn` | 3 connections, two with one nickname, one not logging in that writes a letter to that nickname, to itself or under another name | private messages reach whom they are addressed to, signed, `logout()` never throws, clients' views agree with the server's, nicknames keep their owner | 2 658 992 |
| `ChatTalk` | 2 users, one says 2 lines in public, the other leaves lines unread, closes or loses its connection; history of 2, inboxes of 2 | order, across the end of the history too; every login is resolved, every logout completes | 572 544 |
| `ChatClient` | console of 2 messages, 4 keys, empty words among them, three scripts of the server | no lost refresh, order of the console, what is shown is what was sent, nothing after the end, termination | 996 828 |
| `SequentialLabs` | lab 1: 2 variables, 3 messages, an array of 2 to 4; lab 2: 4 nodes, 2 names, 2 pointers | one owner per block, refinement of `Dictionary`; what exists is what is reachable, refinement of `PathTree` | 90 194 |
| `SocketLines` | 2 writers, 3 lines, a buffer of 2 bytes, timeout 2, 2 signals | lines arrive whole and in order, no byte is lost, the timeout holds but for one byte, every call ends | 49 518 |
| `ChatJam` | 4 connections, 1 login thread, `max_clients` 2 | a finding, section 6 | |

### Why the bounds are enough

* `Queues`: with room for 2, four threads can be two waiting on either side, or one woken and one
  newcomer competing with two that wait; the theorems cover every other size. The ring is turned around
  completely: its three slots are all reached by both indices in every relation.
* `FileSearch`: one file longer than `line_jobs`, a line with two matches and one with none, an empty file and
  a file that is skipped; both queues fill up and run empty while main, producers and consumers block.
* `ThreadMapReduce`: queues of one job make main and mappers block. The lines have a repeated key, an invalid
  line, a code behind a quotation mark and one that is not searched for. Two calls show the change from one
  to the next; the three counting calls differ only in the key they take.
* `ProcessMapReduce`: five lines with ten messages through pipes of two make every pipe full while its reader
  is elsewhere; one line repeats, one yields nothing and one yields two results. Pipes hold thousands of
  messages in reality; smaller pipes only block more. The line that ends the mapper is met once with four
  lines behind it, of which some are in `pipe_cm` and some are not, so that the coordinator is killed, and once
  as the last one, where the coordinator returns a part of the result. The line that it never
  leaves has more lines behind it than `pipe_cm` holds.
* `ChatFull`: five connections with queues of two and two login threads are what it takes to fill
  `users_login`, the login threads and `main` at once. Users do not leave or speak here, since nobody
  would notice: the run is about admission. A connection is its own nickname, so that the permutations of
  connections are symmetries of the model (those with a refused nickname apart); the two invariants do not
  distinguish connections.
* `ChatChurn` has what `ChatFull` leaves out: shared nicknames, departures and re-use. Two connections want
  to be *ann*, so the letter of the third may be on its way while the nickname passes from one to the other.
  The letter is to ann, to its author or signed by someone else: each condition of `send_private_message()` is met
  alone. Clients do not break off or leave lines unread here, which is in `ChatTalk` and in the proofs.
* `ChatTalk`: two lines are what order is about, and a history of two holds them together; the other client may
  log in at any point between the distribution of the first and the archiving of the second, and hear either
  or both of them twice. It may also stop reading, which blocks whoever writes to it; close the
  connection, with or without an error; and so leave its receiver given up, or its login failed after the
  insertion. Two lines and a notice are more than its inbox holds, so the speaker is blocked with
  `m_users` held, for as long as the client does not read or for ever. The capacity is not reached
  (`max_clients` 3), because logins need not resolve when it is: a server that is full waits, and see `ChatJam`.
* `ChatClient`: two messages on a console of two are evicted by the third; four words and keys are enough for
  `/private bob bob` and *enter*, for `/private bob` with an empty text and with none, two spaces in a row and at
  either end, a message of one or two empty words, a quit and a deletion. The environment's
  scripts are a login that is refused, one with history, a private message and a notice, and one with a
  message the console cannot show and a line that is no message.
* `SequentialLabs`: two variables are what an assignment relates, four blocks are one for each of them and for an
  array of two; three identifiers make an array of two grow and leave a place free behind a removed message.
  Four nodes are a root with two levels below it, or with two children of which one is held while it is
  removed. Only safety is checked, and the two programs share the values of their sets, which are symmetric.
* `SocketLines`: a buffer of two bytes is shorter than two of the three lines, which can be cut at each of their
  bytes and let the writers meet in the middle of one. One line has a carriage return, and one is empty. Two signals
  interrupt one call in each of two lines, or two calls of one. The server reads with a finite timeout and the
  client with `LONG_MAX`; the properties other than `ReceiveEnds` do not depend on the timeout being short.
* `MaxKeys`, `MaxLines` and the length of the scripts and inputs are the bounds on counters; the programs have
  no others.

### Fairness

Every thread or process that can take a step eventually does (weak fairness of each thread's actions): the
schedulers of the kernel and of the C++ library give that. A thread woken from `wait()` eventually gets the
mutex. Spurious wake-ups, arrivals, speech and departures of clients have no fairness. Threads blocked in a
queue have the promise of `JobsContract`: *some* pending call is served when it can be, and after `close()`
each pending `get` returns; this is what `Jobs` is shown to provide, and stronger fairness is not used.
A read of the server does end (`max_idle_time`).

A write of the server has no timeout, and its fairness is only that of a thread whose socket has room: `LoginResolves`
and `LogoutCompletes` have the premise `ClientsRead`, that whoever leaves lines unread reads them in the end or
leaves. The code does not guarantee it, and without it both are false (section 6). They exempt two more
cases that the run reaches and section 6 reports: the process has ended (`~up`), and `m_users` is held for ever for a
user whom nobody serves (`Deserted`). For `ChatClient`, the user presses a key when told to, and
the server closes a connection after `/quit`; `ChatTalk` checks that it logs such a client out. In `SocketLines`
the reader runs when it can and time passes; writers, signals and the end of the connection have no fairness.

Deadlock is checked in `Jobs`-like systems by their properties and switched off in the configurations of
programs that end (file search, map-reduces, client) or can be without work (server).

## 4. What is proved

All theorems are checked by TLAPS for every value of the constants, under the named assumptions of the
modules. Those say no more than the types of the parameters and what the programs start with:

* the requested size of a ring is in `Nat`; a queue has finitely many threads (its wake-ups are counted), a size
  in `Nat`, which may be 0, and a mark that is no job;
* the file search and the map-reduce with threads have at least one thread of each kind, all different, and a
  mark `None` that is no file, line or result; the threads need not be finitely many;
* the array of messages grows by a positive number of places, a client has finitely many variables (the messages
  alive are counted), and the mark `None` is no block, identifier or message;
* a client of the tree has finitely many pointers (they are counted), and `Null` is no node;
* the map-reduce with processes has three processes, four pipes of some positive capacity and a map function
  that makes a sequence of pairs of each line, but for any two sets of lines on which it exits or does not return;
* the server has finitely many connections, each with the nickname it will send; `max_clients` and
  `max_messages` are positive and the pools and inboxes have any size;
* the client's nickname is a word, as a login makes sure, and the console holds at least one message; what is
  typed are words, the empty one included, other than the names the model has for two keys and for the
  sender's states;
* writers send lines of text and carriage returns through a buffer of some positive capacity.

What each module proves, and why:

* `ContainerProofs`, of the ring: **TypeCorrect**, **ObserversCorrect** (`empty()` and `full()` are exact, `get()`
  returns the oldest item) and **ImplementsFifo** (the ring implements a bounded FIFO). The invariant relates
  the unreduced `tail` and `head` to the number of items; the cases are the positions of the wrap-around.
  Then, of the monitor of `lab4/Jobs.h` over that ring, **RingIsCalledRight**: `put()` and `get()` of the ring
  are called only when it is not full or not empty, so that all of the above holds in `RingJobs` too; and
  **RingImplementsJobs**, the safety part of `ImplementsJobs`: each step over the ring is the same step over
  a queue, read through the contents of the ring. `HeldInv` adds which threads hold a job while they wait.
  Of the store of `lab1`, **TextsAreOwnedHolds** (`TextsAreOwned`) and **StoreImplementsDictionary**
  (`ImplementsDictionary`, all of it, since neither specification has fairness). The invariant `StoreInv` says
  that a block in use has one owner among the client's variables and the places of the array, which has its text
  (`Owned`), that no identifier but that of free places is twice in the array (`Unique`), and that `count` is
  the number of messages alive (`CountInv`). `add()` takes the first place that is free and `get()` the first with an
  identifier: that there is a first follows from `WellFoundedInduction` (`Least`).
  Of the tree of `lab2`, **TreeIsSoundHolds** (`TreeIsSound`), for any number of nodes and names. The invariant `TreeInv`
  says that the table is a forest by its shape (`Shape`: a child exists, is at one place, knows the directory it
  is in, and has not that directory below it), that the counts are those of the pointers, and that each node can
  be reached from the root or a pointer of the client. It is stated for a table with one pointer in limbo
  (`SoundTree`), which is how an assignment and `remove()` leave it between their two halves, and each
  half is a lemma: `AcquireKeeps`, `SwapKeeps`, `UnlinkKeeps`, `NewChildKeeps`, `ReleaseKeeps`. In the last one, a node
  that a release keeps is still reached (`SurvivorsAreReached`): if some were not, each of those would be the child of
  another, so all of them were reached through the released node alone, which then was below itself.
* `JobsProofs`: **TypeCorrect**, **NoLostWakeup** (`NoWakeupLost`, of consumers and of producers), **CloseReleasesGetters**,
  **ImplementsContract** (safety part: a step of the monitor is a step of the contract or a stutter).
  *While a consumer sleeps, as many consumers are woken as there are jobs* (and dually for producers and free
  places) is inductive because every `put` adds one job and one woken consumer, a woken consumer that leaves
  takes one job with it, and one goes to sleep only when there is no job. The lemmas follow that count
  through `notify_one`, a departure and a spurious wake-up, with the library's theorems on cardinalities. The
  refinement theorem then needs only the types: which of the calls is pending is read off `status`.
* `FileSearchProofs`: **NoPutOnClosedQueueHolds**, **MatchesPrintedOnceHolds** and **LinesTakenInOrderHolds**.
  The invariant says what a blocked call of each thread is about, in which order `main` closes and joins and what
  a thread leaves behind (`CloseInv`), and that a file, and then a line, is at one place at a time: in the
  directory, in a queue, with one thread (`FileInv`, `LineInv`). What has been printed is then determined by
  where the lines are (`PrintInv`), and when `main` returns all these places are empty. The order rests on the
  queue being sorted by the positions in each file and ahead of what its producer has yet to read (`OrderInv`).
* `ThreadMapReduceProofs`: **ClosedInOrderHolds**, of both queues (no `put()` of a mapper comes after the close) and
  of the printing (no result is left in the queue or with a reducer when a call ends), and **ImplementsUnorderedSafety**: every run is one of
  `UnorderedMapReduce`, but for its liveness. A line is at exactly one of seven places (`PlaceInv`): the file,
  a blocked `put()` of `main`, `line_jobs`, a mapper, `result_jobs`, a reducer, an accumulator; and a line that
  yields a result is at one of them until the end of the call. So a result is accumulated once, and
  a call that ends, which is when the first six are empty, has accumulated them all.
* `ProcessMapReduceProofs`: **TypeCorrect**, **FlagsStayTrue** (`FlagsAreTrue`) and **PipesHaveReaders**
  (`NoBrokenPipe`), for every input, map function and capacity, and whichever lines end the mapper. A pipe
  somebody may write to has a reader, except `pipe_cm` after the `std::exit()` of the mapper and `pipe_rc` after the
  coordinator was killed by it; that nobody else is killed, and nobody before such an exit, is in the inductive
  invariant too (`KillInv`, a part of `ReaderInv`). The inductive invariant `IInv` has five
  parts: the types of the data; which program counters go together (the reducer is born after the mapper);
  which descriptors each process holds at each program counter; that each pipe has one reader and one writer
  left once the children have closed theirs; and that a flag, once set, stays true because only the
  coordinator itself fills the pipes it writes and empties those it reads. The theorem about flags is what
  makes the program free of deadlock: the coordinator never blocks in a `write` or `read`. There is one lemma
  for each action.
  The two invariants are proved of both versions (`SpecOf`). The synchronous one sets no flag, and a process
  of it holds all descriptors or, after it has ended, none (`AllOrNone`).
  **ImplementsMapReduceSafely** is the safety part of `ImplementsMapReduce`, of both versions: every step maps a
  line, gives up on one, reduces a result into the coordinator's accumulator, returns, or changes nothing of this.
  For the
  multiplexed version it takes two more invariants. `EndInv`: a pipe whose reader is gone is empty, and an end
  that the coordinator has closed is one it has nothing more to send to; so nothing is left when the function
  returns (`NothingLeft`). `ChainInv`: the reducer folds ahead of the coordinator, and the answers on their way
  lead from the coordinator's accumulators to the reducer's: the first answer of a key adds one value to what
  the coordinator has, each further one adds one to the answer before, and the last one is what the reducer
  has. So an answer that overwrites an accumulator adds one value to it. For the synchronous version, `SyncInv`:
  one message is on its way at a time, and the accumulator in it is the coordinator's. Sequences that
  are passed from one pipe to the next are treated by a few laws of concatenation (`JoinLaws`,
  `JoinPasses`), proved from the library's facts on indices.
* `ChatServerProofs`: **TypeCorrect**, **WithinCapacityHolds**, **NicknameKeptHolds** and **LogoutNeverThrowsHolds**.
  A connection waits at most once in each queue (`QueueInv`); it passes from pool to pool in one order, and
  from its login to its logout the entry of its nickname is its own (`SessionInv`); the critical section of
  `m_users` belongs to a thread that is at the loop which holds it (`SectionInv`); threads busy in a pool are
  no more than its size, and users past the wait for a free spot are fewer than `max_clients` (`PoolInv`,
  `SpotInv`), by cardinalities that change by one. The last theorem has the hypothesis `NLogout = 1`, which is
  the constant of `server.cpp:28`: the only thread that closes inboxes is the one that puts, and it is busy
  with another user.
  Further, of what the clients hear (`ChatServerViews`), **PrivateStaysPrivateHolds** and **InOrderHolds**, for
  any clients and whatever they say, slow and leaving ones included. `HearInv` adds to `IInv` that a line is
  written or put only for those it fits, a private message only for a connection whose nickname is its
  destination and whose author's nickname is its source (`HeardInv`); that what the holder of `m_users` still has
  to say fits those it still has to tell, and that its message is the latest of its author (`ToldInv`); and that in what a client hears, after the history
  and up to the end of its inbox, and likewise in the history, the messages of one author rise, up to a limit
  (`SequenceInv`). The limit makes it inductive: for a client that is still to be told it is one less than for
  one that has been, so that a `put()` always adds a larger number, and the history stays one behind until the
  second critical section of `send_public_message()`. A login may read the history at any moment in between:
  what it reads ends before its inbox is served (`HearsWelcome`). Most steps are quiet (`QuietKeeps`): nobody
  begins to say anything and nothing but an error is written.
  Across the end of the history a message can be repeated, namely to a user who was put into the table before
  the message was distributed and read the history after it was archived. `RepeatInv` bounds this: who hears, after
  the history, a message that is not newer than one of the history has been given that one again too. It
  has to be followed from before the login reads the history: while a message is distributed but not archived
  (`Aired`), a user still to read the history whose inbox has anything of the author has that message
  (`AiredInv`); when it is archived this becomes a fact about the history (`RecordInv`), and when the history is
  written one about what the client has heard (`AgainInv`), which no later message undoes since all are
  newer than the history (`OldInv`). It needs that a user outside the table has an empty inbox, which is
  in the next invariant.
  And **ViewsAgreeHolds** (`ViewsAgree`), again with `NLogout = 1`; **ViewsAgreeWhileUp** has any number of logout
  threads and holds until an exception ends the process. What a client believes of a nickname is the last
  thing it was told about it. The invariant `ViewInv` adds four parts to `HearInv`: the holder of
  `m_users` says what its pool says, a logout of a nickname that is no longer in the table (`LockInv`); the
  inbox of a user that `logout()` has begun with is closed (`ClosedInv`); a connection that is not yet in
  the table has an empty inbox and is not about to be told anything (`OutsideInv`); a login or sender that writes an error with `m_users` held is its holder (`AloneInv`, kept apart); and each
  connection whose inbox is filled, from its entry into the table on and before the list of users is written to
  it, knows of every other nickname whether it is online, except for the login or logout that is being
  announced: of the login those that were told, and of the logout those still to be told, know the nickname
  (`KnowsInv`).
* `ChatClientProofs`: **RefreshesAreKept** (`NoLostRefresh`) and **SendingEnds** (`NothingSentAfterEnd`), for every
  console, script and input. Two facts are inductive: the flag is down only while the screen shows what there
  is, because whoever changes something raises it in the same critical section; and `terminate_now` is set
  only by the sender as it leaves.
  Further, **ServerLinesStayInOrder** (`ServerLinesInOrder`) and **WhatIsShownWasSent** (`ShownAsSent`). Both say
  of a console that has evicted messages that what is left are the latest of a growing sequence of lines,
  one for one. The function from entries to lines is shifted by an eviction (`LatestShifts`) and extended by
  a new line (`LatestGrows`). `ShowInv` adds that the mark of the end of the login is among the lines taken
  when the threads start and not before, and that a line that was read and not yet recorded is the last
  one taken. The second holds for any words typed, empty ones included. For it, **SendableIsUnderstood**: what `make_message_from_command()` makes of a
  command, written by `to_network()`, is understood by `make_message_from_network()` as the same message.
* `SocketLinesProofs`: **TimeoutHolds** (`OneByteLate`), for every timeout, buffer and number of writers. After a
  byte that came too late the call is back at its test of the time, which ends it. And **LinesAreWholeHolds**
  (`LinesAreWhole`): unless two writers have met inside a line, each byte on the wire is followed by the
  next of its line or by the first of the line begun next, the reader's partial line is the text up
  to the first byte on the wire, and what a writer has left goes on after the last one (`StreamInv`). Whether
  torn or not, what a writer has left of a line is its end (`CallsInv`). **BytesAreKeptHolds** (`BytesAreKept`) holds
  also of torn lines: on the wire and in what was read, the bytes of one writer are in order and none is
  twice (`RisingInv`), and while the connection is open each byte that was sent is there (`KeptInv`).

**Only model-checked**:

* everything about liveness, since the prover has no rules for fairness: `ContractProgress`, `Terminates`, `Ends`,
  `ChildrenEnd`, `LoginResolves`, `LogoutCompletes`, `ReceiveEnds`, and the fairness in `ImplementsJobs`,
  `ImplementsUnordered` and `ImplementsMapReduce`, whose safety is proved;
* `BytesAreReadBack`: where an object begins is defined by recursion over the bytes before it, and what that
  yields for every stream needs induction over data;
* that the receivers' pool is not overbooked is not even checked, because it may be: receivers of users who have
  logged out stay busy until their inboxes are drained, and a client that does not read keeps one;
  `WithinCapacity` is about the senders' pool;
* `ImplementsPathTree`: the paths below a node are defined by recursion over the tree. That the tree has the shape
  for this recursion to end is `TreeIsSound`, which is proved.

What needs an element of a sequence with some property, and not a recursion over it, is within reach: the
view of a client is stated by the last line that is about a nickname, a place of the array by the least index.

## 5. What is not modelled

* Timers, log messages and `ls()`: output only. The sizes of files are only printed.
* `Message` with `COPY_SWAP`, a branch of the preprocessor that is not compiled; failures of `new`.
* In `ChatServer` and `ChatClient`, a transfer by its outcomes: a line, nothing, an exception. A read of
  the server that is idle, at EOF, broken, or holds no message is one choice; what follows differs and is kept.
  A line of `ChatServer` enters the socket in one step, although the thread may stay in the call: that two
  threads may send to one client at once, and that their lines can then mix if the buffer is full, is in
  `SocketLines` (`torn`) and not there.
* Opening, moving and closing of sockets. JSON, which is boost's.
* `operator=` of `lab5/include/Jobs.h` (no caller), the wording of `to_console()` (that it throws is modelled),
  curses, parsing of `argv`, regular
  expressions in `part1.cpp` (a line has a number of matches).

## 6. Findings

With a run that shows it:

* **`ChatJam`, `server.cpp:290`.** `main` puts a connection into `users_login` with `m_users` held. With the
  queue full it waits for a login thread to take from it, and the login threads wait for `m_users`: nobody
  can log in or out again. It takes `max_clients` connections waiting beside the busy login threads.
* **`ChildrenLeft`, `lab3/main.cpp:59, 81`.** In the synchronous version each child keeps the write end it
  inherited of the pipe it reads, and never sees the end of its input, contrary to the comments *input terminated
  => all done for the mapper* and *for the reducer*: both wait for ever in `Pipe::read` when the function has returned.

Seen while modelling, with no run of their own; the steps are in the models:

* `server.cpp:106`: a login that fails after line 77, because the new client is gone or an inbox of the loop is
  closed, leaves its user in `online_users`, with no thread to serve or remove it and its nickname taken. The
  comment says *next user (robust server)*.
* `lab4/part2.cpp:177`: a line with an address and no number behind a quotation mark keeps its mapper in the
  loop for ever: the test of 178 that would report it is never reached with a failed stream. The run of
  `ThreadMapReduce` is given no such line.
* `server.cpp:154-159`: a public message is distributed and archived in two critical sections. A user who
  is put into the table and reads the history in between is too late for the first and too early for the second,
  and never sees the message. One who is put into the table before the first and reads the history after the
  second sees it twice; `InOrder` says exactly what is repeated then.
* `server.cpp:70, 99, 143`, `Socket.cpp:127-135`: `send()` has no timeout. A client that stays connected and does not
  read keeps the thread that writes to it, and with it `m_users` if that thread refuses its login or denies its
  private message, or if its inbox is full and somebody has something to tell it; or `m_messages` if it is
  being sent the history. Nobody can log in, speak or leave then. `LoginResolves` and `LogoutCompletes` have the
  premise that such a client reads in the end.
* `server.cpp:149-151`: the author of a public message is what the client wrote into it; only that of a
  private one is compared with the user's nickname (140).
* `server.cpp:80`: the predicate counts the waiting users themselves, who are inserted before they wait. The
  limit in effect is `max_clients - 1`, and with `max_clients` users waiting none would get in.
* `server.cpp:133`: one waiter is notified after each logout, although more than one may have become able.
* `server.cpp:64`: a first message that is no login is answered with an error and then treated as one.
* `server.cpp:174`: `receive_line()` is outside the `try`; a connection reset ends the server.
* `User.cpp:19`, `server.cpp:226`: the inbox of a user whose receiver has given up, or that never had one,
  fills up and then blocks whoever puts into it, with `m_users` held, for ever (`Deserted`).
* `client.cpp:83, 122`: exceptions of `send_line()` and `receive_line()` leave the functions of their threads
  and abort the client, although line 125 announces "press a key to terminate".
* `client.cpp:128` and `Message.cpp:71-72`: a line of the server that is no message, and one of the types
  `done_last_messages` and `quit` outside the login, throw in the receiver and in the refresher, and nothing catches
  it: the client aborts.
* `client.cpp:62-72`: 32 old messages evict the list of online users, pushed before them.
* `client.cpp:83`: a message is sent with `m` held, so that a server that does not read stops the display too.
* `lab4/Jobs.h:29`, `lab5/include/Jobs.h:42`: a `put` that slept while the queue was closed is admitted. The
  programs close a queue only when nobody puts; the contract says so explicitly.
* `lab3/main.cpp:333, 360, 386`: a line the map function cannot parse ends the mapper child without a message. If
  more lines follow, the coordinator is killed by SIGPIPE as it writes the next one, without a message either; if
  it was the last one, the function returns the results of the lines before as if they were all. In the
  synchronous version the coordinator holds a write end of `pipe_mc` itself and waits there for ever.
* `lab3/main.cpp:411-415`: `map_attacks` clears the error and tries again at the end of the line too, so a line
  without a number behind a quotation mark keeps the mapper in the loop for ever, and the test at 417 never fails.
* `server.cpp:49, 192` and `224`: the sender thread of a user and its receiver send on one socket with no lock;
  when its buffer is full, bytes of two lines can mix (`torn` in `SocketLines`).
* `Socket.cpp:102`: `select()` that returns -1 is taken for ready data, and `recv()` may then wait without a
  timeout. It takes a signal with a handler, of which the programs have none.
* `Socket.cpp:111`: a line that the end of the connection cuts is dropped without a sign; the callers leave anyway.
* `lab1/MessageStore.cpp:32`: a moved-from message is still valid to `add()`, which replaces a stored text
  with nothing (*hollow* in `Dictionary`); `get()` then copies a null pointer, as does any copy of a default or
  moved-from message, and `operator<<` makes a string of one.
* `lab1/MessageStore.cpp:51-62`: `get(INVALID_ID)` copies a free place, a null pointer, and
  `remove(INVALID_ID)` returns true while one is free; the client of the model asks for identifiers of messages.
* `lab2/Directory.cpp:41`: a directory that was removed and is still held finds its former parent under `..`.
* `lab2/main.cpp:33`: `getDir()` of a name that a file has is a null pointer, which the next turn dereferences.

## 7. Plan

Every program of the repository is modelled. Every safety property that a run checks is proved, except that of
the byte streams, whose definition is recursive, and so is the safety of every refinement but that of the tree,
for the same reason.

What is left to extend: the opening and moving of sockets; lines of `ChatServer` that enter a socket in parts.
