-------------------------------- MODULE Pipes -------------------------------
(***************************************************************************)
(* lab3/Pipe.cpp: the class Pipe, on pipes of the kernel.                  *)
(*                                                                         *)
(* A pipe holds whole messages, at most Capacity of them: a message starts *)
(* with its size, Pipe::write() writes it with one call, and Pipe::read()  *)
(* reads the size and then that many bytes.  A read on an empty pipe       *)
(* blocks, and fails with EOF once no process holds the write end.  A      *)
(* write on a full pipe blocks; one on a pipe that nobody reads kills the  *)
(* process with SIGPIPE, which lab 3 leaves at its default.                *)
(*                                                                         *)
(* A message of at most PIPE_BUF bytes, of which any pipe with room takes  *)
(* all at once, is written in one step.  A longer one may enter the pipe   *)
(* in parts, while its writer waits: the module that writes such messages  *)
(* says when the last one is still incomplete.                             *)
(*                                                                         *)
(* The descriptors are per process, and copied by fork().  Only one        *)
(* process, Selector, calls select(); the flags readyRead and readyWrite   *)
(* of the others stay false and are never looked at.                       *)
(***************************************************************************)
EXTENDS Naturals, Sequences

CONSTANTS Process, Pipe, Selector, Capacity

ASSUME PipesAssumption == Selector \in Process /\ Capacity \in Nat \ {0}

VARIABLES
  content,    \* per pipe, the messages in it
  held,       \* the open descriptors << process, pipe, end >>
  ready       \* the flags of Selector that are set, << pipe, end >>

End == {"read", "write"}

PipesInit ==
  /\ content = [x \in Pipe |-> << >>]
  /\ held = {Selector} \X Pipe \X End
  /\ ready = {}

(* What select() sees.                                                     *)
AtEof(x) == content[x] = << >> /\ \A p \in Process : << p, x, "write" >> \notin held

Readable(x) == content[x] # << >> \/ AtEof(x)

HasReader(x) == \E p \in Process : << p, x, "read" >> \in held

Room(x) == Len(content[x]) < Capacity

(* select() reports the error of a pipe without a reader as writable.      *)
Writable(x) == Room(x) \/ ~HasReader(x)

IsClose(x) == \A e \in End : << Selector, x, e >> \notin held

Reset(p, ds) == IF p = Selector THEN ready \ ds ELSE ready

-----------------------------------------------------------------------------
Fork(p) ==
  /\ held' = held \cup {<< p, d[2], d[3] >> : d \in {h \in held : h[1] = Selector}}
  /\ UNCHANGED << content, ready >>

(* closeRead() and closeWrite(); on a descriptor that is closed already,   *)
(* nothing happens.                                                        *)
Close(p, ds) ==
  /\ held' = held \ {<< p, d[1], d[2] >> : d \in ds}
  /\ ready' = Reset(p, ds)
  /\ UNCHANGED content

WriteOnly(p, x, m) ==    \* variant: the flag keeps its value
  /\ << p, x, "write" >> \in held /\ Room(x) /\ HasReader(x)
  /\ content' = [content EXCEPT ![x] = Append(@, m)]
  /\ UNCHANGED << held, ready >>

Write(p, x, m) ==
  /\ << p, x, "write" >> \in held /\ Room(x) /\ HasReader(x)
  /\ content' = [content EXCEPT ![x] = Append(@, m)]
  /\ ready' = Reset(p, {<< x, "write" >>})
  /\ UNCHANGED held

(* write() when nobody reads the pipe: the process ends, and with it all   *)
(* its descriptors.                                                        *)
WriteKills(p, x) ==
  /\ << p, x, "write" >> \in held /\ ~HasReader(x)
  /\ Close(p, Pipe \X End)

(* The message read is Head(content[x]).                                   *)
Read(p, x) ==
  /\ << p, x, "read" >> \in held /\ content[x] # << >>
  /\ content' = [content EXCEPT ![x] = Tail(@)]
  /\ ready' = Reset(p, {<< x, "read" >>})
  /\ UNCHANGED held

(* select() waits until one of the descriptors is ready.  It only sets     *)
(* flags.  FD_ISSET(-1), for a closed end, reads a bit of the set that     *)
(* belongs to no descriptor of the program: it is clear.                   *)
Select ==
  LET now == {<< x, "read" >> : x \in {x \in Pipe :
                << Selector, x, "read" >> \in held /\ Readable(x)}}
               \cup {<< x, "write" >> : x \in {x \in Pipe :
                << Selector, x, "write" >> \in held /\ Writable(x)}}
  IN /\ now # {}
     /\ ready' = ready \cup now
     /\ UNCHANGED << content, held >>
=============================================================================
