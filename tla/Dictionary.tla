----------------------------- MODULE Dictionary -----------------------------
(***************************************************************************)
(* What the MessageStore of lab 1 promises: a dictionary from identifiers  *)
(* to messages, in room for some multiple of N of them that grows when it  *)
(* is full and that compact() makes as small as it can be.  A message is   *)
(* "whole", or "hollow" when what was added had been moved from.           *)
(***************************************************************************)
EXTENDS Naturals, FiniteSets

CONSTANTS Id, N

VARIABLES
  dict,       \* "absent", "whole" or "hollow"
  room,       \* the number of places
  answer      \* of the last get(), remove() or stats()

vars == << dict, room, answer >>

Present == {id \in Id : dict[id] # "absent"}

Init == dict = [id \in Id |-> "absent"] /\ room = N /\ answer = << >>

Add(id, message) ==
  /\ dict' = [dict EXCEPT ![id] = message]
  /\ room' = IF id \notin Present /\ Cardinality(Present) = room THEN room + N ELSE room
  /\ UNCHANGED answer

Get(id) == answer' = << "get", dict[id] >> /\ UNCHANGED << dict, room >>

Remove(id) ==
  /\ dict' = [dict EXCEPT ![id] = "absent"]
  /\ answer' = << "remove", IF id \in Present THEN "true" ELSE "false" >>
  /\ UNCHANGED room

Stats ==
  /\ answer' = << "stats", Cardinality(Present), room - Cardinality(Present) >>
  /\ UNCHANGED << dict, room >>

Compact ==
  /\ room' \in {m * N : m \in 0 .. room}
  /\ room' >= Cardinality(Present) /\ room' < Cardinality(Present) + N
  /\ UNCHANGED << dict, answer >>

Next ==
  \/ \E id \in Id : Get(id) \/ Remove(id) \/ \E m \in {"whole", "hollow"} : Add(id, m)
  \/ Stats \/ Compact

Spec == Init /\ [][Next]_vars
=============================================================================
