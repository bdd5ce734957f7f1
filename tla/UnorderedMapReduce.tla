------------------------- MODULE UnorderedMapReduce -------------------------
(***************************************************************************)
(* What the map-reduces of lab4/part2.cpp promise to their caller: every   *)
(* result of the map function is accumulated once, under its key, before   *)
(* the call prints; the order in which the results of a key are            *)
(* accumulated is left open, and so are the threads.                       *)
(*                                                                         *)
(* As in MapReduce the reduction is left general: an accumulator is the    *)
(* sequence of the lines whose results went into it.  Its length is the    *)
(* count that the first three calls print, and its order that of the       *)
(* addresses that the last one prints.                                     *)
(***************************************************************************)
EXTENDS Naturals, Sequences

CONSTANTS
  Key,
  NoKey,
  Yields      \* Yields[c][i]: the key of the result of line i in call c, or NoKey

VARIABLES
  call,       \* the call in progress, Len(Yields) + 1 after the last
  accs        \* accs[k]: the lines accumulated under k so far in this call

Nothing == [k \in Key |-> << >>]

Accumulated == UNION {{accs[k][n] : n \in DOMAIN accs[k]} : k \in Key}

Left == {i \in DOMAIN Yields[call] : Yields[call][i] # NoKey} \ Accumulated

Init == call = 1 /\ accs = Nothing

Accumulates ==
  /\ call <= Len(Yields)
  /\ \E i \in Left : accs' = [accs EXCEPT ![Yields[call][i]] = Append(@, i)]
  /\ UNCHANGED call

Prints ==
  /\ call <= Len(Yields) /\ Left = {}
  /\ call' = call + 1
  /\ accs' = Nothing

Next == Accumulates \/ Prints

Spec == Init /\ [][Next]_<< call, accs >> /\ WF_<< call, accs >>(Next)
=============================================================================
