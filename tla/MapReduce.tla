----------------------------- MODULE MapReduce ------------------------------
(***************************************************************************)
(* What a map-reduce of lab3/main.cpp computes: the results of the mapper  *)
(* are reduced one by one, in the order of the input, each into the        *)
(* accumulator of its key.  The loop of map_reduce_single_process() maps a *)
(* line when the results of the one before are reduced; other versions may *)
(* map ahead.                                                              *)
(*                                                                         *)
(* A map function may not come back from a line: it calls std::exit(), or  *)
(* it looks for ever for what the line does not have.  No line is mapped   *)
(* after that, and nothing is promised but that what is still reduced are  *)
(* results of the lines before, in their order.                            *)
(*                                                                         *)
(* The reduction is left general: an accumulator is the sequence of the    *)
(* values reduced into it, as the string of reduce_attacks is.  Two        *)
(* executions that agree on these agree under every reduction.             *)
(***************************************************************************)
EXTENDS Naturals, Sequences

CONSTANTS
  Key,        \* the keys that may occur
  Inputs,     \* the inputs, each the sequence of its lines
  Hopeless,   \* the lines from which the map function does not come back
  MapFun      \* MapFun[l]: the results << [key, value], ... >> of another line l

VARIABLES
  lines,      \* the lines that are still to be mapped
  results,    \* the mapper's results that are still to be reduced
  accs,       \* the accumulators; << >> when the key has not occurred
  returned,
  failed      \* the map function has not come back

vars == << lines, results, accs, returned, failed >>

Init ==
  /\ lines \in Inputs
  /\ results = << >>
  /\ accs = [k \in Key |-> << >>]
  /\ returned = FALSE
  /\ failed = FALSE

Maps ==
  /\ lines # << >> /\ Head(lines) \notin Hopeless
  /\ results' = results \o MapFun[Head(lines)]
  /\ lines' = Tail(lines)
  /\ UNCHANGED << accs, returned, failed >>

GivesUp ==
  /\ lines # << >> /\ Head(lines) \in Hopeless
  /\ failed' = TRUE
  /\ lines' = << >>
  /\ UNCHANGED << results, accs, returned >>

Reduces ==
  /\ results # << >>
  /\ accs' = [accs EXCEPT ![Head(results).key] = Append(@, Head(results).value)]
  /\ results' = Tail(results)
  /\ UNCHANGED << lines, returned, failed >>

Returns ==
  /\ lines = << >> /\ results = << >> /\ ~returned
  /\ returned' = TRUE
  /\ UNCHANGED << lines, results, accs, failed >>

Next == Maps \/ GivesUp \/ Reduces \/ Returns

Spec == Init /\ [][Next]_vars /\ WF_vars(~failed /\ Next)
=============================================================================
