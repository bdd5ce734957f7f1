------------------------- MODULE MCProcessMapReduce -------------------------
(* Both versions on an input of five lines: one, which occurs twice,        *)
(* with results for two keys, one with none, as the lines that are no       *)
(* attack have, and two with results for the first key.  Then on inputs     *)
(* with a line on which the mapper fails, with lines after it or none, and  *)
(* with one in which it looks for ever.                                     *)
EXTENDS PipeBytes, TLC

MCInput == << "l1", "l2", "l3", "l4", "l1" >>

MCInputs ==
  {MCInput, << "l1", "fatal", "l3", "l4", "l3", "l1" >>, << "l1", "l3", "fatal" >>,
   << "l3", "endless", "l4", "l1", "l3" >>}

MCSound == {"l1", "l2", "l3", "l4"}

MCLine == MCSound \cup {"fatal", "endless"}

MCMapFun ==
  [l \in MCSound |->
     CASE l = "l1" -> << [key |-> "400", value |-> 1], [key |-> "404", value |-> 2] >>
       [] l = "l2" -> << >>
       [] l = "l3" -> << [key |-> "400", value |-> 3] >>
       [] l = "l4" -> << [key |-> "400", value |-> 4] >>]

\* The second line is empty.
MCText == ("l1" :> << 7, 8, 9 >>) @@ ("l2" :> << >>) @@ ("l3" :> << 7 >>) @@ ("l4" :> << 0, 1 >>)
            @@ ("fatal" :> << >>) @@ ("endless" :> << 6 >>)
            @@ ("400" :> << 4, 0, 0 >>) @@ ("404" :> << 4, 0, 4 >>)

MCProcess == {"coordinator", "mapper", "reducer"}

MCPipe == {"cm", "mc", "cr", "rc"}

MCOneInput == {MCInput}
=============================================================================
