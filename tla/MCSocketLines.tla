---------------------------- MODULE MCSocketLines ---------------------------
(* Two threads of the server, the first with two messages, the first of     *)
(* which has a carriage return.                                             *)
EXTENDS SocketLines, TLC

CONSTANTS s1, s2

MCMessages == (s1 :> << << "text", "cr", "text" >>, << >> >>) @@ (s2 :> << << "text", "text" >> >>)
=============================================================================
