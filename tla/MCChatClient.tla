---------------------------- MODULE MCChatClient ----------------------------
(* ChatClient with a server that greets with as many messages as fit the   *)
(* console and sends one more, refuses the login, or sends what a console  *)
(* cannot show and what is no message.                                     *)
EXTENDS ChatClient

MCScript ==
  {<< "online_users", "public_message", "done_last_messages", "private_message" >>,
   << "error" >>,
   << "online_users", "done_last_messages", "quit", "malformed" >>}
=============================================================================
