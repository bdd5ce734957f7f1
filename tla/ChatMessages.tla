---------------------------- MODULE ChatMessages ----------------------------
(***************************************************************************)
(* lab5/src/protocol/Message.cpp: messages, the lines they are sent as and *)
(* the commands they are made from.                                        *)
(*                                                                         *)
(* A line of text is the sequence of words that single spaces separate, so *)
(* that two spaces in a row, and a space at either end, are next to an     *)
(* empty word, and the empty line is one empty word.  The regular          *)
(* expressions of Message.cpp tell apart no more than that: [^\s]+ is a    *)
(* word that is not empty and .* any line.                                 *)
(***************************************************************************)
EXTENDS Naturals, Sequences, SequencesExt

Empty == << "" >>

Code == [error |-> "0", login |-> "1", logout |-> "2", online_users |-> "3",
         done_last_messages |-> "4", private_message |-> "5", public_message |-> "6",
         quit |-> "7"]

(* The five constructors, as one.                                          *)
Message(type, source, destination, message) ==
  [type |-> type, source |-> source, destination |-> destination, message |-> message]

Info(type, message) == Message(type, "", "", message)

Invalid == [type |-> "invalid"]

(* A constructor of Message or make_message_from_network() throws on them.  *)
Word(w) == w # ""

-----------------------------------------------------------------------------
(* make_message_from_command()                                             *)
FromCommand(source, input) ==
  CASE input = << "/quit" >> -> Info("quit", Empty)
    [] Len(input) >= 3 /\ input[1] = "/private" /\ Word(input[2]) ->
         Message("private_message", source, input[2], SubSeq(input, 3, Len(input)))
    [] OTHER -> Message("public_message", source, "", input)

Field(w) == IF Word(w) THEN << w >> ELSE << >>

ToNetworkTrimmed(m) ==    \* variant: no space before an empty text
  << Code[m.type] >> \o Field(m.source) \o Field(m.destination)
                     \o IF m.message = Empty THEN << >> ELSE m.message

ToNetwork(m) ==
  << Code[m.type] >> \o Field(m.source) \o Field(m.destination) \o m.message

(* make_message_from_network(); Invalid stands for std::logic_error.       *)
FromNetwork(line) ==
  LET rest == IF Len(line) = 1 THEN Empty ELSE Tail(line)
      Is(type) == line[1] = Code[type]
  IN  CASE Is("error") -> Info("error", rest)
        [] Is("login") /\ Len(rest) = 1 /\ Word(rest[1]) -> Info("login", rest)
        [] Is("logout") /\ Len(rest) = 1 /\ Word(rest[1]) -> Info("logout", rest)
        [] Is("online_users") -> Info("online_users", rest)
        [] Is("done_last_messages") -> Info("done_last_messages", Empty)
        [] Is("quit") -> Info("quit", Empty)
        [] Is("private_message") /\ Len(rest) >= 3 /\ Word(rest[1]) /\ Word(rest[2]) ->
             Message("private_message", rest[1], rest[2], SubSeq(rest, 3, Len(rest)))
        [] Is("public_message") /\ Len(rest) >= 2 /\ Word(rest[1]) ->
             Message("public_message", rest[1], "", Tail(rest))
        [] OTHER -> Invalid
=============================================================================
