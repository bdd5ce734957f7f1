----------------------------- MODULE ChatClient -----------------------------
(***************************************************************************)
(* lab5/src/client/client.cpp: main logs in and starts three threads.  The *)
(* sender edits a command with the keys of the user and sends it; the      *)
(* receiver takes the lines of the server; both record what is to be shown *)
(* and set io_event; the refresher waits for io_event on cv and redraws    *)
(* the console.  One mutex, m, covers all of it, so a critical section is  *)
(* one action; getch() and recv() are called without it.                   *)
(*                                                                         *)
(* The server and the user are the environment.  The server sends a        *)
(* prefix of a script, a sequence of types of messages and of lines that   *)
(* are none, and closes the connection when it likes and after a quit.     *)
(*                                                                         *)
(* The user types a word at a time, with a space before it unless it is    *)
(* the first.  A word may be empty: spaces in a row, at the beginning and  *)
(* at the end of a line are typed as well.                                 *)
(***************************************************************************)
EXTENDS ChatMessages

CONSTANTS
  MaxMessages,    \* max_messages
  Script,         \* the scripts the server may have
  Nickname,       \* nickname; the server refuses the empty one
  Char,           \* the words the user types
  MaxKeys,        \* bound: keys typed before the user is told to press one
  None

ASSUME ClientAssumption ==
  /\ MaxMessages \in Nat \ {0} /\ MaxKeys \in Nat
  /\ Script \subseteq Seq(STRING)
  /\ Word(Nickname)
  /\ Char \cap {"enter", "delete", "reading", "exited"} = {}

VARIABLES
  main,           \* "login", "chat" (joining), "exited", "failed", "aborted"
  lastMessages, command, ioEvent, terminateNow, terminateAfterKey,
  screen,         \* << messages, command >> as last drawn, or None
  refresher,      \* "ready" (to lock m), "waiting" on cv, "exited"
  sender,         \* "reading", "exited", or the key it has read
  receiver,       \* "receiving", "exited", or what it has received
  script, sent,   \* the server's script and how much of it was sent
  taken,          \* how many of these lines the client has received
  link,           \* the server's side: "open", "closed" or "reset"
  outbox,         \* the lines the client has sent
  keys            \* the keys typed so far

display == << lastMessages, command, ioEvent, terminateNow, terminateAfterKey, screen >>
threads == << refresher, sender, receiver >>
server == << script, sent, link >>
vars == << main, display, threads, server, taken, outbox, keys >>

Key == Char \cup {"enter", "delete"}

FromServer(n) == [from |-> "server", what |-> n]

Own(message) == [from |-> "me", what |-> message]

Disconnected == [from |-> "client", what |-> "disconnected by the server"]

(* The message that send_message() makes of the command.                   *)
Composed == FromCommand(Nickname, IF command = << >> THEN Empty ELSE command)

HasQuit == \E n \in DOMAIN outbox : FromNetwork(outbox[n]).type = "quit"

Init ==
  /\ main = "login"
  /\ lastMessages = << >> /\ command = << >> /\ screen = None
  /\ ioEvent = FALSE /\ terminateNow = FALSE /\ terminateAfterKey = FALSE
  /\ refresher = "ready" /\ sender = "reading" /\ receiver = "receiving"
  /\ script \in Script /\ sent = 0 /\ link = "open"
  /\ taken = 0 /\ outbox = << >> /\ keys = 0

PushNewest(message) ==    \* variant: pop_back()
  IF Len(lastMessages) >= MaxMessages
  THEN Append(SubSeq(lastMessages, 1, Len(lastMessages) - 1), message)
  ELSE Append(lastMessages, message)

Push(message) ==
  IF Len(lastMessages) >= MaxMessages
  THEN Append(Tail(lastMessages), message)
  ELSE Append(lastMessages, message)

-----------------------------------------------------------------------------
(* The server.                                                             *)
ServerSends ==
  /\ link = "open" /\ sent < Len(script)
  /\ sent' = sent + 1
  /\ UNCHANGED << main, display, threads, script, link, taken, outbox, keys >>

(* It logs the client out: a close() with unread input resets the          *)
(* connection.                                                             *)
ServerCloses ==
  /\ link = "open"
  /\ link' \in IF outbox = << >> \/ HasQuit THEN {"closed"} ELSE {"closed", "reset"}
  /\ UNCHANGED << main, display, threads, script, sent, taken, outbox, keys >>

(* receive_line(): a line, nothing at the end of the stream, or an         *)
(* exception.                                                              *)
Line == taken < sent

EndOfStream == taken = sent /\ link = "closed"

Broken == taken = sent /\ link = "reset"

-----------------------------------------------------------------------------
(* login(), before the threads start: the online users, the last messages  *)
(* and the mark of their end.                                              *)
Greeting == IF taken = 0 THEN "online_users" ELSE "public_message"

LoginEnd == taken > 0 /\ script[taken + 1] = "done_last_messages"

LoginPushes ==
  /\ main = "login" /\ Line
  /\ script[taken + 1] = Greeting
  /\ taken' = taken + 1
  /\ lastMessages' = Push(FromServer(taken + 1))
  /\ UNCHANGED << main, command, ioEvent, terminateNow, terminateAfterKey, screen,
                  threads, server, outbox, keys >>

LoginDone ==
  /\ main = "login" /\ Line /\ LoginEnd
  /\ taken' = taken + 1
  /\ ioEvent' = TRUE
  /\ main' = "chat"
  /\ UNCHANGED << lastMessages, command, terminateNow, terminateAfterKey, screen,
                  threads, server, outbox, keys >>

LoginThrows ==
  \/ EndOfStream \/ Broken
  \/ Line /\ script[taken + 1] # Greeting /\ ~LoginEnd

(* main catches the exceptions of login() and exits.                       *)
LoginFails ==
  /\ main = "login" /\ LoginThrows
  /\ main' = "failed"
  /\ UNCHANGED << display, threads, server, taken, outbox, keys >>

-----------------------------------------------------------------------------
(* cv.notify_one(): the refresher is the only thread that waits on cv.     *)
Notify == refresher' = IF refresher = "waiting" THEN "ready" ELSE refresher

(* to_console() throws on the two types that a console never has to show. *)
Shows(entry) ==
  entry.from = "server" => script[entry.what] \notin {"done_last_messages", "quit"}

Drawable == \A n \in DOMAIN lastMessages : Shows(lastMessages[n])

Draws ==
  /\ main = "chat" /\ refresher = "ready" /\ ioEvent /\ ~terminateNow /\ Drawable
  /\ ioEvent' = FALSE
  /\ screen' = << lastMessages, command >>
  /\ UNCHANGED << main, lastMessages, command, terminateNow, terminateAfterKey,
                  threads, server, taken, outbox, keys >>

DrawThrows ==
  /\ main = "chat" /\ refresher = "ready" /\ ioEvent /\ ~terminateNow /\ ~Drawable
  /\ main' = "aborted"
  /\ UNCHANGED << display, threads, server, taken, outbox, keys >>

Waits ==
  /\ main = "chat" /\ refresher = "ready" /\ ~ioEvent
  /\ refresher' = "waiting"
  /\ UNCHANGED << main, display, sender, receiver, server, taken, outbox, keys >>

RefresherDrawsOn ==    \* variant: terminate_now is not tested
  /\ main = "chat" /\ refresher = "ready" /\ ioEvent /\ terminateNow
  /\ ioEvent' = FALSE
  /\ screen' = << lastMessages, command >>
  /\ UNCHANGED << main, lastMessages, command, terminateNow, terminateAfterKey,
                  threads, server, taken, outbox, keys >>

RefresherExits ==
  /\ main = "chat" /\ refresher = "ready" /\ ioEvent /\ terminateNow
  /\ refresher' = "exited"
  /\ UNCHANGED << main, display, sender, receiver, server, taken, outbox, keys >>

SpuriousWakeup ==
  /\ main = "chat" /\ refresher = "waiting"
  /\ refresher' = "ready"
  /\ UNCHANGED << main, display, sender, receiver, server, taken, outbox, keys >>

RefresherRuns == Draws \/ DrawThrows \/ Waits \/ RefresherExits

-----------------------------------------------------------------------------
(* The sender: a key is read, and m is locked to act on it.                *)
ReadsKey ==
  /\ main = "chat" /\ sender = "reading"
  /\ keys < MaxKeys \/ terminateAfterKey
  /\ sender' \in Key
  /\ keys' = IF keys < MaxKeys THEN keys + 1 ELSE keys
  /\ UNCHANGED << main, display, refresher, receiver, server, taken, outbox >>

LastKey ==
  /\ main = "chat" /\ sender \in Key /\ terminateAfterKey
  /\ terminateNow' = TRUE /\ ioEvent' = TRUE
  /\ sender' = "exited"
  /\ Notify
  /\ UNCHANGED << main, lastMessages, command, terminateAfterKey, screen,
                  receiver, server, taken, outbox, keys >>

EditsUnnotified(text) ==    \* variant: io_event without notify_one()
  /\ command' = text
  /\ ioEvent' = TRUE
  /\ sender' = "reading"
  /\ UNCHANGED refresher

Edits(text) ==
  /\ command' = text
  /\ ioEvent' = TRUE
  /\ sender' = "reading"
  /\ Notify

EditsCommand ==
  /\ main = "chat" /\ ~terminateAfterKey
  /\ \/ sender \in Char /\ Edits(Append(command, sender))
     \/ sender = "delete" /\ Edits(IF command = << >> THEN << >> ELSE Front(command))
  /\ UNCHANGED << main, lastMessages, terminateNow, terminateAfterKey, screen,
                  receiver, server, taken, outbox, keys >>

MayStillSend == sender = "enter"    \* variant: terminate_after_key is not tested

MaySend == sender = "enter" /\ ~terminateAfterKey

(* send_message(); after the server has closed, one send may still succeed. *)
SendsQuit ==
  /\ main = "chat" /\ MaySend /\ Composed.type = "quit"
  /\ outbox' = Append(outbox, ToNetwork(Composed))
  /\ terminateNow' = TRUE /\ ioEvent' = TRUE /\ command' = << >>
  /\ sender' = "exited"
  /\ Notify
  /\ UNCHANGED << main, lastMessages, terminateAfterKey, screen, receiver, server, taken, keys >>

SendsMessage ==
  /\ main = "chat" /\ MaySend /\ Composed.type # "quit"
  /\ outbox' = Append(outbox, ToNetwork(Composed))
  /\ lastMessages' = Push(Own(Composed))
  /\ Edits(<< >>)
  /\ UNCHANGED << main, terminateNow, terminateAfterKey, screen, receiver, server, taken, keys >>

(* An exception that leaves the function of a thread ends the process.     *)
SendThrows ==
  /\ main = "chat" /\ MaySend /\ link # "open"
  /\ main' = "aborted"
  /\ UNCHANGED << display, threads, server, taken, outbox, keys >>

SenderRuns == LastKey \/ EditsCommand \/ SendsQuit \/ SendsMessage \/ SendThrows

-----------------------------------------------------------------------------
(* The receiver: a line is received, and m is locked to record it.         *)
Receives ==
  /\ main = "chat" /\ receiver = "receiving"
  /\ \/ Line /\ receiver' = "line" /\ taken' = taken + 1
     \/ EndOfStream /\ receiver' = "nothing" /\ UNCHANGED taken
  /\ UNCHANGED << main, display, refresher, sender, server, outbox, keys >>

ReceiveThrows ==
  /\ main = "chat" /\ receiver = "receiving" /\ Broken
  /\ main' = "aborted"
  /\ UNCHANGED << display, threads, server, taken, outbox, keys >>

Understood == script[taken] \in DOMAIN Code

Records ==
  /\ main = "chat" /\ receiver = "line" /\ Understood
  /\ lastMessages' = Push(FromServer(taken))
  /\ ioEvent' = TRUE
  /\ receiver' = "receiving"
  /\ Notify
  /\ UNCHANGED << main, command, terminateNow, terminateAfterKey, screen,
                  sender, server, taken, outbox, keys >>

(* make_message_from_network() throws on a line that is no message.        *)
RecordThrows ==
  /\ main = "chat" /\ receiver = "line" /\ ~Understood
  /\ main' = "aborted"
  /\ UNCHANGED << display, threads, server, taken, outbox, keys >>

RecordsEnd ==
  /\ main = "chat" /\ receiver = "nothing"
  /\ lastMessages' = Push(Disconnected)
  /\ terminateAfterKey' = TRUE /\ ioEvent' = TRUE
  /\ receiver' = "exited"
  /\ Notify
  /\ UNCHANGED << main, command, terminateNow, screen, sender, server, taken, outbox, keys >>

ReceiverRuns == Receives \/ ReceiveThrows \/ Records \/ RecordThrows \/ RecordsEnd

-----------------------------------------------------------------------------
MainJoins ==
  /\ main = "chat" /\ sender = "exited" /\ receiver = "exited" /\ refresher = "exited"
  /\ main' = "exited"
  /\ UNCHANGED << display, threads, server, taken, outbox, keys >>

MainRuns == LoginPushes \/ LoginDone \/ LoginFails \/ MainJoins

Next ==
  \/ ServerSends \/ ServerCloses
  \/ MainRuns
  \/ RefresherRuns \/ SpuriousWakeup
  \/ ReadsKey \/ SenderRuns
  \/ ReceiverRuns

(* The threads run.  The user presses a key when asked to, and the server  *)
(* closes the connection of a client that quits.                           *)
Spec ==
  /\ Init /\ [][Next]_vars
  /\ WF_vars(MainRuns) /\ WF_vars(RefresherRuns)
  /\ WF_vars(SenderRuns) /\ WF_vars(ReceiverRuns)
  /\ WF_vars(terminateAfterKey /\ ReadsKey)
  /\ WF_vars(HasQuit /\ ServerCloses)

-----------------------------------------------------------------------------
(* No change is lost on its way to the screen: while the refresher sleeps, *)
(* the screen shows the messages and the command as they are, although two *)
(* threads set one flag and notify without knowing whether anybody waits   *)
(* (lines 36-38, 77-78, 111-112, 132-133).                                 *)
NoLostRefresh ==
  main = "chat" /\ refresher = "waiting" => ~ioEvent /\ screen = << lastMessages, command >>

(* f[i] is the number of the line that the entry i of the console shows:   *)
(* the last ones of got, each once and in order.                           *)
AreLatest(f, got) ==
  /\ \A i \in DOMAIN f : f[i] \in got
  /\ \A i, j \in DOMAIN f : i < j => f[i] < f[j]
  /\ \A i \in DOMAIN f : \A n \in got : n > f[i] => \E j \in DOMAIN f : f[j] = n

Shown(from) == {i \in DOMAIN lastMessages : lastMessages[i].from = from}

EndsLogin(n) ==
  script[n] = "done_last_messages" /\ \A k \in 1 .. n - 1 : script[k] # "done_last_messages"

Recorded == IF receiver = "line" THEN taken - 1 ELSE taken

(* The lines of the server on the console are the last ones received, in   *)
(* the order in which the server sent them, whatever the user's own        *)
(* messages between them and however many were evicted (push, lines 62-72  *)
(* and 131).                                                               *)
ServerLinesInOrder ==
  AreLatest([i \in Shown("server") |-> lastMessages[i].what],
            {n \in 1 .. Recorded : ~EndsLogin(n)})

Said == {n \in DOMAIN outbox : FromNetwork(outbox[n]).type # "quit"}

(* The user's own messages on the console are the last ones that whoever   *)
(* reads the lines sent understands: to_network() and                      *)
(* make_message_from_network() are inverse on what can be typed: an empty  *)
(* line, a /private without a text or a nickname, and spaces at either end *)
(* or in a row included.                                                   *)
ShownAsSent ==
  \E f \in [Shown("me") -> Said] :
    /\ AreLatest(f, Said)
    /\ \A i \in Shown("me") : lastMessages[i].what = FromNetwork(outbox[f[i]])

(* Nothing is sent after the user has quit, nor once the receiver has      *)
(* recorded the end of the connection, even if the key was read before     *)
(* (lines 91-96).                                                          *)
NothingSentAfterEnd == [][terminateAfterKey \/ terminateNow => outbox' = outbox]_vars

(* Once the user has quit, or the server has closed the connection, the    *)
(* program ends: no thread is left behind in recv(), getch() or wait()     *)
(* (lines 37, 113, 126, 182-184).                                          *)
Ends == terminateNow \/ link # "open" ~> main \in {"exited", "failed", "aborted"}
=============================================================================
