----------------------------- MODULE ChatServer -----------------------------
(***************************************************************************)
(* lab5/src/server/server.cpp with the users' inboxes (User.cpp) and the   *)
(* history (Messages.cpp): main accepts connections, and four pools of     *)
(* threads log users in, send what they say, deliver what others say to    *)
(* them and log them out.                                                  *)
(*                                                                         *)
(* The threads of a pool are interchangeable, so the state is kept per     *)
(* connection: at[c].login, .send, .receive and .logout say where the      *)
(* thread of each pool that serves c is, and a pool has a free thread when *)
(* fewer connections than its size occupy it.  The four users_* queues and *)
(* the inboxes behave as JobsContract says; the former are never closed.   *)
(*                                                                         *)
(* m_users protects online_users and is held across put() on inboxes, by   *)
(* login(), logout() and the two send_*_message(), and across put() on     *)
(* users_login by main().  "section" is that critical section: who holds   *)
(* the mutex, the message being put, the users still to be given it, and   *)
(* the one on whose full inbox the holder is blocked, if any.              *)
(*                                                                         *)
(* send() has no timeout.  A write is two steps: the line is handed to the *)
(* socket, and the thread goes on once the socket has taken all of it,     *)
(* which it does not as long as a client that stays does not read.         *)
(***************************************************************************)
EXTENDS ChatMessages, FiniteSets

CONSTANTS
  Conn,         \* connections clients make, each once
  Nick,
  NickOf,       \* the nickname the client of each connection asks for
  NotLogin,     \* connections whose first message is not a login
  Spaced,       \* nicknames with a whitespace
  Says,         \* the lines the client of each connection may send when logged in
  MaxLines,     \* bound: how many chat messages each sends
  Leaver,       \* connections whose client may close or lose them at any time
  Resetter,     \* those of Leaver that may end with an error instead of EOF
  Slow,         \* connections whose client may leave lines unread
  NLogin,       \* n_login_threads
  NLogout,      \* n_logout_threads
  MaxClients,   \* max_clients: size of the queues and of the two other pools
  MaxInbox,     \* default_max_size of lab5/include/Jobs.h
  MaxMessages,  \* max_messages
  None

ASSUME ConnAssumption == IsFiniteSet(Conn) /\ None \notin Conn
ASSUME NickAssumption == NickOf \in [Conn -> Nick] /\ Spaced \subseteq Nick
ASSUME ClientAssumption ==
  /\ NotLogin \subseteq Conn /\ Resetter \subseteq Leaver
  /\ MaxLines \in [Conn -> Nat]
ASSUME SizeAssumption ==
  /\ {NLogin, NLogout, MaxClients, MaxInbox, MaxMessages} \subseteq Nat
  /\ MaxClients > 0 /\ MaxMessages > 0

VARIABLES
  accepted,       \* the connection main has accepted and not yet queued
  users,          \* users_login, users_send, users_receive and users_logout
  at,             \* where the thread of each pool that serves c is
  section,        \* the critical section on m_users
  online,         \* online_users
  inbox,          \* the jobs in each user's inbox, and whether it is closed
  lastMessages,   \* last_messages
  local,          \* locals of the threads that serve c, over several steps
  out,            \* the lines handed to the socket of c
  gone,           \* the client of c has closed or lost the connection
  stalled,        \* the socket of c is full and its client does not read
  up              \* the process has not terminated

vars == << accepted, users, at, section, online, inbox, lastMessages, local,
           out, gone, stalled, up >>

-----------------------------------------------------------------------------
Pool == {"login", "send", "receive", "logout"}

Notice(type, nick) == [type |-> type, nick |-> nick]

(* What the client of c may say: private and public messages.               *)
Chats(c) ==
  {m \in {FromNetwork(line) : line \in Says[c]} :
     m.type \in {"private_message", "public_message"}}

(* A message as it is passed on: unchanged, with its author and its number. *)
Chat(type, c) ==
  [type |-> type, said |-> local[c].command, by |-> c, n |-> local[c].lines]

Error == << [type |-> "error"] >>

UsersOnline(table) == {table[n] : n \in Nick} \ {None}

(* What is put in the inboxes, and the states of a critical section.        *)
Msg ==
  [type : {"login", "logout"}, nick : Nick]
    \cup [type : {"private_message", "public_message"},
          said : {None} \cup UNION {Chats(c) : c \in Conn}, by : Conn, n : Nat]

CriticalSection ==
  [role : Pool \cup {"main", "refusal", "denial"}, who : Conn, msg : Msg \cup {None},
   left : SUBSET Conn, stuck : Conn \cup {None}]

ASSUME NoneAssumption == None \notin CriticalSection

Unlocked == section = None

HeldBy(role) == section # None /\ section.role = role

Section(role, c, msg, left) ==
  [role |-> role, who |-> c, msg |-> msg, left |-> left, stuck |-> None]

Goes(c, pool, stage) == at' = [at EXCEPT ![c][pool] = stage]

(* The start of send_line(): any write may be the one that fills the socket *)
(* of a client that does not read.  What a client that is gone is sent does *)
(* not matter.                                                             *)
Writes(c, s) ==
  /\ out' = [out EXCEPT ![c] = IF gone[c] THEN @ ELSE @ \o s]
  /\ \/ UNCHANGED stalled
     \/ c \in Slow /\ ~gone[c] /\ stalled' = [stalled EXCEPT ![c] = TRUE]

(* Its end: it fails only if the client is gone, and then may seem to work.  *)
Written(c, pool, stage, failed) ==
  \/ ~stalled[c] /\ Goes(c, pool, stage)
  \/ gone[c] /\ Goes(c, pool, failed)

Threads(pool) ==
  CASE pool = "login" -> NLogin [] pool = "logout" -> NLogout [] OTHER -> MaxClients

Busy(pool) == Cardinality({c \in Conn : at[c][pool] \notin {"none", "queued", "over"}})

(* A free thread of a pool takes c from the queue of the pool.  (Variant: a *)
(* pool with one thread more.)                                             *)
TakesWithOneMore(c, pool, stage) ==
  /\ users[pool] # << >> /\ Head(users[pool]) = c /\ Busy(pool) <= Threads(pool)
  /\ users' = [users EXCEPT ![pool] = Tail(@)]
  /\ Goes(c, pool, stage)

Takes(c, pool, stage) ==
  /\ users[pool] # << >> /\ Head(users[pool]) = c /\ Busy(pool) < Threads(pool)
  /\ users' = [users EXCEPT ![pool] = Tail(@)]
  /\ Goes(c, pool, stage)

(* The thread that serves c puts c in the queue of another pool.            *)
Hands(c, from, stage, pool) ==
  /\ Len(users[pool]) < MaxClients
  /\ users' = [users EXCEPT ![pool] = Append(@, c)]
  /\ at' = [at EXCEPT ![c][from] = stage, ![c][pool] = "queued"]

(* Messages::push                                                           *)
Push(messages, m) ==
  Append(IF Len(messages) >= MaxMessages THEN Tail(messages) ELSE messages, m)

Init ==
  /\ accepted = None
  /\ users = [p \in Pool |-> << >>]
  /\ at = [c \in Conn |-> [p \in Pool |-> "none"]]
  /\ section = None
  /\ online = [n \in Nick |-> None]
  /\ inbox = [c \in Conn |-> [jobs |-> << >>, closed |-> FALSE]]
  /\ lastMessages = << >>
  /\ local = [c \in Conn |-> [listed |-> {}, command |-> None, lines |-> 0]]
  /\ out = [c \in Conn |-> << >>]
  /\ gone = [c \in Conn |-> FALSE]
  /\ stalled = [c \in Conn |-> FALSE]
  /\ up = TRUE

-----------------------------------------------------------------------------
(* main(): accept(), then users_login.put() with m_users held.              *)
Accepts(c) ==
  /\ accepted = None /\ at[c].login = "none"
  /\ accepted' = c
  /\ Goes(c, "login", "queued")
  /\ UNCHANGED << users, section, online, inbox, lastMessages, local, out, gone, stalled, up >>

QueuesAccepted ==
  /\ accepted # None
  /\ \/ /\ Unlocked \/ HeldBy("main")
        /\ Len(users["login"]) < MaxClients
        /\ users' = [users EXCEPT !["login"] = Append(@, accepted)]
        /\ accepted' = None /\ section' = None
     \/ /\ Unlocked /\ Len(users["login"]) = MaxClients
        /\ section' = Section("main", accepted, None, {})
        /\ UNCHANGED << accepted, users >>
  /\ UNCHANGED << at, online, inbox, lastMessages, local, out, gone, stalled, up >>

-----------------------------------------------------------------------------
(* login(), up to the nickname.                                             *)
TakesConnection(c) ==
  /\ Takes(c, "login", "hello")
  /\ UNCHANGED << accepted, section, online, inbox, lastMessages, local, out, gone, stalled, up >>

(* The first message.  If it is not a login, an error is sent and it is     *)
(* treated as one all the same.  No line within max_idle_time, EOF, an      *)
(* error or a login with an impossible nickname: on to the next connection. *)
ReceivesNickname(c) ==
  /\ at[c].login = "hello"
  /\ \/ c \notin NotLogin /\ Goes(c, "login", "checking") /\ UNCHANGED << out, stalled >>
     \/ c \in NotLogin /\ Goes(c, "login", "correcting") /\ Writes(c, Error)
     \/ Goes(c, "login", "over") /\ UNCHANGED << out, stalled >>
  /\ UNCHANGED << accepted, users, section, online, inbox, lastMessages, local, gone, up >>

Corrects(c) ==
  /\ at[c].login = "correcting" /\ Written(c, "login", "checking", "over")
  /\ UNCHANGED << accepted, users, section, online, inbox, lastMessages, local,
                  out, gone, stalled, up >>

(* cv_users.wait, whose predicate counts the new user too, and the start of *)
(* the announcement in the same critical section.                           *)
WaitsForSpot(c, table) ==    \* variant: admits up to max_clients, the new user included
  IF Cardinality(UsersOnline(table)) <= MaxClients
  THEN /\ Goes(c, "login", "announcing")
       /\ section' = Section("login", c, Notice("login", NickOf[c]), UsersOnline(table) \ {c})
  ELSE /\ Goes(c, "login", "asleep")
       /\ UNCHANGED section

Waits(c, table) ==
  IF Cardinality(UsersOnline(table)) < MaxClients
  THEN /\ Goes(c, "login", "announcing")
       /\ section' = Section("login", c, Notice("login", NickOf[c]), UsersOnline(table) \ {c})
  ELSE /\ Goes(c, "login", "asleep")
       /\ UNCHANGED section

Impossible(c) == NickOf[c] \in Spaced    \* variant: may be in use

Refused(c) == online[NickOf[c]] # None \/ NickOf[c] \in Spaced

(* A refusal is written with m_users held.                                  *)
ChecksNickname(c) ==
  /\ at[c].login = "checking" /\ Unlocked
  /\ \/ /\ Refused(c)
        /\ Writes(c, Error)
        /\ Goes(c, "login", "refusing")
        /\ section' = Section("refusal", c, None, {})
        /\ UNCHANGED online
     \/ /\ ~Refused(c)
        /\ online' = [online EXCEPT ![NickOf[c]] = c]
        /\ Waits(c, online')
        /\ UNCHANGED << out, stalled >>
  /\ UNCHANGED << accepted, users, inbox, lastMessages, local, gone, up >>

Refuses(c) ==
  /\ at[c].login = "refusing" /\ Written(c, "login", "over", "over")
  /\ section' = None
  /\ UNCHANGED << accepted, users, online, inbox, lastMessages, local, out, gone, stalled, up >>

WakesUp(c) ==
  /\ at[c].login = "woken" /\ Unlocked
  /\ Waits(c, online)
  /\ UNCHANGED << accepted, users, online, inbox, lastMessages, local, out, gone, stalled, up >>

SpuriousWakeup(c) ==
  /\ at[c].login = "asleep"
  /\ Goes(c, "login", "woken")
  /\ UNCHANGED << accepted, users, section, online, inbox, lastMessages, local, out, gone, stalled, up >>

(* login() after the announcement, on a socket no other thread writes to    *)
(* yet: the list of users; the history, with m_messages held; and its end.  *)
(* If a write fails the user stays in online_users.                        *)
HistoryFree == \A d \in Conn : at[d].login # "history"

Welcomes(c) ==
  /\ \/ /\ at[c].login = "welcoming"
        /\ Writes(c, << [type |-> "online_users", nicks |-> local[c].listed] >>)
        /\ Goes(c, "login", "listing")
     \/ /\ at[c].login = "listing" /\ ~stalled[c] /\ HistoryFree
        /\ Writes(c, lastMessages)
        /\ Goes(c, "login", "history")
     \/ /\ at[c].login = "history" /\ ~stalled[c]
        /\ Writes(c, << [type |-> "done_last_messages"] >>)
        /\ Goes(c, "login", "ending")
     \/ /\ at[c].login \in {"listing", "history"} /\ gone[c]
        /\ Goes(c, "login", "over")
        /\ UNCHANGED << out, stalled >>
  /\ UNCHANGED << accepted, users, section, online, inbox, lastMessages, local, gone, up >>

Welcomed(c) ==
  /\ at[c].login = "ending" /\ Written(c, "login", "to_send", "over")
  /\ UNCHANGED << accepted, users, section, online, inbox, lastMessages, local,
                  out, gone, stalled, up >>

StartsServices(c) ==
  /\ \/ at[c].login = "to_send" /\ Hands(c, "login", "to_receive", "send")
     \/ at[c].login = "to_receive" /\ Hands(c, "login", "over", "receive")
  /\ UNCHANGED << accepted, section, online, inbox, lastMessages, local, out, gone, stalled, up >>

LoginRuns(c) ==
  \/ TakesConnection(c) \/ ReceivesNickname(c) \/ Corrects(c) \/ ChecksNickname(c)
  \/ Refuses(c) \/ WakesUp(c) \/ Welcomes(c) \/ Welcomed(c) \/ StartsServices(c)

-----------------------------------------------------------------------------
(* The loop over online_users with m_users held: one put() per user, in the *)
(* unspecified order of the map.  put() may block on a full inbox, with the *)
(* mutex held; once it has begun it no longer notices a close().            *)
Broadcasting == \E role \in {"login", "send", "logout"} : HeldBy(role)

PutsFirst(u) ==    \* variant: the inbox is a stack
  /\ Len(inbox[u].jobs) < MaxInbox
  /\ inbox' = [inbox EXCEPT ![u].jobs = << section.msg >> \o @]
  /\ section' = [section EXCEPT !.left = @ \ {u}, !.stuck = None]

PutsOrDrops(u) ==    \* variant: a full inbox is skipped
  /\ inbox' = [inbox EXCEPT ![u].jobs =
                 IF Len(@) < MaxInbox THEN Append(@, section.msg) ELSE @]
  /\ section' = [section EXCEPT !.left = @ \ {u}, !.stuck = None]

Puts(u) ==
  /\ Len(inbox[u].jobs) < MaxInbox
  /\ inbox' = [inbox EXCEPT ![u].jobs = Append(@, section.msg)]
  /\ section' = [section EXCEPT !.left = @ \ {u}, !.stuck = None]

Blocks(u) ==
  /\ Len(inbox[u].jobs) = MaxInbox
  /\ section' = [section EXCEPT !.stuck = u]
  /\ UNCHANGED inbox

Tells ==
  /\ Broadcasting
  /\ \/ /\ section.stuck = None
        /\ \E u \in section.left : ~inbox[u].closed /\ (Puts(u) \/ Blocks(u))
     \/ section.stuck # None /\ Puts(section.stuck)
  /\ UNCHANGED << accepted, users, at, online, lastMessages, local, out, gone, stalled, up >>

(* put() on a closed inbox throws: login() gives the new user up but leaves *)
(* it in online_users, a sender logs its own user out, and nothing catches  *)
(* it in logout().                                                          *)
TellThrows ==
  /\ Broadcasting /\ section.stuck = None
  /\ \E u \in section.left : inbox[u].closed
  /\ section' = None
  /\ Goes(section.who, section.role, IF section.role = "login" THEN "over" ELSE "leaving")
  /\ up' = (section.role # "logout")
  /\ UNCHANGED << accepted, users, online, inbox, lastMessages, local, out, gone, stalled >>

(* The end of the loop and of the critical section.  logout() notifies one  *)
(* of the login threads that wait.                                          *)
LoginTold(c) ==
  /\ Goes(c, "login", "welcoming")
  /\ local' = [local EXCEPT ![c].listed = {n \in Nick : online[n] \notin {None, c}}]

SendTold(c) ==
  /\ Goes(c, "send", IF section.msg.type = "public_message" THEN "archiving" ELSE "reading")
  /\ UNCHANGED local

LogoutTold(c) ==
  /\ LET asleep == {w \in Conn : at[w].login = "asleep"} IN
       \/ asleep = {} /\ Goes(c, "logout", "over")
       \/ \E w \in asleep :
            at' = [at EXCEPT ![w].login = "woken", ![c].logout = "over"]
  /\ UNCHANGED local

TellsNoMoreButHolds ==    \* variant: logout() waits for its next user with m_users held
  /\ Broadcasting /\ section.left = {}
  /\ section' = IF HeldBy("logout") THEN [section EXCEPT !.role = "waiting"] ELSE None
  /\ \/ HeldBy("login") /\ LoginTold(section.who)
     \/ HeldBy("send") /\ SendTold(section.who)
     \/ HeldBy("logout") /\ LogoutTold(section.who)
  /\ UNCHANGED << accepted, users, online, inbox, lastMessages, out, gone, stalled, up >>

TellsNoMore ==
  /\ Broadcasting /\ section.left = {}
  /\ section' = None
  /\ \/ HeldBy("login") /\ LoginTold(section.who)
     \/ HeldBy("send") /\ SendTold(section.who)
     \/ HeldBy("logout") /\ LogoutTold(section.who)
  /\ UNCHANGED << accepted, users, online, inbox, lastMessages, out, gone, stalled, up >>

SectionRuns == Tells \/ TellThrows \/ TellsNoMore

-----------------------------------------------------------------------------
(* send_messages()                                                          *)
TakesToSend(c) ==
  /\ Takes(c, "send", "reading")
  /\ UNCHANGED << accepted, section, online, inbox, lastMessages, local, out, gone, stalled, up >>

ReadsChat(c) ==
  /\ at[c].send = "reading" /\ local[c].lines < MaxLines[c]
  /\ \E message \in Chats(c) :
       local' = [local EXCEPT ![c].command = message, ![c].lines = @ + 1]
  /\ Goes(c, "send", "executing")
  /\ UNCHANGED << accepted, users, section, online, inbox, lastMessages, out, gone, stalled, up >>

(* Idle for max_idle_time, EOF, quit, or a line no message can be made of;  *)
(* or a message of another type, answered with an error.                    *)
StopsReading(c) ==
  /\ at[c].send = "reading"
  /\ \/ Goes(c, "send", "leaving") /\ UNCHANGED << out, stalled >>
     \/ Goes(c, "send", "answering") /\ Writes(c, Error)
  /\ UNCHANGED << accepted, users, section, online, inbox, lastMessages, local, gone, up >>

(* receive_line() throws outside the try: the exception leaves the thread.  *)
ReadThrows(c) ==
  /\ at[c].send = "reading" /\ gone[c] /\ c \in Resetter
  /\ up' = FALSE
  /\ UNCHANGED << accepted, users, at, section, online, inbox, lastMessages, local, out, gone, stalled >>

IsOnline(nick) == nick \in Nick /\ online[nick] # None

DeniedIfAbsent(c, message) == ~IsOnline(message.destination)   \* variant: any source, oneself too

Denied(c, message) ==
  \/ message.destination = message.source
  \/ message.source # NickOf[c]
  \/ ~IsOnline(message.destination)

(* send_private_message(): errors go to the sender, with m_users held; a    *)
(* write that fails ends the service.  The map is searched by nickname.     *)
SendsPrivate(c) ==
  /\ at[c].send = "executing" /\ Unlocked /\ local[c].command.type = "private_message"
  /\ LET message == local[c].command IN
       \/ /\ Denied(c, message)
          /\ Writes(c, Error)
          /\ section' = Section("denial", c, None, {})
          /\ Goes(c, "send", "denying")
       \/ /\ ~Denied(c, message)
          /\ section' = Section("send", c, Chat("private_message", c),
                                {online[message.destination]})
          /\ Goes(c, "send", "telling")
          /\ UNCHANGED << out, stalled >>
  /\ local' = [local EXCEPT ![c].command = None]
  /\ UNCHANGED << accepted, users, online, inbox, lastMessages, gone, up >>

Answered(c) ==
  /\ \/ /\ at[c].send = "denying" /\ Written(c, "send", "reading", "leaving")
        /\ section' = None
     \/ /\ at[c].send = "answering" /\ Written(c, "send", "leaving", "leaving")
        /\ UNCHANGED section
  /\ UNCHANGED << accepted, users, online, inbox, lastMessages, local, out, gone, stalled, up >>

(* send_public_message(): to everybody else, and then, in a second critical *)
(* section on another mutex, to the history.                                *)
SendsPublic(c) ==
  /\ at[c].send = "executing" /\ Unlocked /\ local[c].command.type = "public_message"
  /\ section' = Section("send", c, Chat("public_message", c), UsersOnline(online) \ {c})
  /\ Goes(c, "send", "telling")
  /\ UNCHANGED << accepted, users, online, inbox, lastMessages, local, out, gone, stalled, up >>

Archives(c) ==
  /\ at[c].send = "archiving" /\ HistoryFree
  /\ lastMessages' = Push(lastMessages, Chat("public_message", c))
  /\ local' = [local EXCEPT ![c].command = None]
  /\ Goes(c, "send", "reading")
  /\ UNCHANGED << accepted, users, section, online, inbox, out, gone, stalled, up >>

StartsLogout(c) ==
  /\ at[c].send = "leaving" /\ Hands(c, "send", "over", "logout")
  /\ UNCHANGED << accepted, section, online, inbox, lastMessages, local, out, gone, stalled, up >>

SenderRuns(c) ==
  \/ TakesToSend(c) \/ ReadsChat(c) \/ StopsReading(c) \/ ReadThrows(c)
  \/ SendsPrivate(c) \/ Answered(c) \/ SendsPublic(c) \/ Archives(c) \/ StartsLogout(c)

-----------------------------------------------------------------------------
(* receive_messages(): each message is taken from the inbox and written to  *)
(* the socket until the inbox is closed and drained, or until a write       *)
(* fails, after which nobody takes messages from that inbox any more.       *)
TakesToReceive(c) ==
  /\ Takes(c, "receive", "serving")
  /\ UNCHANGED << accepted, section, online, inbox, lastMessages, local, out, gone, stalled, up >>

Delivers(c) ==
  /\ at[c].receive = "serving" /\ inbox[c].jobs # << >>
  /\ inbox' = [inbox EXCEPT ![c].jobs = Tail(@)]
  /\ Writes(c, << Head(inbox[c].jobs) >>)
  /\ Goes(c, "receive", "sending")
  /\ UNCHANGED << accepted, users, section, online, lastMessages, local, gone, up >>

Delivered(c) ==
  /\ at[c].receive = "sending" /\ Written(c, "receive", "serving", "over")
  /\ UNCHANGED << accepted, users, section, online, inbox, lastMessages, local,
                  out, gone, stalled, up >>

StopsDelivering(c) ==
  /\ at[c].receive = "serving" /\ inbox[c].jobs = << >> /\ inbox[c].closed
  /\ Goes(c, "receive", "over")
  /\ UNCHANGED << accepted, users, section, online, inbox, lastMessages, local, out, gone, stalled, up >>

ReceiverRuns(c) ==
  TakesToReceive(c) \/ Delivers(c) \/ Delivered(c) \/ StopsDelivering(c)

-----------------------------------------------------------------------------
(* logout(): the inbox is closed first, without m_users.                    *)
LeavesInboxOpen(c) ==    \* variant: no close()
  /\ Takes(c, "logout", "closed")
  /\ UNCHANGED << accepted, section, online, inbox, lastMessages, local, out, gone, stalled, up >>

ClosesInbox(c) ==
  /\ Takes(c, "logout", "closed")
  /\ inbox' = [inbox EXCEPT ![c].closed = TRUE]
  /\ UNCHANGED << accepted, section, online, lastMessages, local, out, gone, stalled, up >>

Erases(c) ==
  /\ at[c].logout = "closed" /\ Unlocked
  /\ online' = [online EXCEPT ![NickOf[c]] = None]
  /\ section' = Section("logout", c, Notice("logout", NickOf[c]), UsersOnline(online'))
  /\ Goes(c, "logout", "telling")
  /\ UNCHANGED << accepted, users, inbox, lastMessages, local, out, gone, stalled, up >>

LogoutRuns(c) == ClosesInbox(c) \/ Erases(c)

-----------------------------------------------------------------------------
Leaves(c) ==
  /\ c \in Leaver /\ at[c].login # "none" /\ ~gone[c]
  /\ gone' = [gone EXCEPT ![c] = TRUE]
  /\ stalled' = [stalled EXCEPT ![c] = FALSE]
  /\ UNCHANGED << accepted, users, at, section, online, inbox, lastMessages, local, out, up >>

Listens(c) ==
  /\ stalled[c]
  /\ stalled' = [stalled EXCEPT ![c] = FALSE]
  /\ UNCHANGED << accepted, users, at, section, online, inbox, lastMessages, local,
                  out, gone, up >>

Next ==
  /\ up
  /\ \/ QueuesAccepted \/ SectionRuns
     \/ \E c \in Conn :
          \/ Accepts(c) \/ Leaves(c) \/ Listens(c) \/ LoginRuns(c) \/ SpuriousWakeup(c)
          \/ SenderRuns(c) \/ ReceiverRuns(c) \/ LogoutRuns(c)

(* Threads run when they can; a read lasts max_idle_time at most, a write   *)
(* as long as its client does not read.  Clients need not connect, speak,   *)
(* read or leave.                                                          *)
Fairness ==
  /\ WF_vars(up /\ QueuesAccepted)
  /\ WF_vars(up /\ SectionRuns)
  /\ \A c \in Conn :
       /\ WF_vars(up /\ LoginRuns(c)) /\ WF_vars(up /\ SenderRuns(c))
       /\ WF_vars(up /\ ReceiverRuns(c)) /\ WF_vars(up /\ LogoutRuns(c))

Spec == Init /\ [][Next]_vars /\ Fairness

-----------------------------------------------------------------------------
(* Users who got past the wait of login() and are still in online_users.    *)
PastWait(c) ==
  /\ online[NickOf[c]] = c
  /\ at[c].login \notin {"asleep", "woken"}

\* Fewer than max_clients users are let past the wait, although each login
\* thread inserts its user before it waits and only then compares: concurrent
\* logins never overshoot, and the pools never run out of sender threads nor
\* does login() ever block in users_send.put().
WithinCapacity ==
  /\ Cardinality({c \in Conn : PastWait(c)}) < MaxClients
  /\ Busy("send") + Len(users["send"]) < MaxClients

\* A nickname changes hands only through the logout of its owner, and that
\* frees it first: no login, and no logout of another user or of an earlier
\* user of the same nickname, ever takes an entry of online_users away.
NicknameKept ==
  [][\A n \in Nick : online[n] # None /\ online'[n] # online[n] =>
       online'[n] = None /\ NickOf[online[n]] = n /\ at[online[n]].logout = "closed"]_vars

\* The loop of logout() has no try around it: it relies on no other online
\* user's inbox being closed.  With one logout thread that is so, although the
\* inboxes are closed without holding m_users.
LogoutNeverThrows ==
  HeldBy("logout") => \A u \in section.left : ~inbox[u].closed
=============================================================================
