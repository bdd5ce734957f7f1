--------------------------- MODULE ChatServerViews ---------------------------
(***************************************************************************)
(* What the clients of ChatServer can conclude from the lines they are     *)
(* sent, against what the server knows.                                    *)
(***************************************************************************)
EXTENDS ChatServer

(* Lines handed to the socket of c or waiting in its inbox, oldest first.   *)
Heard(c) == out[c] \o inbox[c].jobs

(* A user in service, whose client is there to read.                        *)
Served(c) == at[c].send # "none" /\ ~inbox[c].closed /\ ~gone[c]

Announced(c) ==
  \/ at[c].login \in {"welcoming", "listing", "history", "ending", "to_send", "to_receive"}
  \/ at[c].send # "none"

(* The lines that put a nickname on display and those that take it off it;  *)
(* the list does either to every nickname.                                 *)
Shows(m, n) == (m.type = "login" /\ m.nick = n) \/ (m.type = "online_users" /\ n \in m.nicks)

Hides(m, n) == (m.type = "logout" /\ m.nick = n) \/ (m.type = "online_users" /\ n \notin m.nicks)

Displays(lines, n) ==
  \E i \in 1 .. Len(lines) :
    Shows(lines[i], n) /\ \A j \in i + 1 .. Len(lines) : ~Hides(lines[j], n)

(* The online users a client displays: the list, corrected by every notice  *)
(* that follows.                                                           *)
View(c) == {n \in Nick : Displays(Heard(c), n)}

BeingTold(n) ==
  \E role \in {"login", "logout"} : HeldBy(role) /\ section.msg = Notice(role, n)

\* The view of every client agrees with online_users, although notices may
\* reach its inbox before the list is made and are read after it: a nickname
\* nobody holds is not displayed, one held by an announced user is.  (Exempt
\* is the nickname whose notice is being distributed at this moment.)
ViewsAgree ==
  \A c \in Conn : Served(c) =>
    \A n \in Nick \ {NickOf[c]} :
      /\ online[n] = None /\ ~BeingTold(n) => n \notin View(c)
      /\ online[n] # None /\ Announced(online[n]) => n \in View(c)

IsChat(m) == m.type \in {"public_message", "private_message"}

(* Whether line i of what c heard is of the history, or before it.          *)
InHistory(c, i) ==
  i <= Len(out[c]) /\ \A j \in 1 .. i : out[c][j].type # "done_last_messages"

\* What one user says reaches another in the order it was said and without
\* repetition, within the history and within what follows it.  A user who logs
\* in between the distribution of a message and its archiving hears it in both;
\* what comes after then goes back to that message and repeats the history to
\* its end.
InOrder ==
  \A c \in Conn :
    LET heard == Heard(c)
        SameAuthor(i, j) ==
          IsChat(heard[i]) /\ IsChat(heard[j]) /\ heard[i].by = heard[j].by
    IN \A i, j \in 1 .. Len(heard) : i < j /\ SameAuthor(i, j) =>
         \/ heard[i].n < heard[j].n
         \/ /\ InHistory(c, i) /\ ~InHistory(c, j)
            /\ \/ gone[c]
               \/ \E k \in j .. Len(heard) : SameAuthor(i, k) /\ heard[k].n = heard[i].n

\* What is said in private is signed by its author, is given only to the user
\* who has the nickname it is addressed to, and is never sent back to its
\* author nor archived, whoever had that nickname before or takes it later.
PrivateStaysPrivate ==
  /\ \A m \in ToSet(lastMessages) : m.type = "public_message"
  /\ \A c \in Conn : \A m \in ToSet(Heard(c)) :
       m.type = "private_message" =>
         m.by # c /\ m.said.source = NickOf[m.by] /\ m.said.destination = NickOf[c]
  /\ HeldBy("send") /\ section.msg.type = "private_message" =>
       section.left \subseteq {online[section.msg.said.destination]}

-----------------------------------------------------------------------------
(* Whoever leaves lines unread reads them in the end, or leaves.            *)
ClientsRead == \A c \in Slow : []<>~stalled[c]

(* The holder of m_users is blocked for ever on the inbox of a user whose   *)
(* receiver has given up, or whose login failed after it was inserted.      *)
Deserted ==
  /\ section # None /\ section.stuck # None
  /\ LET u == section.stuck IN
       /\ Len(inbox[u].jobs) = MaxInbox
       /\ at[u].receive = "over" \/ (at[u].login = "over" /\ at[u].send = "none")

\* If clients read what they are sent, every accepted connection is refused,
\* given up or gets its services, unless the process has ended or m_users is
\* held for ever because of a user nobody serves.  (A connection is made once,
\* and none of the states it ends in is left again.)
LoginResolves ==
  ClientsRead =>
    <>[](\A c \in Conn : at[c].login \in {"none", "over"} \/ ~up \/ Deserted)

\* Under the same conditions a user whose session has ended is logged out: the
\* others are told, its inbox is drained, and all its threads are free again.
LogoutCompletes ==
  ClientsRead =>
    <>[](\A c \in Conn : at[c].send \in {"leaving", "over"} =>
           (at[c].logout = "over" /\ at[c].receive = "over") \/ ~up \/ Deserted)
=============================================================================
