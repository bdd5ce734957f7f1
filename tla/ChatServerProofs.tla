-------------------------- MODULE ChatServerProofs --------------------------
(***************************************************************************)
(* Theorems about ChatServer, for any clients, any sizes of the pools and  *)
(* of the queues and whatever is said.                                     *)
(***************************************************************************)
EXTENDS ChatServerViews, FiniteSetTheorems, SequenceTheorems, TLAPS

Stage ==
  {"none", "queued", "over", "hello", "correcting", "checking", "refusing", "asleep",
   "woken", "announcing", "welcoming", "listing", "history", "ending", "to_send",
   "to_receive", "reading", "executing", "denying", "answering", "telling",
   "archiving", "leaving", "serving", "sending", "closed"}

Command == {None} \cup UNION {Chats(c) : c \in Conn}

Holding ==
  [role : Pool, who : Conn, msg : Msg, left : SUBSET Conn, stuck : Conn \cup {None}]
    \cup [role : {"main", "refusal", "denial"}, who : Conn, msg : {None},
          left : SUBSET Conn, stuck : {None}]

TypeOK ==
  /\ accepted \in Conn \cup {None}
  /\ users \in [Pool -> Seq(Conn)]
  /\ at \in [Conn -> [Pool -> Stage]]
  /\ section \in {None} \cup Holding
  /\ online \in [Nick -> Conn \cup {None}]
  /\ inbox \in [Conn -> [jobs : Seq(Msg), closed : BOOLEAN]]
  /\ lastMessages \in Seq(Msg)
  /\ local \in [Conn -> [listed : SUBSET Nick, command : Command, lines : Nat]]

(* Who waits in a queue waits there once, and nobody else does.            *)
Waiting(p, c) == \E i \in 1 .. Len(users[p]) : users[p][i] = c

QueueInv ==
  /\ \A p \in Pool :
       /\ \A i \in 1 .. Len(users[p]) : at[users[p][i]][p] = "queued"
       /\ \A i, j \in 1 .. Len(users[p]) : users[p][i] = users[p][j] => i = j
  /\ accepted # None =>
       at[accepted]["login"] = "queued" /\ ~Waiting("login", accepted)

(* A connection passes from pool to pool in one order.                     *)
OrderInv ==
  \A c \in Conn :
    /\ at[c]["send"] # "none" => at[c]["login"] \in {"to_receive", "over"}
    /\ at[c]["receive"] # "none" => at[c]["login"] = "over"
    /\ at[c]["login"] = "to_receive" => at[c]["send"] # "none"
    /\ at[c]["logout"] # "none" => at[c]["send"] = "over"

(* From its login to its logout a user has the entry of its nickname.      *)
InService(c) ==
  \/ at[c]["login"] \in {"asleep", "woken", "announcing", "welcoming", "listing",
                          "history", "ending", "to_send"}
  \/ at[c]["send"] # "none" /\ at[c]["logout"] \in {"none", "queued", "closed"}

OwnerInv ==
  /\ \A n \in Nick : online[n] # None => NickOf[online[n]] = n
  /\ \A c \in Conn : InService(c) => online[NickOf[c]] = c
  /\ \A c \in Conn : at[c]["logout"] \in {"telling", "leaving", "over"} => online[NickOf[c]] # c
  /\ \A c \in Conn : inbox[c].closed => at[c]["logout"] \notin {"none", "queued"}

SectionInv ==
  /\ HeldBy("login") => at[section.who]["login"] = "announcing"
  /\ HeldBy("send") => at[section.who]["send"] = "telling"
  /\ HeldBy("logout") => at[section.who]["logout"] = "telling"
  /\ HeldBy("logout") => \A u \in section.left : online[NickOf[u]] = u

(* The threads of pool p that are busy when the threads are at places.      *)
BusyIn(places, p) ==
  Cardinality({c \in Conn : places[c][p] \notin {"none", "queued", "over"}})

PoolInv == \A p \in Pool : Len(users[p]) <= MaxClients /\ BusyIn(at, p) <= Threads(p)

SpotInv == Cardinality({c \in Conn : PastWait(c)}) < MaxClients

SizeInv ==
  /\ \A c \in Conn : Len(inbox[c].jobs) <= MaxInbox
  /\ Len(lastMessages) <= MaxMessages

SessionInv == OrderInv /\ OwnerInv

IInv == TypeOK /\ QueueInv /\ SessionInv /\ SectionInv /\ PoolInv /\ SpotInv /\ SizeInv

-----------------------------------------------------------------------------
(* How the places of the threads change.                                   *)
LEMMA GoesTo ==
  ASSUME TypeOK, NEW c \in Conn, NEW p \in Pool, NEW s \in Stage, Goes(c, p, s)
  PROVE  /\ at' \in [Conn -> [Pool -> Stage]]
         /\ \A d \in Conn, q \in Pool :
              at'[d][q] = IF d = c /\ q = p THEN s ELSE at[d][q]
BY DEF TypeOK, Goes

LEMMA LoginGoesTo ==
  ASSUME TypeOK, NEW c \in Conn, NEW s \in Stage, Goes(c, "login", s)
  PROVE  \A d \in Conn, q \in Pool :
           at'[d][q] = IF d = c /\ q = "login" THEN s ELSE at[d][q]
BY DEF TypeOK, Goes, Pool

LEMMA TakesTo ==
  ASSUME TypeOK, NEW c \in Conn, NEW p \in Pool, NEW s \in Stage, Takes(c, p, s)
  PROVE  /\ at' \in [Conn -> [Pool -> Stage]]
         /\ \A d \in Conn, q \in Pool :
              at'[d][q] = IF d = c /\ q = p THEN s ELSE at[d][q]
         /\ users' \in [Pool -> Seq(Conn)]
         /\ users[p] # << >> /\ Head(users[p]) = c
         /\ users'[p] = Tail(users[p])
         /\ \A q \in Pool \ {p} : users'[q] = users[q]
         /\ Busy(p) < Threads(p)
<1>1. Goes(c, p, s) /\ users[p] # << >> /\ Head(users[p]) = c /\ Busy(p) < Threads(p)
  BY DEF Takes
<1>2. users' = [users EXCEPT ![p] = Tail(users[p])]
  BY DEF Takes
<1>3. users[p] \in Seq(Conn) /\ Tail(users[p]) \in Seq(Conn)
  BY <1>1 DEF TypeOK
<1> QED BY <1>1, <1>2, <1>3, GoesTo DEF TypeOK

LEMMA HandsTo ==
  ASSUME TypeOK, NEW c \in Conn, NEW from \in Pool, NEW p \in Pool, from # p,
         NEW s \in Stage, Hands(c, from, s, p)
  PROVE  /\ at' \in [Conn -> [Pool -> Stage]]
         /\ \A d \in Conn, q \in Pool :
              at'[d][q] = IF d = c /\ q = from THEN s
                          ELSE IF d = c /\ q = p THEN "queued" ELSE at[d][q]
         /\ users' \in [Pool -> Seq(Conn)]
         /\ users'[p] = Append(users[p], c)
         /\ \A q \in Pool \ {p} : users'[q] = users[q]
         /\ Len(users[p]) < MaxClients
<1>1. users' = [users EXCEPT ![p] = Append(users[p], c)] /\ Len(users[p]) < MaxClients
  BY DEF Hands
<1>2. users[p] \in Seq(Conn) /\ Append(users[p], c) \in Seq(Conn)
  BY DEF TypeOK
<1>3. at' = [at EXCEPT ![c][from] = s, ![c][p] = "queued"]
  BY DEF Hands
<1>4. "queued" \in Stage
  BY DEF Stage
<1>5. /\ at' \in [Conn -> [Pool -> Stage]]
      /\ \A d \in Conn, q \in Pool :
              at'[d][q] = IF d = c /\ q = from THEN s
                          ELSE IF d = c /\ q = p THEN "queued" ELSE at[d][q]
  BY <1>3, <1>4 DEF TypeOK
<1> QED BY <1>1, <1>2, <1>5 DEF TypeOK

(* The end of logout() with a notify_one() that wakes w.                    *)
Notifies(c, w) == at' = [at EXCEPT ![w].login = "woken", ![c].logout = "over"]

LEMMA NotifiesTo ==
  ASSUME TypeOK, NEW c \in Conn, NEW w \in Conn, Notifies(c, w)
  PROVE  /\ at' \in [Conn -> [Pool -> Stage]]
         /\ \A d \in Conn, q \in Pool :
              at'[d][q] = IF d = w /\ q = "login" THEN "woken"
                          ELSE IF d = c /\ q = "logout" THEN "over" ELSE at[d][q]
<1>1. {"login", "logout"} \subseteq Pool /\ {"woken", "over"} \subseteq Stage
  BY DEF Pool, Stage
<1>2. at \in [Conn -> [Pool -> Stage]]
  BY DEF TypeOK
<1>3. CASE w = c
  BY <1>1, <1>2, <1>3 DEF Notifies
<1>4. CASE w # c
  BY <1>1, <1>2, <1>4 DEF Notifies
<1> QED BY <1>3, <1>4

(* The critical section and the message that is put in it.                  *)
LEMMA SectionTyped ==
  ASSUME NEW role \in {"login", "send", "logout"}, NEW c \in Conn, NEW m \in Msg,
         NEW left \in SUBSET Conn
  PROVE  Section(role, c, m, left) \in Holding
BY DEF Section, Holding, Pool

LEMMA BareSectionTyped ==
  ASSUME NEW role \in {"main", "refusal", "denial"}, NEW c \in Conn
  PROVE  Section(role, c, None, {}) \in Holding
BY DEF Section, Holding

LEMMA HolderTyped ==
  ASSUME TypeOK, Broadcasting
  PROVE  /\ section \in Holding
         /\ section.role \in {"login", "send", "logout"}
         /\ section.who \in Conn /\ section.msg \in Msg
         /\ section.left \in SUBSET Conn /\ section.stuck \in Conn \cup {None}
BY DEF TypeOK, Broadcasting, HeldBy, Holding, Pool

LEMMA NoticeTyped ==
  ASSUME NEW type \in {"login", "logout"}, NEW n \in Nick
  PROVE  Notice(type, n) \in Msg
BY DEF Notice, Msg

LEMMA ChatTyped ==
  ASSUME TypeOK, NEW type \in {"private_message", "public_message"}, NEW c \in Conn
  PROVE  Chat(type, c) \in Msg
BY DEF Chat, Msg, TypeOK, Command

LEMMA OnlineTyped ==
  ASSUME NEW table \in [Nick -> Conn \cup {None}]
  PROVE  UsersOnline(table) \in SUBSET Conn
BY DEF UsersOnline

-----------------------------------------------------------------------------
(* Type correctness.                                                       *)
LEMMA TypeInit == Init => TypeOK
<1> SUFFICES ASSUME Init PROVE TypeOK
  OBVIOUS
<1>1. << >> \in Seq(Conn) /\ << >> \in Seq(Msg)
  OBVIOUS
<1>2. users \in [Pool -> Seq(Conn)] /\ lastMessages \in Seq(Msg)
  BY <1>1 DEF Init
<1>3. at \in [Conn -> [Pool -> Stage]]
  BY DEF Init, Stage
<1>4. inbox \in [Conn -> [jobs : Seq(Msg), closed : BOOLEAN]]
  BY <1>1 DEF Init
<1>5. local \in [Conn -> [listed : SUBSET Nick, command : Command, lines : Nat]]
  BY DEF Init, Command
<1> QED BY <1>2, <1>3, <1>4, <1>5 DEF Init, TypeOK

LEMMA TypeMain == ASSUME TypeOK, QueuesAccepted \/ \E c \in Conn : Accepts(c) PROVE TypeOK'
<1>1. CASE \E c \in Conn : Accepts(c)
  <2>1. PICK c \in Conn : Accepts(c)
    BY <1>1
  <2>2. "login" \in Pool /\ "queued" \in Stage
    BY DEF Pool, Stage
  <2>3. at' \in [Conn -> [Pool -> Stage]]
    BY <2>1, <2>2, GoesTo DEF Accepts
  <2> QED BY <2>1, <2>3 DEF Accepts, TypeOK
<1>2. CASE QueuesAccepted
  <2>1. accepted \in Conn /\ accepted' \in Conn \cup {None}
    BY <1>2 DEF QueuesAccepted, TypeOK
  <2>2. users' \in [Pool -> Seq(Conn)]
    <3>1. "login" \in Pool
      BY DEF Pool
    <3>2. Append(users["login"], accepted) \in Seq(Conn)
      BY <2>1, <3>1 DEF TypeOK
    <3> QED BY <1>2, <3>1, <3>2 DEF QueuesAccepted, TypeOK
  <2>3. section' \in {None} \cup Holding
    BY <1>2, <2>1 DEF QueuesAccepted, Section, Holding
  <2> QED BY <1>2, <2>1, <2>2, <2>3 DEF QueuesAccepted, TypeOK
<1> QED BY <1>1, <1>2

LEMMA TypeWaits ==
  ASSUME TypeOK, NEW c \in Conn, NEW table \in [Nick -> Conn \cup {None}], Waits(c, table)
  PROVE  /\ at' \in [Conn -> [Pool -> Stage]]
         /\ section' \in {None} \cup Holding
<1>1. "login" \in Pool /\ {"announcing", "asleep"} \subseteq Stage
  BY DEF Pool, Stage
<1>2. at' \in [Conn -> [Pool -> Stage]]
  BY <1>1, GoesTo DEF Waits
<1>3. Section("login", c, Notice("login", NickOf[c]), UsersOnline(table) \ {c}) \in Holding
  <2>1. Notice("login", NickOf[c]) \in Msg
    BY NickAssumption, NoticeTyped
  <2>2. UsersOnline(table) \ {c} \in SUBSET Conn
    BY OnlineTyped
  <2> QED BY <2>1, <2>2, SectionTyped
<1> QED BY <1>2, <1>3 DEF Waits, TypeOK

LEMMA TypeLogin == ASSUME TypeOK, NEW c \in Conn, LoginRuns(c) \/ SpuriousWakeup(c) PROVE TypeOK'
<1> USE DEF TypeOK
<1>1. /\ {"login", "send", "receive"} \subseteq Pool
      /\ {"hello", "correcting", "checking", "refusing", "over", "woken", "listing",
        "history", "ending", "to_send", "to_receive"} \subseteq Stage
  BY DEF Pool, Stage
<1>2. CASE TakesConnection(c)
  BY <1>1, <1>2, TakesTo DEF TakesConnection
<1>3. CASE ReceivesNickname(c)
  BY <1>1, <1>3, GoesTo DEF ReceivesNickname
<1>4. CASE ChecksNickname(c)
  <2>1. CASE /\ online' = online /\ section' = Section("refusal", c, None, {})
             /\ Goes(c, "login", "refusing")
    BY <1>1, <1>4, <2>1, GoesTo, BareSectionTyped DEF ChecksNickname
  <2>2. CASE online' = [online EXCEPT ![NickOf[c]] = c] /\ Waits(c, online')
    <3>1. online' \in [Nick -> Conn \cup {None}]
      BY <2>2
    <3> QED BY <1>4, <2>2, <3>1, TypeWaits DEF ChecksNickname
  <2> QED BY <1>4, <2>1, <2>2 DEF ChecksNickname
<1>5. CASE WakesUp(c)
  BY <1>5, TypeWaits DEF WakesUp
<1>6. CASE SpuriousWakeup(c)
  BY <1>1, <1>6, GoesTo DEF SpuriousWakeup
<1>7. CASE Welcomes(c)
  BY <1>1, <1>7, GoesTo DEF Welcomes
<1>8. CASE StartsServices(c)
  BY <1>1, <1>8, HandsTo DEF StartsServices
<1>9. CASE Corrects(c)
  BY <1>1, <1>9, GoesTo DEF Corrects, Written
<1>10. CASE Refuses(c)
  BY <1>1, <1>10, GoesTo DEF Refuses, Written
<1>11. CASE Welcomed(c)
  BY <1>1, <1>11, GoesTo DEF Welcomed, Written
<1> QED BY <1>2, <1>3, <1>4, <1>5, <1>6, <1>7, <1>8, <1>9, <1>10, <1>11 DEF LoginRuns

(* What put() does to the inbox of one user.                                *)
LEMMA PutsTo ==
  ASSUME TypeOK, Broadcasting, NEW u \in Conn, Puts(u)
  PROVE  /\ inbox' \in [Conn -> [jobs : Seq(Msg), closed : BOOLEAN]]
         /\ Len(inbox[u].jobs) < MaxInbox
         /\ Len(inbox'[u].jobs) = Len(inbox[u].jobs) + 1
         /\ \A d \in Conn \ {u} : inbox'[d] = inbox[d]
         /\ \A d \in Conn : inbox'[d].closed = inbox[d].closed
         /\ section' \in Holding
         /\ section'.role = section.role /\ section'.who = section.who
         /\ section'.left = section.left \ {u}
<1>1. section.msg \in Msg
  BY HolderTyped
<1>2. inbox[u] \in [jobs : Seq(Msg), closed : BOOLEAN]
  BY DEF TypeOK
<1>3. inbox' = [inbox EXCEPT ![u].jobs = Append(inbox[u].jobs, section.msg)]
  BY DEF Puts
<1>4. /\ Append(inbox[u].jobs, section.msg) \in Seq(Msg)
      /\ Len(Append(inbox[u].jobs, section.msg)) = Len(inbox[u].jobs) + 1
  BY <1>1, <1>2
<1>5. inbox' \in [Conn -> [jobs : Seq(Msg), closed : BOOLEAN]]
  BY <1>3, <1>4 DEF TypeOK
<1>6. inbox'[u].jobs = Append(inbox[u].jobs, section.msg)
  BY <1>3, <1>2 DEF TypeOK
<1>7. /\ \A d \in Conn \ {u} : inbox'[d] = inbox[d]
      /\ \A d \in Conn : inbox'[d].closed = inbox[d].closed
  BY <1>3, <1>2 DEF TypeOK
<1>8. section' = [section EXCEPT !.left = section.left \ {u}, !.stuck = None]
  BY DEF Puts
<1>9. section \in Holding /\ section.role \in {"login", "send", "logout"}
  BY HolderTyped
<1>10. /\ section' \in Holding
       /\ section'.role = section.role /\ section'.who = section.who
       /\ section'.left = section.left \ {u}
  BY <1>8, <1>9 DEF Holding
<1> QED BY <1>4, <1>5, <1>6, <1>7, <1>10 DEF Puts

LEMMA BlocksTo ==
  ASSUME TypeOK, Broadcasting, NEW u \in Conn, Blocks(u)
  PROVE  /\ section' \in Holding
         /\ section'.role = section.role /\ section'.who = section.who
         /\ section'.left = section.left
<1>1. section \in Holding /\ section.role \in {"login", "send", "logout"}
  BY HolderTyped
<1> QED BY <1>1 DEF Blocks, Holding

LEMMA TypeSection == ASSUME TypeOK, SectionRuns PROVE TypeOK'
<1> USE DEF TypeOK
<1>1. /\ {"login", "send", "logout"} \subseteq Pool
      /\ {"over", "leaving", "welcoming", "archiving", "reading", "woken"} \subseteq Stage
  BY DEF Pool, Stage
<1>2. CASE Tells
  <2>1. Broadcasting
    BY <1>2 DEF Tells
  <2>2. PICK u \in Conn : Puts(u) \/ Blocks(u)
    BY <1>2, <2>1, HolderTyped DEF Tells
  <2>3. CASE Puts(u)
    BY <1>2, <2>1, <2>3, PutsTo DEF Tells
  <2>4. CASE Blocks(u)
    BY <1>2, <2>1, <2>4, BlocksTo DEF Tells, Blocks
  <2> QED BY <2>2, <2>3, <2>4
<1>3. CASE TellThrows
  <2>1. Broadcasting
    BY <1>3 DEF TellThrows
  <2>2. section.who \in Conn /\ section.role \in Pool
    BY <1>1, <2>1, HolderTyped
  <2>3. at' \in [Conn -> [Pool -> Stage]]
    BY <1>1, <1>3, <2>2, GoesTo DEF TellThrows
  <2> QED BY <1>3, <2>3 DEF TellThrows
<1>4. CASE TellsNoMore
  <2>1. Broadcasting
    BY <1>4 DEF TellsNoMore
  <2>2. section.who \in Conn
    BY <2>1, HolderTyped
  <2>3. CASE LoginTold(section.who)
    <3>1. at' \in [Conn -> [Pool -> Stage]]
      BY <1>1, <2>2, <2>3, GoesTo DEF LoginTold
    <3>2. local' \in [Conn -> [listed : SUBSET Nick, command : Command, lines : Nat]]
      BY <2>2, <2>3 DEF LoginTold
    <3> QED BY <1>4, <3>1, <3>2 DEF TellsNoMore
  <2>4. CASE SendTold(section.who)
    BY <1>1, <1>4, <2>2, <2>4, GoesTo DEF SendTold, TellsNoMore
  <2>5. CASE LogoutTold(section.who)
    <3>1. at' \in [Conn -> [Pool -> Stage]]
      BY <1>1, <2>2, <2>5, GoesTo, NotifiesTo DEF LogoutTold, Notifies
    <3> QED BY <1>4, <2>5, <3>1 DEF TellsNoMore, LogoutTold
  <2> QED BY <1>4, <2>3, <2>4, <2>5 DEF TellsNoMore
<1> QED BY <1>2, <1>3, <1>4 DEF SectionRuns

(* What Messages::push keeps: the size of the history.                      *)
LEMMA PushKeepsSize ==
  ASSUME NEW messages \in Seq(Msg), NEW m \in Msg
  PROVE  /\ Push(messages, m) \in Seq(Msg)
         /\ Len(messages) <= MaxMessages => Len(Push(messages, m)) <= MaxMessages
<1>1. MaxMessages \in Nat /\ MaxMessages > 0
  BY SizeAssumption
<1>2. CASE Len(messages) >= MaxMessages
  <2>1. messages # << >>
    BY <1>1, <1>2
  <2>2. Tail(messages) \in Seq(Msg) /\ Len(Tail(messages)) = Len(messages) - 1
    BY <2>1
  <2>3. Push(messages, m) = Append(Tail(messages), m)
    BY <1>2 DEF Push
  <2> QED BY <1>1, <2>2, <2>3
<1>3. CASE ~(Len(messages) >= MaxMessages)
  BY <1>1, <1>3 DEF Push
<1> QED BY <1>2, <1>3

LEMMA LocalReads ==
  ASSUME local \in [Conn -> [listed : SUBSET Nick, command : Command, lines : Nat]],
         NEW c \in Conn, NEW message \in Command,
         local' = [local EXCEPT ![c].command = message, ![c].lines = @ + 1]
  PROVE  local' \in [Conn -> [listed : SUBSET Nick, command : Command, lines : Nat]]
BY SMTT(30)

LEMMA LocalForgets ==
  ASSUME local \in [Conn -> [listed : SUBSET Nick, command : Command, lines : Nat]],
         NEW c \in Conn, local' = [local EXCEPT ![c].command = None]
  PROVE  local' \in [Conn -> [listed : SUBSET Nick, command : Command, lines : Nat]]
BY DEF Command

LEMMA TypeSender == ASSUME TypeOK, NEW c \in Conn, SenderRuns(c) PROVE TypeOK'
<1> USE DEF TypeOK
<1>1. /\ {"send", "logout"} \subseteq Pool
      /\ {"reading", "executing", "denying", "answering", "leaving", "telling",
          "over"} \subseteq Stage
  BY DEF Pool, Stage
<1>2. CASE TakesToSend(c)
  BY <1>1, <1>2, TakesTo DEF TakesToSend
<1>3. CASE ReadsChat(c)
  <2>1. PICK message \in Chats(c) :
          local' = [local EXCEPT ![c].command = message, ![c].lines = @ + 1]
    BY <1>3 DEF ReadsChat
  <2>2. message \in Command
    BY <2>1 DEF Command
  <2>5. local' \in [Conn -> [listed : SUBSET Nick, command : Command, lines : Nat]]
    BY <2>1, <2>2, LocalReads
  <2>6. at' \in [Conn -> [Pool -> Stage]]
    BY <1>1, <1>3, GoesTo DEF ReadsChat
  <2> QED BY <1>3, <2>5, <2>6 DEF ReadsChat
<1>4. CASE StopsReading(c)
  BY <1>1, <1>4, GoesTo DEF StopsReading
<1>5. CASE ReadThrows(c)
  BY <1>5 DEF ReadThrows
<1>6. CASE SendsPrivate(c) \/ SendsPublic(c)
  <2>2. local' \in [Conn -> [listed : SUBSET Nick, command : Command, lines : Nat]]
    BY <1>6, LocalForgets DEF SendsPrivate, SendsPublic
  <2>3. at' \in [Conn -> [Pool -> Stage]]
    BY <1>1, <1>6, GoesTo DEF SendsPrivate, SendsPublic
  <2>4. section' \in {None} \cup Holding
    <3>1. CASE section' = Section("denial", c, None, {})
      BY <3>1, BareSectionTyped
    <3>2. CASE \E m \in Msg, left \in SUBSET Conn : section' = Section("send", c, m, left)
      BY <3>2, SectionTyped
    <3>3. Chat("private_message", c) \in Msg /\ Chat("public_message", c) \in Msg
      BY ChatTyped
    <3>4. UsersOnline(online) \ {c} \in SUBSET Conn
      BY OnlineTyped
    <3>5. ASSUME ~Denied(c, local[c].command)
          PROVE  {online[local[c].command.destination]} \in SUBSET Conn
      BY <3>5 DEF Denied, IsOnline
    <3> QED BY <1>6, <3>1, <3>2, <3>3, <3>4, <3>5 DEF SendsPrivate, SendsPublic
  <2> QED BY <1>6, <2>2, <2>3, <2>4 DEF SendsPrivate, SendsPublic
<1>7. CASE Archives(c)
  <2>1. Chat("public_message", c) \in Msg
    BY ChatTyped
  <2>2. lastMessages' \in Seq(Msg)
    BY <1>7, <2>1, PushKeepsSize DEF Archives
  <2>3. local' \in [Conn -> [listed : SUBSET Nick, command : Command, lines : Nat]]
    BY <1>7, LocalForgets DEF Archives
  <2> QED BY <1>1, <1>7, <2>2, <2>3, GoesTo DEF Archives
<1>8. CASE StartsLogout(c)
  BY <1>1, <1>8, HandsTo DEF StartsLogout
<1>9. CASE Answered(c)
  BY <1>1, <1>9, GoesTo DEF Answered, Written
<1> QED BY <1>2, <1>3, <1>4, <1>5, <1>6, <1>7, <1>8, <1>9 DEF SenderRuns

LEMMA DeliversTo ==
  ASSUME TypeOK, NEW c \in Conn, Delivers(c)
  PROVE  /\ inbox' \in [Conn -> [jobs : Seq(Msg), closed : BOOLEAN]]
         /\ \A d \in Conn : Len(inbox'[d].jobs) <= Len(inbox[d].jobs)
         /\ \A d \in Conn : inbox'[d].closed = inbox[d].closed
<1>1. inbox[c] \in [jobs : Seq(Msg), closed : BOOLEAN] /\ inbox[c].jobs # << >>
  BY DEF TypeOK, Delivers
<1>2. Tail(inbox[c].jobs) \in Seq(Msg) /\ Len(Tail(inbox[c].jobs)) = Len(inbox[c].jobs) - 1
  BY <1>1
<1>3. inbox' = [inbox EXCEPT ![c].jobs = Tail(inbox[c].jobs)]
  BY DEF Delivers
<1>4. /\ inbox' \in [Conn -> [jobs : Seq(Msg), closed : BOOLEAN]]
      /\ inbox'[c].jobs = Tail(inbox[c].jobs)
      /\ \A d \in Conn \ {c} : inbox'[d] = inbox[d]
      /\ \A d \in Conn : inbox'[d].closed = inbox[d].closed
  BY <1>2, <1>3 DEF TypeOK
<1>5. \A d \in Conn : Len(inbox[d].jobs) \in Nat
  BY DEF TypeOK
<1>6. \A d \in Conn : Len(inbox'[d].jobs) <= Len(inbox[d].jobs)
  <2> SUFFICES ASSUME NEW d \in Conn PROVE Len(inbox'[d].jobs) <= Len(inbox[d].jobs)
    OBVIOUS
  <2>1. CASE d = c
    <3>1. Len(inbox[c].jobs) \in Nat
      BY <1>5
    <3>2. Len(inbox'[c].jobs) = Len(inbox[c].jobs) - 1
      BY <1>2, <1>4
    <3> QED BY <2>1, <3>1, <3>2
  <2>2. CASE d # c
    BY <1>4, <1>5, <2>2
  <2> QED BY <2>1, <2>2
<1> QED BY <1>4, <1>6

LEMMA TypeReceiver == ASSUME TypeOK, NEW c \in Conn, ReceiverRuns(c) PROVE TypeOK'
<1> USE DEF TypeOK
<1>1. "receive" \in Pool /\ {"serving", "sending", "over"} \subseteq Stage
  BY DEF Pool, Stage
<1>2. CASE TakesToReceive(c)
  BY <1>1, <1>2, TakesTo DEF TakesToReceive
<1>3. CASE Delivers(c)
  <2>1. inbox' \in [Conn -> [jobs : Seq(Msg), closed : BOOLEAN]]
    BY <1>3, DeliversTo
  <2>2. at' \in [Conn -> [Pool -> Stage]]
    BY <1>1, <1>3, GoesTo DEF Delivers
  <2> QED BY <1>3, <2>1, <2>2 DEF Delivers
<1>4. CASE StopsDelivering(c)
  BY <1>1, <1>4, GoesTo DEF StopsDelivering
<1>5. CASE Delivered(c)
  BY <1>1, <1>5, GoesTo DEF Delivered, Written
<1> QED BY <1>2, <1>3, <1>4, <1>5 DEF ReceiverRuns

LEMMA TypeLogout == ASSUME TypeOK, NEW c \in Conn, LogoutRuns(c) PROVE TypeOK'
<1> USE DEF TypeOK
<1>1. "logout" \in Pool /\ {"closed", "telling"} \subseteq Stage
  BY DEF Pool, Stage
<1>2. CASE ClosesInbox(c)
  <2>1. inbox' \in [Conn -> [jobs : Seq(Msg), closed : BOOLEAN]]
    BY <1>2 DEF ClosesInbox
  <2> QED BY <1>1, <1>2, <2>1, TakesTo DEF ClosesInbox
<1>3. CASE Erases(c)
  <2>1. online' \in [Nick -> Conn \cup {None}]
    BY <1>3 DEF Erases
  <2>2. Notice("logout", NickOf[c]) \in Msg
    BY NickAssumption, NoticeTyped
  <2>3. UsersOnline(online') \in SUBSET Conn
    BY <2>1, OnlineTyped
  <2>4. section' \in Holding
    BY <1>3, <2>2, <2>3, SectionTyped DEF Erases
  <2>5. at' \in [Conn -> [Pool -> Stage]]
    BY <1>1, <1>3, GoesTo DEF Erases
  <2> QED BY <1>3, <2>1, <2>4, <2>5 DEF Erases
<1> QED BY <1>2, <1>3 DEF LogoutRuns

LEMMA TypeNext == TypeOK /\ [Next]_vars => TypeOK'
<1> SUFFICES ASSUME TypeOK, [Next]_vars PROVE TypeOK'
  OBVIOUS
<1>1. CASE UNCHANGED vars
  BY <1>1 DEF vars, TypeOK
<1>2. CASE \E c \in Conn : Leaves(c) \/ Listens(c)
  BY <1>2 DEF Leaves, Listens, TypeOK
<1> QED BY <1>1, <1>2, TypeMain, TypeLogin, TypeSection, TypeSender, TypeReceiver, TypeLogout
        DEF Next

(* Queues hold connections, the critical section its holder, a message and *)
(* users still to be told, and online_users connections.                   *)
THEOREM TypeCorrect == Spec => []TypeOK
BY TypeInit, TypeNext, PTL DEF Spec

-----------------------------------------------------------------------------
(* Counting.  The threads of a pool that are busy are finitely many.       *)
BusyAt(stage) == stage \notin {"none", "queued", "over"}

LEMMA BusyCounts ==
  ASSUME NEW places, NEW p
  PROVE  BusyIn(places, p) \in Nat
<1>1. IsFiniteSet({c \in Conn : BusyAt(places[c][p])})
  BY ConnAssumption, FS_Subset
<1> QED BY <1>1, FS_CardinalityType DEF BusyIn, BusyAt

LEMMA BusyShrinks ==
  ASSUME NEW before, NEW after, NEW p,
         \A c \in Conn : BusyAt(after[c][p]) => BusyAt(before[c][p])
  PROVE  BusyIn(after, p) <= BusyIn(before, p)
<1> DEFINE A == {c \in Conn : BusyAt(after[c][p])}
           B == {c \in Conn : BusyAt(before[c][p])}
<1>1. IsFiniteSet(B) /\ A \in SUBSET B
  BY ConnAssumption, FS_Subset
<1>2. Cardinality(A) <= Cardinality(B)
  BY <1>1, FS_Subset
<1> QED BY <1>2 DEF BusyIn, BusyAt

LEMMA BusyGrowsByOne ==
  ASSUME NEW before, NEW after, NEW p, NEW c \in Conn,
         \A d \in Conn \ {c} : BusyAt(after[d][p]) => BusyAt(before[d][p])
  PROVE  BusyIn(after, p) <= BusyIn(before, p) + 1
<1> DEFINE A == {d \in Conn : BusyAt(after[d][p])}
           B == {d \in Conn : BusyAt(before[d][p])}
<1>1. IsFiniteSet(B) /\ A \in SUBSET (B \cup {c})
  BY ConnAssumption, FS_Subset
<1>2. BusyIn(after, p) = Cardinality(A) /\ BusyIn(before, p) = Cardinality(B)
  BY DEF BusyIn, BusyAt
<1> HIDE DEF A, B
<1>3. IsFiniteSet(B \cup {c}) /\ Cardinality(B) \in Nat
  BY <1>1, FS_AddElement, FS_CardinalityType
<1>4. Cardinality(B \cup {c}) = IF c \in B THEN Cardinality(B) ELSE Cardinality(B) + 1
  BY <1>1, FS_AddElement
<1>5. IsFiniteSet(A) /\ Cardinality(A) <= Cardinality(B \cup {c})
  BY <1>1, <1>3, FS_Subset
<1>6. Cardinality(A) \in Nat
  BY <1>5, FS_CardinalityType
<1> QED BY <1>2, <1>3, <1>4, <1>5, <1>6

LEMMA ThreadsTyped == ASSUME NEW p \in Pool PROVE Threads(p) \in Nat
BY SizeAssumption DEF Threads, Pool

-----------------------------------------------------------------------------
(* Queues and pools, when nobody enters or leaves one, when a free thread  *)
(* takes a connection and when a thread hands one on.                      *)
LEMMA QueuesStay ==
  ASSUME TypeOK, QueueInv, PoolInv, UNCHANGED << accepted, users >>,
         \A c \in Conn, p \in Pool : at[c][p] = "queued" => at'[c][p] = "queued",
         \A c \in Conn, p \in Pool : BusyAt(at'[c][p]) => BusyAt(at[c][p])
  PROVE  QueueInv' /\ PoolInv'
<1>1. QueueInv'
  <2>1. \A p \in Pool : \A i \in 1 .. Len(users[p]) : users[p][i] \in Conn
    BY DEF TypeOK
  <2>2. accepted # None => accepted \in Conn
    BY DEF TypeOK
  <2>3. "login" \in Pool
    BY DEF Pool
  <2> QED BY <2>1, <2>2, <2>3 DEF QueueInv, Waiting
<1>2. PoolInv'
  <2> SUFFICES ASSUME NEW p \in Pool PROVE Len(users'[p]) <= MaxClients /\ BusyIn(at', p) <= Threads(p)
    BY DEF PoolInv
  <2>1. /\ BusyIn(at', p) <= BusyIn(at, p) /\ BusyIn(at, p) <= Threads(p)
        /\ Len(users'[p]) <= MaxClients
    BY BusyShrinks DEF PoolInv
  <2>2. BusyIn(at', p) \in Nat /\ BusyIn(at, p) \in Nat /\ Threads(p) \in Nat
    BY BusyCounts, ThreadsTyped
  <2> QED BY <2>1, <2>2
<1> QED BY <1>1, <1>2

LEMMA QueueTakes ==
  ASSUME TypeOK, QueueInv, PoolInv, UNCHANGED accepted,
         NEW c \in Conn, NEW p \in Pool, NEW s \in Stage, s # "queued", Takes(c, p, s)
  PROVE  QueueInv' /\ PoolInv' /\ at[c][p] = "queued"
<1> DEFINE q == users[p]
<1>1. /\ \A d \in Conn, r \in Pool : at'[d][r] = IF d = c /\ r = p THEN s ELSE at[d][r]
      /\ users[p] # << >> /\ Head(users[p]) = c
      /\ users'[p] = Tail(users[p])
      /\ \A r \in Pool \ {p} : users'[r] = users[r]
      /\ Busy(p) < Threads(p)
  BY TakesTo
<1>2. q \in Seq(Conn) /\ q # << >>
  BY <1>1 DEF TypeOK
<1>3. /\ Len(q) \in Nat /\ Len(q) > 0 /\ q[1] = c
      /\ Len(Tail(q)) = Len(q) - 1
      /\ \A i \in 1 .. Len(Tail(q)) : Tail(q)[i] = q[i + 1] /\ i + 1 \in 1 .. Len(q)
  BY <1>1, <1>2
<1>4. at[c][p] = "queued"
  BY <1>3 DEF QueueInv
<1>5. ASSUME NEW r \in Pool
      PROVE  /\ \A i \in 1 .. Len(users'[r]) : at'[users'[r][i]][r] = "queued"
             /\ \A i, j \in 1 .. Len(users'[r]) : users'[r][i] = users'[r][j] => i = j
  <2>1. CASE r = p
    <3>1. \A i \in 1 .. Len(Tail(q)) : Tail(q)[i] # c /\ Tail(q)[i] \in Conn
      BY <1>2, <1>3 DEF QueueInv
    <3>2. \A i \in 1 .. Len(Tail(q)) : at[Tail(q)[i]][p] = "queued"
      BY <1>3 DEF QueueInv
    <3>3. \A i, j \in 1 .. Len(Tail(q)) : Tail(q)[i] = Tail(q)[j] => i = j
      <4> SUFFICES ASSUME NEW i \in 1 .. Len(Tail(q)), NEW j \in 1 .. Len(Tail(q)),
                          Tail(q)[i] = Tail(q)[j]
                   PROVE  i = j
        OBVIOUS
      <4>1. q[i + 1] = q[j + 1] /\ i + 1 \in 1 .. Len(q) /\ j + 1 \in 1 .. Len(q)
        BY <1>3
      <4>2. i + 1 = j + 1
        BY <4>1 DEF QueueInv
      <4>3. i \in Int /\ j \in Int
        BY <1>3
      <4> HIDE DEF q
      <4> QED BY <4>2, <4>3
    <3>4. \A i \in 1 .. Len(Tail(q)) : at'[Tail(q)[i]][p] = "queued"
      BY <1>1, <3>1, <3>2
    <3>5. users'[r] = Tail(q)
      BY <1>1, <2>1
    <3> HIDE DEF q
    <3> QED BY <2>1, <3>3, <3>4, <3>5
  <2>2. CASE r # p
    <3>1. users'[r] = users[r] /\ \A i \in 1 .. Len(users[r]) : users[r][i] \in Conn
      BY <1>1, <2>2 DEF TypeOK
    <3> QED BY <1>1, <2>2, <3>1 DEF QueueInv
  <2> QED BY <2>1, <2>2
<1>6. accepted # None => at'[accepted]["login"] = "queued" /\ ~Waiting("login", accepted)'
  <2> SUFFICES ASSUME accepted # None
               PROVE  at'[accepted]["login"] = "queued" /\ ~Waiting("login", accepted)'
    OBVIOUS
  <2>1. accepted \in Conn /\ at[accepted]["login"] = "queued" /\ ~Waiting("login", accepted)
    BY DEF TypeOK, QueueInv
  <2>2. "login" \in Pool
    BY DEF Pool
  <2>3. CASE p = "login"
    <3>1. accepted # c
      BY <1>3, <2>1, <2>3 DEF Waiting
    <3>2. \A i \in 1 .. Len(Tail(q)) : Tail(q)[i] # accepted
      BY <1>3, <2>1, <2>3 DEF Waiting
    <3> QED BY <1>1, <2>1, <2>2, <2>3, <3>1, <3>2 DEF Waiting
  <2>4. CASE p # "login"
    BY <1>1, <2>1, <2>2, <2>4 DEF Waiting
  <2> QED BY <2>3, <2>4
<1>7. PoolInv'
  <2> SUFFICES ASSUME NEW r \in Pool PROVE Len(users'[r]) <= MaxClients /\ BusyIn(at', r) <= Threads(r)
    BY DEF PoolInv
  <2>1. /\ BusyIn(at, r) \in Nat /\ BusyIn(at', r) \in Nat
        /\ Threads(r) \in Nat /\ MaxClients \in Nat
        /\ Len(users[r]) <= MaxClients /\ BusyIn(at, r) <= Threads(r)
    BY BusyCounts, ThreadsTyped, SizeAssumption DEF PoolInv
  <2>2. CASE r = p
    <3>1. BusyIn(at', p) <= BusyIn(at, p) + 1
      BY <1>1, BusyGrowsByOne
    <3>2. BusyIn(at, p) < Threads(p)
      BY <1>1 DEF Busy, BusyIn
    <3>3. Len(users'[p]) <= MaxClients
      BY <1>1, <1>3, <2>1, <2>2
    <3> QED BY <2>1, <2>2, <3>1, <3>2, <3>3
  <2>3. CASE r # p
    <3>1. BusyIn(at', r) <= BusyIn(at, r)
      BY <1>1, <2>3, BusyShrinks
    <3> QED BY <1>1, <2>1, <2>3, <3>1
  <2> QED BY <2>2, <2>3
<1> QED BY <1>4, <1>5, <1>6, <1>7 DEF QueueInv

LEMMA QueueHands ==
  ASSUME TypeOK, QueueInv, PoolInv, UNCHANGED accepted,
         NEW c \in Conn, NEW from \in Pool, NEW p \in Pool, from # p, p # "login",
         NEW s \in Stage, Hands(c, from, s, p),
         BusyAt(at[c][from]), at[c][p] # "queued"
  PROVE  QueueInv' /\ PoolInv'
<1> DEFINE q == users[p]
<1>1. /\ \A d \in Conn, r \in Pool :
           at'[d][r] = IF d = c /\ r = from THEN s
                       ELSE IF d = c /\ r = p THEN "queued" ELSE at[d][r]
      /\ users'[p] = Append(q, c)
      /\ \A r \in Pool \ {p} : users'[r] = users[r]
      /\ Len(q) < MaxClients
  BY HandsTo
<1>2. q \in Seq(Conn) /\ \A i \in 1 .. Len(q) : at[q[i]][p] = "queued"
  BY DEF TypeOK, QueueInv
<1>3. /\ Len(q) \in Nat /\ Len(Append(q, c)) = Len(q) + 1
      /\ \A i \in 1 .. Len(q) : Append(q, c)[i] = q[i] /\ q[i] \in Conn /\ q[i] # c
      /\ Append(q, c)[Len(q) + 1] = c
  BY <1>2
<1>4. ASSUME NEW r \in Pool
      PROVE  /\ \A i \in 1 .. Len(users'[r]) : at'[users'[r][i]][r] = "queued"
             /\ \A i, j \in 1 .. Len(users'[r]) : users'[r][i] = users'[r][j] => i = j
  <2>1. CASE r = p
    <3>1. \A i \in 1 .. Len(q) + 1 : i \in 1 .. Len(q) \/ i = Len(q) + 1
      BY <1>3
    <3>2. \A i, j \in 1 .. Len(q) : q[i] = q[j] => i = j
      BY DEF QueueInv
    <3> HIDE DEF q
    <3> QED BY <1>1, <1>2, <1>3, <2>1, <3>1, <3>2, SMTT(30)
  <2>2. CASE r # p
    <3>1. users'[r] = users[r]
      BY <1>1, <2>2
    <3>2. \A i \in 1 .. Len(users[r]) : users[r][i] \in Conn
      <4>1. users[r] \in Seq(Conn)
        BY DEF TypeOK
      <4> QED BY <4>1
    <3>3. \A i \in 1 .. Len(users[r]) : at[users[r][i]][r] = "queued"
      BY DEF QueueInv
    <3>4. \A i, j \in 1 .. Len(users[r]) : users[r][i] = users[r][j] => i = j
      BY DEF QueueInv
    <3>5. \A d \in Conn : at[d][r] = "queued" => at'[d][r] = "queued"
      BY <1>1, <2>2 DEF BusyAt
    <3> QED BY <3>1, <3>2, <3>3, <3>4, <3>5
  <2> QED BY <2>1, <2>2
<1>5. accepted # None => at'[accepted]["login"] = "queued" /\ ~Waiting("login", accepted)'
  <2>1. "login" \in Pool /\ users'["login"] = users["login"]
    BY <1>1 DEF Pool
  <2>2. accepted # None => accepted \in Conn
    BY DEF TypeOK
  <2> QED BY <1>1, <2>1, <2>2 DEF QueueInv, Waiting, BusyAt
<1>6. PoolInv'
  <2> SUFFICES ASSUME NEW r \in Pool PROVE Len(users'[r]) <= MaxClients /\ BusyIn(at', r) <= Threads(r)
    BY DEF PoolInv
  <2>1. /\ BusyIn(at, r) \in Nat /\ BusyIn(at', r) \in Nat
        /\ Threads(r) \in Nat /\ MaxClients \in Nat
        /\ Len(users[r]) <= MaxClients /\ BusyIn(at, r) <= Threads(r)
    BY BusyCounts, ThreadsTyped, SizeAssumption DEF PoolInv
  <2>2. BusyIn(at', r) <= BusyIn(at, r)
    <3>1. \A d \in Conn : BusyAt(at'[d][r]) => BusyAt(at[d][r])
      BY <1>1 DEF BusyAt
    <3> QED BY <3>1, BusyShrinks
  <2>3. Len(users'[r]) <= MaxClients
    <3>1. CASE r = p
      BY <1>1, <1>3, <2>1, <3>1
    <3>2. CASE r # p
      BY <1>1, <2>1, <3>2
    <3> QED BY <3>1, <3>2
  <2> QED BY <2>1, <2>2, <2>3
<1> QED BY <1>4, <1>5, <1>6 DEF QueueInv

-----------------------------------------------------------------------------
(* The spots.  A user past the wait has the entry of its nickname.         *)
LEMMA SpotsStay ==
  ASSUME SpotInv, \A c \in Conn : PastWait(c)' => PastWait(c)
  PROVE  SpotInv'
<1> DEFINE A == {c \in Conn : PastWait(c)'}
           B == {c \in Conn : PastWait(c)}
<1>1. IsFiniteSet(B) /\ A \in SUBSET B
  BY ConnAssumption, FS_Subset
<1>2. IsFiniteSet(A) /\ Cardinality(A) <= Cardinality(B)
  BY <1>1, FS_Subset
<1>3. Cardinality(A) \in Nat /\ Cardinality(B) \in Nat /\ MaxClients \in Nat
  BY <1>1, <1>2, FS_CardinalityType, SizeAssumption
<1> QED BY <1>2, <1>3 DEF SpotInv

(* Whoever passes the wait has counted the users and found a spot.          *)
LEMMA SpotFound ==
  ASSUME NEW table \in [Nick -> Conn \cup {None}],
         Cardinality(UsersOnline(table)) < MaxClients,
         \A c \in Conn : PastWait(c)' => table[NickOf[c]] = c
  PROVE  SpotInv'
<1> DEFINE A == {c \in Conn : PastWait(c)'}
<1>1. UsersOnline(table) \in SUBSET Conn /\ IsFiniteSet(UsersOnline(table))
  BY OnlineTyped, ConnAssumption, FS_Subset
<1>2. A \in SUBSET UsersOnline(table)
  BY ConnAssumption, NickAssumption DEF UsersOnline
<1>3. IsFiniteSet(A) /\ Cardinality(A) <= Cardinality(UsersOnline(table))
  BY <1>1, <1>2, FS_Subset
<1>4. Cardinality(A) \in Nat /\ Cardinality(UsersOnline(table)) \in Nat /\ MaxClients \in Nat
  BY <1>1, <1>3, FS_CardinalityType, SizeAssumption
<1> QED BY <1>3, <1>4 DEF SpotInv

-----------------------------------------------------------------------------
(* What else a step may leave alone.                                       *)
LEMMA OwnersStay ==
  ASSUME OwnerInv, UNCHANGED << online, inbox >>,
         \A c \in Conn : InService(c)' => InService(c),
         \A c \in Conn : at'[c]["logout"] = at[c]["logout"]
  PROVE  OwnerInv'
BY DEF OwnerInv

LEMMA SectionStays ==
  ASSUME TypeOK, SectionInv, section' = section \/ ~Broadcasting', UNCHANGED online,
         \A c \in Conn : at[c]["login"] = "announcing" => at'[c]["login"] = "announcing",
         \A c \in Conn : at[c]["send"] = "telling" => at'[c]["send"] = "telling",
         \A c \in Conn : at[c]["logout"] = "telling" => at'[c]["logout"] = "telling"
  PROVE  SectionInv'
<1>1. section # None => section.who \in Conn
  BY DEF TypeOK, Holding
<1>2. CASE section' = section
  BY <1>1, <1>2 DEF SectionInv, HeldBy
<1>3. CASE ~Broadcasting'
  BY <1>3 DEF SectionInv, Broadcasting
<1> QED BY <1>2, <1>3

(* What is written with m_users held tells nobody anything.                *)
LEMMA NobodyTold ==
  ASSUME NEW c, \/ section' = None
                \/ \E role \in {"refusal", "denial"} : section' = Section(role, c, None, {})
  PROVE  ~Broadcasting'
BY DEF Broadcasting, HeldBy, Section

LEMMA NoSection == ASSUME section' = None PROVE SectionInv'
BY DEF SectionInv, HeldBy

LEMMA SizesStay == ASSUME SizeInv, UNCHANGED << inbox, lastMessages >> PROVE SizeInv'
BY DEF SizeInv

(* A thread goes on with the connection it serves, outside of the critical *)
(* section and of the wait.                                                *)
LEMMA GoesOn ==
  ASSUME IInv, NEW c \in Conn, NEW p \in Pool, NEW s \in Stage, Goes(c, p, s),
         UNCHANGED << accepted, users, online >>, section' = section \/ ~Broadcasting',
         BusyAt(at[c][p]), at[c][p] \notin {"announcing", "telling"},
         at[c][p] \in {"asleep", "woken"} => s \in {"asleep", "woken"}
  PROVE  QueueInv' /\ PoolInv' /\ SectionInv' /\ SpotInv'
<1>1. \A d \in Conn, q \in Pool : at'[d][q] = IF d = c /\ q = p THEN s ELSE at[d][q]
  BY GoesTo DEF IInv
<1>2. QueueInv' /\ PoolInv'
  BY <1>1, QueuesStay DEF IInv, BusyAt
<1>3. {"login", "send", "logout"} \subseteq Pool
  BY DEF Pool
<1>4. SectionInv'
  BY <1>1, <1>3, SectionStays DEF IInv
<1>5. \A d \in Conn : PastWait(d)' => PastWait(d)
  BY <1>1, <1>3 DEF PastWait
<1> QED BY <1>2, <1>4, <1>5, SpotsStay DEF IInv

LEMMA PoolsDiffer ==
  /\ {"login", "send", "receive", "logout"} \subseteq Pool
  /\ {"none", "queued", "over", "hello", "correcting", "checking", "refusing", "asleep",
      "woken", "announcing", "welcoming", "listing", "history", "ending", "to_send",
      "to_receive", "reading", "executing", "denying", "answering", "telling",
      "archiving", "leaving", "serving", "sending", "closed"} \subseteq Stage
BY DEF Pool, Stage

-----------------------------------------------------------------------------
(* The steps of main.                                                      *)
LEMMA AcceptsKeeps == ASSUME IInv, NEW c \in Conn, Accepts(c) PROVE IInv'
<1>1. \A d \in Conn, q \in Pool : at'[d][q] = IF d = c /\ q = "login" THEN "queued" ELSE at[d][q]
  <2>1. TypeOK /\ Goes(c, "login", "queued")
    BY DEF Accepts, IInv
  <2>2. "login" \in Pool /\ "queued" \in Stage
    BY PoolsDiffer
  <2> QED BY <2>1, <2>2, GoesTo
<1>2. at[c]["login"] = "none" /\ accepted = None /\ accepted' = c
  BY DEF Accepts
<1>3. UNCHANGED << users, section, online, inbox, lastMessages >>
  BY DEF Accepts
<1>4. \A p \in Pool : \A i \in 1 .. Len(users[p]) : users[p][i] \in Conn
  BY DEF IInv, TypeOK
<1>5. QueueInv'
  <2>1. \A p \in Pool : \A i \in 1 .. Len(users[p]) : at'[users[p][i]][p] = "queued"
    BY <1>1, <1>4 DEF IInv, QueueInv
  <2>2. ~Waiting("login", c)
    BY <1>2, PoolsDiffer DEF IInv, QueueInv, Waiting
  <2> QED BY <1>1, <1>2, <1>3, <2>1, <2>2, PoolsDiffer DEF IInv, QueueInv, Waiting
<1>6. PoolInv'
  <2>1. ASSUME NEW p \in Pool PROVE BusyIn(at', p) <= Threads(p)
    <3>1. BusyIn(at', p) <= BusyIn(at, p)
      BY <1>1, BusyShrinks DEF BusyAt
    <3> QED BY <3>1, BusyCounts, ThreadsTyped DEF IInv, PoolInv
  <2> QED BY <1>3, <2>1 DEF IInv, PoolInv
<1>7. SessionInv'
  <2>1. OrderInv'
    BY <1>1, <1>2, PoolsDiffer DEF IInv, SessionInv, OrderInv
  <2>2. OwnerInv'
    BY <1>1, <1>2, <1>3, PoolsDiffer, OwnersStay DEF IInv, SessionInv, InService
  <2> QED BY <2>1, <2>2 DEF SessionInv
<1>8. SectionInv'
  BY <1>1, <1>2, <1>3, PoolsDiffer, SectionStays DEF IInv
<1>9. SpotInv'
  <2>1. \A d \in Conn : PastWait(d)' => PastWait(d)
    BY <1>1, <1>2, <1>3, PoolsDiffer DEF PastWait
  <2> QED BY <2>1, SpotsStay DEF IInv
<1>10. TypeOK'
  BY TypeMain DEF IInv
<1> QED BY <1>3, <1>5, <1>6, <1>7, <1>8, <1>9, <1>10, SizesStay DEF IInv

LEMMA QueuesAcceptedKeeps == ASSUME IInv, QueuesAccepted PROVE IInv'
<1>1. UNCHANGED << at, online, inbox, lastMessages >> /\ accepted \in Conn
  BY DEF QueuesAccepted, IInv, TypeOK
<1>2. SessionInv' /\ SizeInv' /\ SpotInv'
  BY <1>1 DEF IInv, SessionInv, OrderInv, OwnerInv, InService, SizeInv, SpotInv, PastWait
<1>3. SectionInv'
  BY DEF QueuesAccepted, SectionInv, HeldBy, Section
<1>4. QueueInv' /\ PoolInv'
  <2>1. CASE UNCHANGED << accepted, users >>
    BY <1>1, <2>1 DEF IInv, QueueInv, PoolInv, Waiting, BusyIn
  <2>2. CASE /\ Len(users["login"]) < MaxClients /\ accepted' = None
             /\ users' = [users EXCEPT !["login"] = Append(users["login"], accepted)]
    <3> DEFINE q == users["login"]
    <3>1. users'["login"] = Append(q, accepted) /\ \A p \in Pool \ {"login"} : users'[p] = users[p]
      BY <2>2, PoolsDiffer DEF IInv, TypeOK
    <3>2. /\ q \in Seq(Conn) /\ Len(q) < MaxClients
          /\ at[accepted]["login"] = "queued" /\ \A i \in 1 .. Len(q) : q[i] # accepted
          /\ \A i, j \in 1 .. Len(q) : q[i] = q[j] => i = j
          /\ \A i \in 1 .. Len(q) : at[q[i]]["login"] = "queued"
      BY <1>1, <2>2, PoolsDiffer DEF IInv, QueueInv, Waiting, QueuesAccepted, TypeOK
    <3> HIDE DEF q
    <3>3. /\ Len(q) \in Nat /\ Len(Append(q, accepted)) = Len(q) + 1
          /\ \A i \in 1 .. Len(q) : Append(q, accepted)[i] = q[i]
          /\ Append(q, accepted)[Len(q) + 1] = accepted
      BY <1>1, <3>2
    <3>4. \A i \in 1 .. Len(q) + 1 : i \in 1 .. Len(q) \/ i = Len(q) + 1
      BY <3>3
    <3>5. /\ \A i \in 1 .. Len(users'["login"]) : at[users'["login"][i]]["login"] = "queued"
          /\ \A i, j \in 1 .. Len(users'["login"]) : users'["login"][i] = users'["login"][j] => i = j
      BY <3>1, <3>2, <3>3, <3>4
    <3>6. QueueInv'
      BY <1>1, <2>2, <3>1, <3>5 DEF IInv, QueueInv
    <3>7. PoolInv'
      <4>1. Len(users'["login"]) <= MaxClients
        BY <3>1, <3>2, <3>3, SizeAssumption
      <4> QED BY <1>1, <3>1, <4>1 DEF IInv, PoolInv, BusyIn
    <3> QED BY <3>6, <3>7
  <2> QED BY <2>1, <2>2 DEF QueuesAccepted
<1> QED BY <1>2, <1>3, <1>4, TypeMain DEF IInv

-----------------------------------------------------------------------------
(* The steps of the login threads.                                         *)
LEMMA TakesConnectionKeeps == ASSUME IInv, NEW c \in Conn, TakesConnection(c) PROVE IInv'
<1>1. Takes(c, "login", "hello") /\ "login" \in Pool /\ "hello" \in Stage /\ TypeOK
  BY PoolsDiffer DEF TakesConnection, IInv
<1>2. UNCHANGED << accepted, section, online, inbox, lastMessages >>
  BY DEF TakesConnection
<1>3. \A d \in Conn, q \in Pool : at'[d][q] = IF d = c /\ q = "login" THEN "hello" ELSE at[d][q]
  BY <1>1, TakesTo
<1>4. QueueInv' /\ PoolInv' /\ at[c]["login"] = "queued"
  BY <1>1, <1>2, QueueTakes DEF IInv
<1>5. OrderInv'
  BY <1>3, <1>4, PoolsDiffer DEF IInv, SessionInv, OrderInv
<1>6. OwnerInv'
  BY <1>2, <1>3, <1>4, PoolsDiffer, OwnersStay DEF IInv, SessionInv, InService
<1>7. SectionInv'
  BY <1>2, <1>3, <1>4, PoolsDiffer, SectionStays DEF IInv
<1>8. SpotInv'
  <2>1. \A d \in Conn : PastWait(d)' => PastWait(d)
    BY <1>2, <1>3, <1>4, PoolsDiffer DEF PastWait
  <2> QED BY <2>1, SpotsStay DEF IInv
<1>9. TypeOK' /\ SizeInv'
  BY <1>2, TypeLogin, SizesStay DEF IInv, LoginRuns
<1> QED BY <1>4, <1>5, <1>6, <1>7, <1>8, <1>9 DEF IInv, SessionInv

(* The steps of a login thread outside of the critical section.            *)
LEMMA LoginGoesOn ==
  ASSUME IInv, NEW c \in Conn, NEW s \in Stage, Goes(c, "login", s),
         UNCHANGED << accepted, users, online, inbox, lastMessages >>,
         section' = section \/ ~Broadcasting',
         \/ /\ at[c]["login"] \in {"hello", "correcting", "checking", "refusing"}
            /\ s \in {"correcting", "checking", "refusing", "over"}
         \/ at[c]["login"] \in {"asleep", "woken"} /\ s \in {"asleep", "woken"}
         \/ /\ at[c]["login"] \in {"welcoming", "listing", "history", "ending"}
            /\ s \in {"listing", "history", "ending", "to_send", "over"}
  PROVE  QueueInv' /\ SessionInv' /\ SectionInv' /\ PoolInv' /\ SpotInv' /\ SizeInv'
<1>1. TypeOK /\ "login" \in Pool
  BY PoolsDiffer DEF IInv
<1>2. \A d \in Conn, q \in Pool : at'[d][q] = IF d = c /\ q = "login" THEN s ELSE at[d][q]
  BY <1>1, LoginGoesTo
<1>3. QueueInv' /\ PoolInv' /\ SectionInv' /\ SpotInv'
  BY <1>1, GoesOn DEF BusyAt
<1>4. OrderInv'
  BY <1>2, PoolsDiffer DEF IInv, SessionInv, OrderInv
<1>5. OwnerInv'
  <2>1. \A d \in Conn : InService(d)' => InService(d)
    BY <1>2, PoolsDiffer DEF InService
  <2>2. \A d \in Conn : at'[d]["logout"] = at[d]["logout"]
    BY <1>2, PoolsDiffer
  <2> QED BY <2>1, <2>2, OwnersStay DEF IInv, SessionInv
<1> QED BY <1>3, <1>4, <1>5, SizesStay DEF IInv, SessionInv

(* The predicate of the wait, evaluated on the table with the new user.     *)
LEMMA WaitsKeeps ==
  ASSUME IInv, NEW c \in Conn, UNCHANGED << accepted, users, inbox, lastMessages >>,
         Unlocked, at[c]["login"] \in {"checking", "woken"},
         online' \in [Nick -> Conn \cup {None}], online'[NickOf[c]] = c, OwnerInv',
         \A d \in Conn : online'[NickOf[d]] = d => d = c \/ online[NickOf[d]] = d,
         Waits(c, online')
  PROVE  QueueInv' /\ OrderInv' /\ SectionInv' /\ PoolInv' /\ SpotInv' /\ SizeInv'
<1>1. TypeOK /\ "login" \in Pool /\ {"announcing", "asleep"} \subseteq Stage
  BY PoolsDiffer DEF IInv
<1>2. PICK s \in {"announcing", "asleep"} : Goes(c, "login", s)
  BY DEF Waits
<1>3. \A d \in Conn, q \in Pool : at'[d][q] = IF d = c /\ q = "login" THEN s ELSE at[d][q]
  BY <1>1, <1>2, GoesTo
<1>4. QueueInv' /\ PoolInv'
  BY <1>3, QueuesStay DEF IInv, BusyAt
<1>5. OrderInv'
  BY <1>3, PoolsDiffer DEF IInv, SessionInv, OrderInv
<1>6. CASE Cardinality(UsersOnline(online')) < MaxClients
  <2>1. /\ section' = Section("login", c, Notice("login", NickOf[c]), UsersOnline(online') \ {c})
        /\ Goes(c, "login", "announcing")
    BY <1>6 DEF Waits
  <2>2. at'[c]["login"] = "announcing"
    BY <1>1, <2>1, GoesTo
  <2>3. SectionInv'
    BY <2>1, <2>2 DEF SectionInv, HeldBy, Section
  <2>4. SpotInv'
    BY <1>6, SpotFound DEF PastWait
  <2> QED BY <1>4, <1>5, <2>3, <2>4, SizesStay DEF IInv
<1>7. CASE ~(Cardinality(UsersOnline(online')) < MaxClients)
  <2>1. section' = section /\ Goes(c, "login", "asleep")
    BY <1>7 DEF Waits
  <2>2. at'[c]["login"] = "asleep"
    BY <1>1, <2>1, GoesTo
  <2>3. SectionInv'
    BY <2>1, NoSection DEF Unlocked
  <2>4. \A d \in Conn : PastWait(d)' => PastWait(d)
    BY <1>3, <2>2, PoolsDiffer DEF PastWait
  <2> QED BY <1>4, <1>5, <2>3, <2>4, SpotsStay, SizesStay DEF IInv
<1> QED BY <1>6, <1>7

LEMMA ChecksNicknameKeeps == ASSUME IInv, NEW c \in Conn, ChecksNickname(c) PROVE IInv'
<1>1. /\ TypeOK /\ Unlocked /\ at[c]["login"] = "checking"
      /\ UNCHANGED << accepted, users, inbox, lastMessages >>
  BY DEF ChecksNickname, IInv
<1>2. TypeOK'
  BY TypeLogin DEF IInv, LoginRuns
<1>3. CASE Refused(c)
  <2>1. /\ UNCHANGED online /\ Goes(c, "login", "refusing")
        /\ section' = Section("refusal", c, None, {})
    BY <1>3 DEF ChecksNickname
  <2>2. ~Broadcasting'
    BY <2>1, NobodyTold
  <2> QED BY <1>1, <1>2, <2>1, <2>2, PoolsDiffer, LoginGoesOn DEF IInv
<1>4. CASE ~Refused(c)
  <2>1. online' = [online EXCEPT ![NickOf[c]] = c] /\ Waits(c, online')
    BY <1>4 DEF ChecksNickname
  <2>2. online[NickOf[c]] = None /\ NickOf[c] \in Nick
    BY <1>4, NickAssumption DEF Refused
  <2>3. /\ online' \in [Nick -> Conn \cup {None}] /\ online'[NickOf[c]] = c
        /\ \A n \in Nick \ {NickOf[c]} : online'[n] = online[n]
    BY <1>1, <2>1, <2>2 DEF TypeOK
  <2>4. \A d \in Conn : online'[NickOf[d]] = d => d = c \/ online[NickOf[d]] = d
    BY <2>2, <2>3, NickAssumption
  <2>5. \A d \in Conn : d # c /\ online[NickOf[d]] = d => online'[NickOf[d]] = d
    BY <2>2, <2>3, NickAssumption, ConnAssumption
  <2>6. PICK s \in {"announcing", "asleep"} : Goes(c, "login", s)
    BY <2>1 DEF Waits
  <2>7. \A d \in Conn, q \in Pool : at'[d][q] = IF d = c /\ q = "login" THEN s ELSE at[d][q]
    <3>1. s \in Stage
      BY DEF Stage
    <3> QED BY <1>1, <2>6, <3>1, LoginGoesTo
  <2>8. OwnerInv'
    <3>1. \A n \in Nick : online'[n] # None => NickOf[online'[n]] = n
      BY <2>3 DEF IInv, SessionInv, OwnerInv
    <3>2. \A d \in Conn : InService(d)' => online'[NickOf[d]] = d
      <4>1. \A d \in Conn \ {c} : InService(d)' => InService(d)
        BY <2>7, PoolsDiffer DEF InService
      <4> QED BY <2>3, <2>5, <4>1 DEF IInv, SessionInv, OwnerInv
    <3>3. at[c]["logout"] = "none"
      <4>1. at[c]["send"] = "none"
        BY <1>1 DEF IInv, SessionInv, OrderInv
      <4> QED BY <4>1 DEF IInv, SessionInv, OrderInv
    <3>4. \A d \in Conn : at'[d]["logout"] = at[d]["logout"]
      BY <2>7, PoolsDiffer
    <3>5. \A d \in Conn : at[d]["logout"] \in {"telling", "leaving", "over"} => online'[NickOf[d]] # d
      BY <2>4, <3>3 DEF IInv, SessionInv, OwnerInv
    <3>6. \A d \in Conn : inbox'[d].closed => at'[d]["logout"] \notin {"none", "queued"}
      BY <1>1, <3>4 DEF IInv, SessionInv, OwnerInv
    <3> QED BY <3>1, <3>2, <3>4, <3>5, <3>6 DEF OwnerInv
  <2> QED BY <1>1, <1>2, <2>1, <2>3, <2>4, <2>8, WaitsKeeps DEF IInv, SessionInv
<1> QED BY <1>3, <1>4

LEMMA WakesUpKeeps == ASSUME IInv, NEW c \in Conn, WakesUp(c) PROVE IInv'
<1>1. /\ TypeOK /\ Unlocked /\ at[c]["login"] = "woken" /\ Waits(c, online)
      /\ UNCHANGED << accepted, users, online, inbox, lastMessages >>
  BY DEF WakesUp, IInv
<1>2. TypeOK'
  BY TypeLogin DEF IInv, LoginRuns
<1>3. online'[NickOf[c]] = c /\ online' \in [Nick -> Conn \cup {None}] /\ Waits(c, online')
  <2>1. InService(c)
    BY <1>1 DEF InService
  <2> QED BY <1>1, <2>1 DEF IInv, SessionInv, OwnerInv, TypeOK
<1>4. OwnerInv'
  <2>1. PICK s \in {"announcing", "asleep"} : Goes(c, "login", s)
    BY <1>1 DEF Waits
  <2>2. \A d \in Conn, q \in Pool : at'[d][q] = IF d = c /\ q = "login" THEN s ELSE at[d][q]
    <3>1. s \in Stage
      BY DEF Stage
    <3> QED BY <1>1, <2>1, <3>1, LoginGoesTo
  <2>3. \A d \in Conn : InService(d)' => InService(d)
    BY <1>1, <2>2, PoolsDiffer DEF InService
  <2>4. \A d \in Conn : at'[d]["logout"] = at[d]["logout"]
    BY <2>2, PoolsDiffer
  <2> QED BY <1>1, <2>3, <2>4, OwnersStay DEF IInv, SessionInv
<1> QED BY <1>1, <1>2, <1>3, <1>4, WaitsKeeps DEF IInv, SessionInv

LEMMA SpuriousWakeupKeeps == ASSUME IInv, NEW c \in Conn, SpuriousWakeup(c) PROVE IInv'
<1>1. Goes(c, "login", "woken") /\ at[c]["login"] = "asleep" /\ "woken" \in Stage
  BY PoolsDiffer DEF SpuriousWakeup
<1>2. UNCHANGED << accepted, users, section, online, inbox, lastMessages >>
  BY DEF SpuriousWakeup
<1> QED BY <1>1, <1>2, LoginGoesOn, TypeLogin DEF IInv

LEMMA ReceivesNicknameKeeps == ASSUME IInv, NEW c \in Conn, ReceivesNickname(c) PROVE IInv'
<1>1. at[c]["login"] = "hello" /\ {"correcting", "checking", "over"} \subseteq Stage
  BY PoolsDiffer DEF ReceivesNickname
<1>2. Goes(c, "login", "checking") \/ Goes(c, "login", "correcting") \/ Goes(c, "login", "over")
  BY DEF ReceivesNickname
<1>3. UNCHANGED << accepted, users, section, online, inbox, lastMessages >>
  BY DEF ReceivesNickname
<1> QED BY <1>1, <1>2, <1>3, LoginGoesOn, TypeLogin DEF IInv, LoginRuns

LEMMA CorrectsKeeps == ASSUME IInv, NEW c \in Conn, Corrects(c) PROVE IInv'
<1>1. at[c]["login"] = "correcting" /\ {"checking", "over"} \subseteq Stage
  BY PoolsDiffer DEF Corrects
<1>2. Goes(c, "login", "checking") \/ Goes(c, "login", "over")
  BY DEF Corrects, Written
<1>3. UNCHANGED << accepted, users, section, online, inbox, lastMessages >>
  BY DEF Corrects
<1> QED BY <1>1, <1>2, <1>3, LoginGoesOn, TypeLogin DEF IInv, LoginRuns

LEMMA RefusesKeeps == ASSUME IInv, NEW c \in Conn, Refuses(c) PROVE IInv'
<1>1. at[c]["login"] = "refusing" /\ "over" \in Stage /\ Goes(c, "login", "over")
  BY PoolsDiffer DEF Refuses, Written
<1>2. UNCHANGED << accepted, users, online, inbox, lastMessages >> /\ ~Broadcasting'
  BY NobodyTold DEF Refuses
<1> QED BY <1>1, <1>2, LoginGoesOn, TypeLogin DEF IInv, LoginRuns

LEMMA WelcomesKeeps == ASSUME IInv, NEW c \in Conn, Welcomes(c) \/ Welcomed(c) PROVE IInv'
<1>1. /\ at[c]["login"] \in {"welcoming", "listing", "history", "ending"}
      /\ {"listing", "history", "ending", "to_send", "over"} \subseteq Stage
  BY PoolsDiffer DEF Welcomes, Welcomed
<1>2. \E s \in {"listing", "history", "ending", "to_send", "over"} : Goes(c, "login", s)
  BY DEF Welcomes, Welcomed, Written
<1>3. UNCHANGED << accepted, users, section, online, inbox, lastMessages >>
  BY DEF Welcomes, Welcomed
<1> QED BY <1>1, <1>2, <1>3, LoginGoesOn, TypeLogin DEF IInv, LoginRuns

LEMMA StartsServicesKeeps == ASSUME IInv, NEW c \in Conn, StartsServices(c) PROVE IInv'
<1>1. TypeOK /\ TypeOK' /\ UNCHANGED << accepted, section, online, inbox, lastMessages >>
  BY TypeLogin DEF StartsServices, IInv, LoginRuns
<1>2. {"login", "send", "receive", "logout"} \subseteq Pool /\ {"to_receive", "over"} \subseteq Stage
  BY PoolsDiffer
<1>3. CASE at[c]["login"] = "to_send" /\ Hands(c, "login", "to_receive", "send")
  <2>1. \A d \in Conn, q \in Pool :
          at'[d][q] = IF d = c /\ q = "login" THEN "to_receive"
                      ELSE IF d = c /\ q = "send" THEN "queued" ELSE at[d][q]
    BY <1>1, <1>2, <1>3, HandsTo
  <2>2. at[c]["send"] = "none" /\ at[c]["logout"] = "none" /\ at[c]["receive"] = "none"
    <3>1. at[c]["send"] = "none" /\ at[c]["receive"] = "none"
      BY <1>3 DEF IInv, SessionInv, OrderInv
    <3> QED BY <3>1 DEF IInv, SessionInv, OrderInv
  <2>3. QueueInv' /\ PoolInv'
    BY <1>1, <1>2, <1>3, <2>2, QueueHands DEF IInv, BusyAt
  <2>4. OrderInv'
    BY <1>2, <2>1, <2>2 DEF IInv, SessionInv, OrderInv
  <2>5. \A d \in Conn : InService(d)' => InService(d)
    BY <1>2, <1>3, <2>1 DEF InService
  <2>6. OwnerInv'
    <3>1. \A d \in Conn : at'[d]["logout"] = at[d]["logout"]
      BY <1>2, <2>1
    <3> QED BY <1>1, <2>5, <3>1, OwnersStay DEF IInv, SessionInv
  <2>8. SectionInv'
    <3>1. \A d \in Conn : at[d]["login"] = "announcing" => at'[d]["login"] = "announcing"
      BY <1>2, <1>3, <2>1
    <3>2. \A d \in Conn : at[d]["send"] = "telling" => at'[d]["send"] = "telling"
      BY <1>2, <2>1, <2>2
    <3>3. \A d \in Conn : at[d]["logout"] = "telling" => at'[d]["logout"] = "telling"
      BY <1>2, <2>1
    <3> QED BY <1>1, <3>1, <3>2, <3>3, SectionStays DEF IInv
  <2>7. \A d \in Conn : PastWait(d)' => PastWait(d)
    BY <1>1, <1>2, <1>3, <2>1 DEF PastWait
  <2> QED BY <1>1, <2>3, <2>4, <2>6, <2>7, <2>8, SpotsStay, SizesStay DEF IInv, SessionInv
<1>4. CASE at[c]["login"] = "to_receive" /\ Hands(c, "login", "over", "receive")
  <2>1. \A d \in Conn, q \in Pool :
          at'[d][q] = IF d = c /\ q = "login" THEN "over"
                      ELSE IF d = c /\ q = "receive" THEN "queued" ELSE at[d][q]
    BY <1>1, <1>2, <1>4, HandsTo
  <2>2. at[c]["receive"] = "none" /\ at[c]["send"] # "none"
    BY <1>4 DEF IInv, SessionInv, OrderInv
  <2>3. QueueInv' /\ PoolInv'
    BY <1>1, <1>2, <1>4, <2>2, QueueHands DEF IInv, BusyAt
  <2>4. OrderInv'
    BY <1>2, <2>1, <2>2 DEF IInv, SessionInv, OrderInv
  <2>5. \A d \in Conn : InService(d)' => InService(d)
    BY <1>2, <1>4, <2>1 DEF InService
  <2>6. OwnerInv'
    <3>1. \A d \in Conn : at'[d]["logout"] = at[d]["logout"]
      BY <1>2, <2>1
    <3> QED BY <1>1, <2>5, <3>1, OwnersStay DEF IInv, SessionInv
  <2>8. SectionInv'
    <3>1. \A d \in Conn : at[d]["login"] = "announcing" => at'[d]["login"] = "announcing"
      BY <1>2, <1>4, <2>1
    <3>2. \A d \in Conn : at[d]["send"] = "telling" => at'[d]["send"] = "telling"
      BY <1>2, <2>1, <2>2
    <3>3. \A d \in Conn : at[d]["logout"] = "telling" => at'[d]["logout"] = "telling"
      BY <1>2, <2>1
    <3> QED BY <1>1, <3>1, <3>2, <3>3, SectionStays DEF IInv
  <2>7. \A d \in Conn : PastWait(d)' => PastWait(d)
    BY <1>1, <1>2, <1>4, <2>1 DEF PastWait
  <2> QED BY <1>1, <2>3, <2>4, <2>6, <2>7, <2>8, SpotsStay, SizesStay DEF IInv, SessionInv
<1> QED BY <1>3, <1>4 DEF StartsServices

-----------------------------------------------------------------------------
(* The steps of the sender threads.                                        *)
LEMMA SendGoesTo ==
  ASSUME TypeOK, NEW c \in Conn, NEW s \in Stage, Goes(c, "send", s)
  PROVE  \A d \in Conn, q \in Pool :
           at'[d][q] = IF d = c /\ q = "send" THEN s ELSE at[d][q]
BY DEF TypeOK, Goes, Pool

(* A session goes on, in or outside of the critical section.                *)
LEMMA SessionGoesOn ==
  ASSUME IInv, NEW c \in Conn, NEW s \in Stage, Goes(c, "send", s),
         UNCHANGED << online, inbox >>,
         at[c]["send"] \notin {"none", "over"}, s \notin {"none", "queued", "over"}
  PROVE  SessionInv' /\ SpotInv'
<1>1. \A d \in Conn, q \in Pool : at'[d][q] = IF d = c /\ q = "send" THEN s ELSE at[d][q]
  BY SendGoesTo DEF IInv
<1>2. OrderInv'
  BY <1>1, PoolsDiffer DEF IInv, SessionInv, OrderInv
<1>3. OwnerInv'
  <2>1. \A d \in Conn : InService(d)' => InService(d)
    BY <1>1, PoolsDiffer DEF InService
  <2>2. \A d \in Conn : at'[d]["logout"] = at[d]["logout"]
    BY <1>1, PoolsDiffer
  <2> QED BY <2>1, <2>2, OwnersStay DEF IInv, SessionInv
<1>4. \A d \in Conn : PastWait(d)' => PastWait(d)
  BY <1>1, PoolsDiffer DEF PastWait
<1> QED BY <1>2, <1>3, <1>4, SpotsStay DEF IInv, SessionInv

LEMMA SenderGoesOn ==
  ASSUME IInv, NEW c \in Conn, NEW s \in Stage, Goes(c, "send", s),
         UNCHANGED << accepted, users, online, inbox >>,
         section' = section \/ ~Broadcasting',
         at[c]["send"] \in {"reading", "executing", "denying", "answering", "archiving"},
         s \notin {"none", "queued", "over"}
  PROVE  QueueInv' /\ SessionInv' /\ SectionInv' /\ PoolInv' /\ SpotInv'
<1>1. SessionInv' /\ SpotInv'
  BY SessionGoesOn
<1>2. \A d \in Conn, q \in Pool : at'[d][q] = IF d = c /\ q = "send" THEN s ELSE at[d][q]
  BY SendGoesTo DEF IInv
<1>3. QueueInv' /\ PoolInv'
  BY <1>2, QueuesStay DEF IInv, BusyAt
<1>4. SectionInv'
  BY <1>2, PoolsDiffer, SectionStays DEF IInv
<1> QED BY <1>1, <1>3, <1>4

LEMMA TakesToSendKeeps == ASSUME IInv, NEW c \in Conn, TakesToSend(c) PROVE IInv'
<1>1. Takes(c, "send", "reading") /\ "send" \in Pool /\ "reading" \in Stage /\ TypeOK
  BY PoolsDiffer DEF TakesToSend, IInv
<1>2. UNCHANGED << accepted, section, online, inbox, lastMessages >>
  BY DEF TakesToSend
<1>3. \A d \in Conn, q \in Pool : at'[d][q] = IF d = c /\ q = "send" THEN "reading" ELSE at[d][q]
  BY <1>1, TakesTo
<1>4. QueueInv' /\ PoolInv' /\ at[c]["send"] = "queued"
  BY <1>1, <1>2, QueueTakes DEF IInv
<1>5. Goes(c, "send", "reading")
  BY <1>1 DEF Takes
<1>6. SessionInv' /\ SpotInv'
  BY <1>1, <1>2, <1>4, <1>5, SessionGoesOn
<1>7. SectionInv'
  BY <1>2, <1>3, <1>4, PoolsDiffer, SectionStays DEF IInv
<1> QED BY <1>2, <1>4, <1>6, <1>7, TypeSender, SizesStay DEF IInv, SenderRuns

LEMMA ReadsKeeps ==
  ASSUME IInv, NEW c \in Conn, ReadsChat(c) \/ StopsReading(c) \/ ReadThrows(c)
  PROVE  IInv'
<1>1. TypeOK'
  BY TypeSender DEF IInv, SenderRuns
<1>2. UNCHANGED << accepted, users, section, online, inbox, lastMessages >>
  BY DEF ReadsChat, StopsReading, ReadThrows
<1>3. CASE ReadsChat(c) \/ StopsReading(c)
  <2>1. at[c]["send"] = "reading"
    BY <1>3 DEF ReadsChat, StopsReading
  <2>2. Goes(c, "send", "executing") \/ Goes(c, "send", "leaving") \/ Goes(c, "send", "answering")
    BY <1>3 DEF ReadsChat, StopsReading
  <2>3. {"executing", "leaving", "answering"} \subseteq Stage
    BY PoolsDiffer
  <2> QED BY <1>1, <1>2, <2>1, <2>2, <2>3, SenderGoesOn, SizesStay DEF IInv
<1>4. CASE ReadThrows(c)
  <2>1. at' = at
    BY <1>4 DEF ReadThrows
  <2> QED BY <1>1, <1>2, <2>1 DEF IInv, QueueInv, Waiting, SessionInv, OrderInv, OwnerInv, InService,
            SectionInv, HeldBy, PoolInv, SpotInv, PastWait, SizeInv
<1> QED BY <1>3, <1>4

(* A sender takes m_users and begins to tell.                               *)
LEMMA BeginsToTell ==
  ASSUME IInv, NEW c \in Conn, NEW m, NEW left, at[c]["send"] = "executing", Unlocked,
         Goes(c, "send", "telling"), section' = Section("send", c, m, left),
         UNCHANGED << accepted, users, online, inbox >>
  PROVE  QueueInv' /\ SessionInv' /\ SectionInv' /\ PoolInv' /\ SpotInv'
<1>1. TypeOK /\ "telling" \in Stage
  BY PoolsDiffer DEF IInv
<1>2. SessionInv' /\ SpotInv'
  BY <1>1, SessionGoesOn
<1>3. \A d \in Conn, q \in Pool : at'[d][q] = IF d = c /\ q = "send" THEN "telling" ELSE at[d][q]
  BY <1>1, SendGoesTo
<1>4. QueueInv' /\ PoolInv'
  BY <1>3, QueuesStay DEF IInv, BusyAt
<1>5. SectionInv'
  BY <1>3, PoolsDiffer DEF SectionInv, HeldBy, Section
<1> QED BY <1>2, <1>4, <1>5

LEMMA SendsKeeps ==
  ASSUME IInv, NEW c \in Conn, SendsPrivate(c) \/ SendsPublic(c)
  PROVE  IInv'
<1>1. TypeOK'
  BY TypeSender DEF IInv, SenderRuns
<1>2. /\ at[c]["send"] = "executing" /\ Unlocked
      /\ UNCHANGED << accepted, users, online, inbox, lastMessages >>
  BY DEF SendsPrivate, SendsPublic
<1>3. \/ section' = Section("denial", c, None, {}) /\ Goes(c, "send", "denying")
      \/ /\ \E m, left : section' = Section("send", c, m, left)
         /\ Goes(c, "send", "telling")
  BY DEF SendsPrivate, SendsPublic
<1>4. CASE section' = Section("denial", c, None, {}) /\ Goes(c, "send", "denying")
  <2>1. "denying" \in Stage /\ ~Broadcasting'
    BY <1>4, PoolsDiffer, NobodyTold
  <2> QED BY <1>1, <1>2, <1>4, <2>1, SenderGoesOn, SizesStay DEF IInv
<1>5. CASE (\E m, left : section' = Section("send", c, m, left)) /\ Goes(c, "send", "telling")
  BY <1>1, <1>2, <1>5, BeginsToTell, SizesStay DEF IInv
<1> QED BY <1>3, <1>4, <1>5

LEMMA AnsweredKeeps == ASSUME IInv, NEW c \in Conn, Answered(c) PROVE IInv'
<1>1. at[c]["send"] \in {"denying", "answering"} /\ {"reading", "leaving"} \subseteq Stage
  BY PoolsDiffer DEF Answered
<1>2. Goes(c, "send", "reading") \/ Goes(c, "send", "leaving")
  BY DEF Answered, Written
<1>3. UNCHANGED << accepted, users, online, inbox, lastMessages >>
  BY DEF Answered
<1>4. section' = section \/ ~Broadcasting'
  BY NobodyTold DEF Answered
<1> QED BY <1>1, <1>2, <1>3, <1>4, SenderGoesOn, TypeSender, SizesStay DEF IInv, SenderRuns

LEMMA ArchivesKeeps == ASSUME IInv, NEW c \in Conn, Archives(c) PROVE IInv'
<1>1. TypeOK'
  BY TypeSender DEF IInv, SenderRuns
<1>2. /\ at[c]["send"] = "archiving" /\ Goes(c, "send", "reading") /\ "reading" \in Stage
      /\ UNCHANGED << accepted, users, section, online, inbox >>
      /\ lastMessages' = Push(lastMessages, Chat("public_message", c))
  BY PoolsDiffer DEF Archives
<1>3. QueueInv' /\ SessionInv' /\ SectionInv' /\ PoolInv' /\ SpotInv'
  BY <1>2, SenderGoesOn
<1>4. Len(lastMessages') <= MaxMessages
  <2>1. lastMessages \in Seq(Msg) /\ Chat("public_message", c) \in Msg
    BY ChatTyped DEF IInv, TypeOK
  <2> QED BY <1>2, <2>1, PushKeepsSize DEF IInv, SizeInv
<1> QED BY <1>1, <1>2, <1>3, <1>4 DEF IInv, SizeInv

LEMMA StartsLogoutKeeps == ASSUME IInv, NEW c \in Conn, StartsLogout(c) PROVE IInv'
<1>1. TypeOK /\ TypeOK' /\ UNCHANGED << accepted, section, online, inbox, lastMessages >>
  BY TypeSender DEF StartsLogout, IInv, SenderRuns
<1>2. {"login", "send", "receive", "logout"} \subseteq Pool /\ "over" \in Stage
  BY PoolsDiffer
<1>3. at[c]["send"] = "leaving" /\ Hands(c, "send", "over", "logout")
  BY DEF StartsLogout
<1>4. \A d \in Conn, q \in Pool :
        at'[d][q] = IF d = c /\ q = "send" THEN "over"
                    ELSE IF d = c /\ q = "logout" THEN "queued" ELSE at[d][q]
  BY <1>1, <1>2, <1>3, HandsTo
<1>5. at[c]["logout"] = "none"
  BY <1>3 DEF IInv, SessionInv, OrderInv
<1>6. QueueInv' /\ PoolInv'
  BY <1>1, <1>2, <1>3, <1>5, QueueHands DEF IInv, BusyAt
<1>7. OrderInv'
  BY <1>2, <1>3, <1>4 DEF IInv, SessionInv, OrderInv
<1>8. OwnerInv'
  <2>1. \A d \in Conn : InService(d)' => InService(d)
    BY <1>2, <1>3, <1>4, <1>5 DEF InService
  <2>2. \A d \in Conn : inbox[d].closed => d # c
    BY <1>5 DEF IInv, SessionInv, OwnerInv
  <2> QED BY <1>1, <1>2, <1>4, <2>1, <2>2 DEF IInv, SessionInv, OwnerInv
<1>9. SectionInv'
  BY <1>1, <1>2, <1>3, <1>4, <1>5, SectionStays DEF IInv
<1>10. \A d \in Conn : PastWait(d)' => PastWait(d)
  BY <1>1, <1>2, <1>4 DEF PastWait
<1> QED BY <1>1, <1>6, <1>7, <1>8, <1>9, <1>10, SpotsStay, SizesStay DEF IInv, SessionInv

LEMMA SenderKeeps == ASSUME IInv, NEW c \in Conn, SenderRuns(c) PROVE IInv'
BY TakesToSendKeeps, ReadsKeeps, SendsKeeps, AnsweredKeeps, ArchivesKeeps, StartsLogoutKeeps
   DEF SenderRuns

LEMMA LoginKeeps == ASSUME IInv, NEW c \in Conn, LoginRuns(c) \/ SpuriousWakeup(c) PROVE IInv'
BY TakesConnectionKeeps, ReceivesNicknameKeeps, CorrectsKeeps, ChecksNicknameKeeps,
   RefusesKeeps, WakesUpKeeps, SpuriousWakeupKeeps, WelcomesKeeps, StartsServicesKeeps DEF LoginRuns

-----------------------------------------------------------------------------
(* The steps of the critical section.                                      *)
LEMMA TellsKeeps == ASSUME IInv, Tells PROVE IInv'
<1>1. TypeOK /\ TypeOK' /\ Broadcasting
  BY TypeSection DEF Tells, IInv, SectionRuns
<1>2. UNCHANGED << accepted, users, at, online, lastMessages >>
  BY DEF Tells
<1>3. PICK u \in Conn : Puts(u) \/ Blocks(u)
  BY <1>1, HolderTyped DEF Tells
<1>4. /\ section # None
      /\ section'.role = section.role /\ section'.who = section.who
      /\ section'.left \subseteq section.left
  BY <1>1, <1>3, PutsTo, BlocksTo DEF Broadcasting, HeldBy
<1>5. SectionInv'
  BY <1>2, <1>4 DEF IInv, SectionInv, HeldBy
<1>6. \A d \in Conn : inbox'[d].closed = inbox[d].closed /\ Len(inbox'[d].jobs) <= MaxInbox
  <2>1. CASE Puts(u)
    <3>1. /\ Len(inbox[u].jobs) < MaxInbox /\ Len(inbox'[u].jobs) = Len(inbox[u].jobs) + 1
          /\ \A d \in Conn \ {u} : inbox'[d] = inbox[d]
          /\ \A d \in Conn : inbox'[d].closed = inbox[d].closed
      BY <1>1, <2>1, PutsTo
    <3>2. Len(inbox[u].jobs) \in Nat /\ MaxInbox \in Nat
      BY <1>1, SizeAssumption DEF TypeOK
    <3> QED BY <3>1, <3>2 DEF IInv, SizeInv
  <2>2. CASE Blocks(u)
    BY <2>2 DEF Blocks, IInv, SizeInv
  <2> QED BY <1>3, <2>1, <2>2
<1>7. QueueInv' /\ PoolInv' /\ SpotInv' /\ OrderInv'
  BY <1>2 DEF IInv, QueueInv, Waiting, PoolInv, SpotInv, PastWait, SessionInv, OrderInv
<1>8. OwnerInv'
  BY <1>2, <1>6 DEF IInv, SessionInv, OwnerInv, InService
<1> QED BY <1>1, <1>2, <1>5, <1>6, <1>7, <1>8 DEF IInv, SessionInv, SizeInv

(* The holder of m_users goes on, in each of the three pools.               *)
LEMMA LoginLeavesSection ==
  ASSUME IInv, NEW c \in Conn, NEW s \in Stage, s \in {"welcoming", "over"},
         Goes(c, "login", s), at[c]["login"] = "announcing", section' = None,
         UNCHANGED << accepted, users, online, inbox, lastMessages >>
  PROVE  QueueInv' /\ SessionInv' /\ SectionInv' /\ PoolInv' /\ SpotInv' /\ SizeInv'
<1>1. \A d \in Conn, q \in Pool : at'[d][q] = IF d = c /\ q = "login" THEN s ELSE at[d][q]
  BY LoginGoesTo DEF IInv
<1>2. QueueInv' /\ PoolInv'
  BY <1>1, QueuesStay DEF IInv, BusyAt
<1>3. OrderInv'
  BY <1>1, PoolsDiffer DEF IInv, SessionInv, OrderInv
<1>4. OwnerInv'
  <2>1. \A d \in Conn : InService(d)' => InService(d)
    BY <1>1, PoolsDiffer DEF InService
  <2>2. \A d \in Conn : at'[d]["logout"] = at[d]["logout"]
    BY <1>1, PoolsDiffer
  <2> QED BY <2>1, <2>2, OwnersStay DEF IInv, SessionInv
<1>5. \A d \in Conn : PastWait(d)' => PastWait(d)
  BY <1>1, PoolsDiffer DEF PastWait
<1> QED BY <1>2, <1>3, <1>4, <1>5, NoSection, SpotsStay, SizesStay DEF IInv, SessionInv

LEMMA SendLeavesSection ==
  ASSUME IInv, NEW c \in Conn, NEW s \in Stage, s \in {"archiving", "reading", "leaving"},
         Goes(c, "send", s), at[c]["send"] = "telling", section' = None,
         UNCHANGED << accepted, users, online, inbox, lastMessages >>
  PROVE  QueueInv' /\ SessionInv' /\ SectionInv' /\ PoolInv' /\ SpotInv' /\ SizeInv'
<1>1. \A d \in Conn, q \in Pool : at'[d][q] = IF d = c /\ q = "send" THEN s ELSE at[d][q]
  BY SendGoesTo DEF IInv
<1>2. QueueInv' /\ PoolInv'
  BY <1>1, QueuesStay DEF IInv, BusyAt
<1>3. SessionInv' /\ SpotInv'
  BY SessionGoesOn
<1> QED BY <1>2, <1>3, NoSection, SizesStay DEF IInv

LEMMA LogoutGoesTo ==
  ASSUME TypeOK, NEW c \in Conn, NEW s \in Stage, Goes(c, "logout", s)
  PROVE  \A d \in Conn, q \in Pool :
           at'[d][q] = IF d = c /\ q = "logout" THEN s ELSE at[d][q]
BY DEF TypeOK, Goes, Pool

LEMMA LogoutLeavesSection ==
  ASSUME IInv, NEW c \in Conn, NEW s \in Stage, s \in {"leaving", "over"},
         Goes(c, "logout", s), at[c]["logout"] = "telling", section' = None,
         UNCHANGED << accepted, users, online, inbox, lastMessages >>
  PROVE  QueueInv' /\ SessionInv' /\ SectionInv' /\ PoolInv' /\ SpotInv' /\ SizeInv'
<1>1. \A d \in Conn, q \in Pool : at'[d][q] = IF d = c /\ q = "logout" THEN s ELSE at[d][q]
  BY LogoutGoesTo DEF IInv
<1>2. QueueInv' /\ PoolInv'
  BY <1>1, QueuesStay DEF IInv, BusyAt
<1>3. OrderInv'
  BY <1>1, PoolsDiffer DEF IInv, SessionInv, OrderInv
<1>4. OwnerInv'
  <2>1. \A d \in Conn : InService(d)' => InService(d)
    BY <1>1, PoolsDiffer DEF InService
  <2> QED BY <1>1, <2>1, PoolsDiffer DEF IInv, SessionInv, OwnerInv
<1>5. \A d \in Conn : PastWait(d)' => PastWait(d)
  BY <1>1, PoolsDiffer DEF PastWait
<1> QED BY <1>2, <1>3, <1>4, <1>5, NoSection, SpotsStay, SizesStay DEF IInv, SessionInv

LEMMA LogoutNotifies ==
  ASSUME IInv, NEW c \in Conn, NEW w \in Conn, at[w]["login"] = "asleep",
         \A d \in Conn, q \in Pool :
           at'[d][q] = IF d = w /\ q = "login" THEN "woken"
                       ELSE IF d = c /\ q = "logout" THEN "over" ELSE at[d][q],
         at[c]["logout"] = "telling", section' = None,
         UNCHANGED << accepted, users, online, inbox, lastMessages >>
  PROVE  QueueInv' /\ SessionInv' /\ SectionInv' /\ PoolInv' /\ SpotInv' /\ SizeInv'
<1>1. \A d \in Conn, q \in Pool :
        at'[d][q] = IF d = w /\ q = "login" THEN "woken"
                    ELSE IF d = c /\ q = "logout" THEN "over" ELSE at[d][q]
  OBVIOUS
<1>2. QueueInv' /\ PoolInv'
  <2>1. \A d \in Conn, q \in Pool : at[d][q] = "queued" => at'[d][q] = "queued"
    BY <1>1
  <2>2. \A d \in Conn, q \in Pool : BusyAt(at'[d][q]) => BusyAt(at[d][q])
    BY <1>1 DEF BusyAt
  <2> QED BY <2>1, <2>2, QueuesStay DEF IInv
<1>3. \A d \in Conn :
        /\ at'[d]["login"] = IF d = w THEN "woken" ELSE at[d]["login"]
        /\ at'[d]["send"] = at[d]["send"]
        /\ at'[d]["receive"] = at[d]["receive"]
        /\ at'[d]["logout"] = IF d = c THEN "over" ELSE at[d]["logout"]
  BY <1>1 DEF Pool
<1>4. OrderInv'
  <2>1. at[w]["send"] = "none" /\ at[w]["receive"] = "none"
    BY DEF IInv, SessionInv, OrderInv
  <2>2. at[c]["send"] = "over"
    BY DEF IInv, SessionInv, OrderInv
  <2>3. \A d \in Conn : at'[d]["logout"] # "none" => at[d]["send"] = "over"
    BY <1>3, <2>2 DEF IInv, SessionInv, OrderInv
  <2> QED BY <1>3, <2>1, <2>3 DEF IInv, SessionInv, OrderInv
<1>6. OwnerInv'
  <2>1. \A d \in Conn : InService(d)' => InService(d)
    BY <1>3 DEF InService
  <2>2. /\ \A d \in Conn : InService(d) => online[NickOf[d]] = d
        /\ online[NickOf[c]] # c
        /\ at[c]["logout"] \notin {"none", "queued"}
    BY DEF IInv, SessionInv, OwnerInv
  <2>3. \A d \in Conn : at'[d]["logout"] \in {"telling", "leaving", "over"} => online[NickOf[d]] # d
    BY <1>3, <2>2 DEF IInv, SessionInv, OwnerInv
  <2>4. \A d \in Conn : inbox[d].closed => at'[d]["logout"] \notin {"none", "queued"}
    <3> SUFFICES ASSUME NEW d \in Conn, inbox[d].closed
                 PROVE  at'[d]["logout"] \notin {"none", "queued"}
      OBVIOUS
    <3>1. at[d]["logout"] \notin {"none", "queued"}
      BY DEF IInv, SessionInv, OwnerInv
    <3> QED BY <1>3, <3>1
  <2> QED BY <2>1, <2>2, <2>3, <2>4 DEF IInv, SessionInv, OwnerInv
<1>5. \A d \in Conn : PastWait(d)' => PastWait(d)
  BY <1>1, PoolsDiffer DEF PastWait
<1> QED BY <1>2, <1>4, <1>5, <1>6, NoSection, SpotsStay, SizesStay DEF IInv, SessionInv

LEMMA TellThrowsKeeps == ASSUME IInv, TellThrows PROVE IInv'
<1>1. TypeOK /\ TypeOK' /\ Broadcasting /\ section' = None
  BY TypeSection DEF TellThrows, IInv, SectionRuns
<1>2. UNCHANGED << accepted, users, online, inbox, lastMessages >>
  BY DEF TellThrows
<1>3. section.who \in Conn /\ {"over", "leaving"} \subseteq Stage
  BY <1>1, HolderTyped, PoolsDiffer
<1>4. CASE HeldBy("login")
  <2>1. Goes(section.who, "login", "over") /\ at[section.who]["login"] = "announcing"
    BY <1>4 DEF TellThrows, HeldBy, IInv, SectionInv
  <2> QED BY <1>1, <1>2, <1>3, <2>1, LoginLeavesSection DEF IInv
<1>5. CASE HeldBy("send")
  <2>1. Goes(section.who, "send", "leaving") /\ at[section.who]["send"] = "telling"
    BY <1>5 DEF TellThrows, HeldBy, IInv, SectionInv
  <2> QED BY <1>1, <1>2, <1>3, <2>1, SendLeavesSection DEF IInv
<1>6. CASE HeldBy("logout")
  <2>1. Goes(section.who, "logout", "leaving") /\ at[section.who]["logout"] = "telling"
    BY <1>6 DEF TellThrows, HeldBy, IInv, SectionInv
  <2> QED BY <1>1, <1>2, <1>3, <2>1, LogoutLeavesSection DEF IInv
<1> QED BY <1>1, <1>4, <1>5, <1>6 DEF Broadcasting

LEMMA TellsNoMoreKeeps == ASSUME IInv, TellsNoMore PROVE IInv'
<1>1. TypeOK /\ TypeOK' /\ Broadcasting /\ section' = None
  BY TypeSection DEF TellsNoMore, IInv, SectionRuns
<1>2. UNCHANGED << accepted, users, online, inbox, lastMessages >>
  BY DEF TellsNoMore
<1>3. section.who \in Conn /\ {"over", "welcoming", "archiving", "reading"} \subseteq Stage
  BY <1>1, HolderTyped, PoolsDiffer
<1>4. CASE HeldBy("login") /\ LoginTold(section.who)
  <2>1. Goes(section.who, "login", "welcoming") /\ at[section.who]["login"] = "announcing"
    BY <1>4 DEF LoginTold, IInv, SectionInv
  <2> QED BY <1>1, <1>2, <1>3, <2>1, LoginLeavesSection DEF IInv
<1>5. CASE HeldBy("send") /\ SendTold(section.who)
  <2>1. at[section.who]["send"] = "telling"
    BY <1>5 DEF IInv, SectionInv
  <2>2. Goes(section.who, "send", "archiving") \/ Goes(section.who, "send", "reading")
    BY <1>5 DEF SendTold
  <2> QED BY <1>1, <1>2, <1>3, <2>1, <2>2, SendLeavesSection DEF IInv
<1>6. CASE HeldBy("logout") /\ LogoutTold(section.who)
  <2>1. at[section.who]["logout"] = "telling"
    BY <1>6 DEF IInv, SectionInv
  <2>2. CASE Goes(section.who, "logout", "over")
    BY <1>1, <1>2, <1>3, <2>1, <2>2, LogoutLeavesSection DEF IInv
  <2>3. CASE \E w \in Conn : /\ at[w]["login"] = "asleep"
                             /\ Notifies(section.who, w)
    <3>1. PICK w \in Conn : at[w]["login"] = "asleep" /\ Notifies(section.who, w)
      BY <2>3
    <3>2. \A d \in Conn, q \in Pool :
            at'[d][q] = IF d = w /\ q = "login" THEN "woken"
                        ELSE IF d = section.who /\ q = "logout" THEN "over" ELSE at[d][q]
      BY <1>1, <1>3, <3>1, NotifiesTo
    <3> QED BY <1>1, <1>2, <1>3, <2>1, <3>1, <3>2, LogoutNotifies DEF IInv
  <2> QED BY <1>6, <2>2, <2>3 DEF LogoutTold, Notifies
<1> QED BY <1>4, <1>5, <1>6 DEF TellsNoMore

LEMMA SectionKeeps == ASSUME IInv, SectionRuns PROVE IInv'
BY TellsKeeps, TellThrowsKeeps, TellsNoMoreKeeps DEF SectionRuns

-----------------------------------------------------------------------------
(* The steps of the receiver threads.                                      *)
LEMMA ReceiveGoesTo ==
  ASSUME TypeOK, NEW c \in Conn, NEW s \in Stage, Goes(c, "receive", s)
  PROVE  \A d \in Conn, q \in Pool :
           at'[d][q] = IF d = c /\ q = "receive" THEN s ELSE at[d][q]
BY DEF TypeOK, Goes, Pool

LEMMA ReceiverGoesOn ==
  ASSUME IInv, NEW c \in Conn, NEW s \in {"serving", "sending", "over"}, Goes(c, "receive", s),
         UNCHANGED << section, online >>,
         \A d \in Conn : inbox'[d].closed = inbox[d].closed,
         at[c]["receive"] \in {"queued", "serving", "sending"}
  PROVE  SessionInv' /\ SectionInv' /\ SpotInv'
<1>1. s \in Stage
  BY DEF Stage
<1>2. \A d \in Conn, q \in Pool : at'[d][q] = IF d = c /\ q = "receive" THEN s ELSE at[d][q]
  BY <1>1, ReceiveGoesTo DEF IInv
<1>3. \A d \in Conn :
        /\ at'[d]["login"] = at[d]["login"] /\ at'[d]["send"] = at[d]["send"]
        /\ at'[d]["logout"] = at[d]["logout"]
        /\ d # c => at'[d]["receive"] = at[d]["receive"]
  BY <1>2 DEF Pool
<1>4. OrderInv'
  <2>1. at[c]["login"] = "over"
    BY DEF IInv, SessionInv, OrderInv
  <2> QED BY <1>3, <2>1 DEF IInv, SessionInv, OrderInv
<1>5. OwnerInv'
  BY <1>3 DEF IInv, SessionInv, OwnerInv, InService
<1>6. SectionInv'
  BY <1>3, SectionStays DEF IInv
<1>7. \A d \in Conn : PastWait(d)' => PastWait(d)
  BY <1>3 DEF PastWait
<1> QED BY <1>4, <1>5, <1>6, <1>7, SpotsStay DEF IInv, SessionInv

LEMMA ReceiverKeeps == ASSUME IInv, NEW c \in Conn, ReceiverRuns(c) PROVE IInv'
<1>1. /\ TypeOK /\ TypeOK'
      /\ UNCHANGED << accepted, section, online, lastMessages >>
  BY TypeReceiver DEF ReceiverRuns, TakesToReceive, Delivers, Delivered, StopsDelivering, IInv
<1>2. CASE TakesToReceive(c)
  <2>1. Takes(c, "receive", "serving") /\ "receive" \in Pool /\ "serving" \in Stage
    BY <1>2, PoolsDiffer DEF TakesToReceive
  <2>2. QueueInv' /\ PoolInv' /\ at[c]["receive"] = "queued"
    BY <1>1, <2>1, QueueTakes DEF IInv
  <2>3. Goes(c, "receive", "serving") /\ UNCHANGED inbox
    BY <1>2 DEF TakesToReceive, Takes
  <2>4. SessionInv' /\ SectionInv' /\ SpotInv'
    BY <1>1, <2>2, <2>3, ReceiverGoesOn
  <2> QED BY <1>1, <2>2, <2>3, <2>4, SizesStay DEF IInv
<1>3. CASE Delivers(c) \/ Delivered(c) \/ StopsDelivering(c)
  <2>1. at[c]["receive"] \in {"serving", "sending"} /\ UNCHANGED users
    BY <1>3 DEF Delivers, Delivered, StopsDelivering
  <2>2. \A d \in Conn : /\ inbox'[d].closed = inbox[d].closed
                       /\ Len(inbox'[d].jobs) <= MaxInbox
    <3>1. CASE Delivers(c)
      <4>1. \A d \in Conn : /\ inbox'[d].closed = inbox[d].closed
                           /\ Len(inbox'[d].jobs) <= Len(inbox[d].jobs)
                           /\ Len(inbox'[d].jobs) \in Nat /\ Len(inbox[d].jobs) \in Nat
        BY <1>1, <3>1, DeliversTo DEF TypeOK
      <4>2. MaxInbox \in Nat
        BY SizeAssumption
      <4> QED BY <4>1, <4>2 DEF IInv, SizeInv
    <3>2. CASE Delivered(c) \/ StopsDelivering(c)
      BY <3>2 DEF Delivered, StopsDelivering, IInv, SizeInv
    <3> QED BY <1>3, <3>1, <3>2
  <2>3. SizeInv'
    BY <1>1, <2>2 DEF IInv, SizeInv
  <2>4. PICK s \in {"serving", "sending", "over"} : Goes(c, "receive", s)
    BY <1>3 DEF Delivers, Delivered, StopsDelivering, Written
  <2>5. SessionInv' /\ SectionInv' /\ SpotInv'
    BY <1>1, <2>1, <2>2, <2>4, ReceiverGoesOn
  <2>6. \A d \in Conn, q \in Pool : at'[d][q] = IF d = c /\ q = "receive" THEN s ELSE at[d][q]
    BY <1>1, <2>4, PoolsDiffer, GoesTo
  <2>7. QueueInv' /\ PoolInv'
    BY <1>1, <2>1, <2>6, QueuesStay DEF IInv, BusyAt
  <2> QED BY <1>1, <2>3, <2>5, <2>7 DEF IInv
<1> QED BY <1>2, <1>3 DEF ReceiverRuns

-----------------------------------------------------------------------------
(* The steps of the logout threads.                                        *)
LEMMA ClosesInboxKeeps == ASSUME IInv, NEW c \in Conn, ClosesInbox(c) PROVE IInv'
<1>1. /\ TypeOK /\ TypeOK' /\ Takes(c, "logout", "closed")
      /\ "logout" \in Pool /\ "closed" \in Stage
      /\ UNCHANGED << accepted, section, online, lastMessages >>
  BY TypeLogout, PoolsDiffer DEF ClosesInbox, LogoutRuns, IInv
<1>2. QueueInv' /\ PoolInv' /\ at[c]["logout"] = "queued"
  BY <1>1, QueueTakes DEF IInv
<1>3. \A d \in Conn, q \in Pool : at'[d][q] = IF d = c /\ q = "logout" THEN "closed" ELSE at[d][q]
  BY <1>1, TakesTo
<1>4. \A d \in Conn :
        /\ at'[d]["login"] = at[d]["login"] /\ at'[d]["send"] = at[d]["send"]
        /\ at'[d]["receive"] = at[d]["receive"]
        /\ d # c => at'[d]["logout"] = at[d]["logout"]
  BY <1>3 DEF Pool
<1>5. at'[c]["logout"] = "closed"
  BY <1>1, <1>3
<1>6. inbox' = [inbox EXCEPT ![c].closed = TRUE]
  BY DEF ClosesInbox
<1>7. /\ \A d \in Conn : inbox'[d].jobs = inbox[d].jobs
      /\ \A d \in Conn \ {c} : inbox'[d].closed = inbox[d].closed
  BY <1>1, <1>6 DEF TypeOK
<1>8. OrderInv'
  BY <1>2, <1>4 DEF IInv, SessionInv, OrderInv
<1>9. OwnerInv'
  <2>1. \A d \in Conn : InService(d)' => InService(d)
    BY <1>2, <1>4, <1>5 DEF InService
  <2>2. \A d \in Conn : at'[d]["logout"] \in {"telling", "leaving", "over"}
                          => at[d]["logout"] \in {"telling", "leaving", "over"}
    BY <1>4, <1>5
  <2>3. \A d \in Conn : inbox'[d].closed => at'[d]["logout"] \notin {"none", "queued"}
    BY <1>4, <1>5, <1>7 DEF IInv, SessionInv, OwnerInv
  <2> QED BY <1>1, <2>1, <2>2, <2>3 DEF IInv, SessionInv, OwnerInv
<1>10. SectionInv'
  BY <1>1, <1>2, <1>4, SectionStays DEF IInv
<1>11. SpotInv'
  <2>1. \A d \in Conn : PastWait(d)' => PastWait(d)
    BY <1>1, <1>4 DEF PastWait
  <2> QED BY <2>1, SpotsStay DEF IInv
<1>12. SizeInv'
  BY <1>1, <1>7 DEF IInv, SizeInv
<1> QED BY <1>1, <1>2, <1>8, <1>9, <1>10, <1>11, <1>12 DEF IInv, SessionInv

(* A user that logs out still has the entry of its nickname.                *)
LEMMA ErasesOwn ==
  ASSUME IInv, NEW c \in Conn, Erases(c)
  PROVE  /\ online[NickOf[c]] = c
         /\ online' \in [Nick -> Conn \cup {None}]
         /\ \A n \in Nick : online'[n] = IF n = NickOf[c] THEN None ELSE online[n]
<1>1. at[c]["logout"] = "closed" /\ online' = [online EXCEPT ![NickOf[c]] = None]
  BY DEF Erases
<1>2. at[c]["send"] # "none"
  BY <1>1 DEF IInv, SessionInv, OrderInv
<1>3. InService(c)
  BY <1>1, <1>2 DEF InService
<1> QED BY <1>1, <1>3 DEF IInv, SessionInv, OwnerInv, TypeOK

LEMMA ErasesKeeps == ASSUME IInv, NEW c \in Conn, Erases(c) PROVE IInv'
<1>1. /\ TypeOK /\ TypeOK' /\ at[c]["logout"] = "closed" /\ Goes(c, "logout", "telling")
      /\ section' = Section("logout", c, Notice("logout", NickOf[c]), UsersOnline(online'))
      /\ UNCHANGED << accepted, users, inbox, lastMessages >>
  BY TypeLogout DEF Erases, LogoutRuns, IInv
<1>2. /\ online[NickOf[c]] = c
      /\ \A n \in Nick : online'[n] = IF n = NickOf[c] THEN None ELSE online[n]
  BY ErasesOwn
<1>3. \A d \in Conn, q \in Pool : at'[d][q] = IF d = c /\ q = "logout" THEN "telling" ELSE at[d][q]
  <2>1. "telling" \in Stage
    BY DEF Stage
  <2> QED BY <1>1, <2>1, LogoutGoesTo
<1>4. \A d \in Conn :
        /\ at'[d]["login"] = at[d]["login"] /\ at'[d]["send"] = at[d]["send"]
        /\ at'[d]["receive"] = at[d]["receive"]
        /\ d # c => at'[d]["logout"] = at[d]["logout"]
  BY <1>3 DEF Pool
<1>5. at'[c]["logout"] = "telling"
  BY <1>3 DEF Pool
<1>6. QueueInv' /\ PoolInv'
  BY <1>1, <1>3, QueuesStay DEF IInv, BusyAt
<1>7. OrderInv'
  BY <1>1, <1>4 DEF IInv, SessionInv, OrderInv
<1>8. \A n \in Nick : online'[n] # None => online'[n] = online[n] /\ NickOf[online'[n]] = n
  BY <1>2 DEF IInv, SessionInv, OwnerInv
<1>9. \A d \in Conn : NickOf[d] \in Nick /\ d # None
  BY NickAssumption, ConnAssumption
<1>10. OwnerInv'
  <2>1. \A d \in Conn : InService(d)' => InService(d) /\ d # c
    <3>1. at[c]["send"] = "over"
      BY <1>1 DEF IInv, SessionInv, OrderInv
    <3>2. at[c]["login"] \in {"to_receive", "over"}
      BY <3>1 DEF IInv, SessionInv, OrderInv
    <3> QED BY <1>4, <1>5, <3>2 DEF InService
  <2>2. \A d \in Conn : InService(d)' => online'[NickOf[d]] = d
    BY <1>2, <1>9, <2>1 DEF IInv, SessionInv, OwnerInv
  <2>3. \A d \in Conn : at'[d]["logout"] \in {"telling", "leaving", "over"} => online'[NickOf[d]] # d
    BY <1>2, <1>4, <1>9 DEF IInv, SessionInv, OwnerInv
  <2>4. \A d \in Conn : inbox'[d].closed => at'[d]["logout"] \notin {"none", "queued"}
    BY <1>1, <1>4, <1>5 DEF IInv, SessionInv, OwnerInv
  <2> QED BY <1>8, <2>2, <2>3, <2>4 DEF OwnerInv
<1>11. SectionInv'
  <2>1. \A u \in UsersOnline(online') : online'[NickOf[u]] = u
    BY <1>8 DEF UsersOnline
  <2> QED BY <1>1, <1>5, <2>1 DEF SectionInv, HeldBy, Section
<1>12. SpotInv'
  <2>1. \A d \in Conn : PastWait(d)' => PastWait(d)
    BY <1>4, <1>8, <1>9 DEF PastWait
  <2> QED BY <2>1, SpotsStay DEF IInv
<1> QED BY <1>1, <1>6, <1>7, <1>10, <1>11, <1>12, SizesStay DEF IInv, SessionInv

-----------------------------------------------------------------------------
(* The inductive invariant.                                                *)
LEMMA IInvInit == Init => IInv
<1> SUFFICES ASSUME Init PROVE IInv
  OBVIOUS
<1>1. TypeOK
  BY TypeInit
<1>2. /\ \A c \in Conn, p \in Pool : at[c][p] = "none"
      /\ \A p \in Pool : users[p] = << >>
      /\ accepted = None /\ section = None /\ lastMessages = << >>
      /\ \A n \in Nick : online[n] = None
      /\ \A c \in Conn : inbox[c] = [jobs |-> << >>, closed |-> FALSE]
  BY DEF Init
<1>3. \A c \in Conn : /\ at[c]["login"] = "none" /\ at[c]["send"] = "none"
                      /\ at[c]["receive"] = "none" /\ at[c]["logout"] = "none"
  BY <1>2 DEF Pool
<1>4. {MaxClients, MaxInbox, MaxMessages} \subseteq Nat /\ MaxClients > 0
  BY SizeAssumption
<1>5. QueueInv
  BY <1>2 DEF QueueInv
<1>6. SessionInv
  <2>1. OrderInv
    BY <1>3 DEF OrderInv
  <2>2. OwnerInv
    BY <1>2, <1>3 DEF OwnerInv, InService
  <2> QED BY <2>1, <2>2 DEF SessionInv
<1>7. SectionInv
  BY <1>2 DEF SectionInv, HeldBy
<1>8. PoolInv
  <2> SUFFICES ASSUME NEW p \in Pool
               PROVE  Len(users[p]) <= MaxClients /\ BusyIn(at, p) <= Threads(p)
    BY DEF PoolInv
  <2>1. {c \in Conn : at[c][p] \notin {"none", "queued", "over"}} = {}
    BY <1>2
  <2>2. BusyIn(at, p) = 0
    BY <2>1, FS_EmptySet DEF BusyIn
  <2> QED BY <1>2, <1>4, <2>2, ThreadsTyped
<1>9. SpotInv
  <2>1. {c \in Conn : PastWait(c)} = {}
    BY <1>2, NickAssumption, ConnAssumption DEF PastWait
  <2> QED BY <1>4, <2>1, FS_EmptySet DEF SpotInv
<1>10. SizeInv
  BY <1>2, <1>4 DEF SizeInv
<1> QED BY <1>1, <1>5, <1>6, <1>7, <1>8, <1>9, <1>10 DEF IInv

LEMMA IInvStays ==
  ASSUME IInv,
         UNCHANGED << accepted, users, at, section, online, inbox, lastMessages, local >>
  PROVE  IInv'
<1>1. TypeOK'
  BY DEF IInv, TypeOK
<1>2. QueueInv' /\ PoolInv'
  BY QueuesStay DEF IInv
<1>3. SessionInv'
  BY DEF IInv, SessionInv, OrderInv, OwnerInv, InService
<1>4. SectionInv'
  BY DEF IInv, SectionInv, HeldBy
<1>5. SpotInv'
  <2>1. \A c \in Conn : PastWait(c)' => PastWait(c)
    BY DEF PastWait
  <2> QED BY <2>1, SpotsStay DEF IInv
<1>6. SizeInv'
  BY SizesStay DEF IInv
<1> QED BY <1>1, <1>2, <1>3, <1>4, <1>5, <1>6 DEF IInv

LEMMA IInvNext == IInv /\ [Next]_vars => IInv'
<1> SUFFICES ASSUME IInv, [Next]_vars PROVE IInv'
  OBVIOUS
<1>1. CASE UNCHANGED vars
  BY <1>1, IInvStays DEF vars
<1>2. CASE QueuesAccepted
  BY <1>2, QueuesAcceptedKeeps
<1>3. CASE SectionRuns
  BY <1>3, SectionKeeps
<1>4. ASSUME NEW c \in Conn,
             \/ Accepts(c) \/ Leaves(c) \/ Listens(c) \/ LoginRuns(c) \/ SpuriousWakeup(c)
             \/ SenderRuns(c) \/ ReceiverRuns(c) \/ LogoutRuns(c)
      PROVE  IInv'
  <2>1. CASE Leaves(c) \/ Listens(c)
    BY <2>1, IInvStays DEF Leaves, Listens
  <2> QED BY <1>4, <2>1, AcceptsKeeps, LoginKeeps, SenderKeeps, ReceiverKeeps,
             ClosesInboxKeeps, ErasesKeeps DEF LogoutRuns
<1> QED BY <1>1, <1>2, <1>3, <1>4 DEF Next

LEMMA IInvHolds == Spec => []IInv
BY IInvInit, IInvNext, PTL DEF Spec

-----------------------------------------------------------------------------
(* The users a sender thread serves or will serve, all of them past the    *)
(* wait.                                                                   *)
LEMMA SendersHaveSpots ==
  ASSUME IInv
  PROVE  Busy("send") + Len(users["send"]) < MaxClients
<1> DEFINE q == users["send"]
           Queued == {c \in Conn : \E i \in 1 .. Len(q) : q[i] = c}
           Occupied == {c \in Conn : BusyAt(at[c]["send"])}
           Spots == {c \in Conn : PastWait(c)}
<1>1. "send" \in Pool
  BY DEF Pool
<1>2. /\ q \in Seq(Conn) /\ Len(q) \in Nat
      /\ \A i \in 1 .. Len(q) : q[i] \in Conn /\ at[q[i]]["send"] = "queued"
      /\ \A i, j \in 1 .. Len(q) : q[i] = q[j] => i = j
  BY <1>1 DEF IInv, TypeOK, QueueInv
<1>3. /\ IsFiniteSet(Queued) /\ IsFiniteSet(Occupied) /\ IsFiniteSet(Spots)
      /\ Cardinality(Queued) \in Nat /\ Cardinality(Occupied) \in Nat
      /\ Cardinality(Spots) \in Nat
  BY ConnAssumption, FS_Subset, FS_CardinalityType
<1>4. Cardinality(Queued) >= Len(q)
  <2> DEFINE f == [i \in 1 .. Len(q) |-> q[i]]
  <2>1. f \in Injection(1 .. Len(q), Queued)
    BY <1>2 DEF Injection, IsInjective
  <2>2. Cardinality(1 .. Len(q)) = Len(q)
    BY <1>2, FS_Interval
  <2> HIDE DEF q, f, Queued
  <2> QED BY <1>3, <2>1, <2>2, FS_Injection
<1>5. Queued \cap Occupied = {}
  BY <1>2 DEF BusyAt
<1>6. Queued \cup Occupied \in SUBSET Spots
  <2> SUFFICES ASSUME NEW c \in Conn, at[c]["send"] \notin {"none", "over"} PROVE PastWait(c)
    BY <1>2 DEF BusyAt
  <2>1. at[c]["logout"] = "none" /\ at[c]["login"] \in {"to_receive", "over"}
    BY DEF IInv, SessionInv, OrderInv
  <2> QED BY <2>1 DEF IInv, SessionInv, OwnerInv, InService, PastWait
<1>7. Busy("send") = Cardinality(Occupied)
  BY DEF Busy, BusyAt
<1>8. Cardinality(Spots) < MaxClients /\ MaxClients \in Nat /\ Len(q) \in Nat
  BY <1>2, SizeAssumption DEF IInv, SpotInv
<1> HIDE DEF q, Queued, Occupied, Spots
<1>9. Cardinality(Queued \cup Occupied) = Cardinality(Queued) + Cardinality(Occupied)
  <2>1. Cardinality(Queued \cap Occupied) = 0
    BY <1>5, FS_EmptySet
  <2>2. Cardinality(Queued \cup Occupied)
          = Cardinality(Queued) + Cardinality(Occupied) - Cardinality(Queued \cap Occupied)
    BY <1>3, FS_Union, Zenon
  <2> QED BY <1>3, <2>1, <2>2
<1>10. Cardinality(Queued \cup Occupied) <= Cardinality(Spots)
  BY <1>3, <1>6, FS_Subset
<1>11. Busy("send") + Len(q) < MaxClients
  BY <1>3, <1>4, <1>7, <1>8, <1>9, <1>10
<1> QED BY <1>11 DEF q

(* No more users than there are spots are past the wait, whatever the      *)
(* order of the logins and the logouts, so that there is a sender thread   *)
(* for each of them.                                                       *)
THEOREM WithinCapacityHolds == Spec => []WithinCapacity
<1>1. IInv => WithinCapacity
  <2> SUFFICES ASSUME IInv PROVE WithinCapacity
    OBVIOUS
  <2> QED BY SendersHaveSpots DEF IInv, SpotInv, WithinCapacity
<1> QED BY <1>1, IInvHolds, PTL

(* A step that changes who has a nickname either gives a free one or is    *)
(* the logout() of the user that has it.                                   *)
LEMMA NicknameStep ==
  ASSUME IInv, [Next]_vars, NEW n \in Nick, online[n] # None, online'[n] # online[n]
  PROVE  /\ online'[n] = None /\ NickOf[online[n]] = n
         /\ at[online[n]].logout = "closed"
<1>1. CASE \E c \in Conn : Erases(c)
  <2>1. PICK c \in Conn : Erases(c)
    BY <1>1
  <2>2. /\ online[NickOf[c]] = c /\ at[c]["logout"] = "closed"
        /\ online'[n] = IF n = NickOf[c] THEN None ELSE online[n]
    BY <2>1, ErasesOwn DEF Erases
  <2> QED BY <2>2
<1>2. CASE \E c \in Conn : ChecksNickname(c)
  <2>1. PICK c \in Conn : ChecksNickname(c)
    BY <1>2
  <2>2. online' = [online EXCEPT ![NickOf[c]] = c] /\ online[NickOf[c]] = None
    BY <2>1 DEF ChecksNickname, Refused
  <2> QED BY <2>2 DEF IInv, TypeOK
<1>3. CASE UNCHANGED online
  BY <1>3
<1>4. ASSUME NEW c \in Conn, ~Erases(c), ~ChecksNickname(c),
             \/ Accepts(c) \/ Leaves(c) \/ Listens(c) \/ LoginRuns(c) \/ SpuriousWakeup(c)
             \/ SenderRuns(c) \/ ReceiverRuns(c) \/ LogoutRuns(c)
      PROVE  UNCHANGED online
  <2>1. CASE LoginRuns(c) \/ SpuriousWakeup(c)
    BY <1>4, <2>1 DEF LoginRuns, SpuriousWakeup, TakesConnection, ReceivesNickname, Corrects,
                      Refuses, WakesUp, Welcomes, Welcomed, StartsServices
  <2>2. CASE SenderRuns(c)
    BY <2>2 DEF SenderRuns, TakesToSend, ReadsChat, StopsReading, ReadThrows, SendsPrivate,
                Answered, SendsPublic, Archives, StartsLogout
  <2>3. CASE ReceiverRuns(c) \/ LogoutRuns(c)
    BY <1>4, <2>3 DEF ReceiverRuns, TakesToReceive, Delivers, Delivered, StopsDelivering,
                      LogoutRuns, ClosesInbox
  <2> QED BY <1>4, <2>1, <2>2, <2>3 DEF Accepts, Leaves, Listens
<1>5. CASE QueuesAccepted \/ SectionRuns
  BY <1>3, <1>5 DEF QueuesAccepted, SectionRuns, Tells, TellThrows, TellsNoMore
<1>6. CASE UNCHANGED vars
  BY <1>3, <1>6 DEF vars
<1> QED BY <1>1, <1>2, <1>3, <1>4, <1>5, <1>6 DEF Next

(* Nobody loses a nickname to another login or to somebody else's logout.  *)
THEOREM NicknameKeptHolds == Spec => NicknameKept
<1>1. IInv /\ [Next]_vars =>
        [\A n \in Nick : online[n] # None /\ online'[n] # online[n] =>
           online'[n] = None /\ NickOf[online[n]] = n /\ at[online[n]].logout = "closed"]_vars
  BY NicknameStep
<1> QED BY <1>1, IInvHolds, PTL DEF Spec, NicknameKept

(* A user whose inbox is closed occupies the only thread of logout(), so    *)
(* another user that thread tells still has an open one.                     *)
LEMMA NeverThrows == ASSUME NLogout = 1, IInv PROVE LogoutNeverThrows
<1> SUFFICES ASSUME HeldBy("logout"), NEW u \in section.left, inbox[u].closed
             PROVE  FALSE
  BY DEF LogoutNeverThrows
<1> DEFINE w == section.who
           Occupied == {c \in Conn : BusyAt(at[c]["logout"])}
<1>1. "logout" \in Pool
  BY DEF Pool
<1>2. u \in Conn /\ w \in Conn
  BY DEF IInv, TypeOK, Holding, HeldBy
<1>3. at[w]["logout"] = "telling" /\ online[NickOf[u]] = u
  BY DEF IInv, SectionInv
<1>4. at[u]["logout"] \notin {"none", "queued", "telling", "leaving", "over"}
  BY <1>2, <1>3 DEF IInv, SessionInv, OwnerInv
<1>5. u # w /\ {u, w} \in SUBSET Occupied
  BY <1>2, <1>3, <1>4 DEF BusyAt
<1>6. IsFiniteSet(Occupied)
  BY ConnAssumption, FS_Subset
<1>7. Cardinality(Occupied) <= 1
  BY <1>1 DEF IInv, PoolInv, BusyIn, BusyAt, Threads
<1> HIDE DEF w, Occupied
<1>8. Cardinality({u, w}) = 2
  <2>1. IsFiniteSet({u}) /\ Cardinality({u}) = 1
    BY FS_Singleton
  <2>2. Cardinality({u} \cup {w}) = IF w \in {u} THEN Cardinality({u}) ELSE Cardinality({u}) + 1
    BY <2>1, FS_AddElement, Zenon
  <2>3. {u} \cup {w} = {u, w}
    OBVIOUS
  <2> QED BY <1>5, <2>1, <2>2, <2>3
<1>9. Cardinality({u, w}) <= Cardinality(Occupied) /\ Cardinality(Occupied) \in Nat
  BY <1>5, <1>6, FS_Subset, FS_CardinalityType
<1> QED BY <1>7, <1>8, <1>9

(* With one logout thread, a put() of logout() never meets a closed inbox: *)
(* the only thread that closes inboxes is the one that puts.                *)
THEOREM LogoutNeverThrowsHolds ==
  ASSUME NLogout = 1
  PROVE  Spec => []LogoutNeverThrows
<1>1. IInv => LogoutNeverThrows
  BY NeverThrows
<1> QED BY <1>1, IInvHolds, PTL

-----------------------------------------------------------------------------
(* The lines that may be written to a client, and those fit for c.          *)
Lines ==
  Msg \cup {[type |-> "error"], [type |-> "done_last_messages"]}
      \cup [type : {"online_users"}, nicks : SUBSET Nick]

Chatter == [type : {"public_message"}, said : Command, by : Conn, n : Nat]

Fits(m, c) ==
  m.type = "private_message" =>
    m.by # c /\ m.said.source = NickOf[m.by] /\ m.said.destination = NickOf[c]

Fit(c) == {m \in Lines : Fits(m, c)}

HeardInv ==
  /\ out \in [Conn -> Seq(Lines)] /\ lastMessages \in Seq(Chatter)
  /\ \A c \in Conn : out[c] \in Seq(Fit(c)) /\ inbox[c].jobs \in Seq(Fit(c))

(* Who is about to say what to whom.                                        *)
ToldInv ==
  Broadcasting =>
    /\ section.stuck # None => section.stuck \in section.left
    /\ \A u \in section.left : Fits(section.msg, u)
    /\ IF HeldBy("send")
       THEN /\ section.msg.by = section.who /\ section.msg.n = local[section.who].lines
            /\ section.msg.type = "private_message" =>
                 section.left \subseteq {online[section.msg.said.destination]}
       ELSE ~IsChat(section.msg)

(* Within a part of what c hears, one user's messages count up.             *)
Later(m, k) == IsChat(m) /\ IsChat(k) /\ m.by = k.by => m.n < k.n

Rising(s) == \A i, j \in 1 .. Len(s) : i < j => Later(s[i], s[j])

Ends(m) == m.type = "done_last_messages"

Ended(o) == \E j \in 1 .. Len(o) : Ends(o[j])

(* Entry i is after the history.                                            *)
Live(o, i) == \E j \in 1 .. i : Ends(o[j])

RisingOut(o) ==
  \A i, j \in 1 .. Len(o) : i < j /\ (Live(o, i) <=> Live(o, j)) => Later(o[i], o[j])

Joined(o, q) == \A i \in 1 .. Len(o), j \in 1 .. Len(q) : Live(o, i) => Later(o[i], q[j])

Under(m, limits) == IsChat(m) => m.n <= limits[m.by]

(* The number of the last message of a that c, and the history, can have.   *)
Saying(a, c) ==
  at[a]["send"] = "executing" \/ (HeldBy("send") /\ section.who = a /\ c \in section.left)

Limits(c) == [a \in Conn |-> IF Saying(a, c) THEN local[a].lines - 1 ELSE local[a].lines]

HistoryLimits ==
  [a \in Conn |-> IF at[a]["send"] \in {"executing", "telling", "archiving"}
                  THEN local[a].lines - 1 ELSE local[a].lines]

Early ==
  {"none", "queued", "hello", "correcting", "checking", "refusing", "asleep", "woken",
   "announcing", "welcoming", "listing"}

(* The end of the history has been written to c.                            *)
Closing == {"ending", "to_send", "to_receive"}

Settled(c) == at[c]["login"] \in Closing \/ at[c]["send"] # "none" \/ at[c]["receive"] # "none"

(* What has been written to a client and waits in its inbox.                *)
Hears(o, q, limits) ==
  /\ RisingOut(o) /\ Rising(q) /\ Joined(o, q)
  /\ \A i \in 1 .. Len(o) : Live(o, i) => Under(o[i], limits)
  /\ \A i \in 1 .. Len(q) : Under(q[i], limits)

Chatless(o) == \A i \in 1 .. Len(o) : ~IsChat(o[i])

ClientInv(c) ==
  /\ Hears(out[c], inbox[c].jobs, Limits(c))
  /\ at[c]["login"] \in Early => Chatless(out[c]) /\ ~Ended(out[c])
  /\ Settled(c) /\ ~gone[c] => Ended(out[c])

HistoryInv ==
  /\ Rising(lastMessages)
  /\ \A i \in 1 .. Len(lastMessages) : Under(lastMessages[i], HistoryLimits)

SequenceInv == (\A c \in Conn : ClientInv(c)) /\ HistoryInv

HearInv == IInv /\ HeardInv /\ ToldInv /\ SequenceInv

-----------------------------------------------------------------------------
LEMMA LinesTyped ==
  ASSUME NEW m \in Lines
  PROVE  IsChat(m) => m.by \in Conn /\ m.n \in Nat /\ ~Ends(m)
BY DEF Lines, Msg, IsChat, Ends

LEMMA MsgIsLine == Msg \subseteq Lines /\ \A m \in Msg : ~Ends(m)
BY DEF Lines, Msg, Ends

LEMMA ChatterFits ==
  /\ Chatter \subseteq Lines
  /\ \A c \in Conn : Chatter \subseteq Fit(c)
BY DEF Lines, Msg, Chatter, Command, Fit, Fits

LEMMA OthersFit ==
  ASSUME NEW c \in Conn, NEW nicks \in SUBSET Nick
  PROVE  /\ [type |-> "error"] \in Fit(c) /\ [type |-> "done_last_messages"] \in Fit(c)
         /\ [type |-> "online_users", nicks |-> nicks] \in Fit(c)
         /\ ~IsChat([type |-> "error"]) /\ ~Ends([type |-> "error"])
         /\ ~IsChat([type |-> "done_last_messages"]) /\ Ends([type |-> "done_last_messages"])
         /\ ~IsChat([type |-> "online_users", nicks |-> nicks])
BY DEF Lines, Fit, Fits, IsChat, Ends

(* One more line: how the parts of what a client hears are divided.         *)
LEMMA LiveAppended ==
  ASSUME NEW o \in Seq(Lines), NEW m \in Lines, NEW p, p = Append(o, m)
  PROVE  /\ p \in Seq(Lines) /\ Len(o) \in Nat /\ Len(p) = Len(o) + 1 /\ p[Len(o) + 1] = m
         /\ \A i \in 1 .. Len(o) : p[i] = o[i] /\ (Live(p, i) <=> Live(o, i))
         /\ Ended(o) => Live(p, Len(o) + 1)
         /\ Ended(p) <=> Ended(o) \/ Ends(m)
<1>1. /\ p \in Seq(Lines) /\ Len(o) \in Nat /\ Len(p) = Len(o) + 1 /\ p[Len(o) + 1] = m
      /\ \A i \in 1 .. Len(o) : p[i] = o[i]
  BY AppendProperties
<1>2. ASSUME NEW i \in 1 .. Len(o) PROVE Live(p, i) <=> Live(o, i)
  <2>1. \A j \in 1 .. i : j \in 1 .. Len(o)
    BY <1>1
  <2> QED BY <1>1, <2>1 DEF Live
<1>3. ASSUME Ended(o) PROVE Live(p, Len(o) + 1)
  <2>1. PICK j \in 1 .. Len(o) : Ends(o[j])
    BY <1>3 DEF Ended
  <2>2. j \in 1 .. Len(o) + 1 /\ Ends(p[j])
    BY <1>1, <2>1
  <2> QED BY <2>2 DEF Live
<1>4. Ended(p) <=> Ended(o) \/ Ends(m)
  <2>1. \A j \in 1 .. Len(p) : j \in 1 .. Len(o) \/ j = Len(o) + 1
    BY <1>1
  <2>2. \A j \in 1 .. Len(o) : j \in 1 .. Len(p)
    BY <1>1
  <2>3. Len(o) + 1 \in 1 .. Len(p)
    BY <1>1
  <2> QED BY <1>1, <2>1, <2>2, <2>3 DEF Ended
<1> QED BY <1>1, <1>2, <1>3, <1>4

LEMMA EndsAppended ==
  ASSUME NEW o \in Seq(Lines), NEW m \in Lines
  PROVE  /\ Len(Append(o, m)) = Len(o) + 1 /\ Len(o) \in Nat /\ Append(o, m)[Len(o) + 1] = m
         /\ \A i \in 1 .. Len(o) : Append(o, m)[i] = o[i]
         /\ Ended(Append(o, m)) <=> Ended(o) \/ Ends(m)
<1>1. Ended(Append(o, m)) <=> Ended(o) \/ Ends(m)
  BY LiveAppended, Zenon
<1> QED BY <1>1, AppendProperties

LEMMA OutAppended ==
  ASSUME NEW o \in Seq(Lines), NEW m \in Lines, NEW p, p = Append(o, m),
         NEW f, RisingOut(o), IsChat(m) => Ended(o),
         \A i \in 1 .. Len(o) : Live(o, i) => Later(o[i], m) /\ Under(o[i], f),
         Under(m, f)
  PROVE  RisingOut(p) /\ \A i \in 1 .. Len(p) : Live(p, i) => Under(p[i], f)
<1>1. /\ p \in Seq(Lines) /\ Len(o) \in Nat /\ Len(p) = Len(o) + 1 /\ p[Len(o) + 1] = m
      /\ \A i \in 1 .. Len(o) : p[i] = o[i] /\ (Live(p, i) <=> Live(o, i))
      /\ Ended(o) => Live(p, Len(o) + 1)
  BY LiveAppended
<1>2. ASSUME NEW i \in 1 .. Len(p), NEW j \in 1 .. Len(p), i < j, Live(p, i) <=> Live(p, j)
      PROVE  Later(p[i], p[j])
  <2>1. i \in 1 .. Len(o)
    BY <1>1, <1>2
  <2>2. CASE j = Len(o) + 1
    <3>1. CASE IsChat(m)
      BY <1>1, <1>2, <2>1, <2>2, <3>1
    <3>2. CASE ~IsChat(m)
      BY <1>1, <2>2, <3>2 DEF Later
    <3> QED BY <3>1, <3>2
  <2>3. CASE j # Len(o) + 1
    <3>1. j \in 1 .. Len(o)
      BY <1>1, <2>3
    <3> QED BY <1>1, <1>2, <2>1, <3>1 DEF RisingOut
  <2> QED BY <2>2, <2>3
<1>3. ASSUME NEW i \in 1 .. Len(p), Live(p, i) PROVE Under(p[i], f)
  <2>1. CASE i = Len(o) + 1
    BY <1>1, <2>1
  <2>2. CASE i # Len(o) + 1
    <3>1. i \in 1 .. Len(o)
      BY <1>1, <2>2
    <3> QED BY <1>1, <1>3, <3>1
  <2> QED BY <2>1, <2>2
<1> QED BY <1>2, <1>3 DEF RisingOut

LEMMA HearsLooser ==
  ASSUME NEW o \in Seq(Lines), NEW q \in Seq(Lines), NEW f, NEW g,
         \A a \in Conn : f[a] \in Int /\ g[a] \in Int /\ f[a] <= g[a], Hears(o, q, f)
  PROVE  Hears(o, q, g)
<1>1. ASSUME NEW m \in Lines, Under(m, f) PROVE Under(m, g)
  <2> SUFFICES ASSUME IsChat(m) PROVE m.n <= g[m.by]
    BY DEF Under
  <2>1. m.by \in Conn /\ m.n \in Nat /\ m.n <= f[m.by]
    BY <1>1, LinesTyped DEF Under
  <2> QED BY <2>1
<1>2. /\ \A i \in 1 .. Len(o) : o[i] \in Lines
      /\ \A i \in 1 .. Len(q) : q[i] \in Lines
  OBVIOUS
<1> QED BY <1>1, <1>2 DEF Hears

(* A line that no user said.                                                *)
LEMMA HearsMore ==
  ASSUME NEW o \in Seq(Lines), NEW q \in Seq(Lines), NEW f, Hears(o, q, f),
         NEW m \in Lines, ~IsChat(m), NEW p, p = Append(o, m)
  PROVE  Hears(p, q, f)
<1>1. \A k : Later(m, k) /\ Later(k, m)
  BY DEF Later
<1>2. Under(m, f)
  BY DEF Under
<1>3. RisingOut(p) /\ \A i \in 1 .. Len(p) : Live(p, i) => Under(p[i], f)
  BY <1>1, <1>2, OutAppended DEF Hears
<1>4. /\ p \in Seq(Lines) /\ Len(o) \in Nat /\ Len(p) = Len(o) + 1 /\ p[Len(o) + 1] = m
      /\ \A i \in 1 .. Len(o) : p[i] = o[i] /\ (Live(p, i) <=> Live(o, i))
  BY LiveAppended
<1>5. ASSUME NEW i \in 1 .. Len(p), NEW j \in 1 .. Len(q), Live(p, i) PROVE Later(p[i], q[j])
  <2>1. CASE i = Len(o) + 1
    BY <1>1, <1>4, <2>1
  <2>2. CASE i # Len(o) + 1
    <3>1. i \in 1 .. Len(o)
      BY <1>4, <2>2
    <3> QED BY <1>4, <1>5, <3>1 DEF Hears, Joined
  <2> QED BY <2>1, <2>2
<1> QED BY <1>3, <1>5 DEF Hears, Joined

(* The head of the inbox is taken from it and is lost, or is written.       *)
LEMMA HearsLost ==
  ASSUME NEW o \in Seq(Lines), NEW q \in Seq(Lines), NEW f, Hears(o, q, f),
         q # << >>, NEW r, r = Tail(q)
  PROVE  Hears(o, r, f) /\ r \in Seq(Lines) /\ \A j \in 1 .. Len(r) : Later(q[1], r[j])
<1>1. /\ Len(q) \in Nat \ {0}
      /\ r \in Seq(Lines) /\ Len(r) = Len(q) - 1
      /\ \A i \in 1 .. Len(r) : r[i] = q[i + 1]
  BY HeadTailProperties, EmptySeq
<1>2. \A i \in 1 .. Len(r) : i + 1 \in 1 .. Len(q) /\ r[i] = q[i + 1]
  BY <1>1
<1>3. Rising(r)
  <2> SUFFICES ASSUME NEW i \in 1 .. Len(r), NEW j \in 1 .. Len(r), i < j PROVE Later(r[i], r[j])
    BY DEF Rising
  <2>1. i + 1 < j + 1
    OBVIOUS
  <2> QED BY <1>2, <2>1 DEF Hears, Rising
<1>4. \A i \in 1 .. Len(r) : Under(r[i], f)
  BY <1>2 DEF Hears
<1>5. Joined(o, r)
  BY <1>2 DEF Hears, Joined
<1>6. ASSUME NEW j \in 1 .. Len(r) PROVE Later(q[1], r[j])
  <2>1. 1 < j + 1 /\ 1 \in 1 .. Len(q)
    BY <1>1
  <2> QED BY <1>2, <2>1 DEF Hears, Rising
<1> QED BY <1>1, <1>3, <1>4, <1>5, <1>6 DEF Hears

LEMMA HearsDelivered ==
  ASSUME NEW o \in Seq(Lines), NEW q \in Seq(Lines), NEW f, Hears(o, q, f),
         q # << >>, NEW r, r = Tail(q), NEW m, m = Head(q), NEW p, p = Append(o, m), Ended(o)
  PROVE  Hears(p, r, f)
<1>1. m = q[1] /\ m \in Lines /\ 1 \in 1 .. Len(q)
  BY HeadTailProperties, EmptySeq
<1>2. Hears(o, r, f) /\ \A j \in 1 .. Len(r) : Later(m, r[j])
  BY <1>1, HearsLost
<1>3. Under(m, f) /\ \A i \in 1 .. Len(o) : Live(o, i) => Later(o[i], m) /\ Under(o[i], f)
  BY <1>1 DEF Hears, Joined
<1>4. RisingOut(p) /\ \A i \in 1 .. Len(p) : Live(p, i) => Under(p[i], f)
  BY <1>1, <1>3, OutAppended DEF Hears
<1>5. /\ p \in Seq(Lines) /\ Len(o) \in Nat /\ Len(p) = Len(o) + 1 /\ p[Len(o) + 1] = m
      /\ \A i \in 1 .. Len(o) : p[i] = o[i]
      /\ \A i \in 1 .. Len(o) : Live(p, i) <=> Live(o, i)
  <2>1. /\ p \in Seq(Lines) /\ Len(o) \in Nat /\ Len(p) = Len(o) + 1 /\ p[Len(o) + 1] = m
        /\ \A i \in 1 .. Len(o) : p[i] = o[i]
    BY <1>1, AppendProperties
  <2>2. \A i \in 1 .. Len(o) : Live(p, i) <=> Live(o, i)
    BY <1>1, LiveAppended
  <2> QED BY <2>1, <2>2
<1>6. ASSUME NEW i \in 1 .. Len(p), NEW j \in 1 .. Len(r), Live(p, i) PROVE Later(p[i], r[j])
  <2>1. CASE i = Len(o) + 1
    BY <1>2, <1>5, <2>1
  <2>2. CASE i # Len(o) + 1
    <3>1. i \in 1 .. Len(o)
      BY <1>5, <2>2
    <3> QED BY <1>2, <1>5, <1>6, <3>1 DEF Hears, Joined
  <2> QED BY <2>1, <2>2
<1> QED BY <1>2, <1>4, <1>6 DEF Hears, Joined

LEMMA RisingAppended ==
  ASSUME NEW q \in Seq(Lines), Rising(q), NEW m \in Lines, NEW r, r = Append(q, m),
         \A i \in 1 .. Len(q) : Later(q[i], m)
  PROVE  /\ r \in Seq(Lines) /\ Len(q) \in Nat /\ Len(r) = Len(q) + 1 /\ r[Len(q) + 1] = m
         /\ \A i \in 1 .. Len(q) : r[i] = q[i]
         /\ Rising(r)
<1>1. /\ r \in Seq(Lines) /\ Len(q) \in Nat /\ Len(r) = Len(q) + 1 /\ r[Len(q) + 1] = m
      /\ \A i \in 1 .. Len(q) : r[i] = q[i]
  BY AppendProperties
<1>2. ASSUME NEW i \in 1 .. Len(r), NEW j \in 1 .. Len(r), i < j PROVE Later(r[i], r[j])
  <2>1. i \in 1 .. Len(q)
    BY <1>1, <1>2
  <2>2. CASE j = Len(q) + 1
    BY <1>1, <2>1, <2>2
  <2>3. CASE j # Len(q) + 1
    <3>1. j \in 1 .. Len(q)
      BY <1>1, <2>3
    <3> QED BY <1>1, <1>2, <2>1, <3>1 DEF Rising
  <2> QED BY <2>2, <2>3
<1> QED BY <1>1, <1>2 DEF Rising

(* A message is put in the inbox.                                           *)
LEMMA HearsPut ==
  ASSUME NEW o \in Seq(Lines), NEW q \in Seq(Lines), NEW f, Hears(o, q, f),
         NEW m \in Lines, Under(m, f), NEW r, r = Append(q, m),
         \A i \in 1 .. Len(q) : Later(q[i], m),
         \A i \in 1 .. Len(o) : Live(o, i) => Later(o[i], m)
  PROVE  Hears(o, r, f)
<1>0. Rising(q)
  BY DEF Hears
<1>1. /\ r \in Seq(Lines) /\ Len(q) \in Nat /\ Len(r) = Len(q) + 1 /\ r[Len(q) + 1] = m
      /\ \A i \in 1 .. Len(q) : r[i] = q[i]
  BY AppendProperties
<1>3. Rising(r)
  BY <1>0, RisingAppended
<1>2. ASSUME NEW j \in 1 .. Len(r)
      PROVE  Under(r[j], f) /\ \A i \in 1 .. Len(o) : Live(o, i) => Later(o[i], r[j])
  <2>1. CASE j = Len(q) + 1
    BY <1>1, <2>1
  <2>2. CASE j # Len(q) + 1
    <3>1. j \in 1 .. Len(q)
      BY <1>1, <2>2
    <3> QED BY <1>1, <3>1 DEF Hears, Joined
  <2> QED BY <2>1, <2>2
<1> QED BY <1>2, <1>3 DEF Hears, Joined

Talking == {"executing", "telling", "archiving"}

(* Steps with which nobody begins to say something, nor to log in again.    *)
Quiet ==
  \A a \in Conn :
    /\ local'[a].lines = local[a].lines
    /\ at'[a]["send"] = "executing" => at[a]["send"] = "executing"
    /\ at'[a]["send"] \in Talking => at[a]["send"] \in Talking
    /\ at'[a]["login"] \in Early => at[a]["login"] \in Early
    /\ Settled(a)' /\ ~gone'[a] => (Settled(a) /\ ~gone[a]) \/ Ended(out'[a])

SectionQuiet ==
  \/ section' = section /\ online' = online
  \/ section' = None
  \/ \E c \in Conn, left \in SUBSET Conn :
       \/ \E role \in {"main", "refusal", "denial"} : section' = Section(role, c, None, left)
       \/ \E role \in {"login", "logout"} :
            section' = Section(role, c, Notice(role, NickOf[c]), left)

(* The history is written.                                                  *)
LEMMA HearsHistory ==
  ASSUME NEW o \in Seq(Lines), NEW q \in Seq(Lines), NEW f, Hears(o, q, f),
         Chatless(o), ~Ended(o), NEW h \in Seq(Chatter), Rising(h), NEW t, t = o \o h
  PROVE  t \in Seq(Lines) /\ Hears(t, q, f)
<1>1. h \in Seq(Lines)
  BY ChatterFits
<1>2. /\ t \in Seq(Lines) /\ Len(t) = Len(o) + Len(h) /\ Len(o) \in Nat /\ Len(h) \in Nat
      /\ \A i \in 1 .. Len(o) + Len(h) : t[i] = IF i <= Len(o) THEN o[i] ELSE h[i - Len(o)]
  BY <1>1, ConcatProperties, LenProperties
<1>3. ASSUME NEW i \in 1 .. Len(t)
      PROVE  \/ i \in 1 .. Len(o) /\ t[i] = o[i]
             \/ i - Len(o) \in 1 .. Len(h) /\ t[i] = h[i - Len(o)]
  BY <1>2
<1>4. ASSUME NEW i \in 1 .. Len(t) PROVE ~Ends(t[i])
  <2>1. \A m \in Chatter : ~Ends(m)
    BY DEF Chatter, Ends
  <2>2. \A k \in 1 .. Len(h) : h[k] \in Chatter
    OBVIOUS
  <2> QED BY <1>3, <2>1, <2>2 DEF Ended
<1>5. ASSUME NEW i \in 1 .. Len(t) PROVE ~Live(t, i)
  BY <1>2, <1>4 DEF Live
<1>6. ASSUME NEW i \in 1 .. Len(t), NEW j \in 1 .. Len(t), i < j PROVE Later(t[i], t[j])
  <2> SUFFICES ASSUME IsChat(t[i]), IsChat(t[j]) PROVE Later(t[i], t[j])
    BY DEF Later
  <2>1. /\ i - Len(o) \in 1 .. Len(h) /\ t[i] = h[i - Len(o)]
        /\ j - Len(o) \in 1 .. Len(h) /\ t[j] = h[j - Len(o)]
    BY <1>3 DEF Chatless
  <2>2. i - Len(o) < j - Len(o)
    BY <1>2, <1>6
  <2> QED BY <2>1, <2>2 DEF Rising
<1> QED BY <1>2, <1>5, <1>6 DEF Hears, RisingOut, Joined

-----------------------------------------------------------------------------
(* The limits only rise.                                                    *)
LEMMA LimitsRise ==
  ASSUME TypeOK, TypeOK', NEW c \in Conn,
         \A a \in Conn : \/ local'[a].lines = local[a].lines + 1
                         \/ local'[a].lines = local[a].lines /\ (Saying(a, c)' => Saying(a, c))
  PROVE  \A a \in Conn : /\ Limits(c)[a] \in Int /\ Limits(c)'[a] \in Int
                         /\ Limits(c)[a] <= Limits(c)'[a]
<1> SUFFICES ASSUME NEW a \in Conn
             PROVE  /\ Limits(c)[a] \in Int /\ Limits(c)'[a] \in Int
                    /\ Limits(c)[a] <= Limits(c)'[a]
  OBVIOUS
<1>1. local[a].lines \in Nat /\ local'[a].lines \in Nat
  BY DEF TypeOK
<1>2. /\ Limits(c)[a] = IF Saying(a, c) THEN local[a].lines - 1 ELSE local[a].lines
      /\ Limits(c)'[a] = IF Saying(a, c)' THEN local'[a].lines - 1 ELSE local'[a].lines
  BY DEF Limits
<1> QED BY <1>1, <1>2

LEMMA HistoryLimitsRise ==
  ASSUME TypeOK, TypeOK',
         \A a \in Conn : \/ local'[a].lines = local[a].lines + 1
                         \/ /\ local'[a].lines = local[a].lines
                            /\ at'[a]["send"] \in Talking => at[a]["send"] \in Talking
  PROVE  \A a \in Conn : /\ HistoryLimits[a] \in Int /\ HistoryLimits'[a] \in Int
                         /\ HistoryLimits[a] <= HistoryLimits'[a]
<1> SUFFICES ASSUME NEW a \in Conn
             PROVE  /\ HistoryLimits[a] \in Int /\ HistoryLimits'[a] \in Int
                    /\ HistoryLimits[a] <= HistoryLimits'[a]
  OBVIOUS
<1>1. local[a].lines \in Nat /\ local'[a].lines \in Nat
  BY DEF TypeOK
<1>2. /\ HistoryLimits[a] = IF at[a]["send"] \in Talking THEN local[a].lines - 1 ELSE local[a].lines
      /\ HistoryLimits'[a] = IF at'[a]["send"] \in Talking THEN local'[a].lines - 1 ELSE local'[a].lines
  BY DEF HistoryLimits, Talking
<1> QED BY <1>1, <1>2

LEMMA QuietLimits ==
  ASSUME TypeOK, TypeOK', Quiet, SectionQuiet, NEW c \in Conn
  PROVE  \A a \in Conn : /\ Limits(c)[a] \in Int /\ Limits(c)'[a] \in Int
                         /\ Limits(c)[a] <= Limits(c)'[a]
<1>1. ASSUME NEW a \in Conn, Saying(a, c)' PROVE Saying(a, c)
  <2>1. CASE at'[a]["send"] = "executing"
    BY <2>1 DEF Quiet, Saying
  <2>2. CASE HeldBy("send")' /\ section'.who = a /\ c \in section'.left
    <3>1. section' = section
      BY <2>2 DEF SectionQuiet, HeldBy, Section
    <3> QED BY <2>2, <3>1 DEF HeldBy, Saying
  <2> QED BY <1>1, <2>1, <2>2 DEF Saying
<1> QED BY <1>1, LimitsRise DEF Quiet

LEMMA ToldStays ==
  ASSUME TypeOK, ToldInv, Quiet, SectionQuiet
  PROVE  ToldInv'
<1> SUFFICES ASSUME Broadcasting'
             PROVE  /\ section'.stuck # None => section'.stuck \in section'.left
                    /\ \A u \in section'.left : Fits(section'.msg, u)
                    /\ IF HeldBy("send")'
                       THEN /\ section'.msg.by = section'.who
                            /\ section'.msg.n = local'[section'.who].lines
                            /\ section'.msg.type = "private_message" =>
                                 section'.left \subseteq {online'[section'.msg.said.destination]}
                       ELSE ~IsChat(section'.msg)
  BY DEF ToldInv
<1>1. CASE section' = section /\ online' = online
  <2>1. Broadcasting /\ (HeldBy("send")' <=> HeldBy("send"))
    BY <1>1 DEF Broadcasting, HeldBy
  <2>2. section.who \in Conn
    BY <2>1, HolderTyped
  <2> QED BY <1>1, <2>1, <2>2 DEF ToldInv, Quiet
<1>2. CASE \/ section' = None
           \/ \E role \in {"main", "refusal", "denial"}, c \in Conn, left \in SUBSET Conn :
                section' = Section(role, c, None, left)
  BY <1>2 DEF Broadcasting, HeldBy, Section
<1>3. ASSUME NEW c \in Conn, NEW left \in SUBSET Conn, NEW role \in {"login", "logout"},
             section' = Section(role, c, Notice(role, NickOf[c]), left)
      PROVE  /\ section'.stuck # None => section'.stuck \in section'.left
             /\ \A u \in section'.left : Fits(section'.msg, u)
             /\ ~HeldBy("send")' /\ ~IsChat(section'.msg)
  BY <1>3 DEF Section, Notice, Fits, IsChat, HeldBy
<1> QED BY <1>1, <1>2, <1>3 DEF SectionQuiet

(* What is kept when nothing is heard, or only an error.                    *)
LEMMA ClientTyped ==
  ASSUME IInv, HeardInv, NEW c \in Conn
  PROVE  out[c] \in Seq(Lines) /\ inbox[c].jobs \in Seq(Lines) /\ inbox[c].jobs \in Seq(Msg)
<1>1. inbox[c].jobs \in Seq(Msg) /\ inbox[c].jobs \in Seq(Fit(c))
  BY DEF IInv, TypeOK, HeardInv
<1>2. inbox[c].jobs \in Seq(Lines)
  BY <1>1 DEF Fit
<1> QED BY <1>1, <1>2 DEF HeardInv

LEMMA AppendsLast ==
  ASSUME NEW S, NEW o \in Seq(S), NEW m \in S
  PROVE  o \o << m >> = Append(o, m) /\ Append(o, m) \in Seq(S)
BY AppendIsConcat, AppendProperties

(* A line that no user said is written to c.                                *)
AddsLine(c, m) ==
  /\ ~IsChat(m) /\ (Ends(m) => at'[c]["login"] \notin Early)
  /\ out'[c] = Append(out[c], m)

LEMMA QuietKeeps ==
  ASSUME HearInv, IInv', Quiet, SectionQuiet, lastMessages' = lastMessages,
         out' \in [Conn -> Seq(Lines)],
         \A c \in Conn : inbox'[c].jobs = inbox[c].jobs,
         \A c \in Conn : out'[c] = out[c] \/ \E m \in Fit(c) : AddsLine(c, m)
  PROVE  HearInv'
<1>1. TypeOK /\ TypeOK'
  BY DEF HearInv, IInv
<1>2. ToldInv'
  BY <1>1, ToldStays DEF HearInv
<1>3. ASSUME NEW c \in Conn
      PROVE  /\ Fit(c) \subseteq Lines
             /\ out[c] \in Seq(Lines) /\ inbox[c].jobs \in Seq(Lines)
             /\ out'[c] = out[c] \/ \E m \in Fit(c) : AddsLine(c, m)
  BY <1>3, ClientTyped DEF HearInv, Fit
<1>4. ASSUME NEW c \in Conn
      PROVE  out'[c] \in Seq(Fit(c)) /\ inbox'[c].jobs \in Seq(Fit(c))
  <2>1. out[c] \in Seq(Fit(c)) /\ inbox[c].jobs \in Seq(Fit(c))
    BY DEF HearInv, HeardInv
  <2>2. ASSUME NEW m \in Fit(c), AddsLine(c, m) PROVE out'[c] \in Seq(Fit(c))
    BY <2>1, <2>2, AppendProperties DEF AddsLine
  <2> QED BY <1>3, <2>1, <2>2
<1>5. HeardInv'
  BY <1>4 DEF HearInv, HeardInv
<1>6. ASSUME NEW c \in Conn PROVE ClientInv(c)'
  <2>1. Hears(out[c], inbox[c].jobs, Limits(c)')
    <3>1. \A a \in Conn : /\ Limits(c)[a] \in Int /\ Limits(c)'[a] \in Int
                         /\ Limits(c)[a] <= Limits(c)'[a]
      BY <1>1, QuietLimits
    <3>2. Hears(out[c], inbox[c].jobs, Limits(c))
      BY DEF HearInv, SequenceInv, ClientInv
    <3> QED BY <1>3, <3>1, <3>2, HearsLooser
  <2>2. Hears(out'[c], inbox[c].jobs, Limits(c)')
    <3>1. ASSUME NEW m \in Fit(c), AddsLine(c, m) PROVE Hears(out'[c], inbox[c].jobs, Limits(c)')
      BY <1>3, <2>1, <3>1, HearsMore DEF AddsLine
    <3> QED BY <1>3, <2>1, <3>1
  <2>3. inbox'[c].jobs = inbox[c].jobs
    OBVIOUS
  <2>4. ASSUME NEW m \in Fit(c), AddsLine(c, m)
        PROVE  /\ Chatless(out[c]) => Chatless(out'[c])
               /\ Ended(out'[c]) <=> Ended(out[c]) \/ Ends(m)
    <3>1. m \in Lines /\ out[c] \in Seq(Lines) /\ out'[c] = Append(out[c], m)
      BY <1>3, <2>4 DEF AddsLine
    <3> DEFINE p == Append(out[c], m)
    <3>2. /\ Len(p) = Len(out[c]) + 1 /\ Len(out[c]) \in Nat
          /\ \A i \in 1 .. Len(out[c]) : p[i] = out[c][i]
          /\ p[Len(out[c]) + 1] = m
      BY <3>1, EndsAppended
    <3>3. Ended(p) <=> Ended(out[c]) \/ Ends(m)
      BY <3>1, EndsAppended, Zenon
    <3> HIDE DEF p
    <3>4. ~IsChat(m) /\ Chatless(out[c]) => Chatless(p)
      BY <3>2 DEF Chatless
    <3> QED BY <2>4, <3>1, <3>3, <3>4 DEF AddsLine, p
  <2>5. at'[c]["login"] \in Early => Chatless(out'[c]) /\ ~Ended(out'[c])
    <3> SUFFICES ASSUME at'[c]["login"] \in Early PROVE Chatless(out'[c]) /\ ~Ended(out'[c])
      OBVIOUS
    <3>1. Chatless(out[c]) /\ ~Ended(out[c])
      BY DEF Quiet, HearInv, SequenceInv, ClientInv
    <3> QED BY <1>3, <2>4, <3>1 DEF AddsLine
  <2>6. Settled(c)' /\ ~gone'[c] => Ended(out'[c])
    <3>1. Ended(out[c]) => Ended(out'[c])
      BY <1>3, <2>4
    <3>2. Settled(c)' /\ ~gone'[c] => (Settled(c) /\ ~gone[c]) \/ Ended(out'[c])
      BY DEF Quiet
    <3>3. Settled(c) /\ ~gone[c] => Ended(out[c])
      BY DEF HearInv, SequenceInv, ClientInv
    <3> QED BY <3>1, <3>2, <3>3
  <2> QED BY <2>2, <2>3, <2>5, <2>6 DEF ClientInv
<1>7. HistoryInv'
  <2>1. \A a \in Conn : /\ HistoryLimits[a] \in Int /\ HistoryLimits'[a] \in Int
                         /\ HistoryLimits[a] <= HistoryLimits'[a]
    BY <1>1, HistoryLimitsRise DEF Quiet
  <2>2. ASSUME NEW i \in 1 .. Len(lastMessages), IsChat(lastMessages[i])
        PROVE  lastMessages[i].n <= HistoryLimits'[lastMessages[i].by]
    <3>1. lastMessages[i] \in Lines
      BY ChatterFits DEF HearInv, HeardInv
    <3>2. lastMessages[i].by \in Conn /\ lastMessages[i].n \in Nat
      BY <2>2, <3>1, LinesTyped
    <3>3. lastMessages[i].n <= HistoryLimits[lastMessages[i].by]
      BY <2>2 DEF HearInv, SequenceInv, HistoryInv, Under
    <3> QED BY <2>1, <3>2, <3>3
  <2> QED BY <2>2 DEF HearInv, SequenceInv, HistoryInv, Under
<1> QED BY <1>2, <1>5, <1>6, <1>7 DEF HearInv, SequenceInv

(* What a step must be to be quiet, pool by pool.                            *)
LEMMA LoginQuiet ==
  ASSUME NEW c \in Conn, NEW s, gone' = gone,
         \A d \in Conn : local'[d].lines = local[d].lines,
         \A d \in Conn, q \in Pool : at'[d][q] = IF d = c /\ q = "login" THEN s ELSE at[d][q],
         s \in Early => at[c]["login"] \in Early,
         s \in Closing => at[c]["login"] \in Closing \/ gone[c] \/ Ended(out'[c])
  PROVE  Quiet
<1>1. {"login", "send", "receive"} \subseteq Pool
  BY DEF Pool
<1>2. \A d \in Conn : /\ at'[d]["send"] = at[d]["send"] /\ at'[d]["receive"] = at[d]["receive"]
                      /\ d # c => at'[d]["login"] = at[d]["login"]
  BY <1>1
<1>3. at'[c]["login"] = s
  BY <1>1
<1>4. \A d \in Conn : at'[d]["login"] \in Early => at[d]["login"] \in Early
  BY <1>2, <1>3
<1>5. \A d \in Conn : Settled(d)' /\ ~gone'[d] => (Settled(d) /\ ~gone[d]) \/ Ended(out'[d])
  BY <1>2, <1>3 DEF Settled
<1> QED BY <1>2, <1>4, <1>5 DEF Quiet

LEMMA SendQuiet ==
  ASSUME NEW c \in Conn, NEW s, s # "executing", gone' = gone,
         s \in Talking => at[c]["send"] \in Talking, at[c]["send"] # "none",
         \A d \in Conn : local'[d].lines = local[d].lines,
         \A d \in Conn, q \in Pool : at'[d][q] = IF d = c /\ q = "send" THEN s ELSE at[d][q]
  PROVE  Quiet
<1>1. {"login", "send", "receive"} \subseteq Pool
  BY DEF Pool
<1>2. \A d \in Conn : /\ at'[d]["login"] = at[d]["login"] /\ at'[d]["receive"] = at[d]["receive"]
                      /\ d # c => at'[d]["send"] = at[d]["send"]
  BY <1>1
<1>3. /\ at'[c]["send"] # "executing"
      /\ at'[c]["send"] \in Talking => at[c]["send"] \in Talking
  BY <1>1
<1>4. \A d \in Conn : Settled(d)' /\ ~gone'[d] => Settled(d) /\ ~gone[d]
  BY <1>2 DEF Settled
<1> QED BY <1>2, <1>3, <1>4 DEF Quiet

LEMMA OtherQuiet ==
  ASSUME NEW c \in Conn, NEW p \in {"receive", "logout"}, NEW s, local' = local, gone' = gone,
         p = "receive" => at[c]["receive"] # "none",
         \A d \in Conn, q \in Pool : at'[d][q] = IF d = c /\ q = p THEN s ELSE at[d][q]
  PROVE  Quiet
<1>1. {"login", "send", "receive"} \subseteq Pool /\ p \notin {"login", "send"}
  BY DEF Pool
<1>2. \A d \in Conn : at'[d]["login"] = at[d]["login"] /\ at'[d]["send"] = at[d]["send"]
  BY <1>1
<1>3. \A d \in Conn : at'[d]["receive"] # "none" => at[d]["receive"] # "none"
  BY <1>1
<1>4. \A d \in Conn : Settled(d)' /\ ~gone'[d] => Settled(d) /\ ~gone[d]
  BY <1>2, <1>3 DEF Settled
<1> QED BY <1>2, <1>4 DEF Quiet

LEMMA StaysQuiet ==
  ASSUME at' = at, local' = local, \A c \in Conn : gone[c] => gone'[c]
  PROVE  Quiet
BY DEF Quiet, Settled

(* send_line().                                                              *)
LEMMA WritesTo ==
  ASSUME HearInv, NEW c \in Conn, NEW s \in Seq(Lines), Writes(c, s)
  PROVE  /\ out' \in [Conn -> Seq(Lines)]
         /\ \A d \in Conn \ {c} : out'[d] = out[d]
         /\ out'[c] = IF gone[c] THEN out[c] ELSE out[c] \o s
<1>1. out \in [Conn -> Seq(Lines)]
  BY DEF HearInv, HeardInv
<1>2. out' = [out EXCEPT ![c] = IF gone[c] THEN out[c] ELSE out[c] \o s]
  BY DEF Writes
<1>3. out[c] \in Seq(Lines) /\ out[c] \o s \in Seq(Lines)
  BY <1>1, ConcatProperties
<1> QED BY <1>1, <1>2, <1>3

LEMMA WritesOne ==
  ASSUME HearInv, NEW c \in Conn, NEW m \in Lines, Writes(c, << m >>)
  PROVE  /\ out' \in [Conn -> Seq(Lines)]
         /\ \A d \in Conn \ {c} : out'[d] = out[d]
         /\ out'[c] = IF gone[c] THEN out[c] ELSE Append(out[c], m)
<1>1. << m >> \in Seq(Lines)
  OBVIOUS
<1>2. /\ out' \in [Conn -> Seq(Lines)]
      /\ \A d \in Conn \ {c} : out'[d] = out[d]
      /\ out'[c] = IF gone[c] THEN out[c] ELSE out[c] \o << m >>
  BY <1>1, WritesTo, Zenon
<1>3. out[c] \in Seq(Lines)
  BY DEF HearInv, HeardInv
<1>4. out[c] \o << m >> = Append(out[c], m)
  BY <1>3, AppendsLast, Zenon
<1> QED BY <1>2, <1>4, Zenon

(* One line no user said.                                                   *)
LEMMA WritesLine ==
  ASSUME HearInv, NEW c \in Conn, NEW m \in Fit(c), Writes(c, << m >>),
         ~IsChat(m), Ends(m) => at'[c]["login"] \notin Early
  PROVE  /\ out' \in [Conn -> Seq(Lines)]
         /\ \A d \in Conn : out'[d] = out[d] \/ \E k \in Fit(d) : AddsLine(d, k)
<1>1. m \in Lines
  BY DEF Fit
<1>2. /\ out' \in [Conn -> Seq(Lines)]
      /\ \A d \in Conn \ {c} : out'[d] = out[d]
      /\ out'[c] = IF gone[c] THEN out[c] ELSE Append(out[c], m)
  BY <1>1, WritesOne, Zenon
<1>3. out'[c] = out[c] \/ AddsLine(c, m)
  BY <1>2 DEF AddsLine
<1> QED BY <1>2, <1>3

LEMMA WritesError ==
  ASSUME HearInv, NEW c \in Conn, Writes(c, Error)
  PROVE  /\ out' \in [Conn -> Seq(Lines)]
         /\ \A d \in Conn : out'[d] = out[d] \/ \E m \in Fit(d) : AddsLine(d, m)
<1>1. /\ [type |-> "error"] \in Fit(c) /\ Error = << [type |-> "error"] >>
      /\ ~IsChat([type |-> "error"]) /\ ~Ends([type |-> "error"])
  BY OthersFit DEF Error
<1> QED BY <1>1, WritesLine, Zenon

LEMMA SilentKeeps ==
  ASSUME HearInv, IInv', Quiet, SectionQuiet, UNCHANGED << lastMessages, inbox, out >>
  PROVE  HearInv'
<1>1. out' \in [Conn -> Seq(Lines)]
  BY DEF HearInv, HeardInv
<1>2. /\ \A c \in Conn : inbox'[c].jobs = inbox[c].jobs
      /\ \A c \in Conn : out'[c] = out[c]
      /\ lastMessages' = lastMessages
  OBVIOUS
<1> QED BY <1>1, <1>2, QuietKeeps, Zenon

LEMMA SectionSame ==
  ASSUME (section' = section /\ online' = online) \/ section' = None
  PROVE  SectionQuiet
BY DEF SectionQuiet

LEMMA HearTyped ==
  ASSUME HearInv
  PROVE  /\ IInv /\ TypeOK /\ {"login", "send", "receive", "logout"} \subseteq Pool
         /\ {"queued", "over", "hello", "correcting", "checking", "refusing", "asleep",
             "woken", "announcing", "welcoming", "listing", "history", "ending", "to_send",
             "to_receive", "reading", "executing", "denying", "answering", "telling",
             "archiving", "leaving", "serving", "sending", "closed"} \subseteq Stage
BY DEF HearInv, IInv, Pool, Stage

LEMMA MainHears ==
  ASSUME HearInv, IInv', QueuesAccepted \/ \E c \in Conn : Accepts(c)
  PROVE  HearInv'
<1>1. CASE \E c \in Conn : Accepts(c)
  <2>1. PICK c \in Conn : Accepts(c)
    BY <1>1
  <2>2. /\ at[c]["login"] = "none" /\ Goes(c, "login", "queued") /\ local' = local
        /\ section' = section /\ UNCHANGED << online, gone, lastMessages, inbox, out >>
    BY <2>1 DEF Accepts
  <2>3. \A d \in Conn, q \in Pool : at'[d][q] = IF d = c /\ q = "login" THEN "queued" ELSE at[d][q]
    BY <2>2, HearTyped, LoginGoesTo
  <2>4. Quiet
    BY <2>2, <2>3, LoginQuiet DEF Early, Closing
  <2> QED BY <2>2, <2>4, SectionSame, SilentKeeps
<1>2. CASE QueuesAccepted
  <2>1. SectionQuiet
    BY <1>2, HearTyped DEF QueuesAccepted, SectionQuiet, TypeOK
  <2> QED BY <1>2, <2>1, StaysQuiet, SilentKeeps DEF QueuesAccepted
<1> QED BY <1>1, <1>2

LEMMA WaitsQuiet ==
  ASSUME HearInv, NEW c \in Conn, NEW table \in [Nick -> Conn \cup {None}], Waits(c, table),
         Unlocked, at[c]["login"] \in Early, local' = local, gone' = gone
  PROVE  Quiet /\ SectionQuiet
<1>1. CASE Goes(c, "login", "announcing") /\
           section' = Section("login", c, Notice("login", NickOf[c]), UsersOnline(table) \ {c})
  <2>1. \A d \in Conn, q \in Pool : at'[d][q] = IF d = c /\ q = "login" THEN "announcing" ELSE at[d][q]
    BY <1>1, HearTyped, LoginGoesTo
  <2>2. UsersOnline(table) \ {c} \in SUBSET Conn
    BY OnlineTyped
  <2>3. \A d \in Conn : local'[d].lines = local[d].lines
    OBVIOUS
  <2>4. "announcing" \notin Closing
    BY DEF Closing
  <2>5. Quiet
    BY <2>1, <2>3, <2>4, LoginQuiet
  <2> QED BY <1>1, <2>2, <2>5 DEF SectionQuiet
<1>2. CASE Goes(c, "login", "asleep") /\ section' = section
  <2>1. \A d \in Conn, q \in Pool : at'[d][q] = IF d = c /\ q = "login" THEN "asleep" ELSE at[d][q]
    BY <1>2, HearTyped, LoginGoesTo
  <2>2. Quiet
    BY <2>1, LoginQuiet DEF Closing
  <2> QED BY <1>2, <2>2, SectionSame DEF Unlocked
<1> QED BY <1>1, <1>2 DEF Waits

LEMMA LoginQuietly ==
  ASSUME HearInv, NEW c \in Conn, NEW s \in Stage, Goes(c, "login", s), local' = local,
         gone' = gone, s \in Early => at[c]["login"] \in Early,
         s \in Closing => at[c]["login"] \in Closing \/ gone[c] \/ Ended(out'[c])
  PROVE  Quiet
<1>1. \A d \in Conn, q \in Pool : at'[d][q] = IF d = c /\ q = "login" THEN s ELSE at[d][q]
  BY HearTyped, LoginGoesTo
<1> QED BY <1>1, LoginQuiet

LEMMA ChecksNicknameHears == ASSUME HearInv, IInv', NEW c \in Conn, ChecksNickname(c) PROVE HearInv'
<1>1. CASE /\ Writes(c, Error) /\ Goes(c, "login", "refusing")
           /\ section' = Section("refusal", c, None, {})
  <2>1. Quiet
    BY <1>1, HearTyped, LoginQuietly DEF ChecksNickname, Early, Closing
  <2>2. /\ lastMessages' = lastMessages
        /\ \A d \in Conn : inbox'[d].jobs = inbox[d].jobs
    BY <1>1 DEF ChecksNickname
  <2>3. SectionQuiet
    BY <1>1 DEF SectionQuiet
  <2> QED BY <1>1, <2>1, <2>2, <2>3, WritesError, QuietKeeps
<1>2. CASE /\ online' = [online EXCEPT ![NickOf[c]] = c]
           /\ Waits(c, online') /\ UNCHANGED out
  <2>1. online' \in [Nick -> Conn \cup {None}]
    BY <1>2, HearTyped DEF TypeOK
  <2>2. at[c]["login"] \in Early /\ local' = local /\ gone' = gone /\ Unlocked
    BY DEF ChecksNickname, Early
  <2>3. Quiet /\ SectionQuiet
    BY <1>2, <2>1, <2>2, WaitsQuiet
  <2> QED BY <1>2, <2>3, SilentKeeps DEF ChecksNickname
<1> QED BY <1>1, <1>2 DEF ChecksNickname

(* The list, and the end of the history.                                    *)
LEMMA ListsHears ==
  ASSUME HearInv, IInv', NEW c \in Conn,
         UNCHANGED << section, online, inbox, lastMessages, local, gone >>,
         NEW m \in Fit(c), ~IsChat(m), Writes(c, << m >>),
         \/ at[c]["login"] = "welcoming" /\ Goes(c, "login", "listing") /\ ~Ends(m)
         \/ at[c]["login"] = "history" /\ Goes(c, "login", "ending") /\ Ends(m)
  PROVE  HearInv'
<1>1. PICK s \in {"listing", "ending"} :
        /\ Goes(c, "login", s)
        /\ s = "listing" => at[c]["login"] = "welcoming" /\ ~Ends(m)
        /\ s = "ending" => Ends(m)
  OBVIOUS
<1>2. s \in Stage /\ m \in Lines /\ out[c] \in Seq(Lines)
  BY HearTyped DEF Fit, HearInv, HeardInv
<1>3. at'[c]["login"] = s
  BY <1>1, <1>2, HearTyped, LoginGoesTo
<1>4. out'[c] = IF gone[c] THEN out[c] ELSE Append(out[c], m)
  BY <1>2, WritesOne
<1>5. s = "ending" => gone[c] \/ Ended(out'[c])
  <2>1. Ends(m) => Ended(Append(out[c], m))
    BY <1>2, EndsAppended, Zenon
  <2> QED BY <1>1, <1>4, <2>1
<1>6. Quiet
  BY <1>1, <1>2, <1>5, LoginQuietly DEF Early, Closing
<1>7. /\ out' \in [Conn -> Seq(Lines)]
      /\ \A d \in Conn : out'[d] = out[d] \/ \E k \in Fit(d) : AddsLine(d, k)
  BY <1>1, <1>3, WritesLine DEF Early
<1> QED BY <1>6, <1>7, SectionSame, QuietKeeps

LEMMA LoginHears ==
  ASSUME HearInv, IInv', NEW c \in Conn, LoginRuns(c) \/ SpuriousWakeup(c), ~Welcomes(c)
  PROVE  HearInv'
<1>1. CASE TakesConnection(c)
  <2>1. /\ Takes(c, "login", "hello") /\ local' = local /\ UNCHANGED accepted /\ section' = section
        /\ UNCHANGED << online, gone, lastMessages, inbox, out >>
    BY <1>1 DEF TakesConnection
  <2>2. \A d \in Conn, q \in Pool : at'[d][q] = IF d = c /\ q = "login" THEN "hello" ELSE at[d][q]
    BY <2>1, HearTyped, TakesTo
  <2>3. at[c]["login"] = "queued"
    BY <2>1, HearTyped, QueueTakes DEF IInv
  <2>4. Quiet
    BY <2>1, <2>2, <2>3, LoginQuiet DEF Early, Closing
  <2> QED BY <2>1, <2>4, SectionSame, SilentKeeps
<1>2. CASE ReceivesNickname(c)
  <2>1. /\ at[c]["login"] = "hello" /\ local' = local /\ section' = section
        /\ lastMessages' = lastMessages /\ inbox' = inbox /\ UNCHANGED << online, gone >>
    BY <1>2 DEF ReceivesNickname
  <2>2. Quiet
    BY <1>2, <2>1, HearTyped, LoginQuietly DEF ReceivesNickname, Early, Closing
  <2>3. UNCHANGED out \/ Writes(c, Error)
    BY <1>2 DEF ReceivesNickname
  <2>4. \A d \in Conn : inbox'[d].jobs = inbox[d].jobs
    BY <2>1
  <2>5. CASE UNCHANGED out
    BY <2>1, <2>2, <2>5, SectionSame, SilentKeeps
  <2>6. CASE Writes(c, Error)
    BY <2>1, <2>2, <2>4, <2>6, SectionSame, WritesError, QuietKeeps
  <2> QED BY <2>3, <2>5, <2>6
<1>3. CASE ChecksNickname(c)
  BY <1>3, ChecksNicknameHears
<1>4. CASE WakesUp(c)
  <2>1. /\ at[c]["login"] \in Early /\ local' = local /\ online \in [Nick -> Conn \cup {None}]
        /\ gone' = gone /\ Unlocked
    BY <1>4, HearTyped DEF WakesUp, Early, TypeOK
  <2>2. Quiet /\ SectionQuiet
    BY <1>4, <2>1, WaitsQuiet DEF WakesUp
  <2> QED BY <1>4, <2>2, SilentKeeps DEF WakesUp
<1>5. CASE SpuriousWakeup(c)
  <2>1. Quiet
    BY <1>5, HearTyped, LoginQuietly DEF SpuriousWakeup, Early, Closing
  <2> QED BY <1>5, <2>1, SectionSame, SilentKeeps DEF SpuriousWakeup
<1>6. CASE StartsServices(c)
  <2>1. /\ local' = local /\ section' = section
        /\ UNCHANGED << online, gone, lastMessages, inbox, out >>
    BY <1>6 DEF StartsServices
  <2>2. CASE at[c]["login"] = "to_send" /\ Hands(c, "login", "to_receive", "send")
    <3>1. \A d \in Conn, q \in Pool :
              at'[d][q] = IF d = c /\ q = "login" THEN "to_receive"
                          ELSE IF d = c /\ q = "send" THEN "queued" ELSE at[d][q]
      BY <2>2, HearTyped, HandsTo
    <3>2. \A d \in Conn : at'[d]["login"] \in Early => at[d]["login"] \in Early
      BY <3>1, HearTyped DEF Early
    <3>3. \A d \in Conn : at'[d]["send"] \in Talking => at'[d]["send"] = at[d]["send"]
      BY <3>1, HearTyped DEF Talking
    <3>4. \A d \in Conn : Settled(d)' => Settled(d)
      BY <2>2, <3>1, HearTyped DEF Settled, Closing
    <3>5. Quiet
      BY <2>1, <3>2, <3>3, <3>4 DEF Quiet, Talking
    <3> QED BY <2>1, <3>5, SectionSame, SilentKeeps
  <2>3. CASE at[c]["login"] = "to_receive" /\ Hands(c, "login", "over", "receive")
    <3>1. \A d \in Conn, q \in Pool :
              at'[d][q] = IF d = c /\ q = "login" THEN "over"
                          ELSE IF d = c /\ q = "receive" THEN "queued" ELSE at[d][q]
      BY <2>3, HearTyped, HandsTo
    <3>2. \A d \in Conn : at'[d]["login"] \in Early => at[d]["login"] \in Early
      BY <3>1, HearTyped DEF Early
    <3>3. \A d \in Conn : at'[d]["send"] = at[d]["send"]
      BY <3>1, HearTyped
    <3>4. \A d \in Conn : Settled(d)' => Settled(d)
      BY <2>3, <3>1, HearTyped DEF Settled, Closing
    <3>5. Quiet
      BY <2>1, <3>2, <3>3, <3>4 DEF Quiet, Talking
    <3> QED BY <2>1, <3>5, SectionSame, SilentKeeps
  <2> QED BY <1>6, <2>2, <2>3 DEF StartsServices
<1>7. CASE Corrects(c)
  <2>1. Quiet
    BY <1>7, HearTyped, LoginQuietly DEF Corrects, Written, Early, Closing
  <2> QED BY <1>7, <2>1, SectionSame, SilentKeeps DEF Corrects
<1>8. CASE Refuses(c)
  <2>1. Quiet
    BY <1>8, HearTyped, LoginQuietly DEF Refuses, Written, Early, Closing
  <2> QED BY <1>8, <2>1, SectionSame, SilentKeeps DEF Refuses
<1>9. CASE Welcomed(c)
  <2>1. Quiet
    BY <1>9, HearTyped, LoginQuietly DEF Welcomed, Written, Early, Closing
  <2> QED BY <1>9, <2>1, SectionSame, SilentKeeps DEF Welcomed
<1> QED BY <1>1, <1>2, <1>3, <1>4, <1>5, <1>6, <1>7, <1>8, <1>9 DEF LoginRuns

LEMMA SendQuietly ==
  ASSUME HearInv, NEW c \in Conn, NEW s \in Stage, Goes(c, "send", s), s # "executing",
         s \in Talking => at[c]["send"] \in Talking, at[c]["send"] # "none",
         local' = local, gone' = gone
  PROVE  Quiet
<1>1. \A d \in Conn, q \in Pool : at'[d][q] = IF d = c /\ q = "send" THEN s ELSE at[d][q]
  BY HearTyped, SendGoesTo
<1>2. \A d \in Conn : local'[d].lines = local[d].lines
  OBVIOUS
<1> QED BY <1>1, <1>2, SendQuiet

LEMMA LogoutQuietly ==
  ASSUME HearInv, NEW c \in Conn, NEW s \in Stage, Goes(c, "logout", s), local' = local,
         gone' = gone
  PROVE  Quiet
<1>1. \A d \in Conn, q \in Pool : at'[d][q] = IF d = c /\ q = "logout" THEN s ELSE at[d][q]
  BY HearTyped, LogoutGoesTo
<1> QED BY <1>1, OtherQuiet

LEMMA SenderHears ==
  ASSUME HearInv, IInv', NEW c \in Conn,
         TakesToSend(c) \/ StopsReading(c) \/ ReadThrows(c) \/ Answered(c) \/ StartsLogout(c)
  PROVE  HearInv'
<1>1. CASE TakesToSend(c)
  <2>1. /\ Takes(c, "send", "reading") /\ local' = local /\ section' = section
        /\ UNCHANGED << online, gone, lastMessages, inbox, out >>
    BY <1>1 DEF TakesToSend
  <2>2. \A d \in Conn, q \in Pool : at'[d][q] = IF d = c /\ q = "send" THEN "reading" ELSE at[d][q]
    BY <2>1, HearTyped, TakesTo
  <2>3. at[c]["send"] = "queued" /\ \A d \in Conn : local'[d].lines = local[d].lines
    <3>1. UNCHANGED accepted /\ "send" \in Pool /\ "reading" \in Stage
      BY <1>1, HearTyped DEF TakesToSend
    <3>2. at[c]["send"] = "queued"
      BY <2>1, <3>1, HearTyped, QueueTakes DEF IInv
    <3> QED BY <2>1, <3>2
  <2>4. Quiet
    BY <2>1, <2>2, <2>3, SendQuiet DEF Talking
  <2> QED BY <2>1, <2>4, SectionSame, SilentKeeps
<1>2. CASE StopsReading(c)
  <2>1. Quiet
    BY <1>2, HearTyped, SendQuietly DEF StopsReading, Talking
  <2>2. /\ lastMessages' = lastMessages /\ SectionQuiet /\ inbox' = inbox
        /\ \A d \in Conn : inbox'[d].jobs = inbox[d].jobs
    BY <1>2, SectionSame DEF StopsReading
  <2>3. CASE UNCHANGED out
    BY <2>1, <2>2, <2>3, SilentKeeps
  <2>4. CASE Writes(c, Error)
    BY <2>1, <2>2, <2>4, WritesError, QuietKeeps
  <2> QED BY <1>2, <2>3, <2>4 DEF StopsReading
<1>5. CASE Answered(c)
  <2>1. Quiet
    BY <1>5, HearTyped, SendQuietly DEF Answered, Written, Talking
  <2> QED BY <1>5, <2>1, SectionSame, SilentKeeps DEF Answered
<1>3. CASE ReadThrows(c)
  BY <1>3, StaysQuiet, SectionSame, SilentKeeps DEF ReadThrows
<1>4. CASE StartsLogout(c)
  <2>1. /\ local' = local /\ section' = section /\ Hands(c, "send", "over", "logout")
        /\ at[c]["send"] = "leaving" /\ UNCHANGED << online, gone, lastMessages, inbox, out >>
    BY <1>4 DEF StartsLogout
  <2>2. \A d \in Conn, q \in Pool :
              at'[d][q] = IF d = c /\ q = "send" THEN "over"
                          ELSE IF d = c /\ q = "logout" THEN "queued" ELSE at[d][q]
    BY <2>1, HearTyped, HandsTo
  <2>3. \A d \in Conn : /\ at'[d]["login"] = at[d]["login"]
                        /\ at'[d]["send"] \in Talking => at'[d]["send"] = at[d]["send"]
    BY <2>2, HearTyped DEF Talking
  <2>4. \A d \in Conn : Settled(d)' => Settled(d)
    BY <2>1, <2>2, HearTyped DEF Settled
  <2>5. Quiet
    BY <2>1, <2>3, <2>4 DEF Quiet, Talking
  <2> QED BY <2>1, <2>5, SectionSame, SilentKeeps
<1> QED BY <1>1, <1>2, <1>3, <1>4, <1>5

LEMMA ReceiverHears ==
  ASSUME HearInv, IInv', NEW c \in Conn,
         TakesToReceive(c) \/ Delivered(c) \/ StopsDelivering(c) \/ LogoutRuns(c)
  PROVE  HearInv'
<1>1. CASE TakesToReceive(c)
  <2>1. /\ Takes(c, "receive", "serving") /\ local' = local /\ section' = section
        /\ UNCHANGED << online, gone, lastMessages, inbox, out >>
    BY <1>1 DEF TakesToReceive
  <2>2. \A d \in Conn, q \in Pool : at'[d][q] = IF d = c /\ q = "receive" THEN "serving" ELSE at[d][q]
    BY <2>1, HearTyped, TakesTo
  <2>3. at[c]["receive"] = "queued"
    BY <1>1, <2>1, HearTyped, QueueTakes DEF IInv, TakesToReceive
  <2>4. Quiet
    BY <2>1, <2>2, <2>3, OtherQuiet
  <2> QED BY <2>1, <2>4, SectionSame, SilentKeeps
<1>2. CASE Delivered(c) \/ StopsDelivering(c)
  <2>1. /\ at[c]["receive"] # "none" /\ local' = local
        /\ section' = section /\ UNCHANGED << online, gone, lastMessages, inbox, out >>
    BY <1>2 DEF Delivered, StopsDelivering
  <2>2. PICK s \in {"serving", "over"} : Goes(c, "receive", s)
    BY <1>2 DEF Delivered, Written, StopsDelivering
  <2>3. \A d \in Conn, q \in Pool : at'[d][q] = IF d = c /\ q = "receive" THEN s ELSE at[d][q]
    BY <2>2, HearTyped, GoesTo
  <2>4. Quiet
    BY <2>1, <2>3, OtherQuiet
  <2> QED BY <2>1, <2>4, SectionSame, SilentKeeps
<1>3. CASE ClosesInbox(c)
  <2>1. /\ Takes(c, "logout", "closed") /\ local' = local /\ section' = section
        /\ UNCHANGED << online, gone >> /\ lastMessages' = lastMessages /\ out' = out
        /\ inbox' = [inbox EXCEPT ![c].closed = TRUE]
    BY <1>3 DEF ClosesInbox
  <2>2. \A d \in Conn, q \in Pool : at'[d][q] = IF d = c /\ q = "logout" THEN "closed" ELSE at[d][q]
    BY <2>1, HearTyped, TakesTo
  <2>3. \A d \in Conn : inbox'[d].jobs = inbox[d].jobs
    BY <2>1, HearTyped DEF TypeOK
  <2>4. out' \in [Conn -> Seq(Lines)] /\ \A d \in Conn : out'[d] = out[d]
    BY <2>1 DEF HearInv, HeardInv
  <2>5. Quiet /\ SectionQuiet
    BY <2>1, <2>2, OtherQuiet, SectionSame
  <2> QED BY <2>1, <2>3, <2>4, <2>5, QuietKeeps
<1>4. CASE Erases(c)
  <2>1. /\ Goes(c, "logout", "telling") /\ local' = local /\ gone' = gone
        /\ section' = Section("logout", c, Notice("logout", NickOf[c]), UsersOnline(online'))
        /\ UNCHANGED << lastMessages, inbox, out >>
    BY <1>4 DEF Erases
  <2>2. \A d \in Conn, q \in Pool : at'[d][q] = IF d = c /\ q = "logout" THEN "telling" ELSE at[d][q]
    BY <2>1, HearTyped, GoesTo
  <2>3. UsersOnline(online') \in SUBSET Conn
    BY <1>4, HearTyped, ErasesOwn, OnlineTyped
  <2>4. Quiet /\ SectionQuiet
    BY <2>1, <2>2, <2>3, OtherQuiet DEF SectionQuiet
  <2> QED BY <2>1, <2>4, SilentKeeps
<1> QED BY <1>1, <1>2, <1>3, <1>4 DEF LogoutRuns

GoneTyped == gone \in [Conn -> BOOLEAN]

LEMMA LeavesHears ==
  ASSUME HearInv, IInv', GoneTyped, NEW c \in Conn, Leaves(c) \/ Listens(c)
  PROVE  HearInv'
<1>1. \A d \in Conn : gone[d] => gone'[d]
  BY DEF Leaves, Listens, GoneTyped
<1> QED BY <1>1, StaysQuiet, SectionSame, SilentKeeps DEF Leaves, Listens

LEMMA NobodyMoves == ASSUME HearInv, IInv', UNCHANGED vars PROVE HearInv'
BY StaysQuiet, SectionSame, SilentKeeps DEF vars

(* The end of the critical section.                                          *)
LEMMA SectionEndHears ==
  ASSUME HearInv, IInv', TellThrows \/ TellsNoMore
  PROVE  HearInv'
<1>1. /\ Broadcasting /\ section' = None
      /\ UNCHANGED << lastMessages, inbox, out >> /\ gone' = gone
  BY DEF TellThrows, TellsNoMore
<1>2. section.who \in Conn
  BY <1>1, HearTyped, HolderTyped
<1>3. /\ section.role = "login" => at[section.who]["login"] = "announcing"
      /\ section.role = "send" => at[section.who]["send"] = "telling"
      /\ section.role \in {"login", "send", "logout"}
  BY <1>1, HearTyped DEF IInv, SectionInv, HeldBy, Broadcasting
<1>4. ASSUME TellThrows PROVE Quiet
  <2>1. local' = local /\ Goes(section.who, section.role, IF section.role = "login" THEN "over" ELSE "leaving")
    BY <1>4 DEF TellThrows
  <2>2. CASE section.role = "login"
    <3>1. Goes(section.who, "login", "over")
      BY <2>1, <2>2
    <3> QED BY <1>1, <1>2, <2>1, <3>1, HearTyped, LoginQuietly DEF Early, Closing
  <2>3. CASE section.role = "send"
    <3>1. Goes(section.who, "send", "leaving")
      BY <2>1, <2>3
    <3> QED BY <1>1, <1>2, <1>3, <2>1, <2>3, <3>1, HearTyped, SendQuietly DEF Talking
  <2>4. CASE section.role = "logout"
    <3>1. Goes(section.who, "logout", "leaving")
      BY <2>1, <2>4
    <3> QED BY <1>1, <1>2, <2>1, <3>1, HearTyped, LogoutQuietly
  <2> QED BY <1>3, <2>2, <2>3, <2>4
<1>5. ASSUME TellsNoMore PROVE Quiet
  <2>1. CASE HeldBy("login") /\ LoginTold(section.who)
    <3>1. Goes(section.who, "login", "welcoming")
      BY <2>1 DEF LoginTold
    <3>2. \A d \in Conn, q \in Pool :
            at'[d][q] = IF d = section.who /\ q = "login" THEN "welcoming" ELSE at[d][q]
      BY <1>2, <3>1, HearTyped, LoginGoesTo
    <3>3. \A d \in Conn : local'[d].lines = local[d].lines /\ local'[d].command = local[d].command
      BY <1>2, <2>1, HearTyped DEF LoginTold, TypeOK
    <3>4. at[section.who]["login"] \in Early /\ "welcoming" \notin Closing
      BY <1>3, <2>1 DEF HeldBy, Early, Closing
    <3> QED BY <1>1, <1>2, <3>2, <3>3, <3>4, LoginQuiet
  <2>2. CASE HeldBy("send") /\ SendTold(section.who)
    <3>1. /\ local' = local /\ at[section.who]["send"] \in Talking
          /\ at[section.who]["send"] # "none"
      BY <1>3, <2>2 DEF SendTold, HeldBy, Talking
    <3>2. CASE Goes(section.who, "send", "archiving")
      BY <1>1, <1>2, <3>1, <3>2, HearTyped, SendQuietly
    <3>3. CASE Goes(section.who, "send", "reading")
      BY <1>1, <1>2, <3>1, <3>3, HearTyped, SendQuietly
    <3> QED BY <2>2, <3>2, <3>3 DEF SendTold
  <2>3. CASE HeldBy("logout") /\ LogoutTold(section.who)
    <3>1. local' = local
      BY <2>3 DEF LogoutTold
    <3>2. CASE Goes(section.who, "logout", "over")
      BY <1>1, <1>2, <3>1, <3>2, HearTyped, LogoutQuietly
    <3>3. ASSUME NEW w \in Conn, at[w]["login"] = "asleep", Notifies(section.who, w)
          PROVE  Quiet
      <4>1. \A d \in Conn, q \in Pool :
              at'[d][q] = IF d = w /\ q = "login" THEN "woken"
                          ELSE IF d = section.who /\ q = "logout" THEN "over" ELSE at[d][q]
        BY <1>2, <3>3, HearTyped, NotifiesTo
      <4>2. \A d \in Conn : at'[d]["send"] = at[d]["send"]
        BY <4>1, HearTyped
      <4>3. \A d \in Conn : at'[d]["login"] \in Early => at[d]["login"] \in Early
        BY <3>3, <4>1, HearTyped DEF Early
      <4>4. \A d \in Conn : Settled(d)' => Settled(d)
        BY <4>1, HearTyped DEF Settled, Closing
      <4> QED BY <1>1, <3>1, <4>2, <4>3, <4>4 DEF Quiet
    <3> QED BY <2>3, <3>2, <3>3 DEF LogoutTold, Notifies
  <2> QED BY <1>5, <2>1, <2>2, <2>3 DEF TellsNoMore
<1> QED BY <1>1, <1>4, <1>5, SectionSame, SilentKeeps

(* What a client hears is kept when the limits rise and nothing is added.    *)
LEMMA ClientStays ==
  ASSUME HearInv, NEW c \in Conn,
         \A a \in Conn : /\ Limits(c)[a] \in Int /\ Limits(c)'[a] \in Int
                         /\ Limits(c)[a] <= Limits(c)'[a],
         out'[c] = out[c], inbox'[c].jobs = inbox[c].jobs,
         at'[c]["login"] \in Early => at[c]["login"] \in Early,
         Settled(c)' /\ ~gone'[c] => (Settled(c) /\ ~gone[c]) \/ Ended(out'[c])
  PROVE  ClientInv(c)'
<1>1. out[c] \in Seq(Lines) /\ inbox[c].jobs \in Seq(Lines)
  BY ClientTyped DEF HearInv
<1>2. /\ Hears(out[c], inbox[c].jobs, Limits(c))
      /\ at[c]["login"] \in Early => Chatless(out[c]) /\ ~Ended(out[c])
      /\ Settled(c) /\ ~gone[c] => Ended(out[c])
  BY DEF HearInv, SequenceInv, ClientInv
<1>3. Hears(out[c], inbox[c].jobs, Limits(c)')
  BY <1>1, <1>2, HearsLooser
<1> QED BY <1>2, <1>3 DEF ClientInv

LEMMA HistoryStays ==
  ASSUME HearInv,
         \A a \in Conn : /\ HistoryLimits[a] \in Int /\ HistoryLimits'[a] \in Int
                         /\ HistoryLimits[a] <= HistoryLimits'[a]
  PROVE  \A i \in 1 .. Len(lastMessages) : Under(lastMessages[i], HistoryLimits')
<1> SUFFICES ASSUME NEW i \in 1 .. Len(lastMessages), IsChat(lastMessages[i])
             PROVE  lastMessages[i].n <= HistoryLimits'[lastMessages[i].by]
  BY DEF Under
<1>1. lastMessages[i] \in Lines
  BY ChatterFits DEF HearInv, HeardInv
<1>2. lastMessages[i].by \in Conn /\ lastMessages[i].n \in Nat
  BY <1>1, LinesTyped
<1>3. lastMessages[i].n <= HistoryLimits[lastMessages[i].by]
  BY DEF HearInv, SequenceInv, HistoryInv, Under
<1> QED BY <1>2, <1>3

(* A quiet step with which one client hears something.                       *)
LEMMA OneHears ==
  ASSUME HearInv, IInv', Quiet, SectionQuiet, lastMessages' = lastMessages, NEW c \in Conn,
         \A d \in Conn \ {c} : out'[d] = out[d] /\ inbox'[d].jobs = inbox[d].jobs,
         out' \in [Conn -> Seq(Lines)],
         out'[c] \in Seq(Fit(c)), inbox'[c].jobs \in Seq(Fit(c)),
         Hears(out'[c], inbox'[c].jobs, Limits(c)), at'[c]["login"] \notin Early,
         Ended(out[c]) => Ended(out'[c])
  PROVE  HearInv'
<1>1. TypeOK /\ TypeOK'
  BY DEF HearInv, IInv
<1>2. ToldInv'
  BY <1>1, ToldStays DEF HearInv
<1>3. HeardInv'
  BY DEF HearInv, HeardInv
<1>4. HistoryInv'
  <2>1. \A a \in Conn : /\ HistoryLimits[a] \in Int /\ HistoryLimits'[a] \in Int
                         /\ HistoryLimits[a] <= HistoryLimits'[a]
    BY <1>1, HistoryLimitsRise DEF Quiet
  <2> QED BY <2>1, HistoryStays DEF HearInv, SequenceInv, HistoryInv
<1>5. ASSUME NEW d \in Conn PROVE ClientInv(d)'
  <2>1. \A a \in Conn : /\ Limits(d)[a] \in Int /\ Limits(d)'[a] \in Int
                         /\ Limits(d)[a] <= Limits(d)'[a]
    BY <1>1, QuietLimits
  <2>2. CASE d # c
    <3>1. /\ at'[d]["login"] \in Early => at[d]["login"] \in Early
          /\ Settled(d)' /\ ~gone'[d] => (Settled(d) /\ ~gone[d]) \/ Ended(out'[d])
      BY DEF Quiet
    <3> QED BY <2>1, <2>2, <3>1, ClientStays
  <2>3. CASE d = c
    <3>1. out'[c] \in Seq(Lines) /\ inbox'[c].jobs \in Seq(Lines)
      BY DEF Fit
    <3>2. Hears(out'[c], inbox'[c].jobs, Limits(c)')
      BY <2>1, <2>3, <3>1, HearsLooser
    <3>3. Settled(c)' /\ ~gone'[c] => Ended(out'[c])
      <4>1. Settled(c)' /\ ~gone'[c] => (Settled(c) /\ ~gone[c]) \/ Ended(out'[c])
        BY DEF Quiet
      <4>2. Settled(c) /\ ~gone[c] => Ended(out[c])
        BY DEF HearInv, SequenceInv, ClientInv
      <4> QED BY <4>1, <4>2
    <3> QED BY <2>3, <3>2, <3>3 DEF ClientInv
  <2> QED BY <2>2, <2>3
<1> QED BY <1>2, <1>3, <1>4, <1>5 DEF HearInv, SequenceInv

LEMMA DeliversHears == ASSUME HearInv, IInv', NEW c \in Conn, Delivers(c) PROVE HearInv'
<1> DEFINE q == inbox[c].jobs
           m == Head(q)
<1>1. /\ q # << >> /\ inbox' = [inbox EXCEPT ![c].jobs = Tail(q)]
      /\ at[c]["receive"] = "serving" /\ local' = local /\ section' = section
      /\ lastMessages' = lastMessages /\ online' = online /\ gone' = gone
      /\ Goes(c, "receive", "sending") /\ Writes(c, << m >>)
  BY DEF Delivers
<1>2. /\ q \in Seq(Fit(c)) /\ q \in Seq(Msg) /\ q \in Seq(Lines)
      /\ out[c] \in Seq(Fit(c)) /\ out[c] \in Seq(Lines)
  BY ClientTyped DEF HearInv, HeardInv
<1>3. m \in Fit(c) /\ m \in Lines /\ ~Ends(m) /\ Tail(q) \in Seq(Fit(c))
  <2>1. m \in Fit(c) /\ m \in Msg /\ Tail(q) \in Seq(Fit(c))
    BY <1>1, <1>2, HeadTailProperties, EmptySeq
  <2> QED BY <2>1, MsgIsLine
<1>4. inbox'[c].jobs = Tail(q) /\ \A d \in Conn \ {c} : inbox'[d].jobs = inbox[d].jobs
  BY <1>1, HearTyped DEF TypeOK
<1>5. Hears(out[c], q, Limits(c)) /\ (gone[c] \/ Ended(out[c]))
  BY <1>1 DEF HearInv, SequenceInv, ClientInv, Settled
<1>6. at[c]["login"] = "over"
  BY <1>1, HearTyped DEF IInv, SessionInv, OrderInv
<1>7. Quiet /\ at'[c]["login"] \notin Early
  <2>1. \A d \in Conn, p \in Pool :
          at'[d][p] = IF d = c /\ p = "receive" THEN "sending" ELSE at[d][p]
    BY <1>1, HearTyped, GoesTo
  <2>2. at[c]["receive"] # "none" /\ local' = local /\ gone' = gone
    BY <1>1
  <2>3. Quiet
    BY <2>1, <2>2, OtherQuiet
  <2> QED BY <1>6, <2>1, <2>3, HearTyped DEF Early
<1>8. /\ out' \in [Conn -> Seq(Lines)]
      /\ \A d \in Conn \ {c} : out'[d] = out[d]
      /\ out'[c] = IF gone[c] THEN out[c] ELSE Append(out[c], m)
  BY <1>1, <1>3, WritesOne, Zenon
<1> HIDE DEF q, m
<1>9. Append(out[c], m) \in Seq(Fit(c)) /\ (Ended(out[c]) => Ended(Append(out[c], m)))
  <2>1. Append(out[c], m) \in Seq(Fit(c))
    BY <1>2, <1>3, AppendsLast
  <2>2. Ended(out[c]) => Ended(Append(out[c], m))
    BY <1>2, <1>3, EndsAppended, Zenon
  <2> QED BY <2>1, <2>2
<1>10. Hears(out[c], Tail(q), Limits(c))
  BY <1>1, <1>2, <1>5, HearsLost
<1>11. ~gone[c] => Hears(Append(out[c], m), Tail(q), Limits(c))
  BY <1>1, <1>2, <1>3, <1>5, HearsDelivered DEF m
<1>12. /\ out'[c] \in Seq(Fit(c)) /\ Hears(out'[c], inbox'[c].jobs, Limits(c))
       /\ Ended(out[c]) => Ended(out'[c])
  BY <1>2, <1>4, <1>8, <1>9, <1>10, <1>11
<1>13. inbox'[c].jobs \in Seq(Fit(c))
  BY <1>3, <1>4
<1> QED BY <1>1, <1>4, <1>7, <1>8, <1>12, <1>13, SectionSame, OneHears

(* The history is written to c.                                             *)
LEMMA HistoryHears ==
  ASSUME HearInv, IInv', NEW c \in Conn,
         UNCHANGED << section, online, inbox, lastMessages, local, gone >>,
         at[c]["login"] = "listing", Writes(c, lastMessages), Goes(c, "login", "history")
  PROVE  HearInv'
<1>1. \A d \in Conn, q \in Pool : at'[d][q] = IF d = c /\ q = "login" THEN "history" ELSE at[d][q]
  BY HearTyped, LoginGoesTo
<1>2. at'[c]["login"] \notin Early /\ Quiet
  BY <1>1, HearTyped, LoginQuiet DEF Early, Closing
<1>3. Hears(out[c], inbox[c].jobs, Limits(c)) /\ Chatless(out[c]) /\ ~Ended(out[c])
  BY DEF HearInv, SequenceInv, ClientInv, Early
<1>4. /\ lastMessages \in Seq(Chatter) /\ lastMessages \in Seq(Lines)
      /\ lastMessages \in Seq(Fit(c)) /\ Rising(lastMessages)
  BY ChatterFits DEF HearInv, HeardInv, SequenceInv, HistoryInv
<1>5. /\ out[c] \in Seq(Fit(c)) /\ out[c] \in Seq(Lines)
      /\ inbox[c].jobs \in Seq(Fit(c)) /\ inbox[c].jobs \in Seq(Lines)
  BY ClientTyped DEF HearInv, HeardInv
<1>6. Hears(out[c] \o lastMessages, inbox[c].jobs, Limits(c))
  BY <1>3, <1>4, <1>5, HearsHistory, Zenon
<1>7. out[c] \o lastMessages \in Seq(Fit(c))
  BY <1>4, <1>5, ConcatProperties
<1>8. /\ out' \in [Conn -> Seq(Lines)]
      /\ \A d \in Conn \ {c} : out'[d] = out[d]
      /\ out'[c] = IF gone[c] THEN out[c] ELSE out[c] \o lastMessages
  BY <1>4, WritesTo
<1>9. /\ out'[c] \in Seq(Fit(c)) /\ inbox'[c].jobs \in Seq(Fit(c))
      /\ Hears(out'[c], inbox'[c].jobs, Limits(c))
      /\ \A d \in Conn \ {c} : out'[d] = out[d] /\ inbox'[d].jobs = inbox[d].jobs
  BY <1>3, <1>5, <1>6, <1>7, <1>8
<1> QED BY <1>2, <1>3, <1>8, <1>9, SectionSame, OneHears

LEMMA WelcomesHears == ASSUME HearInv, IInv', NEW c \in Conn, Welcomes(c) PROVE HearInv'
<1> DEFINE x == [type |-> "online_users", nicks |-> local[c].listed]
           y == [type |-> "done_last_messages"]
<1>1. UNCHANGED << section, online, inbox, lastMessages, local, gone >>
  BY DEF Welcomes
<1>2. /\ x \in Fit(c) /\ y \in Fit(c)
      /\ ~IsChat(x) /\ ~IsChat(y) /\ ~Ends(x) /\ Ends(y)
  <2>1. local[c].listed \in SUBSET Nick
    BY HearTyped DEF TypeOK
  <2> QED BY <2>1, OthersFit DEF Ends
<1>3. CASE at[c]["login"] = "welcoming" /\ Writes(c, << x >>) /\ Goes(c, "login", "listing")
  <2> HIDE DEF x, y
  <2> QED BY <1>1, <1>2, <1>3, ListsHears, Zenon
<1>4. CASE at[c]["login"] = "listing" /\ Writes(c, lastMessages) /\ Goes(c, "login", "history")
  BY <1>1, <1>4, HistoryHears
<1>5. CASE at[c]["login"] = "history" /\ Writes(c, << y >>) /\ Goes(c, "login", "ending")
  <2> HIDE DEF x, y
  <2> QED BY <1>1, <1>2, <1>5, ListsHears, Zenon
<1>6. CASE Goes(c, "login", "over") /\ UNCHANGED out
  <2>1. Quiet
    BY <1>1, <1>6, HearTyped, LoginQuietly DEF Early, Closing
  <2> QED BY <1>1, <1>6, <2>1, SectionSame, SilentKeeps
<1> QED BY <1>3, <1>4, <1>5, <1>6 DEF Welcomes

(* A put(), or the beginning of one, is a step of the critical section.      *)
LEMMA ToldGoesOn ==
  ASSUME HearInv, Broadcasting, NEW u \in section.left,
         section'.role = section.role, section'.who = section.who, section'.msg = section.msg,
         section'.left \subseteq section.left,
         section'.stuck = None \/ section'.stuck \in section'.left,
         at' = at, local' = local, online' = online
  PROVE  /\ ToldInv'
         /\ \A c \in Conn, a \in Conn : Saying(a, c)' => Saying(a, c)
<1>1. section # None
  BY DEF Broadcasting, HeldBy
<1>2. \A c \in Conn, a \in Conn : Saying(a, c)' => Saying(a, c)
  BY <1>1 DEF Saying, HeldBy
<1>3. ASSUME Broadcasting'
      PROVE  /\ section'.stuck # None => section'.stuck \in section'.left
             /\ \A v \in section'.left : Fits(section'.msg, v)
             /\ IF HeldBy("send")'
                THEN /\ section'.msg.by = section'.who
                     /\ section'.msg.n = local'[section'.who].lines
                     /\ section'.msg.type = "private_message" =>
                          section'.left \subseteq {online'[section'.msg.said.destination]}
                ELSE ~IsChat(section'.msg)
  <2>1. HeldBy("send")' <=> HeldBy("send")
    BY <1>1, <1>3 DEF Broadcasting, HeldBy
  <2>2. \A v \in section.left : Fits(section.msg, v)
    BY DEF HearInv, ToldInv
  <2>3. IF HeldBy("send")
        THEN /\ section.msg.by = section.who /\ section.msg.n = local[section.who].lines
             /\ section.msg.type = "private_message" =>
                  section.left \subseteq {online[section.msg.said.destination]}
        ELSE ~IsChat(section.msg)
    BY DEF HearInv, ToldInv
  <2> QED BY <2>1, <2>2, <2>3
<1> QED BY <1>2, <1>3 DEF ToldInv

LEMMA NothingTold ==
  ASSUME HearInv, TypeOK', at' = at, local' = local, lastMessages' = lastMessages,
         \A c \in Conn, a \in Conn : Saying(a, c)' => Saying(a, c)
  PROVE  /\ HistoryInv'
         /\ \A c \in Conn, a \in Conn : /\ Limits(c)[a] \in Int /\ Limits(c)'[a] \in Int
                                        /\ Limits(c)[a] <= Limits(c)'[a]
<1>1. TypeOK
  BY DEF HearInv, IInv
<1>2. ASSUME NEW c \in Conn
      PROVE  \A a \in Conn : /\ Limits(c)[a] \in Int /\ Limits(c)'[a] \in Int
                             /\ Limits(c)[a] <= Limits(c)'[a]
  <2>1. \A a \in Conn : local'[a].lines = local[a].lines /\ (Saying(a, c)' => Saying(a, c))
    OBVIOUS
  <2> QED BY <1>1, <2>1, LimitsRise
<1>3. \A a \in Conn : /\ HistoryLimits[a] \in Int /\ HistoryLimits'[a] \in Int
                       /\ HistoryLimits[a] <= HistoryLimits'[a]
  BY <1>1, HistoryLimitsRise
<1>4. HistoryInv'
  BY <1>3, HistoryStays DEF HearInv, SequenceInv, HistoryInv
<1> QED BY <1>2, <1>4

LEMMA BlocksHears ==
  ASSUME HearInv, IInv', Tells, NEW u \in section.left, Blocks(u),
         UNCHANGED << at, local, online, gone >>
  PROVE  HearInv'
<1>1. /\ Broadcasting /\ inbox' = inbox /\ out' = out /\ lastMessages' = lastMessages
      /\ section' = [section EXCEPT !.stuck = u]
  BY DEF Tells, Blocks
<1>2. section \in Holding /\ section # None
  BY <1>1, HearTyped, HolderTyped DEF Broadcasting, HeldBy
<1>3. /\ section'.role = section.role /\ section'.who = section.who
      /\ section'.msg = section.msg /\ section'.left = section.left /\ section'.stuck = u
  BY <1>1, <1>2 DEF Holding
<1>4. ToldInv' /\ \A c \in Conn, a \in Conn : Saying(a, c)' => Saying(a, c)
  BY <1>1, <1>3, ToldGoesOn
<1>5. TypeOK'
  BY DEF IInv
<1>6. /\ HistoryInv'
      /\ \A c \in Conn, a \in Conn : /\ Limits(c)[a] \in Int /\ Limits(c)'[a] \in Int
                                     /\ Limits(c)[a] <= Limits(c)'[a]
  BY <1>1, <1>4, <1>5, NothingTold
<1>7. ASSUME NEW c \in Conn PROVE ClientInv(c)'
  <2>1. Settled(c)' /\ ~gone'[c] => Settled(c) /\ ~gone[c]
    BY DEF Settled
  <2> QED BY <1>1, <1>6, <2>1, ClientStays
<1>8. HeardInv'
  BY <1>1 DEF HearInv, HeardInv
<1> QED BY <1>4, <1>6, <1>7, <1>8 DEF HearInv, SequenceInv

LEMMA PutsHears ==
  ASSUME HearInv, IInv', Tells, NEW u \in section.left, Puts(u),
         UNCHANGED << at, local, online, gone >>
  PROVE  HearInv'
<1> DEFINE q == inbox[u].jobs
           m == section.msg
<1>1. Broadcasting /\ out' = out /\ lastMessages' = lastMessages
  BY DEF Tells
<1>2. section \in Holding /\ m \in Msg /\ section.left \in SUBSET Conn /\ u \in Conn /\ section.who \in Conn
  BY <1>1, HearTyped, HolderTyped
<1>3. /\ section'.role = section.role /\ section'.who = section.who
      /\ section'.msg = section.msg /\ section'.left = section.left \ {u} /\ section'.stuck = None
  BY <1>2 DEF Puts, Holding
<1>4. ToldInv' /\ \A c \in Conn, a \in Conn : Saying(a, c)' => Saying(a, c)
  BY <1>1, <1>3, ToldGoesOn
<1>5. TypeOK'
  BY DEF IInv
<1>6. /\ HistoryInv'
      /\ \A c \in Conn, a \in Conn : /\ Limits(c)[a] \in Int /\ Limits(c)'[a] \in Int
                                     /\ Limits(c)[a] <= Limits(c)'[a]
  BY <1>1, <1>4, <1>5, NothingTold
<1>7. inbox'[u].jobs = Append(q, m) /\ \A d \in Conn \ {u} : inbox'[d] = inbox[d]
  BY <1>2, HearTyped DEF Puts, TypeOK
<1>8. /\ q \in Seq(Fit(u)) /\ q \in Seq(Lines)
      /\ out[u] \in Seq(Fit(u)) /\ out[u] \in Seq(Lines)
  BY <1>2, ClientTyped DEF HearInv, HeardInv
<1>9. m \in Fit(u) /\ m \in Lines
  <2>1. Fits(m, u)
    BY <1>1 DEF HearInv, ToldInv
  <2> QED BY <1>2, <2>1, MsgIsLine DEF Fit
<1>10. ASSUME NEW a \in Conn, IsChat(m), a = m.by
       PROVE  /\ m.n \in Nat /\ Limits(u)[a] = m.n - 1 /\ Limits(u)'[a] = m.n
  <2>1. HeldBy("send") /\ a = section.who /\ m.n = local[a].lines
    BY <1>1, <1>10 DEF HearInv, ToldInv
  <2>2. at[a]["send"] = "telling"
    BY <2>1, HearTyped DEF IInv, SectionInv
  <2>3. Saying(a, u)
    BY <2>1 DEF Saying
  <2>4. ~Saying(a, u)'
    BY <1>3, <2>1, <2>2 DEF Saying
  <2>5. m.n \in Nat /\ local'[a].lines = m.n
    BY <1>9, <1>10, <2>1, LinesTyped
  <2>6. /\ Limits(u)[a] = IF Saying(a, u) THEN local[a].lines - 1 ELSE local[a].lines
        /\ Limits(u)'[a] = IF Saying(a, u)' THEN local'[a].lines - 1 ELSE local'[a].lines
    BY DEF Limits
  <2> QED BY <2>1, <2>3, <2>4, <2>5, <2>6
<1>11. Hears(out[u], q, Limits(u))
  BY <1>2 DEF HearInv, SequenceInv, ClientInv
<1>12. Hears(out[u], q, Limits(u)')
  BY <1>2, <1>6, <1>8, <1>11, HearsLooser
<1>13. Under(m, Limits(u)')
  <2> SUFFICES ASSUME IsChat(m) PROVE m.n <= Limits(u)'[m.by]
    BY DEF Under
  <2>1. m.by \in Conn
    BY <1>9, LinesTyped
  <2> QED BY <1>10, <2>1
<1>14. ASSUME NEW k \in Lines, Under(k, Limits(u)) PROVE Later(k, m)
  <2> SUFFICES ASSUME IsChat(k), IsChat(m), k.by = m.by PROVE k.n < m.n
    BY DEF Later
  <2>1. k.n \in Nat /\ k.n <= Limits(u)[m.by] /\ m.by \in Conn
    BY <1>9, <1>14, LinesTyped DEF Under
  <2> QED BY <1>10, <2>1
<1>15. /\ \A i \in 1 .. Len(q) : Later(q[i], m)
       /\ \A i \in 1 .. Len(out[u]) : Live(out[u], i) => Later(out[u][i], m)
  BY <1>8, <1>11, <1>14 DEF Hears
<1> HIDE DEF q, m
<1>16. Hears(out[u], Append(q, m), Limits(u)')
  BY <1>8, <1>9, <1>12, <1>13, <1>15, HearsPut
<1>17. Append(q, m) \in Seq(Fit(u))
  BY <1>8, <1>9, AppendProperties
<1>18. HeardInv'
  BY <1>1, <1>7, <1>17 DEF HearInv, HeardInv
<1>19. ASSUME NEW d \in Conn PROVE ClientInv(d)'
  <2>1. CASE d = u
    <3>1. /\ at'[d]["login"] \in Early => Chatless(out'[d]) /\ ~Ended(out'[d])
          /\ Settled(d)' /\ ~gone'[d] => Ended(out'[d])
      BY <1>1 DEF HearInv, SequenceInv, ClientInv, Settled
    <3>2. Hears(out'[d], inbox'[d].jobs, Limits(d)')
      BY <1>1, <1>7, <1>16, <2>1
    <3> QED BY <3>1, <3>2 DEF ClientInv
  <2>2. CASE d # u
    <3>1. Settled(d)' /\ ~gone'[d] => Settled(d) /\ ~gone[d]
      BY DEF Settled
    <3> QED BY <1>1, <1>6, <1>7, <2>2, <3>1, ClientStays
  <2> QED BY <2>1, <2>2
<1> QED BY <1>4, <1>6, <1>18, <1>19 DEF HearInv, SequenceInv

LEMMA TellsHears == ASSUME HearInv, IInv', Tells PROVE HearInv'
<1>1. Broadcasting /\ UNCHANGED << at, local, online, gone >>
  BY DEF Tells
<1>2. section.stuck # None => section.stuck \in section.left
  BY <1>1 DEF HearInv, ToldInv
<1>3. PICK u \in section.left : Puts(u) \/ Blocks(u)
  BY <1>2 DEF Tells
<1> QED BY <1>1, <1>3, PutsHears, BlocksHears

(* A step of a sender after which nobody hears more yet.                     *)
LEMMA SayingHears ==
  ASSUME HearInv, IInv', ToldInv', UNCHANGED << inbox, out, lastMessages >>,
         gone' = gone,
         \A d \in Conn : at'[d]["login"] = at[d]["login"] /\ (Settled(d)' => Settled(d)),
         \A a \in Conn : \/ local'[a].lines = local[a].lines + 1
                         \/ /\ local'[a].lines = local[a].lines
                            /\ \A c \in Conn : Saying(a, c)' => Saying(a, c)
                            /\ at'[a]["send"] \in Talking => at[a]["send"] \in Talking
  PROVE  HearInv'
<1>1. TypeOK /\ TypeOK'
  BY DEF HearInv, IInv
<1>2. HeardInv'
  BY DEF HearInv, HeardInv
<1>3. HistoryInv'
  <2>1. \A a \in Conn : /\ HistoryLimits[a] \in Int /\ HistoryLimits'[a] \in Int
                         /\ HistoryLimits[a] <= HistoryLimits'[a]
    BY <1>1, HistoryLimitsRise
  <2> QED BY <2>1, HistoryStays DEF HearInv, SequenceInv, HistoryInv
<1>4. ASSUME NEW c \in Conn PROVE ClientInv(c)'
  <2>1. \A a \in Conn : /\ Limits(c)[a] \in Int /\ Limits(c)'[a] \in Int
                         /\ Limits(c)[a] <= Limits(c)'[a]
    BY <1>1, LimitsRise
  <2> QED BY <2>1, ClientStays
<1> QED BY <1>2, <1>3, <1>4 DEF HearInv, SequenceInv

LEMMA ReadTo ==
  ASSUME local \in [Conn -> [listed : SUBSET Nick, command : Command, lines : Nat]],
         NEW c \in Conn, NEW message,
         local' = [local EXCEPT ![c].command = message, ![c].lines = @ + 1]
  PROVE  /\ local'[c].command = message /\ local'[c].lines = local[c].lines + 1
         /\ \A d \in Conn \ {c} : local'[d] = local[d]
BY SMTT(30)

LEMMA ReadsChatHears == ASSUME HearInv, IInv', NEW c \in Conn, ReadsChat(c) PROVE HearInv'
<1>1. /\ at[c]["send"] = "reading" /\ Goes(c, "send", "executing") /\ section' = section
      /\ UNCHANGED << inbox, out, lastMessages >> /\ online' = online /\ gone' = gone
  BY DEF ReadsChat
<1>2. PICK message : local' = [local EXCEPT ![c].command = message, ![c].lines = @ + 1]
  BY DEF ReadsChat
<1>3. /\ local'[c].lines = local[c].lines + 1
      /\ \A d \in Conn \ {c} : local'[d] = local[d]
  BY <1>2, HearTyped, ReadTo DEF TypeOK
<1>4. \A d \in Conn, q \in Pool : at'[d][q] = IF d = c /\ q = "send" THEN "executing" ELSE at[d][q]
  BY <1>1, HearTyped, SendGoesTo
<1>5. \A d \in Conn : /\ at'[d]["login"] = at[d]["login"] /\ at'[d]["receive"] = at[d]["receive"]
                      /\ d # c => at'[d]["send"] = at[d]["send"]
  BY <1>4, HearTyped
<1>6. ToldInv'
  <2>1. Broadcasting => section.who \in Conn
    BY HearTyped, HolderTyped
  <2>2. HeldBy("send") => section.who # c
    BY <1>1, HearTyped DEF IInv, SectionInv
  <2>3. HeldBy("send") => Broadcasting
    BY DEF Broadcasting
  <2>4. HeldBy("send") => local'[section.who] = local[section.who]
    BY <1>3, <2>1, <2>2, <2>3
  <2>5. /\ Broadcasting' <=> Broadcasting
        /\ HeldBy("send")' <=> HeldBy("send")
    BY <1>1 DEF Broadcasting, HeldBy
  <2> QED BY <1>1, <2>4, <2>5 DEF HearInv, ToldInv
<1>7. \A a \in Conn : \/ local'[a].lines = local[a].lines + 1
                      \/ /\ local'[a].lines = local[a].lines
                         /\ \A d \in Conn : Saying(a, d)' => Saying(a, d)
                         /\ at'[a]["send"] \in Talking => at[a]["send"] \in Talking
  BY <1>1, <1>3, <1>5 DEF Saying, HeldBy
<1>8. \A d \in Conn : Settled(d)' => Settled(d)
  BY <1>1, <1>5 DEF Settled
<1> QED BY <1>1, <1>5, <1>6, <1>7, <1>8, SayingHears

(* The sender of c enters the critical section with m for those in left.     *)
LEMMA BeginsHears ==
  ASSUME HearInv, IInv', NEW c \in Conn, at[c]["send"] = "executing",
         NEW type \in {"private_message", "public_message"}, NEW left \in SUBSET Conn,
         section' = Section("send", c, Chat(type, c), left),
         \A u \in left : Fits(Chat(type, c), u),
         type = "private_message" => left \subseteq {online[local[c].command.destination]},
         Goes(c, "send", "telling"),
         local' = local \/ local' = [local EXCEPT ![c].command = None],
         UNCHANGED << inbox, out, lastMessages >>, online' = online, gone' = gone
  PROVE  HearInv'
<1>1. \A d \in Conn, q \in Pool : at'[d][q] = IF d = c /\ q = "send" THEN "telling" ELSE at[d][q]
  BY HearTyped, SendGoesTo
<1>2. \A d \in Conn : /\ at'[d]["login"] = at[d]["login"] /\ at'[d]["receive"] = at[d]["receive"]
                      /\ d # c => at'[d]["send"] = at[d]["send"]
  BY <1>1, HearTyped
<1>3. at'[c]["send"] = "telling"
  BY <1>1, HearTyped
<1>4. \A d \in Conn : local'[d].lines = local[d].lines
  <2>1. CASE local' = local
    BY <2>1
  <2>2. CASE local' = [local EXCEPT ![c].command = None]
    BY <2>2, HearTyped DEF TypeOK
  <2> QED BY <2>1, <2>2
<1>5. /\ section'.role = "send" /\ section'.who = c /\ section'.left = left
      /\ section'.stuck = None /\ section'.msg = Chat(type, c)
  BY DEF Section
<1>6. /\ Chat(type, c).by = c /\ Chat(type, c).n = local[c].lines
      /\ Chat(type, c).type = type /\ Chat(type, c).said = local[c].command
  BY DEF Chat
<1>7. ToldInv'
  <2> SUFFICES ASSUME Broadcasting'
               PROVE  /\ HeldBy("send")'
                      /\ section'.stuck # None => section'.stuck \in section'.left
                      /\ \A u \in section'.left : Fits(section'.msg, u)
                      /\ section'.msg.by = section'.who
                      /\ section'.msg.n = local'[section'.who].lines
                      /\ section'.msg.type = "private_message" =>
                           section'.left \subseteq {online'[section'.msg.said.destination]}
    BY DEF ToldInv
  <2>1. HeldBy("send")'
    BY <1>5 DEF Broadcasting, HeldBy
  <2> QED BY <1>4, <1>5, <1>6, <2>1
<1>8. ASSUME NEW a \in Conn, NEW d \in Conn, Saying(a, d)' PROVE Saying(a, d)
  <2>1. CASE a = c
    BY <2>1 DEF Saying
  <2>2. CASE a # c
    BY <1>2, <1>5, <1>8, <2>2 DEF Saying
  <2> QED BY <2>1, <2>2
<1>9. \A a \in Conn : at'[a]["send"] \in Talking => at[a]["send"] \in Talking
  BY <1>2 DEF Talking
<1>10. \A d \in Conn : Settled(d)' => Settled(d)
  BY <1>2 DEF Settled
<1> QED BY <1>2, <1>4, <1>7, <1>8, <1>9, <1>10, SayingHears

LEMMA DeniedHears ==
  ASSUME HearInv, IInv', NEW c \in Conn, UNCHANGED << inbox, lastMessages >>,
         section' = Section("denial", c, None, {}), gone' = gone,
         local' = [local EXCEPT ![c].command = None], at[c]["send"] = "executing",
         Goes(c, "send", "denying"), Writes(c, Error)
  PROVE  HearInv'
<1>1. \A d \in Conn : local'[d].lines = local[d].lines
  BY HearTyped DEF TypeOK
<1>2. \A d \in Conn, q \in Pool : at'[d][q] = IF d = c /\ q = "send" THEN "denying" ELSE at[d][q]
  BY HearTyped, SendGoesTo
<1>3. Quiet
  BY <1>1, <1>2, SendQuiet DEF Talking
<1>4. /\ SectionQuiet /\ lastMessages' = lastMessages
      /\ \A d \in Conn : inbox'[d].jobs = inbox[d].jobs
  BY DEF SectionQuiet
<1> QED BY <1>3, <1>4, WritesError, QuietKeeps

LEMMA SendsHears ==
  ASSUME HearInv, IInv', NEW c \in Conn, SendsPrivate(c) \/ SendsPublic(c)
  PROVE  HearInv'
<1> DEFINE message == local[c].command
<1>1. /\ at[c]["send"] = "executing" /\ UNCHANGED << inbox, lastMessages >>
      /\ online' = online /\ gone' = gone
  BY DEF SendsPrivate, SendsPublic
<1>2. CASE SendsPublic(c)
  <2>1. UsersOnline(online) \ {c} \in SUBSET Conn
    BY HearTyped, OnlineTyped DEF TypeOK
  <2>2. \A u : Fits(Chat("public_message", c), u)
    BY DEF Fits, Chat
  <2>3. /\ section' = Section("send", c, Chat("public_message", c), UsersOnline(online) \ {c})
        /\ Goes(c, "send", "telling") /\ out' = out /\ local' = local
    BY <1>2 DEF SendsPublic
  <2> QED BY <1>1, <2>1, <2>2, <2>3, BeginsHears
<1>3. CASE SendsPrivate(c)
  <2>0. local' = [local EXCEPT ![c].command = None]
    BY <1>3 DEF SendsPrivate
  <2>1. CASE /\ section' = Section("denial", c, None, {}) /\ Goes(c, "send", "denying")
             /\ Writes(c, Error)
    BY <1>1, <2>0, <2>1, DeniedHears
  <2>2. CASE /\ ~Denied(c, message)
             /\ section' = Section("send", c, Chat("private_message", c), {online[message.destination]})
             /\ Goes(c, "send", "telling") /\ UNCHANGED out
    <3> DEFINE u == online[message.destination]
    <3>1. /\ message.destination # message.source /\ message.source = NickOf[c]
          /\ message.destination \in Nick /\ u # None
      BY <2>2 DEF Denied, IsOnline
    <3>2. u \in Conn /\ NickOf[u] = message.destination
      <4>1. online \in [Nick -> Conn \cup {None}]
        BY HearTyped DEF TypeOK
      <4>2. \A n \in Nick : online[n] # None => NickOf[online[n]] = n
        BY HearTyped DEF IInv, SessionInv, OwnerInv
      <4> HIDE DEF message
      <4> QED BY <3>1, <4>1, <4>2
    <3>3. \A v \in {u} : Fits(Chat("private_message", c), v)
      BY <3>1, <3>2 DEF Fits, Chat
    <3>4. {u} \in SUBSET Conn
      BY <3>2
    <3> QED BY <1>1, <2>0, <2>2, <3>3, <3>4, BeginsHears
  <2> QED BY <1>3, <2>1, <2>2 DEF SendsPrivate
<1> QED BY <1>2, <1>3

(* Messages::push                                                            *)
LEMMA PushRises ==
  ASSUME NEW h \in Seq(Chatter), Rising(h), NEW m \in Chatter, NEW f,
         \A i \in 1 .. Len(h) : Later(h[i], m) /\ Under(h[i], f), Under(m, f)
  PROVE  /\ Push(h, m) \in Seq(Chatter) /\ Rising(Push(h, m))
         /\ \A i \in 1 .. Len(Push(h, m)) : Under(Push(h, m)[i], f)
<1>1. ASSUME NEW g \in Seq(Chatter), Rising(g),
             \A i \in 1 .. Len(g) : Later(g[i], m) /\ Under(g[i], f)
      PROVE  /\ Append(g, m) \in Seq(Chatter) /\ Rising(Append(g, m))
             /\ \A i \in 1 .. Len(Append(g, m)) : Under(Append(g, m)[i], f)
  <2>1. g \in Seq(Lines) /\ m \in Lines
    BY ChatterFits
  <2>2. /\ Len(g) \in Nat /\ Len(Append(g, m)) = Len(g) + 1 /\ Append(g, m)[Len(g) + 1] = m
        /\ \A i \in 1 .. Len(g) : Append(g, m)[i] = g[i]
        /\ Append(g, m) \in Seq(Chatter)
    BY AppendProperties
  <2>3. Rising(Append(g, m))
    BY <1>1, <2>1, RisingAppended
  <2>4. \A i \in 1 .. Len(Append(g, m)) : i = Len(g) + 1 \/ i \in 1 .. Len(g)
    BY <2>2
  <2> QED BY <1>1, <2>2, <2>3, <2>4
<1>2. CASE Len(h) >= MaxMessages
  <2>1. h # << >> /\ Push(h, m) = Append(Tail(h), m)
    BY <1>2, SizeAssumption DEF Push
  <2>2. /\ Len(h) \in Nat \ {0} /\ Tail(h) \in Seq(Chatter) /\ Len(Tail(h)) = Len(h) - 1
        /\ \A i \in 1 .. Len(Tail(h)) : Tail(h)[i] = h[i + 1]
    BY <2>1, HeadTailProperties, EmptySeq
  <2>3. \A i \in 1 .. Len(Tail(h)) : i + 1 \in 1 .. Len(h) /\ Tail(h)[i] = h[i + 1]
    BY <2>2
  <2>4. Rising(Tail(h))
    <3> SUFFICES ASSUME NEW i \in 1 .. Len(Tail(h)), NEW j \in 1 .. Len(Tail(h)), i < j
                 PROVE  Later(Tail(h)[i], Tail(h)[j])
      BY DEF Rising
    <3>1. i + 1 < j + 1
      OBVIOUS
    <3> QED BY <2>3, <3>1 DEF Rising
  <2>5. \A i \in 1 .. Len(Tail(h)) : Later(Tail(h)[i], m) /\ Under(Tail(h)[i], f)
    BY <2>3
  <2> QED BY <1>1, <2>1, <2>2, <2>4, <2>5
<1>3. CASE ~(Len(h) >= MaxMessages)
  BY <1>1, <1>3 DEF Push
<1> QED BY <1>2, <1>3

LEMMA ArchivesHears == ASSUME HearInv, IInv', NEW c \in Conn, Archives(c) PROVE HearInv'
<1> DEFINE m == Chat("public_message", c)
<1>1. /\ at[c]["send"] = "archiving" /\ lastMessages' = Push(lastMessages, m)
      /\ Goes(c, "send", "reading") /\ UNCHANGED << section, inbox, out >>
      /\ online' = online /\ gone' = gone /\ local' = [local EXCEPT ![c].command = None]
  BY DEF Archives
<1>2. \A d \in Conn, q \in Pool : at'[d][q] = IF d = c /\ q = "send" THEN "reading" ELSE at[d][q]
  BY <1>1, HearTyped, SendGoesTo
<1>3. \A d \in Conn : local'[d].lines = local[d].lines
  BY <1>1, HearTyped DEF TypeOK
<1>4. Quiet
  BY <1>1, <1>2, <1>3, SendQuiet DEF Talking
<1>5. TypeOK /\ TypeOK' /\ SectionQuiet
  BY <1>1, SectionSame DEF HearInv, IInv
<1>6. ToldInv'
  BY <1>4, <1>5, ToldStays DEF HearInv
<1>7. \A d \in Conn : ClientInv(d)'
  <2> SUFFICES ASSUME NEW d \in Conn PROVE ClientInv(d)'
    OBVIOUS
  <2>1. \A a \in Conn : /\ Limits(d)[a] \in Int /\ Limits(d)'[a] \in Int
                         /\ Limits(d)[a] <= Limits(d)'[a]
    BY <1>4, <1>5, QuietLimits
  <2>2. /\ at'[d]["login"] \in Early => at[d]["login"] \in Early
        /\ Settled(d)' /\ ~gone'[d] => (Settled(d) /\ ~gone[d]) \/ Ended(out'[d])
    BY <1>4 DEF Quiet
  <2> QED BY <1>1, <2>1, <2>2, ClientStays
<1>8. /\ m \in Chatter /\ IsChat(m) /\ m.by = c /\ m.n = local[c].lines /\ m.n \in Nat
      /\ HistoryLimits[c] = m.n - 1 /\ HistoryLimits'[c] = m.n
  <2>1. local[c].lines \in Nat /\ local[c].command \in Command
    BY <1>5 DEF TypeOK
  <2>2. m \in Chatter /\ IsChat(m) /\ m.by = c /\ m.n = local[c].lines
    BY <2>1 DEF Chatter, Chat, IsChat
  <2>3. at'[c]["send"] = "reading"
    BY <1>2, HearTyped
  <2> QED BY <1>1, <1>3, <2>1, <2>2, <2>3 DEF HistoryLimits
<1> HIDE DEF m
<1>9. /\ lastMessages \in Seq(Chatter) /\ Rising(lastMessages)
      /\ \A i \in 1 .. Len(lastMessages) : Under(lastMessages[i], HistoryLimits)
      /\ \A i \in 1 .. Len(lastMessages) : lastMessages[i] \in Lines
  BY ChatterFits DEF HearInv, HeardInv, SequenceInv, HistoryInv
<1>10. \A i \in 1 .. Len(lastMessages) : Under(lastMessages[i], HistoryLimits')
  <2>1. \A a \in Conn : /\ HistoryLimits[a] \in Int /\ HistoryLimits'[a] \in Int
                         /\ HistoryLimits[a] <= HistoryLimits'[a]
    BY <1>4, <1>5, HistoryLimitsRise DEF Quiet
  <2> QED BY <2>1, HistoryStays
<1>11. ASSUME NEW k \in Lines, Under(k, HistoryLimits) PROVE Later(k, m)
  <2> SUFFICES ASSUME IsChat(k), k.by = c PROVE k.n < m.n
    BY <1>8 DEF Later
  <2>1. k.n \in Nat /\ k.n <= HistoryLimits[c]
    BY <1>11, LinesTyped DEF Under
  <2> QED BY <1>8, <2>1
<1>12. Under(m, HistoryLimits')
  BY <1>8 DEF Under
<1>13. lastMessages' \in Seq(Chatter) /\ HistoryInv'
  <2>1. \A i \in 1 .. Len(lastMessages) : Later(lastMessages[i], m) /\ Under(lastMessages[i], HistoryLimits')
    BY <1>9, <1>10, <1>11
  <2> QED BY <1>1, <1>8, <1>9, <1>12, <2>1, PushRises DEF HistoryInv
<1>14. HeardInv'
  BY <1>1, <1>13 DEF HearInv, HeardInv
<1> QED BY <1>6, <1>7, <1>13, <1>14 DEF HearInv, SequenceInv

-----------------------------------------------------------------------------
(* What clients hear, in every state.                                        *)
LEMMA HearInit == Init => HearInv
<1> SUFFICES ASSUME Init PROVE HearInv
  OBVIOUS
<1>1. IInv
  BY IInvInit
<1>2. << >> \in Seq(Lines) /\ << >> \in Seq(Chatter) /\ \A c \in Conn : << >> \in Seq(Fit(c))
  OBVIOUS
<1>3. /\ out = [c \in Conn |-> << >>] /\ lastMessages = << >> /\ section = None
      /\ \A c \in Conn : out[c] = << >> /\ inbox[c].jobs = << >>
      /\ \A c \in Conn : /\ at[c]["login"] = "none" /\ at[c]["send"] = "none"
                         /\ at[c]["receive"] = "none"
  BY DEF Init, Pool
<1>4. HeardInv
  BY <1>2, <1>3 DEF HeardInv
<1>5. ToldInv
  BY <1>3 DEF ToldInv, Broadcasting, HeldBy
<1>6. SequenceInv
  BY <1>3 DEF SequenceInv, ClientInv, HistoryInv, Hears, RisingOut, Rising, Joined, Chatless,
              Ended, Settled, Closing
<1> QED BY <1>1, <1>4, <1>5, <1>6 DEF HearInv

LEMMA GoneStays == GoneTyped /\ [Next]_vars => GoneTyped'
<1> SUFFICES ASSUME GoneTyped, [Next]_vars PROVE GoneTyped'
  OBVIOUS
<1>1. CASE UNCHANGED gone
  BY <1>1 DEF GoneTyped
<1>2. CASE \E c \in Conn : Leaves(c)
  BY <1>2 DEF GoneTyped, Leaves
<1>3. CASE UNCHANGED vars \/ QueuesAccepted \/ SectionRuns
  BY <1>1, <1>3 DEF vars, QueuesAccepted, SectionRuns, Tells, TellThrows, TellsNoMore
<1>4. ASSUME NEW c \in Conn,
             \/ Accepts(c) \/ Listens(c) \/ LoginRuns(c) \/ SpuriousWakeup(c)
             \/ SenderRuns(c) \/ ReceiverRuns(c) \/ LogoutRuns(c)
      PROVE  UNCHANGED gone
  <2>1. CASE LoginRuns(c) \/ SpuriousWakeup(c)
    BY <2>1 DEF LoginRuns, SpuriousWakeup, TakesConnection, ReceivesNickname, Corrects,
                ChecksNickname, Refuses, WakesUp, Welcomes, Welcomed, StartsServices
  <2>2. CASE SenderRuns(c)
    BY <2>2 DEF SenderRuns, TakesToSend, ReadsChat, StopsReading, ReadThrows, SendsPrivate,
                Answered, SendsPublic, Archives, StartsLogout
  <2>3. CASE ReceiverRuns(c) \/ LogoutRuns(c)
    BY <2>3 DEF ReceiverRuns, TakesToReceive, Delivers, Delivered, StopsDelivering,
                LogoutRuns, ClosesInbox, Erases
  <2> QED BY <1>4, <2>1, <2>2, <2>3 DEF Accepts, Listens
<1> QED BY <1>1, <1>2, <1>3, <1>4 DEF Next

LEMMA HearNext == HearInv /\ GoneTyped /\ [Next]_vars => HearInv'
<1> SUFFICES ASSUME HearInv, GoneTyped, [Next]_vars PROVE HearInv'
  OBVIOUS
<1>1. IInv'
  BY IInvNext DEF HearInv
<1>2. CASE UNCHANGED vars
  BY <1>1, <1>2, NobodyMoves
<1>3. CASE QueuesAccepted
  BY <1>1, <1>3, MainHears
<1>4. CASE SectionRuns
  BY <1>1, <1>4, TellsHears, SectionEndHears DEF SectionRuns
<1>5. ASSUME NEW c \in Conn,
             \/ Accepts(c) \/ Leaves(c) \/ Listens(c) \/ LoginRuns(c) \/ SpuriousWakeup(c)
             \/ SenderRuns(c) \/ ReceiverRuns(c) \/ LogoutRuns(c)
      PROVE  HearInv'
  <2>1. CASE Accepts(c) \/ Leaves(c) \/ Listens(c)
    BY <1>1, <2>1, MainHears, LeavesHears
  <2>2. CASE LoginRuns(c) \/ SpuriousWakeup(c)
    BY <1>1, <2>2, LoginHears, WelcomesHears
  <2>3. CASE SenderRuns(c)
    BY <1>1, <2>3, SenderHears, ReadsChatHears, SendsHears, ArchivesHears DEF SenderRuns
  <2>4. CASE ReceiverRuns(c) \/ LogoutRuns(c)
    BY <1>1, <2>4, ReceiverHears, DeliversHears DEF ReceiverRuns
  <2> QED BY <1>5, <2>1, <2>2, <2>3, <2>4
<1> QED BY <1>2, <1>3, <1>4, <1>5 DEF Next

LEMMA HearHolds == Spec => [](HearInv /\ GoneTyped)
<1>1. Init => HearInv /\ GoneTyped
  BY HearInit DEF Init, GoneTyped
<1> QED BY <1>1, HearNext, GoneStays, PTL DEF Spec

(* What is said in private is signed, reaches only the user that it is      *)
(* addressed to, and never the history.                                     *)
THEOREM PrivateStaysPrivateHolds == Spec => []PrivateStaysPrivate
<1>1. HearInv => PrivateStaysPrivate
  <2> SUFFICES ASSUME HearInv PROVE PrivateStaysPrivate
    OBVIOUS
  <2>1. ASSUME NEW m \in ToSet(lastMessages) PROVE m.type = "public_message"
    <3>1. lastMessages \in Seq(Chatter)
      BY DEF HearInv, HeardInv
    <3>2. m \in Chatter
      BY <3>1 DEF ToSet
    <3> QED BY <3>2 DEF Chatter
  <2>2. ASSUME NEW c \in Conn, NEW m \in ToSet(Heard(c)), m.type = "private_message"
        PROVE  m.by # c /\ m.said.source = NickOf[m.by] /\ m.said.destination = NickOf[c]
    <3>1. out[c] \in Seq(Fit(c)) /\ inbox[c].jobs \in Seq(Fit(c))
      BY DEF HearInv, HeardInv
    <3>2. Heard(c) \in Seq(Fit(c))
      BY <3>1, ConcatProperties DEF Heard
    <3>3. m \in Fit(c)
      BY <3>2 DEF ToSet
    <3> QED BY <2>2, <3>3 DEF Fit, Fits
  <2>3. HeldBy("send") /\ section.msg.type = "private_message" =>
          section.left \subseteq {online[section.msg.said.destination]}
    BY DEF HearInv, ToldInv, Broadcasting
  <2> QED BY <2>1, <2>2, <2>3 DEF PrivateStaysPrivate
<1> QED BY <1>1, HearHolds, PTL

(* Within the history and within what follows it, the messages of one user  *)
(* reach another in the order they were said in, each once.                 *)
LEMMA HistoryIsBefore ==
  ASSUME HearInv, NEW c \in Conn
  PROVE  /\ out[c] \in Seq(Lines) /\ inbox[c].jobs \in Seq(Lines)
         /\ Len(Heard(c)) = Len(out[c]) + Len(inbox[c].jobs)
         /\ Len(out[c]) \in Nat /\ Len(inbox[c].jobs) \in Nat
         /\ \A k \in 1 .. Len(out[c]) : /\ Heard(c)[k] = out[c][k]
                                        /\ InHistory(c, k) <=> ~Live(out[c], k)
         /\ \A k \in 1 .. Len(inbox[c].jobs) : /\ Heard(c)[Len(out[c]) + k] = inbox[c].jobs[k]
                                               /\ ~InHistory(c, Len(out[c]) + k)
<1> DEFINE o == out[c]
           q == inbox[c].jobs
<1>1. o \in Seq(Lines) /\ q \in Seq(Lines)
  BY ClientTyped DEF HearInv
<1>2. /\ Len(Heard(c)) = Len(o) + Len(q) /\ Len(o) \in Nat /\ Len(q) \in Nat
      /\ \A k \in 1 .. Len(o) + Len(q) :
           Heard(c)[k] = IF k <= Len(o) THEN o[k] ELSE q[k - Len(o)]
  BY <1>1, ConcatProperties, LenProperties DEF Heard
<1>3. \A k \in 1 .. Len(o) : InHistory(c, k) <=> ~Live(o, k)
  BY <1>1, <1>2 DEF InHistory, Live, Ends
<1>4. \A k \in 1 .. Len(q) : ~InHistory(c, Len(o) + k)
  BY <1>2 DEF InHistory
<1> HIDE DEF o, q
<1>5. ASSUME NEW k \in 1 .. Len(q) PROVE Heard(c)[Len(o) + k] = q[k]
  <2>1. Len(o) + k \in 1 .. Len(o) + Len(q) /\ ~(Len(o) + k <= Len(o)) /\ (Len(o) + k) - Len(o) = k
    BY <1>2
  <2> QED BY <1>2, <2>1
<1>6. \A k \in 1 .. Len(o) : Heard(c)[k] = o[k]
  BY <1>2
<1> QED BY <1>1, <1>2, <1>3, <1>4, <1>5, <1>6 DEF o, q

LEMMA InOrderWithin ==
  ASSUME HearInv, NEW c \in Conn,
         NEW i \in 1 .. Len(Heard(c)), NEW j \in 1 .. Len(Heard(c)), i < j,
         InHistory(c, i) <=> InHistory(c, j)
  PROVE  Later(Heard(c)[i], Heard(c)[j])
<1> DEFINE o == out[c]
           q == inbox[c].jobs
<1>1. RisingOut(o) /\ Rising(q) /\ Joined(o, q)
  BY DEF HearInv, SequenceInv, ClientInv, Hears
<1>2. /\ Len(Heard(c)) = Len(o) + Len(q) /\ Len(o) \in Nat /\ Len(q) \in Nat
      /\ \A k \in 1 .. Len(o) : Heard(c)[k] = o[k] /\ (InHistory(c, k) <=> ~Live(o, k))
      /\ \A k \in 1 .. Len(q) : Heard(c)[Len(o) + k] = q[k] /\ ~InHistory(c, Len(o) + k)
  BY HistoryIsBefore
<1>3. InHistory(c, i) <=> InHistory(c, j)
  OBVIOUS
<1> HIDE DEF o, q
<1>4. CASE j <= Len(o)
  <2>1. i \in 1 .. Len(o) /\ j \in 1 .. Len(o)
    BY <1>2, <1>4
  <2> QED BY <1>1, <1>2, <1>3, <2>1 DEF RisingOut
<1>5. CASE i <= Len(o) /\ ~(j <= Len(o))
  <2>1. i \in 1 .. Len(o) /\ j - Len(o) \in 1 .. Len(q) /\ Len(o) + (j - Len(o)) = j
    BY <1>2, <1>5
  <2>2. Heard(c)[j] = q[j - Len(o)] /\ ~InHistory(c, j)
    BY <1>2, <2>1
  <2>3. Heard(c)[i] = o[i] /\ Live(o, i)
    BY <1>2, <1>3, <2>1, <2>2
  <2> QED BY <1>1, <2>1, <2>2, <2>3 DEF Joined
<1>6. CASE ~(i <= Len(o))
  <2>1. /\ i - Len(o) \in 1 .. Len(q) /\ j - Len(o) \in 1 .. Len(q)
        /\ i - Len(o) < j - Len(o)
        /\ Len(o) + (i - Len(o)) = i /\ Len(o) + (j - Len(o)) = j
    BY <1>2, <1>6
  <2>2. Heard(c)[i] = q[i - Len(o)] /\ Heard(c)[j] = q[j - Len(o)]
    BY <1>2, <2>1
  <2> QED BY <1>1, <2>1, <2>2 DEF Rising
<1> QED BY <1>4, <1>5, <1>6

-----------------------------------------------------------------------------
(* How far a connection is, as what its client displays depends on it.      *)
Outside == {"none", "queued", "hello", "correcting", "checking", "refusing"}

Entering == {"asleep", "woken", "announcing"}

Listed == {"listing", "history", "ending", "to_send", "to_receive"}

Place(c) ==
  IF at[c]["send"] # "none" \/ at[c]["login"] \in Listed THEN "served"
  ELSE IF at[c]["login"] \in Outside THEN "outside"
  ELSE IF at[c]["login"] \in Entering THEN "entering"
  ELSE IF at[c]["login"] = "welcoming" THEN "welcoming" ELSE "over"

(* A user who is given every message that is put in the inboxes.            *)
Follows(c) ==
  ~inbox[c].closed /\ ~gone[c] /\ Place(c) \in {"entering", "welcoming", "served"}

(* Whether n is on display without the inbox; the list that is not made yet *)
(* will be what online_users is.                                           *)
Base(c, n) ==
  IF Place(c) = "entering" THEN online[n] # None
  ELSE IF Place(c) = "welcoming" THEN n \in local[c].listed
  ELSE Displays(out[c], n)

Keeps(lines, n) == \A j \in 1 .. Len(lines) : ~Hides(lines[j], n)

Knows(c, n) ==
  Displays(inbox[c].jobs, n) \/ (Base(c, n) /\ Keeps(inbox[c].jobs, n))

(* c is still to be told that n has logged out; c has been told, before the *)
(* others, that n has logged in.                                            *)
Awaits(c, n) == HeldBy("logout") /\ section.msg = Notice("logout", n) /\ c \in section.left

WasTold(c, n) == HeldBy("login") /\ section.msg = Notice("login", n) /\ c \notin section.left

LockInv ==
  /\ HeldBy("login") => section.msg = Notice("login", NickOf[section.who])
  /\ HeldBy("send") => IsChat(section.msg)
  /\ HeldBy("logout") =>
       section.msg = Notice("logout", NickOf[section.who]) /\ online[NickOf[section.who]] = None

ClosedInv == \A c \in Conn : at[c]["logout"] \notin {"none", "queued"} => inbox[c].closed

OutsideInv ==
  \A c \in Conn : Place(c) = "outside" =>
    /\ inbox[c].jobs = << >> /\ online[NickOf[c]] # c
    /\ Broadcasting => c \notin section.left

Informed(c, n) ==
  /\ online[n] = None /\ ~Awaits(c, n) => ~Knows(c, n)
  /\ online[n] # None /\ (Announced(online[n]) \/ WasTold(c, n)) => Knows(c, n)

KnowsInv == \A c \in Conn : Follows(c) => \A n \in Nick \ {NickOf[c]} : Informed(c, n)

ViewInv == LockInv /\ ClosedInv /\ OutsideInv /\ KnowsInv

-----------------------------------------------------------------------------
(* One more line, one line less, and the lines of a new user.               *)
LEMMA DisplaysAppended ==
  ASSUME NEW o \in Seq(Lines), NEW m \in Lines, NEW n
  PROVE  /\ Displays(Append(o, m), n) <=> Shows(m, n) \/ (Displays(o, n) /\ ~Hides(m, n))
         /\ Keeps(Append(o, m), n) <=> Keeps(o, n) /\ ~Hides(m, n)
<1> DEFINE p == Append(o, m)
<1>1. /\ p \in Seq(Lines) /\ Len(o) \in Nat /\ Len(p) = Len(o) + 1 /\ p[Len(o) + 1] = m
      /\ \A i \in 1 .. Len(o) : p[i] = o[i]
  BY AppendProperties, LenProperties
<1> HIDE DEF p
<1>2. ASSUME Shows(m, n) PROVE Displays(p, n)
  <2>1. Len(o) + 1 \in 1 .. Len(p) /\ Shows(p[Len(o) + 1], n)
    BY <1>1, <1>2
  <2>2. \A j \in Len(o) + 1 + 1 .. Len(p) : ~Hides(p[j], n)
    BY <1>1
  <2> QED BY <2>1, <2>2 DEF Displays
<1>3. ASSUME Displays(o, n), ~Hides(m, n) PROVE Displays(p, n)
  <2>1. PICK i \in 1 .. Len(o) : Shows(o[i], n) /\ \A j \in i + 1 .. Len(o) : ~Hides(o[j], n)
    BY <1>3 DEF Displays
  <2>2. i \in 1 .. Len(p) /\ Shows(p[i], n)
    BY <1>1, <2>1
  <2>3. ASSUME NEW j \in i + 1 .. Len(p) PROVE ~Hides(p[j], n)
    <3>1. j = Len(o) + 1 \/ (j \in i + 1 .. Len(o) /\ j \in 1 .. Len(o))
      BY <1>1
    <3> QED BY <1>1, <1>3, <2>1, <3>1
  <2> QED BY <2>2, <2>3 DEF Displays
<1>4. ASSUME Displays(p, n), ~Shows(m, n) PROVE Displays(o, n) /\ ~Hides(m, n)
  <2>1. PICK i \in 1 .. Len(p) : Shows(p[i], n) /\ \A j \in i + 1 .. Len(p) : ~Hides(p[j], n)
    BY <1>4 DEF Displays
  <2>2. i # Len(o) + 1
    BY <1>1, <1>4, <2>1
  <2>3. i \in 1 .. Len(o) /\ Shows(o[i], n)
    BY <1>1, <2>1, <2>2
  <2>4. ASSUME NEW j \in i + 1 .. Len(o) PROVE ~Hides(o[j], n)
    <3>1. j \in i + 1 .. Len(p) /\ j \in 1 .. Len(o)
      BY <1>1, <2>3
    <3> QED BY <1>1, <2>1, <3>1
  <2>5. Len(o) + 1 \in i + 1 .. Len(p)
    BY <1>1, <2>3
  <2> QED BY <1>1, <2>1, <2>3, <2>4, <2>5 DEF Displays
<1>5. Keeps(p, n) <=> Keeps(o, n) /\ ~Hides(m, n)
  <2>1. ASSUME Keeps(p, n) PROVE Keeps(o, n) /\ ~Hides(m, n)
    <3>1. Len(o) + 1 \in 1 .. Len(p) /\ \A j \in 1 .. Len(o) : j \in 1 .. Len(p)
      BY <1>1
    <3> QED BY <1>1, <2>1, <3>1 DEF Keeps
  <2>2. ASSUME Keeps(o, n), ~Hides(m, n), NEW j \in 1 .. Len(p) PROVE ~Hides(p[j], n)
    <3>1. j = Len(o) + 1 \/ j \in 1 .. Len(o)
      BY <1>1
    <3> QED BY <1>1, <2>2, <3>1 DEF Keeps
  <2> QED BY <2>1, <2>2 DEF Keeps
<1> QED BY <1>2, <1>3, <1>4, <1>5 DEF p

LEMMA DisplaysTail ==
  ASSUME NEW q \in Seq(Lines), q # << >>, NEW n
  PROVE  /\ Displays(q, n) <=> Displays(Tail(q), n) \/ (Shows(Head(q), n) /\ Keeps(Tail(q), n))
         /\ Keeps(q, n) <=> ~Hides(Head(q), n) /\ Keeps(Tail(q), n)
<1> DEFINE t == Tail(q)
           h == Head(q)
<1>1. /\ t \in Seq(Lines) /\ Len(t) \in Nat /\ Len(q) = Len(t) + 1 /\ q[1] = h
      /\ \A i \in 1 .. Len(t) : t[i] = q[i + 1]
  BY HeadTailProperties, LenProperties, EmptySeq
<1> HIDE DEF t, h
<1>2. ASSUME NEW i \in 1 .. Len(t), Shows(t[i], n), \A j \in i + 1 .. Len(t) : ~Hides(t[j], n)
      PROVE  Displays(q, n)
  <2>1. i + 1 \in 1 .. Len(q) /\ Shows(q[i + 1], n)
    BY <1>1, <1>2
  <2>2. ASSUME NEW j \in i + 1 + 1 .. Len(q) PROVE ~Hides(q[j], n)
    <3>1. j - 1 \in i + 1 .. Len(t) /\ j - 1 \in 1 .. Len(t) /\ (j - 1) + 1 = j
      BY <1>1
    <3>2. ~Hides(t[j - 1], n) /\ t[j - 1] = q[(j - 1) + 1]
      BY <1>1, <1>2, <3>1
    <3> QED BY <3>1, <3>2
  <2> QED BY <2>1, <2>2 DEF Displays
<1>3. ASSUME Shows(h, n), Keeps(t, n) PROVE Displays(q, n)
  <2>1. 1 \in 1 .. Len(q)
    BY <1>1
  <2>2. ASSUME NEW j \in 1 + 1 .. Len(q) PROVE ~Hides(q[j], n)
    <3>1. j - 1 \in 1 .. Len(t) /\ (j - 1) + 1 = j
      BY <1>1
    <3>2. ~Hides(t[j - 1], n) /\ t[j - 1] = q[(j - 1) + 1]
      BY <1>1, <1>3, <3>1 DEF Keeps
    <3> QED BY <3>1, <3>2
  <2> QED BY <1>1, <1>3, <2>1, <2>2 DEF Displays
<1>4. ASSUME Displays(q, n) PROVE Displays(t, n) \/ (Shows(h, n) /\ Keeps(t, n))
  <2>1. PICK i \in 1 .. Len(q) : Shows(q[i], n) /\ \A j \in i + 1 .. Len(q) : ~Hides(q[j], n)
    BY <1>4 DEF Displays
  <2>2. ASSUME NEW j \in i .. Len(t), j >= 1 PROVE ~Hides(t[j], n)
    <3>1. j + 1 \in i + 1 .. Len(q) /\ j \in 1 .. Len(t)
      BY <1>1, <2>2
    <3> QED BY <1>1, <2>1, <3>1
  <2>3. CASE i = 1
    BY <1>1, <2>1, <2>2, <2>3 DEF Keeps
  <2>4. CASE i # 1
    <3>1. i - 1 \in 1 .. Len(t) /\ (i - 1) + 1 = i
      BY <1>1, <2>4
    <3>2. Shows(t[i - 1], n)
      BY <1>1, <2>1, <3>1
    <3> QED BY <2>2, <3>1, <3>2 DEF Displays
  <2> QED BY <2>3, <2>4
<1>5. Keeps(q, n) <=> ~Hides(h, n) /\ Keeps(t, n)
  <2>1. ASSUME Keeps(q, n) PROVE ~Hides(h, n) /\ Keeps(t, n)
    <3>1. 1 \in 1 .. Len(q) /\ \A j \in 1 .. Len(t) : j + 1 \in 1 .. Len(q)
      BY <1>1
    <3> QED BY <1>1, <2>1, <3>1 DEF Keeps
  <2>2. ASSUME ~Hides(h, n), Keeps(t, n), NEW j \in 1 .. Len(q) PROVE ~Hides(q[j], n)
    <3>1. j = 1 \/ (j - 1 \in 1 .. Len(t) /\ (j - 1) + 1 = j)
      BY <1>1
    <3>2. CASE j = 1
      BY <1>1, <2>2, <3>2
    <3>3. CASE j - 1 \in 1 .. Len(t) /\ (j - 1) + 1 = j
      <4>1. ~Hides(t[j - 1], n) /\ t[j - 1] = q[(j - 1) + 1]
        BY <1>1, <2>2, <3>3 DEF Keeps
      <4> QED BY <3>3, <4>1
    <3> QED BY <3>1, <3>2, <3>3
  <2> QED BY <2>1, <2>2 DEF Keeps
<1>6. Displays(t, n) => Displays(q, n)
  BY <1>2 DEF Displays
<1> QED BY <1>3, <1>4, <1>5, <1>6 DEF t, h

LEMMA DisplaysConcat ==
  ASSUME NEW o \in Seq(Lines), NEW q \in Seq(Lines), NEW n
  PROVE  Displays(o \o q, n) <=> Displays(q, n) \/ (Displays(o, n) /\ Keeps(q, n))
<1> DEFINE t == o \o q
<1>1. /\ Len(o) \in Nat /\ Len(q) \in Nat /\ Len(t) = Len(o) + Len(q)
      /\ \A i \in 1 .. Len(o) : t[i] = o[i]
      /\ \A i \in 1 .. Len(q) : t[Len(o) + i] = q[i]
  <2>1. /\ Len(o) \in Nat /\ Len(q) \in Nat /\ Len(t) = Len(o) + Len(q)
        /\ \A i \in 1 .. Len(o) + Len(q) : t[i] = IF i <= Len(o) THEN o[i] ELSE q[i - Len(o)]
    BY ConcatProperties, LenProperties
  <2> HIDE DEF t
  <2>2. ASSUME NEW i \in 1 .. Len(q) PROVE t[Len(o) + i] = q[i]
    <3>1. Len(o) + i \in 1 .. Len(o) + Len(q) /\ ~(Len(o) + i <= Len(o)) /\ (Len(o) + i) - Len(o) = i
      BY <2>1
    <3> QED BY <2>1, <3>1
  <2>3. ASSUME NEW i \in 1 .. Len(o) PROVE t[i] = o[i]
    BY <2>1
  <2> QED BY <2>1, <2>2, <2>3
<1> HIDE DEF t
<1>2. ASSUME NEW j, \E i \in 1 .. Len(t) : j \in i + 1 .. Len(t)
      PROVE  j \in 1 .. Len(o) \/ (j - Len(o) \in 1 .. Len(q) /\ t[j] = q[j - Len(o)])
  <2>1. j \in 1 .. Len(o) \/ (j - Len(o) \in 1 .. Len(q) /\ Len(o) + (j - Len(o)) = j)
    BY <1>1, <1>2
  <2> QED BY <1>1, <2>1
<1>3. ASSUME Displays(q, n) PROVE Displays(t, n)
  <2>1. PICK i \in 1 .. Len(q) : Shows(q[i], n) /\ \A j \in i + 1 .. Len(q) : ~Hides(q[j], n)
    BY <1>3 DEF Displays
  <2>2. Len(o) + i \in 1 .. Len(t) /\ Shows(t[Len(o) + i], n)
    BY <1>1, <2>1
  <2>3. ASSUME NEW j \in Len(o) + i + 1 .. Len(t) PROVE ~Hides(t[j], n)
    <3>1. j - Len(o) \in i + 1 .. Len(q) /\ j - Len(o) \in 1 .. Len(q) /\ Len(o) + (j - Len(o)) = j
      BY <1>1
    <3> QED BY <1>1, <2>1, <3>1
  <2> QED BY <2>2, <2>3 DEF Displays
<1>4. ASSUME Displays(o, n), Keeps(q, n) PROVE Displays(t, n)
  <2>1. PICK i \in 1 .. Len(o) : Shows(o[i], n) /\ \A j \in i + 1 .. Len(o) : ~Hides(o[j], n)
    BY <1>4 DEF Displays
  <2>2. i \in 1 .. Len(t) /\ Shows(t[i], n)
    BY <1>1, <2>1
  <2>3. ASSUME NEW j \in i + 1 .. Len(t) PROVE ~Hides(t[j], n)
    <3>1. CASE j \in 1 .. Len(o)
      BY <1>1, <2>1, <3>1
    <3>2. CASE j \notin 1 .. Len(o)
      <4>1. j - Len(o) \in 1 .. Len(q) /\ t[j] = q[j - Len(o)]
        BY <1>2, <2>2, <3>2
      <4> QED BY <1>4, <4>1 DEF Keeps
    <3> QED BY <3>1, <3>2
  <2> QED BY <2>2, <2>3 DEF Displays
<1>5. ASSUME Displays(t, n) PROVE Displays(q, n) \/ (Displays(o, n) /\ Keeps(q, n))
  <2>1. PICK i \in 1 .. Len(t) : Shows(t[i], n) /\ \A j \in i + 1 .. Len(t) : ~Hides(t[j], n)
    BY <1>5 DEF Displays
  <2>2. CASE i \in 1 .. Len(o)
    <3>1. ASSUME NEW j \in i + 1 .. Len(o) PROVE ~Hides(o[j], n)
      <4>1. j \in i + 1 .. Len(t) /\ j \in 1 .. Len(o)
        BY <1>1, <2>2
      <4> QED BY <1>1, <2>1, <4>1
    <3>2. ASSUME NEW j \in 1 .. Len(q) PROVE ~Hides(q[j], n)
      <4>1. Len(o) + j \in i + 1 .. Len(t)
        BY <1>1, <2>2
      <4> QED BY <1>1, <2>1, <4>1
    <3>3. Shows(o[i], n)
      BY <1>1, <2>1, <2>2
    <3> QED BY <2>2, <3>1, <3>2, <3>3 DEF Displays, Keeps
  <2>3. CASE i \notin 1 .. Len(o)
    <3>1. i - Len(o) \in 1 .. Len(q) /\ Len(o) + (i - Len(o)) = i
      BY <1>1, <2>3
    <3>2. Shows(q[i - Len(o)], n)
      BY <1>1, <2>1, <3>1
    <3>3. ASSUME NEW j \in (i - Len(o)) + 1 .. Len(q) PROVE ~Hides(q[j], n)
      <4>1. Len(o) + j \in i + 1 .. Len(t) /\ j \in 1 .. Len(q)
        BY <1>1, <3>1
      <4> QED BY <1>1, <2>1, <4>1
    <3> QED BY <3>1, <3>2, <3>3 DEF Displays
  <2> QED BY <2>2, <2>3
<1> QED BY <1>3, <1>4, <1>5 DEF t

(* Lines that are not about who is online.                                  *)
Neutral(m) == \A n \in Nick : ~Shows(m, n) /\ ~Hides(m, n)

LEMMA NeutralLines ==
  /\ \A m : IsChat(m) => Neutral(m)
  /\ Neutral([type |-> "error"]) /\ Neutral([type |-> "done_last_messages"])
BY DEF Neutral, IsChat, Shows, Hides

LEMMA NeutralSeq ==
  ASSUME NEW h \in Seq(Lines), \A i \in 1 .. Len(h) : Neutral(h[i]), NEW n \in Nick
  PROVE  ~Displays(h, n) /\ Keeps(h, n)
BY DEF Neutral, Displays, Keeps

Plain(h) == h \in Seq(Lines) /\ \A i \in 1 .. Len(h) : Neutral(h[i])

-----------------------------------------------------------------------------
(* Who writes an error in the critical section holds it.                    *)
AloneInv ==
  \A c \in Conn :
    /\ at[c]["login"] = "refusing" => HeldBy("refusal") /\ section.who = c
    /\ at[c]["send"] = "denying" => HeldBy("denial") /\ section.who = c

NobodyNew ==
  \A d \in Conn :
    /\ at'[d]["login"] = "refusing" => at[d]["login"] = "refusing"
    /\ at'[d]["send"] = "denying" => at[d]["send"] = "denying"

LEMMA AloneStays ==
  ASSUME AloneInv, NobodyNew, section' = section \/ Unlocked \/ Broadcasting \/ HeldBy("main")
  PROVE  AloneInv'
<1>1. CASE section' = section
  BY <1>1 DEF AloneInv, NobodyNew, HeldBy
<1>2. CASE Unlocked \/ Broadcasting \/ HeldBy("main")
  <2>1. ~HeldBy("refusal") /\ ~HeldBy("denial")
    BY <1>2 DEF Unlocked, Broadcasting, HeldBy
  <2> QED BY <2>1 DEF AloneInv, NobodyNew
<1> QED BY <1>1, <1>2

LEMMA AloneMoves ==
  ASSUME HearInv, NEW c \in Conn, NEW p \in {"login", "send", "receive", "logout"},
         NEW s, s \notin {"refusing", "denying"},
         \A d \in Conn, q \in Pool : at'[d][q] = IF d = c /\ q = p THEN s ELSE at[d][q]
  PROVE  NobodyNew
BY HearTyped DEF NobodyNew

LEMMA AloneGoes ==
  ASSUME HearInv, NEW c \in Conn, NEW p \in {"login", "send", "receive", "logout"},
         NEW s \in Stage, s \notin {"refusing", "denying"}, Goes(c, p, s)
  PROVE  NobodyNew
<1>1. \A d \in Conn, q \in Pool : at'[d][q] = IF d = c /\ q = p THEN s ELSE at[d][q]
  BY HearTyped DEF TypeOK, Goes, Pool
<1> QED BY <1>1, HearTyped DEF NobodyNew

LEMMA AloneTakes ==
  ASSUME HearInv, NEW c \in Conn, NEW p \in {"login", "send", "receive", "logout"},
         NEW s \in {"hello", "reading", "serving", "closed"}, Takes(c, p, s)
  PROVE  NobodyNew
<1>1. \A d \in Conn, q \in Pool : at'[d][q] = IF d = c /\ q = p THEN s ELSE at[d][q]
  BY HearTyped, TakesTo
<1> QED BY <1>1, AloneMoves

LEMMA AloneHands ==
  ASSUME HearInv, NEW c \in Conn, NEW p \in {"login", "send"}, NEW k \in {"send", "receive", "logout"},
         NEW s \in {"to_receive", "over"}, Hands(c, p, s, k), p # k
  PROVE  NobodyNew
<1>1. \A d \in Conn, q \in Pool :
        at'[d][q] = IF d = c /\ q = p THEN s ELSE IF d = c /\ q = k THEN "queued" ELSE at[d][q]
  BY HearTyped, HandsTo
<1> QED BY <1>1, HearTyped DEF NobodyNew

LEMMA AloneLogin ==
  ASSUME HearInv, AloneInv, NEW c \in Conn, LoginRuns(c) \/ SpuriousWakeup(c)
  PROVE  AloneInv'
<1>0. {"over", "correcting", "checking", "asleep", "woken", "announcing", "listing", "history",
        "ending", "to_send", "refusing"} \subseteq Stage
  BY HearTyped
<1>1. CASE TakesConnection(c) \/ StartsServices(c)
  <2>1. section' = section
    BY <1>1 DEF TakesConnection, StartsServices
  <2>2. NobodyNew
    BY <1>1, AloneTakes, AloneHands DEF TakesConnection, StartsServices
  <2> QED BY <2>1, <2>2, AloneStays
<1>2. CASE ReceivesNickname(c) \/ Corrects(c) \/ SpuriousWakeup(c) \/ Welcomes(c) \/ Welcomed(c)
  <2>1. section' = section
    BY <1>2 DEF ReceivesNickname, Corrects, SpuriousWakeup, Welcomes, Welcomed
  <2>2. PICK s \in {"over", "correcting", "checking", "woken", "listing", "history", "ending", "to_send"} :
          Goes(c, "login", s)
    BY <1>2 DEF ReceivesNickname, Corrects, SpuriousWakeup, Welcomes, Welcomed, Written
  <2>3. NobodyNew
    BY <1>0, <2>2, AloneGoes
  <2> QED BY <2>1, <2>3, AloneStays
<1>3. CASE WakesUp(c) \/ (ChecksNickname(c) /\ ~Refused(c))
  <2>1. Unlocked /\ \E s \in {"asleep", "announcing"} : Goes(c, "login", s)
    BY <1>3 DEF WakesUp, ChecksNickname, Waits
  <2>2. NobodyNew
    BY <1>0, <2>1, AloneGoes
  <2> QED BY <2>1, <2>2, AloneStays
<1>4. CASE ChecksNickname(c) /\ Refused(c)
  <2>1. /\ Unlocked /\ Goes(c, "login", "refusing")
        /\ section' = Section("refusal", c, None, {})
    BY <1>4 DEF ChecksNickname
  <2>2. \A d \in Conn, q \in Pool : at'[d][q] = IF d = c /\ q = "login" THEN "refusing" ELSE at[d][q]
    BY <1>0, <2>1, HearTyped, LoginGoesTo
  <2>3. \A d \in Conn : at[d]["login"] # "refusing" /\ at[d]["send"] # "denying"
    BY <2>1 DEF AloneInv, HeldBy, Unlocked
  <2>4. HeldBy("refusal")' /\ section'.who = c
    <3>1. Section("refusal", c, None, {}) \in Holding
      BY BareSectionTyped
    <3>2. Section("refusal", c, None, {}) # None
      BY <3>1, NoneAssumption DEF Holding, CriticalSection
    <3> QED BY <2>1, <3>2 DEF HeldBy, Section
  <2> QED BY <2>2, <2>3, <2>4, HearTyped DEF AloneInv
<1>5. CASE Refuses(c)
  <2>1. at[c]["login"] = "refusing" /\ Goes(c, "login", "over") /\ HeldBy("refusal") /\ section.who = c
    BY <1>5 DEF Refuses, Written, AloneInv
  <2>2. \A d \in Conn, q \in Pool : at'[d][q] = IF d = c /\ q = "login" THEN "over" ELSE at[d][q]
    BY <1>0, <2>1, HearTyped, LoginGoesTo
  <2>3. \A d \in Conn \ {c} : at[d]["login"] # "refusing"
    BY <2>1 DEF AloneInv
  <2>4. \A d \in Conn : at[d]["send"] # "denying"
    BY <2>1 DEF AloneInv, HeldBy
  <2> QED BY <2>2, <2>3, <2>4, HearTyped DEF AloneInv
<1> QED BY <1>1, <1>2, <1>3, <1>4, <1>5 DEF LoginRuns

LEMMA AloneSender ==
  ASSUME HearInv, AloneInv, NEW c \in Conn, SenderRuns(c)
  PROVE  AloneInv'
<1>0. {"reading", "executing", "telling", "leaving", "answering", "denying"} \subseteq Stage
  BY HearTyped
<1>1. CASE TakesToSend(c) \/ StartsLogout(c) \/ ReadThrows(c)
  <2>1. section' = section
    BY <1>1 DEF TakesToSend, StartsLogout, ReadThrows
  <2>2. NobodyNew
    <3>1. CASE ReadThrows(c)
      BY <3>1 DEF ReadThrows, NobodyNew
    <3> QED BY <1>1, <3>1, AloneTakes, AloneHands DEF TakesToSend, StartsLogout
  <2> QED BY <2>1, <2>2, AloneStays
<1>2. CASE ReadsChat(c) \/ StopsReading(c) \/ Archives(c) \/ (Answered(c) /\ at[c]["send"] = "answering")
  <2>1. section' = section
    BY <1>2 DEF ReadsChat, StopsReading, Archives, Answered
  <2>2. \E s \in {"executing", "leaving", "answering", "reading"} : Goes(c, "send", s)
    BY <1>2 DEF ReadsChat, StopsReading, Archives, Answered, Written
  <2>3. NobodyNew
    BY <1>0, <2>2, AloneGoes
  <2> QED BY <2>1, <2>3, AloneStays
<1>3. CASE Unlocked /\ Goes(c, "send", "telling")
  <2>1. NobodyNew
    BY <1>0, <1>3, AloneGoes
  <2> QED BY <1>3, <2>1, AloneStays
<1>4. CASE Unlocked /\ Goes(c, "send", "denying") /\ section' = Section("denial", c, None, {})
  <2>2. \A d \in Conn, q \in Pool : at'[d][q] = IF d = c /\ q = "send" THEN "denying" ELSE at[d][q]
    BY <1>0, <1>4, HearTyped, SendGoesTo
  <2>3. \A d \in Conn : at[d]["login"] # "refusing" /\ at[d]["send"] # "denying"
    BY <1>4 DEF AloneInv, HeldBy, Unlocked
  <2>4. HeldBy("denial")' /\ section'.who = c
    <3>1. Section("denial", c, None, {}) \in Holding
      BY BareSectionTyped
    <3>2. Section("denial", c, None, {}) # None
      BY <3>1, NoneAssumption DEF Holding, CriticalSection
    <3> QED BY <1>4, <3>2 DEF HeldBy, Section
  <2> QED BY <2>2, <2>3, <2>4, HearTyped DEF AloneInv
<1>5. CASE Answered(c) /\ at[c]["send"] = "denying"
  <2>1. HeldBy("denial") /\ section.who = c /\ \E s \in {"reading", "leaving"} : Goes(c, "send", s)
    BY <1>5 DEF Answered, Written, AloneInv
  <2>2. PICK s \in {"reading", "leaving"} : Goes(c, "send", s)
    BY <2>1
  <2>3. \A d \in Conn, q \in Pool : at'[d][q] = IF d = c /\ q = "send" THEN s ELSE at[d][q]
    BY <1>0, <2>2, HearTyped, SendGoesTo
  <2>4. \A d \in Conn \ {c} : at[d]["send"] # "denying"
    BY <2>1 DEF AloneInv
  <2>5. \A d \in Conn : at[d]["login"] # "refusing"
    BY <2>1 DEF AloneInv, HeldBy
  <2> QED BY <2>3, <2>4, <2>5, HearTyped DEF AloneInv
<1>6. CASE SendsPrivate(c) \/ SendsPublic(c)
  BY <1>3, <1>4, <1>6 DEF SendsPrivate, SendsPublic
<1>7. Answered(c) => at[c]["send"] \in {"denying", "answering"}
  BY DEF Answered
<1> QED BY <1>1, <1>2, <1>5, <1>6, <1>7 DEF SenderRuns

LEMMA AloneSection ==
  ASSUME HearInv, AloneInv, SectionRuns
  PROVE  AloneInv'
<1>1. Broadcasting
  BY DEF SectionRuns, Tells, TellThrows, TellsNoMore
<1>2. section.who \in Conn /\ section.role \in {"login", "send", "logout"}
  BY <1>1, HearTyped, HolderTyped DEF Broadcasting, HeldBy
<1>3. {"over", "leaving", "welcoming", "archiving", "reading"} \subseteq Stage
  BY HearTyped
<1>4. CASE Tells
  <2>1. NobodyNew
    BY <1>4 DEF Tells, NobodyNew
  <2> QED BY <1>1, <2>1, AloneStays
<1>5. CASE TellThrows
  <2>1. \E s \in {"over", "leaving"} : Goes(section.who, section.role, s)
    BY <1>5 DEF TellThrows
  <2>2. NobodyNew
    BY <1>2, <1>3, <2>1, AloneGoes
  <2> QED BY <1>1, <2>2, AloneStays
<1>6. CASE TellsNoMore
  <2> DEFINE c == section.who
  <2>1. \/ \E s \in {"welcoming"} : Goes(c, "login", s)
        \/ \E s \in {"archiving", "reading"} : Goes(c, "send", s)
        \/ Goes(c, "logout", "over")
        \/ \E w \in Conn : Notifies(c, w)
    BY <1>6 DEF TellsNoMore, LoginTold, SendTold, LogoutTold, Notifies
  <2>2. c \in Conn
    BY <1>2
  <2> HIDE DEF c
  <2>3. NobodyNew
    <3>1. ASSUME NEW w \in Conn, Notifies(c, w) PROVE NobodyNew
      <4>1. \A d \in Conn, q \in Pool :
              at'[d][q] = IF d = w /\ q = "login" THEN "woken"
                          ELSE IF d = c /\ q = "logout" THEN "over" ELSE at[d][q]
        BY <2>2, <3>1, HearTyped, NotifiesTo
      <4> QED BY <4>1, HearTyped DEF NobodyNew
    <3> QED BY <1>3, <2>1, <2>2, <3>1, AloneGoes
  <2> QED BY <1>1, <2>3, AloneStays
<1> QED BY <1>4, <1>5, <1>6 DEF SectionRuns

LEMMA AloneNext == ASSUME HearInv, AloneInv, [Next]_vars PROVE AloneInv'
<1>1. CASE UNCHANGED vars
  BY <1>1, AloneStays DEF vars, NobodyNew
<1>2. CASE QueuesAccepted
  BY <1>2, AloneStays DEF QueuesAccepted, NobodyNew
<1>3. ASSUME NEW c \in Conn, Accepts(c) \/ Leaves(c) \/ Listens(c) PROVE AloneInv'
  <2>1. section' = section
    BY <1>3 DEF Accepts, Leaves, Listens
  <2>2. NobodyNew
    <3>1. CASE Accepts(c)
      BY <3>1, HearTyped, AloneGoes DEF Accepts
    <3> QED BY <1>3, <3>1 DEF Leaves, Listens, NobodyNew
  <2> QED BY <2>1, <2>2, AloneStays
<1>4. ASSUME NEW c \in Conn, ReceiverRuns(c) PROVE AloneInv'
  <2>1. section' = section
    BY <1>4 DEF ReceiverRuns, TakesToReceive, Delivers, Delivered, StopsDelivering
  <2>2. NobodyNew
    <3>1. TakesToReceive(c) \/ \E s \in {"serving", "sending", "over"} : Goes(c, "receive", s)
      BY <1>4 DEF ReceiverRuns, Delivers, Delivered, StopsDelivering, Written
    <3> QED BY <3>1, HearTyped, AloneTakes, AloneGoes DEF TakesToReceive
  <2> QED BY <2>1, <2>2, AloneStays
<1>5. ASSUME NEW c \in Conn, LogoutRuns(c) PROVE AloneInv'
  <2>1. CASE ClosesInbox(c)
    <3>1. section' = section /\ NobodyNew
      BY <2>1, AloneTakes DEF ClosesInbox
    <3> QED BY <3>1, AloneStays
  <2>2. CASE Erases(c)
    <3>1. Unlocked /\ NobodyNew
      BY <2>2, HearTyped, AloneGoes DEF Erases
    <3> QED BY <3>1, AloneStays
  <2> QED BY <1>5, <2>1, <2>2 DEF LogoutRuns
<1> QED BY <1>1, <1>2, <1>3, <1>4, <1>5, AloneLogin, AloneSender, AloneSection DEF Next

-----------------------------------------------------------------------------
(* Who follows, and where steps take a connection.                          *)
LEMMA FollowerOnline ==
  ASSUME IInv, ClosedInv, NEW c \in Conn, Follows(c)
  PROVE  online[NickOf[c]] = c /\ c \in UsersOnline(online) /\ NickOf[c] \in Nick
<1>1. at[c]["logout"] \in {"none", "queued"}
  BY DEF ClosedInv, Follows
<1>2. InService(c)
  BY <1>1 DEF Follows, Place, Outside, Entering, Listed, InService, IInv, SessionInv, OrderInv
<1>3. online[NickOf[c]] = c /\ NickOf[c] \in Nick
  BY <1>2, NickAssumption DEF IInv, SessionInv, OwnerInv
<1> QED BY <1>3, ConnAssumption DEF UsersOnline

LEMMA AnnouncedPlace ==
  ASSUME NEW c \in Conn
  PROVE  /\ Announced(c) <=> Place(c) \in {"welcoming", "served"}
         /\ Announced(c)' <=> Place(c)' \in {"welcoming", "served"}
BY DEF Announced, Place, Outside, Entering, Listed

-----------------------------------------------------------------------------
(* Steps that tell nobody anything and let nobody in.                       *)
StillShows(d) == \A n \in Nick : Displays(out'[d], n) <=> Displays(out[d], n)

Steady(d) ==
  /\ Place(d)' = Place(d) \/ Place(d)' = "over"
  /\ inbox'[d].jobs = inbox[d].jobs /\ local'[d].listed = local[d].listed
  /\ (inbox[d].closed => inbox'[d].closed) /\ (gone[d] => gone'[d])
  /\ at'[d]["logout"] \notin {"none", "queued"} =>
       at[d]["logout"] \notin {"none", "queued"} \/ inbox'[d].closed
  /\ Place(d)' \in {"over", "outside"} \/ StillShows(d)

SectionSteady ==
  \/ section' = section
  \/ section' = None /\ (HeldBy("logout") => section.left = {})
  \/ /\ ~HeldBy("logout")
     /\ \E c \in Conn, role \in {"main", "refusal", "denial"} : section' = Section(role, c, None, {})
  \/ /\ Unlocked
     /\ \E c \in Conn, m \in Msg, left \in SUBSET UsersOnline(online) :
          IsChat(m) /\ section' = Section("send", c, m, left)

LEMMA SectionSteadily ==
  ASSUME SectionSteady
  PROVE  /\ HeldBy("login")' => section' = section
         /\ HeldBy("logout")' => section' = section
         /\ HeldBy("logout") /\ section.left # {} => section' = section
         /\ HeldBy("send")' => section' = section \/ IsChat(section'.msg)
         /\ Broadcasting' => section' = section \/ section'.left \in SUBSET UsersOnline(online)
<1>1. CASE section' = section
  BY <1>1
<1>2. CASE section' = None /\ (HeldBy("logout") => section.left = {})
  BY <1>2 DEF HeldBy, Broadcasting
<1>3. CASE /\ ~HeldBy("logout")
           /\ \E c \in Conn, role \in {"main", "refusal", "denial"} : section' = Section(role, c, None, {})
  BY <1>3 DEF HeldBy, Broadcasting, Section
<1>4. CASE /\ Unlocked
           /\ \E c \in Conn, m \in Msg, left \in SUBSET UsersOnline(online) :
                IsChat(m) /\ section' = Section("send", c, m, left)
  <2>1. PICK c \in Conn, m \in Msg, left \in SUBSET UsersOnline(online) :
               IsChat(m) /\ section' = Section("send", c, m, left)
    BY <1>4
  <2>2. section'.role = "send" /\ section'.msg = m /\ section'.left = left
    BY <2>1 DEF Section
  <2> QED BY <1>4, <2>1, <2>2 DEF HeldBy, Broadcasting, Unlocked
<1> QED BY <1>1, <1>2, <1>3, <1>4 DEF SectionSteady

LEMMA OutsideOffline ==
  ASSUME HearInv, OutsideInv, NEW c \in Conn, Place(c) = "outside"
  PROVE  c \notin UsersOnline(online)
<1> SUFFICES ASSUME NEW n \in Nick, online[n] = c PROVE FALSE
  BY DEF UsersOnline
<1>1. NickOf[c] = n
  BY ConnAssumption DEF HearInv, IInv, SessionInv, OwnerInv
<1> QED BY <1>1 DEF OutsideInv

LEMMA SteadyKeeps ==
  ASSUME HearInv, IInv', ViewInv, \A d \in Conn : Steady(d), online' = online, SectionSteady
  PROVE  ViewInv'
<1>1. LockInv'
  BY SectionSteadily DEF ViewInv, LockInv, HeldBy
<1>2. ClosedInv'
  BY DEF ViewInv, ClosedInv, Steady
<1>3. ASSUME NEW c \in Conn, Place(c)' = "outside"
      PROVE  /\ inbox'[c].jobs = << >> /\ online'[NickOf[c]] # c
             /\ Broadcasting' => c \notin section'.left
  <2>1. Place(c) = "outside" /\ inbox'[c].jobs = inbox[c].jobs
    BY <1>3 DEF Steady
  <2>2. /\ inbox[c].jobs = << >> /\ online[NickOf[c]] # c
        /\ Broadcasting => c \notin section.left
    BY <2>1 DEF ViewInv, OutsideInv
  <2>3. c \notin UsersOnline(online)
    BY <2>1, OutsideOffline DEF ViewInv
  <2>4. section' = section => (Broadcasting' <=> Broadcasting)
    BY DEF Broadcasting, HeldBy
  <2> QED BY <2>1, <2>2, <2>3, <2>4, SectionSteadily
<1>4. OutsideInv'
  BY <1>3 DEF OutsideInv
<1>5. ASSUME NEW c \in Conn, Follows(c)', NEW n \in Nick \ {NickOf[c]} PROVE Informed(c, n)'
  <2>1. Follows(c) /\ Place(c)' = Place(c) /\ Place(c) \in {"entering", "welcoming", "served"}
    BY <1>5 DEF Follows, Steady
  <2>2. Informed(c, n)
    BY <2>1 DEF ViewInv, KnowsInv
  <2>3. Displays(out'[c], n) <=> Displays(out[c], n)
    BY <2>1 DEF Steady, StillShows
  <2>4. Knows(c, n)' <=> Knows(c, n)
    <3>1. inbox'[c].jobs = inbox[c].jobs /\ local'[c].listed = local[c].listed
      BY DEF Steady
    <3>2. Base(c, n)' <=> Base(c, n)
      BY <2>1, <2>3, <3>1 DEF Base
    <3> QED BY <3>1, <3>2 DEF Knows
  <2>5. (Awaits(c, n) => Awaits(c, n)') /\ (WasTold(c, n)' => WasTold(c, n))
    BY SectionSteadily DEF Awaits, WasTold, HeldBy
  <2>6. online[n] # None => (Announced(online[n])' => Announced(online[n]))
    <3>1. online[n] # None => online[n] \in Conn
      BY DEF HearInv, IInv, TypeOK
    <3>2. \A d \in Conn : Announced(d)' => Announced(d)
      BY AnnouncedPlace DEF Steady
    <3> QED BY <3>1, <3>2 DEF Announced
  <2> QED BY <2>2, <2>4, <2>5, <2>6 DEF Informed
<1> QED BY <1>1, <1>2, <1>4, <1>5 DEF ViewInv, KnowsInv

(* Writes that tell nothing about who is online.                            *)
LEMMA Unwritten == ASSUME out' = out PROVE \A d \in Conn : StillShows(d)
BY DEF StillShows

LEMMA WritesNeutral ==
  ASSUME HearInv, NEW c \in Conn, NEW m \in Lines, Neutral(m), Writes(c, << m >>)
  PROVE  \A d \in Conn : StillShows(d)
<1>1. out[c] \in Seq(Lines)
  BY DEF HearInv, HeardInv
<1>2. \A n \in Nick : Displays(Append(out[c], m), n) <=> Displays(out[c], n)
  BY <1>1, DisplaysAppended DEF Neutral
<1>3. /\ \A d \in Conn \ {c} : out'[d] = out[d]
      /\ out'[c] = IF gone[c] THEN out[c] ELSE Append(out[c], m)
  BY WritesOne
<1> QED BY <1>2, <1>3 DEF StillShows

LEMMA WritesErrorOnly ==
  ASSUME HearInv, NEW c \in Conn, Writes(c, Error)
  PROVE  \A d \in Conn : StillShows(d)
<1>1. [type |-> "error"] \in Lines /\ Neutral([type |-> "error"]) /\ Error = << [type |-> "error"] >>
  BY NeutralLines DEF Lines, Error
<1> QED BY <1>1, WritesNeutral, Zenon

LEMMA WritesHistory ==
  ASSUME HearInv, NEW c \in Conn, Writes(c, lastMessages)
  PROVE  \A d \in Conn : StillShows(d)
<1>1. lastMessages \in Seq(Chatter) /\ lastMessages \in Seq(Lines) /\ out[c] \in Seq(Lines)
  BY ChatterFits DEF HearInv, HeardInv
<1>2. \A i \in 1 .. Len(lastMessages) : Neutral(lastMessages[i])
  <2>1. \A i \in 1 .. Len(lastMessages) : lastMessages[i] \in Chatter
    BY <1>1
  <2>2. \A m \in Chatter : IsChat(m)
    BY DEF Chatter, IsChat
  <2> QED BY <2>1, <2>2, NeutralLines
<1>3. ASSUME NEW n \in Nick PROVE Displays(out[c] \o lastMessages, n) <=> Displays(out[c], n)
  <2>1. ~Displays(lastMessages, n) /\ Keeps(lastMessages, n)
    BY <1>1, <1>2, NeutralSeq
  <2> QED BY <1>1, <2>1, DisplaysConcat
<1>4. /\ \A d \in Conn \ {c} : out'[d] = out[d]
      /\ out'[c] = IF gone[c] THEN out[c] ELSE out[c] \o lastMessages
  BY <1>1, WritesTo
<1> QED BY <1>3, <1>4 DEF StillShows

LEMMA LoginSteady ==
  ASSUME HearInv, NEW c \in Conn, NEW s, UNCHANGED << inbox, gone >>,
         \A d \in Conn, q \in Pool : at'[d][q] = IF d = c /\ q = "login" THEN s ELSE at[d][q],
         \/ {at[c]["login"], s} \subseteq Outside \/ {at[c]["login"], s} \subseteq Entering
         \/ {at[c]["login"], s} \subseteq Listed
         \/ s = "over" /\ at[c]["login"] \notin {"to_receive", "over"},
         \A d \in Conn : local'[d].listed = local[d].listed,
         \A d \in Conn : StillShows(d)
  PROVE  \A d \in Conn : Steady(d)
<1>1. /\ \A d \in Conn \ {c} : Place(d)' = Place(d)
      /\ at'[c]["login"] = s /\ at'[c]["send"] = at[c]["send"]
      /\ \A d \in Conn : at'[d]["logout"] = at[d]["logout"]
  <2>1. {"login", "send", "logout"} \subseteq Pool
    BY DEF Pool
  <2>2. \A d \in Conn \ {c} : at'[d]["login"] = at[d]["login"] /\ at'[d]["send"] = at[d]["send"]
    BY <2>1
  <2> QED BY <2>1, <2>2 DEF Place
<1>2. at[c]["send"] # "none" => at[c]["login"] \in {"to_receive", "over"}
  BY HearTyped DEF IInv, SessionInv, OrderInv
<1>3. Place(c)' = Place(c) \/ Place(c)' = "over"
  BY <1>1, <1>2 DEF Place, Outside, Entering, Listed
<1> QED BY <1>1, <1>3 DEF Steady

LEMMA OtherSteady ==
  ASSUME HearInv, NEW c \in Conn, NEW p \in {"send", "receive", "logout"}, NEW s,
         UNCHANGED << inbox, gone >>,
         \A d \in Conn, q \in Pool : at'[d][q] = IF d = c /\ q = p THEN s ELSE at[d][q],
         p = "send" => s # "none" /\ at[c]["send"] # "none",
         p = "logout" => at[c]["logout"] \notin {"none", "queued"},
         \A d \in Conn : local'[d].listed = local[d].listed,
         \A d \in Conn : StillShows(d)
  PROVE  \A d \in Conn : Steady(d)
<1>1. /\ \A d \in Conn : Place(d)' = Place(d)
      /\ \A d \in Conn : at'[d]["logout"] = IF d = c /\ p = "logout" THEN s ELSE at[d]["logout"]
  <2>1. {"login", "send", "logout"} \subseteq Pool
    BY DEF Pool
  <2>2. \A d \in Conn : at'[d]["login"] = at[d]["login"]
    BY <2>1
  <2>3. \A d \in Conn : (at'[d]["send"] # "none") <=> (at[d]["send"] # "none")
    BY <2>1
  <2> QED BY <2>1, <2>2, <2>3 DEF Place
<1>2. \A d \in Conn : at'[d]["logout"] \notin {"none", "queued"} =>
                        at[d]["logout"] \notin {"none", "queued"}
  BY <1>1
<1> QED BY <1>1, <1>2 DEF Steady

LEMMA StillSteady ==
  ASSUME HearInv, UNCHANGED << at, inbox, local, out >>, \A d \in Conn : gone[d] => gone'[d]
  PROVE  \A d \in Conn : Steady(d)
BY DEF Steady, Place, StillShows

LEMMA StaysSteady == ASSUME section' = section PROVE SectionSteady
BY DEF SectionSteady

LEMMA MainViews ==
  ASSUME HearInv, GoneTyped, IInv', ViewInv,
         QueuesAccepted \/ \E c \in Conn : Accepts(c) \/ Leaves(c) \/ Listens(c)
  PROVE  ViewInv'
<1>1. ASSUME NEW c \in Conn, Accepts(c) PROVE ViewInv'
  <2>1. /\ at[c]["login"] = "none" /\ Goes(c, "login", "queued") /\ section' = section
        /\ UNCHANGED << online, inbox, local, out, gone >>
    BY <1>1 DEF Accepts
  <2>2. \A d \in Conn, q \in Pool : at'[d][q] = IF d = c /\ q = "login" THEN "queued" ELSE at[d][q]
    BY <2>1, HearTyped, LoginGoesTo
  <2>3. \A d \in Conn : Steady(d)
    BY <2>1, <2>2, Unwritten, LoginSteady DEF Outside
  <2> QED BY <2>1, <2>3, StaysSteady, SteadyKeeps
<1>2. ASSUME NEW c \in Conn, Leaves(c) PROVE ViewInv'
  <2>1. \A d \in Conn : gone[d] => gone'[d]
    BY <1>2 DEF Leaves, GoneTyped
  <2> QED BY <1>2, <2>1, StillSteady, StaysSteady, SteadyKeeps DEF Leaves
<1>3. CASE QueuesAccepted
  <2>1. \A d \in Conn : Steady(d)
    BY <1>3, StillSteady DEF QueuesAccepted
  <2>2. ~HeldBy("logout")
    BY <1>3 DEF QueuesAccepted, HeldBy, Unlocked
  <2>3. SectionSteady
    BY <1>3, <2>2, HearTyped DEF QueuesAccepted, SectionSteady, TypeOK
  <2> QED BY <1>3, <2>1, <2>3, SteadyKeeps DEF QueuesAccepted
<1>4. ASSUME NEW c \in Conn, Listens(c) PROVE ViewInv'
  <2>1. \A d \in Conn : Steady(d)
    BY <1>4, StillSteady DEF Listens
  <2> QED BY <1>4, <2>1, StaysSteady, SteadyKeeps DEF Listens
<1> QED BY <1>1, <1>2, <1>3, <1>4

LEMMA LoginGoesViews ==
  ASSUME HearInv, IInv', ViewInv, NEW c \in Conn, NEW s \in Stage, Goes(c, "login", s),
         \/ {at[c]["login"], s} \subseteq Outside \/ {at[c]["login"], s} \subseteq Entering
         \/ {at[c]["login"], s} \subseteq Listed
         \/ s = "over" /\ at[c]["login"] \notin {"to_receive", "over"},
         SectionSteady, UNCHANGED << online, inbox, local, gone >>,
         \A d \in Conn : StillShows(d)
  PROVE  ViewInv'
<1>1. \A d \in Conn, q \in Pool : at'[d][q] = IF d = c /\ q = "login" THEN s ELSE at[d][q]
  BY HearTyped, LoginGoesTo
<1>2. \A d \in Conn : Steady(d)
  BY <1>1, LoginSteady
<1> QED BY <1>2, SteadyKeeps

LEMMA WrittenViews ==
  ASSUME HearInv, IInv', ViewInv, NEW c \in Conn,
         NEW from \in {"correcting", "refusing", "ending"}, at[c]["login"] = from,
         NEW s \in {"checking", "to_send", "over"}, Written(c, "login", s, "over"),
         {from, s} \subseteq Outside \/ {from, s} \subseteq Listed \/ s = "over",
         SectionSteady, UNCHANGED << online, inbox, local, out, gone >>
  PROVE  ViewInv'
<1>1. PICK t \in {s, "over"} : Goes(c, "login", t)
  BY DEF Written
<1>2. t \in Stage
  BY HearTyped
<1> QED BY <1>1, <1>2, Unwritten, LoginGoesViews

LEMMA LoginViews ==
  ASSUME HearInv, AloneInv, IInv', ViewInv, NEW c \in Conn,
         \/ TakesConnection(c) \/ ReceivesNickname(c) \/ Corrects(c) \/ SpuriousWakeup(c)
         \/ ChecksNickname(c) /\ Refused(c)
         \/ Refuses(c) \/ Welcomed(c) \/ (Welcomes(c) /\ at[c]["login"] # "welcoming")
  PROVE  ViewInv'
<1>0. {"over", "hello", "correcting", "checking", "refusing", "woken", "history", "ending"} \subseteq Stage
  BY HearTyped
<1>1. CASE TakesConnection(c)
  <2>1. /\ Takes(c, "login", "hello") /\ UNCHANGED << accepted, section >>
        /\ UNCHANGED << online, inbox, local, out, gone >>
    BY <1>1 DEF TakesConnection
  <2>2. \A d \in Conn, q \in Pool : at'[d][q] = IF d = c /\ q = "login" THEN "hello" ELSE at[d][q]
    BY <2>1, HearTyped, TakesTo
  <2>3. at[c]["login"] = "queued"
    BY <2>1, HearTyped, QueueTakes DEF IInv
  <2>4. \A d \in Conn : Steady(d)
    BY <2>1, <2>2, <2>3, Unwritten, LoginSteady DEF Outside
  <2> QED BY <2>1, <2>4, StaysSteady, SteadyKeeps
<1>2. CASE ReceivesNickname(c)
  <2>1. at[c]["login"] = "hello" /\ UNCHANGED << online, inbox, local, gone >> /\ section' = section
    BY <1>2 DEF ReceivesNickname
  <2>2. PICK s \in {"checking", "correcting", "over"} :
          Goes(c, "login", s) /\ (out' = out \/ Writes(c, Error))
    BY <1>2 DEF ReceivesNickname
  <2>3. \A d \in Conn : StillShows(d)
    BY <2>2, Unwritten, WritesErrorOnly
  <2>4. {at[c]["login"], s} \subseteq Outside \/ (s = "over" /\ at[c]["login"] \notin {"to_receive", "over"})
    BY <2>1, <2>2 DEF Outside
  <2> QED BY <1>0, <2>1, <2>2, <2>3, <2>4, StaysSteady, LoginGoesViews
<1>3. CASE Corrects(c)
  <2>1. /\ at[c]["login"] = "correcting" /\ Written(c, "login", "checking", "over")
        /\ section' = section /\ UNCHANGED << online, inbox, local, out, gone >>
    BY <1>3 DEF Corrects
  <2>2. {"correcting", "checking"} \subseteq Outside
    BY DEF Outside
  <2> QED BY <2>1, <2>2, StaysSteady, WrittenViews
<1>4. CASE SpuriousWakeup(c)
  <2>1. /\ at[c]["login"] = "asleep" /\ Goes(c, "login", "woken")
        /\ section' = section /\ UNCHANGED << online, inbox, local, out, gone >>
    BY <1>4 DEF SpuriousWakeup
  <2>2. {at[c]["login"], "woken"} \subseteq Entering
    BY <2>1 DEF Entering
  <2> QED BY <1>0, <2>1, <2>2, Unwritten, StaysSteady, LoginGoesViews
<1>5. CASE ChecksNickname(c) /\ Refused(c)
  <2>1. /\ at[c]["login"] = "checking" /\ Unlocked /\ Writes(c, Error) /\ Goes(c, "login", "refusing")
        /\ section' = Section("refusal", c, None, {}) /\ UNCHANGED << online, inbox, local, gone >>
    BY <1>5 DEF ChecksNickname
  <2>2. SectionSteady
    BY <2>1 DEF SectionSteady, HeldBy, Unlocked
  <2>3. {at[c]["login"], "refusing"} \subseteq Outside
    BY <2>1 DEF Outside
  <2> QED BY <1>0, <2>1, <2>2, <2>3, WritesErrorOnly, LoginGoesViews
<1>6. CASE Refuses(c)
  <2>1. /\ at[c]["login"] = "refusing" /\ Written(c, "login", "over", "over")
        /\ section' = None /\ UNCHANGED << online, inbox, local, out, gone >>
    BY <1>6 DEF Refuses
  <2>2. ~HeldBy("logout")
    BY <2>1 DEF AloneInv, HeldBy
  <2>3. SectionSteady
    BY <2>1, <2>2 DEF SectionSteady
  <2> QED BY <2>1, <2>3, WrittenViews
<1>7. CASE Welcomed(c)
  <2>1. /\ at[c]["login"] = "ending" /\ Written(c, "login", "to_send", "over")
        /\ section' = section /\ UNCHANGED << online, inbox, local, out, gone >>
    BY <1>7 DEF Welcomed
  <2>2. {"ending", "to_send"} \subseteq Listed
    BY DEF Listed
  <2> QED BY <2>1, <2>2, StaysSteady, WrittenViews
<1>8. CASE Welcomes(c) /\ at[c]["login"] # "welcoming"
  <2>1. section' = section /\ UNCHANGED << online, inbox, local, gone >>
    BY <1>8 DEF Welcomes
  <2>2. PICK s \in {"history", "ending", "over"} :
          /\ Goes(c, "login", s) /\ at[c]["login"] \in {"listing", "history"}
          /\ out' = out \/ Writes(c, lastMessages) \/ Writes(c, << [type |-> "done_last_messages"] >>)
    BY <1>8 DEF Welcomes
  <2>3. [type |-> "done_last_messages"] \in Lines
    BY DEF Lines
  <2>4. \A d \in Conn : StillShows(d)
    BY <2>2, <2>3, Unwritten, NeutralLines, WritesHistory, WritesNeutral
  <2>5. {at[c]["login"], s} \subseteq Listed \/ (s = "over" /\ at[c]["login"] \notin {"to_receive", "over"})
    BY <2>2 DEF Listed
  <2> QED BY <1>0, <2>1, <2>2, <2>4, <2>5, StaysSteady, LoginGoesViews
<1> QED BY <1>1, <1>2, <1>3, <1>4, <1>5, <1>6, <1>7, <1>8

LEMMA StartsServicesViews ==
  ASSUME HearInv, IInv', ViewInv, NEW c \in Conn, StartsServices(c)
  PROVE  ViewInv'
<1>0. section' = section /\ SectionSteady /\ UNCHANGED << online, inbox, local, gone, out >>
  BY StaysSteady DEF StartsServices
<1>1. at[c]["send"] # "none" <=> at[c]["login"] = "to_receive"
  BY HearTyped DEF StartsServices, IInv, SessionInv, OrderInv
<1>2. PICK s \in {"to_receive", "over"}, p \in {"send", "receive"} :
        /\ Hands(c, "login", s, p)
        /\ at[c]["login"] = IF p = "send" THEN "to_send" ELSE "to_receive"
        /\ s = "to_receive" <=> p = "send"
  <2>1. CASE at[c]["login"] = "to_send" /\ Hands(c, "login", "to_receive", "send")
    BY <2>1
  <2>2. CASE at[c]["login"] = "to_receive" /\ Hands(c, "login", "over", "receive")
    BY <2>2
  <2> QED BY <2>1, <2>2 DEF StartsServices
<1>3. \A d \in Conn, q \in Pool :
        at'[d][q] = IF d = c /\ q = "login" THEN s ELSE IF d = c /\ q = p THEN "queued" ELSE at[d][q]
  BY <1>2, HearTyped, HandsTo
<1>4. \A d \in Conn \ {c} : Place(d)' = Place(d)
  BY <1>3, HearTyped DEF Place
<1>5. Place(c)' = "served"
  BY <1>1, <1>2, <1>3, HearTyped DEF Place
<1>6. Place(c) = "served"
  BY <1>1, <1>2 DEF Place, Listed, StartsServices
<1>7. \A d \in Conn : at'[d]["logout"] = at[d]["logout"]
  BY <1>2, <1>3, HearTyped
<1>8. \A d \in Conn : Steady(d)
  BY <1>0, <1>4, <1>5, <1>6, <1>7 DEF Steady, StillShows
<1> QED BY <1>0, <1>8, SteadyKeeps

LEMMA SendViews ==
  ASSUME HearInv, IInv', ViewInv, NEW c \in Conn, at[c]["send"] # "none",
         NEW s \in {"reading", "executing", "denying", "answering", "telling", "archiving", "leaving"},
         Goes(c, "send", s),
         SectionSteady, UNCHANGED << online, inbox, gone >>,
         \A d \in Conn : local'[d].listed = local[d].listed,
         \A d \in Conn : StillShows(d)
  PROVE  ViewInv'
<1>1. \A d \in Conn, q \in Pool : at'[d][q] = IF d = c /\ q = "send" THEN s ELSE at[d][q]
  BY HearTyped, SendGoesTo
<1>2. at'[c]["send"] # "none"
  BY <1>1, HearTyped
<1>3. \A d \in Conn : /\ at'[d]["login"] = at[d]["login"] /\ at'[d]["logout"] = at[d]["logout"]
                      /\ d # c => at'[d]["send"] = at[d]["send"]
  BY <1>1, HearTyped
<1>4. \A d \in Conn : Place(d)' = Place(d)
  BY <1>2, <1>3 DEF Place
<1>5. \A d \in Conn : Steady(d)
  BY <1>3, <1>4 DEF Steady
<1> QED BY <1>5, SteadyKeeps

LEMMA SenderViews ==
  ASSUME HearInv, AloneInv, IInv', ViewInv, NEW c \in Conn,
         \/ TakesToSend(c) \/ ReadsChat(c) \/ StopsReading(c) \/ ReadThrows(c)
         \/ Answered(c) \/ Archives(c)
  PROVE  ViewInv'
<1>0. UNCHANGED << online, inbox, gone >>
  BY DEF TakesToSend, ReadsChat, StopsReading, ReadThrows, Answered, Archives
<1>1. CASE TakesToSend(c)
  <2>1. Takes(c, "send", "reading") /\ section' = section /\ UNCHANGED << accepted, local, out >>
    BY <1>1 DEF TakesToSend
  <2>2. \A d \in Conn, q \in Pool : at'[d][q] = IF d = c /\ q = "send" THEN "reading" ELSE at[d][q]
    BY <2>1, HearTyped, TakesTo
  <2>3. at[c]["send"] = "queued"
    BY <2>1, HearTyped, QueueTakes DEF IInv
  <2>4. \A d \in Conn : Steady(d)
    BY <1>0, <2>1, <2>2, <2>3, Unwritten, OtherSteady
  <2> QED BY <1>0, <2>1, <2>4, StaysSteady, SteadyKeeps
<1>2. CASE ReadsChat(c)
  <2>1. at[c]["send"] = "reading" /\ Goes(c, "send", "executing") /\ out' = out /\ section' = section
    BY <1>2 DEF ReadsChat
  <2>2. PICK message : local' = [local EXCEPT ![c].command = message, ![c].lines = @ + 1]
    BY <1>2 DEF ReadsChat
  <2>3. \A d \in Conn : local'[d].listed = local[d].listed
    BY <2>2, HearTyped DEF TypeOK
  <2> QED BY <1>0, <2>1, <2>3, Unwritten, StaysSteady, SendViews
<1>3. CASE StopsReading(c)
  <2>1. at[c]["send"] = "reading" /\ local' = local /\ section' = section
    BY <1>3 DEF StopsReading
  <2>2. PICK s \in {"leaving", "answering"} : Goes(c, "send", s) /\ (out' = out \/ Writes(c, Error))
    BY <1>3 DEF StopsReading
  <2>3. \A d \in Conn : StillShows(d)
    BY <2>2, Unwritten, WritesErrorOnly
  <2> QED BY <1>0, <2>1, <2>2, <2>3, StaysSteady, SendViews
<1>4. CASE ReadThrows(c)
  <2>1. section' = section /\ UNCHANGED << at, local, out >>
    BY <1>4 DEF ReadThrows
  <2> QED BY <1>0, <2>1, StillSteady, StaysSteady, SteadyKeeps
<1>5. CASE Archives(c)
  <2>1. /\ at[c]["send"] = "archiving" /\ Goes(c, "send", "reading") /\ out' = out /\ section' = section
        /\ local' = [local EXCEPT ![c].command = None]
    BY <1>5 DEF Archives
  <2>2. \A d \in Conn : local'[d].listed = local[d].listed
    BY <2>1, HearTyped DEF TypeOK
  <2> QED BY <1>0, <2>1, <2>2, Unwritten, StaysSteady, SendViews
<1>6. CASE Answered(c)
  <2>1. UNCHANGED << local, out >> /\ at[c]["send"] \in {"denying", "answering"}
    BY <1>6 DEF Answered
  <2>2. PICK s \in {"reading", "leaving"} : Goes(c, "send", s)
    BY <1>6 DEF Answered, Written
  <2>3. SectionSteady
    <3>1. CASE section' = section
      BY <3>1, StaysSteady
    <3>2. CASE at[c]["send"] = "denying" /\ section' = None
      <4>1. ~HeldBy("logout")
        BY <3>2 DEF AloneInv, HeldBy
      <4> QED BY <3>2, <4>1 DEF SectionSteady
    <3> QED BY <1>6, <3>1, <3>2 DEF Answered
  <2> QED BY <1>0, <2>1, <2>2, <2>3, Unwritten, SendViews
<1> QED BY <1>1, <1>2, <1>3, <1>4, <1>5, <1>6

LEMMA SendsViews ==
  ASSUME HearInv, IInv', ViewInv, NEW c \in Conn, SendsPrivate(c) \/ SendsPublic(c)
  PROVE  ViewInv'
<1> DEFINE message == local[c].command
<1>1. /\ at[c]["send"] = "executing" /\ Unlocked /\ UNCHANGED << inbox, online, gone >>
      /\ local' = local \/ local' = [local EXCEPT ![c].command = None]
  BY DEF SendsPrivate, SendsPublic
<1>2. \A d \in Conn : local'[d].listed = local[d].listed
  <2>1. CASE local' = local
    BY <2>1
  <2>2. CASE local' = [local EXCEPT ![c].command = None]
    BY <2>2, HearTyped DEF TypeOK
  <2> QED BY <1>1, <2>1, <2>2
<1>3. ASSUME NEW type \in {"private_message", "public_message"}, NEW left \in SUBSET UsersOnline(online),
             local[c].command.type = type, section' = Section("send", c, Chat(type, c), left)
      PROVE  SectionSteady
  <2>1. Chat(type, c) \in Msg
    BY <1>1, <1>3, HearTyped, ChatTyped
  <2>2. IsChat(Chat(type, c))
    BY DEF IsChat, Chat
  <2> QED BY <1>1, <1>3, <2>1, <2>2 DEF SectionSteady
<1>4. CASE SendsPublic(c)
  <2>1. /\ section' = Section("send", c, Chat("public_message", c), UsersOnline(online) \ {c})
        /\ Goes(c, "send", "telling") /\ out' = out /\ local[c].command.type = "public_message"
    BY <1>4 DEF SendsPublic
  <2>2. SectionSteady
    BY <1>3, <2>1
  <2> QED BY <1>1, <1>2, <2>1, <2>2, Unwritten, SendViews
<1>5. CASE SendsPrivate(c)
  <2>1. CASE Writes(c, Error) /\ Goes(c, "send", "denying") /\ section' = Section("denial", c, None, {})
    <3>1. SectionSteady
      BY <1>1, <2>1 DEF SectionSteady, HeldBy, Unlocked
    <3> QED BY <1>1, <1>2, <2>1, <3>1, WritesErrorOnly, SendViews
  <2>2. CASE /\ ~Denied(c, message)
             /\ section' = Section("send", c, Chat("private_message", c), {online[message.destination]})
             /\ Goes(c, "send", "telling") /\ out' = out
    <3>1. {online[message.destination]} \in SUBSET UsersOnline(online)
      BY <2>2 DEF Denied, IsOnline, UsersOnline
    <3>2. local[c].command.type = "private_message"
      BY <1>5 DEF SendsPrivate
    <3>3. SectionSteady
      BY <1>3, <2>2, <3>1, <3>2
    <3> QED BY <1>1, <1>2, <2>2, <3>3, Unwritten, SendViews
  <2> QED BY <1>5, <2>1, <2>2 DEF SendsPrivate
<1> QED BY <1>4, <1>5

LEMMA StartsLogoutViews == ASSUME HearInv, IInv', ViewInv, NEW c \in Conn, StartsLogout(c) PROVE ViewInv'
<1>1. /\ at[c]["send"] = "leaving" /\ Hands(c, "send", "over", "logout")
      /\ UNCHANGED << section, online, inbox, local, out, gone >>
  BY DEF StartsLogout
<1>2. \A d \in Conn, q \in Pool :
        at'[d][q] = IF d = c /\ q = "send" THEN "over"
                    ELSE IF d = c /\ q = "logout" THEN "queued" ELSE at[d][q]
  BY <1>1, HearTyped, HandsTo
<1>3. \A d \in Conn : /\ at'[d]["login"] = at[d]["login"]
                      /\ (at'[d]["send"] # "none") <=> (at[d]["send"] # "none")
                      /\ at'[d]["logout"] # at[d]["logout"] => at'[d]["logout"] = "queued"
  BY <1>1, <1>2, HearTyped
<1>4. \A d \in Conn : Place(d)' = Place(d)
  BY <1>3 DEF Place
<1>5. \A d \in Conn : Steady(d)
  BY <1>1, <1>3, <1>4 DEF Steady, StillShows
<1> QED BY <1>1, <1>5, StaysSteady, SteadyKeeps

LEMMA ReceiverViews ==
  ASSUME HearInv, IInv', ViewInv, NEW c \in Conn,
         TakesToReceive(c) \/ Delivered(c) \/ StopsDelivering(c) \/ ClosesInbox(c)
  PROVE  ViewInv'
<1>0. section' = section /\ SectionSteady /\ UNCHANGED << online, gone, local, out >>
  BY StaysSteady DEF TakesToReceive, Delivered, StopsDelivering, ClosesInbox
<1>1. CASE TakesToReceive(c)
  <2>1. Takes(c, "receive", "serving") /\ inbox' = inbox
    BY <1>1 DEF TakesToReceive
  <2>2. \A d \in Conn, q \in Pool : at'[d][q] = IF d = c /\ q = "receive" THEN "serving" ELSE at[d][q]
    BY <2>1, HearTyped, TakesTo
  <2>3. \A d \in Conn : Steady(d)
    BY <1>0, <2>1, <2>2, Unwritten, OtherSteady
  <2> QED BY <1>0, <2>3, SteadyKeeps
<1>2. CASE Delivered(c) \/ StopsDelivering(c)
  <2>1. PICK s \in {"serving", "over"} : Goes(c, "receive", s) /\ inbox' = inbox
    BY <1>2 DEF Delivered, StopsDelivering, Written
  <2>2. \A d \in Conn, q \in Pool : at'[d][q] = IF d = c /\ q = "receive" THEN s ELSE at[d][q]
    BY <2>1, HearTyped, ReceiveGoesTo
  <2>3. \A d \in Conn : Steady(d)
    BY <1>0, <2>1, <2>2, Unwritten, OtherSteady
  <2> QED BY <1>0, <2>3, SteadyKeeps
<1>3. CASE ClosesInbox(c)
  <2>1. Takes(c, "logout", "closed") /\ inbox' = [inbox EXCEPT ![c].closed = TRUE]
    BY <1>3 DEF ClosesInbox
  <2>2. \A d \in Conn, q \in Pool : at'[d][q] = IF d = c /\ q = "logout" THEN "closed" ELSE at[d][q]
    BY <2>1, HearTyped, TakesTo
  <2>3. \A d \in Conn : inbox'[d].jobs = inbox[d].jobs /\ (inbox[d].closed => inbox'[d].closed)
    BY <2>1, HearTyped DEF TypeOK
  <2>4. inbox'[c].closed
    BY <2>1, HearTyped DEF TypeOK
  <2>5. \A d \in Conn : /\ at'[d]["login"] = at[d]["login"] /\ at'[d]["send"] = at[d]["send"]
                        /\ d # c => at'[d]["logout"] = at[d]["logout"]
    BY <2>2, HearTyped
  <2>6. \A d \in Conn : Place(d)' = Place(d)
    BY <2>5 DEF Place
  <2>7. \A d \in Conn : Steady(d)
    BY <1>0, <2>3, <2>4, <2>5, <2>6 DEF Steady, StillShows
  <2> QED BY <1>0, <2>7, SteadyKeeps
<1> QED BY <1>1, <1>2, <1>3

-----------------------------------------------------------------------------
(* What the two kinds of notice do, and who waits for one.                   *)
LEMMA NoticeShows ==
  ASSUME NEW k, NEW n
  PROVE  /\ Shows(Notice("login", k), n) <=> n = k
         /\ ~Hides(Notice("login", k), n)
         /\ Hides(Notice("logout", k), n) <=> n = k
         /\ ~Shows(Notice("logout", k), n)
         /\ Notice("login", k) = Notice("login", n) <=> n = k
         /\ Notice("logout", k) = Notice("logout", n) <=> n = k
BY DEF Shows, Hides, Notice

LEMMA Lockers ==
  ASSUME LockInv, NEW c, NEW n
  PROVE  /\ Awaits(c, n) <=> HeldBy("logout") /\ n = NickOf[section.who] /\ c \in section.left
         /\ WasTold(c, n) <=> HeldBy("login") /\ n = NickOf[section.who] /\ c \notin section.left
BY NoticeShows DEF LockInv, Awaits, WasTold

LEMMA LockersNext ==
  ASSUME LockInv', NEW c, NEW n
  PROVE  /\ Awaits(c, n)' <=> HeldBy("logout")' /\ n = NickOf[section'.who] /\ c \in section'.left
         /\ WasTold(c, n)' <=> HeldBy("login")' /\ n = NickOf[section'.who] /\ c \notin section'.left
BY NoticeShows DEF LockInv, Awaits, WasTold, HeldBy

LEMMA KnowsSame ==
  ASSUME NEW c, NEW n, inbox'[c].jobs = inbox[c].jobs, Place(c)' = Place(c),
         local'[c].listed = local[c].listed, out'[c] = out[c],
         online'[n] # None <=> online[n] # None
  PROVE  Knows(c, n)' <=> Knows(c, n)
BY DEF Knows, Base

LEMMA FollowsSame ==
  ASSUME NEW c, inbox'[c].closed = inbox[c].closed, gone'[c] = gone[c], Place(c)' = Place(c)
  PROVE  Follows(c)' <=> Follows(c)
BY DEF Follows

LEMMA OwnerAnnounced ==
  ASSUME HearInv, NEW n \in Nick, online[n] # None
  PROVE  online[n] \in Conn /\ NickOf[online[n]] = n
BY DEF HearInv, IInv, TypeOK, SessionInv, OwnerInv

-----------------------------------------------------------------------------
(* A line is taken from the inbox of a user and written to its socket.       *)
LEMMA DeliversViews == ASSUME HearInv, IInv', ViewInv, NEW c \in Conn, Delivers(c) PROVE ViewInv'
<1> DEFINE q == inbox[c].jobs
           m == Head(q)
<1>1. /\ q # << >> /\ inbox' = [inbox EXCEPT ![c].jobs = Tail(q)]
      /\ at[c]["receive"] = "serving" /\ local' = local /\ section' = section
      /\ online' = online /\ gone' = gone
  BY DEF Delivers
<1>2. q \in Seq(Lines) /\ q \in Seq(Msg) /\ out[c] \in Seq(Lines)
  BY ClientTyped DEF HearInv
<1>3. m \in Lines
  <2>1. m \in Msg
    BY <1>1, <1>2, HeadTailProperties, EmptySeq
  <2> QED BY <2>1, MsgIsLine
<1>4. /\ inbox'[c].jobs = Tail(q)
      /\ \A d \in Conn \ {c} : inbox'[d].jobs = inbox[d].jobs
      /\ \A d \in Conn : inbox'[d].closed = inbox[d].closed
  BY <1>1, HearTyped DEF TypeOK
<1>5. /\ \A d \in Conn \ {c} : out'[d] = out[d]
      /\ gone[c] \/ out'[c] = Append(out[c], m)
  <2>1. Writes(c, << m >>)
    BY DEF Delivers
  <2> QED BY <1>3, <2>1, WritesOne
<1>6. \A d \in Conn : /\ at'[d]["login"] = at[d]["login"] /\ at'[d]["send"] = at[d]["send"]
                      /\ at'[d]["logout"] = at[d]["logout"]
  <2>1. Goes(c, "receive", "sending")
    BY DEF Delivers
  <2>2. \A d \in Conn, p \in Pool : at'[d][p] = IF d = c /\ p = "receive" THEN "sending" ELSE at[d][p]
    BY <2>1, HearTyped, ReceiveGoesTo
  <2> QED BY <2>2, HearTyped
<1>7. \A d \in Conn : Place(d)' = Place(d)
  BY <1>6 DEF Place
<1>8. at[c]["login"] = "over"
  BY <1>1, HearTyped DEF IInv, SessionInv, OrderInv
<1>9. Place(c) \in {"served", "over"}
  BY <1>8 DEF Place, Outside, Entering, Listed
<1> HIDE DEF q, m
<1>10. LockInv'
  BY <1>1 DEF ViewInv, LockInv, HeldBy
<1>11. ClosedInv'
  BY <1>4, <1>6 DEF ViewInv, ClosedInv
<1>12. OutsideInv'
  BY <1>1, <1>4, <1>7, <1>9 DEF ViewInv, OutsideInv, Broadcasting, HeldBy
<1>13. ASSUME NEW n \in Nick, Follows(c)' PROVE Knows(c, n)' <=> Knows(c, n)
  <2>1. Place(c) = "served" /\ Place(c)' = "served" /\ out'[c] = Append(out[c], m)
    BY <1>1, <1>5, <1>7, <1>9, <1>13 DEF Follows
  <2>2. /\ Knows(c, n)' <=> Displays(Tail(q), n) \/ (Displays(Append(out[c], m), n) /\ Keeps(Tail(q), n))
        /\ Knows(c, n) <=> Displays(q, n) \/ (Displays(out[c], n) /\ Keeps(q, n))
    BY <1>4, <2>1 DEF Knows, Base, q
  <2>3. Displays(Append(out[c], m), n) <=> Shows(m, n) \/ (Displays(out[c], n) /\ ~Hides(m, n))
    BY <1>2, <1>3, DisplaysAppended
  <2>4. /\ Displays(q, n) <=> Displays(Tail(q), n) \/ (Shows(m, n) /\ Keeps(Tail(q), n))
        /\ Keeps(q, n) <=> ~Hides(m, n) /\ Keeps(Tail(q), n)
    BY <1>1, <1>2, DisplaysTail DEF m
  <2> QED BY <2>2, <2>3, <2>4
<1>14. ASSUME NEW d \in Conn, Follows(d)', NEW n \in Nick \ {NickOf[d]} PROVE Informed(d, n)'
  <2>1. Follows(d) /\ Informed(d, n)
    BY <1>1, <1>4, <1>7, <1>14, FollowsSame DEF ViewInv, KnowsInv
  <2>2. Knows(d, n)' <=> Knows(d, n)
    <3>1. CASE d = c
      BY <1>13, <1>14, <3>1
    <3>2. CASE d # c
      BY <1>1, <1>4, <1>5, <1>7, <3>2, KnowsSame
    <3> QED BY <3>1, <3>2
  <2>3. /\ Awaits(d, n)' <=> Awaits(d, n)
        /\ WasTold(d, n)' <=> WasTold(d, n)
    BY <1>1 DEF Awaits, WasTold, HeldBy
  <2>4. online[n] # None => (Announced(online[n])' <=> Announced(online[n]))
    BY <1>1, <1>6, OwnerAnnounced DEF Announced
  <2> QED BY <1>1, <2>1, <2>2, <2>3, <2>4 DEF Informed, Announced
<1> QED BY <1>10, <1>11, <1>12, <1>14 DEF ViewInv, KnowsInv

-----------------------------------------------------------------------------
(* The list of the users online is made, and replaced by the lines after it. *)
LEMMA ListsViews ==
  ASSUME HearInv, IInv', ViewInv, NEW c \in Conn, Welcomes(c), at[c]["login"] = "welcoming"
  PROVE  ViewInv'
<1> DEFINE x == [type |-> "online_users", nicks |-> local[c].listed]
<1>1. Goes(c, "login", "listing") /\ Writes(c, << x >>) /\ UNCHANGED << section, online, inbox, local, gone >>
  BY DEF Welcomes
<1>2. \A d \in Conn, q \in Pool : at'[d][q] = IF d = c /\ q = "login" THEN "listing" ELSE at[d][q]
  BY <1>1, HearTyped, LoginGoesTo
<1>3. \A d \in Conn : /\ d # c => at'[d]["login"] = at[d]["login"]
                      /\ at'[d]["send"] = at[d]["send"] /\ at'[d]["logout"] = at[d]["logout"]
  BY <1>2, HearTyped
<1>4. at'[c]["login"] = "listing"
  BY <1>2, HearTyped
<1>5. x \in Lines /\ out[c] \in Seq(Lines)
  BY HearTyped DEF TypeOK, Lines, HearInv, HeardInv
<1>6. \A n \in Nick : (Shows(x, n) <=> n \in local[c].listed) /\ (Hides(x, n) <=> ~Shows(x, n))
  BY DEF Shows, Hides
<1> HIDE DEF x
<1>8. \A n \in Nick : Displays(Append(out[c], x), n) <=> n \in local[c].listed
  BY <1>5, <1>6, DisplaysAppended
<1>10. /\ \A d \in Conn \ {c} : out'[d] = out[d]
       /\ ~gone[c] => out'[c] = Append(out[c], x)
  BY <1>1, <1>5, WritesOne
<1>11. \A d \in Conn \ {c} : Place(d)' = Place(d)
  BY <1>3 DEF Place
<1>12. Place(c)' = "served" /\ Place(c) = "welcoming"
  <2>1. at[c]["send"] = "none"
    BY HearTyped DEF IInv, SessionInv, OrderInv
  <2> QED BY <1>4, <2>1 DEF Place, Outside, Entering, Listed
<1>13. LockInv'
  BY <1>1 DEF ViewInv, LockInv, HeldBy
<1>14. ClosedInv'
  BY <1>1, <1>3 DEF ViewInv, ClosedInv
<1>15. OutsideInv'
  BY <1>1, <1>11, <1>12 DEF ViewInv, OutsideInv, Broadcasting, HeldBy
<1>16. ASSUME NEW n \in Nick, ~gone[c] PROVE Knows(c, n)' <=> Knows(c, n)
  BY <1>1, <1>8, <1>10, <1>12, <1>16 DEF Knows, Base
<1>17. ASSUME NEW d \in Conn, Follows(d)', NEW n \in Nick \ {NickOf[d]} PROVE Informed(d, n)'
  <2>1. Follows(d) /\ Informed(d, n)
    BY <1>1, <1>11, <1>12, <1>17 DEF ViewInv, KnowsInv, Follows
  <2>2. Knows(d, n)' <=> Knows(d, n)
    <3>1. CASE d = c
      BY <1>16, <2>1, <3>1 DEF Follows
    <3>2. CASE d # c
      BY <1>1, <1>10, <1>11, <3>2, KnowsSame
    <3> QED BY <3>1, <3>2
  <2>3. /\ Awaits(d, n)' <=> Awaits(d, n)
        /\ WasTold(d, n)' <=> WasTold(d, n)
    BY <1>1 DEF Awaits, WasTold, HeldBy
  <2>4. online[n] # None => (Announced(online[n])' <=> Announced(online[n]))
    <3>1. \A e \in Conn : Announced(e)' <=> Announced(e)
      BY <1>11, <1>12, AnnouncedPlace
    <3> QED BY <1>1, <3>1, OwnerAnnounced DEF Announced
  <2> QED BY <1>1, <2>1, <2>2, <2>3, <2>4 DEF Informed, Announced
<1> QED BY <1>13, <1>14, <1>15, <1>17 DEF ViewInv, KnowsInv

(* The new user c waits for a place, or its announcement begins.             *)
LEMMA AdmitsViews ==
  ASSUME HearInv, IInv', ViewInv, NEW c \in Conn, Unlocked,
         NEW s \in {"asleep", "announcing"}, Goes(c, "login", s),
         \/ at[c]["login"] = "woken" /\ online' = online
         \/ at[c]["login"] = "checking" /\ online[NickOf[c]] = None,
         \A n \in Nick : online'[n] = IF n = NickOf[c] THEN c ELSE online[n],
         \/ section' = None
         \/ section' = Section("login", c, Notice("login", NickOf[c]), UsersOnline(online') \ {c}),
         UNCHANGED << inbox, local, out, gone >>
  PROVE  ViewInv'
<1> DEFINE Announces ==
      section' = Section("login", c, Notice("login", NickOf[c]), UsersOnline(online') \ {c})
<1>1. \A d \in Conn, q \in Pool : at'[d][q] = IF d = c /\ q = "login" THEN s ELSE at[d][q]
  BY HearTyped, LoginGoesTo
<1>2. \A d \in Conn : /\ d # c => at'[d]["login"] = at[d]["login"]
                      /\ at'[d]["send"] = at[d]["send"] /\ at'[d]["logout"] = at[d]["logout"]
  BY <1>1, HearTyped
<1>3. at'[c]["login"] = s /\ at[c]["send"] = "none"
  BY <1>1, HearTyped DEF IInv, SessionInv, OrderInv
<1>4. \A d \in Conn \ {c} : Place(d)' = Place(d)
  BY <1>2 DEF Place
<1>5. Place(c)' = "entering"
  BY <1>2, <1>3 DEF Place, Outside, Entering, Listed
<1>6. NickOf \in [Conn -> Nick] /\ None \notin Conn
  BY NickAssumption, ConnAssumption
<1>7. /\ ~HeldBy("logout")' /\ ~HeldBy("send")'
      /\ HeldBy("login")' \/ Broadcasting' =>
           /\ section'.msg = Notice("login", NickOf[c]) /\ section'.who = c
           /\ section'.left = UsersOnline(online') \ {c}
  <2>1. CASE section' = None
    BY <2>1 DEF HeldBy, Broadcasting
  <2>2. CASE Announces
    BY <2>2 DEF HeldBy, Broadcasting, Section
  <2> QED BY <2>1, <2>2
<1> HIDE DEF Announces
<1>8. LockInv'
  BY <1>7 DEF LockInv, HeldBy
<1>9. ClosedInv'
  BY <1>2 DEF ViewInv, ClosedInv
<1>10. ASSUME NEW d \in Conn, Place(d)' = "outside"
       PROVE  /\ inbox'[d].jobs = << >> /\ online'[NickOf[d]] # d
              /\ Broadcasting' => d \notin section'.left
  <2>1. d # c /\ Place(d) = "outside"
    BY <1>4, <1>5, <1>10
  <2>2. inbox[d].jobs = << >> /\ d \notin UsersOnline(online)
    BY <2>1, OutsideOffline DEF ViewInv, OutsideInv
  <2>3. d \notin UsersOnline(online')
    BY <2>1, <2>2 DEF UsersOnline
  <2>4. online'[NickOf[d]] # d
    BY <1>6, <2>3 DEF UsersOnline
  <2> QED BY <1>7, <2>2, <2>3, <2>4
<1>11. OutsideInv'
  BY <1>10 DEF OutsideInv
<1>12. ASSUME NEW n \in Nick PROVE ~Awaits(c, n) /\ \A d : ~Awaits(d, n) /\ ~Awaits(d, n)'
  BY <1>7 DEF Awaits, HeldBy, Unlocked
<1>13. ASSUME NEW d, NEW n \in Nick \ {NickOf[c]} PROVE ~WasTold(d, n)'
  BY <1>7, <1>8, LockersNext
<1>14. ASSUME NEW n \in Nick \ {NickOf[c]}
       PROVE  /\ online'[n] = online[n]
              /\ online[n] # None => (Announced(online[n])' <=> Announced(online[n]))
  <2>1. online'[n] = online[n]
    OBVIOUS
  <2>2. online[n] # None => online[n] \in Conn \ {c}
    BY OwnerAnnounced
  <2>3. \A e \in Conn \ {c} : Announced(e)' <=> Announced(e)
    BY <1>2 DEF Announced
  <2> QED BY <2>1, <2>2, <2>3 DEF Announced
<1>15. ASSUME Follows(c)', NEW n \in Nick \ {NickOf[c]} PROVE Informed(c, n)'
  <2>1. CASE at[c]["login"] = "woken" /\ online' = online
    <3>1. Place(c) = "entering"
      BY <1>3, <2>1 DEF Place, Outside, Entering, Listed
    <3>2. Informed(c, n)
      BY <1>15, <3>1 DEF ViewInv, KnowsInv, Follows
    <3>3. Knows(c, n)' <=> Knows(c, n)
      BY <1>5, <2>1, <3>1, KnowsSame
    <3> QED BY <1>12, <1>13, <1>14, <3>2, <3>3 DEF Informed, Announced
  <2>2. CASE at[c]["login"] = "checking"
    <3>1. Place(c) = "outside"
      BY <1>3, <2>2 DEF Place, Outside, Entering, Listed
    <3>2. inbox[c].jobs = << >>
      BY <3>1 DEF ViewInv, OutsideInv
    <3>3. Len(inbox'[c].jobs) = 0
      BY <3>2
    <3>4. ~Displays(inbox'[c].jobs, n) /\ Keeps(inbox'[c].jobs, n)
      BY <3>3 DEF Displays, Keeps
    <3>5. Knows(c, n)' <=> online'[n] # None
      BY <1>5, <3>4 DEF Knows, Base
    <3> QED BY <3>5 DEF Informed
  <2> QED BY <2>1, <2>2
<1>16. ASSUME NEW d \in Conn \ {c}, Follows(d)', NEW n \in Nick \ {NickOf[d]} PROVE Informed(d, n)'
  <2>1. Follows(d)
    BY <1>4, <1>16, FollowsSame
  <2>2. CASE n = NickOf[c]
    <3>1. online'[n] = c /\ c # None
      BY <1>6, <2>2
    <3>2. online[NickOf[d]] = d /\ NickOf[d] \in Nick
      BY <2>1, HearTyped, FollowerOnline DEF ViewInv
    <3>3. online'[NickOf[d]] = d
      BY <2>2, <3>2
    <3>4. d \in UsersOnline(online') \ {c}
      BY <1>6, <3>2, <3>3 DEF UsersOnline
    <3>5. ~WasTold(d, n)'
      BY <1>7, <1>8, <3>4, LockersNext
    <3>6. ~Announced(c)'
      BY <1>5, AnnouncedPlace
    <3> QED BY <3>1, <3>5, <3>6 DEF Informed, Announced
  <2>3. CASE n # NickOf[c]
    <3>1. Informed(d, n)
      BY <2>1 DEF ViewInv, KnowsInv
    <3>2. online'[n] = online[n]
      BY <2>3, <1>14
    <3>3. Knows(d, n)' <=> Knows(d, n)
      BY <1>4, <3>2, KnowsSame
    <3> QED BY <1>12, <1>13, <1>14, <2>3, <3>1, <3>2, <3>3 DEF Informed, Announced
  <2> QED BY <2>2, <2>3
<1> QED BY <1>8, <1>9, <1>11, <1>15, <1>16 DEF ViewInv, KnowsInv

LEMMA WaitsViews ==
  ASSUME HearInv, IInv', ViewInv, NEW c \in Conn,
         WakesUp(c) \/ (ChecksNickname(c) /\ ~Refused(c))
  PROVE  ViewInv'
<1>1. /\ Unlocked /\ UNCHANGED << inbox, local, out, gone >>
      /\ NickOf[c] \in Nick /\ online \in [Nick -> Conn \cup {None}]
  BY HearTyped, NickAssumption DEF WakesUp, ChecksNickname, TypeOK
<1>2. CASE WakesUp(c)
  <2>1. at[c]["login"] = "woken" /\ online' = online /\ Waits(c, online)
    BY <1>2 DEF WakesUp
  <2>2. InService(c)
    BY <2>1 DEF InService
  <2>3. \A n \in Nick : online'[n] = IF n = NickOf[c] THEN c ELSE online[n]
    BY <2>1, <2>2 DEF HearInv, IInv, SessionInv, OwnerInv
  <2>4. PICK s \in {"asleep", "announcing"} :
          /\ Goes(c, "login", s)
          /\ \/ section' = None
             \/ section' = Section("login", c, Notice("login", NickOf[c]), UsersOnline(online') \ {c})
    BY <1>1, <2>1 DEF Waits, Unlocked
  <2> QED BY <1>1, <2>1, <2>3, <2>4, AdmitsViews
<1>3. CASE ChecksNickname(c) /\ ~Refused(c)
  <2>1. /\ at[c]["login"] = "checking" /\ online' = [online EXCEPT ![NickOf[c]] = c]
        /\ Waits(c, online') /\ online[NickOf[c]] = None
    BY <1>3 DEF ChecksNickname, Refused
  <2>2. \A n \in Nick : online'[n] = IF n = NickOf[c] THEN c ELSE online[n]
    BY <1>1, <2>1
  <2>3. PICK s \in {"asleep", "announcing"} :
          /\ Goes(c, "login", s)
          /\ \/ section' = None
             \/ section' = Section("login", c, Notice("login", NickOf[c]), UsersOnline(online') \ {c})
    BY <1>1, <2>1 DEF Waits, Unlocked
  <2> QED BY <1>1, <2>1, <2>2, <2>3, AdmitsViews
<1> QED BY <1>2, <1>3

-----------------------------------------------------------------------------
(* The critical section: one user is told.                                  *)
LEMMA TellsViews == ASSUME HearInv, IInv', ViewInv, Tells PROVE ViewInv'
<1>1. Broadcasting /\ UNCHANGED << at, online, local, out, gone >>
  BY DEF Tells
<1>2. section.stuck # None => section.stuck \in section.left
  BY <1>1 DEF HearInv, ToldInv
<1>3. PICK u \in section.left : Puts(u) \/ Blocks(u)
  BY <1>2 DEF Tells
<1> DEFINE m == section.msg
           k == NickOf[section.who]
<1>4. section \in Holding /\ m \in Msg /\ u \in Conn /\ section.who \in Conn /\ k \in Nick
  <2>1. section \in Holding /\ m \in Msg /\ section.left \in SUBSET Conn /\ section.who \in Conn
    BY <1>1, HearTyped, HolderTyped
  <2> QED BY <1>3, <2>1, NickAssumption
<1>5. /\ section'.role = section.role /\ section'.who = section.who /\ section'.msg = section.msg
      /\ section'.left = section.left \/ (Puts(u) /\ section'.left = section.left \ {u})
  BY <1>3, <1>4 DEF Puts, Blocks, Holding
<1>6. section # None /\ section' # None
  <2>1. section # None
    BY <1>1 DEF Broadcasting, HeldBy
  <2>2. section' # None
    <3>1. section' \in Holding /\ section'.role \in {"login", "send", "logout"}
      BY <1>1, <1>3, <1>4, HearTyped, HolderTyped, BlocksTo, PutsTo
    <3> QED BY <3>1, NoneAssumption DEF Holding, CriticalSection
  <2> QED BY <2>1, <2>2
<1>7. \A role : HeldBy(role)' <=> HeldBy(role)
  BY <1>5, <1>6 DEF HeldBy
<1>8. /\ \A d \in Conn : inbox'[d].closed = inbox[d].closed
      /\ \A d \in Conn \ {u} : inbox'[d].jobs = inbox[d].jobs
      /\ \/ inbox'[u].jobs = inbox[u].jobs /\ section'.left = section.left
         \/ inbox'[u].jobs = Append(inbox[u].jobs, m) /\ section'.left = section.left \ {u}
  <2>1. CASE Blocks(u)
    <3>1. section'.left = section.left
      BY <1>4, <2>1 DEF Blocks, Holding
    <3> QED BY <2>1, <3>1 DEF Blocks
  <2>2. CASE Puts(u)
    <3>1. section'.left = section.left \ {u}
      BY <1>1, <1>4, <2>2, HearTyped, PutsTo
    <3> QED BY <1>4, <2>2, <3>1, HearTyped DEF Puts, TypeOK
  <2> QED BY <1>3, <2>1, <2>2
<1>9. \A d \in Conn : Place(d)' = Place(d)
  BY <1>1 DEF Place
<1>10. LockInv'
  BY <1>1, <1>5, <1>7 DEF ViewInv, LockInv
<1>11. ClosedInv'
  BY <1>1, <1>8 DEF ViewInv, ClosedInv
<1>12. OutsideInv'
  BY <1>1, <1>3, <1>8, <1>9 DEF ViewInv, OutsideInv
<1>13. ASSUME NEW n \in Nick, inbox'[u].jobs = Append(inbox[u].jobs, m)
       PROVE  Knows(u, n)' <=> Shows(m, n) \/ (Knows(u, n) /\ ~Hides(m, n))
  <2>1. inbox[u].jobs \in Seq(Lines) /\ m \in Lines
    BY <1>4, ClientTyped, MsgIsLine DEF HearInv
  <2>2. Base(u, n)' <=> Base(u, n)
    BY <1>1, <1>4, <1>9 DEF Base
  <2>3. /\ Displays(inbox'[u].jobs, n) <=> Shows(m, n) \/ (Displays(inbox[u].jobs, n) /\ ~Hides(m, n))
        /\ Keeps(inbox'[u].jobs, n) <=> Keeps(inbox[u].jobs, n) /\ ~Hides(m, n)
    BY <1>13, <2>1, DisplaysAppended
  <2> QED BY <2>2, <2>3 DEF Knows
<1>14. ASSUME NEW d \in Conn, Follows(d)', NEW n \in Nick \ {NickOf[d]} PROVE Informed(d, n)'
  <2>1. Informed(d, n)
    BY <1>1, <1>8, <1>9, <1>14, FollowsSame DEF ViewInv, KnowsInv
  <2>2. online'[n] = online[n] /\ (online[n] # None => (Announced(online[n])' <=> Announced(online[n])))
    BY <1>1 DEF Announced
  <2>3. /\ Awaits(d, n)' <=> HeldBy("logout") /\ n = k /\ d \in section'.left
        /\ WasTold(d, n)' <=> HeldBy("login") /\ n = k /\ d \notin section'.left
    BY <1>5, <1>7, <1>10, LockersNext
  <2>4. /\ Awaits(d, n) <=> HeldBy("logout") /\ n = k /\ d \in section.left
        /\ WasTold(d, n) <=> HeldBy("login") /\ n = k /\ d \notin section.left
    BY Lockers DEF ViewInv
  <2>5. CASE d # u \/ (inbox'[u].jobs = inbox[u].jobs /\ section'.left = section.left)
    <3>1. Knows(d, n)' <=> Knows(d, n)
      BY <1>1, <1>8, <1>9, <2>5, KnowsSame
    <3>2. d \in section'.left <=> d \in section.left
      BY <1>8, <2>5
    <3> QED BY <2>1, <2>2, <2>3, <2>4, <3>1, <3>2 DEF Informed, Announced
  <2>6. CASE d = u /\ inbox'[u].jobs = Append(inbox[u].jobs, m) /\ section'.left = section.left \ {u}
    <3>1. Knows(d, n)' <=> Shows(m, n) \/ (Knows(d, n) /\ ~Hides(m, n))
      BY <1>13, <2>6
    <3>2. d \notin section'.left
      BY <2>6
    <3>3. CASE HeldBy("login")
      <4>1. ~HeldBy("logout") /\ m = Notice("login", k)
        BY <3>3 DEF ViewInv, LockInv, HeldBy
      <4>2. at[section.who]["login"] = "announcing"
        BY <3>3, HearTyped DEF IInv, SectionInv
      <4>3. online[k] # None
        <5>1. InService(section.who)
          BY <4>2 DEF InService
        <5> QED BY <1>4, <5>1, HearTyped, ConnAssumption DEF IInv, SessionInv, OwnerInv
      <4>4. Knows(d, n)' <=> n = k \/ Knows(d, n)
        BY <3>1, <4>1, NoticeShows
      <4> QED BY <2>1, <2>2, <2>3, <2>4, <4>1, <4>3, <4>4 DEF Informed, Announced
    <3>4. CASE HeldBy("send")
      <4>1. ~HeldBy("logout") /\ ~HeldBy("login") /\ IsChat(m)
        BY <3>4 DEF ViewInv, LockInv, HeldBy
      <4>2. Knows(d, n)' <=> Knows(d, n)
        BY <3>1, <4>1, NeutralLines DEF Neutral
      <4> QED BY <2>1, <2>2, <2>3, <2>4, <4>1, <4>2 DEF Informed, Announced
    <3>5. CASE HeldBy("logout")
      <4>1. ~HeldBy("login") /\ m = Notice("logout", k) /\ online[k] = None
        BY <3>5 DEF ViewInv, LockInv, HeldBy
      <4>2. Knows(d, n)' <=> Knows(d, n) /\ n # k
        BY <3>1, <4>1, NoticeShows
      <4> QED BY <2>1, <2>2, <2>3, <2>4, <3>2, <4>1, <4>2 DEF Informed, Announced
    <3> QED BY <1>1, <3>3, <3>4, <3>5 DEF Broadcasting
  <2> QED BY <1>8, <2>5, <2>6
<1> QED BY <1>10, <1>11, <1>12, <1>14 DEF ViewInv, KnowsInv

(* The end of a critical section.                                           *)
LEMMA LeavesViews ==
  ASSUME HearInv, IInv', ViewInv, NEW c \in Conn, section' = None,
         HeldBy("logout") => section.left = {},
         UNCHANGED << online, inbox, local, out, gone >>,
         \/ at[c]["login"] = "announcing" /\ Goes(c, "login", "over")
         \/ at[c]["send"] = "telling" /\ \E s \in {"leaving", "archiving", "reading"} : Goes(c, "send", s)
         \/ at[c]["logout"] = "telling" /\ Goes(c, "logout", "over")
         \/ at[c]["logout"] = "telling" /\ \E w \in Conn : at[w]["login"] = "asleep" /\ Notifies(c, w)
  PROVE  ViewInv'
<1>1. SectionSteady /\ \A d \in Conn : StillShows(d)
  BY Unwritten DEF SectionSteady
<1>2. CASE at[c]["login"] = "announcing" /\ Goes(c, "login", "over")
  <2>1. \A d \in Conn, q \in Pool : at'[d][q] = IF d = c /\ q = "login" THEN "over" ELSE at[d][q]
    BY <1>2, HearTyped, LoginGoesTo
  <2>2. at[c]["login"] \notin {"to_receive", "over"}
    BY <1>2
  <2>3. \A d \in Conn : Steady(d)
    BY <1>1, <2>1, <2>2, LoginSteady
  <2> QED BY <1>1, <2>3, SteadyKeeps
<1>3. CASE at[c]["send"] = "telling" /\ \E s \in {"leaving", "archiving", "reading"} : Goes(c, "send", s)
  BY <1>1, <1>3, SendViews
<1>4. CASE at[c]["logout"] = "telling" /\ Goes(c, "logout", "over")
  <2>1. \A d \in Conn, q \in Pool : at'[d][q] = IF d = c /\ q = "logout" THEN "over" ELSE at[d][q]
    BY <1>4, HearTyped, LogoutGoesTo
  <2>2. at[c]["logout"] \notin {"none", "queued"}
    BY <1>4
  <2>3. \A d \in Conn : Steady(d)
    BY <1>1, <2>1, <2>2, OtherSteady
  <2> QED BY <1>1, <2>3, SteadyKeeps
<1>5. ASSUME at[c]["logout"] = "telling", NEW w \in Conn, at[w]["login"] = "asleep", Notifies(c, w)
      PROVE  ViewInv'
  <2>1. \A d \in Conn, q \in Pool :
          at'[d][q] = IF d = w /\ q = "login" THEN "woken"
                      ELSE IF d = c /\ q = "logout" THEN "over" ELSE at[d][q]
    BY <1>5, HearTyped, NotifiesTo
  <2>2. \A d \in Conn : /\ at'[d]["send"] = at[d]["send"]
                        /\ d # w => at'[d]["login"] = at[d]["login"]
                        /\ d # c => at'[d]["logout"] = at[d]["logout"]
    BY <2>1, HearTyped
  <2>3. at'[w]["login"] = "woken"
    BY <2>1, HearTyped
  <2>4. \A d \in Conn : Place(d)' = Place(d)
    BY <1>5, <2>2, <2>3 DEF Place, Outside, Entering, Listed
  <2>5. \A d \in Conn : Steady(d)
    BY <1>5, <2>2, <2>4 DEF Steady, StillShows
  <2> QED BY <1>1, <2>5, SteadyKeeps
<1> QED BY <1>2, <1>3, <1>4, <1>5

LEMMA SectionHolder ==
  ASSUME HearInv, Broadcasting
  PROVE  /\ section.who \in Conn /\ section.role \in {"login", "send", "logout"}
         /\ HeldBy("login") <=> section.role = "login"
         /\ HeldBy("send") <=> section.role = "send"
         /\ HeldBy("logout") <=> section.role = "logout"
         /\ section.role = "login" => at[section.who]["login"] = "announcing"
         /\ section.role = "send" => at[section.who]["send"] = "telling"
         /\ section.role = "logout" => at[section.who]["logout"] = "telling"
<1>1. section.who \in Conn
  BY HearTyped, HolderTyped
<1>2. section # None /\ section.role \in {"login", "send", "logout"}
  BY DEF Broadcasting, HeldBy
<1> QED BY <1>1, <1>2 DEF HearInv, IInv, SectionInv, HeldBy

LEMMA TellThrowsViews ==
  ASSUME HearInv, IInv', ViewInv, TellThrows, ~HeldBy("logout")
  PROVE  ViewInv'
<1> DEFINE c == section.who
<1>1. /\ Broadcasting /\ section' = None /\ UNCHANGED << online, inbox, local, out, gone >>
      /\ Goes(c, section.role, IF section.role = "login" THEN "over" ELSE "leaving")
  BY DEF TellThrows
<1>2. /\ c \in Conn /\ section.role \in {"login", "send"}
      /\ section.role = "login" => at[c]["login"] = "announcing"
      /\ section.role = "send" => at[c]["send"] = "telling"
  BY <1>1, SectionHolder
<1> HIDE DEF c
<1>3. CASE section.role = "login"
  <2>1. Goes(c, "login", "over")
    BY <1>1, <1>3
  <2> QED BY <1>1, <1>2, <1>3, <2>1, LeavesViews
<1>4. CASE section.role = "send"
  <2>1. Goes(c, "send", "leaving")
    BY <1>1, <1>4
  <2> QED BY <1>1, <1>2, <1>4, <2>1, LeavesViews
<1> QED BY <1>2, <1>3, <1>4

(* All have been told that c has logged in; it is given the list.            *)
LEMMA LoginToldViews ==
  ASSUME HearInv, IInv', ViewInv, NEW c \in Conn, HeldBy("login"), section.who = c,
         section.left = {}, section' = None, LoginTold(c), UNCHANGED << online, inbox, out, gone >>
  PROVE  ViewInv'
<1>1. at[c]["login"] = "announcing"
  BY HearTyped DEF IInv, SectionInv
<1>2. at[c]["send"] = "none"
  BY <1>1, HearTyped DEF IInv, SessionInv, OrderInv
<1>3. \A d \in Conn, q \in Pool : at'[d][q] = IF d = c /\ q = "login" THEN "welcoming" ELSE at[d][q]
  BY HearTyped, LoginGoesTo DEF LoginTold
<1>4. \A d \in Conn : /\ d # c => at'[d]["login"] = at[d]["login"]
                      /\ at'[d]["send"] = at[d]["send"] /\ at'[d]["logout"] = at[d]["logout"]
  BY <1>3, HearTyped
<1>5. at'[c]["login"] = "welcoming"
  BY <1>3, HearTyped
<1>6. \A d \in Conn \ {c} : Place(d)' = Place(d)
  BY <1>4 DEF Place
<1>7. Place(c) = "entering" /\ Place(c)' = "welcoming"
  BY <1>1, <1>2, <1>4, <1>5 DEF Place, Outside, Entering, Listed
<1>8. /\ local'[c].listed = {n \in Nick : online[n] \notin {None, c}}
      /\ \A d \in Conn \ {c} : local'[d].listed = local[d].listed
  BY HearTyped DEF LoginTold, TypeOK
<1>9. \A role : ~HeldBy(role)'
  BY DEF HeldBy
<1>10. LockInv'
  BY <1>9 DEF LockInv
<1>11. ClosedInv'
  BY <1>4 DEF ViewInv, ClosedInv
<1>12. OutsideInv'
  BY <1>6, <1>7, <1>9 DEF ViewInv, OutsideInv, Broadcasting
<1>13. ASSUME NEW d, NEW n PROVE ~Awaits(d, n) /\ ~WasTold(d, n)'
  BY <1>9 DEF Awaits, WasTold, HeldBy
<1>14. ASSUME NEW d \in Conn, Follows(d)', NEW n \in Nick \ {NickOf[d]} PROVE Informed(d, n)'
  <2>1. Follows(d) /\ Informed(d, n)
    BY <1>6, <1>7, <1>14 DEF ViewInv, KnowsInv, Follows
  <2>2. Knows(d, n)' <=> Knows(d, n)
    <3>1. CASE d = c
      <4>1. online[n] # c
        BY <1>14, <3>1, OwnerAnnounced, ConnAssumption
      <4>2. Base(c, n)' <=> Base(c, n)
        BY <1>7, <1>8, <1>14, <4>1 DEF Base
      <4> QED BY <3>1, <4>2 DEF Knows
    <3>2. CASE d # c
      BY <1>6, <1>8, <3>2, KnowsSame
    <3> QED BY <3>1, <3>2
  <2>3. CASE n = NickOf[c]
    <3>1. WasTold(d, n)
      BY <2>3, Lockers DEF ViewInv
    <3>2. online[n] # None
      <4>1. InService(c)
        BY <1>1 DEF InService
      <4> QED BY <2>3, <4>1, HearTyped, ConnAssumption DEF IInv, SessionInv, OwnerInv
    <3> QED BY <2>1, <2>2, <3>1, <3>2 DEF Informed
  <2>4. CASE n # NickOf[c]
    <3>1. online[n] # None => online[n] \in Conn \ {c}
      BY <2>4, OwnerAnnounced
    <3>2. \A e \in Conn \ {c} : Announced(e)' <=> Announced(e)
      BY <1>4 DEF Announced
    <3> QED BY <1>13, <2>1, <2>2, <3>1, <3>2 DEF Informed, Announced
  <2> QED BY <2>3, <2>4
<1> QED BY <1>10, <1>11, <1>12, <1>14 DEF ViewInv, KnowsInv

LEMMA TellsNoMoreViews == ASSUME HearInv, IInv', ViewInv, TellsNoMore PROVE ViewInv'
<1> DEFINE c == section.who
<1>1. /\ Broadcasting /\ section.left = {} /\ section' = None
      /\ UNCHANGED << online, inbox, out, gone >>
      /\ \/ HeldBy("login") /\ LoginTold(c)
         \/ HeldBy("send") /\ SendTold(c)
         \/ HeldBy("logout") /\ LogoutTold(c)
  BY DEF TellsNoMore
<1>2. /\ c \in Conn
      /\ HeldBy("send") => at[c]["send"] = "telling"
      /\ HeldBy("logout") => at[c]["logout"] = "telling"
  BY <1>1, SectionHolder
<1>3. c = section.who
  OBVIOUS
<1> HIDE DEF c
<1>4. CASE HeldBy("login") /\ LoginTold(c)
  BY <1>1, <1>2, <1>3, <1>4, LoginToldViews
<1>5. CASE HeldBy("send") /\ SendTold(c)
  <2>1. local' = local /\ \E s \in {"leaving", "archiving", "reading"} : Goes(c, "send", s)
    BY <1>5 DEF SendTold
  <2> QED BY <1>1, <1>2, <1>5, <2>1, LeavesViews
<1>6. CASE HeldBy("logout") /\ LogoutTold(c)
  <2>1. /\ local' = local
        /\ Goes(c, "logout", "over") \/ \E w \in Conn : at[w]["login"] = "asleep" /\ Notifies(c, w)
    BY <1>6 DEF LogoutTold, Notifies
  <2> QED BY <1>1, <1>2, <1>6, <2>1, LeavesViews
<1> QED BY <1>1, <1>4, <1>5, <1>6

(* A nickname is taken off the table, and all who are left will be told.     *)
LEMMA ErasesViews == ASSUME HearInv, IInv', ViewInv, NEW c \in Conn, Erases(c) PROVE ViewInv'
<1>1. /\ at[c]["logout"] = "closed" /\ Unlocked /\ Goes(c, "logout", "telling")
      /\ section' = Section("logout", c, Notice("logout", NickOf[c]), UsersOnline(online'))
      /\ UNCHANGED << inbox, local, out, gone >>
  BY DEF Erases
<1>2. /\ online' \in [Nick -> Conn \cup {None}]
      /\ \A n \in Nick : online'[n] = IF n = NickOf[c] THEN None ELSE online[n]
  BY HearTyped, ErasesOwn
<1>3. NickOf \in [Conn -> Nick] /\ None \notin Conn
  BY NickAssumption, ConnAssumption
<1>4. \A d \in Conn, q \in Pool : at'[d][q] = IF d = c /\ q = "logout" THEN "telling" ELSE at[d][q]
  BY <1>1, HearTyped, LogoutGoesTo
<1>5. \A d \in Conn : /\ at'[d]["login"] = at[d]["login"] /\ at'[d]["send"] = at[d]["send"]
                      /\ d # c => at'[d]["logout"] = at[d]["logout"]
  BY <1>4, HearTyped
<1>6. \A d \in Conn : Place(d)' = Place(d)
  BY <1>5 DEF Place
<1>7. section' \in Holding
  <2>1. Notice("logout", NickOf[c]) \in Msg /\ UsersOnline(online') \in SUBSET Conn
    BY <1>2, <1>3, NoticeTyped, OnlineTyped
  <2> QED BY <1>1, <2>1, SectionTyped
<1>8. /\ section'.role = "logout" /\ section'.who = c
      /\ section'.msg = Notice("logout", NickOf[c]) /\ section'.left = UsersOnline(online')
  BY <1>1 DEF Section
<1>9. HeldBy("logout")' /\ ~HeldBy("login")' /\ ~HeldBy("send")'
  BY <1>7, <1>8, NoneAssumption DEF HeldBy, Holding, CriticalSection
<1>10. LockInv'
  BY <1>2, <1>3, <1>8, <1>9 DEF LockInv
<1>11. ClosedInv'
  BY <1>1, <1>5 DEF ViewInv, ClosedInv
<1>12. ASSUME NEW d \in Conn, Place(d)' = "outside"
       PROVE  /\ inbox'[d].jobs = << >> /\ online'[NickOf[d]] # d
              /\ Broadcasting' => d \notin section'.left
  <2>1. Place(d) = "outside"
    BY <1>6, <1>12
  <2>2. inbox[d].jobs = << >> /\ d \notin UsersOnline(online)
    BY <2>1, OutsideOffline DEF ViewInv, OutsideInv
  <2>3. d \notin UsersOnline(online')
    BY <1>2, <2>2 DEF UsersOnline
  <2>4. online'[NickOf[d]] # d
    BY <1>3, <2>3 DEF UsersOnline
  <2> QED BY <1>1, <1>8, <2>2, <2>3, <2>4
<1>13. OutsideInv'
  BY <1>12 DEF OutsideInv
<1>14. ASSUME NEW d \in Conn, Follows(d)', NEW n \in Nick \ {NickOf[d]} PROVE Informed(d, n)'
  <2>1. Follows(d) /\ Informed(d, n)
    BY <1>1, <1>6, <1>14, FollowsSame DEF ViewInv, KnowsInv
  <2>2. CASE n = NickOf[c]
    <3>1. online[NickOf[d]] = d /\ NickOf[d] \in Nick
      BY <2>1, HearTyped, FollowerOnline DEF ViewInv
    <3>2. online'[NickOf[d]] = d
      BY <1>2, <1>14, <2>2, <3>1
    <3>3. d \in UsersOnline(online')
      BY <1>3, <3>1, <3>2 DEF UsersOnline
    <3>4. Awaits(d, n)'
      BY <1>8, <1>9, <1>10, <2>2, <3>3, LockersNext
    <3>5. online'[n] = None
      BY <1>2, <2>2
    <3> QED BY <3>4, <3>5 DEF Informed
  <2>3. CASE n # NickOf[c]
    <3>1. online'[n] = online[n]
      BY <1>2, <2>3
    <3>2. Knows(d, n)' <=> Knows(d, n)
      BY <1>1, <1>6, <3>1, KnowsSame
    <3>3. ~Awaits(d, n) /\ ~WasTold(d, n)'
      BY <1>1, <1>9 DEF Awaits, WasTold, HeldBy, Unlocked
    <3>4. online[n] # None => (Announced(online[n])' <=> Announced(online[n]))
      <4>1. \A e \in Conn : Announced(e)' <=> Announced(e)
        BY <1>5 DEF Announced
      <4> QED BY <3>1, <4>1, OwnerAnnounced DEF Announced
    <3> QED BY <2>1, <3>1, <3>2, <3>3, <3>4 DEF Informed, Announced
  <2> QED BY <2>2, <2>3
<1> QED BY <1>10, <1>11, <1>13, <1>14 DEF ViewInv, KnowsInv

-----------------------------------------------------------------------------
LEMMA ViewInit == Init => ViewInv
<1> SUFFICES ASSUME Init PROVE ViewInv
  OBVIOUS
<1>1. \A c \in Conn : Place(c) = "outside" /\ at[c]["logout"] = "none" /\ inbox[c].jobs = << >>
  BY DEF Init, Place, Outside, Listed, Pool
<1>2. \A n \in Nick : online[n] = None
  BY DEF Init
<1>3. \A role : ~HeldBy(role)
  BY DEF Init, HeldBy
<1>4. OutsideInv
  BY <1>1, <1>2, <1>3, NickAssumption, ConnAssumption DEF OutsideInv, Broadcasting
<1>5. KnowsInv
  BY <1>1 DEF KnowsInv, Follows
<1> QED BY <1>1, <1>3, <1>4, <1>5 DEF ViewInv, LockInv, ClosedInv

(* The invariant of what is displayed, as long as logout() does not throw.  *)
LEMMA ViewNext ==
  ASSUME HearInv, GoneTyped, AloneInv, ViewInv, [Next]_vars, TellThrows => ~HeldBy("logout")
  PROVE  ViewInv'
<1>1. IInv'
  BY HearNext DEF HearInv
<1>2. CASE UNCHANGED vars
  <2>1. UNCHANGED << at, section, online, inbox, local, out, gone >>
    BY <1>2 DEF vars
  <2> QED BY <1>1, <2>1, StillSteady, StaysSteady, SteadyKeeps
<1>3. CASE QueuesAccepted
  BY <1>1, <1>3, MainViews
<1>4. CASE SectionRuns
  BY <1>1, <1>4, TellsViews, TellThrowsViews, TellsNoMoreViews DEF SectionRuns
<1>5. ASSUME NEW c \in Conn,
             \/ Accepts(c) \/ Leaves(c) \/ Listens(c) \/ LoginRuns(c) \/ SpuriousWakeup(c)
             \/ SenderRuns(c) \/ ReceiverRuns(c) \/ LogoutRuns(c)
      PROVE  ViewInv'
  <2>1. CASE Accepts(c) \/ Leaves(c) \/ Listens(c)
    BY <1>1, <2>1, MainViews
  <2>2. CASE ChecksNickname(c)
    BY <1>1, <2>2, WaitsViews, LoginViews
  <2>3. CASE Welcomes(c)
    BY <1>1, <2>3, ListsViews, LoginViews
  <2>4. CASE TakesConnection(c) \/ ReceivesNickname(c) \/ Corrects(c) \/ SpuriousWakeup(c)
             \/ Refuses(c) \/ Welcomed(c)
    BY <1>1, <2>4, LoginViews
  <2>5. CASE WakesUp(c) \/ StartsServices(c)
    BY <1>1, <2>5, WaitsViews, StartsServicesViews
  <2>6. CASE SenderRuns(c)
    BY <1>1, <2>6, SenderViews, SendsViews, StartsLogoutViews DEF SenderRuns
  <2>7. CASE ReceiverRuns(c) \/ LogoutRuns(c)
    BY <1>1, <2>7, ReceiverViews, DeliversViews, ErasesViews DEF ReceiverRuns, LogoutRuns
  <2> QED BY <1>5, <2>1, <2>2, <2>3, <2>4, <2>5, <2>6, <2>7 DEF LoginRuns
<1> QED BY <1>2, <1>3, <1>4, <1>5 DEF Next

LEMMA ViewsAgreeThen == ASSUME HearInv, ViewInv PROVE ViewsAgree
<1> SUFFICES ASSUME NEW c \in Conn, Served(c), NEW n \in Nick \ {NickOf[c]}
             PROVE  /\ online[n] = None /\ ~BeingTold(n) => n \notin View(c)
                    /\ online[n] # None /\ Announced(online[n]) => n \in View(c)
  BY DEF ViewsAgree
<1>1. Place(c) = "served" /\ Follows(c)
  BY DEF Served, Place, Follows
<1>2. Informed(c, n)
  BY <1>1 DEF ViewInv, KnowsInv
<1>3. out[c] \in Seq(Lines) /\ inbox[c].jobs \in Seq(Lines)
  BY ClientTyped DEF HearInv
<1>4. Knows(c, n) <=> n \in View(c)
  <2>1. Displays(Heard(c), n) <=>
          Displays(inbox[c].jobs, n) \/ (Displays(out[c], n) /\ Keeps(inbox[c].jobs, n))
    BY <1>3, DisplaysConcat DEF Heard
  <2> QED BY <1>1, <2>1 DEF Knows, Base, View
<1>5. Awaits(c, n) => BeingTold(n)
  BY DEF Awaits, BeingTold
<1> QED BY <1>2, <1>4, <1>5 DEF Informed

LEMMA AloneInit == Init => AloneInv
BY DEF Init, AloneInv, Pool

(* With the one logout thread of server.cpp, what every client displays      *)
(* agrees with online_users: a nickname nobody holds is not displayed, one   *)
(* held by an announced user is, whatever is in the inboxes.                 *)
THEOREM ViewsAgreeHolds ==
  ASSUME NLogout = 1
  PROVE  Spec => []ViewsAgree
<1>1. HearInv => (TellThrows => ~HeldBy("logout"))
  <2>1. HearInv => LogoutNeverThrows
    BY NeverThrows DEF HearInv
  <2> QED BY <2>1 DEF LogoutNeverThrows, TellThrows
<1>2. HearInv /\ GoneTyped /\ (AloneInv /\ ViewInv) /\ [Next]_vars => (AloneInv /\ ViewInv)'
  BY <1>1, AloneNext, ViewNext
<1>3. HearInv /\ GoneTyped /\ AloneInv /\ ViewInv => ViewsAgree
  BY ViewsAgreeThen
<1>4. Init => AloneInv /\ ViewInv
  BY AloneInit, ViewInit
<1> QED BY <1>2, <1>3, <1>4, HearHolds, PTL DEF Spec

(* With any number of logout threads the same holds until an exception of    *)
(* logout(), or of receive_line(), terminates the server.                    *)
THEOREM ViewsAgreeWhileUp == Spec => [](up => ViewsAgree)
<1>1. HearInv /\ GoneTyped /\ (AloneInv /\ (up => ViewInv)) /\ [Next]_vars => (AloneInv /\ (up => ViewInv))'
  <2> SUFFICES ASSUME HearInv, GoneTyped, AloneInv, up => ViewInv, [Next]_vars
               PROVE  AloneInv' /\ (up' => ViewInv')
    OBVIOUS
  <2>1. ASSUME up' PROVE ViewInv'
    <3>1. up
      BY <2>1 DEF Next, vars
    <3>2. TellThrows => ~HeldBy("logout")
      BY <2>1 DEF TellThrows, HeldBy
    <3> QED BY <3>1, <3>2, ViewNext
  <2> QED BY <2>1, AloneNext
<1>2. HearInv /\ GoneTyped /\ AloneInv /\ (up => ViewInv) => (up => ViewsAgree)
  BY ViewsAgreeThen
<1>3. Init => AloneInv /\ (up => ViewInv)
  BY AloneInit, ViewInit
<1> QED BY <1>1, <1>2, <1>3, HearHolds, PTL DEF Spec

-----------------------------------------------------------------------------
(* Message n of a, in what a client has been written (of the history and    *)
(* after it) and in what it has still to hear.                             *)
Speaks(m, a, n) == IsChat(m) /\ m.by = a /\ m.n = n

SaidIn(s, a, n) == \E k \in 1 .. Len(s) : Speaks(s[k], a, n)

Before(o, a, n) == \E k \in 1 .. Len(o) : ~Live(o, k) /\ Speaks(o[k], a, n)

After(o, a, n) == \E k \in 1 .. Len(o) : Live(o, k) /\ Speaks(o[k], a, n)

Fresh(c, a, n) == After(out[c], a, n) \/ SaidIn(inbox[c].jobs, a, n)

(* The public message of a, not yet archived, will not be given to c again. *)
Aired(a, c) ==
  \/ at[a]["send"] = "archiving"
  \/ /\ HeldBy("send") /\ section.who = a /\ section.msg.type = "public_message"
     /\ c \notin section.left

(* A client that hears a message of the history again hears all that the    *)
(* history says after it: its inbox has been given it since.                *)
AiredInv ==
  \A a, c \in Conn : at[c]["login"] \in Early /\ Aired(a, c) =>
    \A y \in Nat :
      SaidIn(inbox[c].jobs, a, y) => SaidIn(inbox[c].jobs, a, local[a].lines)

RecordInv ==
  \A a, c \in Conn : at[c]["login"] \in Early =>
    \A x, y \in Nat :
      SaidIn(lastMessages, a, x) /\ SaidIn(inbox[c].jobs, a, y) /\ y <= x =>
        SaidIn(inbox[c].jobs, a, x)

AgainInv ==
  \A a, c \in Conn : ~gone[c] =>
    \A x, y \in Nat : Before(out[c], a, x) /\ Fresh(c, a, y) /\ y <= x => Fresh(c, a, x)

OldInv == \A a, c \in Conn : \A x \in Nat : Before(out[c], a, x) => x <= HistoryLimits[a]

RepeatInv == AiredInv /\ RecordInv /\ AgainInv /\ OldInv

-----------------------------------------------------------------------------
(* One line more, one line less, and the history after lines nobody said.   *)
LEMMA SaidAppended ==
  ASSUME NEW s \in Seq(Lines), NEW m \in Lines, NEW a, NEW n
  PROVE  SaidIn(Append(s, m), a, n) <=> SaidIn(s, a, n) \/ Speaks(m, a, n)
<1>1. /\ Len(Append(s, m)) = Len(s) + 1 /\ Len(s) \in Nat /\ Append(s, m)[Len(s) + 1] = m
      /\ \A i \in 1 .. Len(s) : Append(s, m)[i] = s[i]
  BY EndsAppended
<1> DEFINE p == Append(s, m)
<1> HIDE DEF p
<1>2. \A j \in 1 .. Len(p) : j \in 1 .. Len(s) \/ j = Len(s) + 1
  BY <1>1 DEF p
<1>3. \A j \in 1 .. Len(s) : j \in 1 .. Len(p)
  BY <1>1 DEF p
<1>4. Len(s) + 1 \in 1 .. Len(p)
  BY <1>1 DEF p
<1>5. p[Len(s) + 1] = m /\ \A i \in 1 .. Len(s) : p[i] = s[i]
  BY <1>1 DEF p
<1>6. SaidIn(p, a, n) <=> SaidIn(s, a, n) \/ Speaks(m, a, n)
  BY <1>2, <1>3, <1>4, <1>5 DEF SaidIn
<1> QED BY <1>6 DEF p

LEMMA SaidTail ==
  ASSUME NEW s \in Seq(Lines), s # << >>, NEW a, NEW n
  PROVE  SaidIn(s, a, n) <=> Speaks(Head(s), a, n) \/ SaidIn(Tail(s), a, n)
<1> DEFINE r == Tail(s)
<1>1. /\ Len(s) \in Nat \ {0} /\ Head(s) = s[1]
      /\ Len(r) = Len(s) - 1
      /\ \A i \in 1 .. Len(r) : r[i] = s[i + 1]
  BY HeadTailProperties, EmptySeq
<1> HIDE DEF r
<1>2. \A i \in 1 .. Len(r) : i + 1 \in 1 .. Len(s) /\ r[i] = s[i + 1]
  BY <1>1
<1>3. \A j \in 1 .. Len(s) : j = 1 \/ (j - 1 \in 1 .. Len(r) /\ r[j - 1] = s[j])
  BY <1>1
<1>4. 1 \in 1 .. Len(s)
  BY <1>1
<1>5. SaidIn(s, a, n) <=> Speaks(s[1], a, n) \/ SaidIn(r, a, n)
  BY <1>2, <1>3, <1>4 DEF SaidIn
<1> QED BY <1>1, <1>5 DEF r

LEMMA PartsAppended ==
  ASSUME NEW o \in Seq(Lines), NEW m \in Lines, NEW p, p = Append(o, m), NEW a, NEW n
  PROVE  /\ Before(p, a, n) <=> Before(o, a, n) \/ (~Ended(p) /\ Speaks(m, a, n))
         /\ After(p, a, n) <=> After(o, a, n) \/ (Ended(p) /\ Speaks(m, a, n))
<1>1. /\ Len(o) \in Nat /\ Len(p) = Len(o) + 1 /\ p[Len(o) + 1] = m
      /\ \A i \in 1 .. Len(o) : p[i] = o[i] /\ (Live(p, i) <=> Live(o, i))
  BY LiveAppended
<1>2. Live(p, Len(o) + 1) <=> Ended(p)
  BY <1>1 DEF Live, Ended
<1>3. \A j \in 1 .. Len(p) : j \in 1 .. Len(o) \/ j = Len(o) + 1
  BY <1>1
<1>4. \A j \in 1 .. Len(o) : j \in 1 .. Len(p)
  BY <1>1
<1>5. Len(o) + 1 \in 1 .. Len(p)
  BY <1>1
<1>6. Before(p, a, n) <=> Before(o, a, n) \/ (~Ended(p) /\ Speaks(m, a, n))
  BY <1>1, <1>2, <1>3, <1>4, <1>5 DEF Before
<1>7. After(p, a, n) <=> After(o, a, n) \/ (Ended(p) /\ Speaks(m, a, n))
  BY <1>1, <1>2, <1>3, <1>4, <1>5 DEF After
<1> QED BY <1>6, <1>7

LEMMA PartsWithHistory ==
  ASSUME NEW o \in Seq(Lines), Chatless(o), ~Ended(o), NEW h \in Seq(Chatter),
         NEW t, t = o \o h, NEW a, NEW n
  PROVE  /\ Before(t, a, n) <=> SaidIn(h, a, n)
         /\ ~After(t, a, n)
<1>1. h \in Seq(Lines)
  BY ChatterFits
<1>2. /\ Len(t) = Len(o) + Len(h) /\ Len(o) \in Nat /\ Len(h) \in Nat
      /\ \A i \in 1 .. Len(o) + Len(h) : t[i] = IF i <= Len(o) THEN o[i] ELSE h[i - Len(o)]
  BY <1>1, ConcatProperties, LenProperties
<1>3. ASSUME NEW i \in 1 .. Len(t)
      PROVE  \/ i \in 1 .. Len(o) /\ t[i] = o[i]
             \/ i - Len(o) \in 1 .. Len(h) /\ t[i] = h[i - Len(o)]
  BY <1>2
<1>4. ASSUME NEW i \in 1 .. Len(t) PROVE ~Ends(t[i])
  <2>1. \A m \in Chatter : ~Ends(m)
    BY DEF Chatter, Ends
  <2>2. \A k \in 1 .. Len(h) : h[k] \in Chatter
    OBVIOUS
  <2> QED BY <1>3, <2>1, <2>2 DEF Ended
<1>5. ASSUME NEW i \in 1 .. Len(t) PROVE ~Live(t, i)
  BY <1>2, <1>4 DEF Live
<1>6. ASSUME NEW k \in 1 .. Len(h) PROVE Len(o) + k \in 1 .. Len(t) /\ t[Len(o) + k] = h[k]
  <2>1. Len(o) + k \in 1 .. Len(o) + Len(h) /\ ~(Len(o) + k <= Len(o)) /\ (Len(o) + k) - Len(o) = k
    BY <1>2
  <2> QED BY <1>2, <2>1
<1>7. ASSUME Before(t, a, n) PROVE SaidIn(h, a, n)
  <2>1. PICK k \in 1 .. Len(t) : Speaks(t[k], a, n)
    BY <1>7 DEF Before
  <2>2. ~(k \in 1 .. Len(o) /\ t[k] = o[k])
    BY <2>1 DEF Chatless, Speaks
  <2>3. k - Len(o) \in 1 .. Len(h) /\ t[k] = h[k - Len(o)]
    BY <1>3, <2>2
  <2> QED BY <2>1, <2>3 DEF SaidIn
<1>8. ASSUME SaidIn(h, a, n) PROVE Before(t, a, n)
  BY <1>5, <1>6, <1>8 DEF SaidIn, Before
<1> QED BY <1>5, <1>7, <1>8 DEF After

(* Nothing said is written.                                                 *)
StillSaid(d) ==
  \A a, n : /\ Before(out'[d], a, n) <=> Before(out[d], a, n)
            /\ After(out'[d], a, n) <=> After(out[d], a, n)

LEMMA UnwrittenSaid == ASSUME out' = out PROVE \A d \in Conn : StillSaid(d)
BY DEF StillSaid

LEMMA WritesNothingSaid ==
  ASSUME HearInv, NEW c \in Conn, NEW m \in Lines, ~IsChat(m), Writes(c, << m >>)
  PROVE  \A d \in Conn : StillSaid(d)
<1>1. /\ \A d \in Conn \ {c} : out'[d] = out[d]
      /\ out'[c] = IF gone[c] THEN out[c] ELSE Append(out[c], m)
  BY WritesOne, Zenon
<1>2. out[c] \in Seq(Lines)
  BY DEF HearInv, HeardInv
<1>3. \A a, n : ~Speaks(m, a, n)
  BY DEF Speaks
<1>4. ASSUME out'[c] = Append(out[c], m) PROVE StillSaid(c)
  <2> SUFFICES ASSUME NEW a, NEW n
               PROVE  /\ Before(out'[c], a, n) <=> Before(out[c], a, n)
                      /\ After(out'[c], a, n) <=> After(out[c], a, n)
    BY DEF StillSaid
  <2> DEFINE p == out'[c]
             o == out[c]
  <2>1. p = Append(o, m) /\ o \in Seq(Lines)
    BY <1>2, <1>4
  <2> HIDE DEF p, o
  <2>2. /\ Before(p, a, n) <=> Before(o, a, n)
        /\ After(p, a, n) <=> After(o, a, n)
    BY <1>3, <2>1, PartsAppended
  <2> QED BY <2>2 DEF p, o
<1>5. ASSUME NEW d \in Conn, out'[d] = out[d] PROVE StillSaid(d)
  BY <1>5 DEF StillSaid
<1> QED BY <1>1, <1>4, <1>5

LEMMA WritesErrorSaid ==
  ASSUME HearInv, NEW c \in Conn, Writes(c, Error)
  PROVE  \A d \in Conn : StillSaid(d)
<1>1. [type |-> "error"] \in Lines /\ ~IsChat([type |-> "error"])
  BY DEF Lines, IsChat
<1> QED BY <1>1, WritesNothingSaid, Zenon DEF Error

-----------------------------------------------------------------------------
(* What a step leaves as it is.                                             *)
LEMMA RepeatStays ==
  ASSUME HearInv, IInv', RepeatInv, lastMessages' = lastMessages,
         \A c \in Conn : at'[c]["login"] \in Early =>
           at[c]["login"] \in Early /\ inbox'[c].jobs = inbox[c].jobs,
         \A c \in Conn : gone[c] => gone'[c],
         \A a, c \in Conn : \A n \in Nat : Before(out'[c], a, n) <=> Before(out[c], a, n),
         \A a, c \in Conn : \A n \in Nat : ~gone[c] => (Fresh(c, a, n)' <=> Fresh(c, a, n)),
         \A a, c \in Conn : at'[c]["login"] \in Early /\ Aired(a, c)' =>
           \/ Aired(a, c) /\ local'[a].lines = local[a].lines
           \/ \A y \in Nat : ~SaidIn(inbox[c].jobs, a, y),
         \A a \in Conn : \/ local'[a].lines = local[a].lines + 1
                         \/ /\ local'[a].lines = local[a].lines
                            /\ at'[a]["send"] \in Talking => at[a]["send"] \in Talking
  PROVE  RepeatInv'
<1>1. AiredInv'
  <2> SUFFICES ASSUME NEW a \in Conn, NEW c \in Conn, at'[c]["login"] \in Early, Aired(a, c)',
                      NEW y \in Nat, SaidIn(inbox'[c].jobs, a, y)
               PROVE  SaidIn(inbox'[c].jobs, a, local'[a].lines)
    BY DEF AiredInv
  <2>1. at[c]["login"] \in Early /\ inbox'[c].jobs = inbox[c].jobs
    OBVIOUS
  <2>2. Aired(a, c) /\ local'[a].lines = local[a].lines
    BY <2>1
  <2> QED BY <2>1, <2>2 DEF RepeatInv, AiredInv
<1>2. RecordInv'
  <2> SUFFICES ASSUME NEW a \in Conn, NEW c \in Conn, at'[c]["login"] \in Early,
                      NEW x \in Nat, NEW y \in Nat, SaidIn(lastMessages', a, x),
                      SaidIn(inbox'[c].jobs, a, y), y <= x
               PROVE  SaidIn(inbox'[c].jobs, a, x)
    BY DEF RecordInv
  <2>1. at[c]["login"] \in Early /\ inbox'[c].jobs = inbox[c].jobs
    OBVIOUS
  <2> QED BY <2>1 DEF RepeatInv, RecordInv
<1>3. AgainInv'
  BY DEF AgainInv, RepeatInv
<1>4. OldInv'
  <2> SUFFICES ASSUME NEW a \in Conn, NEW c \in Conn, NEW x \in Nat, Before(out'[c], a, x)
               PROVE  x <= HistoryLimits'[a]
    BY DEF OldInv
  <2>1. x <= HistoryLimits[a]
    BY DEF RepeatInv, OldInv
  <2>2. TypeOK /\ TypeOK'
    BY DEF HearInv, IInv
  <2>3. /\ HistoryLimits[a] \in Int /\ HistoryLimits'[a] \in Int
        /\ HistoryLimits[a] <= HistoryLimits'[a]
    BY <2>2, HistoryLimitsRise
  <2> QED BY <2>1, <2>3
<1> QED BY <1>1, <1>2, <1>3, <1>4 DEF RepeatInv

(* Steps with which nobody logs in again, and nobody's next message becomes *)
(* one that is aired.                                                       *)
Onward ==
  \A d \in Conn :
    /\ local'[d].lines = local[d].lines
    /\ at'[d]["login"] \in Early => at[d]["login"] \in Early
    /\ at'[d]["send"] \in Talking => at[d]["send"] \in Talking
    /\ gone[d] => gone'[d]

NothingAired == \A a, c \in Conn : Aired(a, c)' => Aired(a, c)

LEMMA OnwardKeeps ==
  ASSUME HearInv, IInv', RepeatInv, Onward, NothingAired, lastMessages' = lastMessages,
         \A d \in Conn : inbox'[d].jobs = inbox[d].jobs, \A d \in Conn : StillSaid(d)
  PROVE  RepeatInv'
<1>1. \A a, c \in Conn : \A n \in Nat : Before(out'[c], a, n) <=> Before(out[c], a, n)
  BY DEF StillSaid
<1>2. \A a, c \in Conn : \A n \in Nat : Fresh(c, a, n)' <=> Fresh(c, a, n)
  BY DEF StillSaid, Fresh
<1> QED BY <1>1, <1>2, RepeatStays DEF Onward, NothingAired

LEMMA AiredStays ==
  ASSUME \A d \in Conn : at'[d]["send"] = "archiving" => at[d]["send"] = "archiving",
         section' = section \/ ~HeldBy("send")' \/ section'.msg.type = "private_message"
  PROVE  NothingAired
BY DEF NothingAired, Aired, HeldBy

LEMMA OnwardMoves ==
  ASSUME HearInv, NEW c \in Conn, NEW p \in {"login", "send", "receive", "logout"}, NEW s,
         p = "login" /\ s \in Early => at[c]["login"] \in Early,
         p = "send" => s # "archiving" /\ (s \in Talking => at[c]["send"] \in Talking),
         \A d \in Conn : local'[d].lines = local[d].lines, gone' = gone,
         \A d \in Conn, q \in Pool : at'[d][q] = IF d = c /\ q = p THEN s ELSE at[d][q]
  PROVE  Onward /\ \A d \in Conn : at'[d]["send"] = "archiving" => at[d]["send"] = "archiving"
<1>1. {"login", "send"} \subseteq Pool
  BY DEF Pool
<1>2. \A d \in Conn : /\ at'[d]["login"] = IF d = c /\ "login" = p THEN s ELSE at[d]["login"]
                      /\ at'[d]["send"] = IF d = c /\ "send" = p THEN s ELSE at[d]["send"]
  BY <1>1
<1> QED BY <1>2 DEF Onward

LEMMA OnwardGoes ==
  ASSUME HearInv, NEW c \in Conn, NEW p \in {"login", "send", "receive", "logout"},
         NEW s \in Stage, Goes(c, p, s),
         p = "login" /\ s \in Early => at[c]["login"] \in Early,
         p = "send" => s # "archiving" /\ (s \in Talking => at[c]["send"] \in Talking),
         \A d \in Conn : local'[d].lines = local[d].lines, gone' = gone
  PROVE  Onward /\ \A d \in Conn : at'[d]["send"] = "archiving" => at[d]["send"] = "archiving"
<1>1. \A d \in Conn, q \in Pool : at'[d][q] = IF d = c /\ q = p THEN s ELSE at[d][q]
  BY HearTyped DEF TypeOK, Goes, Pool
<1> HIDE DEF Goes
<1> QED BY <1>1, OnwardMoves

LEMMA OnwardTakes ==
  ASSUME HearInv, NEW c \in Conn, NEW p \in {"login", "send", "receive", "logout"},
         NEW s \in {"hello", "reading", "serving", "closed"}, Takes(c, p, s),
         p = "login" => at[c]["login"] \in Early, local' = local, gone' = gone
  PROVE  Onward /\ \A d \in Conn : at'[d]["send"] = "archiving" => at[d]["send"] = "archiving"
<1>1. \A d \in Conn, q \in Pool : at'[d][q] = IF d = c /\ q = p THEN s ELSE at[d][q]
  BY HearTyped, TakesTo
<1>2. s # "archiving" /\ s \notin Talking
  BY DEF Talking
<1>3. \A d \in Conn : local'[d].lines = local[d].lines
  OBVIOUS
<1> HIDE DEF Takes
<1>4. CASE p = "login"
  BY <1>1, <1>3, <1>4, OnwardMoves
<1>5. CASE p # "login"
  BY <1>1, <1>2, <1>3, <1>5, OnwardMoves
<1> QED BY <1>4, <1>5

LEMMA OnwardHands ==
  ASSUME HearInv, NEW c \in Conn, NEW p \in {"login", "send"}, NEW k \in {"send", "receive", "logout"},
         NEW s \in {"to_receive", "over"}, Hands(c, p, s, k), p # k, local' = local, gone' = gone
  PROVE  Onward /\ \A d \in Conn : at'[d]["send"] = "archiving" => at[d]["send"] = "archiving"
<1>1. \A d \in Conn, q \in Pool :
        at'[d][q] = IF d = c /\ q = p THEN s ELSE IF d = c /\ q = k THEN "queued" ELSE at[d][q]
  BY HearTyped, HandsTo
<1>2. {"login", "send"} \subseteq Pool /\ s \notin Early /\ s \notin Talking /\ "queued" \notin Talking
      /\ s # "archiving"
  BY DEF Pool, Early, Talking
<1>3. \A d \in Conn : /\ at'[d]["login"] = at[d]["login"] \/ at'[d]["login"] = s
                      /\ \/ at'[d]["send"] = at[d]["send"] \/ at'[d]["send"] = s
                         \/ at'[d]["send"] = "queued"
  BY <1>1, <1>2
<1> QED BY <1>2, <1>3 DEF Onward

LEMMA MainRepeats ==
  ASSUME HearInv, GoneTyped, IInv', RepeatInv,
         QueuesAccepted \/ UNCHANGED vars \/ \E c \in Conn : Accepts(c) \/ Leaves(c) \/ Listens(c)
  PROVE  RepeatInv'
<1>1. CASE UNCHANGED vars \/ QueuesAccepted
  <2>1. UNCHANGED << at, inbox, lastMessages, local, out, gone >>
    BY <1>1 DEF vars, QueuesAccepted
  <2>2. section' = section \/ ~HeldBy("send")'
    BY <1>1 DEF vars, QueuesAccepted, HeldBy, Section
  <2>3. Onward /\ NothingAired
    BY <2>1, <2>2, AiredStays DEF Onward
  <2> QED BY <2>1, <2>3, UnwrittenSaid, OnwardKeeps
<1>2. ASSUME NEW c \in Conn, Leaves(c) \/ Listens(c) PROVE RepeatInv'
  <2>1. UNCHANGED << at, inbox, lastMessages, local, out, section >>
        /\ \A d \in Conn : gone[d] => gone'[d]
    BY <1>2 DEF Leaves, Listens, GoneTyped
  <2>2. Onward /\ NothingAired
    BY <2>1, AiredStays DEF Onward
  <2> QED BY <2>1, <2>2, UnwrittenSaid, OnwardKeeps
<1>3. ASSUME NEW c \in Conn, Accepts(c) PROVE RepeatInv'
  <2>1. /\ UNCHANGED << inbox, lastMessages, local, out, section >> /\ gone' = gone
        /\ Goes(c, "login", "queued") /\ at[c]["login"] \in Early
    BY <1>3 DEF Accepts, Early
  <2>2. Onward /\ NothingAired
    BY <2>1, HearTyped, OnwardGoes, AiredStays
  <2> QED BY <2>1, <2>2, UnwrittenSaid, OnwardKeeps
<1> QED BY <1>1, <1>2, <1>3

LEMMA LoginGoesRepeats ==
  ASSUME HearInv, IInv', RepeatInv, NEW c \in Conn, at[c]["login"] \in Early,
         NEW s \in Stage, Goes(c, "login", s), UNCHANGED << inbox, lastMessages, local, gone >>,
         section' = section \/ ~HeldBy("send")', \A d \in Conn : StillSaid(d)
  PROVE  RepeatInv'
<1>1. /\ local' = local /\ lastMessages' = lastMessages /\ gone' = gone
      /\ \A d \in Conn : inbox'[d].jobs = inbox[d].jobs
      /\ \A d \in Conn : local'[d].lines = local[d].lines
  OBVIOUS
<1>2. Onward /\ \A d \in Conn : at'[d]["send"] = "archiving" => at[d]["send"] = "archiving"
  BY <1>1, OnwardGoes
<1>3. NothingAired
  BY <1>2, AiredStays
<1> QED BY <1>1, <1>2, <1>3, OnwardKeeps

LEMMA LoginOverRepeats ==
  ASSUME HearInv, IInv', RepeatInv, NEW c \in Conn,
         NEW s \in {"history", "ending", "to_send", "over"},
         Goes(c, "login", s), UNCHANGED << inbox, lastMessages, local, gone >>,
         section' = section, \A d \in Conn : StillSaid(d)
  PROVE  RepeatInv'
<1>1. /\ local' = local /\ lastMessages' = lastMessages /\ gone' = gone
      /\ \A d \in Conn : inbox'[d].jobs = inbox[d].jobs
      /\ \A d \in Conn : local'[d].lines = local[d].lines
      /\ s \in Stage /\ s \notin Early
  BY HearTyped DEF Early
<1>2. Onward /\ \A d \in Conn : at'[d]["send"] = "archiving" => at[d]["send"] = "archiving"
  BY <1>1, OnwardGoes
<1>3. NothingAired
  BY <1>2, AiredStays
<1> QED BY <1>1, <1>2, <1>3, OnwardKeeps

LEMMA WaitsRepeats ==
  ASSUME HearInv, IInv', RepeatInv, NEW c \in Conn, NEW table,
         at[c]["login"] \in {"checking", "woken"}, Unlocked, Waits(c, table),
         UNCHANGED << inbox, lastMessages, local, gone, out >>
  PROVE  RepeatInv'
<1>1. PICK s \in {"announcing", "asleep"} : Goes(c, "login", s)
  BY DEF Waits
<1>2. section' = section \/ ~HeldBy("send")'
  BY DEF Waits, HeldBy, Section
<1>3. s \in Stage /\ at[c]["login"] \in Early
  BY HearTyped DEF Early
<1> QED BY <1>1, <1>2, <1>3, UnwrittenSaid, LoginGoesRepeats

LEMMA LoginRepeats ==
  ASSUME HearInv, IInv', RepeatInv, NEW c \in Conn,
         \/ TakesConnection(c) \/ ReceivesNickname(c) \/ Corrects(c) \/ ChecksNickname(c)
         \/ Refuses(c) \/ WakesUp(c) \/ Welcomed(c) \/ StartsServices(c) \/ SpuriousWakeup(c)
  PROVE  RepeatInv'
<1>1. CASE TakesConnection(c) \/ StartsServices(c)
  <2>1. UNCHANGED << inbox, lastMessages, out >> /\ local' = local /\ gone' = gone /\ section' = section
    BY <1>1 DEF TakesConnection, StartsServices
  <2>2. Onward /\ \A d \in Conn : at'[d]["send"] = "archiving" => at[d]["send"] = "archiving"
    <3>1. CASE TakesConnection(c)
      <4>1. at[c]["login"] \in Early
        <5>1. users["login"] # << >> /\ Head(users["login"]) = c /\ users["login"] \in Seq(Conn)
          BY <3>1, HearTyped DEF TakesConnection, Takes, TypeOK
        <5>2. 1 \in 1 .. Len(users["login"]) /\ users["login"][1] = c
          BY <5>1
        <5>3. at[c]["login"] = "queued"
          BY <5>2, HearTyped DEF IInv, QueueInv
        <5> QED BY <5>3 DEF Early
      <4> QED BY <2>1, <3>1, <4>1, OnwardTakes DEF TakesConnection
    <3>2. CASE StartsServices(c)
      BY <2>1, <3>2, OnwardHands DEF StartsServices
    <3> QED BY <1>1, <3>1, <3>2
  <2>3. NothingAired
    BY <2>1, <2>2, AiredStays
  <2> QED BY <2>1, <2>2, <2>3, UnwrittenSaid, OnwardKeeps
<1>2. CASE ReceivesNickname(c) \/ Corrects(c) \/ SpuriousWakeup(c) \/ Refuses(c)
  <2>1. UNCHANGED << inbox, lastMessages, local, gone >>
    BY <1>2 DEF ReceivesNickname, Corrects, SpuriousWakeup, Refuses
  <2>2. section' = section \/ ~HeldBy("send")'
    BY <1>2 DEF ReceivesNickname, Corrects, SpuriousWakeup, Refuses, HeldBy
  <2>3. PICK s \in {"over", "correcting", "checking", "woken"} : Goes(c, "login", s)
    BY <1>2 DEF ReceivesNickname, Corrects, SpuriousWakeup, Refuses, Written
  <2>4. s \in Stage /\ at[c]["login"] \in Early
    BY <1>2, HearTyped DEF ReceivesNickname, Corrects, SpuriousWakeup, Refuses, Early
  <2>5. out' = out \/ Writes(c, Error)
    BY <1>2 DEF ReceivesNickname, Corrects, SpuriousWakeup, Refuses
  <2>6. \A d \in Conn : StillSaid(d)
    BY <2>5, UnwrittenSaid, WritesErrorSaid
  <2> QED BY <2>1, <2>2, <2>3, <2>4, <2>6, LoginGoesRepeats
<1>3. CASE WakesUp(c) \/ (ChecksNickname(c) /\ ~Refused(c))
  <2>1. /\ at[c]["login"] \in {"checking", "woken"} /\ Unlocked
        /\ UNCHANGED << inbox, lastMessages, local, gone, out >>
        /\ Waits(c, online) \/ Waits(c, online')
    BY <1>3 DEF WakesUp, ChecksNickname
  <2> QED BY <2>1, WaitsRepeats
<1>4. CASE ChecksNickname(c) /\ Refused(c)
  <2>1. /\ at[c]["login"] = "checking" /\ Goes(c, "login", "refusing") /\ Writes(c, Error)
        /\ UNCHANGED << inbox, lastMessages, local, gone >>
        /\ section' = Section("refusal", c, None, {})
    BY <1>4 DEF ChecksNickname
  <2>2. /\ at[c]["login"] \in Early /\ "refusing" \in Stage /\ ~HeldBy("send")'
        /\ \A d \in Conn : StillSaid(d)
    BY <2>1, HearTyped, WritesErrorSaid DEF Early, HeldBy, Section
  <2> QED BY <2>1, <2>2, LoginGoesRepeats
<1>5. CASE Welcomed(c)
  <2>1. /\ UNCHANGED << inbox, lastMessages, local, gone, out >> /\ section' = section
        /\ \E s \in {"to_send", "over"} : Goes(c, "login", s)
    BY <1>5 DEF Welcomed, Written
  <2> QED BY <2>1, UnwrittenSaid, LoginOverRepeats
<1> QED BY <1>1, <1>2, <1>3, <1>4, <1>5

(* The history is written: what of it will be heard again is in the inbox.  *)
LEMMA HistoryRepeats ==
  ASSUME HearInv, IInv', RepeatInv, NEW c \in Conn,
         UNCHANGED << section, inbox, lastMessages, local, gone >>,
         at[c]["login"] = "listing", Writes(c, lastMessages), Goes(c, "login", "history")
  PROVE  RepeatInv'
<1>1. \A d \in Conn, q \in Pool : at'[d][q] = IF d = c /\ q = "login" THEN "history" ELSE at[d][q]
  BY HearTyped, LoginGoesTo
<1>2. /\ \A d \in Conn : at'[d]["send"] = at[d]["send"]
      /\ \A d \in Conn : at'[d]["login"] \in Early => at[d]["login"] \in Early
  BY <1>1, HearTyped DEF Early
<1>3. \A a, d \in Conn : Aired(a, d)' => Aired(a, d)
  BY <1>2 DEF Aired, HeldBy
<1>4. AiredInv' /\ RecordInv'
  BY <1>2, <1>3 DEF RepeatInv, AiredInv, RecordInv
<1>5. /\ lastMessages \in Seq(Chatter) /\ lastMessages \in Seq(Lines)
      /\ \A i \in 1 .. Len(lastMessages) : Under(lastMessages[i], HistoryLimits)
  BY ChatterFits DEF HearInv, HeardInv, SequenceInv, HistoryInv
<1>6. /\ \A d \in Conn \ {c} : out'[d] = out[d]
      /\ out'[c] = IF gone[c] THEN out[c] ELSE out[c] \o lastMessages
  BY <1>5, WritesTo
<1>7. out[c] \in Seq(Lines) /\ Chatless(out[c]) /\ ~Ended(out[c])
  BY DEF HearInv, HeardInv, SequenceInv, ClientInv, Early
<1>8. ASSUME ~gone[c], NEW a, NEW n
      PROVE  /\ Before(out'[c], a, n) <=> SaidIn(lastMessages, a, n)
             /\ ~After(out'[c], a, n)
  BY <1>5, <1>6, <1>7, <1>8, PartsWithHistory, Zenon
<1>9. AgainInv'
  <2> SUFFICES ASSUME NEW a \in Conn, NEW d \in Conn, ~gone'[d], NEW x \in Nat, NEW y \in Nat,
                      Before(out'[d], a, x), Fresh(d, a, y)', y <= x
               PROVE  Fresh(d, a, x)'
    BY DEF AgainInv
  <2>1. CASE d = c
    <3>1. SaidIn(lastMessages, a, x) /\ SaidIn(inbox[c].jobs, a, y)
      BY <1>8, <2>1 DEF Fresh
    <3>2. SaidIn(inbox[c].jobs, a, x)
      BY <3>1 DEF RepeatInv, RecordInv, Early
    <3> QED BY <2>1, <3>2 DEF Fresh
  <2>2. CASE d # c
    BY <1>6, <2>2 DEF Fresh, RepeatInv, AgainInv
  <2> QED BY <2>1, <2>2
<1>10. HistoryLimits' = HistoryLimits
  BY <1>2 DEF HistoryLimits
<1>11. OldInv'
  <2> SUFFICES ASSUME NEW a \in Conn, NEW d \in Conn, NEW x \in Nat, Before(out'[d], a, x)
               PROVE  x <= HistoryLimits[a]
    BY <1>10 DEF OldInv
  <2>1. CASE d = c /\ ~gone[c]
    <3>1. PICK k \in 1 .. Len(lastMessages) : Speaks(lastMessages[k], a, x)
      BY <1>8, <2>1 DEF SaidIn
    <3> QED BY <1>5, <3>1 DEF Speaks, Under
  <2>2. CASE ~(d = c /\ ~gone[c])
    <3>1. out'[d] = out[d]
      BY <1>6, <2>2
    <3> QED BY <3>1 DEF RepeatInv, OldInv
  <2> QED BY <2>1, <2>2
<1> QED BY <1>4, <1>9, <1>11 DEF RepeatInv

LEMMA WelcomesRepeats == ASSUME HearInv, IInv', RepeatInv, NEW c \in Conn, Welcomes(c) PROVE RepeatInv'
<1> DEFINE x == [type |-> "online_users", nicks |-> local[c].listed]
           y == [type |-> "done_last_messages"]
<1>1. UNCHANGED << section, online, inbox, lastMessages, local, gone >>
  BY DEF Welcomes
<1>2. x \in Lines /\ y \in Lines /\ ~IsChat(x) /\ ~IsChat(y)
  <2>1. local[c].listed \in SUBSET Nick
    BY HearTyped DEF TypeOK
  <2> QED BY <2>1 DEF Lines, IsChat
<1>3. CASE at[c]["login"] = "welcoming" /\ Writes(c, << x >>) /\ Goes(c, "login", "listing")
  <2> HIDE DEF x, y
  <2>1. \A d \in Conn : StillSaid(d)
    BY <1>2, <1>3, WritesNothingSaid, Zenon
  <2>2. "listing" \in Stage /\ at[c]["login"] \in Early
    BY <1>3, HearTyped DEF Early
  <2> QED BY <1>1, <1>3, <2>1, <2>2, LoginGoesRepeats
<1>4. CASE at[c]["login"] = "listing" /\ Writes(c, lastMessages) /\ Goes(c, "login", "history")
  BY <1>1, <1>4, HistoryRepeats
<1>5. CASE Writes(c, << y >>) /\ Goes(c, "login", "ending")
  <2> HIDE DEF x, y
  <2>1. \A d \in Conn : StillSaid(d)
    BY <1>2, <1>5, WritesNothingSaid, Zenon
  <2> QED BY <1>1, <1>5, <2>1, LoginOverRepeats
<1>6. CASE Goes(c, "login", "over") /\ UNCHANGED out
  BY <1>1, <1>6, UnwrittenSaid, LoginOverRepeats
<1> QED BY <1>3, <1>4, <1>5, <1>6 DEF Welcomes

-----------------------------------------------------------------------------
(* Steps of senders that say nothing.                                       *)
LEMMA SendGoesRepeats ==
  ASSUME HearInv, IInv', RepeatInv, NEW c \in Conn, NEW s \in Stage, Goes(c, "send", s),
         s # "archiving", s \in Talking => at[c]["send"] \in Talking,
         UNCHANGED << inbox, lastMessages, gone >>, \A d \in Conn : local'[d].lines = local[d].lines,
         section' = section \/ ~HeldBy("send")' \/ section'.msg.type = "private_message",
         \A d \in Conn : StillSaid(d)
  PROVE  RepeatInv'
<1>1. /\ lastMessages' = lastMessages /\ gone' = gone
      /\ \A d \in Conn : inbox'[d].jobs = inbox[d].jobs
  OBVIOUS
<1>2. Onward /\ \A d \in Conn : at'[d]["send"] = "archiving" => at[d]["send"] = "archiving"
  BY <1>1, OnwardGoes
<1>3. NothingAired
  BY <1>2, AiredStays
<1> QED BY <1>1, <1>2, <1>3, OnwardKeeps

LEMMA SenderRepeats ==
  ASSUME HearInv, IInv', RepeatInv, NEW c \in Conn,
         \/ TakesToSend(c) \/ StopsReading(c) \/ ReadThrows(c) \/ SendsPrivate(c)
         \/ Answered(c) \/ StartsLogout(c)
  PROVE  RepeatInv'
<1>1. CASE TakesToSend(c) \/ StartsLogout(c) \/ ReadThrows(c)
  <2>1. /\ UNCHANGED << inbox, lastMessages, out >> /\ local' = local /\ gone' = gone
        /\ section' = section
    BY <1>1 DEF TakesToSend, StartsLogout, ReadThrows
  <2>2. Onward /\ \A d \in Conn : at'[d]["send"] = "archiving" => at[d]["send"] = "archiving"
    <3>1. CASE TakesToSend(c)
      BY <2>1, <3>1, OnwardTakes DEF TakesToSend
    <3>2. CASE StartsLogout(c)
      BY <2>1, <3>2, OnwardHands DEF StartsLogout
    <3>3. CASE ReadThrows(c)
      BY <2>1, <3>3 DEF ReadThrows, Onward
    <3> QED BY <1>1, <3>1, <3>2, <3>3
  <2>3. NothingAired
    BY <2>1, <2>2, AiredStays
  <2> QED BY <2>1, <2>2, <2>3, UnwrittenSaid, OnwardKeeps
<1>2. CASE StopsReading(c) \/ Answered(c)
  <2>1. /\ UNCHANGED << inbox, lastMessages, local, gone >>
        /\ section' = section \/ ~HeldBy("send")'
        /\ out' = out \/ Writes(c, Error)
    BY <1>2 DEF StopsReading, Answered, HeldBy
  <2>2. PICK s \in {"leaving", "answering", "reading"} : Goes(c, "send", s)
    BY <1>2 DEF StopsReading, Answered, Written
  <2>3. s \in Stage /\ s # "archiving" /\ s \notin Talking
    BY HearTyped DEF Talking
  <2>4. \A d \in Conn : StillSaid(d)
    BY <2>1, UnwrittenSaid, WritesErrorSaid
  <2>5. \A d \in Conn : local'[d].lines = local[d].lines
    BY <2>1
  <2> QED BY <2>1, <2>2, <2>3, <2>4, <2>5, SendGoesRepeats
<1>3. CASE SendsPrivate(c)
  <2>1. /\ UNCHANGED << inbox, lastMessages, gone >> /\ at[c]["send"] = "executing"
        /\ local' = [local EXCEPT ![c].command = None]
    BY <1>3 DEF SendsPrivate
  <2>2. \A d \in Conn : local'[d].lines = local[d].lines
    BY <2>1, HearTyped DEF TypeOK
  <2>3. at[c]["send"] \in Talking /\ {"denying", "telling"} \subseteq Stage
    BY <2>1, HearTyped DEF Talking
  <2>4. CASE Writes(c, Error) /\ section' = Section("denial", c, None, {}) /\ Goes(c, "send", "denying")
    <3>1. ~HeldBy("send")' /\ \A d \in Conn : StillSaid(d)
      BY <2>4, WritesErrorSaid DEF HeldBy, Section
    <3> QED BY <2>1, <2>2, <2>3, <2>4, <3>1, SendGoesRepeats
  <2>5. CASE /\ Goes(c, "send", "telling") /\ UNCHANGED out
             /\ \E left : section' = Section("send", c, Chat("private_message", c), left)
    <3>1. section'.msg.type = "private_message"
      BY <2>5 DEF Section, Chat
    <3> QED BY <2>1, <2>2, <2>3, <2>5, <3>1, UnwrittenSaid, SendGoesRepeats
  <2> QED BY <1>3, <2>4, <2>5 DEF SendsPrivate
<1> QED BY <1>1, <1>2, <1>3

-----------------------------------------------------------------------------
(* Something is said: read, told to everybody, put in inboxes, archived and *)
(* delivered.                                                               *)
LEMMA ReadsChatRepeats == ASSUME HearInv, IInv', RepeatInv, NEW c \in Conn, ReadsChat(c) PROVE RepeatInv'
<1>1. /\ at[c]["send"] = "reading" /\ Goes(c, "send", "executing") /\ section' = section
      /\ UNCHANGED << inbox, out, lastMessages >> /\ gone' = gone
  BY DEF ReadsChat
<1>2. PICK message : local' = [local EXCEPT ![c].command = message, ![c].lines = @ + 1]
  BY DEF ReadsChat
<1>3. /\ local'[c].lines = local[c].lines + 1
      /\ \A d \in Conn \ {c} : local'[d] = local[d]
  BY <1>2, HearTyped, ReadTo DEF TypeOK
<1>4. \A d \in Conn, q \in Pool : at'[d][q] = IF d = c /\ q = "send" THEN "executing" ELSE at[d][q]
  BY <1>1, HearTyped, SendGoesTo
<1>5. \A d \in Conn : /\ at'[d]["login"] = at[d]["login"]
                      /\ at'[d]["send"] = IF d = c THEN "executing" ELSE at[d]["send"]
  BY <1>4, HearTyped
<1>6. ASSUME NEW a \in Conn, NEW d \in Conn, Aired(a, d)'
      PROVE  Aired(a, d) /\ local'[a].lines = local[a].lines
  <2>1. HeldBy("send") => section.who # c
    BY <1>1, HearTyped DEF IInv, SectionInv
  <2>2. a # c
    BY <1>1, <1>5, <1>6, <2>1 DEF Aired, HeldBy
  <2> QED BY <1>1, <1>3, <1>5, <1>6, <2>2 DEF Aired, HeldBy
<1>7. \A a \in Conn : \/ local'[a].lines = local[a].lines + 1
                      \/ /\ local'[a].lines = local[a].lines
                         /\ at'[a]["send"] \in Talking => at[a]["send"] \in Talking
  BY <1>3, <1>5
<1> QED BY <1>1, <1>5, <1>6, <1>7, RepeatStays DEF Fresh

LEMMA SendsPublicRepeats ==
  ASSUME HearInv, IInv', OutsideInv, RepeatInv, NEW c \in Conn, SendsPublic(c)
  PROVE  RepeatInv'
<1>1. /\ at[c]["send"] = "executing" /\ Goes(c, "send", "telling") /\ local' = local
      /\ UNCHANGED << inbox, out, lastMessages >> /\ gone' = gone
      /\ section' = Section("send", c, Chat("public_message", c), UsersOnline(online) \ {c})
  BY DEF SendsPublic
<1>2. section'.who = c /\ section'.left = UsersOnline(online) \ {c}
  BY <1>1 DEF Section
<1>3. \A d \in Conn, q \in Pool : at'[d][q] = IF d = c /\ q = "send" THEN "telling" ELSE at[d][q]
  BY <1>1, HearTyped, SendGoesTo
<1>4. \A d \in Conn : /\ at'[d]["login"] = at[d]["login"]
                      /\ at'[d]["send"] = IF d = c THEN "telling" ELSE at[d]["send"]
  BY <1>3, HearTyped
<1>5. ASSUME NEW d \in Conn, at[d]["login"] \in Early, d \notin UsersOnline(online) \ {c}
      PROVE  inbox[d].jobs = << >>
  <2>1. d # c
    BY <1>1, <1>5, HearTyped DEF IInv, SessionInv, OrderInv, Early
  <2>2. d \notin UsersOnline(online)
    BY <1>5, <2>1
  <2>3. at[d]["send"] = "none"
    BY <1>5, HearTyped DEF IInv, SessionInv, OrderInv, Early
  <2>4. ~InService(d)
    <3>1. NickOf[d] \in Nick /\ d # None
      BY NickAssumption, ConnAssumption
    <3> QED BY <2>2, <3>1, HearTyped DEF IInv, SessionInv, OwnerInv, UsersOnline
  <2>5. Place(d) = "outside"
    BY <1>5, <2>3, <2>4 DEF InService, Early, Place, Outside, Entering, Listed
  <2> QED BY <2>5 DEF OutsideInv
<1>6. ASSUME NEW a \in Conn, NEW d \in Conn, at'[d]["login"] \in Early, Aired(a, d)'
      PROVE  \/ Aired(a, d) /\ local'[a].lines = local[a].lines
             \/ \A y \in Nat : ~SaidIn(inbox[d].jobs, a, y)
  <2>1. CASE at'[a]["send"] = "archiving"
    BY <1>1, <1>4, <2>1 DEF Aired
  <2>2. CASE at'[a]["send"] # "archiving"
    <3>1. d \notin UsersOnline(online) \ {c}
      BY <1>2, <1>6, <2>2 DEF Aired
    <3>2. inbox[d].jobs = << >>
      BY <1>4, <1>5, <1>6, <3>1
    <3> QED BY <3>2 DEF SaidIn
  <2> QED BY <2>1, <2>2
<1>7. \A a \in Conn : at'[a]["send"] \in Talking => at[a]["send"] \in Talking
  BY <1>1, <1>4 DEF Talking
<1>8. \A a \in Conn : local'[a].lines = local[a].lines
  BY <1>1
<1> QED BY <1>1, <1>4, <1>6, <1>7, <1>8, RepeatStays DEF Fresh

(* The history has nothing yet of a message that is being told.             *)
LEMMA RecordedOld ==
  ASSUME HearInv, NEW a, NEW x, SaidIn(lastMessages, a, x)
  PROVE  x <= HistoryLimits[a]
<1>1. PICK k \in 1 .. Len(lastMessages) : Speaks(lastMessages[k], a, x)
  BY DEF SaidIn
<1> QED BY <1>1 DEF HearInv, SequenceInv, HistoryInv, Under, Speaks

LEMMA PutsRepeats ==
  ASSUME HearInv, IInv', RepeatInv, Tells, NEW u \in section.left, Puts(u),
         UNCHANGED << at, local, gone >>
  PROVE  RepeatInv'
<1> DEFINE q == inbox[u].jobs
           m == section.msg
<1>1. Broadcasting /\ out' = out /\ lastMessages' = lastMessages
  BY DEF Tells
<1>2. section \in Holding /\ m \in Msg /\ section.left \in SUBSET Conn /\ u \in Conn /\ section.who \in Conn
  BY <1>1, HearTyped, HolderTyped
<1>3. /\ section'.role = section.role /\ section'.who = section.who
      /\ section'.msg = section.msg /\ section'.left = section.left \ {u}
  BY <1>2 DEF Puts, Holding
<1>4. inbox'[u].jobs = Append(q, m) /\ \A d \in Conn \ {u} : inbox'[d] = inbox[d]
  BY <1>2, HearTyped DEF Puts, TypeOK
<1>5. q \in Seq(Lines) /\ m \in Lines
  BY <1>2, ClientTyped, MsgIsLine DEF HearInv
<1>6. ASSUME NEW a, NEW n, Speaks(m, a, n)
      PROVE  /\ a = section.who /\ HeldBy("send") /\ n = local[a].lines /\ n \in Nat
             /\ at[a]["send"] = "telling" /\ HistoryLimits[a] = n - 1
  <2>1. IsChat(m) /\ m.by = a /\ m.n = n
    BY <1>6 DEF Speaks
  <2>2. HeldBy("send") /\ a = section.who /\ n = local[a].lines
    BY <1>1, <2>1 DEF HearInv, ToldInv
  <2>3. at[a]["send"] = "telling" /\ n \in Nat
    BY <1>2, <2>2, HearTyped DEF IInv, SectionInv, TypeOK
  <2> QED BY <1>2, <2>2, <2>3 DEF HistoryLimits
<1> HIDE DEF q, m
<1>7. \A a, n : SaidIn(inbox'[u].jobs, a, n) <=> SaidIn(q, a, n) \/ Speaks(m, a, n)
  BY <1>4, <1>5, SaidAppended
<1>8. AiredInv'
  <2> SUFFICES ASSUME NEW a \in Conn, NEW c \in Conn, at[c]["login"] \in Early, Aired(a, c)',
                      NEW y \in Nat, SaidIn(inbox'[c].jobs, a, y)
               PROVE  SaidIn(inbox'[c].jobs, a, local[a].lines)
    BY DEF AiredInv
  <2>1. CASE c # u
    <3>1. Aired(a, c)
      BY <1>1, <1>3, <2>1 DEF Aired, HeldBy, Broadcasting
    <3> QED BY <1>4, <2>1, <3>1 DEF RepeatInv, AiredInv
  <2>2. CASE c = u /\ at[a]["send"] = "archiving"
    <3>1. \A n : ~Speaks(m, a, n)
      BY <1>6, <2>2
    <3>2. Aired(a, u) /\ SaidIn(q, a, y)
      BY <1>7, <2>2, <3>1 DEF Aired
    <3>3. SaidIn(q, a, local[a].lines)
      BY <2>2, <3>2 DEF RepeatInv, AiredInv, q
    <3> QED BY <1>7, <2>2, <3>3
  <2>3. CASE c = u /\ at[a]["send"] # "archiving"
    <3>1. HeldBy("send") /\ section.who = a /\ m.type = "public_message"
      BY <1>1, <1>3, <2>3 DEF Aired, HeldBy, Broadcasting, m
    <3>2. IsChat(m) /\ m.by = a /\ m.n = local[a].lines
      BY <1>1, <3>1 DEF HearInv, ToldInv, IsChat, m
    <3> QED BY <1>7, <2>3, <3>2 DEF Speaks
  <2> QED BY <2>1, <2>2, <2>3
<1>9. RecordInv'
  <2> SUFFICES ASSUME NEW a \in Conn, NEW c \in Conn, at[c]["login"] \in Early,
                      NEW x \in Nat, NEW y \in Nat, SaidIn(lastMessages, a, x),
                      SaidIn(inbox'[c].jobs, a, y), y <= x
               PROVE  SaidIn(inbox'[c].jobs, a, x)
    BY <1>1 DEF RecordInv
  <2>1. CASE c # u
    BY <1>4, <2>1 DEF RepeatInv, RecordInv
  <2>2. CASE c = u
    <3>1. ~Speaks(m, a, y)
      <4>1. x <= HistoryLimits[a]
        BY RecordedOld
      <4> QED BY <1>6, <4>1
    <3>2. SaidIn(q, a, y)
      BY <1>7, <2>2, <3>1
    <3>3. SaidIn(q, a, x)
      BY <2>2, <3>2 DEF RepeatInv, RecordInv, q
    <3> QED BY <1>7, <2>2, <3>3
  <2> QED BY <2>1, <2>2
<1>10. AgainInv'
  <2> SUFFICES ASSUME NEW a \in Conn, NEW c \in Conn, ~gone[c], NEW x \in Nat, NEW y \in Nat,
                      Before(out[c], a, x), Fresh(c, a, y)', y <= x
               PROVE  Fresh(c, a, x)'
    BY <1>1 DEF AgainInv
  <2>1. CASE c # u
    BY <1>1, <1>4, <2>1 DEF Fresh, RepeatInv, AgainInv
  <2>2. CASE c = u
    <3>1. ~Speaks(m, a, y)
      <4>1. x <= HistoryLimits[a]
        BY DEF RepeatInv, OldInv
      <4> QED BY <1>6, <4>1
    <3>2. Fresh(u, a, y)
      BY <1>1, <1>7, <2>2, <3>1 DEF Fresh, q
    <3>3. Fresh(u, a, x)
      BY <2>2, <3>2 DEF RepeatInv, AgainInv
    <3> QED BY <1>1, <1>7, <2>2, <3>3 DEF Fresh, q
  <2> QED BY <2>1, <2>2
<1>11. OldInv'
  BY <1>1 DEF RepeatInv, OldInv, HistoryLimits
<1> QED BY <1>8, <1>9, <1>10, <1>11 DEF RepeatInv

LEMMA TellsRepeats == ASSUME HearInv, IInv', RepeatInv, Tells PROVE RepeatInv'
<1>1. /\ Broadcasting /\ UNCHANGED << at, local, gone >>
      /\ UNCHANGED << lastMessages, out >>
  BY DEF Tells
<1>2. /\ section.left \in SUBSET Conn /\ section.stuck \in Conn \cup {None}
      /\ section.stuck # None => section.stuck \in section.left
  BY <1>1, HearTyped, HolderTyped DEF HearInv, ToldInv
<1>3. ASSUME NEW u \in Conn, Blocks(u) PROVE RepeatInv'
  <2>1. /\ section'.role = section.role /\ section'.who = section.who
        /\ section'.left = section.left /\ section'.msg = section.msg
    BY <1>1, <1>3, HearTyped, HolderTyped DEF Blocks, Holding
  <2>2. NothingAired
    BY <1>1, <2>1 DEF NothingAired, Aired, HeldBy, Broadcasting
  <2>3. inbox' = inbox /\ Onward
    BY <1>1, <1>3 DEF Blocks, Onward
  <2> QED BY <1>1, <2>2, <2>3, UnwrittenSaid, OnwardKeeps
<1>4. ASSUME NEW u \in section.left, Puts(u) PROVE RepeatInv'
  BY <1>1, <1>4, PutsRepeats
<1> QED BY <1>2, <1>3, <1>4 DEF Tells

LEMMA TellThrowsRepeats == ASSUME HearInv, IInv', RepeatInv, TellThrows PROVE RepeatInv'
<1> DEFINE c == section.who
<1>1. /\ Broadcasting /\ section' = None /\ UNCHANGED << inbox, out, lastMessages >>
      /\ local' = local /\ gone' = gone
      /\ Goes(c, section.role, IF section.role = "login" THEN "over" ELSE "leaving")
  BY DEF TellThrows
<1>2. c \in Conn /\ section.role \in {"login", "send", "logout"}
  BY <1>1, SectionHolder
<1> HIDE DEF c
<1>3. PICK s \in {"over", "leaving"} : Goes(c, section.role, s)
  BY <1>1
<1>4. s \in Stage /\ s \notin Early /\ s \notin Talking /\ s # "archiving"
  BY HearTyped DEF Early, Talking
<1>5. Onward /\ \A d \in Conn : at'[d]["send"] = "archiving" => at[d]["send"] = "archiving"
  BY <1>1, <1>2, <1>3, <1>4, OnwardGoes
<1>6. NothingAired
  BY <1>1, <1>5, AiredStays DEF HeldBy
<1> QED BY <1>1, <1>5, <1>6, UnwrittenSaid, OnwardKeeps

LEMMA TellsNoMoreRepeats == ASSUME HearInv, IInv', RepeatInv, TellsNoMore PROVE RepeatInv'
<1> DEFINE c == section.who
<1>1. /\ Broadcasting /\ section.left = {} /\ section' = None
      /\ UNCHANGED << inbox, out, lastMessages >> /\ gone' = gone
      /\ \/ HeldBy("login") /\ LoginTold(c)
         \/ HeldBy("send") /\ SendTold(c)
         \/ HeldBy("logout") /\ LogoutTold(c)
  BY DEF TellsNoMore
<1>2. /\ c \in Conn
      /\ HeldBy("login") => at[c]["login"] = "announcing"
      /\ HeldBy("send") => at[c]["send"] = "telling"
  BY <1>1, SectionHolder
<1>3. ~HeldBy("send")'
  BY <1>1 DEF HeldBy
<1>4. CASE HeldBy("login") /\ LoginTold(c)
  <2> HIDE DEF c
  <2>1. \A d \in Conn : local'[d].lines = local[d].lines
    BY <1>2, <1>4, HearTyped DEF LoginTold, TypeOK
  <2>2. Goes(c, "login", "welcoming") /\ at[c]["login"] \in Early /\ "welcoming" \in Stage
    BY <1>2, <1>4, HearTyped DEF LoginTold, Early
  <2>3. Onward /\ \A d \in Conn : at'[d]["send"] = "archiving" => at[d]["send"] = "archiving"
    BY <1>1, <1>2, <2>1, <2>2, OnwardGoes
  <2>4. NothingAired
    BY <1>3, <2>3, AiredStays
  <2> QED BY <1>1, <2>3, <2>4, UnwrittenSaid, OnwardKeeps
<1>5. CASE HeldBy("send") /\ SendTold(c)
  <2>1. PICK s \in {"archiving", "reading"} : Goes(c, "send", s)
                                             /\ (s = "archiving" => section.msg.type = "public_message")
    BY <1>5 DEF SendTold
  <2>2. \A d \in Conn, q \in Pool : at'[d][q] = IF d = c /\ q = "send" THEN s ELSE at[d][q]
    BY <1>2, <2>1, HearTyped, SendGoesTo
  <2>3. local' = local /\ at[c]["send"] \in Talking
    BY <1>2, <1>5 DEF SendTold, Talking
  <2>4. \A d \in Conn : /\ at'[d]["login"] = at[d]["login"]
                        /\ at'[d]["send"] = IF d = c THEN s ELSE at[d]["send"]
    BY <2>2, HearTyped
  <2>5. Onward
    BY <1>1, <2>3, <2>4 DEF Onward
  <2>6. NothingAired
    BY <1>1, <1>3, <1>5, <2>1, <2>4 DEF NothingAired, Aired, HeldBy
  <2> QED BY <1>1, <2>5, <2>6, UnwrittenSaid, OnwardKeeps
<1>6. CASE HeldBy("logout") /\ LogoutTold(c)
  <2> HIDE DEF c
  <2>1. local' = local /\ (Goes(c, "logout", "over") \/ \E w \in Conn : at[w]["login"] = "asleep" /\ Notifies(c, w))
    BY <1>6 DEF LogoutTold, Notifies
  <2>2. Onward /\ \A d \in Conn : at'[d]["send"] = "archiving" => at[d]["send"] = "archiving"
    <3>1. CASE Goes(c, "logout", "over")
      BY <1>1, <1>2, <2>1, <3>1, HearTyped, OnwardGoes
    <3>2. ASSUME NEW w \in Conn, at[w]["login"] = "asleep", Notifies(c, w)
          PROVE  Onward /\ \A d \in Conn : at'[d]["send"] = "archiving" => at[d]["send"] = "archiving"
      <4>1. \A d \in Conn, q \in Pool :
              at'[d][q] = IF d = w /\ q = "login" THEN "woken"
                          ELSE IF d = c /\ q = "logout" THEN "over" ELSE at[d][q]
        BY <1>2, <3>2, HearTyped, NotifiesTo
      <4>2. \A d \in Conn : /\ at'[d]["send"] = at[d]["send"]
                            /\ at'[d]["login"] = IF d = w THEN "woken" ELSE at[d]["login"]
        BY <4>1, HearTyped
      <4>3. at[w]["login"] \in Early
        BY <3>2 DEF Early
      <4> QED BY <1>1, <2>1, <4>2, <4>3 DEF Onward
    <3> QED BY <2>1, <3>1, <3>2
  <2>3. NothingAired
    BY <1>3, <2>2, AiredStays
  <2> QED BY <1>1, <2>2, <2>3, UnwrittenSaid, OnwardKeeps
<1> QED BY <1>1, <1>4, <1>5, <1>6

LEMMA PushSaid ==
  ASSUME NEW h \in Seq(Chatter), NEW m \in Chatter, NEW a, NEW n, SaidIn(Push(h, m), a, n)
  PROVE  SaidIn(h, a, n) \/ Speaks(m, a, n)
<1>1. h \in Seq(Lines) /\ m \in Lines
  BY ChatterFits
<1>2. CASE Len(h) >= MaxMessages
  <2>1. Push(h, m) = Append(Tail(h), m) /\ h # << >>
    BY <1>2, SizeAssumption, EmptySeq DEF Push
  <2>2. Tail(h) \in Seq(Lines)
    BY <1>1, <2>1, HeadTailProperties
  <2>3. SaidIn(Tail(h), a, n) \/ Speaks(m, a, n)
    BY <1>1, <2>1, <2>2, SaidAppended
  <2> QED BY <1>1, <2>1, <2>3, SaidTail
<1>3. CASE ~(Len(h) >= MaxMessages)
  BY <1>1, <1>3, SaidAppended DEF Push
<1> QED BY <1>2, <1>3

LEMMA ArchivesRepeats == ASSUME HearInv, IInv', RepeatInv, NEW c \in Conn, Archives(c) PROVE RepeatInv'
<1> DEFINE m == Chat("public_message", c)
<1>1. /\ at[c]["send"] = "archiving" /\ lastMessages' = Push(lastMessages, m)
      /\ Goes(c, "send", "reading") /\ UNCHANGED << section, inbox, out >>
      /\ gone' = gone /\ local' = [local EXCEPT ![c].command = None]
  BY DEF Archives
<1>2. \A d \in Conn, q \in Pool : at'[d][q] = IF d = c /\ q = "send" THEN "reading" ELSE at[d][q]
  BY <1>1, HearTyped, SendGoesTo
<1>3. \A d \in Conn : local'[d].lines = local[d].lines
  BY <1>1, HearTyped DEF TypeOK
<1>4. \A d \in Conn : /\ at'[d]["login"] = at[d]["login"]
                      /\ at'[d]["send"] = IF d = c THEN "reading" ELSE at[d]["send"]
  BY <1>2, HearTyped
<1>5. m \in Chatter /\ m.by = c /\ m.n = local[c].lines /\ lastMessages \in Seq(Chatter)
  <2>1. local[c].lines \in Nat /\ local[c].command \in Command
    BY HearTyped DEF TypeOK
  <2> QED BY <2>1 DEF Chatter, Chat, HearInv, HeardInv
<1>6. \A a, d \in Conn : Aired(a, d)' => Aired(a, d)
  BY <1>1, <1>4 DEF Aired, HeldBy
<1>7. AiredInv' /\ AgainInv'
  BY <1>1, <1>3, <1>4, <1>6 DEF RepeatInv, AiredInv, AgainInv, Fresh
<1> HIDE DEF m
<1>8. RecordInv'
  <2> SUFFICES ASSUME NEW a \in Conn, NEW d \in Conn, at[d]["login"] \in Early,
                      NEW x \in Nat, NEW y \in Nat, SaidIn(lastMessages', a, x),
                      SaidIn(inbox[d].jobs, a, y), y <= x
               PROVE  SaidIn(inbox[d].jobs, a, x)
    BY <1>1, <1>4 DEF RecordInv
  <2>1. SaidIn(lastMessages, a, x) \/ Speaks(m, a, x)
    BY <1>1, <1>5, PushSaid, Zenon
  <2>2. CASE SaidIn(lastMessages, a, x)
    BY <2>2 DEF RepeatInv, RecordInv
  <2>3. CASE Speaks(m, a, x)
    <3>1. a = c /\ x = local[a].lines
      BY <1>5, <2>3 DEF Speaks
    <3>2. Aired(a, d)
      BY <1>1, <3>1 DEF Aired
    <3> QED BY <3>1, <3>2 DEF RepeatInv, AiredInv
  <2> QED BY <2>1, <2>2, <2>3
<1>9. OldInv'
  <2> SUFFICES ASSUME NEW a \in Conn, NEW d \in Conn, NEW x \in Nat, Before(out[d], a, x)
               PROVE  x <= HistoryLimits'[a]
    BY <1>1 DEF OldInv
  <2>1. x <= HistoryLimits[a]
    BY DEF RepeatInv, OldInv
  <2>2. TypeOK /\ TypeOK'
    BY DEF HearInv, IInv
  <2>3. \A b \in Conn : at'[b]["send"] \in Talking => at[b]["send"] \in Talking
    BY <1>4 DEF Talking
  <2>4. /\ HistoryLimits[a] \in Int /\ HistoryLimits'[a] \in Int
        /\ HistoryLimits[a] <= HistoryLimits'[a]
    BY <1>3, <2>2, <2>3, HistoryLimitsRise
  <2> QED BY <2>1, <2>4
<1> QED BY <1>7, <1>8, <1>9 DEF RepeatInv

LEMMA DeliversRepeats == ASSUME HearInv, IInv', RepeatInv, NEW c \in Conn, Delivers(c) PROVE RepeatInv'
<1> DEFINE q == inbox[c].jobs
           m == Head(q)
<1>1. /\ q # << >> /\ inbox' = [inbox EXCEPT ![c].jobs = Tail(q)]
      /\ at[c]["receive"] = "serving" /\ local' = local /\ section' = section
      /\ lastMessages' = lastMessages /\ gone' = gone
      /\ Goes(c, "receive", "sending") /\ Writes(c, << m >>)
  BY DEF Delivers
<1>2. q \in Seq(Msg) /\ q \in Seq(Lines) /\ out[c] \in Seq(Lines)
  BY ClientTyped DEF HearInv
<1>3. m \in Lines /\ Tail(q) \in Seq(Lines)
  BY <1>1, <1>2, HeadTailProperties, EmptySeq
<1>4. inbox'[c].jobs = Tail(q) /\ \A d \in Conn \ {c} : inbox'[d].jobs = inbox[d].jobs
  BY <1>1, HearTyped DEF TypeOK
<1>5. gone[c] \/ Ended(out[c])
  BY <1>1 DEF HearInv, SequenceInv, ClientInv, Settled
<1>6. at[c]["login"] \notin Early
  BY <1>1, HearTyped DEF IInv, SessionInv, OrderInv, Early
<1>7. Onward /\ \A d \in Conn : at'[d]["send"] = "archiving" => at[d]["send"] = "archiving"
  BY <1>1, HearTyped, OnwardGoes
<1>8. NothingAired
  BY <1>1, <1>7, AiredStays
<1>9. /\ \A d \in Conn \ {c} : out'[d] = out[d]
      /\ out'[c] = IF gone[c] THEN out[c] ELSE Append(out[c], m)
  BY <1>1, <1>3, WritesOne, Zenon
<1>10. q # << >>
  BY <1>1
<1> HIDE DEF m, q
<1>11. ASSUME NEW a, NEW n, ~gone[c]
       PROVE  /\ Before(out'[c], a, n) <=> Before(out[c], a, n)
              /\ After(out'[c], a, n) <=> After(out[c], a, n) \/ Speaks(m, a, n)
  <2> DEFINE p == out'[c]
             o == out[c]
  <2>1. p = Append(o, m) /\ o \in Seq(Lines) /\ Ended(o)
    BY <1>2, <1>5, <1>9, <1>11
  <2> HIDE DEF p, o
  <2>2. Ended(p)
    BY <1>3, <2>1, LiveAppended
  <2>3. /\ Before(p, a, n) <=> Before(o, a, n)
        /\ After(p, a, n) <=> After(o, a, n) \/ Speaks(m, a, n)
    BY <1>3, <2>1, <2>2, PartsAppended
  <2> QED BY <2>3 DEF p, o
<1>12. \A a, d \in Conn : \A n \in Nat : Before(out'[d], a, n) <=> Before(out[d], a, n)
  BY <1>9, <1>11
<1>13. ASSUME NEW a \in Conn, NEW d \in Conn, NEW n \in Nat, ~gone[d]
       PROVE  Fresh(d, a, n)' <=> Fresh(d, a, n)
  <2>1. CASE d # c
    BY <1>4, <1>9, <2>1 DEF Fresh
  <2>2. CASE d = c
    <3>1. SaidIn(q, a, n) <=> Speaks(m, a, n) \/ SaidIn(Tail(q), a, n)
      BY <1>2, <1>10, SaidTail DEF m
    <3>2. After(out'[c], a, n) <=> After(out[c], a, n) \/ Speaks(m, a, n)
      BY <1>11, <1>13, <2>2
    <3> QED BY <1>4, <2>2, <3>1, <3>2 DEF Fresh, q
  <2> QED BY <2>1, <2>2
<1>14. \A d \in Conn : at'[d]["login"] \in Early =>
         at[d]["login"] \in Early /\ inbox'[d].jobs = inbox[d].jobs
  BY <1>4, <1>6, <1>7 DEF Onward
<1> QED BY <1>1, <1>7, <1>8, <1>12, <1>13, <1>14, RepeatStays DEF Onward, NothingAired

LEMMA ReceiverRepeats ==
  ASSUME HearInv, IInv', RepeatInv, NEW c \in Conn,
         TakesToReceive(c) \/ Delivered(c) \/ StopsDelivering(c) \/ LogoutRuns(c)
  PROVE  RepeatInv'
<1>1. /\ UNCHANGED << lastMessages, out >> /\ local' = local /\ gone' = gone
      /\ section' = section \/ ~HeldBy("send")'
  BY DEF TakesToReceive, Delivered, StopsDelivering, LogoutRuns, ClosesInbox, Erases,
         HeldBy, Section
<1>2. \A d \in Conn : inbox'[d].jobs = inbox[d].jobs
  <2>1. inbox' = inbox \/ inbox' = [inbox EXCEPT ![c].closed = TRUE]
    BY DEF TakesToReceive, Delivered, StopsDelivering, LogoutRuns, ClosesInbox, Erases
  <2>2. inbox \in [Conn -> [jobs : Seq(Msg), closed : BOOLEAN]]
    BY HearTyped DEF TypeOK
  <2> QED BY <2>1, <2>2
<1>3. Onward /\ \A d \in Conn : at'[d]["send"] = "archiving" => at[d]["send"] = "archiving"
  <2>1. CASE TakesToReceive(c)
    BY <1>1, <2>1, OnwardTakes DEF TakesToReceive
  <2>2. CASE ClosesInbox(c)
    BY <1>1, <2>2, OnwardTakes DEF ClosesInbox
  <2>3. CASE Delivered(c) \/ StopsDelivering(c)
    <3>1. PICK s \in {"serving", "over"} : Goes(c, "receive", s)
      BY <2>3 DEF Delivered, StopsDelivering, Written
    <3> QED BY <1>1, <3>1, HearTyped, OnwardGoes
  <2>4. CASE Erases(c)
    <3>1. Goes(c, "logout", "telling")
      BY <2>4 DEF Erases
    <3> QED BY <1>1, <3>1, HearTyped, OnwardGoes
  <2> QED BY <2>1, <2>2, <2>3, <2>4 DEF LogoutRuns
<1>4. NothingAired
  BY <1>1, <1>3, AiredStays
<1> QED BY <1>1, <1>2, <1>3, <1>4, UnwrittenSaid, OnwardKeeps

-----------------------------------------------------------------------------
LEMMA RepeatInit == Init => RepeatInv
<1> SUFFICES ASSUME Init PROVE RepeatInv
  OBVIOUS
<1>1. \A c \in Conn : out[c] = << >> /\ inbox[c].jobs = << >>
  BY DEF Init
<1>2. \A c \in Conn : \A a, n : ~Before(out[c], a, n) /\ ~SaidIn(inbox[c].jobs, a, n)
  BY <1>1 DEF Before, SaidIn
<1> QED BY <1>2 DEF RepeatInv, AiredInv, RecordInv, AgainInv, OldInv

LEMMA RepeatNext == ASSUME HearInv, GoneTyped, OutsideInv \/ ~up, RepeatInv, [Next]_vars PROVE RepeatInv'
<1>1. IInv'
  BY HearNext DEF HearInv
<1>2. CASE UNCHANGED vars \/ QueuesAccepted
  BY <1>1, <1>2, MainRepeats
<1>3. CASE SectionRuns
  BY <1>1, <1>3, TellsRepeats, TellThrowsRepeats, TellsNoMoreRepeats DEF SectionRuns
<1>4. ASSUME NEW c \in Conn, up,
             \/ Accepts(c) \/ Leaves(c) \/ Listens(c) \/ LoginRuns(c) \/ SpuriousWakeup(c)
             \/ SenderRuns(c) \/ ReceiverRuns(c) \/ LogoutRuns(c)
      PROVE  RepeatInv'
  <2>1. CASE Accepts(c) \/ Leaves(c) \/ Listens(c)
    BY <1>1, <2>1, MainRepeats
  <2>2. CASE LoginRuns(c) \/ SpuriousWakeup(c)
    BY <1>1, <2>2, LoginRepeats, WelcomesRepeats DEF LoginRuns
  <2>3. CASE SenderRuns(c)
    BY <1>1, <1>4, <2>3, SenderRepeats, ReadsChatRepeats, SendsPublicRepeats, ArchivesRepeats
    DEF SenderRuns
  <2>4. CASE ReceiverRuns(c) \/ LogoutRuns(c)
    BY <1>1, <2>4, ReceiverRepeats, DeliversRepeats DEF ReceiverRuns
  <2> QED BY <1>4, <2>1, <2>2, <2>3, <2>4
<1> QED BY <1>2, <1>3, <1>4 DEF Next

(* A message of the history is heard again if an earlier one of its author  *)
(* is.                                                                      *)
LEMMA HeardAgain ==
  ASSUME HearInv, RepeatInv, NEW c \in Conn, ~gone[c],
         NEW i \in 1 .. Len(Heard(c)), NEW j \in 1 .. Len(Heard(c)),
         InHistory(c, i), ~InHistory(c, j), NEW a, NEW x, NEW y, y <= x,
         Speaks(Heard(c)[i], a, x), Speaks(Heard(c)[j], a, y)
  PROVE  \E k \in 1 .. Len(Heard(c)) : ~InHistory(c, k) /\ Speaks(Heard(c)[k], a, x)
<1> DEFINE o == out[c]
           q == inbox[c].jobs
<1>1. /\ o \in Seq(Lines) /\ q \in Seq(Lines)
      /\ Len(Heard(c)) = Len(o) + Len(q) /\ Len(o) \in Nat /\ Len(q) \in Nat
      /\ \A k \in 1 .. Len(o) : Heard(c)[k] = o[k] /\ (InHistory(c, k) <=> ~Live(o, k))
      /\ \A k \in 1 .. Len(q) : Heard(c)[Len(o) + k] = q[k] /\ ~InHistory(c, Len(o) + k)
  BY HistoryIsBefore
<1>2. i \in 1 .. Len(o)
  BY <1>1 DEF InHistory
<1> HIDE DEF o, q
<1>3. a \in Conn /\ x \in Nat
  <2>1. o[i] \in Lines
    BY <1>1, <1>2
  <2> QED BY <1>1, <1>2, <2>1, LinesTyped DEF Speaks
<1>4. ASSUME NEW k \in 1 .. Len(Heard(c)), ~(k <= Len(o))
      PROVE  k - Len(o) \in 1 .. Len(q) /\ Heard(c)[k] = q[k - Len(o)]
  <2>1. k - Len(o) \in 1 .. Len(q) /\ Len(o) + (k - Len(o)) = k
    BY <1>1, <1>4
  <2> QED BY <1>1, <2>1
<1>5. Before(o, a, x)
  BY <1>1, <1>2 DEF Before
<1>6. Fresh(c, a, y) /\ y \in Nat
  <2>1. CASE j <= Len(o)
    <3>1. j \in 1 .. Len(o) /\ o[j] \in Lines
      BY <1>1, <2>1
    <3>2. Live(o, j) /\ Speaks(o[j], a, y)
      BY <1>1, <3>1
    <3> QED BY <3>1, <3>2, LinesTyped DEF Fresh, After, Speaks, o
  <2>2. CASE ~(j <= Len(o))
    <3>1. j - Len(o) \in 1 .. Len(q) /\ Speaks(q[j - Len(o)], a, y)
      BY <1>4, <2>2
    <3>2. q[j - Len(o)] \in Lines
      BY <1>1, <3>1
    <3> QED BY <3>1, <3>2, LinesTyped DEF Fresh, SaidIn, Speaks, q
  <2> QED BY <2>1, <2>2
<1>7. Fresh(c, a, x)
  BY <1>3, <1>5, <1>6 DEF RepeatInv, AgainInv, o
<1>8. CASE After(o, a, x)
  <2>1. PICK k \in 1 .. Len(o) : Live(o, k) /\ Speaks(o[k], a, x)
    BY <1>8 DEF After
  <2>2. k \in 1 .. Len(Heard(c))
    BY <1>1, <2>1
  <2> QED BY <1>1, <2>1, <2>2
<1>9. CASE SaidIn(q, a, x)
  <2>1. PICK k \in 1 .. Len(q) : Speaks(q[k], a, x)
    BY <1>9 DEF SaidIn
  <2>2. Len(o) + k \in 1 .. Len(Heard(c))
    BY <1>1, <2>1
  <2> QED BY <1>1, <2>1, <2>2
<1> QED BY <1>7, <1>8, <1>9 DEF Fresh, o, q

LEMMA InOrderThen == ASSUME HearInv, RepeatInv PROVE InOrder
<1> DEFINE Same(c, i, j) ==
             IsChat(Heard(c)[i]) /\ IsChat(Heard(c)[j]) /\ Heard(c)[i].by = Heard(c)[j].by
<1> SUFFICES ASSUME NEW c \in Conn, NEW i \in 1 .. Len(Heard(c)), NEW j \in 1 .. Len(Heard(c)),
                    i < j, Same(c, i, j), ~(Heard(c)[i].n < Heard(c)[j].n)
             PROVE  /\ InHistory(c, i) /\ ~InHistory(c, j)
                    /\ \/ gone[c]
                       \/ \E k \in j .. Len(Heard(c)) :
                            Same(c, i, k) /\ Heard(c)[k].n = Heard(c)[i].n
  BY DEF InOrder
<1>1. InHistory(c, i) /\ ~InHistory(c, j)
  <2>1. ~(InHistory(c, i) <=> InHistory(c, j))
    BY InOrderWithin DEF Later
  <2>2. InHistory(c, j) => InHistory(c, i)
    BY DEF InHistory
  <2> QED BY <2>1, <2>2
<1>2. ASSUME ~gone[c]
      PROVE  \E k \in j .. Len(Heard(c)) : Same(c, i, k) /\ Heard(c)[k].n = Heard(c)[i].n
  <2> DEFINE a == Heard(c)[i].by
             x == Heard(c)[i].n
             y == Heard(c)[j].n
  <2>1. Speaks(Heard(c)[i], a, x) /\ Speaks(Heard(c)[j], a, y)
    BY DEF Speaks
  <2>2. x \in Nat /\ y \in Nat
    <3>1. Heard(c)[i] \in Lines /\ Heard(c)[j] \in Lines
      <4>1. out[c] \in Seq(Lines) /\ inbox[c].jobs \in Seq(Lines)
        BY HistoryIsBefore
      <4>2. Heard(c) \in Seq(Lines)
        BY <4>1, ConcatProperties DEF Heard
      <4> QED BY <4>2
    <3> QED BY <3>1, LinesTyped
  <2>3. y <= x
    BY <2>2
  <2> HIDE DEF a, x, y
  <2>4. PICK k \in 1 .. Len(Heard(c)) : ~InHistory(c, k) /\ Speaks(Heard(c)[k], a, x)
    BY <1>1, <1>2, <2>1, <2>3, HeardAgain
  <2>5. Same(c, i, k) /\ Heard(c)[k].n = x /\ Heard(c)[k].by = a
    BY <2>4 DEF Speaks, a
  <2>6. ~(k < j)
    <3> SUFFICES ASSUME k < j PROVE FALSE
      OBVIOUS
    <3>1. Later(Heard(c)[k], Heard(c)[j])
      BY <1>1, <2>4, InOrderWithin
    <3>2. Heard(c)[k].n < Heard(c)[j].n
      BY <2>1, <2>4, <3>1 DEF Later, Speaks
    <3> QED BY <2>2, <2>3, <2>5, <3>2 DEF y
  <2>7. k \in j .. Len(Heard(c))
    BY <2>6
  <2> QED BY <2>5, <2>7 DEF x
<1> QED BY <1>1, <1>2

(* What one user says reaches another in the order it was said, within the  *)
(* history and within what follows it; and what follows goes back to a      *)
(* message of the history only to repeat the history to its end.  Whatever  *)
(* the number of threads, users, messages and the sizes of the queues.       *)
THEOREM InOrderHolds == Spec => []InOrder
<1>1. HearInv /\ GoneTyped /\ (AloneInv /\ (up => ViewInv) /\ RepeatInv) /\ [Next]_vars
        => (AloneInv /\ (up => ViewInv) /\ RepeatInv)'
  <2> SUFFICES ASSUME HearInv, GoneTyped, AloneInv, up => ViewInv, RepeatInv, [Next]_vars
               PROVE  AloneInv' /\ (up' => ViewInv') /\ RepeatInv'
    OBVIOUS
  <2>1. ASSUME up' PROVE ViewInv'
    <3>1. up
      BY <2>1 DEF Next, vars
    <3>2. TellThrows => ~HeldBy("logout")
      BY <2>1 DEF TellThrows, HeldBy
    <3> QED BY <3>1, <3>2, ViewNext
  <2>2. OutsideInv \/ ~up
    BY DEF ViewInv
  <2> QED BY <2>1, <2>2, AloneNext, RepeatNext
<1>2. HearInv /\ GoneTyped /\ (AloneInv /\ (up => ViewInv) /\ RepeatInv) => InOrder
  BY InOrderThen
<1>3. Init => AloneInv /\ (up => ViewInv) /\ RepeatInv
  BY AloneInit, ViewInit, RepeatInit
<1> QED BY <1>1, <1>2, <1>3, HearHolds, PTL DEF Spec
=============================================================================
