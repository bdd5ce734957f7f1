-------------------------- MODULE ChatClientProofs --------------------------
(***************************************************************************)
(* Theorems about ChatClient, for every size of the console, every script  *)
(* of the server and whatever is typed: that no change is lost on its way  *)
(* to the screen, that nothing is sent after the end, that the lines of    *)
(* the server are shown in order, and the user's own as they were sent.    *)
(***************************************************************************)
EXTENDS ChatClient, SequenceTheorems, TLAPS

(* The one flag of the two writers: it is down only while the screen shows *)
(* what there is, and the refresher sleeps only while it is down.          *)
FlagInv ==
  /\ main = "login" => refresher = "ready"
  /\ main = "chat" /\ ~ioEvent => screen = << lastMessages, command >>
  /\ refresher = "waiting" => ~ioEvent

(* Whoever makes the refresher leave has left itself.                      *)
EndInv == terminateNow => sender = "exited"

IInv == FlagInv /\ EndInv

LEMMA IInvInit == Init => IInv
BY DEF Init, IInv, FlagInv, EndInv

(* Changing what is shown, with io_event and notify_one(), keeps the flag. *)
LEMMA NotifyKeepsFlag ==
  ASSUME FlagInv, main = "chat", main' = main, ioEvent' = TRUE, Notify
  PROVE  FlagInv'
BY DEF FlagInv, Notify

LEMMA MainKeepsInv == ASSUME IInv, MainRuns PROVE IInv'
<1>1. CASE LoginPushes
  BY <1>1 DEF LoginPushes, IInv, FlagInv, EndInv, threads
<1>2. CASE LoginDone
  BY <1>2 DEF LoginDone, IInv, FlagInv, EndInv, threads
<1>3. CASE LoginFails
  BY <1>3 DEF LoginFails, IInv, FlagInv, EndInv, display, threads
<1>4. CASE MainJoins
  BY <1>4 DEF MainJoins, IInv, FlagInv, EndInv, display, threads
<1> QED BY <1>1, <1>2, <1>3, <1>4 DEF MainRuns

LEMMA RefresherKeepsInv == ASSUME IInv, RefresherRuns \/ SpuriousWakeup PROVE IInv'
<1>1. CASE Draws
  BY <1>1 DEF Draws, IInv, FlagInv, EndInv, threads
<1>2. CASE Waits
  BY <1>2 DEF Waits, IInv, FlagInv, EndInv, display
<1>3. CASE RefresherExits
  BY <1>3 DEF RefresherExits, IInv, FlagInv, EndInv, display
<1>4. CASE SpuriousWakeup
  BY <1>4 DEF SpuriousWakeup, IInv, FlagInv, EndInv, display
<1>5. CASE DrawThrows
  BY <1>5 DEF DrawThrows, IInv, FlagInv, EndInv, display, threads
<1> QED BY <1>1, <1>2, <1>3, <1>4, <1>5 DEF RefresherRuns

LEMMA SenderKeepsInv == ASSUME IInv, ReadsKey \/ SenderRuns PROVE IInv'
<1>1. CASE ReadsKey
  BY <1>1 DEF ReadsKey, IInv, FlagInv, EndInv, display
<1>2. CASE LastKey
  <2>1. FlagInv'
    BY <1>2, NotifyKeepsFlag DEF LastKey, IInv
  <2> QED BY <1>2, <2>1 DEF LastKey, IInv, EndInv
<1>3. CASE EditsCommand
  <2>1. sender # "exited"
    BY <1>3, ClientAssumption DEF EditsCommand
  <2>2. main = "chat" /\ main' = main /\ ioEvent' = TRUE /\ Notify
    BY <1>3 DEF EditsCommand, Edits
  <2>3. FlagInv'
    BY <2>2, NotifyKeepsFlag DEF IInv
  <2>4. ~terminateNow /\ terminateNow' = terminateNow
    BY <1>3, <2>1 DEF EditsCommand, IInv, EndInv
  <2> QED BY <2>3, <2>4 DEF IInv, EndInv
<1>4. CASE SendsQuit
  <2>1. FlagInv'
    BY <1>4, NotifyKeepsFlag DEF SendsQuit, IInv
  <2> QED BY <1>4, <2>1 DEF SendsQuit, IInv, EndInv
<1>5. CASE SendsMessage
  <2>1. main = "chat" /\ main' = main /\ ioEvent' = TRUE /\ Notify
    BY <1>5 DEF SendsMessage, Edits
  <2>2. FlagInv'
    BY <2>1, NotifyKeepsFlag DEF IInv
  <2>3. ~terminateNow /\ terminateNow' = terminateNow
    BY <1>5 DEF SendsMessage, MaySend, IInv, EndInv
  <2> QED BY <2>2, <2>3 DEF IInv, EndInv
<1>6. CASE SendThrows
  BY <1>6 DEF SendThrows, IInv, FlagInv, EndInv, display, threads
<1> QED BY <1>1, <1>2, <1>3, <1>4, <1>5, <1>6 DEF SenderRuns

LEMMA ReceiverKeepsInv == ASSUME IInv, ReceiverRuns PROVE IInv'
<1>1. CASE Receives
  BY <1>1 DEF Receives, IInv, FlagInv, EndInv, display
<1>2. CASE ReceiveThrows
  BY <1>2 DEF ReceiveThrows, IInv, FlagInv, EndInv, display, threads
<1>5. CASE RecordThrows
  BY <1>5 DEF RecordThrows, IInv, FlagInv, EndInv, display, threads
<1>3. CASE Records
  <2>1. FlagInv'
    BY <1>3, NotifyKeepsFlag DEF Records, IInv
  <2> QED BY <1>3, <2>1 DEF Records, IInv, EndInv
<1>4. CASE RecordsEnd
  <2>1. FlagInv'
    BY <1>4, NotifyKeepsFlag DEF RecordsEnd, IInv
  <2> QED BY <1>4, <2>1 DEF RecordsEnd, IInv, EndInv
<1> QED BY <1>1, <1>2, <1>3, <1>4, <1>5 DEF ReceiverRuns

LEMMA IInvNext == IInv /\ [Next]_vars => IInv'
<1> SUFFICES ASSUME IInv, [Next]_vars PROVE IInv'
  OBVIOUS
<1>1. CASE ServerSends \/ ServerCloses
  BY <1>1 DEF ServerSends, ServerCloses, IInv, FlagInv, EndInv, display, threads
<1>2. CASE UNCHANGED vars
  BY <1>2 DEF vars, IInv, FlagInv, EndInv, display, threads
<1> QED BY <1>1, <1>2, MainKeepsInv, RefresherKeepsInv, SenderKeepsInv, ReceiverKeepsInv DEF Next

LEMMA IInvHolds == Spec => []IInv
BY IInvInit, IInvNext, PTL DEF Spec

(* While the refresher sleeps, the screen shows the messages and the       *)
(* command as they are, with any console and any input.                    *)
THEOREM RefreshesAreKept == Spec => []NoLostRefresh
<1>1. IInv => NoLostRefresh
  BY DEF IInv, FlagInv, NoLostRefresh
<1> QED BY <1>1, IInvHolds, PTL

(* Nothing is sent after the user has quit or the end of the connection    *)
(* was recorded, also when the key was read before.                        *)
THEOREM SendingEnds == Spec => NothingSentAfterEnd
<1>1. IInv /\ [Next]_vars => [terminateAfterKey \/ terminateNow => outbox' = outbox]_vars
  <2> SUFFICES ASSUME IInv, Next, terminateAfterKey \/ terminateNow PROVE outbox' = outbox
    OBVIOUS
  <2>1. ~MaySend
    BY DEF MaySend, IInv, EndInv
  <2>2. CASE MainRuns
    BY <2>2 DEF MainRuns, LoginPushes, LoginDone, LoginFails, MainJoins
  <2>3. CASE RefresherRuns \/ SpuriousWakeup
    BY <2>3 DEF RefresherRuns, Draws, DrawThrows, Waits, RefresherExits, SpuriousWakeup
  <2>4. CASE ReadsKey \/ SenderRuns
    BY <2>1, <2>4 DEF ReadsKey, SenderRuns, LastKey, EditsCommand, SendsQuit, SendsMessage, SendThrows
  <2>5. CASE ReceiverRuns
    BY <2>5 DEF ReceiverRuns, Receives, ReceiveThrows, Records, RecordThrows, RecordsEnd
  <2>6. CASE ServerSends \/ ServerCloses
    BY <2>6 DEF ServerSends, ServerCloses
  <2> QED BY <2>2, <2>3, <2>4, <2>5, <2>6 DEF Next
<1> QED BY <1>1, IInvHolds, PTL DEF Spec, NothingSentAfterEnd

-----------------------------------------------------------------------------
(* Sequences that begin with a word or two.                                *)
LEMMA Concat ==
  ASSUME NEW S, NEW s1 \in Seq(S), NEW s2 \in Seq(S), NEW t, t = s1 \o s2
  PROVE  /\ t \in Seq(S) /\ Len(s1) \in Nat /\ Len(s2) \in Nat /\ Len(t) = Len(s1) + Len(s2)
         /\ \A i \in 1 .. Len(s1) : t[i] = s1[i]
         /\ \A i \in 1 .. Len(s2) : t[Len(s1) + i] = s2[i]
<1>1. /\ s1 \o s2 \in Seq(S)
      /\ Len(s1 \o s2) = Len(s1) + Len(s2)
      /\ \A i \in 1 .. Len(s1) + Len(s2) : (s1 \o s2)[i] = IF i <= Len(s1) THEN s1[i] ELSE s2[i - Len(s1)]
  BY ConcatProperties
<1>2. /\ t \in Seq(S)
      /\ Len(t) = Len(s1) + Len(s2)
      /\ \A i \in 1 .. Len(s1) + Len(s2) : t[i] = IF i <= Len(s1) THEN s1[i] ELSE s2[i - Len(s1)]
  BY <1>1, Zenon
<1>3. Len(s1) \in Nat /\ Len(s2) \in Nat
  OBVIOUS
<1>4. ASSUME NEW i \in 1 .. Len(s1) PROVE t[i] = s1[i]
  BY <1>2, <1>3
<1>5. ASSUME NEW i \in 1 .. Len(s2) PROVE t[Len(s1) + i] = s2[i]
  <2>1. Len(s1) + i \in 1 .. Len(s1) + Len(s2) /\ ~(Len(s1) + i <= Len(s1)) /\ Len(s1) + i - Len(s1) = i
    BY <1>3
  <2> QED BY <1>2, <2>1
<1> QED BY <1>2, <1>3, <1>4, <1>5

LEMMA OneWord ==
  ASSUME NEW S, NEW a \in S, NEW A, A = << a >>
  PROVE  A \in Seq(S) /\ Len(A) = 1 /\ A[1] = a
OBVIOUS

LEMMA Prefixed ==
  ASSUME NEW S, NEW a \in S, NEW s \in Seq(S), NEW t, t = << a >> \o s
  PROVE  /\ t \in Seq(S) /\ Len(s) \in Nat /\ Len(t) = Len(s) + 1 /\ t[1] = a
         /\ \A i \in 1 .. Len(s) : t[i + 1] = s[i]
         /\ Tail(t) = s
<1> DEFINE A == << a >>
<1>1. A \in Seq(S) /\ Len(A) = 1 /\ A[1] = a
  BY OneWord
<1>2. t = A \o s
  OBVIOUS
<1> HIDE DEF A
<1>3. /\ t \in Seq(S) /\ Len(A) \in Nat /\ Len(s) \in Nat /\ Len(t) = Len(A) + Len(s)
      /\ \A i \in 1 .. Len(A) : t[i] = A[i]
      /\ \A i \in 1 .. Len(s) : t[Len(A) + i] = s[i]
  BY <1>1, <1>2, Concat
<1>4. t[1] = a /\ Len(t) = Len(s) + 1 /\ \A i \in 1 .. Len(s) : t[i + 1] = s[i]
  BY <1>1, <1>3
<1>5. t # << >>
  BY <1>3, <1>4, EmptySeq
<1>6. /\ Tail(t) \in Seq(S) /\ Len(Tail(t)) = Len(t) - 1
      /\ \A i \in 1 .. Len(Tail(t)) : Tail(t)[i] = t[i + 1]
  BY <1>3, <1>5, HeadTailProperties
<1>7. Len(Tail(t)) = Len(s)
  BY <1>3, <1>4, <1>6
<1>8. \A i \in 1 .. Len(Tail(t)) : Tail(t)[i] = s[i]
  BY <1>4, <1>6, <1>7
<1>9. Tail(t) = s
  BY <1>3, <1>6, <1>7, <1>8, SeqEqual
<1> QED BY <1>3, <1>4, <1>9

LEMMA PrefixedTwice ==
  ASSUME NEW S, NEW a \in S, NEW b \in S, NEW s \in Seq(S), s # << >>,
         NEW u, u = << b >> \o s, NEW t, t = << a >> \o u
  PROVE  /\ u \in Seq(S) /\ Len(t) >= 3 /\ t[1] = a /\ t[2] = b
         /\ SubSeq(t, 3, Len(t)) = s
<1>1. /\ u \in Seq(S) /\ Len(s) \in Nat /\ Len(u) = Len(s) + 1 /\ u[1] = b
      /\ \A i \in 1 .. Len(s) : u[i + 1] = s[i]
  BY Prefixed
<1>2. /\ t \in Seq(S) /\ Len(t) = Len(u) + 1 /\ t[1] = a
      /\ \A i \in 1 .. Len(u) : t[i + 1] = u[i]
  BY <1>1, Prefixed
<1>3. Len(s) \in Nat \ {0} /\ Len(t) = Len(s) + 2
  BY <1>1, <1>2, EmptySeq
<1>4. t[2] = b
  <2>1. 1 \in 1 .. Len(u) /\ 1 + 1 = 2
    BY <1>1
  <2>2. t[1 + 1] = u[1]
    BY <1>2, <2>1
  <2> QED BY <1>1, <2>1, <2>2
<1>5. ASSUME NEW i \in 1 .. Len(s) PROVE t[i + 2] = s[i]
  <2>1. i + 1 \in 1 .. Len(u) /\ (i + 1) + 1 = i + 2
    BY <1>1
  <2>2. t[(i + 1) + 1] = u[i + 1]
    BY <1>2, <2>1
  <2> QED BY <1>1, <2>1, <2>2
<1> DEFINE r == SubSeq(t, 3, Len(t))
<1>6. /\ r \in Seq(S)
      /\ Len(r) = IF 3 <= Len(t) THEN Len(t) - 3 + 1 ELSE 0
      /\ \A i \in 1 .. Len(t) - 3 + 1 : r[i] = t[3 + i - 1]
  <2>1. \A i \in 3 .. Len(t) : t[i] \in S
    BY <1>2
  <2>2. 3 \in Int /\ Len(t) \in Int
    BY <1>3
  <2> QED BY <2>1, <2>2, SubSeqProperties
<1> HIDE DEF r
<1>7. Len(r) = Len(s)
  BY <1>3, <1>6
<1>8. ASSUME NEW i \in 1 .. Len(s) PROVE r[i] = s[i]
  <2>1. i \in 1 .. Len(t) - 3 + 1 /\ 3 + i - 1 = i + 2
    BY <1>3
  <2>2. r[i] = t[3 + i - 1]
    BY <1>6, <2>1
  <2> QED BY <1>5, <2>1, <2>2
<1>9. r = s
  BY <1>6, <1>7, <1>8, SeqEqual
<1> QED BY <1>1, <1>2, <1>3, <1>4, <1>9 DEF r

LEMMA WordsReassociated ==
  ASSUME NEW S, NEW c \in S, NEW a \in S, NEW B \in Seq(S), NEW s \in Seq(S)
  PROVE  << c >> \o << a >> \o B \o s = << c >> \o (<< a >> \o (B \o s))
<1>1. ASSUME NEW C, C = << c >>, NEW A, A = << a >>
      PROVE  C \o A \o B \o s = C \o (A \o (B \o s))
  <2>1. C \in Seq(S) /\ A \in Seq(S)
    BY <1>1, OneWord
  <2>2. C \o A \in Seq(S) /\ B \o s \in Seq(S)
    BY <2>1, ConcatProperties
  <2>3. (C \o A) \o B \o s = (C \o A) \o (B \o s)
    BY <2>2, ConcatAssociative
  <2>4. (C \o A) \o (B \o s) = C \o (A \o (B \o s))
    BY <2>1, <2>2, ConcatAssociative, SMTT(30)
  <2> QED BY <2>3, <2>4
<1> QED BY <1>1, Zenon

(* The lines of to_network() with one field and with two.                  *)
LEMMA LineOfOne ==
  ASSUME NEW S, NEW c \in S, NEW a \in S, NEW text \in Seq(S), text # << >>,
         NEW t, t = << c >> \o << a >> \o << >> \o text, NEW r, r = Tail(t)
  PROVE  t[1] = c /\ Len(t) # 1 /\ Len(r) >= 2 /\ r[1] = a /\ Tail(r) = text
<1>1. ASSUME NEW B, B = << >>
      PROVE  << c >> \o << a >> \o B \o text = << c >> \o (<< a >> \o text)
  <2>1. B \in Seq(S)
    BY <1>1, EmptySeq
  <2>2. << c >> \o << a >> \o B \o text = << c >> \o (<< a >> \o (B \o text))
    BY <2>1, WordsReassociated
  <2>3. B \o text = text
    BY <1>1, ConcatEmptySeq
  <2> QED BY <2>2, <2>3, Zenon
<1>2. << c >> \o << a >> \o << >> \o text = << c >> \o (<< a >> \o text)
  BY <1>1, Zenon
<1>4. ASSUME NEW q, q = << a >> \o text
      PROVE  t[1] = c /\ Tail(t) = q /\ Len(t) # 1 /\ Len(q) >= 2 /\ q[1] = a /\ Tail(q) = text
  <2>1. t = << c >> \o q
    BY <1>2, <1>4, Zenon
  <2>2. /\ q \in Seq(S) /\ Len(text) \in Nat /\ Len(q) = Len(text) + 1 /\ q[1] = a
        /\ Tail(q) = text
    BY <1>4, Prefixed
  <2>3. t[1] = c /\ Tail(t) = q /\ Len(t) = Len(q) + 1
    BY <2>1, <2>2, Prefixed
  <2>4. Len(text) \in Nat \ {0}
    BY EmptySeq
  <2> QED BY <2>2, <2>3, <2>4
<1> QED BY <1>4, Zenon

LEMMA LineOfTwo ==
  ASSUME NEW S, NEW c \in S, NEW a \in S, NEW b \in S, NEW text \in Seq(S), text # << >>,
         NEW t, t = << c >> \o << a >> \o << b >> \o text, NEW r, r = Tail(t)
  PROVE  /\ t[1] = c /\ Len(t) # 1 /\ Len(r) >= 3 /\ r[1] = a /\ r[2] = b
         /\ SubSeq(r, 3, Len(r)) = text
<1>1. ASSUME NEW B, B = << b >>
      PROVE  << c >> \o << a >> \o B \o text = << c >> \o (<< a >> \o (B \o text))
  <2>1. B \in Seq(S)
    BY <1>1, OneWord
  <2> QED BY <2>1, WordsReassociated
<1>2. << c >> \o << a >> \o << b >> \o text = << c >> \o (<< a >> \o (<< b >> \o text))
  BY <1>1, Zenon
<1>3. ASSUME NEW u, u = << b >> \o text, NEW q, q = << a >> \o u
      PROVE  /\ t[1] = c /\ Tail(t) = q /\ Len(t) # 1 /\ Len(q) >= 3 /\ q[1] = a /\ q[2] = b
             /\ SubSeq(q, 3, Len(q)) = text
  <2>1. t = << c >> \o q
    BY <1>2, <1>3, Zenon
  <2>2. u \in Seq(S) /\ Len(q) >= 3 /\ q[1] = a /\ q[2] = b /\ SubSeq(q, 3, Len(q)) = text
    BY <1>3, PrefixedTwice
  <2>3. q \in Seq(S) /\ Len(q) \in Nat
    BY <1>3, <2>2, Prefixed
  <2>4. t[1] = c /\ Tail(t) = q /\ Len(t) = Len(q) + 1
    BY <2>1, <2>3, Prefixed
  <2>5. Len(t) # 1
    BY <2>2, <2>3, <2>4
  <2> QED BY <2>2, <2>4, <2>5
<1> QED BY <1>3, Zenon

-----------------------------------------------------------------------------
(* Every word that the client sends.                                       *)
Words == Char \cup {Nickname, "", Code["quit"], Code["private_message"], Code["public_message"]}

(* Lines by the words they begin with.                                     *)
OneField(t, c, a, text) ==
  t[1] = c /\ Len(t) # 1 /\ Len(Tail(t)) >= 2 /\ Tail(t)[1] = a /\ Tail(Tail(t)) = text

TwoFields(t, c, a, b, text) ==
  /\ t[1] = c /\ Len(t) # 1
  /\ Len(Tail(t)) >= 3 /\ Tail(t)[1] = a /\ Tail(t)[2] = b
  /\ SubSeq(Tail(t), 3, Len(Tail(t))) = text

(* What to_network() writes, whatever the type of the message.             *)
LEMMA WritesNoField ==
  ASSUME NEW type, Code[type] \in Words, NEW b, ~Word(b), NEW text \in Seq(Words)
  PROVE  ToNetwork(Message(type, b, b, text))[1] = Code[type]
<1>1. ASSUME NEW c \in Words, c = Code[type], NEW m, m = Message(type, b, b, text),
             NEW t, t = ToNetwork(m)
      PROVE  t[1] = c
  <2>1. m.type = type /\ m.source = b /\ m.destination = b /\ m.message = text
    BY <1>1 DEF Message
  <2>2. Field(b) = << >>
    BY DEF Field
  <2>3. t = << c >> \o << >> \o << >> \o text
    BY <1>1, <2>1, <2>2, Zenon DEF ToNetwork
  <2>4. << c >> \o << >> = << c >>
    <3>1. << c >> \in Seq(Words)
      BY OneWord
    <3> QED BY <3>1, ConcatEmptySeq, Zenon
  <2>5. t = << c >> \o text
    BY <2>3, <2>4, Zenon
  <2> QED BY <2>5, Prefixed
<1> QED BY <1>1, Zenon

LEMMA WritesOneField ==
  ASSUME NEW type, Code[type] \in Words, NEW a \in Words, Word(a), NEW b, ~Word(b),
         NEW text \in Seq(Words), text # << >>
  PROVE  OneField(ToNetwork(Message(type, a, b, text)), Code[type], a, text)
<1>1. ASSUME NEW c \in Words, c = Code[type], NEW m, m = Message(type, a, b, text),
             NEW t, t = ToNetwork(m)
      PROVE  OneField(t, c, a, text)
  <2>1. m.type = type /\ m.source = a /\ m.destination = b /\ m.message = text
    BY <1>1 DEF Message
  <2>2. Field(a) = << a >> /\ Field(b) = << >>
    BY DEF Field
  <2>3. t = << c >> \o << a >> \o << >> \o text
    BY <1>1, <2>1, <2>2, Zenon DEF ToNetwork
  <2> QED BY <2>3, LineOfOne DEF OneField
<1> QED BY <1>1, Zenon

LEMMA WritesTwoFields ==
  ASSUME NEW type, Code[type] \in Words, NEW a \in Words, Word(a), NEW b \in Words, Word(b),
         NEW text \in Seq(Words), text # << >>
  PROVE  TwoFields(ToNetwork(Message(type, a, b, text)), Code[type], a, b, text)
<1>1. ASSUME NEW c \in Words, c = Code[type], NEW m, m = Message(type, a, b, text),
             NEW t, t = ToNetwork(m)
      PROVE  TwoFields(t, c, a, b, text)
  <2>1. m.type = type /\ m.source = a /\ m.destination = b /\ m.message = text
    BY <1>1 DEF Message
  <2>2. Field(a) = << a >> /\ Field(b) = << b >>
    BY DEF Field
  <2>3. t = << c >> \o << a >> \o << b >> \o text
    BY <1>1, <2>1, <2>2, Zenon DEF ToNetwork
  <2> QED BY <2>3, LineOfTwo DEF TwoFields
<1> QED BY <1>1, Zenon

(* What make_message_from_network() makes of these lines.                  *)
LEMMA ReadsQuit ==
  ASSUME NEW t, t[1] = Code["quit"]
  PROVE  FromNetwork(t).type = "quit"
BY DEF FromNetwork, Code, Info, Message

LEMMA ReadsPrivate ==
  ASSUME NEW t, NEW a, NEW b, NEW text, Word(a), Word(b),
         TwoFields(t, Code["private_message"], a, b, text)
  PROVE  FromNetwork(t) = Message("private_message", a, b, text)
BY DEF FromNetwork, Code, Word, TwoFields

LEMMA ReadsPublic ==
  ASSUME NEW t, NEW a, NEW text, Word(a), OneField(t, Code["public_message"], a, text)
  PROVE  FromNetwork(t) = Message("public_message", a, "", text)
BY DEF FromNetwork, Code, Word, OneField

LEMMA QuitIsUnderstood == FromNetwork(ToNetwork(Info("quit", Empty))).type = "quit"
<1>1. ~Word("") /\ Code["quit"] \in Words
  BY DEF Word, Words
<1>2. Empty \in Seq(Words)
  <2>1. "" \in Words
    BY DEF Words
  <2> QED BY <2>1, OneWord DEF Empty
<1>3. ToNetwork(Info("quit", Empty))[1] = Code["quit"]
  BY <1>1, <1>2, WritesNoField, Zenon DEF Info
<1> QED BY <1>3, ReadsQuit

LEMMA PrivateIsUnderstood ==
  ASSUME NEW a \in Words, Word(a), NEW b \in Words, Word(b), NEW text \in Seq(Words), text # << >>,
         NEW m, m = Message("private_message", a, b, text)
  PROVE  FromNetwork(ToNetwork(m)) = m
<1>1. Code["private_message"] \in Words
  BY DEF Words
<1>2. TwoFields(ToNetwork(m), Code["private_message"], a, b, text)
  BY <1>1, WritesTwoFields, Zenon
<1> QED BY <1>2, ReadsPrivate, Zenon

LEMMA PublicIsUnderstood ==
  ASSUME NEW a \in Words, Word(a), NEW text \in Seq(Words), text # << >>,
         NEW m, m = Message("public_message", a, "", text)
  PROVE  FromNetwork(ToNetwork(m)) = m
<1>1. Code["public_message"] \in Words /\ ~Word("")
  BY DEF Words, Word
<1>2. OneField(ToNetwork(m), Code["public_message"], a, text)
  BY <1>1, WritesOneField, Zenon
<1> QED BY <1>2, ReadsPublic, Zenon

LEMMA TextAfterTwo ==
  ASSUME NEW S, NEW text \in Seq(S), Len(text) >= 3, NEW rest, rest = SubSeq(text, 3, Len(text))
  PROVE  rest \in Seq(S) /\ rest # << >> /\ text[2] \in S
<1>1. Len(text) \in Nat /\ \A i \in 3 .. Len(text) : text[i] \in S
  BY LenProperties
<1>2. /\ rest \in Seq(S) /\ Len(rest) = IF 3 <= Len(text) THEN Len(text) - 3 + 1 ELSE 0
  <2>1. 3 \in Int /\ Len(text) \in Int
    BY <1>1
  <2> QED BY <1>1, <2>1, SubSeqProperties
<1>3. Len(rest) # 0
  BY <1>1, <1>2
<1>4. rest # << >>
  BY <1>3, EmptySeq
<1>5. text[2] \in S
  BY <1>1, LenProperties
<1> QED BY <1>2, <1>4, <1>5

-----------------------------------------------------------------------------
(* The console.                                                            *)

(* Eviction moves the entries one place down and loses the oldest.         *)
LEMMA LatestShifts ==
  ASSUME NEW f, NEW got, AreLatest(f, got), DOMAIN f \subseteq Nat \ {0}, got \subseteq Nat,
         NEW d \in {0, 1}, NEW g, DOMAIN g = {i \in Nat \ {0} : i + d \in DOMAIN f},
         \A i \in DOMAIN g : g[i] = f[i + d]
  PROVE  AreLatest(g, got)
<1>1. \A i \in DOMAIN g : i \in Nat \ {0} /\ i + d \in DOMAIN f /\ g[i] = f[i + d]
  OBVIOUS
<1>2. \A i \in DOMAIN g : g[i] \in got
  BY <1>1 DEF AreLatest
<1>3. ASSUME NEW i \in DOMAIN g, NEW j \in DOMAIN g, i < j PROVE g[i] < g[j]
  <2>1. i + d < j + d
    BY <1>1, <1>3
  <2> QED BY <1>1, <2>1 DEF AreLatest
<1>4. ASSUME NEW i \in DOMAIN g, NEW n \in got, n > g[i] PROVE \E j \in DOMAIN g : g[j] = n
  <2>1. n > f[i + d] /\ i + d \in DOMAIN f
    BY <1>1, <1>4
  <2>2. PICK k \in DOMAIN f : f[k] = n
    BY <2>1 DEF AreLatest
  <2>3. k \in Nat /\ i \in Nat \ {0} /\ i + d \in Nat /\ n \in Nat /\ f[i + d] \in Nat
    BY <1>1, <2>1 DEF AreLatest
  <2>4. k > i + d
    <3>1. k # i + d
      BY <2>1, <2>2, <2>3
    <3>2. ~(k < i + d)
      <4>1. k < i + d => f[k] < f[i + d]
        BY <2>1 DEF AreLatest
      <4> QED BY <2>1, <2>2, <2>3, <4>1
    <3> QED BY <2>3, <3>1, <3>2
  <2>5. k - d \in Nat \ {0} /\ (k - d) + d = k
    BY <2>3, <2>4
  <2>6. k - d \in DOMAIN g
    BY <2>5
  <2> QED BY <1>1, <2>2, <2>5, <2>6
<1> QED BY <1>2, <1>3, <1>4 DEF AreLatest

(* A newer line goes to the end.                                           *)
Newer(n, got) == n \in Nat /\ \A k \in got : k < n

Extends(g, f, m, n) ==
  /\ DOMAIN g = DOMAIN f \cup {m} /\ g[m] = n
  /\ \A i \in DOMAIN f : i < m /\ g[i] = f[i]

LEMMA LatestGrows ==
  ASSUME NEW f, NEW got, AreLatest(f, got), DOMAIN f \subseteq Nat, got \subseteq Nat,
         NEW n, Newer(n, got), NEW m \in Nat, NEW g, Extends(g, f, m, n)
  PROVE  AreLatest(g, got \cup {n})
<1>0. /\ n \in Nat /\ \A k \in got : k < n
      /\ DOMAIN g = DOMAIN f \cup {m} /\ g[m] = n
      /\ \A i \in DOMAIN f : i < m /\ g[i] = f[i]
  BY DEF Newer, Extends
<1>1. \A i \in DOMAIN f : i \in Nat /\ f[i] \in got /\ f[i] \in Nat /\ f[i] < n /\ g[i] = f[i] /\ i < m
  BY <1>0 DEF AreLatest
<1>2. \A i \in DOMAIN g : g[i] \in got \cup {n}
  BY <1>0, <1>1
<1>3. ASSUME NEW i \in DOMAIN g, NEW j \in DOMAIN g, i < j PROVE g[i] < g[j]
  <2>1. CASE j = m
    <3>1. i \in DOMAIN f
      BY <1>0, <1>3, <2>1
    <3> QED BY <1>0, <1>1, <2>1, <3>1
  <2>2. CASE j \in DOMAIN f
    <3>1. i \in DOMAIN f
      BY <1>0, <1>1, <1>3, <2>2
    <3> QED BY <1>0, <1>1, <1>3, <2>2, <3>1 DEF AreLatest
  <2> QED BY <1>0, <2>1, <2>2
<1>4. ASSUME NEW i \in DOMAIN g, NEW k \in got \cup {n}, k > g[i] PROVE \E j \in DOMAIN g : g[j] = k
  <2>1. CASE k = n
    BY <1>0, <2>1
  <2>2. CASE k \in got
    <3>1. i \in DOMAIN f
      BY <1>0, <1>4, <2>2
    <3>2. PICK j \in DOMAIN f : f[j] = k
      BY <1>1, <1>4, <2>2, <3>1 DEF AreLatest
    <3> QED BY <1>0, <1>1, <3>2
  <2> QED BY <1>0, <2>1, <2>2
<1> QED BY <1>2, <1>3, <1>4 DEF AreLatest

(* What push() leaves: the messages without the oldest, if there was no    *)
(* room, and the new one behind them.                                      *)
LEMMA Pushed ==
  ASSUME NEW S, lastMessages \in Seq(S), NEW e \in S, NEW q, q = Push(e)
  PROVE  \E d \in {0, 1} :
           /\ q \in Seq(S) /\ Len(lastMessages) \in Nat
           /\ Len(q) = Len(lastMessages) + 1 - d /\ Len(q) > 0
           /\ q[Len(q)] = e
           /\ \A i \in 1 .. Len(q) - 1 : i + d \in 1 .. Len(lastMessages) /\ q[i] = lastMessages[i + d]
<1>1. Len(lastMessages) \in Nat /\ MaxMessages \in Nat \ {0}
  BY ClientAssumption, LenProperties
<1>2. CASE Len(lastMessages) >= MaxMessages
  <2>1. q = Append(Tail(lastMessages), e)
    BY <1>2 DEF Push
  <2>2. lastMessages # << >>
    BY <1>1, <1>2, EmptySeq
  <2>3. /\ Tail(lastMessages) \in Seq(S) /\ Len(Tail(lastMessages)) = Len(lastMessages) - 1
        /\ \A i \in 1 .. Len(Tail(lastMessages)) : Tail(lastMessages)[i] = lastMessages[i + 1]
    BY <2>2, HeadTailProperties
  <2>4. /\ q \in Seq(S) /\ Len(q) = Len(Tail(lastMessages)) + 1
        /\ \A i \in 1 .. Len(Tail(lastMessages)) : q[i] = Tail(lastMessages)[i]
        /\ q[Len(Tail(lastMessages)) + 1] = e
    BY <2>1, <2>3, AppendProperties
  <2>5. Len(q) = Len(lastMessages) /\ q[Len(q)] = e
    BY <1>1, <2>3, <2>4
  <2>6. Len(q) > 0
    BY <1>1, <1>2, <2>5
  <2>7. ASSUME NEW i \in 1 .. Len(q) - 1
        PROVE  i + 1 \in 1 .. Len(lastMessages) /\ q[i] = lastMessages[i + 1]
    <3>1. i \in 1 .. Len(Tail(lastMessages)) /\ i + 1 \in 1 .. Len(lastMessages)
      BY <1>1, <2>3, <2>5
    <3> QED BY <2>3, <2>4, <3>1
  <2> QED BY <1>1, <2>4, <2>5, <2>6, <2>7
<1>3. CASE ~(Len(lastMessages) >= MaxMessages)
  <2>1. q = Append(lastMessages, e)
    BY <1>3 DEF Push
  <2>2. /\ q \in Seq(S) /\ Len(q) = Len(lastMessages) + 1
        /\ \A i \in 1 .. Len(lastMessages) : q[i] = lastMessages[i]
        /\ q[Len(lastMessages) + 1] = e
    BY <2>1, AppendProperties
  <2>3. Len(q) > 0 /\ q[Len(q)] = e /\ Len(q) = Len(lastMessages) + 1 - 0
    BY <1>1, <2>2
  <2>4. ASSUME NEW i \in 1 .. Len(q) - 1
        PROVE  i + 0 \in 1 .. Len(lastMessages) /\ q[i] = lastMessages[i + 0]
    BY <1>1, <2>2
  <2> QED BY <1>1, <2>2, <2>3, <2>4
<1> QED BY <1>2, <1>3

(* Which entries of a kind are then shown.                                 *)
Kept(from, d) == {i \in Nat \ {0} : i + d \in Shown(from)}

Of(s, from) == {i \in DOMAIN s : s[i].from = from}

(* Of every kind, q shows what was shown, d places further down, and e.    *)
Shifted(q, e, d) ==
  /\ d \in {0, 1}
  /\ \A from :
       /\ Of(q, from) = IF e.from = from THEN Kept(from, d) \cup {Len(q)} ELSE Kept(from, d)
       /\ \A i \in Kept(from, d) : i < Len(q) /\ q[i] = lastMessages[i + d]

LEMMA PushedOf ==
  ASSUME NEW S, lastMessages \in Seq(S), NEW e \in S, NEW q, q = Push(e)
  PROVE  /\ q \in Seq(S) /\ Len(q) \in Nat \ {0} /\ q[Len(q)] = e
         /\ \E d : Shifted(q, e, d)
<1>1. PICK d \in {0, 1} :
           /\ q \in Seq(S) /\ Len(lastMessages) \in Nat
           /\ Len(q) = Len(lastMessages) + 1 - d /\ Len(q) > 0
           /\ q[Len(q)] = e
           /\ \A i \in 1 .. Len(q) - 1 : i + d \in 1 .. Len(lastMessages) /\ q[i] = lastMessages[i + d]
  BY Pushed
<1>2. Len(q) \in Nat \ {0} /\ DOMAIN q = 1 .. Len(q) /\ DOMAIN lastMessages = 1 .. Len(lastMessages)
  BY <1>1, LenProperties
<1>3. ASSUME NEW from, NEW kept, kept = Kept(from, d)
      PROVE  /\ Of(q, from) = IF e.from = from THEN kept \cup {Len(q)} ELSE kept
             /\ \A i \in kept : i < Len(q) /\ q[i] = lastMessages[i + d]
  <2>1. \A i \in kept : i \in 1 .. Len(q) - 1 /\ lastMessages[i + d].from = from
    BY <1>1, <1>2, <1>3 DEF Shown, Kept
  <2>2. \A i \in kept : i < Len(q) /\ q[i] = lastMessages[i + d] /\ i \in DOMAIN q /\ q[i].from = from
    BY <1>1, <1>2, <2>1
  <2>3. ASSUME NEW i \in Of(q, from), i # Len(q) PROVE i \in kept
    <3>1. i \in 1 .. Len(q) - 1 /\ q[i].from = from
      BY <1>2, <2>3 DEF Of
    <3>2. i + d \in 1 .. Len(lastMessages) /\ lastMessages[i + d].from = from
      BY <1>1, <3>1
    <3> QED BY <1>2, <1>3, <3>1, <3>2 DEF Shown, Kept
  <2>4. Len(q) \in Of(q, from) <=> e.from = from
    BY <1>1, <1>2 DEF Of
  <2>5. \A i \in kept : i \in Of(q, from)
    BY <2>2 DEF Of
  <2>6. Of(q, from) = IF e.from = from THEN kept \cup {Len(q)} ELSE kept
    <3> HIDE DEF Of
    <3>1. CASE e.from = from
      BY <2>3, <2>4, <2>5, <3>1
    <3>2. CASE e.from # from
      <4>1. \A i \in Of(q, from) : i \in kept
        BY <2>3, <2>4, <3>2
      <4> QED BY <2>5, <3>2, <4>1
    <3> QED BY <3>1, <3>2
  <2> QED BY <2>2, <2>6
<1>4. \A from :
        /\ Of(q, from) = IF e.from = from THEN Kept(from, d) \cup {Len(q)} ELSE Kept(from, d)
        /\ \A i \in Kept(from, d) : i < Len(q) /\ q[i] = lastMessages[i + d]
  BY <1>3, Zenon
<1>5. Shifted(q, e, d)
  BY <1>4 DEF Shifted
<1> QED BY <1>1, <1>2, <1>5

(* The two invariants, of a console s, a number n of lines recorded and a  *)
(* sequence o of lines sent.                                               *)
Received(n) == {k \in 1 .. n : ~EndsLogin(k)}

Server == "server"

Lines(s) == [i \in Of(s, Server) |-> s[i].what]

Mine == "me"

IsQuit(m) == m.type = "quit"

SaidIn(o) == {n \in DOMAIN o : ~IsQuit(FromNetwork(o[n]))}

Matches(f, s, o) ==
  /\ f \in [Of(s, Mine) -> SaidIn(o)]
  /\ AreLatest(f, SaidIn(o))
  /\ \A i \in Of(s, Mine) : s[i].what = FromNetwork(o[f[i]])

OnScreen(f, from, got) == DOMAIN f = Shown(from) /\ got \subseteq Nat /\ AreLatest(f, got)

(* A message that is not of a kind only moves the entries of that kind.    *)
LEMMA OthersShift ==
  ASSUME NEW S, lastMessages \in Seq(S), NEW e, NEW q, NEW d, Shifted(q, e, d),
         NEW from, e.from # from,
         NEW f, NEW got, OnScreen(f, from, got),
         NEW g, g = [i \in Of(q, from) |-> f[i + d]]
  PROVE  /\ \A i \in Of(q, from) : i + d \in Shown(from) /\ q[i] = lastMessages[i + d]
         /\ AreLatest(g, got)
<1>1. /\ d \in {0, 1}
      /\ Of(q, from) = IF e.from = from THEN Kept(from, d) \cup {Len(q)} ELSE Kept(from, d)
      /\ \A i \in Kept(from, d) : i < Len(q) /\ q[i] = lastMessages[i + d]
  BY Zenon DEF Shifted
<1>2. Of(q, from) = Kept(from, d)
  BY <1>1
<1>3. \A i \in Of(q, from) : i + d \in Shown(from) /\ q[i] = lastMessages[i + d]
  BY <1>1, <1>2 DEF Kept
<1>4. Shown(from) \subseteq Nat \ {0}
  BY LenProperties DEF Shown
<1>5. DOMAIN g = {i \in Nat \ {0} : i + d \in DOMAIN f} /\ \A i \in DOMAIN g : g[i] = f[i + d]
  BY <1>2 DEF Kept, OnScreen
<1>6. AreLatest(g, got)
  BY <1>1, <1>4, <1>5, LatestShifts DEF OnScreen
<1> QED BY <1>3, <1>6

(* One of the kind comes behind them.                                      *)
Follow(f, n, q, from, d) == [i \in Of(q, from) |-> IF i = Len(q) THEN n ELSE f[i + d]]

LEMMA OneFollows ==
  ASSUME NEW e, NEW q, NEW d, Shifted(q, e, d), NEW from, e.from = from
  PROVE  /\ Len(q) \in Of(q, from)
         /\ \A i \in Of(q, from) : i # Len(q) => i + d \in Shown(from) /\ q[i] = lastMessages[i + d]
<1>1. /\ Of(q, from) = IF e.from = from THEN Kept(from, d) \cup {Len(q)} ELSE Kept(from, d)
      /\ \A i \in Kept(from, d) : i < Len(q) /\ q[i] = lastMessages[i + d]
  BY Zenon DEF Shifted
<1>2. Of(q, from) = Kept(from, d) \cup {Len(q)}
  BY <1>1
<1> QED BY <1>1, <1>2 DEF Kept

LEMMA FollowersAreLatest ==
  ASSUME NEW S, lastMessages \in Seq(S), NEW e, NEW q, NEW m \in Nat, m = Len(q),
         NEW d, Shifted(q, e, d), NEW from, e.from = from,
         NEW f, NEW got, OnScreen(f, from, got), NEW n, Newer(n, got),
         NEW h, h = Follow(f, n, q, from, d)
  PROVE  AreLatest(h, got \cup {n})
<1>1. /\ d \in {0, 1}
      /\ Of(q, from) = IF e.from = from THEN Kept(from, d) \cup {Len(q)} ELSE Kept(from, d)
      /\ \A i \in Kept(from, d) : i < Len(q) /\ q[i] = lastMessages[i + d]
  BY Zenon DEF Shifted
<1>2. Of(q, from) = Kept(from, d) \cup {m}
  BY <1>1
<1>3. Shown(from) \subseteq Nat \ {0}
  BY LenProperties DEF Shown
<1>4. \A i \in Kept(from, d) : i \in Nat /\ i < m /\ i # m
  BY <1>1 DEF Kept
<1>5. DOMAIN h = Kept(from, d) \cup {m} /\ h[m] = n /\ \A i \in Kept(from, d) : h[i] = f[i + d]
  BY <1>2, <1>4 DEF Follow
<1>6. got \subseteq Nat
  BY DEF OnScreen
<1> DEFINE g == [i \in Kept(from, d) |-> f[i + d]]
<1>7. DOMAIN g = {i \in Nat \ {0} : i + d \in DOMAIN f} /\ \A i \in DOMAIN g : g[i] = f[i + d]
  BY DEF Kept, OnScreen
<1>8. DOMAIN g = Kept(from, d)
  OBVIOUS
<1> HIDE DEF g
<1>9. AreLatest(g, got)
  BY <1>1, <1>3, <1>7, LatestShifts DEF OnScreen
<1>10. \A i \in DOMAIN g : i < m /\ h[i] = g[i]
  BY <1>4, <1>5, <1>7, <1>8
<1>11. DOMAIN g \subseteq Nat
  BY <1>4, <1>8
<1>12. Extends(h, g, m, n)
  BY <1>5, <1>8, <1>10 DEF Extends
<1> QED BY <1>6, <1>9, <1>11, <1>12, LatestGrows

(* A message that is composed is what is understood of the line it is sent *)
(* as, and a quit is understood as one.                                    *)
Sendable == {FromCommand(Nickname, text) : text \in Seq(Words) \ {<< >>}}

LEMMA SendableIsUnderstood ==
  ASSUME NEW m \in Sendable
  PROVE  IF IsQuit(m) THEN IsQuit(FromNetwork(ToNetwork(m)))
         ELSE FromNetwork(ToNetwork(m)) = m
<1>1. PICK text \in Seq(Words) : text # << >> /\ m = FromCommand(Nickname, text)
  BY DEF Sendable
<1>2. Nickname \in Words /\ Word(Nickname)
  BY ClientAssumption DEF Words
<1>3. CASE text = << "/quit" >>
  <2>1. m = Info("quit", Empty)
    BY <1>1, <1>3 DEF FromCommand
  <2>2. IsQuit(m)
    BY <2>1 DEF IsQuit, Info, Message
  <2> QED BY <2>1, <2>2, QuitIsUnderstood, Zenon DEF IsQuit
<1>4. CASE text # << "/quit" >> /\ Len(text) >= 3 /\ text[1] = "/private" /\ Word(text[2])
  <2> DEFINE rest == SubSeq(text, 3, Len(text))
  <2>1. m = Message("private_message", Nickname, text[2], rest)
    BY <1>1, <1>4 DEF FromCommand
  <2>2. ~IsQuit(m)
    BY <2>1 DEF IsQuit, Message
  <2>3. rest \in Seq(Words) /\ rest # << >> /\ text[2] \in Words
    BY <1>1, <1>4, TextAfterTwo
  <2> HIDE DEF rest
  <2>4. FromNetwork(ToNetwork(m)) = m
    BY <1>2, <1>4, <2>1, <2>3, PrivateIsUnderstood, Zenon
  <2> QED BY <2>2, <2>4
<1>5. CASE text # << "/quit" >> /\ ~(Len(text) >= 3 /\ text[1] = "/private" /\ Word(text[2]))
  <2>1. m = Message("public_message", Nickname, "", text)
    BY <1>1, <1>5 DEF FromCommand
  <2>2. ~IsQuit(m)
    BY <2>1 DEF IsQuit, Message
  <2>3. FromNetwork(ToNetwork(m)) = m
    BY <1>1, <1>2, <2>1, PublicIsUnderstood, Zenon
  <2> QED BY <2>2, <2>3
<1> QED BY <1>3, <1>4, <1>5

(* Two steps of the matching of own messages.                              *)
Grown(o, n, line) ==
  /\ n \in Nat /\ o[n] = line
  /\ SaidIn(o) = SaidIn(outbox) \cup {n}
  /\ \A k \in SaidIn(outbox) : k \in Nat /\ k < n /\ o[k] = outbox[k]

LEMMA SaidGrows ==
  ASSUME NEW L, outbox \in Seq(L), NEW line \in L, NEW o, o = Append(outbox, line),
         ~IsQuit(FromNetwork(line)), NEW n, n = Len(outbox) + 1
  PROVE  Grown(o, n, line)
<1>1. /\ Len(o) = Len(outbox) + 1 /\ o \in Seq(L)
      /\ \A k \in 1 .. Len(outbox) : o[k] = outbox[k]
      /\ o[n] = line
  BY AppendProperties
<1>2. Len(outbox) \in Nat /\ DOMAIN outbox = 1 .. Len(outbox) /\ DOMAIN o = 1 .. Len(o)
  BY <1>1, LenProperties
<1>3. \A k \in SaidIn(outbox) : k \in Nat /\ k < n /\ o[k] = outbox[k]
  BY <1>1, <1>2 DEF SaidIn
<1>4. ASSUME NEW k \in SaidIn(o), k # n PROVE k \in SaidIn(outbox)
  <2>1. k \in 1 .. Len(outbox) /\ o[k] = outbox[k] /\ ~IsQuit(FromNetwork(o[k]))
    BY <1>1, <1>2, <1>4 DEF SaidIn
  <2> QED BY <1>2, <2>1 DEF SaidIn
<1>5. \A k \in SaidIn(outbox) : k \in SaidIn(o)
  BY <1>1, <1>2 DEF SaidIn
<1>6. n \in SaidIn(o)
  BY <1>1, <1>2 DEF SaidIn
<1>7. SaidIn(o) = SaidIn(outbox) \cup {n}
  BY <1>4, <1>5, <1>6
<1>8. n \in Nat
  BY <1>2
<1>9. o[n] = line
  BY <1>1
<1> QED BY <1>3, <1>7, <1>8, <1>9, Zenon DEF Grown

LEMMA SaidStays ==
  ASSUME NEW L, outbox \in Seq(L), NEW line \in L, NEW o, o = Append(outbox, line),
         IsQuit(FromNetwork(line))
  PROVE  SaidIn(o) = SaidIn(outbox) /\ \A k \in SaidIn(outbox) : o[k] = outbox[k]
<1>1. /\ Len(o) = Len(outbox) + 1 /\ o \in Seq(L)
      /\ \A k \in 1 .. Len(outbox) : o[k] = outbox[k]
      /\ o[Len(outbox) + 1] = line
  BY AppendProperties
<1>2. Len(outbox) \in Nat /\ DOMAIN outbox = 1 .. Len(outbox) /\ DOMAIN o = 1 .. Len(o)
  BY <1>1, LenProperties
<1>3. \A k \in SaidIn(outbox) : k \in SaidIn(o) /\ o[k] = outbox[k]
  BY <1>1, <1>2 DEF SaidIn
<1>4. \A k \in SaidIn(o) : k \in SaidIn(outbox)
  BY <1>1, <1>2 DEF SaidIn
<1> QED BY <1>3, <1>4

LEMMA MatchingShifts ==
  ASSUME NEW S, lastMessages \in Seq(S), NEW e \in S, NEW q, q = Push(e), e.from # Mine,
         NEW L, outbox \in Seq(L), NEW f, Matches(f, lastMessages, outbox)
  PROVE  \E g : Matches(g, q, outbox)
<1>1. /\ f \in [Shown(Mine) -> SaidIn(outbox)] /\ AreLatest(f, SaidIn(outbox))
      /\ \A i \in Shown(Mine) : lastMessages[i].what = FromNetwork(outbox[f[i]])
  BY DEF Matches, Shown, Of
<1>2. SaidIn(outbox) \subseteq Nat
  BY LenProperties DEF SaidIn
<1>3. PICK d : Shifted(q, e, d)
  BY PushedOf
<1>4. ASSUME NEW g, g = [i \in Of(q, Mine) |-> f[i + d]] PROVE Matches(g, q, outbox)
  <2>1. /\ \A i \in Of(q, Mine) : i + d \in Shown(Mine) /\ q[i] = lastMessages[i + d]
        /\ AreLatest(g, SaidIn(outbox))
    <3>1. OnScreen(f, Mine, SaidIn(outbox))
      BY <1>1, <1>2 DEF OnScreen
    <3> QED BY <1>3, <1>4, <3>1, OthersShift
  <2>2. \A i \in Of(q, Mine) : g[i] = f[i + d] /\ f[i + d] \in SaidIn(outbox)
    BY <1>1, <1>4, <2>1
  <2>3. g \in [Of(q, Mine) -> SaidIn(outbox)]
    BY <1>4, <2>2
  <2>4. \A i \in Of(q, Mine) : q[i].what = FromNetwork(outbox[g[i]])
    BY <1>1, <2>1, <2>2
  <2> QED BY <2>1, <2>3, <2>4 DEF Matches
<1> QED BY <1>4

LEMMA MatchingGrows ==
  ASSUME NEW S, lastMessages \in Seq(S), NEW e \in S, NEW q, q = Push(e), e.from = Mine,
         NEW line, NEW n, NEW o, Grown(o, n, line),
         FromNetwork(line) = e.what,
         NEW f, Matches(f, lastMessages, outbox)
  PROVE  \E g : Matches(g, q, o)
<1>1. /\ f \in [Shown(Mine) -> SaidIn(outbox)] /\ AreLatest(f, SaidIn(outbox))
      /\ \A i \in Shown(Mine) : lastMessages[i].what = FromNetwork(outbox[f[i]])
  BY DEF Matches, Shown, Of
<1>2. /\ n \in Nat /\ SaidIn(o) = SaidIn(outbox) \cup {n} /\ o[n] = line
      /\ \A k \in SaidIn(outbox) : k \in Nat /\ k < n /\ o[k] = outbox[k]
  BY DEF Grown
<1>3. Len(q) \in Nat \ {0}
  BY PushedOf
<1>6. q[Len(q)] = e
  BY PushedOf
<1>4. PICK d : Shifted(q, e, d)
  BY PushedOf
<1>5. ASSUME NEW g, g = Follow(f, n, q, Mine, d)
      PROVE  Matches(g, q, o)
  <2>1. OnScreen(f, Mine, SaidIn(outbox)) /\ Newer(n, SaidIn(outbox))
    BY <1>1, <1>2 DEF OnScreen, Newer
  <2>2. /\ Len(q) \in Of(q, Mine)
        /\ \A i \in Of(q, Mine) : i # Len(q) => i + d \in Shown(Mine) /\ q[i] = lastMessages[i + d]
    BY <1>4, OneFollows
  <2>7. AreLatest(g, SaidIn(outbox) \cup {n})
    BY <1>3, <1>4, <1>5, <2>1, FollowersAreLatest
  <2>3. \A i \in Of(q, Mine) : i # Len(q) => g[i] = f[i + d] /\ f[i + d] \in SaidIn(outbox)
    BY <1>1, <1>5, <2>2 DEF Follow
  <2>4. g[Len(q)] = n
    BY <1>5, <2>2 DEF Follow
  <2>5. g \in [Of(q, Mine) -> SaidIn(o)]
    BY <1>2, <1>5, <2>3, <2>4 DEF Follow
  <2>6. ASSUME NEW i \in Of(q, Mine) PROVE q[i].what = FromNetwork(o[g[i]])
    <3>1. CASE i = Len(q)
      BY <1>2, <1>6, <2>4, <3>1
    <3>2. CASE i # Len(q)
      <4>1. q[i] = lastMessages[i + d] /\ i + d \in Shown(Mine)
        BY <2>2, <3>2
      <4>2. lastMessages[i + d].what = FromNetwork(outbox[f[i + d]])
        BY <1>1, <4>1
      <4>3. g[i] = f[i + d] /\ o[f[i + d]] = outbox[f[i + d]]
        BY <1>2, <2>3, <3>2
      <4> QED BY <4>1, <4>2, <4>3
    <3> QED BY <3>1, <3>2
  <2> QED BY <1>2, <2>5, <2>6, <2>7 DEF Matches
<1> QED BY <1>5

-----------------------------------------------------------------------------
LEMMA LinesShift ==
  ASSUME NEW S, lastMessages \in Seq(S), NEW e \in S, NEW q, q = Push(e), e.from # Server,
         NEW got, got \subseteq Nat, AreLatest(Lines(lastMessages), got)
  PROVE  AreLatest(Lines(q), got)
<1>1. PICK d : Shifted(q, e, d)
  BY PushedOf
<1> DEFINE f == Lines(lastMessages)
           g == [i \in Of(q, Server) |-> f[i + d]]
<1>2. DOMAIN f = Shown(Server) /\ \A i \in Shown(Server) : f[i] = lastMessages[i].what
  BY DEF Lines, Shown, Of
<1>3. OnScreen(f, Server, got)
  BY <1>2 DEF OnScreen
<1> HIDE DEF f
<1>4. /\ \A i \in Of(q, Server) : i + d \in Shown(Server) /\ q[i] = lastMessages[i + d]
      /\ AreLatest(g, got)
  BY <1>1, <1>3, OthersShift
<1>5. \A i \in Of(q, Server) : f[i + d] = q[i].what
  BY <1>2, <1>4
<1>6. g = Lines(q)
  BY <1>5 DEF Lines
<1> QED BY <1>4, <1>6

LEMMA LinesGrow ==
  ASSUME NEW S, lastMessages \in Seq(S), NEW e \in S, NEW q, q = Push(e), e.from = Server,
         NEW got, got \subseteq Nat, AreLatest(Lines(lastMessages), got),
         NEW n, n = e.what, Newer(n, got)
  PROVE  AreLatest(Lines(q), got \cup {n})
<1>1. PICK d : Shifted(q, e, d)
  BY PushedOf
<1>2. PICK m \in Nat : m = Len(q)
  BY PushedOf
<1>3. q[Len(q)] = e
  BY PushedOf
<1> DEFINE f == Lines(lastMessages)
           h == Follow(f, n, q, Server, d)
<1>4. DOMAIN f = Shown(Server) /\ \A i \in Shown(Server) : f[i] = lastMessages[i].what
  BY DEF Lines, Shown, Of
<1>5. OnScreen(f, Server, got)
  BY <1>4 DEF OnScreen
<1> HIDE DEF f
<1>6. AreLatest(h, got \cup {n})
  BY <1>1, <1>2, <1>5, FollowersAreLatest
<1>7. \A i \in Of(q, Server) : i # Len(q) => i + d \in Shown(Server) /\ q[i] = lastMessages[i + d]
  BY <1>1, OneFollows
<1>8. \A i \in Of(q, Server) : q[i].what = IF i = Len(q) THEN n ELSE f[i + d]
  BY <1>3, <1>4, <1>7
<1>9. h = Lines(q)
  BY <1>8 DEF Lines, Follow
<1> QED BY <1>6, <1>9

-----------------------------------------------------------------------------
(* What the console and the connection hold.                               *)
Entry ==
  {FromServer(n) : n \in Nat} \cup {Own(m) : m \in Sendable} \cup {Disconnected}

SentLine == {ToNetwork(m) : m \in Sendable}

TextInv ==
  /\ command \in Seq(Words)
  /\ lastMessages \in Seq(Entry) /\ outbox \in Seq(SentLine)

(* The mark of the end of the login has been received when the threads     *)
(* start, and not before; a line that the receiver has read is counted in  *)
(* taken.                                                                  *)
Mark == "done_last_messages"

TakenInv ==
  /\ taken \in Nat
  /\ receiver = "line" => taken > 0
  /\ main = "login" => receiver = "receiving" /\ \A k \in 1 .. taken : script[k] # Mark
  /\ main = "chat" => \E k \in 1 .. Recorded : script[k] = Mark

OrderInv == AreLatest(Lines(lastMessages), Received(Recorded))

MatchInv == \E f : Matches(f, lastMessages, outbox)

ShowInv == TextInv /\ TakenInv /\ OrderInv /\ MatchInv

LEMMA ShowsWhatIsMeant == OrderInv /\ MatchInv => ServerLinesInOrder /\ ShownAsSent
<1>1. OrderInv => ServerLinesInOrder
  BY DEF OrderInv, ServerLinesInOrder, Lines, Of, Shown, Received, Server
<1>2. MatchInv => ShownAsSent
  BY DEF MatchInv, Matches, ShownAsSent, Of, Shown, SaidIn, Said, Mine, IsQuit
<1> QED BY <1>1, <1>2

(* Kinds of entries.                                                       *)
LEMMA Kinds ==
  /\ \A n \in Nat : FromServer(n) \in Entry /\ FromServer(n).what = n
       /\ FromServer(n).from = Server /\ FromServer(n).from # Mine
  /\ \A m \in Sendable : Own(m) \in Entry /\ Own(m).what = m
       /\ Own(m).from = Mine /\ Own(m).from # Server
  /\ Disconnected \in Entry /\ Disconnected.from # Mine /\ Disconnected.from # Server
<1>1. ASSUME NEW n \in Nat
      PROVE  FromServer(n) \in Entry /\ FromServer(n).what = n
             /\ FromServer(n).from = Server /\ FromServer(n).from # Mine
  <2>1. FromServer(n) \in Entry
    BY DEF Entry
  <2> QED BY <2>1 DEF FromServer, Server, Mine
<1>2. ASSUME NEW m \in Sendable
      PROVE  Own(m) \in Entry /\ Own(m).what = m /\ Own(m).from = Mine /\ Own(m).from # Server
  <2>1. Own(m) \in Entry
    BY DEF Entry
  <2> QED BY <2>1 DEF Own, Server, Mine
<1>3. Disconnected \in Entry /\ Disconnected.from # Mine /\ Disconnected.from # Server
  <2>1. Disconnected \in Entry
    BY DEF Entry
  <2> QED BY <2>1 DEF Disconnected, Server, Mine
<1> QED BY <1>1, <1>2, <1>3

LEMMA ComposedIsSendable ==
  ASSUME command \in Seq(Words)
  PROVE  Composed \in Sendable
<1>1. Empty \in Seq(Words) /\ Empty # << >>
  <2>1. "" \in Words
    BY DEF Words
  <2> QED BY <2>1, OneWord, EmptySeq DEF Empty
<1> DEFINE text == IF command = << >> THEN Empty ELSE command
<1>2. text \in Seq(Words) \ {<< >>}
  BY <1>1
<1> QED BY <1>2 DEF Composed, Sendable

LEMMA ReceivedGrows ==
  ASSUME NEW n \in Nat, ~EndsLogin(n + 1)
  PROVE  /\ Received(n + 1) = Received(n) \cup {n + 1} /\ Newer(n + 1, Received(n))
         /\ Received(n) \subseteq Nat
<1>1. \A k : k \in 1 .. n + 1 <=> k \in 1 .. n \/ k = n + 1
  OBVIOUS
<1>2. Received(n + 1) = Received(n) \cup {n + 1}
  BY <1>1 DEF Received
<1>3. \A k \in Received(n) : k \in Nat /\ k < n + 1
  BY DEF Received
<1> QED BY <1>2, <1>3 DEF Newer

LEMMA ReceivedStays ==
  ASSUME NEW n \in Nat, EndsLogin(n + 1)
  PROVE  Received(n + 1) = Received(n)
<1>1. \A k : k \in 1 .. n + 1 <=> k \in 1 .. n \/ k = n + 1
  OBVIOUS
<1> QED BY <1>1 DEF Received

(* The steps of the two orders, from what a step adds.                     *)
LEMMA ServerShows ==
  ASSUME ShowInv, script' = script, outbox' = outbox, command' = command,
         NEW n \in Nat, Recorded = n, Recorded' = n + 1, ~EndsLogin(n + 1),
         lastMessages' = Push(FromServer(n + 1)), TakenInv'
  PROVE  ShowInv'
<1> DEFINE q == lastMessages'
           e == FromServer(n + 1)
<1>1. e \in Entry /\ e.what = n + 1 /\ e.from = Server /\ e.from # Mine
  <2>1. n + 1 \in Nat
    OBVIOUS
  <2> QED BY <2>1, Kinds, Zenon
<1> HIDE DEF e
<1>2. lastMessages \in Seq(Entry) /\ q = Push(e)
  BY DEF ShowInv, TextInv, e
<1> HIDE DEF q
<1>3. q \in Seq(Entry)
  BY <1>1, <1>2, PushedOf
<1>4. AreLatest(Lines(q), Received(n + 1))
  <2>1. /\ Received(n + 1) = Received(n) \cup {n + 1} /\ Newer(n + 1, Received(n))
        /\ Received(n) \subseteq Nat
    BY ReceivedGrows
  <2>2. AreLatest(Lines(lastMessages), Received(n))
    BY DEF ShowInv, OrderInv
  <2> QED BY <1>1, <1>2, <2>1, <2>2, LinesGrow
<1>5. OrderInv'
  BY <1>4 DEF OrderInv, Received, EndsLogin, q
<1>6. MatchInv'
  <2>1. PICK f : Matches(f, lastMessages, outbox)
    BY DEF ShowInv, MatchInv
  <2>2. outbox \in Seq(SentLine)
    BY DEF ShowInv, TextInv
  <2>3. \E g : Matches(g, q, outbox)
    BY <1>1, <1>2, <2>1, <2>2, MatchingShifts
  <2> QED BY <2>3 DEF MatchInv, q
<1>7. TextInv'
  BY <1>3 DEF ShowInv, TextInv, q
<1> QED BY <1>5, <1>6, <1>7 DEF ShowInv

LEMMA ClientShows ==
  ASSUME ShowInv, script' = script, outbox' = outbox, command' = command,
         Recorded' = Recorded, lastMessages' = Push(Disconnected), TakenInv'
  PROVE  ShowInv'
<1> DEFINE q == lastMessages'
<1>1. Disconnected \in Entry /\ Disconnected.from # Mine /\ Disconnected.from # Server
  BY Kinds
<1>2. lastMessages \in Seq(Entry) /\ q = Push(Disconnected)
  BY DEF ShowInv, TextInv
<1> HIDE DEF q
<1>3. q \in Seq(Entry)
  BY <1>1, <1>2, PushedOf
<1>4. AreLatest(Lines(q), Received(Recorded))
  <2>1. AreLatest(Lines(lastMessages), Received(Recorded)) /\ Received(Recorded) \subseteq Nat
    BY DEF ShowInv, OrderInv, Received
  <2> QED BY <1>1, <1>2, <2>1, LinesShift
<1>5. OrderInv'
  BY <1>4 DEF OrderInv, Received, EndsLogin, q
<1>6. MatchInv'
  <2>1. PICK f : Matches(f, lastMessages, outbox)
    BY DEF ShowInv, MatchInv
  <2>2. outbox \in Seq(SentLine)
    BY DEF ShowInv, TextInv
  <2>3. \E g : Matches(g, q, outbox)
    BY <1>1, <1>2, <2>1, <2>2, MatchingShifts
  <2> QED BY <2>3 DEF MatchInv, q
<1>7. TextInv'
  BY <1>3 DEF ShowInv, TextInv, q
<1> QED BY <1>5, <1>6, <1>7 DEF ShowInv

LEMMA NothingShows ==
  ASSUME ShowInv, script' = script, outbox' = outbox, command' \in Seq(Words),
         Received(Recorded') = Received(Recorded), lastMessages' = lastMessages, TakenInv'
  PROVE  ShowInv'
<1>1. OrderInv'
  <2>1. AreLatest(Lines(lastMessages'), Received(Recorded'))
    BY DEF ShowInv, OrderInv
  <2> QED BY <2>1 DEF OrderInv, Received, EndsLogin
<1>2. MatchInv'
  BY DEF ShowInv, MatchInv
<1>3. TextInv'
  BY DEF ShowInv, TextInv
<1> QED BY <1>1, <1>2, <1>3 DEF ShowInv

LEMMA QuitShows ==
  ASSUME ShowInv, script' = script, command' = << >>, Recorded' = Recorded,
         lastMessages' = lastMessages, TakenInv',
         outbox' = Append(outbox, ToNetwork(Composed)), IsQuit(Composed)
  PROVE  ShowInv'
<1> DEFINE o == outbox'
           line == ToNetwork(Composed)
<1>1. outbox \in Seq(SentLine) /\ o = Append(outbox, line) /\ command' \in Seq(Words)
  BY EmptySeq DEF ShowInv, TextInv
<1>2. line \in SentLine /\ IsQuit(FromNetwork(line))
  BY ComposedIsSendable, SendableIsUnderstood DEF SentLine, ShowInv, TextInv
<1> HIDE DEF o, line
<1>3. o \in Seq(SentLine)
  BY <1>1, <1>2, AppendProperties
<1>4. SaidIn(o) = SaidIn(outbox) /\ \A k \in SaidIn(outbox) : o[k] = outbox[k]
  BY <1>1, <1>2, SaidStays
<1>5. MatchInv'
  <2>1. PICK f : Matches(f, lastMessages, outbox)
    BY DEF ShowInv, MatchInv
  <2>2. Matches(f, lastMessages, o)
    <3>1. /\ f \in [Of(lastMessages, Mine) -> SaidIn(outbox)] /\ AreLatest(f, SaidIn(outbox))
          /\ \A i \in Of(lastMessages, Mine) : lastMessages[i].what = FromNetwork(outbox[f[i]])
      BY <2>1 DEF Matches
    <3>2. \A i \in Of(lastMessages, Mine) : o[f[i]] = outbox[f[i]]
      BY <1>4, <3>1
    <3> QED BY <1>4, <3>1, <3>2 DEF Matches
  <2> QED BY <2>2 DEF MatchInv, o
<1>6. OrderInv'
  <2>1. AreLatest(Lines(lastMessages'), Received(Recorded'))
    BY DEF ShowInv, OrderInv
  <2> QED BY <2>1 DEF OrderInv, Received, EndsLogin
<1>7. TextInv'
  BY <1>1, <1>3 DEF ShowInv, TextInv, o
<1> QED BY <1>5, <1>6, <1>7 DEF ShowInv

LEMMA UserShows ==
  ASSUME ShowInv, script' = script, command' = << >>, Recorded' = Recorded,
         lastMessages' = Push(Own(Composed)), TakenInv',
         outbox' = Append(outbox, ToNetwork(Composed)), ~IsQuit(Composed)
  PROVE  ShowInv'
<1> DEFINE o == outbox'
           line == ToNetwork(Composed)
           q == lastMessages'
           e == Own(Composed)
<1>0. Composed \in Sendable
  BY ComposedIsSendable DEF ShowInv, TextInv
<1>1. outbox \in Seq(SentLine) /\ o = Append(outbox, line) /\ command' \in Seq(Words)
  BY EmptySeq DEF ShowInv, TextInv
<1>2. line \in SentLine /\ FromNetwork(line) = Composed /\ ~IsQuit(FromNetwork(line))
  BY <1>0, SendableIsUnderstood DEF SentLine
<1>3. e \in Entry /\ e.what = Composed /\ e.from = Mine /\ e.from # Server
  BY <1>0, Kinds, Zenon
<1>4. lastMessages \in Seq(Entry) /\ q = Push(e)
  BY DEF ShowInv, TextInv
<1> HIDE DEF o, line, q, e
<1>5. o \in Seq(SentLine)
  BY <1>1, <1>2, AppendProperties
<1>6. q \in Seq(Entry)
  BY <1>3, <1>4, PushedOf
<1>7. OrderInv'
  <2>1. AreLatest(Lines(lastMessages), Received(Recorded)) /\ Received(Recorded) \subseteq Nat
    BY DEF ShowInv, OrderInv, Received
  <2>2. AreLatest(Lines(q), Received(Recorded))
    BY <1>3, <1>4, <2>1, LinesShift
  <2> QED BY <2>2 DEF OrderInv, Received, EndsLogin, q
<1>8. MatchInv'
  <2>1. PICK f : Matches(f, lastMessages, outbox)
    BY DEF ShowInv, MatchInv
  <2>2. PICK n : n = Len(outbox) + 1
    OBVIOUS
  <2>3. Grown(o, n, line)
    BY <1>1, <1>2, <2>2, SaidGrows
  <2>4. \E g : Matches(g, q, o)
    BY <1>2, <1>3, <1>4, <2>1, <2>3, MatchingGrows
  <2> QED BY <2>4 DEF MatchInv, o, q
<1>9. TextInv'
  BY <1>1, <1>5, <1>6 DEF ShowInv, TextInv, o, q
<1> QED BY <1>7, <1>8, <1>9 DEF ShowInv

(* The login ends at the first mark.                                       *)
LEMMA LoginShows == ASSUME ShowInv, LoginPushes \/ LoginDone PROVE ShowInv'
<1> USE DEF ShowInv
<1>1. /\ main = "login" /\ receiver = "receiving" /\ receiver' = receiver
      /\ taken \in Nat /\ taken' = taken + 1
      /\ script' = script /\ outbox' = outbox /\ command' = command
      /\ \A k \in 1 .. taken : script[k] # Mark
  BY DEF LoginPushes, LoginDone, TakenInv, threads, server
<1>2. Recorded = taken /\ Recorded' = taken + 1
  BY <1>1 DEF Recorded
<1>3. \A k \in 1 .. taken + 1 : k \in 1 .. taken \/ k = taken + 1
  BY <1>1
<1>4. CASE LoginPushes
  <2>1. script[taken + 1] # Mark /\ main' = "login" /\ lastMessages' = Push(FromServer(taken + 1))
    BY <1>1, <1>4 DEF LoginPushes, Greeting, Mark
  <2>2. ~EndsLogin(taken + 1)
    BY <2>1 DEF EndsLogin, Mark
  <2>3. \A k \in 1 .. taken' : script'[k] # Mark
    BY <1>1, <1>3, <2>1
  <2>4. TakenInv'
    BY <1>1, <2>1, <2>3 DEF TakenInv
  <2> QED BY <1>1, <1>2, <2>1, <2>2, <2>4, ServerShows
<1>5. CASE LoginDone
  <2>1. script[taken + 1] = Mark /\ main' = "chat" /\ lastMessages' = lastMessages
    BY <1>5 DEF LoginDone, LoginEnd, Mark
  <2>2. EndsLogin(taken + 1)
    <3>1. (taken + 1) - 1 = taken
      BY <1>1
    <3> QED BY <1>1, <2>1, <3>1 DEF EndsLogin, Mark
  <2>3. Received(Recorded') = Received(Recorded)
    BY <1>1, <1>2, <2>2, ReceivedStays
  <2>4. taken + 1 \in 1 .. Recorded'
    BY <1>1, <1>2
  <2>5. TakenInv'
    BY <1>1, <2>1, <2>4 DEF TakenInv
  <2>6. command' \in Seq(Words)
    BY <1>1 DEF TextInv
  <2> QED BY <1>1, <2>1, <2>3, <2>5, <2>6, NothingShows
<1> QED BY <1>4, <1>5

(* The receiver takes a line and then records it.                          *)
LEMMA ReceiverShows == ASSUME ShowInv, ReceiverRuns PROVE ShowInv'
<1> USE DEF ShowInv
<1>1. /\ main = "chat" /\ taken \in Nat
      /\ script' = script /\ outbox' = outbox /\ command' = command
      /\ command' \in Seq(Words)
  BY DEF ReceiverRuns, Receives, ReceiveThrows, Records, RecordThrows, RecordsEnd, TakenInv, TextInv, server, display
<1>2. PICK k \in 1 .. Recorded : script[k] = Mark
  BY <1>1 DEF TakenInv
<1>3. CASE Receives
  <2>1. lastMessages' = lastMessages /\ main' = main /\ receiver = "receiving"
    BY <1>3 DEF Receives, display
  <2>2. \/ receiver' = "line" /\ taken' = taken + 1
        \/ receiver' = "nothing" /\ taken' = taken
    BY <1>3 DEF Receives
  <2>3. Recorded' = Recorded /\ taken' \in Nat /\ (receiver' = "line" => taken' > 0)
    BY <1>1, <2>1, <2>2 DEF Recorded
  <2>4. TakenInv'
    BY <1>1, <1>2, <2>1, <2>3 DEF TakenInv
  <2> QED BY <1>1, <2>1, <2>3, <2>4, NothingShows
<1>4. CASE ReceiveThrows \/ RecordThrows
  <2>1. lastMessages' = lastMessages /\ main' = "aborted" /\ receiver' = receiver /\ taken' = taken
    BY <1>4 DEF ReceiveThrows, RecordThrows, display, threads
  <2>2. Recorded' = Recorded
    BY <2>1 DEF Recorded
  <2>3. TakenInv'
    BY <2>1 DEF TakenInv
  <2> QED BY <1>1, <2>1, <2>2, <2>3, NothingShows
<1>5. CASE Records
  <2>1. /\ main' = main /\ receiver = "line" /\ receiver' = "receiving" /\ taken' = taken
        /\ lastMessages' = Push(FromServer(taken))
    BY <1>5 DEF Records
  <2>2. taken > 0 /\ Recorded = taken - 1 /\ Recorded' = taken
    BY <2>1 DEF TakenInv, Recorded
  <2>3. PICK n \in Nat : n = taken - 1 /\ n + 1 = taken
    BY <1>1, <2>2
  <2>4. ~EndsLogin(n + 1)
    <3>1. k \in 1 .. (n + 1) - 1
      BY <1>2, <2>2, <2>3
    <3> QED BY <1>2, <3>1 DEF EndsLogin, Mark
  <2>5. k \in 1 .. Recorded'
    BY <1>1, <1>2, <2>2
  <2>6. TakenInv'
    BY <1>1, <1>2, <2>1, <2>5 DEF TakenInv
  <2> QED BY <1>1, <2>1, <2>2, <2>3, <2>4, <2>6, ServerShows
<1>6. CASE RecordsEnd
  <2>1. /\ main' = main /\ receiver = "nothing" /\ receiver' = "exited" /\ taken' = taken
        /\ lastMessages' = Push(Disconnected)
    BY <1>6 DEF RecordsEnd
  <2>2. Recorded' = Recorded
    BY <2>1 DEF Recorded
  <2>3. TakenInv'
    BY <1>1, <1>2, <2>1, <2>2 DEF TakenInv
  <2> QED BY <1>1, <2>1, <2>2, <2>3, ClientShows
<1> QED BY <1>3, <1>4, <1>5, <1>6 DEF ReceiverRuns

(* The sender edits the command and sends it.                              *)
LEMMA SenderShows == ASSUME ShowInv, ReadsKey \/ SenderRuns PROVE ShowInv'
<1> USE DEF ShowInv
<1>1. script' = script /\ taken' = taken /\ receiver' = receiver /\ main = "chat"
  BY DEF ReadsKey, SenderRuns, LastKey, EditsCommand, SendsQuit, SendsMessage, SendThrows, MaySend,
         server, threads
<1>2. Recorded' = Recorded
  BY <1>1 DEF Recorded
<1>3. main' = "chat" \/ main' = "aborted"
  BY <1>1 DEF ReadsKey, SenderRuns, LastKey, EditsCommand, SendsQuit, SendsMessage, SendThrows, MaySend
<1>4. TakenInv'
  BY <1>1, <1>2, <1>3 DEF TakenInv
<1>5. command \in Seq(Words)
  BY DEF TextInv
<1>6. CASE ReadsKey \/ LastKey \/ SendThrows
  <2>1. lastMessages' = lastMessages /\ outbox' = outbox /\ command' = command
    BY <1>6 DEF ReadsKey, LastKey, SendThrows, display
  <2> QED BY <1>1, <1>2, <1>4, <1>5, <2>1, NothingShows
<1>7. CASE EditsCommand
  <2>1. lastMessages' = lastMessages /\ outbox' = outbox
    BY <1>7 DEF EditsCommand
  <2>2. command' \in Seq(Words)
    <3>1. CASE sender \in Char /\ Edits(Append(command, sender))
      <4>1. sender \in Words /\ command' = Append(command, sender)
        BY <3>1 DEF Words, Edits
      <4> QED BY <1>5, <4>1, AppendProperties
    <3>2. CASE sender = "delete" /\ Edits(IF command = << >> THEN << >> ELSE Front(command))
      <4>1. command' = IF command = << >> THEN << >> ELSE Front(command)
        BY <3>2 DEF Edits
      <4>2. CASE command = << >>
        BY <4>1, <4>2, EmptySeq
      <4>3. CASE command # << >>
        <5>1. command' = SubSeq(command, 1, Len(command) - 1)
          BY <4>1, <4>3 DEF Front
        <5>2. Len(command) \in Nat /\ \A i \in 1 .. Len(command) - 1 : command[i] \in Words
          BY <1>5, LenProperties
        <5>3. 1 \in Int /\ Len(command) - 1 \in Int
          BY <5>2
        <5> QED BY <5>1, <5>2, <5>3, SubSeqProperties
      <4> QED BY <4>2, <4>3
    <3> QED BY <1>7, <3>1, <3>2 DEF EditsCommand
  <2> QED BY <1>1, <1>2, <1>4, <2>1, <2>2, NothingShows
<1>8. CASE SendsQuit
  <2>1. /\ lastMessages' = lastMessages /\ command' = << >> /\ IsQuit(Composed)
        /\ outbox' = Append(outbox, ToNetwork(Composed))
    BY <1>8 DEF SendsQuit, IsQuit
  <2> QED BY <1>1, <1>2, <1>4, <2>1, QuitShows
<1>9. CASE SendsMessage
  <2>1. /\ lastMessages' = Push(Own(Composed)) /\ command' = << >> /\ ~IsQuit(Composed)
        /\ outbox' = Append(outbox, ToNetwork(Composed))
    BY <1>9 DEF SendsMessage, Edits, IsQuit
  <2> QED BY <1>1, <1>2, <1>4, <2>1, UserShows
<1> QED BY <1>6, <1>7, <1>8, <1>9 DEF SenderRuns

(* The other steps show nothing and take nothing.                          *)
LEMMA OthersShow ==
  ASSUME ShowInv,
         \/ LoginFails \/ MainJoins \/ RefresherRuns \/ SpuriousWakeup
         \/ ServerSends \/ ServerCloses \/ UNCHANGED vars
  PROVE  ShowInv'
<1> USE DEF ShowInv
<1>1. /\ script' = script /\ taken' = taken /\ receiver' = receiver
      /\ lastMessages' = lastMessages /\ outbox' = outbox /\ command' = command
  BY DEF LoginFails, MainJoins, RefresherRuns, Draws, DrawThrows, Waits, RefresherExits, SpuriousWakeup,
         ServerSends, ServerCloses, vars, server, threads, display
<1>2. main' = main \/ main' = "failed" \/ main' = "exited" \/ main' = "aborted"
  BY DEF LoginFails, MainJoins, RefresherRuns, Draws, DrawThrows, Waits, RefresherExits, SpuriousWakeup,
         ServerSends, ServerCloses, vars
<1>3. Recorded' = Recorded
  BY <1>1 DEF Recorded
<1>4. TakenInv'
  BY <1>1, <1>2, <1>3 DEF TakenInv
<1>5. command' \in Seq(Words)
  BY <1>1 DEF TextInv
<1> QED BY <1>1, <1>3, <1>4, <1>5, NothingShows

LEMMA ShowInvInit == Init => ShowInv
<1> SUFFICES ASSUME Init PROVE ShowInv
  OBVIOUS
<1>1. /\ lastMessages = << >> /\ command = << >> /\ outbox = << >>
      /\ taken = 0 /\ receiver = "receiving" /\ main = "login"
  BY DEF Init
<1>2. TextInv
  BY <1>1, EmptySeq DEF TextInv
<1>3. TakenInv
  BY <1>1 DEF TakenInv
<1>4. \A from : Of(lastMessages, from) = {}
  BY <1>1 DEF Of
<1>5. OrderInv
  BY <1>4 DEF OrderInv, Lines, AreLatest
<1>6. MatchInv
  <2>1. PICK f : f = [i \in {} |-> i]
    OBVIOUS
  <2>2. Matches(f, lastMessages, outbox)
    BY <1>4, <2>1 DEF Matches, AreLatest
  <2> QED BY <2>2 DEF MatchInv
<1> QED BY <1>2, <1>3, <1>5, <1>6 DEF ShowInv

LEMMA ShowInvHolds == Spec => []ShowInv
<1>1. ShowInv /\ [Next]_vars => ShowInv'
  BY LoginShows, ReceiverShows, SenderShows, OthersShow DEF Next, MainRuns
<1> QED BY <1>1, ShowInvInit, PTL DEF Spec

(* The console shows the last lines received, each once and in the order   *)
(* sent, between the user's own messages and after evictions.              *)
THEOREM ServerLinesStayInOrder == Spec => []ServerLinesInOrder
<1>1. ShowInv => ServerLinesInOrder
  BY ShowsWhatIsMeant DEF ShowInv
<1> QED BY <1>1, ShowInvHolds, PTL

(* The user's own messages on the console are the last ones that whoever   *)
(* reads the lines understands, whatever was typed.                        *)
THEOREM WhatIsShownWasSent == Spec => []ShownAsSent
<1>1. ShowInv => ShownAsSent
  BY ShowsWhatIsMeant DEF ShowInv
<1> QED BY <1>1, ShowInvHolds, PTL
=============================================================================
