-------------------------- MODULE SocketLinesProofs -------------------------
(***************************************************************************)
(* Theorems about SocketLines, for any number of writers, every buffer and *)
(* every timeout: a call receives at most one byte after its timeout, and  *)
(* it returns the lines that were sent, whole and in their turn; no byte   *)
(* is lost, doubled or out of its writer's order.                          *)
(***************************************************************************)
EXTENDS SocketLines, SequenceTheorems, FiniteSetTheorems, TLAPS

(* After such a byte the call is back at the test of the time, or over.    *)
LateInv ==
  /\ elapsed \in Nat
  /\ late \in {0, 1}
  /\ late = 1 => elapsed > Timeout /\ reader \in {"check", "out", "ended"}

LEMMA LateInvInit == Init => LateInv
BY SocketAssumption DEF Init, LateInv

LEMMA WritersKeepLateInv ==
  ASSUME LateInv,
         \/ \E w \in Writer : SendLine(w) \/ Sends(w) \/ SendInterrupted(w)
         \/ Ends
  PROVE  LateInv'
<1>1. UNCHANGED << elapsed, late, reader >>
  BY DEF SendLine, Sends, SendInterrupted, Ends, rVars
<1> QED BY <1>1 DEF LateInv

LEMMA ReaderKeepsLateInv == ASSUME LateInv, ReaderRuns PROVE LateInv'
<1> USE SocketAssumption DEF LateInv
<1>1. CASE ReceiveLine
  BY <1>1 DEF ReceiveLine
<1>2. CASE ChecksTimeout
  BY <1>2 DEF ChecksTimeout, ReturnsNone, Goes
<1>3. CASE Selects
  BY <1>3 DEF Selects, Goes
<1>4. CASE SelectTimesOut
  BY <1>4 DEF SelectTimesOut, ReturnsNone, Goes
<1>5. CASE RecvInterrupted
  BY <1>5 DEF RecvInterrupted, Goes
<1>6. CASE Receives
  <2>1. reader = "recv" /\ late = 0
    BY <1>6 DEF Receives
  <2>2. reader' \in {"out", "check"} /\ elapsed' = elapsed
    BY <1>6 DEF Receives
  <2>3. late' = 0 + (IF elapsed > Timeout THEN 1 ELSE 0)
    BY <1>6, <2>1 DEF Receives
  <2> QED BY <2>2, <2>3
<1>7. CASE ReceivesEnd
  BY <1>7 DEF ReceivesEnd, ReturnsNone, Goes
<1> QED BY <1>1, <1>2, <1>3, <1>4, <1>5, <1>6, <1>7 DEF ReaderRuns

LEMMA LateInvNext == LateInv /\ [Next]_vars => LateInv'
<1> SUFFICES ASSUME LateInv, [Next]_vars PROVE LateInv'
  OBVIOUS
<1>1. CASE Tick
  BY <1>1, SocketAssumption DEF Tick, rVars, LateInv
<1>2. CASE UNCHANGED vars
  BY <1>2 DEF vars, rVars, LateInv
<1> QED BY <1>1, <1>2, WritersKeepLateInv, ReaderKeepsLateInv DEF Next

(* The timeout of a line holds but for one byte, whatever the sender does  *)
(* and however often the calls are interrupted.                            *)
THEOREM TimeoutHolds == Spec => []OneByteLate
<1>1. LateInv => OneByteLate
  BY DEF LateInv, OneByteLate
<1> QED BY <1>1, LateInvInit, LateInvNext, PTL DEF Spec

-----------------------------------------------------------------------------
(* The bytes of the lines, each with its place.                            *)
LineLen(w, n) == Len(Messages[w][n]) + 1

Byte ==
  {b \in [by : Writer, message : Nat \ {0}, at : Nat \ {0}, char : {"text", "cr", "nl"}] :
     /\ b.message <= Len(Messages[b.by]) /\ b.at <= LineLen(b.by, b.message)
     /\ b = Line(b.by, b.message)[b.at]}

Turn(b) == << b.by, b.message >>

LEMMA LineBytes ==
  ASSUME NEW w \in Writer, NEW n \in 1 .. Len(Messages[w])
  PROVE  /\ Line(w, n) \in Seq(Byte) /\ Len(Line(w, n)) = LineLen(w, n)
         /\ LineLen(w, n) \in Nat \ {0} /\ n \in Nat \ {0}
         /\ \A i \in 1 .. LineLen(w, n) :
              /\ Line(w, n)[i] \in Byte /\ Turn(Line(w, n)[i]) = << w, n >>
              /\ Line(w, n)[i].at = i
              /\ Line(w, n)[i].char = "nl" <=> i = LineLen(w, n)
<1> DEFINE text == Messages[w][n]
           chars == Append(text, "nl")
           rec(i) == [by |-> w, message |-> n, at |-> i, char |-> chars[i]]
<1>1. Messages[w] \in Seq(Seq({"text", "cr"}))
  BY SocketAssumption
<1>2. text \in Seq({"text", "cr"}) /\ Len(Messages[w]) \in Nat /\ n \in Nat \ {0}
  BY <1>1
<1>3. /\ Len(text) \in Nat /\ \A i \in 1 .. Len(text) : text[i] \in {"text", "cr"}
      /\ text \in Seq({"text", "cr", "nl"})
  <2>1. \A i \in 1 .. Len(text) : text[i] \in {"text", "cr"}
    BY <1>2, ElementOfSeq
  <2> QED BY <1>2, <2>1, SeqMonotonic
<1> HIDE DEF text
<1>4. /\ DOMAIN chars = 1 .. Len(text) + 1
      /\ \A i \in 1 .. Len(text) : chars[i] = text[i]
      /\ chars[Len(text) + 1] = "nl"
  <2>1. /\ chars \in Seq({"text", "cr", "nl"}) /\ Len(chars) = Len(text) + 1
        /\ \A i \in 1 .. Len(text) : chars[i] = text[i]
        /\ chars[Len(text) + 1] = "nl"
    BY <1>3, AppendProperties
  <2>2. DOMAIN chars = 1 .. Len(chars)
    BY <2>1, LenProperties
  <2> QED BY <2>1, <2>2
<1>5. LineLen(w, n) = Len(text) + 1
  BY DEF LineLen, text
<1>6. Line(w, n) = [i \in 1 .. LineLen(w, n) |-> rec(i)]
  BY <1>4, <1>5 DEF Line, text
<1>7. \A i \in 1 .. LineLen(w, n) :
        /\ i \in Nat \ {0} /\ chars[i] \in {"text", "cr", "nl"}
        /\ chars[i] = "nl" <=> i = LineLen(w, n)
  <2> SUFFICES ASSUME NEW i \in 1 .. LineLen(w, n)
               PROVE  /\ i \in Nat \ {0} /\ chars[i] \in {"text", "cr", "nl"}
                      /\ chars[i] = "nl" <=> i = LineLen(w, n)
    OBVIOUS
  <2>1. CASE i = LineLen(w, n)
    BY <1>3, <1>4, <1>5, <2>1
  <2>2. CASE i # LineLen(w, n)
    <3>1. i \in 1 .. Len(text)
      BY <1>3, <1>5, <2>2
    <3> QED BY <1>3, <1>4, <2>2, <3>1
  <2> QED BY <2>1, <2>2
<1> HIDE DEF chars
<1>8. \A i \in 1 .. LineLen(w, n) :
        /\ Line(w, n)[i] = rec(i) /\ rec(i) \in Byte
        /\ Turn(rec(i)) = << w, n >> /\ rec(i).at = i /\ rec(i).char = chars[i]
  <2> SUFFICES ASSUME NEW i \in 1 .. LineLen(w, n)
               PROVE  /\ Line(w, n)[i] = rec(i) /\ rec(i) \in Byte
                      /\ Turn(rec(i)) = << w, n >> /\ rec(i).at = i /\ rec(i).char = chars[i]
    OBVIOUS
  <2>1. Line(w, n)[i] = rec(i)
    BY <1>6
  <2>2. rec(i) \in [by : Writer, message : Nat \ {0}, at : Nat \ {0}, char : {"text", "cr", "nl"}]
    BY <1>2, <1>7
  <2>3. /\ rec(i).by = w /\ rec(i).message = n /\ rec(i).at = i /\ rec(i).char = chars[i]
    OBVIOUS
  <2>4. n <= Len(Messages[w]) /\ i <= LineLen(w, n)
    BY <1>2, <1>3, <1>5
  <2> HIDE DEF rec
  <2> QED BY <2>1, <2>2, <2>3, <2>4 DEF Byte, Turn
<1> HIDE DEF rec
<1>9. Line(w, n) \in Seq(Byte) /\ Len(Line(w, n)) = LineLen(w, n)
  <2>1. Line(w, n) \in [1 .. LineLen(w, n) -> Byte]
    BY <1>6, <1>8
  <2>2. LineLen(w, n) \in Nat
    BY <1>3, <1>5
  <2> QED BY <2>1, <2>2, IsASeq, LenProperties, SeqDef
<1> QED BY <1>2, <1>3, <1>5, <1>7, <1>8, <1>9

LEMMA ByteIs ==
  ASSUME NEW b \in Byte
  PROVE  /\ b.by \in Writer /\ b.message \in 1 .. Len(Messages[b.by])
         /\ LineLen(b.by, b.message) \in Nat \ {0} /\ b.at \in 1 .. LineLen(b.by, b.message)
         /\ Turn(b) \in Writer \X (Nat \ {0})
         /\ b.char = "nl" <=> b.at = LineLen(b.by, b.message)
         /\ b.char \in {"text", "cr", "nl"}
         /\ \A c \in Byte : Turn(c) = Turn(b) /\ c.at = b.at => c = b
<1>1. /\ b \in [by : Writer, message : Nat \ {0}, at : Nat \ {0}, char : {"text", "cr", "nl"}]
      /\ b.message <= Len(Messages[b.by]) /\ b.at <= LineLen(b.by, b.message)
      /\ b = Line(b.by, b.message)[b.at]
  BY DEF Byte
<1>2. b.by \in Writer /\ b.message \in Nat \ {0} /\ b.at \in Nat \ {0} /\ b.char \in {"text", "cr", "nl"}
  BY <1>1
<1>3. Len(Messages[b.by]) \in Nat
  BY <1>2, SocketAssumption
<1>4. b.message \in 1 .. Len(Messages[b.by])
  BY <1>1, <1>2, <1>3
<1>5. /\ LineLen(b.by, b.message) \in Nat \ {0}
      /\ \A i \in 1 .. LineLen(b.by, b.message) :
           Line(b.by, b.message)[i].char = "nl" <=> i = LineLen(b.by, b.message)
  BY <1>2, <1>4, LineBytes
<1>6. b.at \in 1 .. LineLen(b.by, b.message)
  BY <1>1, <1>2, <1>5
<1>7. b.char = "nl" <=> b.at = LineLen(b.by, b.message)
  BY <1>1, <1>5, <1>6
<1>8. \A c \in Byte : c = Line(c.by, c.message)[c.at]
  BY DEF Byte
<1> QED BY <1>1, <1>2, <1>4, <1>5, <1>6, <1>7, <1>8 DEF Turn

(* What the reader has, when it has read message n of w up to place k.     *)
TextOf(w, n, k) == {b \in Byte : Turn(b) = << w, n >> /\ b.char = "text" /\ b.at < k}

Prefix(t, w, n, k) ==
  /\ t \in Seq(Byte)
  /\ {t[i] : i \in 1 .. Len(t)} = TextOf(w, n, k)
  /\ \A i, j \in 1 .. Len(t) : i < j => t[i].at < t[j].at

LEMMA PrefixEmpty ==
  ASSUME NEW w, NEW n PROVE Prefix(<< >>, w, n, 1)
<1>1. TextOf(w, n, 1) = {}
  BY DEF TextOf, Byte
<1> QED BY <1>1 DEF Prefix

LEMMA PrefixSkips ==
  ASSUME NEW b \in Byte, b.char # "text", NEW t, Prefix(t, b.by, b.message, b.at)
  PROVE  Prefix(t, b.by, b.message, b.at + 1)
<1>1. TextOf(b.by, b.message, b.at + 1) = TextOf(b.by, b.message, b.at)
  <2>1. ASSUME NEW c \in Byte, Turn(c) = Turn(b), c.char = "text"
        PROVE  c.at < b.at + 1 <=> c.at < b.at
    <3>1. c.at # b.at
      BY <2>1, ByteIs
    <3>2. c.at \in Nat /\ b.at \in Nat
      BY DEF Byte
    <3> QED BY <3>1, <3>2
  <2> QED BY <2>1 DEF TextOf, Turn
<1> QED BY <1>1 DEF Prefix

LEMMA PrefixGrows ==
  ASSUME NEW b \in Byte, b.char = "text", NEW t, Prefix(t, b.by, b.message, b.at)
  PROVE  Prefix(Append(t, b), b.by, b.message, b.at + 1)
<1>1. t \in Seq(Byte) /\ {t[i] : i \in 1 .. Len(t)} = TextOf(b.by, b.message, b.at)
  BY DEF Prefix
<1>2. /\ Append(t, b) \in Seq(Byte) /\ Len(Append(t, b)) = Len(t) + 1 /\ Len(t) \in Nat
      /\ \A i \in 1 .. Len(t) : Append(t, b)[i] = t[i]
      /\ Append(t, b)[Len(t) + 1] = b
  BY <1>1, AppendProperties
<1>3. \A i \in 1 .. Len(t) + 1 : i \in 1 .. Len(t) \/ i = Len(t) + 1
  BY <1>2
<1>4. \A i \in 1 .. Len(t) : i \in 1 .. Len(t) + 1
  BY <1>2
<1>5. Len(t) + 1 \in 1 .. Len(t) + 1
  BY <1>2
<1>6. {Append(t, b)[i] : i \in 1 .. Len(t) + 1} = {t[i] : i \in 1 .. Len(t)} \cup {b}
  <2>1. ASSUME NEW x \in {Append(t, b)[i] : i \in 1 .. Len(t) + 1}
        PROVE  x \in {t[i] : i \in 1 .. Len(t)} \cup {b}
    BY <1>2, <1>3
  <2>2. ASSUME NEW x \in {t[i] : i \in 1 .. Len(t)}
        PROVE  x \in {Append(t, b)[i] : i \in 1 .. Len(t) + 1}
    <3>1. PICK i \in 1 .. Len(t) : x = t[i]
      OBVIOUS
    <3>2. x = Append(t, b)[i] /\ i \in 1 .. Len(t) + 1
      BY <1>2, <1>4, <3>1
    <3> QED BY <3>2
  <2>3. b \in {Append(t, b)[i] : i \in 1 .. Len(t) + 1}
    BY <1>2, <1>5
  <2> QED BY <2>1, <2>2, <2>3
<1>7. TextOf(b.by, b.message, b.at + 1) = TextOf(b.by, b.message, b.at) \cup {b}
  <2>1. ASSUME NEW c \in Byte, Turn(c) = Turn(b), c.char = "text"
        PROVE  c.at < b.at + 1 <=> c.at < b.at \/ c = b
    <3>1. c.at = b.at <=> c = b
      BY <2>1, ByteIs
    <3>2. c.at \in Nat /\ b.at \in Nat
      BY DEF Byte
    <3> QED BY <3>1, <3>2
  <2> QED BY <2>1 DEF TextOf, Turn
<1>8. \A i \in 1 .. Len(t) : t[i].at < b.at
  BY <1>1 DEF TextOf
<1>9. \A i, j \in 1 .. Len(t) + 1 : i < j => Append(t, b)[i].at < Append(t, b)[j].at
  <2> SUFFICES ASSUME NEW i \in 1 .. Len(t) + 1, NEW j \in 1 .. Len(t) + 1, i < j
               PROVE  Append(t, b)[i].at < Append(t, b)[j].at
    OBVIOUS
  <2>1. i \in 1 .. Len(t)
    BY <1>2
  <2>2. CASE j = Len(t) + 1
    BY <1>2, <1>8, <2>1, <2>2
  <2>3. CASE j \in 1 .. Len(t)
    BY <1>2, <2>1, <2>3 DEF Prefix
  <2> QED BY <1>3, <2>2, <2>3
<1> QED BY <1>1, <1>2, <1>6, <1>7, <1>9 DEF Prefix

(* A line that was read to its end is the text of the line sent.           *)
LEMMA PrefixIsText ==
  ASSUME NEW w \in Writer, NEW n \in 1 .. Len(Messages[w]), NEW t,
         Prefix(t, w, n, LineLen(w, n))
  PROVE  IsText(t, Line(w, n))
<1> DEFINE s == Line(w, n)
<1>1. /\ s \in Seq(Byte) /\ DOMAIN s = 1 .. LineLen(w, n) /\ LineLen(w, n) \in Nat \ {0}
      /\ \A i \in 1 .. LineLen(w, n) :
           /\ s[i] \in Byte /\ Turn(s[i]) = << w, n >> /\ s[i].at = i
           /\ s[i].char = "nl" <=> i = LineLen(w, n)
  BY LineBytes, LenProperties
<1> HIDE DEF s
<1>2. DOMAIN t = 1 .. Len(t)
  BY LenProperties DEF Prefix
<1>3. {s[i] : i \in {j \in DOMAIN s : s[j].char = "text"}} = TextOf(w, n, LineLen(w, n))
  <2>1. ASSUME NEW i \in 1 .. LineLen(w, n), s[i].char = "text"
        PROVE  s[i] \in TextOf(w, n, LineLen(w, n))
    <3>1. i # LineLen(w, n)
      BY <1>1, <2>1
    <3> QED BY <1>1, <2>1, <3>1 DEF TextOf
  <2>2. ASSUME NEW b \in TextOf(w, n, LineLen(w, n))
        PROVE  b.at \in 1 .. LineLen(w, n) /\ s[b.at] = b /\ b.char = "text"
    <3>1. b \in Byte /\ Turn(b) = << w, n >> /\ b.char = "text"
      BY DEF TextOf
    <3>2. b.at \in 1 .. LineLen(w, n)
      BY <3>1, ByteIs DEF Turn
    <3>3. s[b.at] \in Byte /\ Turn(s[b.at]) = Turn(b) /\ s[b.at].at = b.at
      BY <1>1, <3>1, <3>2
    <3> QED BY <3>1, <3>2, <3>3, ByteIs
  <2>3. ASSUME NEW b \in TextOf(w, n, LineLen(w, n))
        PROVE  b \in {s[i] : i \in {j \in DOMAIN s : s[j].char = "text"}}
    <3>1. b.at \in {j \in DOMAIN s : s[j].char = "text"} /\ s[b.at] = b
      BY <1>1, <2>2
    <3> QED BY <3>1
  <2>4. ASSUME NEW b \in {s[i] : i \in {j \in DOMAIN s : s[j].char = "text"}}
        PROVE  b \in TextOf(w, n, LineLen(w, n))
    BY <1>1, <2>1
  <2> QED BY <2>3, <2>4
<1> QED BY <1>2, <1>3 DEF IsText, TextIn, Prefix, s

-----------------------------------------------------------------------------
(* The calls of send_line() that have put a byte on the wire.              *)
CountIn(o, w) == Cardinality({i \in DOMAIN o : o[i][1] = w})

LEMMA CountAppends ==
  ASSUME NEW w \in Writer, NEW o \in Seq(Writer \X (Nat \ {0})), NEW n \in Nat \ {0},
         NEW v \in Writer
  PROVE  CountIn(Append(o, << w, n >>), v) = CountIn(o, v) + (IF v = w THEN 1 ELSE 0)
<1> DEFINE p == Append(o, << w, n >>)
           S == {i \in DOMAIN o : o[i][1] = v}
           T == {i \in DOMAIN p : p[i][1] = v}
           new == Len(o) + 1
<1>1. /\ p \in Seq(Writer \X (Nat \ {0})) /\ Len(p) = new /\ Len(o) \in Nat
      /\ \A i \in 1 .. Len(o) : p[i] = o[i]
      /\ p[new] = << w, n >>
      /\ DOMAIN p = 1 .. new /\ DOMAIN o = 1 .. Len(o)
  <2>1. << w, n >> \in Writer \X (Nat \ {0})
    OBVIOUS
  <2>2. /\ p \in Seq(Writer \X (Nat \ {0})) /\ Len(p) = new
        /\ \A i \in 1 .. Len(o) : p[i] = o[i]
        /\ p[new] = << w, n >>
    BY <2>1, AppendProperties
  <2> QED BY <2>2, LenProperties
<1> HIDE DEF p
<1>2. \A i : i \in 1 .. new <=> i \in 1 .. Len(o) \/ i = new
  BY <1>1
<1>3. new \notin S
  BY <1>1
<1>4. IsFiniteSet(S)
  <2>1. IsFiniteSet(1 .. Len(o)) /\ S \subseteq 1 .. Len(o)
    BY <1>1, FS_Interval
  <2> QED BY <2>1, FS_Subset, Zenon
<1>5. T = IF v = w THEN S \cup {new} ELSE S
  <2>1. \A i \in 1 .. Len(o) : p[i][1] = o[i][1]
    BY <1>1
  <2>2. p[new][1] = w
    BY <1>1
  <2> HIDE DEF new
  <2> QED BY <1>1, <1>2, <2>1, <2>2
<1>6. Cardinality(S) \in Nat /\ Cardinality(S \cup {new}) = Cardinality(S) + 1
  <2>1. Cardinality(S) \in Nat
    BY <1>4, FS_CardinalityType, Zenon
  <2>2. Cardinality(S \cup {new}) = Cardinality(S) + 1
    BY <1>3, <1>4, FS_AddElement
  <2> QED BY <2>1, <2>2
<1> HIDE DEF S, T
<1>7. Cardinality(T) = Cardinality(S) + (IF v = w THEN 1 ELSE 0)
  <2>1. CASE v = w
    BY <1>5, <1>6, <2>1
  <2>2. CASE v # w
    BY <1>5, <1>6, <2>2
  <2> QED BY <2>1, <2>2
<1> QED BY <1>7 DEF p, S, T, CountIn

-----------------------------------------------------------------------------
(* u is the rest of a line of w, from its first byte left to its end.      *)
RestOf(u, w) ==
  \A i \in 1 .. Len(u) :
    /\ u[i].by = w /\ Turn(u[i]) = Turn(u[1]) /\ u[i].at = u[1].at + i - 1
    /\ u[i].char = "nl" <=> i = Len(u)

(* In any state, torn or not.  Nobody's message is counted twice.          *)
CallsInv ==
  /\ wire \in Seq(Byte) /\ peer \in {"open", "closed", "reset"} /\ torn \in BOOLEAN
  /\ unsent \in [Writer -> Seq(Byte)]
  /\ order \in Seq(Writer \X (Nat \ {0}))
  /\ line \in Seq(Byte) /\ received \in Seq(Seq(Byte))
  /\ reader = "out" => line = << >>
  /\ \A k \in 1 .. Len(order) :
       order[k][2] <= CountIn(order, order[k][1]) /\ order[k][2] \in 1 .. Len(Messages[order[k][1]])
  /\ \A i, j \in 1 .. Len(order) : order[i] = order[j] => i = j
  /\ \A w \in Writer : unsent[w] # << >> =>
       RestOf(unsent[w], w) /\ (IsFirst(w) => unsent[w][1].message = Count(w) + 1)

(* c comes after b on the wire: the next byte of the line, or the first of *)
(* the next line.                                                          *)
Follows(o, b, c) ==
  IF b.char = "nl"
  THEN c.at = 1 /\ \E k \in 1 .. Len(o) - 1 : o[k] = Turn(b) /\ o[k + 1] = Turn(c)
  ELSE Turn(c) = Turn(b) /\ c.at = b.at + 1

(* b is the byte the reader needs next.                                    *)
Expected(o, got, text, b) ==
  /\ Len(got) + 1 <= Len(o) /\ o[Len(got) + 1] = Turn(b)
  /\ Prefix(text, b.by, b.message, b.at)

MidLines == {v \in Writer : MidLine(v)}

(* What the writers send next continues what is on the wire, or what the   *)
(* reader has got when nothing is.                                         *)
Behind(b) ==
  /\ Len(order) > 0 /\ order[Len(order)] = Turn(b)
  /\ IF b.char = "nl" THEN MidLines = {}
     ELSE MidLines = {b.by} /\ Follows(order, b, unsent[b.by][1])

Caught ==
  \/ MidLines = {} /\ Len(received) = Len(order) /\ line = << >>
  \/ \E v \in Writer :
       /\ MidLines = {v} /\ Len(received) + 1 = Len(order)
       /\ Expected(order, received, line, unsent[v][1])

StreamInv ==
  ~torn =>
    /\ \A j \in 1 .. Len(wire) - 1 : Follows(order, wire[j], wire[j + 1])
    /\ wire # << >> => Expected(order, received, line, wire[1])
    /\ peer = "open" => IF wire = << >> THEN Caught ELSE Behind(wire[Len(wire)])
    /\ Len(received) <= Len(order)
    /\ \A i \in 1 .. Len(received) :
         Prefix(received[i], order[i][1], order[i][2], LineLen(order[i][1], order[i][2]))

IInv == CallsInv /\ StreamInv

LEMMA IInvInit == Init => IInv
<1> SUFFICES ASSUME Init PROVE IInv
  OBVIOUS
<1> USE DEF Init
<1>1. CallsInv
  <2>1. /\ wire = << >> /\ order = << >> /\ line = << >> /\ received = << >>
        /\ peer = "open" /\ torn = FALSE /\ unsent = [w \in Writer |-> << >>]
    OBVIOUS
  <2>2. /\ wire \in Seq(Byte) /\ order \in Seq(Writer \X (Nat \ {0}))
        /\ line \in Seq(Byte) /\ received \in Seq(Seq(Byte)) /\ unsent \in [Writer -> Seq(Byte)]
    BY ONLY <2>1
  <2>3. Len(order) = 0 /\ \A w \in Writer : unsent[w] = << >>
    BY ONLY <2>1
  <2>4. 1 .. Len(order) = {}
    BY <2>3
  <2> QED BY ONLY <2>1, <2>2, <2>3, <2>4 DEF CallsInv
<1>2. MidLines = {}
  BY DEF MidLines, MidLine
<1>3. StreamInv
  BY <1>2 DEF StreamInv, Caught
<1> QED BY <1>1, <1>3 DEF IInv

LEMMA CountIs ==
  ASSUME CallsInv, NEW w \in Writer
  PROVE  Count(w) \in Nat
<1>1. DOMAIN order = 1 .. Len(order) /\ Len(order) \in Nat
  BY LenProperties DEF CallsInv
<1>2. IsFiniteSet(1 .. Len(order)) /\ {i \in DOMAIN order : order[i][1] = w} \subseteq 1 .. Len(order)
  BY <1>1, FS_Interval
<1>3. IsFiniteSet({i \in DOMAIN order : order[i][1] = w})
  BY <1>2, FS_Subset, Zenon
<1> QED BY <1>3, FS_CardinalityType, Zenon DEF Count

(* Calls that are interrupted, waits and the clock.                        *)
LEMMA QuietKeeps ==
  ASSUME IInv, UNCHANGED << wire, peer, unsent, order, torn, received >>,
         line' = line \/ (reader = "out" /\ line' = << >>),
         reader' \in {reader, "check", "select", "recv", "ended"}
  PROVE  IInv'
<1>1. line' = line
  BY DEF IInv, CallsInv
<1>2. Count(1)' = Count(1) /\ \A w \in Writer : Count(w)' = Count(w)
  BY DEF Count
<1>3. CallsInv'
  BY <1>1, <1>2 DEF IInv, CallsInv, IsFirst
<1>4. MidLines' = MidLines
  BY DEF MidLines, MidLine, IsFirst
<1>5. StreamInv'
  BY <1>1, <1>4 DEF IInv, StreamInv, Caught, Behind
<1> QED BY <1>3, <1>5 DEF IInv

LEMMA SendLineKeeps == ASSUME IInv, NEW w \in Writer, SendLine(w) PROVE IInv'
<1> DEFINE n == Count(w) + 1
           l == Line(w, n)
<1>1. /\ CallsInv /\ unsent[w] = << >> /\ Count(w) < Len(Messages[w])
      /\ unsent' = [unsent EXCEPT ![w] = l]
      /\ UNCHANGED << wire, peer, order, torn, line, received, reader >>
  BY DEF SendLine, IInv, rVars
<1>2. n \in 1 .. Len(Messages[w]) /\ Count(w) \in Nat
  <2>1. Count(w) \in Nat
    BY <1>1, CountIs
  <2>2. Len(Messages[w]) \in Nat
    BY SocketAssumption
  <2> QED BY <1>1, <2>1, <2>2
<1> HIDE DEF n
<1>3. /\ l \in Seq(Byte) /\ Len(l) = LineLen(w, n) /\ Len(l) \in Nat \ {0}
      /\ \A i \in 1 .. Len(l) :
           /\ l[i] \in Byte /\ Turn(l[i]) = << w, n >> /\ l[i].at = i
           /\ l[i].char = "nl" <=> i = Len(l)
  BY <1>2, LineBytes
<1> HIDE DEF l
<1>4. /\ l # << >> /\ Head(l) = l[1] /\ l[1].at = 1 /\ l[1].message = n
      /\ RestOf(l, w)
  <2>1. l # << >> /\ Head(l) = l[1] /\ 1 \in 1 .. Len(l)
    BY <1>3
  <2>2. \A i \in 1 .. Len(l) : l[i].by = w /\ l[i].message = n
    BY <1>3 DEF Turn
  <2> QED BY <1>3, <2>1, <2>2 DEF RestOf
<1>5. \A v \in Writer : unsent'[v] = IF v = w THEN l ELSE unsent[v]
  BY <1>1 DEF CallsInv
<1>6. \A v \in Writer : Count(v)' = Count(v)
  BY <1>1 DEF Count
<1>7. CallsInv'
  BY <1>1, <1>3, <1>4, <1>5, <1>6 DEF CallsInv, IsFirst, n
<1>8. MidLines' = MidLines
  BY <1>1, <1>4, <1>5 DEF MidLines, MidLine, IsFirst
<1>9. w \notin MidLines
  BY <1>1 DEF MidLines, MidLine
<1>10. \A v \in MidLines : unsent'[v] = unsent[v]
  BY <1>5, <1>9 DEF MidLines
<1>11. Caught => Caught'
  BY <1>1, <1>8, <1>10 DEF Caught
<1>12. \A b : Behind(b) => Behind(b)'
  BY <1>1, <1>8, <1>10 DEF Behind
<1>13. StreamInv'
  BY <1>1, <1>11, <1>12 DEF IInv, StreamInv
<1> QED BY <1>7, <1>13 DEF IInv

LEMMA EndsKeeps == ASSUME IInv, Ends PROVE IInv'
<1>1. /\ CallsInv /\ unsent' = [w \in Writer |-> << >>]
      /\ peer' \in {"closed", "reset"} /\ wire' \in {wire, << >>}
      /\ UNCHANGED << order, torn, line, received, reader >>
  BY DEF Ends, IInv, rVars
<1>2. \A v \in Writer : Count(v)' = Count(v)
  BY <1>1 DEF Count
<1>3. CallsInv'
  <2>1. wire' \in Seq(Byte) /\ unsent' \in [Writer -> Seq(Byte)]
    <3>1. << >> \in Seq(Byte) /\ wire \in Seq(Byte)
      BY <1>1 DEF CallsInv
    <3> QED BY <1>1, <3>1
  <2>2. \A w \in Writer : unsent'[w] = << >>
    BY <1>1
  <2> QED BY <1>1, <1>2, <2>1, <2>2 DEF CallsInv
<1>4. StreamInv'
  BY <1>1 DEF IInv, StreamInv
<1> QED BY <1>3, <1>4 DEF IInv

-----------------------------------------------------------------------------
(* n bytes of a line are taken from its rest and put behind the others.    *)
LEMMA RestOfBytes ==
  ASSUME NEW u \in Seq(Byte), NEW n \in 1 .. Len(u), NEW left, left = SubSeq(u, n + 1, Len(u))
  PROVE  /\ left \in Seq(Byte) /\ Len(left) = Len(u) - n
         /\ \A i \in 1 .. Len(left) : left[i] = u[n + i]
<1>1. Len(u) \in Nat /\ n \in Nat
  OBVIOUS
<1> QED BY <1>1

LEMMA BytesAdded ==
  ASSUME NEW q \in Seq(Byte), NEW u \in Seq(Byte), NEW n \in 1 .. Len(u),
         NEW all, all = q \o SubSeq(u, 1, n)
  PROVE  /\ all \in Seq(Byte) /\ Len(all) = Len(q) + n
         /\ \A i \in 1 .. Len(q) : all[i] = q[i]
         /\ \A i \in 1 .. n : all[Len(q) + i] = u[i]
<1> DEFINE taken == SubSeq(u, 1, n)
<1>1. Len(u) \in Nat /\ Len(q) \in Nat /\ n \in Nat
  OBVIOUS
<1>2. /\ taken \in Seq(Byte) /\ Len(taken) = n /\ \A i \in 1 .. n : taken[i] = u[i]
  BY <1>1
<1> HIDE DEF taken
<1>3. /\ all \in Seq(Byte) /\ Len(all) = Len(q) + n
      /\ \A i \in 1 .. Len(q) : all[i] = q[i]
      /\ \A i \in 1 .. n : all[Len(q) + i] = taken[i]
  <2>1. all = q \o taken
    BY DEF taken
  <2> QED BY <1>1, <1>2, <2>1
<1> QED BY <1>2, <1>3

(* Also what was in turn stays in turn when order grows.                   *)
LEMMA OrderGrows ==
  ASSUME CallsInv, NEW w \in Writer, order' = Append(order, << w, Count(w) + 1 >>),
         Count(w) + 1 \in 1 .. Len(Messages[w])
  PROVE  /\ order' \in Seq(Writer \X (Nat \ {0})) /\ Len(order') = Len(order) + 1
         /\ Len(order) \in Nat
         /\ \A k \in 1 .. Len(order) : order'[k] = order[k]
         /\ order'[Len(order) + 1] = << w, Count(w) + 1 >>
         /\ \A v \in Writer : Count(v)' = Count(v) + (IF v = w THEN 1 ELSE 0)
         /\ \A k \in 1 .. Len(order') :
              order'[k][2] <= CountIn(order', order'[k][1]) /\ order'[k][2] \in 1 .. Len(Messages[order'[k][1]])
         /\ \A i, j \in 1 .. Len(order') : order'[i] = order'[j] => i = j
         /\ \A b, c : Follows(order, b, c) => Follows(order', b, c)
<1> DEFINE n == Count(w) + 1
           new == Len(order) + 1
<1>1. Count(w) \in Nat /\ n \in Nat \ {0} /\ order \in Seq(Writer \X (Nat \ {0}))
  BY CountIs DEF CallsInv
<1>2. << w, n >> \in Writer \X (Nat \ {0})
  BY <1>1
<1>3. /\ order' \in Seq(Writer \X (Nat \ {0})) /\ Len(order') = Len(order) + 1
      /\ Len(order) \in Nat
      /\ \A k \in 1 .. Len(order) : order'[k] = order[k]
      /\ order'[Len(order) + 1] = << w, n >>
  BY <1>1, <1>2, AppendProperties
<1>4. \A v \in Writer :
        /\ CountIn(order', v) = CountIn(order, v) + (IF v = w THEN 1 ELSE 0)
        /\ CountIn(order, v) \in Nat
  <2>1. \A v \in Writer :
          CountIn(Append(order, << w, n >>), v) = CountIn(order, v) + (IF v = w THEN 1 ELSE 0)
    BY <1>1, CountAppends
  <2>2. \A v \in Writer : CountIn(order, v) \in Nat
    BY CountIs DEF Count, CountIn
  <2> QED BY <2>1, <2>2
<1>5. \A v \in Writer : Count(v)' = Count(v) + (IF v = w THEN 1 ELSE 0)
  BY <1>4 DEF Count, CountIn
<1> HIDE DEF n
<1>6. \A k \in 1 .. Len(order') : k \in 1 .. Len(order) \/ k = new
  BY <1>3
<1>7. \A k \in 1 .. Len(order) :
        order[k] \in Writer \X (Nat \ {0}) /\ order[k] = << order[k][1], order[k][2] >>
  BY <1>1
<1>8. \A k \in 1 .. Len(order) :
        order[k][2] <= CountIn(order, order[k][1]) /\ order[k][2] \in 1 .. Len(Messages[order[k][1]])
  BY DEF CallsInv
<1>9. \A k \in 1 .. Len(order') :
        order'[k][2] <= CountIn(order', order'[k][1]) /\ order'[k][2] \in 1 .. Len(Messages[order'[k][1]])
  <2> SUFFICES ASSUME NEW k \in 1 .. Len(order')
               PROVE  /\ order'[k][2] <= CountIn(order', order'[k][1])
                      /\ order'[k][2] \in 1 .. Len(Messages[order'[k][1]])
    OBVIOUS
  <2>1. CASE k \in 1 .. Len(order)
    <3>1. order'[k] = order[k] /\ order[k][1] \in Writer /\ order[k][2] \in Nat
      BY <1>3, <1>7, <2>1
    <3>2. /\ order[k][2] <= CountIn(order, order[k][1])
          /\ order[k][2] \in 1 .. Len(Messages[order[k][1]])
      BY <1>8, <2>1
    <3>3. /\ CountIn(order, order[k][1]) \in Nat
          /\ CountIn(order', order[k][1]) >= CountIn(order, order[k][1])
          /\ CountIn(order', order[k][1]) \in Nat
      <4> DEFINE v == order[k][1]
      <4>1. v \in Writer
        BY <3>1
      <4> HIDE DEF v
      <4>2. CountIn(order', v) = CountIn(order, v) + (IF v = w THEN 1 ELSE 0) /\ CountIn(order, v) \in Nat
        BY <1>4, <4>1
      <4>3. CountIn(order', v) \in Nat /\ CountIn(order', v) >= CountIn(order, v)
        BY <4>2
      <4> QED BY <4>2, <4>3 DEF v
    <3>4. order[k][2] <= CountIn(order', order[k][1])
      BY <3>1, <3>2, <3>3
    <3> QED BY <3>1, <3>2, <3>4
  <2>2. CASE k = new
    <3>1. order'[k][1] = w /\ order'[k][2] = n
      BY <1>3, <2>2
    <3>2. n = CountIn(order, w) + 1
      BY DEF n, Count, CountIn
    <3> QED BY <1>4, <3>1, <3>2 DEF n
  <2> QED BY <1>6, <2>1, <2>2
<1>10. \A i \in 1 .. Len(order) : order[i] # << w, n >>
  <2>1. n > CountIn(order, w)
    BY <1>1 DEF n, Count, CountIn
  <2> QED BY <1>1, <1>4, <1>7, <1>8, <2>1
<1>11. \A i, j \in 1 .. Len(order') : order'[i] = order'[j] => i = j
  <2>1. \A i, j \in 1 .. Len(order) : order[i] = order[j] => i = j
    BY DEF CallsInv
  <2> SUFFICES ASSUME NEW i \in 1 .. Len(order'), NEW j \in 1 .. Len(order'), order'[i] = order'[j]
               PROVE  i = j
    OBVIOUS
  <2>2. CASE i \in 1 .. Len(order) /\ j \in 1 .. Len(order)
    BY <1>3, <2>1, <2>2
  <2>3. CASE i = new /\ j \in 1 .. Len(order)
    BY <1>3, <1>10, <2>3
  <2>4. CASE j = new /\ i \in 1 .. Len(order)
    BY <1>3, <1>10, <2>4
  <2> QED BY <1>6, <2>2, <2>3, <2>4
<1>12. \A b, c : Follows(order, b, c) => Follows(order', b, c)
  <2> SUFFICES ASSUME NEW b, NEW c, Follows(order, b, c), b.char = "nl"
               PROVE  c.at = 1 /\ \E k \in 1 .. Len(order') - 1 : order'[k] = Turn(b) /\ order'[k + 1] = Turn(c)
    BY DEF Follows
  <2>1. PICK k \in 1 .. Len(order) - 1 : order[k] = Turn(b) /\ order[k + 1] = Turn(c)
    BY DEF Follows
  <2>2. k \in 1 .. Len(order') - 1 /\ order'[k] = order[k] /\ order'[k + 1] = order[k + 1]
    BY <1>3, <2>1
  <2> QED BY <2>1, <2>2 DEF Follows
<1> QED BY <1>3, <1>5, <1>9, <1>11, <1>12 DEF n

LEMMA SendsKeeps == ASSUME IInv, NEW w \in Writer, Sends(w) PROVE IInv'
<1> DEFINE u == unsent[w]
<1>1. /\ CallsInv /\ peer = "open" /\ peer' = peer /\ u # << >>
      /\ order' = IF IsFirst(w) THEN Append(order, << w, Count(w) + 1 >>) ELSE order
      /\ torn' = (torn \/ \E v \in Writer \ {w} : MidLine(v))
      /\ UNCHANGED << line, received, reader >>
  BY DEF Sends, IInv, rVars
<1>2. /\ u \in Seq(Byte) /\ Len(u) \in Nat \ {0} /\ Head(u) = u[1]
      /\ wire \in Seq(Byte) /\ Len(wire) \in Nat
      /\ order \in Seq(Writer \X (Nat \ {0})) /\ Len(order) \in Nat
      /\ \A i \in 1 .. Len(u) :
           /\ u[i].by = w /\ Turn(u[i]) = Turn(u[1]) /\ u[i].at = u[1].at + i - 1
           /\ u[i].char = "nl" <=> i = Len(u)
      /\ IsFirst(w) <=> u[1].at = 1
      /\ IsFirst(w) => u[1].message = Count(w) + 1
      /\ u[1] \in Byte /\ 1 \in 1 .. Len(u)
  <2>1. u \in Seq(Byte) /\ wire \in Seq(Byte) /\ order \in Seq(Writer \X (Nat \ {0}))
    BY <1>1 DEF CallsInv
  <2>2. Len(u) \in Nat \ {0} /\ Head(u) = u[1] /\ Len(wire) \in Nat /\ Len(order) \in Nat
    BY <1>1, <2>1
  <2>3. RestOf(u, w) /\ (IsFirst(w) => u[1].message = Count(w) + 1)
    BY <1>1 DEF CallsInv
  <2>4. 1 \in 1 .. Len(u) /\ u[1] \in Byte
    BY <2>1, <2>2
  <2> QED BY <2>1, <2>2, <2>3, <2>4 DEF RestOf, IsFirst
<1>3. u[1].at \in Nat \ {0} /\ Turn(u[1]) = << w, u[1].message >>
  BY <1>2 DEF Byte, Turn
<1>4. PICK n \in 1 .. Len(u) :
        /\ wire' = wire \o SubSeq(u, 1, n)
        /\ unsent' = [unsent EXCEPT ![w] = SubSeq(u, n + 1, Len(u))]
  <2>1. Room \in Int /\ Room > 0
    BY <1>2, SocketAssumption DEF Sends, Room
  <2> DEFINE most == IF Len(u) <= Room THEN Len(u) ELSE Room
  <2>2. most \in 1 .. Len(u)
    BY <1>2, <2>1
  <2>3. \/ Took(w, most) \/ \E n \in 1 .. most - 1 : Took(w, n)
    BY DEF Sends
  <2> HIDE DEF most
  <2>4. \E n \in 1 .. Len(u) : Took(w, n)
    BY <1>2, <2>2, <2>3
  <2> QED BY <2>4 DEF Took
<1> DEFINE left == SubSeq(u, n + 1, Len(u))
<1> HIDE DEF left, u
<1>5. /\ left \in Seq(Byte) /\ wire' \in Seq(Byte)
      /\ Len(left) = Len(u) - n /\ Len(wire') = Len(wire) + n
      /\ \A i \in 1 .. Len(left) : left[i] = u[n + i]
      /\ \A i \in 1 .. Len(wire) : wire'[i] = wire[i]
      /\ \A i \in 1 .. n : wire'[Len(wire) + i] = u[i]
  <2>1. left = SubSeq(u, n + 1, Len(u)) /\ wire' = wire \o SubSeq(u, 1, n)
    BY <1>4 DEF left
  <2>2. u \in Seq(Byte) /\ wire \in Seq(Byte) /\ n \in 1 .. Len(u)
    BY <1>2
  <2>3. /\ left \in Seq(Byte) /\ Len(left) = Len(u) - n
        /\ \A i \in 1 .. Len(left) : left[i] = u[n + i]
    BY <2>1, <2>2, RestOfBytes
  <2>4. /\ wire' \in Seq(Byte) /\ Len(wire') = Len(wire) + n
        /\ \A i \in 1 .. Len(wire) : wire'[i] = wire[i]
        /\ \A i \in 1 .. n : wire'[Len(wire) + i] = u[i]
    BY <2>1, <2>2, BytesAdded
  <2> QED BY <2>3, <2>4
<1>6. \A v \in Writer : unsent'[v] = IF v = w THEN left ELSE unsent[v]
  BY <1>1, <1>4 DEF CallsInv, left
<1>7. IsFirst(w) => Count(w) + 1 \in 1 .. Len(Messages[w])
  BY <1>2, ByteIs
<1>8. /\ order' \in Seq(Writer \X (Nat \ {0})) /\ Len(order') \in Nat /\ Len(order) <= Len(order')
      /\ \A k \in 1 .. Len(order) : order'[k] = order[k]
      /\ \A v \in Writer : v # w => Count(v)' = Count(v)
      /\ \A k \in 1 .. Len(order') :
           order'[k][2] <= CountIn(order', order'[k][1]) /\ order'[k][2] \in 1 .. Len(Messages[order'[k][1]])
      /\ \A i, j \in 1 .. Len(order') : order'[i] = order'[j] => i = j
      /\ \A b, c : Follows(order, b, c) => Follows(order', b, c)
      /\ IsFirst(w) => Len(order') = Len(order) + 1 /\ order'[Len(order')] = Turn(u[1])
      /\ ~IsFirst(w) => order' = order
  <2>1. CASE IsFirst(w)
    <3>1. order' = Append(order, << w, Count(w) + 1 >>)
      BY <1>1, <2>1
    <3>2. << w, Count(w) + 1 >> = Turn(u[1])
      BY <1>2, <1>3, <2>1
    <3>3. \A v \in Writer : Count(v) \in Nat
      BY <1>1, CountIs
    <3>4. /\ order' \in Seq(Writer \X (Nat \ {0})) /\ Len(order') = Len(order) + 1
          /\ \A k \in 1 .. Len(order) : order'[k] = order[k]
          /\ order'[Len(order) + 1] = << w, Count(w) + 1 >>
          /\ \A v \in Writer : Count(v)' = Count(v) + (IF v = w THEN 1 ELSE 0)
          /\ \A k \in 1 .. Len(order') :
               order'[k][2] <= CountIn(order', order'[k][1]) /\ order'[k][2] \in 1 .. Len(Messages[order'[k][1]])
          /\ \A i, j \in 1 .. Len(order') : order'[i] = order'[j] => i = j
          /\ \A b, c : Follows(order, b, c) => Follows(order', b, c)
      BY <1>1, <1>7, <2>1, <3>1, OrderGrows
    <3>5. Len(order') \in Nat /\ Len(order) <= Len(order')
      BY <1>2, <3>4
    <3>6. \A v \in Writer : v # w => Count(v)' = Count(v)
      BY <3>3, <3>4
    <3> QED BY <2>1, <3>2, <3>4, <3>5, <3>6
  <2>2. CASE ~IsFirst(w)
    <3>1. order' = order
      BY <1>1, <2>2
    <3>2. \A v \in Writer : Count(v)' = Count(v)
      BY <3>1 DEF Count
    <3> QED BY <1>1, <1>2, <2>2, <3>1, <3>2 DEF CallsInv
  <2> QED BY <2>1, <2>2
<1>9. left # << >> <=> n < Len(u)
  BY <1>2, <1>5
<1>10. /\ RestOf(left, w)
       /\ left # << >> =>
            /\ Head(left) = left[1] /\ left[1] = u[n + 1]
            /\ left[1].at = u[1].at + n /\ left[1].at # 1
  <2>1. ASSUME NEW i \in 1 .. Len(left)
        PROVE  /\ left[i].by = w /\ Turn(left[i]) = Turn(u[1]) /\ left[i].at = u[1].at + n + i - 1
               /\ left[i].char = "nl" <=> i = Len(left)
    <3>1. n + i \in 1 .. Len(u) /\ left[i] = u[n + i] /\ (n + i = Len(u) <=> i = Len(left))
      BY <1>2, <1>5
    <3>2. /\ u[n + i].by = w /\ Turn(u[n + i]) = Turn(u[1]) /\ u[n + i].at = u[1].at + (n + i) - 1
          /\ u[n + i].char = "nl" <=> n + i = Len(u)
      BY <1>2, <3>1
    <3>3. u[1].at + (n + i) - 1 = u[1].at + n + i - 1
      BY <1>3
    <3> QED BY <3>1, <3>2, <3>3
  <2>2. ASSUME left # << >>
        PROVE  /\ Head(left) = left[1] /\ left[1] = u[n + 1] /\ 1 \in 1 .. Len(left)
               /\ left[1].at = u[1].at + n /\ left[1].at # 1
    <3>1. Head(left) = left[1] /\ 1 \in 1 .. Len(left)
      BY <1>5, <2>2
    <3>2. left[1] = u[n + 1] /\ left[1].at = u[1].at + n + 1 - 1
      BY <1>5, <2>1, <3>1
    <3> QED BY <1>2, <1>3, <3>1, <3>2
  <2>3. RestOf(left, w)
    <3> SUFFICES ASSUME NEW i \in 1 .. Len(left)
                 PROVE  /\ left[i].by = w /\ Turn(left[i]) = Turn(left[1])
                        /\ left[i].at = left[1].at + i - 1
                        /\ left[i].char = "nl" <=> i = Len(left)
      BY DEF RestOf
    <3>1. left # << >> /\ 1 \in 1 .. Len(left)
      BY <1>2, <1>5
    <3>2. Turn(left[1]) = Turn(u[1]) /\ left[1].at = u[1].at + n
      BY <2>1, <2>2, <3>1
    <3> QED BY <1>3, <2>1, <3>2
  <2> QED BY <2>2, <2>3
<1>11. CallsInv'
  <2>1. unsent' \in [Writer -> Seq(Byte)]
    BY <1>1, <1>4, <1>5 DEF CallsInv, left
  <2>2. ASSUME NEW v \in Writer, unsent'[v] # << >>
        PROVE  /\ RestOf(unsent'[v], v)
               /\ Head(unsent'[v]).at = 1 => unsent'[v][1].message = Count(v)' + 1
    <3>1. CASE v = w
      BY <1>6, <1>10, <2>2, <3>1
    <3>2. CASE v # w
      BY <1>1, <1>6, <1>8, <2>2, <3>2 DEF CallsInv, IsFirst
    <3> QED BY <3>1, <3>2
  <2>3. torn' \in BOOLEAN
    BY <1>1, Zenon
  <2> QED BY <1>1, <1>5, <1>8, <2>1, <2>2, <2>3 DEF CallsInv, IsFirst
<1>12. MidLines' \ {w} = MidLines \ {w} /\ (w \in MidLines <=> ~IsFirst(w))
       /\ (w \in MidLines' <=> n < Len(u))
  <2>1. w \in MidLines <=> ~IsFirst(w)
    BY <1>1 DEF MidLines, MidLine, u
  <2>2. w \in MidLines' <=> n < Len(u)
    BY <1>6, <1>9, <1>10 DEF MidLines, MidLine, IsFirst
  <2>3. MidLines' \ {w} = MidLines \ {w}
    BY <1>6 DEF MidLines, MidLine, IsFirst
  <2> QED BY <2>1, <2>2, <2>3
<1>13. SUFFICES ASSUME ~torn' PROVE StreamInv'
  BY <1>11 DEF IInv, StreamInv
<1>14. ~torn /\ MidLines \subseteq {w}
  BY <1>1, <1>13 DEF MidLines
<1>15. /\ \A j \in 1 .. Len(wire) - 1 : Follows(order, wire[j], wire[j + 1])
       /\ wire # << >> => Expected(order, received, line, wire[1])
       /\ IF wire = << >> THEN Caught ELSE Behind(wire[Len(wire)])
       /\ Len(received) <= Len(order)
       /\ \A i \in 1 .. Len(received) :
            Prefix(received[i], order[i][1], order[i][2], LineLen(order[i][1], order[i][2]))
  BY <1>1, <1>14 DEF IInv, StreamInv
<1>16. order'[Len(order')] = Turn(u[1]) /\ Len(order') > 0
  <2>1. CASE IsFirst(w)
    BY <1>2, <1>8, <2>1
  <2>2. CASE ~IsFirst(w)
    <3>1. MidLines = {w} /\ order' = order
      BY <1>8, <1>12, <1>14, <2>2
    <3>2. CASE wire = << >>
      BY <1>15, <3>1, <3>2 DEF Caught, Expected, u
    <3>3. CASE wire # << >>
      BY <1>15, <3>1, <3>3 DEF Behind, Follows, u
    <3> QED BY <3>2, <3>3
  <2> QED BY <2>1, <2>2
<1>17. ASSUME wire # << >> PROVE Follows(order', wire[Len(wire)], u[1])
  <2>1. CASE IsFirst(w)
    <3>1. MidLines = {}
      BY <1>12, <1>14, <2>1
    <3>2. /\ Len(order) > 0 /\ order[Len(order)] = Turn(wire[Len(wire)])
          /\ wire[Len(wire)].char = "nl"
      BY <1>15, <1>17, <3>1 DEF Behind
    <3>3. /\ Len(order) \in 1 .. Len(order') - 1 /\ order'[Len(order)] = Turn(wire[Len(wire)])
          /\ order'[Len(order) + 1] = Turn(u[1]) /\ u[1].at = 1
      BY <1>2, <1>8, <2>1, <3>2
    <3> QED BY <3>2, <3>3 DEF Follows
  <2>2. CASE ~IsFirst(w)
    <3>1. MidLines = {w} /\ order' = order
      BY <1>8, <1>12, <1>14, <2>2
    <3> QED BY <1>15, <1>17, <3>1 DEF Behind, u
  <2> QED BY <2>1, <2>2
<1>18. \A j \in 1 .. Len(wire') - 1 : Follows(order', wire'[j], wire'[j + 1])
  <2> SUFFICES ASSUME NEW j \in 1 .. Len(wire') - 1 PROVE Follows(order', wire'[j], wire'[j + 1])
    OBVIOUS
  <2>1. CASE j < Len(wire)
    <3>1. j \in 1 .. Len(wire) - 1 /\ j \in 1 .. Len(wire) /\ j + 1 \in 1 .. Len(wire)
      BY <1>2, <1>5, <2>1
    <3> QED BY <1>5, <1>8, <1>15, <3>1
  <2>2. CASE j = Len(wire)
    <3>1. wire # << >> /\ j \in 1 .. Len(wire) /\ 1 \in 1 .. n
      BY <1>2, <1>5, <2>2
    <3>2. wire'[j] = wire[Len(wire)] /\ wire'[j + 1] = u[1]
      BY <1>5, <2>2, <3>1
    <3> QED BY <1>17, <3>1, <3>2
  <2>3. CASE j > Len(wire)
    <3>1. PICK i \in 1 .. n - 1 : j = Len(wire) + i
      <4>1. j - Len(wire) \in 1 .. n - 1 /\ j = Len(wire) + (j - Len(wire))
        BY <1>2, <1>5, <2>3
      <4> QED BY <4>1
    <3>2. /\ i \in 1 .. n /\ i + 1 \in 1 .. n /\ i \in 1 .. Len(u) /\ i + 1 \in 1 .. Len(u) /\ i # Len(u)
          /\ j + 1 = Len(wire) + (i + 1)
      BY <1>2, <3>1
    <3>3. wire'[j] = u[i] /\ wire'[j + 1] = u[i + 1]
      BY <1>5, <3>1, <3>2
    <3>4. Turn(u[i + 1]) = Turn(u[i]) /\ u[i].char # "nl"
      BY <1>2, <3>2
    <3>5. u[i + 1].at = u[1].at + (i + 1) - 1 /\ u[i].at = u[1].at + i - 1
      BY <1>2, <3>2
    <3>6. u[i + 1].at = u[i].at + 1
      <4>1. ASSUME NEW a \in Nat, NEW k \in Nat PROVE a + (k + 1) - 1 = (a + k - 1) + 1
        OBVIOUS
      <4>2. i \in Nat /\ u[1].at \in Nat
        BY <1>2, <1>3, <3>2
      <4>3. u[1].at + (i + 1) - 1 = (u[1].at + i - 1) + 1
        BY <4>1, <4>2
      <4> QED BY <3>5, <4>3
    <3> QED BY <3>3, <3>4, <3>6 DEF Follows
  <2> QED BY <1>2, <1>5, <2>1, <2>2, <2>3
<1>19. wire' # << >> /\ Len(wire') \in Nat \ {0} /\ wire'[Len(wire')] = u[n]
       /\ wire'[1] = IF wire = << >> THEN u[1] ELSE wire[1]
  <2>1. Len(wire') \in Nat \ {0} /\ wire' # << >> /\ n \in 1 .. n /\ 1 \in 1 .. n
    BY <1>2, <1>5
  <2>2. wire'[Len(wire')] = u[n]
    BY <1>5, <2>1
  <2>3. CASE wire = << >>
    <3>1. Len(wire) = 0 /\ Len(wire) + 1 = 1
      BY <2>3
    <3> QED BY <1>5, <2>1, <2>2, <2>3, <3>1
  <2>4. CASE wire # << >>
    <3>1. 1 \in 1 .. Len(wire)
      BY <1>2, <2>4
    <3> QED BY <1>5, <2>1, <2>2, <2>4, <3>1
  <2> QED BY <2>3, <2>4
<1>20. Len(received) \in Nat
  BY <1>1 DEF CallsInv
<1>21. Expected(order', received, line, wire'[1])
  <2>1. \A b : Expected(order, received, line, b) => Expected(order', received, line, b)
    <3> SUFFICES ASSUME NEW b, Expected(order, received, line, b)
                 PROVE  Expected(order', received, line, b)
      OBVIOUS
    <3>1. Len(received) + 1 <= Len(order)
      BY DEF Expected
    <3>2. Len(received) + 1 \in 1 .. Len(order) /\ Len(received) + 1 <= Len(order')
      <4>1. Len(order) \in Nat /\ Len(order') \in Nat /\ Len(order) <= Len(order')
        BY <1>2, <1>8
      <4> QED BY <1>20, <3>1, <4>1
    <3>3. order'[Len(received) + 1] = order[Len(received) + 1]
      BY <1>8, <3>2
    <3> QED BY <3>2, <3>3 DEF Expected
  <2>2. CASE wire # << >>
    BY <1>15, <1>19, <2>1, <2>2
  <2>3. CASE wire = << >> /\ ~IsFirst(w)
    <3>1. MidLines = {w}
      BY <1>12, <1>14, <2>3
    <3>2. Expected(order, received, line, u[1])
      BY <1>15, <2>3, <3>1 DEF Caught, u
    <3> QED BY <1>19, <2>1, <2>3, <3>2
  <2>4. CASE wire = << >> /\ IsFirst(w)
    <3>1. MidLines = {}
      BY <1>12, <1>14, <2>4
    <3>2. Len(received) = Len(order) /\ line = << >>
      BY <1>15, <2>4, <3>1 DEF Caught
    <3>3. Prefix(line, u[1].by, u[1].message, u[1].at)
      BY <1>2, <2>4, <3>2, PrefixEmpty
    <3> QED BY <1>2, <1>8, <1>19, <2>4, <3>2, <3>3 DEF Expected
  <2> QED BY <2>2, <2>3, <2>4
<1>22. Behind(wire[Len(wire)])'
  <2>1. order'[Len(order')] = Turn(u[n]) /\ u[n].by = w /\ (u[n].char = "nl" <=> n = Len(u))
    BY <1>2, <1>16
  <2>2. CASE n = Len(u)
    <3>1. MidLines' = {}
      BY <1>12, <1>14, <2>2
    <3> QED BY <1>16, <1>19, <2>1, <2>2, <3>1 DEF Behind
  <2>3. CASE n < Len(u)
    <3>1. MidLines' = {w}
      BY <1>12, <1>14, <2>3
    <3>2. left # << >> /\ left[1] = u[n + 1] /\ n + 1 \in 1 .. Len(u) /\ unsent'[w] = left
      BY <1>2, <1>6, <1>9, <1>10, <2>3
    <3>3. Turn(u[n + 1]) = Turn(u[n])
      BY <1>2, <3>2
    <3>4. u[n + 1].at = u[1].at + (n + 1) - 1 /\ u[n].at = u[1].at + n - 1
      BY <1>2, <3>2
    <3>5. u[n + 1].at = u[n].at + 1
      <4>1. ASSUME NEW a \in Nat, NEW k \in Nat PROVE a + (k + 1) - 1 = (a + k - 1) + 1
        OBVIOUS
      <4>2. n \in Nat /\ u[1].at \in Nat
        BY <1>2, <1>3
      <4>3. u[1].at + (n + 1) - 1 = (u[1].at + n - 1) + 1
        BY <4>1, <4>2
      <4> QED BY <3>4, <4>3
    <3>6. u[n].char # "nl"
      <4>1. n # Len(u)
        BY <1>2, <2>3
      <4> QED BY <2>1, <4>1
    <3>7. Follows(order', u[n], unsent'[w][1])
      BY <3>2, <3>3, <3>5, <3>6 DEF Follows
    <3> QED BY <1>16, <1>19, <2>1, <3>1, <3>6, <3>7 DEF Behind
  <2> QED BY <1>2, <2>2, <2>3
<1>23. /\ Len(received) <= Len(order')
       /\ \A i \in 1 .. Len(received) :
            Prefix(received[i], order'[i][1], order'[i][2], LineLen(order'[i][1], order'[i][2]))
  <2>1. Len(received) <= Len(order')
    BY <1>2, <1>8, <1>15, <1>20
  <2>2. \A i \in 1 .. Len(received) : i \in 1 .. Len(order)
    BY <1>2, <1>15, <1>20
  <2>3. \A i \in 1 .. Len(received) : order'[i] = order[i]
    BY <1>8, <2>2
  <2>4. \A i \in 1 .. Len(received) :
          Prefix(received[i], order[i][1], order[i][2], LineLen(order[i][1], order[i][2]))
    BY <1>15
  <2> QED BY <2>1, <2>3, <2>4
<1> QED BY <1>1, <1>18, <1>19, <1>21, <1>22, <1>23 DEF StreamInv
-----------------------------------------------------------------------------
(* A byte is received: it ends the line, is skipped or is added to it.     *)
LEMMA TailIs ==
  ASSUME NEW q \in Seq(Byte), q # << >>
  PROVE  /\ Tail(q) \in Seq(Byte) /\ Len(q) \in Nat \ {0} /\ Len(Tail(q)) = Len(q) - 1
         /\ \A i \in 1 .. Len(Tail(q)) : Tail(q)[i] = q[i + 1]
         /\ Head(q) = q[1] /\ q[1] \in Byte /\ Len(Tail(q)) \in Nat
         /\ Tail(q) = << >> <=> Len(q) = 1
<1>1. Len(q) \in Nat /\ Len(q) # 0
  BY EmptySeq
<1>2. /\ Tail(q) \in Seq(Byte) /\ Len(Tail(q)) = Len(q) - 1
      /\ \A i \in 1 .. Len(Tail(q)) : Tail(q)[i] = q[i + 1]
      /\ Head(q) = q[1]
  BY HeadTailProperties
<1>3. q[1] \in Byte
  BY <1>1, ElementOfSeq
<1>4. Tail(q) = << >> <=> Len(Tail(q)) = 0
  BY <1>2, EmptySeq
<1> QED BY <1>1, <1>2, <1>3, <1>4

LEMMA ReceivesKeeps == ASSUME IInv, Receives PROVE IInv'
<1> DEFINE c == wire[1]
           next == wire[2]
<1>1. /\ CallsInv /\ wire # << >> /\ wire' = Tail(wire) /\ wire \in Seq(Byte)
      /\ UNCHANGED << peer, unsent, order, torn >>
  BY DEF Receives, IInv, CallsInv, wVars
<1>2. /\ wire' \in Seq(Byte) /\ Len(wire) \in Nat \ {0} /\ Len(wire') = Len(wire) - 1
      /\ \A i \in 1 .. Len(wire') : wire'[i] = wire[i + 1]
      /\ Head(wire) = c /\ c \in Byte /\ Len(wire') \in Nat
      /\ wire' = << >> <=> Len(wire) = 1
  BY <1>1, TailIs
<1>3. \/ /\ c.char = "nl" /\ reader' = "out" /\ received' = Append(received, line)
         /\ line' = << >>
      \/ c.char = "cr" /\ reader' = "check" /\ received' = received /\ line' = line
      \/ c.char = "text" /\ reader' = "check" /\ line' = Append(line, c) /\ received' = received
  BY <1>2 DEF Receives
<1>4. /\ line \in Seq(Byte) /\ received \in Seq(Seq(Byte)) /\ Len(received) \in Nat
      /\ order \in Seq(Writer \X (Nat \ {0})) /\ Len(order) \in Nat
  BY <1>1 DEF CallsInv
<1> HIDE DEF c, next
<1>5. /\ line' \in Seq(Byte) /\ received' \in Seq(Seq(Byte))
      /\ reader' = "out" => line' = << >>
  <2>1. << >> \in Seq(Byte) /\ Append(received, line) \in Seq(Seq(Byte)) /\ Append(line, c) \in Seq(Byte)
    BY <1>2, <1>4, AppendProperties, EmptySeq
  <2> QED BY <1>3, <1>4, <2>1
<1>6. \A v \in Writer : Count(v)' = Count(v)
  BY <1>1 DEF Count
<1>7. CallsInv'
  BY <1>1, <1>2, <1>5, <1>6 DEF CallsInv, IsFirst
<1>8. MidLines' = MidLines
  BY <1>1 DEF MidLines, MidLine, IsFirst
<1>9. SUFFICES ASSUME ~torn PROVE StreamInv'
  BY <1>1, <1>7 DEF IInv, StreamInv
<1>10. /\ \A j \in 1 .. Len(wire) - 1 : Follows(order, wire[j], wire[j + 1])
       /\ Expected(order, received, line, c)
       /\ peer = "open" => Behind(wire[Len(wire)])
       /\ \A i \in 1 .. Len(received) :
            Prefix(received[i], order[i][1], order[i][2], LineLen(order[i][1], order[i][2]))
  BY <1>1, <1>9 DEF IInv, StreamInv, c
<1>11. /\ Len(received) + 1 <= Len(order) /\ order[Len(received) + 1] = << c.by, c.message >>
       /\ Prefix(line, c.by, c.message, c.at)
  BY <1>10 DEF Expected, Turn
<1>12. \A j \in 1 .. Len(wire') - 1 : Follows(order', wire'[j], wire'[j + 1])
  <2> SUFFICES ASSUME NEW j \in 1 .. Len(wire') - 1 PROVE Follows(order', wire'[j], wire'[j + 1])
    OBVIOUS
  <2>1. j \in 1 .. Len(wire') /\ j + 1 \in 1 .. Len(wire') /\ j + 1 \in 1 .. Len(wire) - 1
    BY <1>2
  <2>2. wire'[j] = wire[j + 1] /\ wire'[j + 1] = wire[j + 1 + 1]
    BY <1>2, <2>1
  <2> QED BY <1>1, <1>10, <2>1, <2>2
<1>13. Len(wire) # 1 => Follows(order, c, next) /\ wire'[1] = next
  BY <1>2, <1>10 DEF c, next
(* What the reader has after c, and the byte it needs then.                *)
<1>14. /\ c.char # "nl" => received' = received /\ Prefix(line', c.by, c.message, c.at + 1)
       /\ c.char = "nl" =>
            /\ received' = Append(received, line) /\ line' = << >>
            /\ Prefix(line, c.by, c.message, LineLen(c.by, c.message))
  <2>1. CASE c.char = "nl"
    <3>1. c.at = LineLen(c.by, c.message)
      BY <1>2, <2>1, ByteIs
    <3> QED BY <1>3, <1>11, <2>1, <3>1
  <2>2. CASE c.char = "cr"
    <3>1. Prefix(line, c.by, c.message, c.at + 1)
      BY <1>2, <1>11, <2>2, PrefixSkips
    <3> QED BY <1>3, <2>2, <3>1
  <2>3. CASE c.char = "text"
    <3>1. Prefix(Append(line, c), c.by, c.message, c.at + 1)
      BY <1>2, <1>11, <2>3, PrefixGrows
    <3> QED BY <1>3, <2>3, <3>1
  <2> QED BY <1>3, <2>1, <2>2, <2>3
<1>15. c.char = "nl" =>
         /\ Len(received') = Len(received) + 1
         /\ \A i \in 1 .. Len(received) : received'[i] = received[i]
         /\ received'[Len(received) + 1] = line
  <2>1. /\ Len(Append(received, line)) = Len(received) + 1
        /\ \A i \in 1 .. Len(received) : Append(received, line)[i] = received[i]
        /\ Append(received, line)[Len(received) + 1] = line
    BY <1>4, AppendProperties
  <2> QED BY <1>14, <2>1
<1>16. /\ Len(received') <= Len(order')
       /\ \A i \in 1 .. Len(received') :
            Prefix(received'[i], order'[i][1], order'[i][2], LineLen(order'[i][1], order'[i][2]))
  <2>1. CASE c.char # "nl"
    <3>1. received' = received
      BY <1>14, <2>1
    <3> QED BY <1>1, <1>4, <1>10, <1>11, <3>1
  <2>2. CASE c.char = "nl"
    <3>1. Len(received') <= Len(order')
      BY <1>1, <1>4, <1>11, <1>15, <2>2
    <3>2. ASSUME NEW i \in 1 .. Len(received')
          PROVE  Prefix(received'[i], order[i][1], order[i][2], LineLen(order[i][1], order[i][2]))
      <4>1. i \in 1 .. Len(received) \/ i = Len(received) + 1
        BY <1>4, <1>15, <2>2
      <4>2. CASE i \in 1 .. Len(received)
        BY <1>10, <1>15, <2>2, <4>2
      <4>3. CASE i = Len(received) + 1
        <5>1. order[i][1] = c.by /\ order[i][2] = c.message /\ received'[i] = line
          BY <1>11, <1>15, <2>2, <4>3
        <5> QED BY <1>14, <2>2, <5>1
      <4> QED BY <4>1, <4>2, <4>3
    <3> QED BY <1>1, <3>1, <3>2
  <2> QED BY <2>1, <2>2
<1>17. ASSUME NEW d, Follows(order, c, d)
       PROVE  Expected(order, received', line', d)
  <2>1. CASE c.char # "nl"
    <3>1. Turn(d) = Turn(c) /\ d.by = c.by /\ d.message = c.message /\ d.at = c.at + 1
      BY <1>17, <2>1 DEF Follows, Turn
    <3>2. received' = received /\ Prefix(line', d.by, d.message, d.at)
      BY <1>14, <2>1, <3>1
    <3> QED BY <1>11, <3>1, <3>2 DEF Expected, Turn
  <2>2. CASE c.char = "nl"
    <3>1. PICK k \in 1 .. Len(order) - 1 : order[k] = Turn(c) /\ order[k + 1] = Turn(d)
      BY <1>17, <2>2 DEF Follows
    <3>2. k \in 1 .. Len(order) /\ Len(received) + 1 \in 1 .. Len(order) /\ k \in Nat
      BY <1>4, <1>11, <3>1
    <3>3. k = Len(received) + 1
      <4>1. order[k] = order[Len(received) + 1]
        BY <1>11, <3>1 DEF Turn
      <4> QED BY <1>1, <3>2, <4>1 DEF CallsInv
    <3>4. Len(received') + 1 = k + 1 /\ k + 1 <= Len(order)
      BY <1>4, <1>15, <2>2, <3>1, <3>3
    <3>5. d.at = 1 /\ Prefix(line', d.by, d.message, d.at)
      BY <1>14, <1>17, <2>2, PrefixEmpty DEF Follows
    <3> QED BY <3>1, <3>4, <3>5 DEF Expected
  <2> QED BY <2>1, <2>2
<1>18. wire' # << >> => Expected(order', received', line', wire'[1])
  BY <1>1, <1>2, <1>13, <1>17
<1>19. ASSUME peer = "open", wire' = << >> PROVE Caught'
  <2>1. Len(wire) = 1 /\ Behind(c)
    BY <1>2, <1>10, <1>19 DEF c
  <2>2. Len(order) > 0 /\ order[Len(order)] = Turn(c)
    BY <2>1 DEF Behind
  <2>3. Len(received) + 1 = Len(order)
    <3>1. Len(order) \in 1 .. Len(order) /\ Len(received) + 1 \in 1 .. Len(order)
      BY <1>4, <1>11, <2>2
    <3>2. order[Len(order)] = order[Len(received) + 1]
      BY <1>11, <2>2 DEF Turn
    <3> QED BY <1>1, <3>1, <3>2 DEF CallsInv
  <2>4. CASE c.char = "nl"
    <3>1. MidLines = {}
      BY <2>1, <2>4 DEF Behind
    <3> QED BY <1>1, <1>8, <1>14, <1>15, <2>3, <2>4, <3>1 DEF Caught
  <2>5. CASE c.char # "nl"
    <3>1. MidLines = {c.by} /\ Follows(order, c, unsent[c.by][1])
      BY <2>1, <2>5 DEF Behind
    <3>2. Expected(order, received', line', unsent[c.by][1])
      BY <1>17, <3>1
    <3>3. received' = received /\ c.by \in Writer
      BY <1>2, <1>14, <2>5, ByteIs
    <3> QED BY <1>1, <1>8, <2>3, <3>1, <3>2, <3>3 DEF Caught
  <2> QED BY <2>4, <2>5
<1>20. ASSUME peer = "open", wire' # << >> PROVE Behind(wire[Len(wire)])'
  <2>1. Behind(wire[Len(wire)]) /\ wire'[Len(wire')] = wire[Len(wire)]
    <3>1. Len(wire') \in 1 .. Len(wire') /\ Len(wire') + 1 = Len(wire)
      BY <1>2, <1>20
    <3> QED BY <1>2, <1>10, <1>20, <3>1
  <2> QED BY <1>1, <1>8, <2>1 DEF Behind
<1> QED BY <1>1, <1>12, <1>16, <1>18, <1>19, <1>20 DEF StreamInv

LEMMA IInvNext == IInv /\ [Next]_vars => IInv'
<1> SUFFICES ASSUME IInv, [Next]_vars PROVE IInv'
  OBVIOUS
<1>1. ASSUME NEW w \in Writer, SendLine(w) PROVE IInv'
  BY <1>1, SendLineKeeps
<1>2. ASSUME NEW w \in Writer, Sends(w) PROVE IInv'
  BY <1>2, SendsKeeps
<1>3. ASSUME NEW w \in Writer, SendInterrupted(w) PROVE IInv'
  BY <1>3, QuietKeeps DEF SendInterrupted, wVars, rVars
<1>4. CASE Ends
  BY <1>4, EndsKeeps
<1>5. CASE ReaderRuns
  <2>1. CASE ReceiveLine
    BY <2>1, QuietKeeps DEF ReceiveLine, wVars
  <2>2. CASE ChecksTimeout \/ Selects \/ SelectTimesOut \/ RecvInterrupted \/ ReceivesEnd
    <3>1. \E to \in {"check", "select", "recv", "ended"} : Goes(to)
      BY <2>2 DEF ChecksTimeout, Selects, SelectTimesOut, RecvInterrupted, ReceivesEnd, ReturnsNone
    <3> QED BY <3>1, QuietKeeps DEF Goes, wVars
  <2>3. CASE Receives
    BY <2>3, ReceivesKeeps
  <2> QED BY <1>5, <2>1, <2>2, <2>3 DEF ReaderRuns
<1>6. CASE Tick
  BY <1>6, QuietKeeps DEF Tick, wVars, rVars
<1>7. CASE UNCHANGED vars
  BY <1>7, QuietKeeps DEF vars, wVars, rVars
<1> QED BY <1>1, <1>2, <1>3, <1>4, <1>5, <1>6, <1>7 DEF Next

LEMMA IInvIsWhole == IInv => LinesAreWhole
<1> SUFFICES ASSUME IInv, ~torn
             PROVE  /\ Len(received) <= Len(order)
                    /\ \A i \in DOMAIN received : IsText(received[i], Line(order[i][1], order[i][2]))
  BY DEF LinesAreWhole
<1>1. /\ DOMAIN received = 1 .. Len(received) /\ Len(received) \in Nat
      /\ order \in Seq(Writer \X (Nat \ {0})) /\ Len(order) \in Nat
  BY LenProperties DEF IInv, CallsInv
<1>2. /\ Len(received) <= Len(order)
      /\ \A i \in 1 .. Len(received) :
           Prefix(received[i], order[i][1], order[i][2], LineLen(order[i][1], order[i][2]))
  BY DEF IInv, StreamInv
<1>3. \A i \in 1 .. Len(order) : order[i][1] \in Writer /\ order[i][2] \in 1 .. Len(Messages[order[i][1]])
  <2>1. \A i \in 1 .. Len(order) : order[i] \in Writer \X (Nat \ {0})
    BY <1>1
  <2> QED BY <2>1 DEF IInv, CallsInv
<1>4. \A i \in 1 .. Len(received) : i \in 1 .. Len(order)
  BY <1>1, <1>2
<1>5. \A i \in 1 .. Len(received) : IsText(received[i], Line(order[i][1], order[i][2]))
  BY <1>2, <1>3, <1>4, PrefixIsText
<1> QED BY <1>1, <1>2, <1>5

(* However send() and recv() cut the bytes and wherever the connection     *)
(* ends, as long as no thread's bytes came between two of another's line,  *)
(* what receive_line() returns are the lines of send_line(), whole, in the *)
(* order in which they were begun.                                         *)
THEOREM LinesAreWholeHolds == Spec => []LinesAreWhole
BY IInvInit, IInvNext, IInvIsWhole, PTL DEF Spec

-----------------------------------------------------------------------------
(* The bytes of each writer in s, and those in s before those in t.         *)
Rising(s) == \A i, j \in 1 .. Len(s) : i < j /\ s[i].by = s[j].by => Before(s[i], s[j])

Ahead(s, t) == \A i \in 1 .. Len(s), j \in 1 .. Len(t) : s[i].by = t[j].by => Before(s[i], t[j])

In(s, b) == \E i \in 1 .. Len(s) : s[i] = b

(* b was read, is on its way, or is left of a call.                         *)
Somewhere(b) ==
  \/ \E p \in 1 .. Len(received) : In(received[p], b)
  \/ In(line, b) \/ In(wire, b) \/ In(unsent[b.by], b)

(* The bytes of each writer are in his order, from the lines received to    *)
(* the rest of his call.                                                    *)
RisingInv ==
  /\ \A p \in 1 .. Len(received) :
       /\ Rising(received[p]) /\ Ahead(received[p], line) /\ Ahead(received[p], wire)
       /\ \A w \in Writer : Ahead(received[p], unsent[w])
  /\ \A p, q \in 1 .. Len(received) : p < q => Ahead(received[p], received[q])
  /\ Rising(line) /\ Ahead(line, wire) /\ Rising(wire)
  /\ \A w \in Writer : Rising(unsent[w]) /\ Ahead(line, unsent[w]) /\ Ahead(wire, unsent[w])

(* As long as the connection is open: a byte is there when its line has     *)
(* begun, and only then.                                                    *)
KeptInv ==
  peer = "open" =>
    /\ \A w \in Writer : Begun(w) <= Len(Messages[w])
    /\ \A b \in Byte : /\ Somewhere(b) => b.message <= Begun(b.by)
                       /\ b.message <= Begun(b.by) /\ b.char = "text" => Somewhere(b)

BytesInv == RisingInv /\ KeptInv

-----------------------------------------------------------------------------
LEMMA EmptyRises ==
  ASSUME NEW s
  PROVE  /\ Rising(<< >>) /\ Ahead(<< >>, s) /\ Ahead(s, << >>)
         /\ \A b : ~In(<< >>, b)
<1>1. 1 .. Len(<< >>) = {}
  BY EmptySeq
<1> QED BY <1>1 DEF Rising, Ahead, In

LEMMA BytesInvInit == Init => BytesInv
<1> SUFFICES ASSUME Init PROVE BytesInv
  OBVIOUS
<1>1. /\ wire = << >> /\ order = << >> /\ line = << >> /\ received = << >>
      /\ unsent = [w \in Writer |-> << >>]
  BY DEF Init
<1>2. /\ 1 .. Len(received) = {} /\ DOMAIN order = {}
      /\ \A w \in Writer : unsent[w] = << >>
  BY <1>1, EmptySeq
<1>3. RisingInv
  BY <1>1, <1>2, EmptyRises DEF RisingInv
<1>4. \A w \in Writer : Begun(w) = 0
  <2>1. \A w \in Writer : Count(w) = 0
    <3>1. \A w : {i \in DOMAIN order : order[i][1] = w} = {}
      BY <1>2
    <3> QED BY <3>1, FS_EmptySet DEF Count
  <2> QED BY <1>2, <2>1 DEF Begun
<1>5. KeptInv
  <2>1. ASSUME NEW b \in Byte
        PROVE  ~Somewhere(b) /\ ~(b.message <= Begun(b.by))
    <3>1. b.by \in Writer /\ b.message \in Nat \ {0}
      BY DEF Byte
    <3> QED BY <1>1, <1>2, <1>4, <3>1, EmptyRises DEF Somewhere
  <2>2. \A w \in Writer : Begun(w) <= Len(Messages[w])
    BY <1>4, SocketAssumption
  <2> QED BY <2>1, <2>2 DEF KeptInv
<1> QED BY <1>3, <1>5 DEF BytesInv

LEMMA BytesQuiet ==
  ASSUME BytesInv, UNCHANGED << wire, received, unsent, order, line >>,
         peer' = "open" => peer = "open"
  PROVE  BytesInv'
<1>1. RisingInv'
  BY DEF BytesInv, RisingInv
<1>2. \A b : Somewhere(b)' <=> Somewhere(b)
  BY DEF Somewhere
<1>3. \A w : Begun(w)' = Begun(w)
  BY DEF Begun, Count, IsFirst
<1>4. KeptInv'
  BY <1>2, <1>3 DEF BytesInv, KeptInv
<1> QED BY <1>1, <1>4 DEF BytesInv

LEMMA EndsKeepsBytes == ASSUME BytesInv, Ends PROVE BytesInv'
<1>1. /\ \A w \in Writer : unsent'[w] = << >>
      /\ peer' # "open" /\ wire' \in {wire, << >>}
      /\ UNCHANGED << order, line, received >>
  BY DEF Ends, rVars
<1>2. RisingInv'
  BY <1>1, EmptyRises DEF BytesInv, RisingInv
<1> QED BY <1>1, <1>2 DEF BytesInv, KeptInv

LEMMA InLine ==
  ASSUME NEW w \in Writer, NEW n \in 1 .. Len(Messages[w])
  PROVE  \A b : In(Line(w, n), b) <=> b \in Byte /\ b.by = w /\ b.message = n
<1> DEFINE l == Line(w, n)
<1>1. /\ l \in Seq(Byte) /\ Len(l) = LineLen(w, n) /\ Len(l) \in Nat \ {0}
      /\ \A i \in 1 .. Len(l) : l[i] \in Byte /\ Turn(l[i]) = << w, n >> /\ l[i].at = i
  BY LineBytes
<1> HIDE DEF l
<1>2. ASSUME NEW b, In(l, b)
      PROVE  b \in Byte /\ b.by = w /\ b.message = n
  BY <1>1, <1>2 DEF In, Turn
<1>3. ASSUME NEW b \in Byte, b.by = w, b.message = n
      PROVE  In(l, b)
  <2>1. b.at \in 1 .. Len(l)
    BY <1>1, <1>3, ByteIs
  <2>2. l[b.at] \in Byte /\ Turn(l[b.at]) = Turn(b) /\ l[b.at].at = b.at
    BY <1>1, <1>3, <2>1 DEF Turn
  <2>3. l[b.at] = b
    BY <2>2, ByteIs
  <2> QED BY <2>1, <2>3 DEF In
<1> QED BY <1>2, <1>3 DEF l

(* What is there are bytes of lines begun, so those of the next line are    *)
(* new and come last.                                                       *)
LEMMA SendLineKeepsBytes ==
  ASSUME CallsInv, BytesInv, NEW w \in Writer, SendLine(w) PROVE BytesInv'
<1> DEFINE n == Count(w) + 1
           l == Line(w, n)
<1>1. /\ unsent[w] = << >> /\ Count(w) < Len(Messages[w]) /\ peer = "open" /\ peer' = "open"
      /\ unsent' = [unsent EXCEPT ![w] = l]
      /\ UNCHANGED << wire, order, line, received >>
  BY DEF SendLine, rVars
<1>2. n \in 1 .. Len(Messages[w]) /\ Count(w) \in Nat
  <2>1. Count(w) \in Nat /\ Len(Messages[w]) \in Nat
    BY CountIs, SocketAssumption
  <2> QED BY <1>1, <2>1
<1> HIDE DEF n
<1>3. /\ l \in Seq(Byte) /\ Len(l) = LineLen(w, n) /\ Len(l) \in Nat \ {0}
      /\ \A i \in 1 .. Len(l) : l[i] \in Byte /\ Turn(l[i]) = << w, n >> /\ l[i].at = i
  BY <1>2, LineBytes
<1>4. \A b \in Byte : In(l, b) <=> b.by = w /\ b.message = n
  BY <1>2, InLine
<1> HIDE DEF l
<1>5. \A v \in Writer : unsent'[v] = IF v = w THEN l ELSE unsent[v]
  BY <1>1 DEF CallsInv
<1>6. /\ \A v \in Writer : v # w => Begun(v)' = Begun(v)
      /\ Begun(w) = Count(w) /\ Begun(w)' = n
  <2>1. \A v \in Writer : Count(v)' = Count(v)
    BY <1>1 DEF Count
  <2>2. l # << >> /\ Head(l).at = 1
    <3>1. l # << >> /\ Head(l) = l[1] /\ 1 \in 1 .. Len(l)
      BY <1>3
    <3> QED BY <1>3, <3>1
  <2> QED BY <1>1, <1>2, <1>5, <2>1, <2>2 DEF Begun, IsFirst, n
<1>7. \A b \in Byte : Somewhere(b)' <=> Somewhere(b) \/ (b.by = w /\ b.message = n)
  <2> SUFFICES ASSUME NEW b \in Byte PROVE Somewhere(b)' <=> Somewhere(b) \/ (b.by = w /\ b.message = n)
    OBVIOUS
  <2>1. b.by \in Writer /\ (b.by = w => ~In(unsent[b.by], b))
    BY <1>1, EmptyRises DEF Byte
  <2>2. In(unsent'[b.by], b) <=> In(unsent[b.by], b) \/ (b.by = w /\ b.message = n)
    BY <1>4, <1>5, <2>1
  <2>3. Somewhere(b)' <=> \/ \E p \in 1 .. Len(received) : In(received[p], b)
                          \/ In(line, b) \/ In(wire, b) \/ In(unsent'[b.by], b)
    BY <1>1 DEF Somewhere
  <2> QED BY <2>2, <2>3 DEF Somewhere
<1>8. KeptInv'
  <2> SUFFICES ASSUME NEW b \in Byte
               PROVE  /\ Somewhere(b)' => b.message <= Begun(b.by)'
                      /\ b.message <= Begun(b.by)' /\ b.char = "text" => Somewhere(b)'
    <3>1. \A v \in Writer : Begun(v)' <= Len(Messages[v])
      BY <1>1, <1>2, <1>6 DEF BytesInv, KeptInv
    <3> QED BY <3>1 DEF KeptInv
  <2>1. /\ Somewhere(b) => b.message <= Begun(b.by)
        /\ b.message <= Begun(b.by) /\ b.char = "text" => Somewhere(b)
    BY <1>1 DEF BytesInv, KeptInv
  <2>2. b.by \in Writer /\ b.message \in Nat
    BY DEF Byte
  <2>3. CASE b.by = w
    <3>1. Begun(b.by)' = n /\ Begun(b.by) = Count(w) /\ n = Count(w) + 1
      BY <1>6, <2>3 DEF n
    <3> QED BY <1>2, <1>7, <2>1, <2>2, <2>3, <3>1
  <2>4. CASE b.by # w
    <3>1. Begun(b.by)' = Begun(b.by)
      BY <1>6, <2>2, <2>4
    <3> QED BY <1>7, <2>1, <2>4, <3>1
  <2> QED BY <2>3, <2>4
<1>9. ASSUME NEW s \in Seq(Byte), \A i \in 1 .. Len(s) : s[i].by = w => Somewhere(s[i])
      PROVE  Ahead(s, l)
  <2> SUFFICES ASSUME NEW i \in 1 .. Len(s), NEW j \in 1 .. Len(l), s[i].by = l[j].by
               PROVE  Before(s[i], l[j])
    BY DEF Ahead
  <2>1. s[i] \in Byte /\ s[i].message \in Nat /\ l[j].by = w /\ l[j].message = n
    BY <1>3 DEF Turn, Byte
  <2>2. s[i].message <= Begun(w)
    BY <1>1, <1>9, <2>1 DEF BytesInv, KeptInv
  <2> QED BY <1>2, <1>6, <2>1, <2>2 DEF Before, n
<1>10. Ahead(wire, l) /\ Ahead(line, l) /\ \A p \in 1 .. Len(received) : Ahead(received[p], l)
  <2>1. wire \in Seq(Byte) /\ line \in Seq(Byte) /\ \A p \in 1 .. Len(received) : received[p] \in Seq(Byte)
    BY DEF CallsInv
  <2>2. /\ \A i \in 1 .. Len(wire) : Somewhere(wire[i])
        /\ \A i \in 1 .. Len(line) : Somewhere(line[i])
        /\ \A p \in 1 .. Len(received) : \A i \in 1 .. Len(received[p]) : Somewhere(received[p][i])
    BY DEF Somewhere, In
  <2> QED BY <1>9, <2>1, <2>2
<1>11. Rising(l)
  <2> SUFFICES ASSUME NEW i \in 1 .. Len(l), NEW j \in 1 .. Len(l), i < j
               PROVE  Before(l[i], l[j])
    BY DEF Rising
  <2>1. l[i].message = n /\ l[j].message = n /\ l[i].at = i /\ l[j].at = j
    BY <1>3 DEF Turn
  <2> QED BY <2>1 DEF Before
<1>12. RisingInv'
  BY <1>1, <1>5, <1>10, <1>11 DEF BytesInv, RisingInv
<1> QED BY <1>8, <1>12 DEF BytesInv

(* The rest of a line and the part that is taken from it have its bytes.    *)
Cut(q, u, all, left) ==
  /\ Rising(all) /\ Rising(left) /\ Ahead(all, left)
  /\ \A b : In(all, b) \/ In(left, b) <=> In(q, b) \/ In(u, b)
  /\ \A b : In(all, b) => In(q, b) \/ In(u, b)
  /\ \A b : In(q, b) => In(all, b)
  /\ \A s : Ahead(s, q) /\ Ahead(s, u) => Ahead(s, all) /\ Ahead(s, left)
  /\ \A s : Ahead(q, s) /\ Ahead(u, s) => Ahead(all, s)

LEMMA TakenBytes ==
  ASSUME NEW q \in Seq(Byte), NEW u \in Seq(Byte), NEW n \in 1 .. Len(u),
         NEW all, NEW left, all = q \o SubSeq(u, 1, n), left = SubSeq(u, n + 1, Len(u)),
         Rising(q), Rising(u), Ahead(q, u)
  PROVE  Cut(q, u, all, left)
<1>1. /\ left \in Seq(Byte) /\ Len(left) = Len(u) - n
      /\ \A i \in 1 .. Len(left) : left[i] = u[n + i]
  BY RestOfBytes
<1>2. /\ all \in Seq(Byte) /\ Len(all) = Len(q) + n
      /\ \A i \in 1 .. Len(q) : all[i] = q[i]
      /\ \A i \in 1 .. n : all[Len(q) + i] = u[i]
  BY BytesAdded
<1>3. n \in Nat /\ Len(u) \in Nat /\ Len(q) \in Nat
  OBVIOUS
<1>4. \A i \in 1 .. Len(left) : n + i \in 1 .. Len(u)
  BY <1>1, <1>3
<1>5. \A i \in 1 .. Len(q) : i \in 1 .. Len(all)
  BY <1>2, <1>3
<1>6. \A i \in 1 .. n : i \in 1 .. Len(u) /\ Len(q) + i \in 1 .. Len(all)
  BY <1>2, <1>3
<1>7. ASSUME NEW i \in 1 .. Len(all)
      PROVE  \/ i \in 1 .. Len(q) /\ all[i] = q[i]
             \/ i > Len(q) /\ i - Len(q) \in 1 .. n /\ all[i] = u[i - Len(q)]
  <2>1. CASE i <= Len(q)
    BY <1>2, <1>3, <2>1
  <2>2. CASE i > Len(q)
    <3>1. i - Len(q) \in 1 .. n /\ i = Len(q) + (i - Len(q))
      BY <1>2, <1>3, <2>2
    <3>2. all[Len(q) + (i - Len(q))] = u[i - Len(q)]
      BY <1>2, <3>1
    <3> QED BY <2>2, <3>1, <3>2
  <2> QED BY <1>2, <1>3, <2>1, <2>2
<1>8. ASSUME NEW i \in 1 .. Len(u)
      PROVE  \/ i \in 1 .. n
             \/ i - n \in 1 .. Len(left) /\ left[i - n] = u[i]
  <2>1. CASE i > n
    <3>1. i - n \in 1 .. Len(left) /\ n + (i - n) = i
      BY <1>1, <1>3, <2>1
    <3>2. left[i - n] = u[n + (i - n)]
      BY <1>1, <3>1
    <3> QED BY <3>1, <3>2
  <2> QED BY <1>3, <2>1
<1>9. Rising(all)
  <2> SUFFICES ASSUME NEW i \in 1 .. Len(all), NEW j \in 1 .. Len(all), i < j,
                      all[i].by = all[j].by
               PROVE  Before(all[i], all[j])
    BY DEF Rising
  <2>1. CASE i \in 1 .. Len(q) /\ all[i] = q[i] /\ j \in 1 .. Len(q) /\ all[j] = q[j]
    BY <2>1 DEF Rising
  <2>2. CASE /\ i \in 1 .. Len(q) /\ all[i] = q[i]
             /\ j > Len(q) /\ j - Len(q) \in 1 .. n /\ all[j] = u[j - Len(q)]
    BY <1>6, <2>2 DEF Ahead
  <2>3. CASE /\ i > Len(q) /\ i - Len(q) \in 1 .. n /\ all[i] = u[i - Len(q)]
             /\ j > Len(q) /\ j - Len(q) \in 1 .. n /\ all[j] = u[j - Len(q)]
    <3>1. i - Len(q) < j - Len(q)
      BY <1>2, <1>3
    <3>2. i - Len(q) \in 1 .. Len(u) /\ j - Len(q) \in 1 .. Len(u)
      BY <1>6, <2>3
    <3> QED BY <2>3, <3>1, <3>2 DEF Rising
  <2>4. ~(i > Len(q) /\ j \in 1 .. Len(q))
    BY <1>2, <1>3
  <2> QED BY <1>7, <2>1, <2>2, <2>3, <2>4
<1>10. Rising(left)
  <2> SUFFICES ASSUME NEW i \in 1 .. Len(left), NEW j \in 1 .. Len(left), i < j,
                      left[i].by = left[j].by
               PROVE  Before(left[i], left[j])
    BY DEF Rising
  <2>1. /\ n + i \in 1 .. Len(u) /\ n + j \in 1 .. Len(u)
        /\ left[i] = u[n + i] /\ left[j] = u[n + j]
    BY <1>1, <1>4
  <2>2. n + i < n + j
    BY <1>1, <1>3
  <2> QED BY <2>1, <2>2 DEF Rising
<1>11. Ahead(all, left)
  <2> SUFFICES ASSUME NEW i \in 1 .. Len(all), NEW j \in 1 .. Len(left),
                      all[i].by = left[j].by
               PROVE  Before(all[i], left[j])
    BY DEF Ahead
  <2>1. n + j \in 1 .. Len(u) /\ left[j] = u[n + j]
    BY <1>1, <1>4
  <2>2. CASE i \in 1 .. Len(q) /\ all[i] = q[i]
    BY <2>1, <2>2 DEF Ahead
  <2>3. CASE i > Len(q) /\ i - Len(q) \in 1 .. n /\ all[i] = u[i - Len(q)]
    <3>1. i - Len(q) \in 1 .. Len(u) /\ i - Len(q) < n + j
      <4> DEFINE d == i - Len(q)
      <4>1. d \in 1 .. n /\ j \in Nat /\ j >= 1
        BY <1>1, <1>3, <2>3
      <4>2. d \in 1 .. Len(u)
        BY <1>6, <4>1
      <4> HIDE DEF d
      <4>3. d < n + j
        BY <1>3, <4>1
      <4> QED BY <4>2, <4>3 DEF d
    <3> QED BY <2>1, <2>3, <3>1 DEF Rising
  <2> QED BY <1>7, <2>2, <2>3
<1>12. \A b : In(q, b) => In(all, b)
  BY <1>2, <1>5 DEF In
<1>13. ASSUME NEW b, In(all, b) PROVE In(q, b) \/ In(u, b)
  <2>1. PICK i \in 1 .. Len(all) : all[i] = b
    BY <1>13 DEF In
  <2> QED BY <1>6, <1>7, <2>1 DEF In
<1>14. ASSUME NEW b, In(left, b) PROVE In(u, b)
  BY <1>1, <1>4, <1>14 DEF In
<1>15. ASSUME NEW b, In(u, b) PROVE In(all, b) \/ In(left, b)
  <2>1. PICK i \in 1 .. Len(u) : u[i] = b
    BY <1>15 DEF In
  <2> QED BY <1>2, <1>6, <1>8, <2>1 DEF In
<1>16. ASSUME NEW s, Ahead(s, q), Ahead(s, u) PROVE Ahead(s, all) /\ Ahead(s, left)
  <2>1. Ahead(s, all)
    BY <1>6, <1>7, <1>16 DEF Ahead
  <2>2. Ahead(s, left)
    BY <1>1, <1>4, <1>16 DEF Ahead
  <2> QED BY <2>1, <2>2
<1>17. ASSUME NEW s, Ahead(q, s), Ahead(u, s) PROVE Ahead(all, s)
  <2> SUFFICES ASSUME NEW i \in 1 .. Len(all), NEW j \in 1 .. Len(s), all[i].by = s[j].by
               PROVE  Before(all[i], s[j])
    BY DEF Ahead
  <2>1. CASE i \in 1 .. Len(q) /\ all[i] = q[i]
    BY <1>17, <2>1 DEF Ahead
  <2>2. CASE i - Len(q) \in 1 .. n /\ all[i] = u[i - Len(q)]
    <3>1. i - Len(q) \in 1 .. Len(u)
      BY <1>6, <2>2
    <3> QED BY <1>17, <2>2, <3>1 DEF Ahead
  <2> QED BY <1>7, <2>1, <2>2
<1>18. \A b : In(all, b) \/ In(left, b) <=> In(q, b) \/ In(u, b)
  BY <1>12, <1>13, <1>14, <1>15
<1>19. /\ \A s : Ahead(s, q) /\ Ahead(s, u) => Ahead(s, all) /\ Ahead(s, left)
       /\ \A s : Ahead(q, s) /\ Ahead(u, s) => Ahead(all, s)
  BY <1>16, <1>17
<1> QED BY <1>9, <1>10, <1>11, <1>12, <1>13, <1>18, <1>19 DEF Cut

LEMMA SendsTakes ==
  ASSUME CallsInv, NEW w \in Writer, Sends(w)
  PROVE  \E n \in 1 .. Len(unsent[w]) :
           /\ wire' = wire \o SubSeq(unsent[w], 1, n)
           /\ unsent' = [unsent EXCEPT ![w] = SubSeq(unsent[w], n + 1, Len(unsent[w]))]
<1> DEFINE u == unsent[w]
           most == IF Len(u) <= Room THEN Len(u) ELSE Room
<1>1. u \in Seq(Byte) /\ Len(u) \in Nat \ {0} /\ Len(wire) \in Nat
  BY DEF CallsInv, Sends
<1>2. Room \in Int /\ Room > 0
  BY <1>1, SocketAssumption DEF Sends, Room
<1>3. most \in 1 .. Len(u)
  BY <1>1, <1>2
<1>4. \/ Took(w, most) \/ \E n \in 1 .. most - 1 : Took(w, n)
  BY DEF Sends
<1> HIDE DEF most
<1>5. \E n \in 1 .. Len(u) : Took(w, n)
  BY <1>1, <1>3, <1>4
<1> QED BY <1>5 DEF Took

LEMMA SendsKeepsBytes ==
  ASSUME CallsInv, BytesInv, NEW w \in Writer, Sends(w) PROVE BytesInv'
<1> DEFINE u == unsent[w]
<1>1. /\ u # << >> /\ peer' = peer
      /\ order' = IF IsFirst(w) THEN Append(order, << w, Count(w) + 1 >>) ELSE order
      /\ UNCHANGED << line, received >>
  BY DEF Sends, rVars
<1>2. PICK n \in 1 .. Len(u) :
        /\ wire' = wire \o SubSeq(u, 1, n)
        /\ unsent' = [unsent EXCEPT ![w] = SubSeq(u, n + 1, Len(u))]
  BY SendsTakes
<1> DEFINE left == SubSeq(u, n + 1, Len(u))
<1>3. /\ u \in Seq(Byte) /\ wire \in Seq(Byte) /\ Len(u) \in Nat \ {0}
      /\ RestOf(u, w) /\ Head(u) = u[1]
      /\ IsFirst(w) => u[1].message = Count(w) + 1
  BY <1>1 DEF CallsInv
<1>4. \A v \in Writer : unsent'[v] = IF v = w THEN left ELSE unsent[v]
  BY <1>2 DEF CallsInv
<1>5. /\ left \in Seq(Byte) /\ Len(left) = Len(u) - n
      /\ \A i \in 1 .. Len(left) : left[i] = u[n + i]
  BY <1>3, RestOfBytes
<1>6. /\ Rising(wire) /\ Rising(u) /\ Ahead(wire, u)
      /\ Rising(line) /\ Ahead(line, wire) /\ Ahead(line, u)
  BY DEF BytesInv, RisingInv
<1>7. /\ Rising(wire') /\ Rising(left) /\ Ahead(wire', left)
      /\ \A b : In(wire', b) \/ In(left, b) <=> In(wire, b) \/ In(u, b)
      /\ \A b : In(wire', b) => In(wire, b) \/ In(u, b)
      /\ \A b : In(wire, b) => In(wire', b)
      /\ \A s : Ahead(s, wire) /\ Ahead(s, u) => Ahead(s, wire') /\ Ahead(s, left)
      /\ \A s : Ahead(wire, s) /\ Ahead(u, s) => Ahead(wire', s)
  <2>1. wire' = wire \o SubSeq(u, 1, n) /\ left = SubSeq(u, n + 1, Len(u)) /\ n \in 1 .. Len(u)
    BY <1>2
  <2> HIDE DEF left, u
  <2>2. Cut(wire, u, wire', left)
    BY <1>3, <1>6, <2>1, TakenBytes
  <2> QED BY <2>2 DEF Cut
<1>8. \A i \in 1 .. Len(u) : u[i].by = w /\ u[i].at = u[1].at + i - 1
  BY <1>3 DEF RestOf
<1>9. left = << >> \/ Head(left).at # 1
  <2> SUFFICES ASSUME left # << >> PROVE Head(left).at # 1
    OBVIOUS
  <2>1. Len(left) \in Nat /\ Len(left) # 0 /\ Head(left) = left[1]
    BY <1>5
  <2>2. n + 1 \in 1 .. Len(u) /\ left[1] = u[n + 1] /\ n \in Nat /\ n >= 1 /\ n + 1 \in Nat
    BY <1>3, <1>5, <2>1
  <2>3. u[1] \in Byte /\ u[1].at \in Nat \ {0}
    BY <1>3 DEF Byte
  <2>4. u[n + 1].at = u[1].at + (n + 1) - 1
    BY <1>8, <2>2
  <2> HIDE DEF left
  <2> QED BY <2>1, <2>2, <2>3, <2>4
<1> HIDE DEF left, u
<1>10. \A v \in Writer : Begun(v)' = Begun(v)
  <2>1. \A v \in Writer : Count(v) \in Nat
    BY CountIs
  <2>2. CASE IsFirst(w)
    <3>1. Count(w) + 1 \in 1 .. Len(Messages[w])
      <4>1. u[1] \in Byte /\ u[1].by = w
        BY <1>3, <1>8
      <4> QED BY <1>3, <2>2, <4>1, ByteIs
    <3>2. \A v \in Writer : Count(v)' = Count(v) + (IF v = w THEN 1 ELSE 0)
      BY <1>1, <2>2, <3>1, OrderGrows
    <3> QED BY <1>1, <1>4, <1>9, <2>1, <2>2, <3>2 DEF Begun, IsFirst, u
  <2>3. CASE ~IsFirst(w)
    <3>1. \A v \in Writer : Count(v)' = Count(v)
      BY <1>1, <2>3 DEF Count
    <3> QED BY <1>1, <1>4, <1>9, <2>1, <2>3, <3>1 DEF Begun, IsFirst, u
  <2> QED BY <2>2, <2>3
<1>11. \A b \in Byte : Somewhere(b)' <=> Somewhere(b)
  <2> SUFFICES ASSUME NEW b \in Byte PROVE Somewhere(b)' <=> Somewhere(b)
    OBVIOUS
  <2>1. b.by \in Writer
    BY DEF Byte
  <2>2. In(wire', b) \/ In(unsent'[b.by], b) <=> In(wire, b) \/ In(unsent[b.by], b)
    <3>1. CASE b.by = w
      BY <1>4, <1>7, <2>1, <3>1 DEF u
    <3>2. CASE b.by # w
      <4>1. ~In(u, b)
        BY <1>8, <3>2 DEF In
      <4> QED BY <1>4, <1>7, <2>1, <3>2, <4>1
    <3> QED BY <3>1, <3>2
  <2> QED BY <1>1, <2>2 DEF Somewhere
<1>12. KeptInv'
  <2>1. \A b \in Byte : b.by \in Writer
    BY DEF Byte
  <2> QED BY <1>1, <1>10, <1>11, <2>1 DEF BytesInv, KeptInv
<1>13. \A v \in Writer : Rising(unsent'[v]) /\ Ahead(line, unsent'[v]) /\ Ahead(wire', unsent'[v])
  <2> SUFFICES ASSUME NEW v \in Writer
               PROVE  Rising(unsent'[v]) /\ Ahead(line, unsent'[v]) /\ Ahead(wire', unsent'[v])
    OBVIOUS
  <2>1. CASE v = w
    BY <1>4, <1>6, <1>7, <2>1
  <2>2. CASE v # w
    <3>1. unsent'[v] = unsent[v]
      BY <1>4, <2>2
    <3>2. Rising(unsent[v]) /\ Ahead(line, unsent[v]) /\ Ahead(wire, unsent[v])
      BY DEF BytesInv, RisingInv
    <3>3. Ahead(u, unsent[v])
      <4>1. \A j \in 1 .. Len(unsent[v]) : unsent[v][j].by = v
        <5>1. CASE unsent[v] = << >>
          <6>1. 1 .. Len(unsent[v]) = {}
            BY <5>1, EmptySeq
          <6> QED BY <6>1
        <5>2. CASE unsent[v] # << >>
          BY <5>2 DEF CallsInv, RestOf
        <5> QED BY <5>1, <5>2
      <4> QED BY <1>8, <2>2, <4>1 DEF Ahead
    <3> QED BY <1>7, <3>1, <3>2, <3>3
  <2> QED BY <2>1, <2>2
<1>14. \A p \in 1 .. Len(received) :
         Ahead(received[p], wire') /\ \A v \in Writer : Ahead(received[p], unsent'[v])
  <2>1. \A p \in 1 .. Len(received) :
          Ahead(received[p], wire) /\ \A v \in Writer : Ahead(received[p], unsent[v])
    BY DEF BytesInv, RisingInv
  <2>2. \A p \in 1 .. Len(received) : Ahead(received[p], u)
    BY <2>1 DEF u
  <2> QED BY <1>4, <1>7, <2>1, <2>2
<1>15. Ahead(line, wire')
  BY <1>6, <1>7
<1>16. RisingInv'
  BY <1>1, <1>7, <1>13, <1>14, <1>15 DEF BytesInv, RisingInv
<1> QED BY <1>12, <1>16 DEF BytesInv

(* The first byte of a sequence, put behind another one.                    *)
First(q) == << q[1] >>

TailOf(q, rest) ==
  /\ Rising(rest) /\ Ahead(First(q), rest)
  /\ \A b : In(q, b) <=> In(rest, b) \/ b = q[1]
  /\ \A s : Ahead(s, q) => Ahead(s, rest) /\ Ahead(s, First(q))
  /\ \A s : Ahead(q, s) => Ahead(rest, s) /\ Ahead(First(q), s)

LEMMA TailBytes ==
  ASSUME NEW q \in Seq(Byte), q # << >>, NEW rest, rest = Tail(q), Rising(q)
  PROVE  TailOf(q, rest)
<1>1. /\ Len(q) \in Nat \ {0} /\ Len(rest) = Len(q) - 1
      /\ \A i \in 1 .. Len(rest) : rest[i] = q[i + 1]
  BY TailIs
<1>2. 1 \in 1 .. Len(q) /\ \A i \in 1 .. Len(rest) : i + 1 \in 1 .. Len(q) /\ 1 < i + 1
  BY <1>1
<1>3. \A i \in 1 .. Len(q) : i = 1 \/ (i - 1 \in 1 .. Len(rest) /\ rest[i - 1] = q[i])
  <2> SUFFICES ASSUME NEW i \in 1 .. Len(q), i # 1
               PROVE  i - 1 \in 1 .. Len(rest) /\ rest[i - 1] = q[i]
    OBVIOUS
  <2>1. i - 1 \in 1 .. Len(rest) /\ (i - 1) + 1 = i
    BY <1>1
  <2>2. rest[i - 1] = q[(i - 1) + 1]
    BY <1>1, <2>1
  <2> QED BY <2>1, <2>2
<1>4. Len(First(q)) = 1 /\ First(q)[1] = q[1]
  BY DEF First
<1>5. \A i \in 1 .. Len(First(q)) : i = 1
  BY <1>4
<1>6. Rising(rest)
  <2> SUFFICES ASSUME NEW i \in 1 .. Len(rest), NEW j \in 1 .. Len(rest), i < j,
                      rest[i].by = rest[j].by
               PROVE  Before(rest[i], rest[j])
    BY DEF Rising
  <2>1. i + 1 < j + 1
    BY <1>1
  <2> QED BY <1>1, <1>2, <2>1 DEF Rising
<1>7. Ahead(First(q), rest)
  BY <1>1, <1>2, <1>4, <1>5 DEF Rising, Ahead
<1>8. ASSUME NEW b PROVE In(q, b) <=> In(rest, b) \/ b = q[1]
  <2>1. ASSUME In(q, b) PROVE In(rest, b) \/ b = q[1]
    BY <1>3, <2>1 DEF In
  <2>2. ASSUME In(rest, b) \/ b = q[1] PROVE In(q, b)
    BY <1>1, <1>2, <2>2 DEF In
  <2> QED BY <2>1, <2>2
<1>9. ASSUME NEW s, Ahead(s, q) PROVE Ahead(s, rest) /\ Ahead(s, First(q))
  BY <1>1, <1>2, <1>4, <1>5, <1>9 DEF Ahead
<1>10. ASSUME NEW s, Ahead(q, s) PROVE Ahead(rest, s) /\ Ahead(First(q), s)
  BY <1>1, <1>2, <1>4, <1>5, <1>10 DEF Ahead
<1> QED BY <1>6, <1>7, <1>8, <1>9, <1>10 DEF TailOf

Longer(t, q, more) ==
  /\ Rising(t) /\ Ahead(t, First(q)) => Rising(more)
  /\ \A b : In(more, b) <=> In(t, b) \/ b = q[1]
  /\ \A s : Ahead(s, t) /\ Ahead(s, First(q)) => Ahead(s, more)
  /\ \A s : Ahead(t, s) /\ Ahead(First(q), s) => Ahead(more, s)

LEMMA AppendBytes ==
  ASSUME NEW t \in Seq(Byte), NEW q, q[1] \in Byte, NEW more, more = Append(t, q[1])
  PROVE  Longer(t, q, more)
<1>1. /\ Len(t) \in Nat /\ Len(more) = Len(t) + 1
      /\ \A i \in 1 .. Len(t) : more[i] = t[i]
      /\ more[Len(t) + 1] = q[1]
  BY AppendProperties
<1>2. /\ Len(t) + 1 \in 1 .. Len(more)
      /\ \A i \in 1 .. Len(t) : i \in 1 .. Len(more)
      /\ \A i \in 1 .. Len(more) : i \in 1 .. Len(t) \/ i = Len(t) + 1
  BY <1>1
<1>3. Len(First(q)) = 1 /\ First(q)[1] = q[1] /\ 1 \in 1 .. Len(First(q))
  BY DEF First
<1>4. ASSUME Rising(t), Ahead(t, First(q)) PROVE Rising(more)
  <2> SUFFICES ASSUME NEW i \in 1 .. Len(more), NEW j \in 1 .. Len(more), i < j,
                      more[i].by = more[j].by
               PROVE  Before(more[i], more[j])
    BY DEF Rising
  <2>1. i \in 1 .. Len(t)
    BY <1>1
  <2>2. CASE j \in 1 .. Len(t)
    BY <1>1, <1>4, <2>1, <2>2 DEF Rising
  <2>3. CASE j = Len(t) + 1
    BY <1>1, <1>3, <1>4, <2>1, <2>3 DEF Ahead
  <2> QED BY <1>2, <2>2, <2>3
<1>5. ASSUME NEW b PROVE In(more, b) <=> In(t, b) \/ b = q[1]
  BY <1>1, <1>2 DEF In
<1>6. ASSUME NEW s, Ahead(s, t), Ahead(s, First(q)) PROVE Ahead(s, more)
  BY <1>1, <1>2, <1>3, <1>6 DEF Ahead
<1>7. ASSUME NEW s, Ahead(t, s), Ahead(First(q), s) PROVE Ahead(more, s)
  BY <1>1, <1>2, <1>3, <1>7 DEF Ahead
<1> QED BY <1>4, <1>5, <1>6, <1>7 DEF Longer

LEMMA ReceivesKeepsBytes == ASSUME CallsInv, BytesInv, Receives PROVE BytesInv'
<1> DEFINE c == wire[1]
<1>1. /\ wire # << >> /\ wire' = Tail(wire) /\ wire \in Seq(Byte) /\ line \in Seq(Byte)
      /\ received \in Seq(Seq(Byte)) /\ Len(received) \in Nat
      /\ UNCHANGED << peer, unsent, order >>
  BY DEF Receives, CallsInv, wVars
<1>2. Head(wire) = c /\ c \in Byte
  BY <1>1, TailIs
<1>3. \/ /\ c.char = "nl" /\ received' = Append(received, line) /\ line' = << >>
      \/ c.char = "cr" /\ received' = received /\ line' = line
      \/ c.char = "text" /\ line' = Append(line, c) /\ received' = received
  BY <1>2 DEF Receives
<1>4. RisingInv
  BY DEF BytesInv
<1>5. TailOf(wire, wire')
  <2>1. Rising(wire)
    BY <1>4 DEF RisingInv
  <2> QED BY <1>1, <2>1, TailBytes
<1>6. Longer(line, wire, Append(line, c))
  BY <1>1, <1>2, AppendBytes
<1> HIDE DEF c
<1>7. /\ Rising(wire') /\ Ahead(First(wire), wire')
      /\ \A s : Ahead(s, wire) => Ahead(s, wire') /\ Ahead(s, First(wire))
      /\ \A s : Ahead(wire, s) => Ahead(wire', s) /\ Ahead(First(wire), s)
      /\ \A b : In(wire, b) <=> In(wire', b) \/ b = c
  BY <1>5 DEF TailOf, c
(* What the three lines and the wire have then.                             *)
<1>8. /\ \A p \in 1 .. Len(received) :
           /\ Rising(received[p]) /\ Ahead(received[p], line) /\ Ahead(received[p], wire')
           /\ Ahead(received[p], First(wire))
           /\ \A w \in Writer : Ahead(received[p], unsent[w])
      /\ \A p, q \in 1 .. Len(received) : p < q => Ahead(received[p], received[q])
      /\ Rising(line) /\ Ahead(line, wire') /\ Ahead(line, First(wire))
      /\ \A w \in Writer :
           /\ Rising(unsent[w]) /\ Ahead(line, unsent[w])
           /\ Ahead(wire', unsent[w]) /\ Ahead(First(wire), unsent[w])
  BY <1>4, <1>7 DEF RisingInv
<1>13. ASSUME \A b : Somewhere(b)' => Somewhere(b),
              \A b : b.char = "text" /\ Somewhere(b) => Somewhere(b)'
       PROVE  KeptInv'
  <2>1. \A w : Begun(w)' = Begun(w)
    BY <1>1 DEF Begun, Count, IsFirst
  <2>2. KeptInv
    BY DEF BytesInv
  <2> QED BY <1>1, <1>13, <2>1, <2>2 DEF KeptInv
<1>9. CASE c.char = "nl"
  <2>1. received' = Append(received, line) /\ line' = << >>
    BY <1>3, <1>9
  <2>2. /\ Len(received') = Len(received) + 1
        /\ \A p \in 1 .. Len(received) : received'[p] = received[p]
        /\ received'[Len(received) + 1] = line
    BY <1>1, <2>1, AppendProperties
  <2>3. /\ Len(received) + 1 \in 1 .. Len(received')
        /\ \A p \in 1 .. Len(received) : p \in 1 .. Len(received')
        /\ \A p \in 1 .. Len(received') : p \in 1 .. Len(received) \/ p = Len(received) + 1
    BY <1>1, <2>2
  <2>4. \A p \in 1 .. Len(received') :
          /\ Rising(received'[p]) /\ Ahead(received'[p], wire')
          /\ \A w \in Writer : Ahead(received'[p], unsent[w])
    BY <1>8, <2>2, <2>3
  <2>5. ASSUME NEW p \in 1 .. Len(received'), NEW q \in 1 .. Len(received'), p < q
        PROVE  Ahead(received'[p], received'[q])
    <3>1. p \in 1 .. Len(received)
      BY <1>1, <2>2, <2>5
    <3> QED BY <1>8, <2>2, <2>3, <2>5, <3>1
  <2>6. RisingInv'
    BY <1>1, <1>7, <1>8, <2>1, <2>4, <2>5, EmptyRises DEF RisingInv
  <2>7. ASSUME NEW b, b # c PROVE Somewhere(b)' <=> Somewhere(b)
    <3>1. (\E p \in 1 .. Len(received') : In(received'[p], b))
            <=> (\E p \in 1 .. Len(received) : In(received[p], b)) \/ In(line, b)
      BY <2>2, <2>3
    <3>2. ~In(line', b) /\ (In(wire', b) <=> In(wire, b))
      BY <1>7, <2>1, <2>7, EmptyRises
    <3> QED BY <1>1, <3>1, <3>2 DEF Somewhere
  <2>8. \A b : b = c => Somewhere(b)
    BY <1>7 DEF Somewhere
  <2>9. KeptInv'
    <3>1. ASSUME NEW b, Somewhere(b)' PROVE Somewhere(b)
      BY <2>7, <2>8, <3>1
    <3>2. ASSUME NEW b, b.char = "text", Somewhere(b) PROVE Somewhere(b)'
      BY <1>9, <2>7, <3>2
    <3> QED BY <1>13, <3>1, <3>2
  <2> QED BY <2>6, <2>9 DEF BytesInv
<1>10. CASE c.char = "cr"
  <2>1. received' = received /\ line' = line
    BY <1>3, <1>10
  <2>2. RisingInv'
    BY <1>1, <1>4, <1>7, <1>8, <2>1 DEF RisingInv
  <2>3. \A b : b # c => (Somewhere(b)' <=> Somewhere(b))
    BY <1>1, <1>7, <2>1 DEF Somewhere
  <2>4. \A b : b = c => Somewhere(b)
    BY <1>7 DEF Somewhere
  <2>9. KeptInv'
    <3>1. ASSUME NEW b, Somewhere(b)' PROVE Somewhere(b)
      BY <2>3, <2>4, <3>1
    <3>2. ASSUME NEW b, b.char = "text", Somewhere(b) PROVE Somewhere(b)'
      BY <1>10, <2>3, <3>2
    <3> QED BY <1>13, <3>1, <3>2
  <2> QED BY <2>2, <2>9 DEF BytesInv
<1>11. CASE c.char = "text"
  <2>1. received' = received /\ line' = Append(line, c)
    BY <1>3, <1>11
  <2>2. /\ Rising(line') /\ \A b : In(line', b) <=> In(line, b) \/ b = c
        /\ \A s : Ahead(s, line) /\ Ahead(s, First(wire)) => Ahead(s, line')
        /\ \A s : Ahead(line, s) /\ Ahead(First(wire), s) => Ahead(line', s)
    BY <1>6, <1>8, <2>1 DEF Longer, c
  <2>3. RisingInv'
    BY <1>1, <1>7, <1>8, <2>1, <2>2 DEF RisingInv
  <2>4. \A b : Somewhere(b)' <=> Somewhere(b)
    BY <1>1, <1>7, <2>1, <2>2 DEF Somewhere
  <2> QED BY <1>13, <2>3, <2>4 DEF BytesInv
<1> QED BY <1>3, <1>9, <1>10, <1>11

LEMMA BytesInvNext == CallsInv /\ BytesInv /\ [Next]_vars => BytesInv'
<1> SUFFICES ASSUME CallsInv, BytesInv, [Next]_vars PROVE BytesInv'
  OBVIOUS
<1>1. ASSUME NEW w \in Writer, SendLine(w) PROVE BytesInv'
  BY <1>1, SendLineKeepsBytes
<1>2. ASSUME NEW w \in Writer, Sends(w) PROVE BytesInv'
  BY <1>2, SendsKeepsBytes
<1>3. ASSUME NEW w \in Writer, SendInterrupted(w) PROVE BytesInv'
  BY <1>3, BytesQuiet DEF SendInterrupted, wVars, rVars
<1>4. CASE Ends
  BY <1>4, EndsKeepsBytes
<1>5. CASE ReaderRuns
  <2>1. CASE ReceiveLine
    <3>1. line' = line
      BY <2>1 DEF ReceiveLine, CallsInv
    <3> QED BY <2>1, <3>1, BytesQuiet DEF ReceiveLine, wVars
  <2>2. CASE ChecksTimeout \/ Selects \/ SelectTimesOut \/ RecvInterrupted \/ ReceivesEnd
    <3>1. \E to \in {"check", "select", "recv", "ended"} : Goes(to)
      BY <2>2 DEF ChecksTimeout, Selects, SelectTimesOut, RecvInterrupted, ReceivesEnd, ReturnsNone
    <3> QED BY <3>1, BytesQuiet DEF Goes, ChecksTimeout, Selects, wVars
  <2>3. CASE Receives
    BY <2>3, ReceivesKeepsBytes
  <2> QED BY <1>5, <2>1, <2>2, <2>3 DEF ReaderRuns
<1>6. CASE Tick
  BY <1>6, BytesQuiet DEF Tick, wVars, rVars
<1>7. CASE UNCHANGED vars
  BY <1>7, BytesQuiet DEF vars, wVars, rVars
<1> QED BY <1>1, <1>2, <1>3, <1>4, <1>5, <1>6, <1>7 DEF Next

-----------------------------------------------------------------------------
LEMMA PartsAre ==
  ASSUME CallsInv, NEW w \in Writer, NEW n, n = Len(received)
  PROVE  /\ n \in Nat /\ DOMAIN Parts(w) = 1 .. n + 3
         /\ \A p \in 1 .. n : Parts(w)[p] = received[p]
         /\ Parts(w)[n + 1] = line /\ Parts(w)[n + 2] = wire /\ Parts(w)[n + 3] = unsent[w]
         /\ \A p \in 1 .. n + 3 : Parts(w)[p] \in Seq(Byte)
<1> DEFINE t == << line, wire, unsent[w] >>
           all == received \o t
<1>1. /\ received \in Seq(Seq(Byte)) /\ line \in Seq(Byte) /\ wire \in Seq(Byte)
      /\ unsent[w] \in Seq(Byte)
  BY DEF CallsInv
<1>2. t \in Seq(Seq(Byte)) /\ Len(t) = 3 /\ t[1] = line /\ t[2] = wire /\ t[3] = unsent[w]
  BY <1>1
<1> HIDE DEF t
<1>3. /\ all \in Seq(Seq(Byte)) /\ Len(all) = n + 3 /\ n \in Nat
      /\ \A p \in 1 .. n : all[p] = received[p]
      /\ \A p \in 1 .. 3 : all[n + p] = t[p]
  <2> DEFINE S == Seq(Byte)
  <2>0. received \in Seq(S) /\ t \in Seq(S)
    BY <1>1, <1>2
  <2> HIDE DEF S
  <2>1. /\ all \in Seq(S) /\ Len(all) = Len(received) + Len(t)
        /\ \A p \in 1 .. Len(received) : all[p] = received[p]
        /\ \A p \in 1 .. Len(t) : all[Len(received) + p] = t[p]
    BY <2>0, ConcatProperties
  <2> QED BY <1>1, <1>2, <2>1 DEF S
<1> HIDE DEF all
<1>4. 1 \in 1 .. 3 /\ 2 \in 1 .. 3 /\ 3 \in 1 .. 3
  OBVIOUS
<1>5. all[n + 1] = line /\ all[n + 2] = wire /\ all[n + 3] = unsent[w]
  BY <1>2, <1>3, <1>4
<1>6. DOMAIN all = 1 .. n + 3 /\ \A p \in 1 .. n + 3 : all[p] \in Seq(Byte)
  BY <1>3
<1>7. Parts(w) = all
  BY DEF Parts, all, t
<1> QED BY <1>3, <1>5, <1>6, <1>7

LEMMA TextIs ==
  ASSUME NEW s \in Seq(Byte)
  PROVE  \A b : b \in TextIn(s) <=> In(s, b) /\ b.char = "text"
<1>1. DOMAIN s = 1 .. Len(s)
  OBVIOUS
<1> QED BY <1>1 DEF TextIn, In

LEMMA KeptIsKept ==
  ASSUME CallsInv, BytesInv
  PROVE  BytesAreKept
<1> SUFFICES ASSUME NEW w \in Writer
             PROVE  /\ \A p, q \in DOMAIN Parts(w) :
                         \A i \in DOMAIN Parts(w)[p], j \in DOMAIN Parts(w)[q] :
                           /\ p < q \/ (p = q /\ i < j)
                           /\ Parts(w)[p][i].by = w /\ Parts(w)[q][j].by = w
                           => Before(Parts(w)[p][i], Parts(w)[q][j])
                    /\ peer = "open" =>
                         {b \in UNION {TextIn(Parts(w)[p]) : p \in DOMAIN Parts(w)} : b.by = w}
                           = UNION {TextIn(Line(w, m)) : m \in 1 .. Begun(w)}
  BY DEF BytesAreKept
<1> DEFINE n == Len(received)
<1>1. /\ n \in Nat /\ DOMAIN Parts(w) = 1 .. n + 3
      /\ \A p \in 1 .. n : Parts(w)[p] = received[p]
      /\ Parts(w)[n + 1] = line /\ Parts(w)[n + 2] = wire /\ Parts(w)[n + 3] = unsent[w]
      /\ \A p \in 1 .. n + 3 : Parts(w)[p] \in Seq(Byte)
  BY PartsAre
<1> HIDE DEF n
<1>2. \A p \in 1 .. n + 3 : p \in 1 .. n \/ p = n + 1 \/ p = n + 2 \/ p = n + 3
  BY <1>1
<1>3. \A p \in 1 .. n + 3 : Rising(Parts(w)[p])
  BY <1>1, <1>2 DEF BytesInv, RisingInv, n
<1>4. ASSUME NEW p \in 1 .. n + 3, NEW q \in 1 .. n + 3, p < q
      PROVE  Ahead(Parts(w)[p], Parts(w)[q])
  <2>1. CASE p \in 1 .. n
    BY <1>1, <1>2, <1>4, <2>1 DEF BytesInv, RisingInv, n
  <2>2. CASE p = n + 1
    <3>1. q = n + 2 \/ q = n + 3
      BY <1>1, <1>4, <2>2
    <3> QED BY <1>1, <2>2, <3>1 DEF BytesInv, RisingInv
  <2>3. CASE p = n + 2
    <3>1. q = n + 3
      BY <1>1, <1>4, <2>3
    <3> QED BY <1>1, <2>3, <3>1 DEF BytesInv, RisingInv
  <2>4. p # n + 3
    BY <1>1, <1>4
  <2> QED BY <1>2, <2>1, <2>2, <2>3, <2>4
<1>5. ASSUME NEW p \in DOMAIN Parts(w), NEW q \in DOMAIN Parts(w),
             NEW i \in DOMAIN Parts(w)[p], NEW j \in DOMAIN Parts(w)[q],
             p < q \/ (p = q /\ i < j),
             Parts(w)[p][i].by = w /\ Parts(w)[q][j].by = w
      PROVE  Before(Parts(w)[p][i], Parts(w)[q][j])
  <2>1. p \in 1 .. n + 3 /\ q \in 1 .. n + 3
    BY <1>1
  <2>2. i \in 1 .. Len(Parts(w)[p]) /\ j \in 1 .. Len(Parts(w)[q])
    BY <1>1, <2>1, LenProperties
  <2> QED BY <1>3, <1>4, <1>5, <2>1, <2>2 DEF Rising, Ahead
<1>6. ASSUME peer = "open"
      PROVE  {b \in UNION {TextIn(Parts(w)[p]) : p \in DOMAIN Parts(w)} : b.by = w}
               = UNION {TextIn(Line(w, m)) : m \in 1 .. Begun(w)}
  <2>1. /\ Begun(w) <= Len(Messages[w]) /\ Begun(w) \in Nat /\ Len(Messages[w]) \in Nat
        /\ \A b \in Byte : /\ Somewhere(b) => b.message <= Begun(b.by)
                           /\ b.message <= Begun(b.by) /\ b.char = "text" => Somewhere(b)
    <3>1. Count(w) \in Nat
      BY CountIs
    <3>2. Begun(w) \in Nat
      BY <3>1 DEF Begun
    <3> QED BY <1>6, <3>2, SocketAssumption DEF BytesInv, KeptInv
  <2>2. \A b : b.by = w =>
          (Somewhere(b) <=> \E p \in 1 .. n + 3 : In(Parts(w)[p], b))
    <3> SUFFICES ASSUME NEW b, b.by = w
                 PROVE  Somewhere(b) <=> \E p \in 1 .. n + 3 : In(Parts(w)[p], b)
      OBVIOUS
    <3>1. ASSUME Somewhere(b) PROVE \E p \in 1 .. n + 3 : In(Parts(w)[p], b)
      <4>1. n + 1 \in 1 .. n + 3 /\ n + 2 \in 1 .. n + 3 /\ n + 3 \in 1 .. n + 3
        BY <1>1
      <4>2. \A p \in 1 .. n : p \in 1 .. n + 3
        BY <1>1
      <4> QED BY <1>1, <3>1, <4>1, <4>2 DEF Somewhere, n
    <3>2. ASSUME NEW p \in 1 .. n + 3, In(Parts(w)[p], b) PROVE Somewhere(b)
      BY <1>1, <1>2, <3>2 DEF Somewhere, n
    <3> QED BY <3>1, <3>2
  <2>3. ASSUME NEW p \in 1 .. n + 3
        PROVE  \A b : b \in TextIn(Parts(w)[p]) <=> In(Parts(w)[p], b) /\ b.char = "text"
    BY <1>1, TextIs
  <2>4. ASSUME NEW m \in 1 .. Begun(w)
        PROVE  \A b : b \in TextIn(Line(w, m))
                        <=> b \in Byte /\ b.by = w /\ b.message = m /\ b.char = "text"
    <3>1. m \in 1 .. Len(Messages[w])
      BY <2>1
    <3>2. Line(w, m) \in Seq(Byte)
      BY <3>1, LineBytes
    <3>3. \A b : b \in TextIn(Line(w, m)) <=> In(Line(w, m), b) /\ b.char = "text"
      BY <3>2, TextIs
    <3>4. \A b : In(Line(w, m), b) <=> b \in Byte /\ b.by = w /\ b.message = m
      BY <3>1, InLine
    <3> QED BY <3>3, <3>4
  <2>5. ASSUME NEW p \in 1 .. n + 3, NEW b, In(Parts(w)[p], b) PROVE b \in Byte
    BY <1>1, <2>5, ElementOfSeq DEF In
  <2>6. ASSUME NEW p \in DOMAIN Parts(w), NEW b \in TextIn(Parts(w)[p]), b.by = w
        PROVE  b \in UNION {TextIn(Line(w, m)) : m \in 1 .. Begun(w)}
    <3>1. p \in 1 .. n + 3 /\ In(Parts(w)[p], b) /\ b.char = "text"
      BY <1>1, <2>3, <2>6
    <3>2. b \in Byte /\ b.message <= Begun(w) /\ b.message \in 1 .. Begun(w)
      <4>1. b \in Byte /\ Somewhere(b)
        BY <2>2, <2>5, <2>6, <3>1
      <4>2. b.message <= Begun(w) /\ b.message \in Nat \ {0}
        BY <2>1, <2>6, <4>1 DEF Byte
      <4> QED BY <2>1, <4>1, <4>2
    <3>3. b \in TextIn(Line(w, b.message))
      BY <2>4, <2>6, <3>1, <3>2
    <3> QED BY <3>2, <3>3
  <2>7. ASSUME NEW m \in 1 .. Begun(w), NEW b \in TextIn(Line(w, m))
        PROVE  b.by = w /\ b \in UNION {TextIn(Parts(w)[p]) : p \in DOMAIN Parts(w)}
    <3>1. b \in Byte /\ b.by = w /\ b.message = m /\ b.char = "text"
      BY <2>4, <2>7
    <3>2. m <= Begun(w)
      BY <2>1
    <3>3. Somewhere(b)
      BY <2>1, <3>1, <3>2
    <3>4. PICK p \in 1 .. n + 3 : In(Parts(w)[p], b)
      BY <2>2, <3>1, <3>3
    <3>5. b \in TextIn(Parts(w)[p]) /\ p \in DOMAIN Parts(w)
      BY <1>1, <2>3, <3>1, <3>4
    <3> QED BY <3>1, <3>5
  <2> QED BY <2>6, <2>7
<1> QED BY <1>5, <1>6

(* Torn or not, whatever send() takes and recv() returns: the bytes of each *)
(* writer stay in his order, none is doubled, and none is lost while the    *)
(* connection is open (send_line() and receive_line(), Socket.cpp).         *)
THEOREM BytesAreKeptHolds == Spec => []BytesAreKept
<1>1. IInv => CallsInv
  BY DEF IInv
<1> QED
  BY <1>1, IInvInit, IInvNext, BytesInvInit, BytesInvNext, KeptIsKept, PTL DEF Spec
=============================================================================
