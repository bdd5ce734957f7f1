----------------------------- MODULE SocketLines ----------------------------
(***************************************************************************)
(* lab5/src/socket/Socket.cpp: send_line() and receive_line() on the two   *)
(* ends of a connection.  At the server the threads that serve a user      *)
(* share its socket: send_error() of one (server.cpp 46-50) and            *)
(* send_line() of another (224) may be under way together.  The client     *)
(* reads, one line after the other until a call returns no line.           *)
(*                                                                         *)
(* The kernel keeps the bytes in order.  It may take less than it is       *)
(* offered, when its buffer is full or a signal arrives; the program has   *)
(* no handlers, but its code answers EINTR.  A byte is told apart by who   *)
(* wrote it, and is "text", "cr" or "nl".                                  *)
(***************************************************************************)
EXTENDS Naturals, Sequences, FiniteSets

CONSTANTS
  Writer,
  Messages,   \* Messages[w]: what w sends, in order: a sequence of "text", "cr"
  Capacity,   \* of the buffers, in bytes
  Timeout,    \* of receive_line(), in seconds
  MaxSignals  \* bound on the calls that are interrupted

ASSUME SocketAssumption ==
  /\ Capacity \in Nat \ {0} /\ Timeout \in Nat /\ MaxSignals \in Nat
  /\ Messages \in [Writer -> Seq(Seq({"text", "cr"}))]

VARIABLES
  wire,       \* the bytes sent and not received
  peer,       \* the writers' end: "open", "closed" (by close) or "reset"
  unsent,     \* per writer, the rest of the line it sends: line and n_left
  order,      \* << writer, message >>, in the order of their first bytes
  torn,       \* TRUE when a byte was sent between two of another's line
  signals,
  reader,     \* where the reader is, "ended" when it got no line
  elapsed,    \* time_end - time_start, up to a second past the timeout
  late,       \* the bytes that the call received past its timeout
  line,       \* of receive_line(), the bytes so far
  received    \* the lines returned

wVars == << unsent, order, torn >>
rVars == << reader, late, line, received >>
vars == << wire, peer, signals, elapsed, wVars, rVars >>

Init ==
  /\ wire = << >> /\ peer = "open"
  /\ unsent = [w \in Writer |-> << >>]
  /\ order = << >> /\ torn = FALSE
  /\ signals = 0 /\ elapsed = 0
  /\ reader = "out" /\ late = 0
  /\ line = << >> /\ received = << >>

-----------------------------------------------------------------------------
(* send_line().                                                             *)
Line(w, n) ==
  LET chars == Append(Messages[w][n], "nl")
  IN [i \in DOMAIN chars |-> [by |-> w, message |-> n, at |-> i, char |-> chars[i]]]

Count(w) == Cardinality({i \in DOMAIN order : order[i][1] = w})

SendLine(w) ==
  /\ peer = "open" /\ unsent[w] = << >> /\ Count(w) < Len(Messages[w])
  /\ unsent' = [unsent EXCEPT ![w] = Line(w, Count(w) + 1)]
  /\ UNCHANGED << wire, peer, signals, elapsed, order, torn, rVars >>

Room == Capacity - Len(wire)

IsFirst(w) == Head(unsent[w]).at = 1

MidLine(v) == unsent[v] # << >> /\ ~IsFirst(v)

(* send() took n bytes; n_left -= n and ptr += n.                           *)
LeavesRest(w, n) ==    \* variant: send() is called once
  /\ wire' = wire \o SubSeq(unsent[w], 1, n)
  /\ unsent' = [unsent EXCEPT ![w] = << >>]

Took(w, n) ==
  /\ wire' = wire \o SubSeq(unsent[w], 1, n)
  /\ unsent' = [unsent EXCEPT ![w] = SubSeq(@, n + 1, Len(@))]

Sends(w) ==
  /\ peer = "open" /\ unsent[w] # << >> /\ Room > 0
  /\ LET most == IF Len(unsent[w]) <= Room THEN Len(unsent[w]) ELSE Room IN
       \/ Took(w, most) /\ UNCHANGED signals
       \/ /\ signals < MaxSignals /\ signals' = signals + 1
          /\ \E n \in 1 .. most - 1 : Took(w, n)
  /\ order' = IF IsFirst(w) THEN Append(order, << w, Count(w) + 1 >>) ELSE order
  /\ torn' = (torn \/ \E v \in Writer \ {w} : MidLine(v))
  /\ UNCHANGED << peer, elapsed, rVars >>

(* EINTR before a byte was taken: the same call once more.                  *)
SendInterrupted(w) ==
  /\ unsent[w] # << >> /\ signals < MaxSignals /\ signals' = signals + 1
  /\ UNCHANGED << wire, peer, elapsed, wVars, rVars >>

(* The connection ends at any point of a line, and the calls under way with *)
(* it.  When it is reset, what was on its way is lost.                      *)
Ends ==
  /\ peer = "open"
  /\ unsent' = [w \in Writer |-> << >>]
  /\ \/ peer' = "closed" /\ UNCHANGED wire
     \/ peer' = "reset" /\ wire' = << >>
  /\ UNCHANGED << signals, elapsed, order, torn, rVars >>

-----------------------------------------------------------------------------
(* receive_line(timeout).                                                   *)
ReceiveLine ==
  /\ reader = "out"
  /\ reader' = "check" /\ elapsed' = 0 /\ late' = 0 /\ line' = << >>
  /\ UNCHANGED << wire, peer, signals, wVars, received >>

Goes(to) == reader' = to /\ UNCHANGED << wire, peer, elapsed, wVars, late, line, received >>

(* The result is no line: std::nullopt, or an exception.                    *)
ReturnsNone == Goes("ended") /\ UNCHANGED signals

ChecksTimeout ==
  /\ reader = "check"
  /\ \/ elapsed > Timeout /\ ReturnsNone
     \/ elapsed <= Timeout /\ Goes("select") /\ UNCHANGED signals

Readable == wire # << >> \/ peer # "open"

(* select() waits for the rest of the time.  It returns -1 when a signal    *)
(* arrives; this is not tested, and recv() may have to wait.                *)
Selects ==
  /\ reader = "select" /\ Goes("recv")
  /\ \/ Readable /\ UNCHANGED signals
     \/ ~Readable /\ signals < MaxSignals /\ signals' = signals + 1

SelectHasNoTimeout == FALSE    \* variant: no timeout is given to select()

SelectTimesOut == reader = "select" /\ ~Readable /\ elapsed >= Timeout /\ ReturnsNone

RecvInterrupted ==
  /\ reader = "recv" /\ Goes("check")
  /\ signals < MaxSignals /\ signals' = signals + 1

ReceivesRestarting ==    \* variant: the timeout is that of a byte
  /\ reader = "recv" /\ wire # << >>
  /\ LET c == Head(wire) IN
       \/ c.char = "nl" /\ reader' = "out" /\ received' = Append(received, line) /\ line' = << >>
       \/ c.char = "cr" /\ reader' = "check" /\ UNCHANGED << received, line >>
       \/ c.char = "text" /\ reader' = "check" /\ line' = Append(line, c) /\ UNCHANGED received
  /\ wire' = Tail(wire)
  /\ late' = late + (IF elapsed > Timeout THEN 1 ELSE 0)
  /\ elapsed' = 0
  /\ UNCHANGED << peer, signals, wVars >>

Receives ==
  /\ reader = "recv" /\ wire # << >>
  /\ LET c == Head(wire) IN
       \/ c.char = "nl" /\ reader' = "out" /\ received' = Append(received, line) /\ line' = << >>
       \/ c.char = "cr" /\ reader' = "check" /\ UNCHANGED << received, line >>
       \/ c.char = "text" /\ reader' = "check" /\ line' = Append(line, c) /\ UNCHANGED received
  /\ wire' = Tail(wire)
  /\ late' = late + (IF elapsed > Timeout THEN 1 ELSE 0)
  /\ UNCHANGED << peer, signals, elapsed, wVars >>

(* End of file, or an error of recv(): the bytes so far are dropped, and    *)
(* the callers leave the connection.                                        *)
ReturnsCutLine ==    \* variant: end of file ends a line
  /\ reader = "recv" /\ wire = << >> /\ peer # "open"
  /\ reader' = "ended" /\ received' = IF line = << >> THEN received ELSE Append(received, line)
  /\ UNCHANGED << wire, peer, signals, elapsed, wVars, late, line >>

ReceivesEnd == reader = "recv" /\ wire = << >> /\ peer # "open" /\ ReturnsNone

ReaderRuns ==
  \/ ReceiveLine \/ ChecksTimeout \/ Selects \/ SelectTimesOut
  \/ RecvInterrupted \/ Receives \/ ReceivesEnd

Tick ==
  /\ elapsed <= Timeout /\ elapsed' = elapsed + 1
  /\ UNCHANGED << wire, peer, signals, wVars, rVars >>

Next ==
  \/ \E w \in Writer : SendLine(w) \/ Sends(w) \/ SendInterrupted(w)
  \/ Ends \/ ReaderRuns \/ Tick

(* The reader runs when it can, and time passes.                            *)
Spec == Init /\ [][Next]_vars /\ WF_vars(ReaderRuns) /\ WF_vars(Tick)

-----------------------------------------------------------------------------
TextIn(s) == {s[i] : i \in {j \in DOMAIN s : s[j].char = "text"}}

IsText(t, s) ==    \* t is the text of s, for the bytes s of one line
  /\ {t[i] : i \in DOMAIN t} = TextIn(s)
  /\ \A i, j \in DOMAIN t : i < j => t[i].at < t[j].at

\* Each line returned is one that was sent, whole, once and in its turn, however
\* the bytes were cut into calls of send() and whenever the connection ended:
\* what has been read of a line that its sender did not finish is never taken
\* for a line.  The exception is torn: threads that send on one socket take
\* turns between the bytes when the buffer is full.
LinesAreWhole ==
  ~torn =>
    /\ Len(received) <= Len(order)
    /\ \A i \in DOMAIN received : IsText(received[i], Line(order[i][1], order[i][2]))

(* Where the bytes of w are, the first ones first.                          *)
Parts(w) == received \o << line, wire, unsent[w] >>

Begun(w) == Count(w) + IF unsent[w] # << >> /\ IsFirst(w) THEN 1 ELSE 0

Before(b, c) == b.message < c.message \/ (b.message = c.message /\ b.at < c.at)

\* Also then no byte is lost, doubled or out of its writer's order: what was read,
\* what is on its way and what is left of a call are the lines of each writer.
BytesAreKept ==
  \A w \in Writer :
    LET parts == Parts(w)
    IN /\ \A p, q \in DOMAIN parts : \A i \in DOMAIN parts[p], j \in DOMAIN parts[q] :
            /\ p < q \/ (p = q /\ i < j)
            /\ parts[p][i].by = w /\ parts[q][j].by = w
            => Before(parts[p][i], parts[q][j])
       /\ peer = "open" =>
            {b \in UNION {TextIn(parts[p]) : p \in DOMAIN parts} : b.by = w}
              = UNION {TextIn(Line(w, n)) : n \in 1 .. Begun(w)}

\* The timeout is that of the line: a peer that sends byte by byte gets one byte
\* through after it, the one that select() was waiting for, and no second.
OneByteLate == late <= 1

WaitsInRecv == reader = "recv" /\ ~Readable

\* A call that got no line in time returns, unless a signal made it skip the
\* waiting of select() and it waits in recv() for a byte.
ReceiveEnds == reader = "check" ~> (reader \in {"out", "ended"} \/ WaitsInRecv)
=============================================================================
