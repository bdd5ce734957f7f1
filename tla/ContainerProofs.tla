--------------------------- MODULE ContainerProofs --------------------------
(***************************************************************************)
(* The containers, for every size.                                         *)
(*                                                                         *)
(* lab4/CircularBuffer.h is right for every size: its indices stay in      *)
(* range, empty() and full() are exact, and the ring is a bounded FIFO.    *)
(* The monitor of lab4/Jobs.h over it does what Jobs does over a queue.    *)
(*                                                                         *)
(* lab1/MessageStore.cpp is a dictionary whose messages own their texts.   *)
(*                                                                         *)
(* lab2/Directory.cpp and File.cpp keep a tree: what exists is what can be *)
(* reached, and no directory is below itself.                              *)
(***************************************************************************)
EXTENDS RingJobs, MessageStore, DirectoryTree,
        FiniteSetTheorems, SequenceTheorems, WellFoundedInduction, TLAPS

(* The two arguments % is ever applied to are at most one turn too large.  *)
LEMMA ModSize ==
  ASSUME NEW x \in 0 .. Size
  PROVE  x % Size = IF x = Size THEN 0 ELSE x
<1>1. Size \in Nat \ {0}
  BY RequestedAssumption DEF Size
<1>2. CASE x = Size
  <2>1. Size % Size = 0
    BY <1>1
  <2> QED
    BY <1>2, <2>1
<1>3. CASE x < Size
  BY <1>1, <1>3
<1> QED
  BY <1>1, <1>2, <1>3

IndexOK ==
  /\ buffer \in [Slot -> Item \cup {Blank}]
  /\ head \in 1 .. Size
  /\ tail \in Slot

(* What the observers compute when the indices are in range.               *)
LEMMA Observers ==
  ASSUME IndexOK
  PROVE  /\ First = (IF head = Size THEN 0 ELSE head)
         /\ Count \in 0 .. Requested
         /\ Empty <=> Count = 0
         /\ Full <=> Count = Requested
         /\ \A i \in 1 .. Count : At(i) \in Slot
<1>1. Size = Requested + 1 /\ Requested \in Nat
  BY RequestedAssumption DEF Size
<1>2. First = IF head = Size THEN 0 ELSE head
  BY <1>1, ModSize DEF IndexOK, First
<1>3. First \in 0 .. Size - 1 /\ tail \in 0 .. Size - 1
  BY <1>1, <1>2 DEF IndexOK, Slot
<1>4. Count \in 0 .. Requested
  BY <1>1, <1>3 DEF Count
<1>5. Empty <=> Count = 0
  BY <1>1, <1>3 DEF Empty, Count, First
<1>6. Full <=> Count = Requested
  BY <1>1, <1>2, <1>3 DEF Full, Count, IndexOK
<1>7. \A i \in 1 .. Count : At(i) \in Slot
  BY <1>1, <1>3 DEF Count, At, Slot
<1> QED
  BY <1>2, <1>4, <1>5, <1>6, <1>7

LEMMA ContentsIsSeq ==
  ASSUME IndexOK
  PROVE  /\ Contents \in Seq(Item \cup {Blank})
         /\ Len(Contents) = Count
<1>1. Count \in Nat
  BY Observers, RequestedAssumption
<1>2. \A i \in 1 .. Count : buffer[At(i)] \in Item \cup {Blank}
  BY Observers DEF IndexOK
<1> QED
  BY <1>1, <1>2 DEF Contents

LEMMA AppendIsFunction ==
  ASSUME NEW S, NEW s \in Seq(S), NEW x \in S
  PROVE  Append(s, x) = [i \in 1 .. Len(s) + 1 |-> IF i <= Len(s) THEN s[i] ELSE x]
<1> DEFINE f == [i \in 1 .. Len(s) + 1 |-> IF i <= Len(s) THEN s[i] ELSE x]
<1>1. Len(s) \in Nat /\ \A i \in 1 .. Len(s) : s[i] \in S
  OBVIOUS
<1>2. f \in Seq(S) /\ Len(f) = Len(s) + 1
  BY <1>1
<1>3. Append(s, x) \in Seq(S) /\ Len(Append(s, x)) = Len(s) + 1
  OBVIOUS
<1>4. \A i \in 1 .. Len(s) + 1 : Append(s, x)[i] = f[i]
  BY <1>1
<1> QED
  BY <1>2, <1>3, <1>4, SeqEqual

LEMMA TailIsFunction ==
  ASSUME NEW S, NEW s \in Seq(S), s # << >>
  PROVE  Tail(s) = [i \in 1 .. Len(s) - 1 |-> s[i + 1]]
<1> DEFINE f == [i \in 1 .. Len(s) - 1 |-> s[i + 1]]
<1>1. Len(s) \in Nat \ {0} /\ \A i \in 1 .. Len(s) : s[i] \in S
  BY EmptySeq
<1>2. f \in Seq(S) /\ Len(f) = Len(s) - 1
  BY <1>1
<1>3. /\ Tail(s) \in Seq(S)
      /\ Len(Tail(s)) = Len(s) - 1
      /\ \A i \in 1 .. Len(Tail(s)) : Tail(s)[i] = s[i + 1]
  BY HeadTailProperties
<1>4. \A i \in 1 .. Len(s) - 1 : Tail(s)[i] = f[i]
  BY <1>3
<1> QED
  BY <1>2, <1>3, <1>4, SeqEqual

(* put() keeps the indices in range and appends to what is inside.         *)
LEMMA PutStep ==
  ASSUME IndexOK, NEW x \in Item, Put(x)
  PROVE  /\ IndexOK'
         /\ Contents' = Append(Contents, x)
         /\ Count < Requested
<1>1. Size = Requested + 1 /\ Requested \in Nat /\ Size' = Size
  BY RequestedAssumption DEF Size
<1>2. tail \in 0 .. Size - 1 /\ head \in 1 .. Size /\ head' = head
  BY DEF IndexOK, Slot, Put
<1>3. tail' = IF tail + 1 = Size THEN 0 ELSE tail + 1
  BY <1>1, <1>2, ModSize, SMTT(30) DEF Put
<1>4. IndexOK'
  BY <1>1, <1>2, <1>3 DEF IndexOK, Put, Slot
<1>5. First' = First /\ First \in 0 .. Size - 1 /\ First = (IF head = Size THEN 0 ELSE head)
  BY <1>1, <1>2, Observers DEF First
<1>6. Count \in Nat /\ Count < Requested /\ Count # Requested
  BY <1>1, Observers DEF Put
<1>7. Count' = Count + 1
  BY <1>1, <1>2, <1>3, <1>5 DEF Count, Put, Full
<1>8. \A i \in 1 .. Count : At(i)' = At(i) /\ At(i) \in Slot /\ At(i) # tail
  BY <1>1, <1>2, <1>5, <1>6 DEF At, Slot, Count
<1>9. \A i \in Nat : i = Count + 1 => At(i)' = tail
  BY <1>1, <1>2, <1>5, <1>6 DEF At, Count
<1>10. \A i \in 1 .. Count : buffer'[At(i)'] = buffer[At(i)]
  BY <1>8 DEF Put, IndexOK
<1>11. \A i \in Nat : i = Count + 1 => buffer'[At(i)'] = x
  BY <1>9, <1>2 DEF Put, IndexOK, Slot
<1>12. Contents' = [i \in 1 .. Count + 1 |-> IF i <= Count THEN buffer[At(i)] ELSE x]
  <2>1. Contents' = [i \in 1 .. Count + 1 |-> buffer'[At(i)']]
    BY <1>7 DEF Contents
  <2>2. \A i \in 1 .. Count + 1 :
           buffer'[At(i)'] = IF i <= Count THEN buffer[At(i)] ELSE x
    BY <1>6, <1>10, <1>11
  <2> QED
    BY <2>1, <2>2
<1>13. Contents' = Append(Contents, x)
  <2>1. /\ Contents \in Seq(Item \cup {Blank})
        /\ Len(Contents) = Count
        /\ \A i \in 1 .. Count : Contents[i] = buffer[At(i)]
    BY ContentsIsSeq DEF Contents
  <2>2. Append(Contents, x) =
          [i \in 1 .. Count + 1 |-> IF i <= Count THEN Contents[i] ELSE x]
    BY <1>6, <2>1, AppendIsFunction
  <2> QED
    BY <1>6, <1>12, <2>1, <2>2
<1> QED
  BY <1>4, <1>6, <1>13

(* get() keeps the indices in range and removes the oldest item.           *)
LEMMA GetStep ==
  ASSUME IndexOK, Get
  PROVE  /\ IndexOK'
         /\ Contents # << >>
         /\ Contents' = Tail(Contents)
<1>1. Size = Requested + 1 /\ Requested \in Nat /\ Size' = Size
  BY RequestedAssumption DEF Size
<1>2. tail \in 0 .. Size - 1 /\ head \in 1 .. Size /\ tail' = tail /\ buffer' = buffer
  BY DEF IndexOK, Slot, Get
<1>3. First \in 0 .. Size - 1 /\ First = (IF head = Size THEN 0 ELSE head)
  BY <1>1, <1>2, Observers
<1>4. head' = First + 1
  BY <1>3 DEF Get, First
<1>5. IndexOK'
  BY <1>1, <1>2, <1>3, <1>4 DEF IndexOK, Slot
<1>6. First' = IF First + 1 = Size THEN 0 ELSE First + 1
  <2>1. First' = (head' % Size)
    BY <1>1 DEF First
  <2>2. head' \in 0 .. Size
    BY <1>1, <1>3, <1>4
  <2> QED
    BY <1>1, <1>3, <1>4, <2>1, <2>2, ModSize
<1>7. Count \in 1 .. Requested
  BY <1>1, Observers DEF Get
<1>8. Count' = Count - 1
  BY <1>1, <1>2, <1>3, <1>6, <1>7 DEF Count
<1>9. \A i \in 1 .. Count - 1 : At(i)' = At(i + 1)
  <2> TAKE i \in 1 .. Count - 1
  <2>1. i \in Nat /\ i < Requested /\ i + 1 <= Requested
    BY <1>1, <1>7
  <2>2. At(i)' = IF First' + i <= Size THEN First' + i - 1 ELSE First' + i - 1 - Size
    BY <1>1 DEF At
  <2>3. At(i + 1) = IF First + (i + 1) <= Size THEN First + (i + 1) - 1
                                               ELSE First + (i + 1) - 1 - Size
    BY DEF At
  <2>4. First \in Nat /\ First < Size /\ Size \in Nat
    <3>1. Size \in Nat
      BY <1>1
    <3>2. First \in 0 .. Size - 1
      BY <1>3
    <3> QED
      BY <3>1, <3>2
  <2>5. CASE First + 1 = Size
    <3>1. First' + i <= Size /\ ~(First + (i + 1) <= Size)
      BY <1>1, <1>6, <2>1, <2>4, <2>5
    <3> QED
      BY <1>6, <2>1, <2>2, <2>3, <2>4, <2>5, <3>1
  <2>6. CASE First + 1 # Size
    BY <1>6, <2>1, <2>2, <2>3, <2>4, <2>6
  <2> QED
    BY <2>5, <2>6
<1>10. Contents' = [i \in 1 .. Count - 1 |-> buffer[At(i + 1)]]
  BY <1>2, <1>8, <1>9 DEF Contents
<1>11. /\ Contents # << >>
       /\ Contents' = Tail(Contents)
  <2>1. /\ Contents \in Seq(Item \cup {Blank})
        /\ Len(Contents) = Count
        /\ \A i \in 1 .. Count : Contents[i] = buffer[At(i)]
    BY ContentsIsSeq DEF Contents
  <2>2. Contents # << >>
    BY <1>1, <1>7, <2>1
  <2>3. Tail(Contents) = [i \in 1 .. Count - 1 |-> Contents[i + 1]]
    BY <2>1, <2>2, TailIsFunction
  <2> QED
    BY <1>1, <1>7, <1>10, <2>1, <2>2, <2>3
<1> QED
  BY <1>5, <1>11

-----------------------------------------------------------------------------
IInv == IndexOK /\ Contents \in Seq(Item)

LEMMA InitIInv == RingInit => IInv
<1> SUFFICES ASSUME RingInit PROVE IInv
  OBVIOUS
<1>1. Size = Requested + 1 /\ Requested \in Nat
  BY RequestedAssumption DEF Size
<1>2. IndexOK
  BY <1>1 DEF RingInit, IndexOK, Slot
<1>3. First = 0
  BY <1>2, Observers DEF RingInit
<1>4. Count = 0
  BY <1>3 DEF RingInit, Count
<1>5. Contents = << >>
  BY <1>2, <1>4, ContentsIsSeq
<1> QED
  BY <1>2, <1>5 DEF IInv

LEMMA NextIInv == IInv /\ [RingNext]_ringVars => IInv'
<1> SUFFICES ASSUME IInv, [RingNext]_ringVars PROVE IInv'
  OBVIOUS
<1>1. CASE Get
  BY <1>1, GetStep DEF IInv
<1>2. ASSUME NEW x \in Item, Put(x) PROVE IInv'
  BY <1>2, PutStep DEF IInv
<1>3. CASE UNCHANGED ringVars
  BY <1>3 DEF IInv, IndexOK, Contents, Count, At, First, ringVars
<1> QED
  BY <1>1, <1>2, <1>3 DEF RingNext

\* The indices stay in range and the ring never holds a T() as an item, for
\* every size the constructor of lab4/CircularBuffer.h is given.
THEOREM TypeCorrect == RingSpec => []RingTypeOK
<1>1. IInv => RingTypeOK
  BY DEF IInv, IndexOK, RingTypeOK
<1> QED
  BY <1>1, InitIInv, NextIInv, PTL DEF RingSpec

\* empty(), full() and get() are exact in every reachable state, for every
\* size: the asymmetric normalisation of head and tail is never wrong.
THEOREM ObserversCorrect == RingSpec => []ObserversAreExact
<1>1. IInv => ObserversAreExact
  <2> SUFFICES ASSUME IInv PROVE ObserversAreExact
    OBVIOUS
  <2>1. ASSUME ~Empty PROVE Front = Head(Contents)
    <3>1. Count \in Nat \ {0}
      BY <2>1, Observers, RequestedAssumption DEF IInv
    <3>2. First \in 0 .. Size - 1
      BY Observers, RequestedAssumption DEF IInv, IndexOK, Slot, Size
    <3>3. At(1) = First
      BY <3>2, RequestedAssumption DEF At, Size
    <3>4. Contents[1] = buffer[First]
      BY <3>1, <3>3 DEF Contents
    <3> QED
      BY <3>1, <3>4, ContentsIsSeq DEF IInv, Front, First
  <2> QED
    BY <2>1, Observers DEF IInv, ObserversAreExact
<1> QED
  BY <1>1, InitIInv, NextIInv, PTL DEF RingSpec

\* Every run of the ring of lab4/CircularBuffer.h is a run of a bounded FIFO
\* of Requested items, for every size.
THEOREM ImplementsFifo == RingSpec => FifoSpec
<1>1. RingInit => Fifo!Init
  <2> SUFFICES ASSUME RingInit PROVE Contents = << >>
    BY DEF Fifo!Init
  <2>1. IndexOK /\ Count = 0
    BY InitIInv, RequestedAssumption, Observers DEF RingInit, IInv, Count, Size
  <2> QED
    BY <2>1, ContentsIsSeq
<1>2. IInv /\ [RingNext]_ringVars => [Fifo!Next]_Contents
  <2> SUFFICES ASSUME IInv, [RingNext]_ringVars PROVE [Fifo!Next]_Contents
    OBVIOUS
  <2>1. CASE Get
    BY <2>1, GetStep DEF IInv, Fifo!Next, Fifo!Get
  <2>2. ASSUME NEW x \in Item, Put(x) PROVE Fifo!Next
    BY <2>2, PutStep, ContentsIsSeq DEF IInv, Fifo!Next, Fifo!Put
  <2>3. CASE UNCHANGED ringVars
    BY <2>3 DEF Contents, Count, At, First, ringVars
  <2> QED
    BY <2>1, <2>2, <2>3 DEF RingNext
<1> QED
  BY <1>1, <1>2, InitIInv, NextIInv, PTL DEF RingSpec, FifoSpec, Fifo!Spec

-----------------------------------------------------------------------------
(* lab4/Jobs.h on the ring: who holds a job, and where it waits.           *)
HeldInv ==
  /\ IInv
  /\ status \in [Thread -> Monitor!Status]
  /\ arg = [t \in Thread |-> arg[t]]
  /\ \A t \in Thread : IF status[t] \in {"put_wait", "put_woken"}
                       THEN arg[t] \in Item ELSE arg[t] = NoJob

InPut(where) == where \in {"put_wait", "put_woken"}

LEMMA NotifyMovesSleepers ==
  ASSUME NEW st \in [Thread -> Monitor!Status],
         NEW asleep, NEW woken, << asleep, woken >> \in {<< "put_wait", "put_woken" >>, << "get_wait", "get_woken" >>},
         NEW new \in Monitor!NotifyOne(st, asleep, woken) \cup {Monitor!NotifyAll(st, asleep, woken)}
  PROVE  /\ new \in [Thread -> Monitor!Status]
         /\ \A t \in Thread : InPut(new[t]) <=> InPut(st[t])
<1>1. \/ new = st
      \/ \E t \in Thread : st[t] = asleep /\ new = [st EXCEPT ![t] = woken]
      \/ new = [t \in Thread |-> IF st[t] = asleep THEN woken ELSE st[t]]
  <2>1. CASE new \in Monitor!NotifyOne(st, asleep, woken)
    <3>1. CASE Monitor!In(st, asleep) = {}
      BY <2>1, <3>1 DEF Monitor!NotifyOne
    <3>2. CASE Monitor!In(st, asleep) # {}
      <4>1. new \in {[st EXCEPT ![t] = woken] : t \in Monitor!In(st, asleep)}
        BY <2>1, <3>2 DEF Monitor!NotifyOne
      <4> QED BY <4>1 DEF Monitor!In
    <3> QED BY <3>1, <3>2
  <2>2. CASE new = Monitor!NotifyAll(st, asleep, woken)
    BY <2>2 DEF Monitor!NotifyAll
  <2> QED BY <2>1, <2>2
<1>2. new \in [Thread -> Monitor!Status]
  BY <1>1 DEF Monitor!Status
<1>3. \A t \in Thread : new[t] = st[t] \/ (st[t] = asleep /\ new[t] = woken)
  <2>1. CASE new = [t \in Thread |-> IF st[t] = asleep THEN woken ELSE st[t]]
    BY <2>1
  <2>2. ASSUME NEW s \in Thread, st[s] = asleep, new = [st EXCEPT ![s] = woken]
        PROVE  \A t \in Thread : new[t] = st[t] \/ (st[t] = asleep /\ new[t] = woken)
    BY <2>2
  <2> QED BY <1>1, <2>1, <2>2
<1> QED BY <1>2, <1>3 DEF InPut

LEMMA HeldInit == InitJobs => HeldInv
<1>1. RingInit => IInv
  BY InitIInv
<1> QED BY <1>1 DEF InitJobs, HeldInv, Monitor!Status

(* put() and get(), from a lock or a wake-up, as steps of the monitor.      *)
LEMMA PutSectionStep ==
  ASSUME HeldInv, NEW t \in Thread, NEW x \in Item, PutSection(t, x),
         \/ status[t] = "out" /\ ~closed
         \/ status[t] = "put_woken" /\ x = arg[t]
  PROVE  /\ HeldInv'
         /\ [\E y \in Item : Put(y)]_ringVars
         /\ IF status[t] = "out"
            THEN Monitor!PutReturns(t, x) \/ Monitor!PutBlocks(t, x)
            ELSE Monitor!PutResumes(t) \/ Monitor!PutSleepsAgain(t)
<1>1. /\ IndexOK /\ Contents \in Seq(Item) /\ Requested \in Nat
      /\ Len(Contents) = Count /\ Count \in 0 .. Requested
      /\ Full <=> Count = Requested
  BY ContentsIsSeq, Observers, RequestedAssumption DEF HeldInv, IInv
<1>2. CASE Full /\ UNCHANGED << buffer, head, tail, closed >>
           /\ status' = Goes(t, "put_wait") /\ arg' = [arg EXCEPT ![t] = x]
  <2>1. Contents' = Contents /\ IInv' /\ UNCHANGED ringVars
    BY <1>2, NextIInv DEF ringVars, Contents, Count, At, First, HeldInv
  <2>2. ~Monitor!Room
    BY <1>1, <1>2 DEF Monitor!Room
  <2>3. HeldInv'
    BY <1>2, <2>1 DEF HeldInv, Goes, Monitor!Status
  <2>4. status[t] # "out" => arg' = arg
    BY <1>2 DEF HeldInv
  <2> QED BY <1>2, <2>1, <2>2, <2>3, <2>4 DEF Monitor!PutBlocks, Monitor!PutSleepsAgain, Goes
<1>3. CASE Put(x) /\ status' \in Monitor!NotifyOne(Goes(t, "out"), "get_wait", "get_woken")
           /\ arg' = [arg EXCEPT ![t] = NoJob] /\ closed' = closed
  <2>1. IndexOK' /\ Contents' = Append(Contents, x) /\ Contents' \in Seq(Item) /\ Monitor!Room
    BY <1>1, <1>3, PutStep DEF Monitor!Room
  <2>2. Goes(t, "out") \in [Thread -> Monitor!Status]
    BY DEF HeldInv, Goes, Monitor!Status
  <2>3. /\ status' \in [Thread -> Monitor!Status]
        /\ \A s \in Thread : InPut(status'[s]) <=> InPut(Goes(t, "out")[s])
    BY <1>3, <2>2, NotifyMovesSleepers
  <2>4. HeldInv'
    <3>1. \A s \in Thread : InPut(status'[s]) <=> s # t /\ InPut(status[s])
      BY <2>3 DEF Goes, HeldInv, InPut
    <3> QED BY <1>3, <2>1, <2>3, <3>1 DEF HeldInv, IInv, InPut
  <2>5. status[t] = "out" => arg' = arg /\ Goes(t, "out") = status
    BY <1>3 DEF HeldInv, Goes
  <2> QED BY <1>3, <2>1, <2>4, <2>5 DEF Monitor!PutReturns, Monitor!PutResumes, Goes
<1> QED BY <1>2, <1>3 DEF PutSection

LEMMA GetSectionStep ==
  ASSUME HeldInv, NEW t \in Thread, GetSection(t), status[t] \in {"out", "get_woken"}
  PROVE  /\ HeldInv'
         /\ [Get]_ringVars
         /\ IF status[t] = "out"
            THEN Monitor!GetReturns(t) \/ Monitor!GetNone(t) \/ Monitor!GetBlocks(t)
            ELSE Monitor!GetResumes(t) \/ Monitor!GetResumesNone(t) \/ Monitor!GetSleepsAgain(t)
<1>1. /\ IndexOK /\ Contents \in Seq(Item)
      /\ Empty <=> Contents = << >>
  BY ContentsIsSeq, Observers, RequestedAssumption DEF HeldInv, IInv
<1>2. CASE /\ Empty /\ UNCHANGED << buffer, head, tail, closed, arg >>
           /\ status' = IF closed THEN Goes(t, "out") ELSE Goes(t, "get_wait")
  <2>1. Contents' = Contents /\ IInv' /\ UNCHANGED ringVars
    BY <1>2, NextIInv DEF ringVars, Contents, Count, At, First, HeldInv
  <2>2. HeldInv'
    BY <1>2, <2>1 DEF HeldInv, Goes, Monitor!Status
  <2>3. status[t] = "out" => Goes(t, "out") = status
    BY DEF HeldInv, Goes
  <2> QED BY <1>1, <1>2, <2>1, <2>2, <2>3
          DEF Monitor!GetNone, Monitor!GetBlocks, Monitor!GetResumesNone, Monitor!GetSleepsAgain,
              Monitor!vars, Goes
<1>3. CASE Get /\ status' \in Monitor!NotifyOne(Goes(t, "out"), "put_wait", "put_woken")
           /\ UNCHANGED << closed, arg >>
  <2>1. IndexOK' /\ Contents # << >> /\ Contents' = Tail(Contents) /\ Contents' \in Seq(Item)
    BY <1>1, <1>3, GetStep
  <2>2. Goes(t, "out") \in [Thread -> Monitor!Status]
    BY DEF HeldInv, Goes, Monitor!Status
  <2>3. /\ status' \in [Thread -> Monitor!Status]
        /\ \A s \in Thread : InPut(status'[s]) <=> InPut(Goes(t, "out")[s])
    BY <1>3, <2>2, NotifyMovesSleepers
  <2>4. HeldInv'
    <3>1. \A s \in Thread : InPut(status'[s]) <=> InPut(status[s])
      BY <2>3 DEF Goes, HeldInv, InPut
    <3> QED BY <1>3, <2>1, <2>3, <3>1 DEF HeldInv, IInv, InPut
  <2>5. status[t] = "out" => Goes(t, "out") = status
    BY DEF HeldInv, Goes
  <2> QED BY <1>3, <2>1, <2>4, <2>5 DEF Monitor!GetReturns, Monitor!GetResumes, Goes
<1> QED BY <1>2, <1>3 DEF GetSection

(* Every step of lab4/Jobs.h keeps the invariant, calls the ring as its    *)
(* class wants to be called, and is a step of the monitor.                 *)
LEMMA JobsStep ==
  ASSUME HeldInv, NextJobs
  PROVE  HeldInv' /\ [RingNext]_ringVars /\ [Monitor!Next]_<< Contents, closed, status, arg >>
<1>1. PICK t \in Thread :
        \/ \E x \in Item : PutJob(t, x)
        \/ PutThrows(t) \/ GetJob(t) \/ Close(t) \/ Reacquires(t) \/ SpuriousWakeup(t)
  BY DEF NextJobs
<1>2. ASSUME NEW x \in Item, PutJob(t, x)
      PROVE  HeldInv' /\ [RingNext]_ringVars /\ Monitor!Next
  <2>1. status[t] = "out" /\ ~closed /\ PutSection(t, x)
    BY <1>2 DEF PutJob
  <2>2. /\ HeldInv' /\ [\E y \in Item : Put(y)]_ringVars
        /\ Monitor!PutReturns(t, x) \/ Monitor!PutBlocks(t, x)
    BY <2>1, PutSectionStep
  <2> QED BY <2>2 DEF RingNext, Monitor!Next
<1>3. CASE GetJob(t)
  <2>1. status[t] = "out" /\ GetSection(t)
    BY <1>3 DEF GetJob
  <2>2. /\ HeldInv' /\ [Get]_ringVars
        /\ Monitor!GetReturns(t) \/ Monitor!GetNone(t) \/ Monitor!GetBlocks(t)
    BY <2>1, GetSectionStep
  <2> QED BY <2>2 DEF RingNext, Monitor!Next
<1>4. CASE Reacquires(t)
  <2>1. CASE status[t] = "put_woken" /\ PutSection(t, arg[t])
    <3>1. arg[t] \in Item
      BY <2>1 DEF HeldInv
    <3>2. /\ HeldInv' /\ [\E y \in Item : Put(y)]_ringVars
          /\ Monitor!PutResumes(t) \/ Monitor!PutSleepsAgain(t)
      BY <2>1, <3>1, PutSectionStep
    <3> QED BY <3>2 DEF RingNext, Monitor!Next, Monitor!Reacquires
  <2>2. CASE status[t] = "get_woken" /\ GetSection(t)
    <3>1. /\ HeldInv' /\ [Get]_ringVars
          /\ Monitor!GetResumes(t) \/ Monitor!GetResumesNone(t) \/ Monitor!GetSleepsAgain(t)
      BY <2>2, GetSectionStep
    <3> QED BY <3>1 DEF RingNext, Monitor!Next, Monitor!Reacquires
  <2> QED BY <1>4, <2>1, <2>2 DEF Reacquires
<1>5. CASE PutThrows(t) \/ Close(t) \/ SpuriousWakeup(t)
  <2>1. UNCHANGED ringVars /\ arg' = arg
    BY <1>5 DEF PutThrows, Close, SpuriousWakeup, all, ringVars
  <2>2. Contents' = Contents /\ IInv'
    BY <2>1, NextIInv DEF ringVars, Contents, Count, At, First, HeldInv
  <2>3. status' \in [Thread -> Monitor!Status] /\ \A s \in Thread : InPut(status'[s]) <=> InPut(status[s])
    <3>1. CASE PutThrows(t)
      BY <3>1 DEF PutThrows, all, HeldInv
    <3>2. CASE Close(t)
      BY <3>2, NotifyMovesSleepers DEF Close, HeldInv
    <3>3. CASE SpuriousWakeup(t)
      BY <3>3 DEF SpuriousWakeup, Goes, HeldInv, Monitor!Status, InPut
    <3> QED BY <1>5, <3>1, <3>2, <3>3
  <2>4. HeldInv'
    BY <2>1, <2>2, <2>3 DEF HeldInv, InPut
  <2>5. Monitor!PutThrows(t) \/ Monitor!Close(t) \/ Monitor!SpuriousWakeup(t)
    BY <1>5, <2>1, <2>2
       DEF PutThrows, Close, SpuriousWakeup, Goes, all,
           Monitor!PutThrows, Monitor!Close, Monitor!SpuriousWakeup, Monitor!vars
  <2> QED BY <2>1, <2>4, <2>5 DEF Monitor!Next
<1> QED BY <1>1, <1>2, <1>3, <1>4, <1>5

LEMMA HeldNext ==
  HeldInv /\ [NextJobs]_all =>
    HeldInv' /\ [RingNext]_ringVars /\ [Monitor!Next]_<< Contents, closed, status, arg >>
<1>1. HeldInv /\ UNCHANGED all =>
        HeldInv' /\ UNCHANGED ringVars /\ UNCHANGED << Contents, closed, status, arg >>
  <2> SUFFICES ASSUME HeldInv, UNCHANGED all
               PROVE  HeldInv' /\ UNCHANGED ringVars /\ UNCHANGED << Contents, closed, status, arg >>
    OBVIOUS
  <2>1. UNCHANGED ringVars /\ UNCHANGED << closed, status, arg >>
    BY DEF all, ringVars
  <2>2. Contents' = Contents /\ IInv'
    BY <2>1, NextIInv DEF ringVars, Contents, Count, At, First, HeldInv
  <2> QED BY <2>1, <2>2 DEF HeldInv
<1> QED BY <1>1, JobsStep

(* The monitor calls put() and get() of the ring only when it is not full  *)
(* and not empty, so that what holds of the ring holds under the monitor.  *)
THEOREM RingIsCalledRight == SpecJobs => RingSpec /\ []ObserversAreExact /\ FifoSpec
<1>1. InitJobs => RingInit
  BY DEF InitJobs
<1>2. SpecJobs => RingSpec
  BY <1>1, HeldInit, HeldNext, PTL DEF SpecJobs, RingSpec
<1> QED BY <1>2, ObserversCorrect, ImplementsFifo, PTL

(* lab4/Jobs.h over the ring does, step for step, what the monitor does    *)
(* over a queue; the fairness that ImplementsJobs adds is model-checked.   *)
THEOREM RingImplementsJobs == SpecJobs => Monitor!Safety
<1>1. InitJobs => Monitor!Init
  <2> SUFFICES ASSUME InitJobs PROVE Monitor!Init
    OBVIOUS
  <2>1. Contents = << >>
    <3>1. RingInit /\ IndexOK /\ Count = 0
      BY InitIInv, RequestedAssumption, Observers DEF InitJobs, RingInit, IInv, Count, Size
    <3> QED BY <3>1, ContentsIsSeq
  <2> QED BY <2>1 DEF InitJobs, Monitor!Init
<1> QED BY <1>1, HeldInit, HeldNext, PTL DEF SpecJobs, Monitor!Safety, Monitor!vars

-----------------------------------------------------------------------------

(***************************************************************************)
(* The array of lab 1.  StoreInv says who owns what (Owned: a block that   *)
(* is allocated is held by one variable or one place, and its text is that *)
(* of the holder), that no identifier is in two places (Unique), and how   *)
(* many messages there are (CountInv).  Owned is a relation of any         *)
(* variables, array and memory, so that an operation that deletes one      *)
(* block and takes another is two steps of it.                             *)
(***************************************************************************)
Message == [id : INVALID_ID .. MaxId - 1, data : Block \cup {None}]

(* The message in a variable or in a place has this text, or none.          *)
OwnsItsText(h, m) == m.data # None => m.id # INVALID_ID /\ h[m.data] = m.id

Has(ob, v, b) == ob[v] # None /\ ob[v].data = b

Owned(ob, ms, h) ==
  /\ ob \in [Var -> Message \cup {None}]
  /\ ms \in Seq(Message)
  /\ h \in [Block -> (0 .. MaxId - 1) \cup {None}]
  /\ \A v \in Var : ob[v] # None => OwnsItsText(h, ob[v])
  /\ \A i \in 1 .. Len(ms) : OwnsItsText(h, ms[i])
  /\ \A b \in Block : \A v, w \in Var : Has(ob, v, b) /\ Has(ob, w, b) => v = w
  /\ \A b \in Block : \A i, k \in 1 .. Len(ms) : ms[i].data = b /\ ms[k].data = b => i = k
  /\ \A b \in Block : \A v \in Var, i \in 1 .. Len(ms) : Has(ob, v, b) => ms[i].data # b
  /\ \A b \in Block : h[b] # None =>
       (\E v \in Var : Has(ob, v, b)) \/ (\E i \in 1 .. Len(ms) : ms[i].data = b)

-----------------------------------------------------------------------------
LEMMA NoneIsNoMessage ==
  /\ None \notin Message /\ None \notin Block /\ None \notin Nat
  /\ Default \in Message /\ Default.data = None /\ Default.id = INVALID_ID
  /\ \A m \in Message : /\ MovedFrom(m) \in Message
                        /\ MovedFrom(m).data = None /\ MovedFrom(m).id = m.id
<1>1. Message \subseteq [id : Int, data : Block \cup {None}]
  BY StoreAssumption DEF Message, INVALID_ID
<1>2. Default \in Message /\ Default.data = None /\ Default.id = INVALID_ID
  BY StoreAssumption DEF Default, Message, INVALID_ID
<1>3. \A m \in Message : /\ MovedFrom(m) \in Message
                        /\ MovedFrom(m).data = None /\ MovedFrom(m).id = m.id
  BY StoreAssumption DEF MovedFrom, Message, INVALID_ID
<1> QED
  BY <1>1, <1>2, <1>3, StoreAssumption

(* A variable without a block gets a new one.                               *)
LEMMA VarTakes ==
  ASSUME NEW ob, NEW ms, NEW h, Owned(ob, ms, h), NEW v \in Var,
         ob[v] # None => ob[v].data = None,
         NEW b \in Block, h[b] = None, NEW x \in Message, x.id # INVALID_ID, x.data = b
  PROVE  Owned([ob EXCEPT ![v] = x], ms, [h EXCEPT ![b] = x.id])
<1> DEFINE o2 == [ob EXCEPT ![v] = x]
           h2 == [h EXCEPT ![b] = x.id]
<1> USE NoneIsNoMessage
<1>1. /\ ob \in [Var -> Message \cup {None}]
      /\ ms \in Seq(Message)
      /\ h \in [Block -> (0 .. MaxId - 1) \cup {None}]
  BY DEF Owned
<1>2. x.id \in 0 .. MaxId - 1
  BY StoreAssumption DEF Message, INVALID_ID
<1>3. /\ o2 \in [Var -> Message \cup {None}]
      /\ h2 \in [Block -> (0 .. MaxId - 1) \cup {None}]
      /\ o2[v] = x /\ \A w \in Var : w # v => o2[w] = ob[w]
      /\ h2[b] = x.id /\ \A c \in Block : c # b => h2[c] = h[c]
  BY <1>1, <1>2
<1>4. \A i \in 1 .. Len(ms) : ms[i] \in Message
  BY <1>1
<1>5. /\ \A w \in Var : w # v => ~Has(ob, w, b)
      /\ \A i \in 1 .. Len(ms) : ms[i].data # b
  <2>1. \A m \in Message : OwnsItsText(h, m) => m.data # b
    BY StoreAssumption DEF OwnsItsText, Message, INVALID_ID
  <2>2. \A w \in Var : ob[w] # None => ob[w].data # b
    BY <1>1, <2>1 DEF Owned
  <2>3. \A i \in 1 .. Len(ms) : ms[i].data # b
    BY <1>4, <2>1 DEF Owned
  <2> QED BY <2>2, <2>3 DEF Has
<1> HIDE DEF o2, h2
<1>6. \A c \in Block : \A w \in Var : Has(o2, w, c) <=> (IF w = v THEN c = b ELSE Has(ob, w, c))
  BY <1>3 DEF Has
<1>7. \A c \in Block : Has(ob, v, c) => FALSE
  BY DEF Has
<1>8. \A w \in Var : o2[w] # None => OwnsItsText(h2, o2[w])
  <2> SUFFICES ASSUME NEW w \in Var, o2[w] # None, o2[w].data # None
               PROVE  o2[w].id # INVALID_ID /\ h2[o2[w].data] = o2[w].id
    BY DEF OwnsItsText
  <2>1. CASE w = v
    BY <1>3, <2>1
  <2>2. CASE w # v
    <3>1. o2[w] = ob[w] /\ ob[w] \in Message
      BY <1>1, <1>3, <2>2
    <3>2. ob[w].data \in Block /\ ob[w].data # b
      BY <3>1, <1>5, <2>2 DEF Message, Has
    <3> QED BY <3>1, <3>2, <1>3 DEF Owned, OwnsItsText
  <2> QED BY <2>1, <2>2
<1>9. \A i \in 1 .. Len(ms) : OwnsItsText(h2, ms[i])
  <2> SUFFICES ASSUME NEW i \in 1 .. Len(ms), ms[i].data # None
               PROVE  ms[i].id # INVALID_ID /\ h2[ms[i].data] = ms[i].id
    BY DEF OwnsItsText
  <2>1. ms[i].data \in Block /\ ms[i].data # b
    BY <1>4, <1>5 DEF Message
  <2> QED BY <2>1, <1>3 DEF Owned, OwnsItsText
<1>10. \A c \in Block : h2[c] # None =>
         (\E w \in Var : Has(o2, w, c)) \/ (\E i \in 1 .. Len(ms) : ms[i].data = c)
  BY <1>3, <1>6, <1>7 DEF Owned
<1>11. /\ \A c \in Block : \A u, w \in Var : Has(o2, u, c) /\ Has(o2, w, c) => u = w
       /\ \A c \in Block : \A w \in Var, i \in 1 .. Len(ms) : Has(o2, w, c) => ms[i].data # c
  BY <1>5, <1>6 DEF Owned
<1> QED
  BY <1>1, <1>3, <1>8, <1>9, <1>10, <1>11 DEF Owned, o2, h2

(* A variable begins its lifetime without a block.                         *)
LEMMA VarPlain ==
  ASSUME NEW ob, NEW ms, NEW h, Owned(ob, ms, h), NEW v \in Var, ob[v] = None,
         NEW x \in Message, x.data = None
  PROVE  Owned([ob EXCEPT ![v] = x], ms, h)
<1> DEFINE o2 == [ob EXCEPT ![v] = x]
<1> USE NoneIsNoMessage
<1>1. ob \in [Var -> Message \cup {None}]
  BY DEF Owned
<1>2. /\ o2 \in [Var -> Message \cup {None}]
      /\ o2[v] = x /\ \A w \in Var : w # v => o2[w] = ob[w]
  BY <1>1
<1> HIDE DEF o2
<1>3. \A c \in Block : \A w \in Var : Has(o2, w, c) <=> Has(ob, w, c)
  BY <1>2 DEF Has
<1>4. \A w \in Var : o2[w] # None => OwnsItsText(h, o2[w])
  BY <1>2 DEF Owned, OwnsItsText
<1>5. \A c \in Block : h[c] # None =>
        (\E w \in Var : Has(o2, w, c)) \/ (\E i \in 1 .. Len(ms) : ms[i].data = c)
  BY <1>3 DEF Owned
<1>6. /\ \A c \in Block : \A u, w \in Var : Has(o2, u, c) /\ Has(o2, w, c) => u = w
      /\ \A c \in Block : \A w \in Var, i \in 1 .. Len(ms) : Has(o2, w, c) => ms[i].data # c
  BY <1>3 DEF Owned
<1> QED
  BY <1>2, <1>4, <1>5, <1>6 DEF Owned, o2

(* A variable loses its block, which is deleted.                            *)
LEMMA VarDrops ==
  ASSUME NEW ob, NEW ms, NEW h, Owned(ob, ms, h), NEW v \in Var, ob[v] # None,
         NEW x, x = None \/ (x \in Message /\ x.data = None)
  PROVE  Owned([ob EXCEPT ![v] = x], ms, Delete(h, ob[v].data))
<1> DEFINE o2 == [ob EXCEPT ![v] = x]
           h2 == Delete(h, ob[v].data)
<1> USE NoneIsNoMessage
<1>1. /\ ob \in [Var -> Message \cup {None}]
      /\ ms \in Seq(Message)
      /\ h \in [Block -> (0 .. MaxId - 1) \cup {None}]
      /\ \A i \in 1 .. Len(ms) : ms[i] \in Message
  BY DEF Owned
<1>2. ob[v] \in Message /\ ob[v].data \in Block \cup {None}
  BY <1>1 DEF Message
<1>3. /\ o2 \in [Var -> Message \cup {None}]
      /\ h2 \in [Block -> (0 .. MaxId - 1) \cup {None}]
      /\ o2[v] = x /\ \A w \in Var : w # v => o2[w] = ob[w]
      /\ \A c \in Block : h2[c] = IF c = ob[v].data THEN None ELSE h[c]
  BY <1>1, <1>2 DEF Delete
<1> HIDE DEF o2, h2
<1>6. \A c \in Block : \A w \in Var : Has(o2, w, c) <=> (w # v /\ Has(ob, w, c))
  BY <1>3 DEF Has
<1>8. \A w \in Var : o2[w] # None => OwnsItsText(h2, o2[w])
  <2> SUFFICES ASSUME NEW w \in Var, o2[w] # None, o2[w].data # None
               PROVE  o2[w].id # INVALID_ID /\ h2[o2[w].data] = o2[w].id
    BY DEF OwnsItsText
  <2>1. w # v
    BY <1>3
  <2>2. o2[w] = ob[w] /\ ob[w] \in Message
    BY <1>1, <1>3, <2>1
  <2>3. ob[w].data \in Block
    BY <2>2 DEF Message
  <2>4. Has(ob, w, ob[w].data) /\ (ob[v].data = ob[w].data => Has(ob, v, ob[w].data))
    BY <2>2 DEF Has
  <2>5. ob[v].data # ob[w].data
    BY <2>1, <2>3, <2>4 DEF Owned
  <2> QED BY <2>2, <2>3, <2>5, <1>3 DEF Owned, OwnsItsText
<1>9. \A i \in 1 .. Len(ms) : OwnsItsText(h2, ms[i])
  <2> SUFFICES ASSUME NEW i \in 1 .. Len(ms), ms[i].data # None
               PROVE  ms[i].id # INVALID_ID /\ h2[ms[i].data] = ms[i].id
    BY DEF OwnsItsText
  <2>1. ms[i].data \in Block
    BY <1>1 DEF Message
  <2>2. ms[i].data # ob[v].data
    <3>1. ob[v].data \in Block => Has(ob, v, ob[v].data)
      BY DEF Has
    <3> QED BY <2>1, <3>1 DEF Owned
  <2> QED BY <2>1, <2>2, <1>3 DEF Owned, OwnsItsText
<1>10. \A c \in Block : h2[c] # None =>
         (\E w \in Var : Has(o2, w, c)) \/ (\E i \in 1 .. Len(ms) : ms[i].data = c)
  <2> SUFFICES ASSUME NEW c \in Block, h2[c] # None
      PROVE (\E w \in Var : Has(o2, w, c)) \/ (\E i \in 1 .. Len(ms) : ms[i].data = c)
    OBVIOUS
  <2>1. c # ob[v].data /\ h[c] # None
    BY <1>3
  <2>2. ~Has(ob, v, c)
    BY <2>1 DEF Has
  <2> QED BY <2>1, <2>2, <1>6 DEF Owned
<1>11. /\ \A c \in Block : \A u, w \in Var : Has(o2, u, c) /\ Has(o2, w, c) => u = w
       /\ \A c \in Block : \A w \in Var, i \in 1 .. Len(ms) : Has(o2, w, c) => ms[i].data # c
  BY <1>6 DEF Owned
<1> QED
  BY <1>1, <1>3, <1>8, <1>9, <1>10, <1>11 DEF Owned, o2, h2

(* A variable without a block takes over the one of another.                *)
LEMMA VarMoves ==
  ASSUME NEW ob, NEW ms, NEW h, Owned(ob, ms, h), NEW v \in Var, NEW w \in Var, v # w,
         ob[v] # None => ob[v].data = None, ob[w] # None
  PROVE  Owned([ob EXCEPT ![v] = ob[w], ![w] = MovedFrom(ob[w])], ms, h)
<1> DEFINE o2 == [ob EXCEPT ![v] = ob[w], ![w] = MovedFrom(ob[w])]
<1> USE NoneIsNoMessage
<1>1. /\ ob \in [Var -> Message \cup {None}]
      /\ ms \in Seq(Message)
      /\ h \in [Block -> (0 .. MaxId - 1) \cup {None}]
  BY DEF Owned
<1>2. ob[w] \in Message /\ ob[w].data \in Block \cup {None}
  BY <1>1 DEF Message
<1>3. MovedFrom(ob[w]) \in Message /\ MovedFrom(ob[w]).data = None
  BY <1>2
<1>4. /\ o2 \in [Var -> Message \cup {None}]
      /\ o2[v] = ob[w] /\ o2[w] = MovedFrom(ob[w])
      /\ \A u \in Var \ {v, w} : o2[u] = ob[u]
  BY <1>1, <1>2, <1>3
<1> HIDE DEF o2
<1>6. \A c \in Block : \A u \in Var :
        Has(o2, u, c) <=> IF u = v THEN Has(ob, w, c) ELSE u # w /\ Has(ob, u, c)
  BY <1>2, <1>3, <1>4 DEF Has
<1>7. \A c \in Block : ~Has(ob, v, c)
  BY DEF Has
<1>8. \A u \in Var : o2[u] # None => OwnsItsText(h, o2[u])
  BY <1>2, <1>3, <1>4 DEF Owned, OwnsItsText
<1>10. \A c \in Block : h[c] # None =>
         (\E u \in Var : Has(o2, u, c)) \/ (\E i \in 1 .. Len(ms) : ms[i].data = c)
  <2> SUFFICES ASSUME NEW c \in Block, h[c] # None, NEW u \in Var, Has(ob, u, c)
      PROVE \E t \in Var : Has(o2, t, c)
    BY DEF Owned
  <2>1. CASE u = w
    <3>1. Has(o2, v, c)
      BY <2>1, <1>6
    <3> QED BY <3>1
  <2>2. CASE u # w
    <3>1. Has(o2, u, c)
      BY <2>2, <1>6, <1>7
    <3> QED BY <3>1
  <2> QED BY <2>1, <2>2
<1>11. /\ \A c \in Block : \A u, t \in Var : Has(o2, u, c) /\ Has(o2, t, c) => u = t
       /\ \A c \in Block : \A u \in Var, i \in 1 .. Len(ms) : Has(o2, u, c) => ms[i].data # c
  BY <1>6 DEF Owned
<1> QED
  BY <1>1, <1>4, <1>8, <1>10, <1>11 DEF Owned, o2

(* A place of the array loses its block, which is deleted.                  *)
LEMMA PlaceDrops ==
  ASSUME NEW ob, NEW ms, NEW h, Owned(ob, ms, h), NEW i \in 1 .. Len(ms),
         NEW x \in Message, x.data = None
  PROVE  Owned(ob, [ms EXCEPT ![i] = x], Delete(h, ms[i].data))
<1> DEFINE m2 == [ms EXCEPT ![i] = x]
           h2 == Delete(h, ms[i].data)
<1> USE NoneIsNoMessage
<1>1. /\ ob \in [Var -> Message \cup {None}]
      /\ ms \in Seq(Message)
      /\ h \in [Block -> (0 .. MaxId - 1) \cup {None}]
      /\ \A k \in 1 .. Len(ms) : ms[k] \in Message
  BY DEF Owned
<1>2. ms[i] \in Message /\ ms[i].data \in Block \cup {None}
  BY <1>1 DEF Message
<1>3. /\ m2 \in Seq(Message) /\ Len(m2) = Len(ms)
      /\ m2[i] = x /\ \A k \in 1 .. Len(ms) : k # i => m2[k] = ms[k]
  BY <1>1
<1>4. /\ h2 \in [Block -> (0 .. MaxId - 1) \cup {None}]
      /\ \A c \in Block : h2[c] = IF c = ms[i].data THEN None ELSE h[c]
  BY <1>1, <1>2 DEF Delete
<1> HIDE DEF m2, h2
<1>8. \A w \in Var : ob[w] # None => OwnsItsText(h2, ob[w])
  <2> SUFFICES ASSUME NEW w \in Var, ob[w] # None, ob[w].data # None
               PROVE  ob[w].id # INVALID_ID /\ h2[ob[w].data] = ob[w].id
    BY DEF OwnsItsText
  <2>2. ob[w] \in Message
    BY <1>1
  <2>3. ob[w].data \in Block
    BY <2>2 DEF Message
  <2>4. Has(ob, w, ob[w].data)
    BY DEF Has
  <2>5. ms[i].data # ob[w].data
    BY <2>3, <2>4 DEF Owned
  <2> QED BY <2>2, <2>3, <2>5, <1>4 DEF Owned, OwnsItsText
<1>9. \A k \in 1 .. Len(m2) : OwnsItsText(h2, m2[k])
  <2> SUFFICES ASSUME NEW k \in 1 .. Len(ms), m2[k].data # None
               PROVE  m2[k].id # INVALID_ID /\ h2[m2[k].data] = m2[k].id
    BY <1>3 DEF OwnsItsText
  <2>1. k # i /\ m2[k] = ms[k]
    BY <1>3
  <2>2. ms[k].data \in Block
    BY <1>1, <2>1 DEF Message
  <2>3. ms[k].data # ms[i].data
    BY <2>1, <2>2 DEF Owned
  <2> QED BY <2>1, <2>2, <2>3, <1>4 DEF Owned, OwnsItsText
<1>10. \A c \in Block : h2[c] # None =>
         (\E w \in Var : Has(ob, w, c)) \/ (\E k \in 1 .. Len(m2) : m2[k].data = c)
  BY <1>3, <1>4 DEF Owned
<1>11. /\ \A c \in Block : \A j, k \in 1 .. Len(m2) : m2[j].data = c /\ m2[k].data = c => j = k
       /\ \A c \in Block : \A w \in Var, k \in 1 .. Len(m2) : Has(ob, w, c) => m2[k].data # c
  BY <1>3 DEF Owned
<1> QED
  BY <1>1, <1>3, <1>4, <1>8, <1>9, <1>10, <1>11 DEF Owned, m2, h2

(* A place without a block takes over the message of a variable.            *)
LEMMA PlaceTakes ==
  ASSUME NEW ob, NEW ms, NEW h, Owned(ob, ms, h), NEW i \in 1 .. Len(ms), ms[i].data = None,
         NEW v \in Var, ob[v] # None
  PROVE  Owned([ob EXCEPT ![v] = MovedFrom(ob[v])], [ms EXCEPT ![i] = ob[v]], h)
<1> DEFINE m2 == [ms EXCEPT ![i] = ob[v]]
           o2 == [ob EXCEPT ![v] = MovedFrom(ob[v])]
<1> USE NoneIsNoMessage
<1>1. /\ ob \in [Var -> Message \cup {None}]
      /\ ms \in Seq(Message)
      /\ h \in [Block -> (0 .. MaxId - 1) \cup {None}]
  BY DEF Owned
<1>2. ob[v] \in Message /\ MovedFrom(ob[v]) \in Message /\ MovedFrom(ob[v]).data = None
  BY <1>1
<1>3. /\ m2 \in Seq(Message) /\ Len(m2) = Len(ms)
      /\ m2[i] = ob[v] /\ \A k \in 1 .. Len(ms) : k # i => m2[k] = ms[k]
  BY <1>1, <1>2
<1>4. /\ o2 \in [Var -> Message \cup {None}]
      /\ o2[v] = MovedFrom(ob[v]) /\ \A w \in Var : w # v => o2[w] = ob[w]
  BY <1>1, <1>2
<1> HIDE DEF m2, o2
<1>6. \A c \in Block : \A w \in Var : Has(o2, w, c) <=> (w # v /\ Has(ob, w, c))
  BY <1>2, <1>4 DEF Has
<1>7. \A c \in Block : \A k \in 1 .. Len(m2) :
        m2[k].data = c <=> IF k = i THEN Has(ob, v, c) ELSE ms[k].data = c
  BY <1>3 DEF Has
<1>8. \A w \in Var : o2[w] # None => OwnsItsText(h, o2[w])
  BY <1>2, <1>4 DEF Owned, OwnsItsText
<1>9. \A k \in 1 .. Len(m2) : OwnsItsText(h, m2[k])
  BY <1>3 DEF Owned, OwnsItsText
<1>10. \A c \in Block : h[c] # None =>
         (\E w \in Var : Has(o2, w, c)) \/ (\E k \in 1 .. Len(m2) : m2[k].data = c)
  <2> SUFFICES ASSUME NEW c \in Block, h[c] # None
      PROVE (\E w \in Var : Has(o2, w, c)) \/ (\E k \in 1 .. Len(m2) : m2[k].data = c)
    OBVIOUS
  <2>1. ASSUME NEW w \in Var, Has(ob, w, c)
        PROVE (\E u \in Var : Has(o2, u, c)) \/ (\E k \in 1 .. Len(m2) : m2[k].data = c)
    BY <2>1, <1>3, <1>6, <1>7
  <2>2. ASSUME NEW k \in 1 .. Len(ms), ms[k].data = c
        PROVE \E j \in 1 .. Len(m2) : m2[j].data = c
    <3>1. k # i
      BY <2>2
    <3> QED BY <2>2, <3>1, <1>3, <1>7
  <2> QED BY <2>1, <2>2 DEF Owned
<1>11. /\ \A c \in Block : \A u, t \in Var : Has(o2, u, c) /\ Has(o2, t, c) => u = t
       /\ \A c \in Block : \A j, k \in 1 .. Len(m2) : m2[j].data = c /\ m2[k].data = c => j = k
  BY <1>3, <1>6, <1>7 DEF Owned
<1>12. \A c \in Block : \A w \in Var, k \in 1 .. Len(m2) : Has(o2, w, c) => m2[k].data # c
  BY <1>3, <1>6, <1>7 DEF Owned
<1> QED
  BY <1>1, <1>3, <1>4, <1>8, <1>9, <1>10, <1>11, <1>12 DEF Owned, m2, o2

-----------------------------------------------------------------------------
Unique(ms) ==
  \A i, k \in 1 .. Len(ms) : ms[i].id = ms[k].id => i = k \/ ms[i].id = INVALID_ID

(* Every set of natural numbers that is not empty has a least one.          *)
LEMMA Least ==
  ASSUME NEW T \in SUBSET Nat, T # {}
  PROVE  \E n \in T : \A m \in T : n <= m
<1>1. PICK n \in T : \A m \in T : ~(<< m, n >> \in OpToRel(<, Nat))
  <2>1. IsWellFoundedOn(OpToRel(<, Nat), Nat)
    BY NatLessThanWellFounded
  <2> QED
    BY <2>1, WFMin, Zenon
<1>2. \A m \in T : ~(m < n)
  BY <1>1 DEF OpToRel
<1> QED
  BY <1>2

FirstOf(ms, id) ==
  IF {i \in DOMAIN ms : ms[i].id = id} = {} THEN 0
  ELSE CHOOSE n \in {i \in DOMAIN ms : ms[i].id = id} :
         \A k \in {i \in DOMAIN ms : ms[i].id = id} : n <= k

LEMMA FirstOfIs ==
  ASSUME NEW S, NEW ms \in Seq(S), NEW id
  PROVE  \/ FirstOf(ms, id) = 0 /\ (\A i \in 1 .. Len(ms) : ms[i].id # id)
         \/ FirstOf(ms, id) \in 1 .. Len(ms) /\ ms[FirstOf(ms, id)].id = id
<1> DEFINE T == {i \in DOMAIN ms : ms[i].id = id}
<1>1. T \subseteq 1 .. Len(ms)
  OBVIOUS
<1>2. CASE T = {}
  <2>1. FirstOf(ms, id) = 0
    BY <1>2, Zenon DEF FirstOf
  <2>2. \A i \in 1 .. Len(ms) : i \notin T
    BY <1>2
  <2>3. \A i \in 1 .. Len(ms) : ms[i].id # id
    BY <2>2, LenProperties
  <2> QED
    BY <2>1, <2>3
<1>3. CASE T # {}
  <2>1. \E n \in T : \A m \in T : n <= m
    <3>1. T \subseteq Nat
      BY <1>1
    <3> HIDE DEF T
    <3> QED
      BY <1>3, <3>1, Least
  <2>2. FirstOf(ms, id) = CHOOSE i \in T : \A k \in T : i <= k
    BY <1>3 DEF FirstOf
  <2>3. (CHOOSE i \in T : \A k \in T : i <= k) \in T
    <3> HIDE DEF T
    <3> QED
      BY <2>1, Zenon
  <2>4. FirstOf(ms, id) \in T
    BY <2>2, <2>3
  <2> QED
    BY <2>4
<1> QED
  BY <1>2, <1>3

-----------------------------------------------------------------------------
LEMMA ValidOrInvalid ==
  ASSUME messages \in Seq(Message)
  PROVE  /\ IsFiniteSet(ValidPlaces) /\ Cardinality(ValidPlaces) \in 0 .. Len(messages)
         /\ Cardinality(ValidPlaces) = Len(messages) => ValidPlaces = 1 .. Len(messages)
         /\ ValidPlaces = {i \in 1 .. Len(messages) : messages[i].id # INVALID_ID}
         /\ IsFiniteSet(PlacesOf(INVALID_ID))
         /\ Cardinality(PlacesOf(INVALID_ID)) = Len(messages) - Cardinality(ValidPlaces)
<1> DEFINE D == 1 .. Len(messages)
<1>0. Len(messages) \in Nat
  BY LenProperties
<1>1. IsFiniteSet(D) /\ Cardinality(D) = Len(messages)
  BY <1>0, FS_Interval
<1>2. ValidPlaces \in SUBSET D /\ PlacesOf(INVALID_ID) \in SUBSET D
  BY DEF ValidPlaces, PlacesOf
<1> HIDE DEF D
<1>3. /\ IsFiniteSet(ValidPlaces) /\ Cardinality(ValidPlaces) <= Len(messages)
      /\ Cardinality(ValidPlaces) = Len(messages) => ValidPlaces = D
      /\ Cardinality(ValidPlaces) \in Nat
  BY <1>1, <1>2, FS_Subset, FS_CardinalityType
<1>4. IsFiniteSet(PlacesOf(INVALID_ID)) /\ Cardinality(PlacesOf(INVALID_ID)) \in Nat
  BY <1>1, <1>2, FS_Subset, FS_CardinalityType
<1>5. ValidPlaces \cup PlacesOf(INVALID_ID) = D /\ ValidPlaces \cap PlacesOf(INVALID_ID) = {}
  BY DEF ValidPlaces, PlacesOf, Valid, D
<1>6. Len(messages) = Cardinality(ValidPlaces) + Cardinality(PlacesOf(INVALID_ID)) - 0
  BY <1>1, <1>3, <1>4, <1>5, FS_Union, FS_EmptySet
<1>7. ValidPlaces = {i \in 1 .. Len(messages) : messages[i].id # INVALID_ID}
  BY DEF ValidPlaces, Valid
<1> QED
  <2>1. /\ Cardinality(ValidPlaces) \in 0 .. Len(messages)
        /\ Cardinality(PlacesOf(INVALID_ID)) = Len(messages) - Cardinality(ValidPlaces)
    BY <1>0, <1>3, <1>4, <1>6
  <2> QED
    BY <2>1, <1>3, <1>4, <1>7 DEF D

(* Each valid message has a place of its own in the new array, among the    *)
(* first ones.                                                              *)
LEMMA FreePosIs ==
  ASSUME messages \in Seq(Message)
  PROVE  /\ \A i \in ValidPlaces : FreePos(i) \in 1 .. Cardinality(ValidPlaces)
         /\ \A i, k \in ValidPlaces : FreePos(i) = FreePos(k) => i = k
<1> DEFINE U(i) == {l \in ValidPlaces : l <= i}
<1>1. IsFiniteSet(ValidPlaces) /\ ValidPlaces \subseteq Nat
  BY ValidOrInvalid
<1>2. \A i \in ValidPlaces :
        IsFiniteSet(U(i)) /\ Cardinality(U(i)) \in Nat /\ Cardinality(U(i)) <= Cardinality(ValidPlaces)
  <2> TAKE i \in ValidPlaces
  <2>1. U(i) \in SUBSET ValidPlaces
    OBVIOUS
  <2> HIDE DEF U
  <2> QED
    BY <1>1, <2>1, FS_Subset, FS_CardinalityType
<1>3. \A i \in ValidPlaces : Cardinality(U(i)) # 0
  <2> TAKE i \in ValidPlaces
  <2>0. i \in Nat
    BY <1>1
  <2>1. i \in U(i)
    BY <2>0
  <2> HIDE DEF U
  <2> QED
    BY <1>2, <2>1, FS_EmptySet
<1>4. \A i, k \in ValidPlaces : i < k => Cardinality(U(i)) # Cardinality(U(k))
  <2> SUFFICES ASSUME NEW i \in ValidPlaces, NEW k \in ValidPlaces, i < k,
                      Cardinality(U(i)) = Cardinality(U(k))
               PROVE  FALSE
    OBVIOUS
  <2>0. i \in Nat /\ k \in Nat
    BY <1>1
  <2>1. U(i) \in SUBSET U(k)
    <3>1. \A l \in ValidPlaces : l \in Nat /\ (l <= i => l <= k)
      BY <1>1, <2>0
    <3> QED
      BY <3>1
  <2>2. k \in U(k) /\ k \notin U(i)
    BY <2>0
  <2> HIDE DEF U
  <2> QED
    BY <1>2, <2>1, <2>2, FS_Subset
<1>5. \A i \in ValidPlaces : FreePos(i) = Cardinality(U(i))
  BY DEF FreePos
<1> HIDE DEF U
<1>6. Cardinality(ValidPlaces) \in Nat
  BY ValidOrInvalid
<1>7. \A i \in ValidPlaces : FreePos(i) \in 1 .. Cardinality(ValidPlaces)
  BY <1>2, <1>3, <1>5, <1>6
<1>8. \A i, k \in ValidPlaces : FreePos(i) = FreePos(k) => i = k
  BY <1>1, <1>4, <1>5
<1> QED
  BY <1>7, <1>8

LEMMA ReallocatedIs ==
  ASSUME messages \in Seq(Message), NEW dim \in Nat, Cardinality(ValidPlaces) <= dim
  PROVE  /\ Reallocated(dim) \in Seq(Message) /\ Len(Reallocated(dim)) = dim
         /\ \A i \in ValidPlaces :
              FreePos(i) \in 1 .. dim /\ Reallocated(dim)[FreePos(i)] = messages[i]
         /\ \A j \in 1 .. dim :
              \/ Reallocated(dim)[j] = Default
              \/ \E i \in ValidPlaces : FreePos(i) = j /\ Reallocated(dim)[j] = messages[i]
         /\ \A j \in 1 .. dim : j > Cardinality(ValidPlaces) => Reallocated(dim)[j] = Default
<1> DEFINE From(j) == CHOOSE i \in ValidPlaces : FreePos(i) = j
           R == Reallocated(dim)
<1>1. \A j \in 1 .. dim :
        R[j] = IF \E i \in ValidPlaces : FreePos(i) = j THEN messages[From(j)] ELSE Default
  BY DEF Reallocated
<1>2. \A j : (\E i \in ValidPlaces : FreePos(i) = j)
               => From(j) \in ValidPlaces /\ FreePos(From(j)) = j
  OBVIOUS
<1> HIDE DEF From
<1>3. \A i \in ValidPlaces : From(FreePos(i)) = i
  BY <1>2, FreePosIs
<1>4. \A i \in ValidPlaces : messages[i] \in Message
  BY ValidOrInvalid
<1>5. R = [j \in 1 .. dim |-> R[j]]
  BY DEF Reallocated
<1>6. \A j \in 1 .. dim : R[j] \in Message
  BY <1>1, <1>2, <1>4, NoneIsNoMessage
<1>7. R \in Seq(Message) /\ Len(R) = dim
  BY <1>5, <1>6
<1>8. Cardinality(ValidPlaces) \in Nat
  BY ValidOrInvalid
<1>9. \A i \in ValidPlaces : FreePos(i) \in 1 .. dim
  BY FreePosIs, <1>8
<1> HIDE DEF R
<1>10. \A i \in ValidPlaces : R[FreePos(i)] = messages[i]
  BY <1>1, <1>3, <1>9
<1>11. \A j \in 1 .. dim :
         R[j] = Default \/ \E i \in ValidPlaces : FreePos(i) = j /\ R[j] = messages[i]
  BY <1>1, <1>2
<1>12. \A j \in 1 .. dim : j > Cardinality(ValidPlaces) => R[j] = Default
  <2> SUFFICES ASSUME NEW j \in 1 .. dim, j > Cardinality(ValidPlaces), NEW i \in ValidPlaces, FreePos(i) = j
               PROVE FALSE
    BY <1>1
  <2> QED
    BY FreePosIs, <1>8
<1> QED
  BY <1>7, <1>9, <1>10, <1>11, <1>12 DEF R

LEMMA ReallocatedOwned ==
  ASSUME Owned(object, messages, heap), Unique(messages),
         NEW dim \in Nat, Cardinality(ValidPlaces) <= dim
  PROVE  /\ Owned(object, Reallocated(dim), heap)
         /\ Unique(Reallocated(dim))
<1> DEFINE R == Reallocated(dim)
           V == ValidPlaces
<1>1. messages \in Seq(Message)
  BY DEF Owned
<1>2. /\ R \in Seq(Message) /\ Len(R) = dim
      /\ \A i \in V : FreePos(i) \in 1 .. dim /\ R[FreePos(i)] = messages[i]
      /\ \A j \in 1 .. dim :
           R[j] = Default \/ \E i \in V : FreePos(i) = j /\ R[j] = messages[i]
  BY <1>1, ReallocatedIs
<1>3. V = {i \in 1 .. Len(messages) : messages[i].id # INVALID_ID}
  BY <1>1, ValidOrInvalid
<1>4. Default.data = None /\ Default.id = INVALID_ID /\ None \notin Block
  BY NoneIsNoMessage
<1> HIDE DEF R, V
<1>5. \A j \in 1 .. Len(R) : OwnsItsText(heap, R[j])
  <2>1. \A i \in V : OwnsItsText(heap, messages[i])
    BY <1>3 DEF Owned
  <2>2. OwnsItsText(heap, Default)
    BY <1>4 DEF OwnsItsText
  <2> QED
    BY <1>2, <2>1, <2>2
<1>6. \A b \in Block : \A j, k \in 1 .. Len(R) : R[j].data = b /\ R[k].data = b => j = k
  <2> SUFFICES ASSUME NEW b \in Block, NEW j \in 1 .. dim, NEW k \in 1 .. dim, R[j].data = b, R[k].data = b
               PROVE  j = k
    BY <1>2
  <2>1. PICK i \in V : FreePos(i) = j /\ R[j] = messages[i]
    BY <1>2, <1>4
  <2>2. PICK l \in V : FreePos(l) = k /\ R[k] = messages[l]
    BY <1>2, <1>4
  <2>3. i = l
    BY <2>1, <2>2, <1>3 DEF Owned
  <2> QED
    BY <2>1, <2>2, <2>3
<1>7. \A b \in Block : \A v \in Var, j \in 1 .. Len(R) : Has(object, v, b) => R[j].data # b
  <2> SUFFICES ASSUME NEW b \in Block, NEW v \in Var, NEW j \in 1 .. dim, Has(object, v, b), R[j].data = b
               PROVE  FALSE
    BY <1>2
  <2>1. PICK i \in V : FreePos(i) = j /\ R[j] = messages[i]
    BY <1>2, <1>4
  <2> QED
    BY <2>1, <1>3 DEF Owned
<1>8. \A b \in Block : heap[b] # None =>
        (\E v \in Var : Has(object, v, b)) \/ (\E j \in 1 .. Len(R) : R[j].data = b)
  <2> SUFFICES ASSUME NEW b \in Block, NEW i \in 1 .. Len(messages), messages[i].data = b
               PROVE  \E j \in 1 .. Len(R) : R[j].data = b
    BY DEF Owned
  <2>1. messages[i].id # INVALID_ID
    BY <1>4 DEF Owned, OwnsItsText
  <2>2. i \in V
    BY <2>1, <1>3
  <2>3. FreePos(i) \in 1 .. Len(R) /\ R[FreePos(i)].data = b
    BY <2>2, <1>2
  <2> QED
    BY <2>3
<1>9. Unique(R)
  <2> SUFFICES ASSUME NEW j \in 1 .. dim, NEW k \in 1 .. dim, R[j].id = R[k].id, R[j].id # INVALID_ID
               PROVE  j = k
    BY <1>2 DEF Unique
  <2>1. PICK i \in V : FreePos(i) = j /\ R[j] = messages[i]
    BY <1>2, <1>4
  <2>2. PICK l \in V : FreePos(l) = k /\ R[k] = messages[l]
    BY <1>2, <1>4
  <2>3. i = l
    BY <2>1, <2>2, <1>3 DEF Unique
  <2> QED
    BY <2>1, <2>2, <2>3
<1> QED
  BY <1>2, <1>5, <1>6, <1>7, <1>8, <1>9 DEF Owned, R

-----------------------------------------------------------------------------
Living(ob) == {v \in Var : ob[v] # None}

CountInv == count = Cardinality(Living(object)) + Len(messages)

StoreInv == Owned(object, messages, heap) /\ Unique(messages) /\ CountInv /\ nextId \in Nat

EntryIs(ms, id) ==
  IF FirstOf(ms, id) = 0 THEN "absent"
  ELSE IF ms[FirstOf(ms, id)].data = None THEN "hollow" ELSE "whole"

Kind(m) == IF m.data = None THEN "hollow" ELSE "whole"

-----------------------------------------------------------------------------
LEMMA LivingIs ==
  ASSUME NEW ob
  PROVE  IsFiniteSet(Living(ob)) /\ Cardinality(Living(ob)) \in Nat
<1>1. Living(ob) \in SUBSET Var
  BY DEF Living
<1> QED
  BY <1>1, StoreAssumption, FS_Subset, FS_CardinalityType

LEMMA LivingGrows ==
  ASSUME NEW ob \in [Var -> Message \cup {None}], NEW v \in Var, ob[v] = None, NEW x \in Message
  PROVE  Cardinality(Living([ob EXCEPT ![v] = x])) = Cardinality(Living(ob)) + 1
<1>1. Living([ob EXCEPT ![v] = x]) = Living(ob) \cup {v} /\ v \notin Living(ob)
  BY NoneIsNoMessage DEF Living
<1> QED
  BY <1>1, LivingIs, FS_AddElement

LEMMA LivingShrinks ==
  ASSUME NEW ob \in [Var -> Message \cup {None}], NEW v \in Var, ob[v] # None
  PROVE  Cardinality(Living([ob EXCEPT ![v] = None])) = Cardinality(Living(ob)) - 1
<1>1. Living([ob EXCEPT ![v] = None]) = Living(ob) \ {v} /\ v \in Living(ob)
  BY DEF Living
<1> QED
  BY <1>1, LivingIs, FS_RemoveElement

LEMMA LivingStays ==
  ASSUME NEW ob \in [Var -> Message \cup {None}], NEW v \in Var, ob[v] # None, NEW x \in Message
  PROVE  Living([ob EXCEPT ![v] = x]) = Living(ob)
BY NoneIsNoMessage DEF Living

-----------------------------------------------------------------------------
LEMMA EntryFound ==
  ASSUME NEW ms \in Seq(Message), Unique(ms), NEW i \in 1 .. Len(ms), ms[i].id # INVALID_ID
  PROVE  FirstOf(ms, ms[i].id) = i /\ EntryIs(ms, ms[i].id) = Kind(ms[i])
<1>1. FirstOf(ms, ms[i].id) \in 1 .. Len(ms) /\ ms[FirstOf(ms, ms[i].id)].id = ms[i].id
  BY FirstOfIs
<1>2. FirstOf(ms, ms[i].id) = i
  BY <1>1 DEF Unique
<1> QED
  BY <1>2 DEF EntryIs, Kind

LEMMA EntryAbsent ==
  ASSUME NEW ms \in Seq(Message), NEW id
  PROVE  EntryIs(ms, id) = "absent" <=> \A i \in 1 .. Len(ms) : ms[i].id # id
<1>1. FirstOf(ms, id) = 0 <=> \A i \in 1 .. Len(ms) : ms[i].id # id
  BY FirstOfIs
<1>2. EntryIs(ms, id) = "absent" <=> FirstOf(ms, id) = 0
  BY DEF EntryIs
<1> QED
  BY <1>1, <1>2

(* Two arrays with the same valid messages have the same entries.           *)
LEMMA SameEntries ==
  ASSUME NEW ms \in Seq(Message), Unique(ms), NEW m2 \in Seq(Message), Unique(m2),
         \A i \in 1 .. Len(ms) : ms[i].id # INVALID_ID => \E j \in 1 .. Len(m2) : m2[j] = ms[i],
         \A j \in 1 .. Len(m2) : m2[j].id # INVALID_ID => \E i \in 1 .. Len(ms) : m2[j] = ms[i],
         NEW id, id # INVALID_ID
  PROVE  EntryIs(m2, id) = EntryIs(ms, id)
<1>1. CASE \E i \in 1 .. Len(ms) : ms[i].id = id
  <2>1. PICK i \in 1 .. Len(ms) : ms[i].id = id
    BY <1>1
  <2>2. PICK j \in 1 .. Len(m2) : m2[j] = ms[i]
    BY <2>1
  <2>3. EntryIs(ms, id) = Kind(ms[i]) /\ EntryIs(m2, id) = Kind(m2[j])
    BY <2>1, <2>2, EntryFound
  <2> QED
    BY <2>2, <2>3
<1>2. CASE \A i \in 1 .. Len(ms) : ms[i].id # id
  <2>1. \A j \in 1 .. Len(m2) : m2[j].id # id
    BY <1>2
  <2> QED
    BY <1>2, <2>1, EntryAbsent
<1> QED
  BY <1>1, <1>2

(* A message is put in the place of its identifier, or in a free one.       *)
LEMMA PutsEntry ==
  ASSUME NEW ms \in Seq(Message), Unique(ms), NEW to \in 1 .. Len(ms),
         NEW m \in Message, m.id # INVALID_ID,
         ms[to].id = m.id \/ (ms[to].id = INVALID_ID /\ \A i \in 1 .. Len(ms) : ms[i].id # m.id)
  PROVE  /\ Unique([ms EXCEPT ![to] = m])
         /\ \A id : id # INVALID_ID =>
              EntryIs([ms EXCEPT ![to] = m], id) = IF id = m.id THEN Kind(m) ELSE EntryIs(ms, id)
<1> DEFINE m2 == [ms EXCEPT ![to] = m]
<1>1. /\ m2 \in Seq(Message) /\ Len(m2) = Len(ms)
      /\ m2[to] = m /\ \A i \in 1 .. Len(ms) : i # to => m2[i] = ms[i]
  OBVIOUS
<1> HIDE DEF m2
<1>2. \A i \in 1 .. Len(ms) : i # to => ms[i].id # m.id
  BY DEF Unique
<1>3. Unique(m2)
  BY <1>1, <1>2 DEF Unique
<1>4. ASSUME NEW id, id # INVALID_ID
      PROVE  EntryIs(m2, id) = IF id = m.id THEN Kind(m) ELSE EntryIs(ms, id)
  <2>1. CASE id = m.id
    BY <2>1, <1>1, <1>3, EntryFound
  <2>2. CASE id # m.id /\ \A i \in 1 .. Len(ms) : ms[i].id # id
    <3>1. \A i \in 1 .. Len(m2) : m2[i].id # id
      BY <2>2, <1>1
    <3>2. EntryIs(ms, id) = "absent" /\ EntryIs(m2, id) = "absent"
      BY <2>2, <3>1, <1>1, EntryAbsent
    <3> QED
      BY <2>2, <3>2
  <2>3. ASSUME id # m.id, NEW i \in 1 .. Len(ms), ms[i].id = id
        PROVE  EntryIs(m2, id) = EntryIs(ms, id)
    <3>1. i # to /\ m2[i] = ms[i]
      BY <2>3, <1>1, <1>4
    <3>2. EntryIs(ms, id) = Kind(ms[i]) /\ EntryIs(m2, id) = Kind(m2[i])
      BY <2>3, <3>1, <1>1, <1>3, <1>4, EntryFound
    <3> QED
      BY <3>1, <3>2
  <2> QED
    BY <2>1, <2>2, <2>3
<1> QED
  BY <1>3, <1>4 DEF m2

LEMMA TakesEntryOut ==
  ASSUME NEW ms \in Seq(Message), Unique(ms), NEW pos \in 1 .. Len(ms), ms[pos].id # INVALID_ID
  PROVE  /\ Unique([ms EXCEPT ![pos] = Default])
         /\ \A id : id # INVALID_ID =>
              EntryIs([ms EXCEPT ![pos] = Default], id)
                = IF id = ms[pos].id THEN "absent" ELSE EntryIs(ms, id)
<1> DEFINE m2 == [ms EXCEPT ![pos] = Default]
<1>0. Default \in Message /\ Default.id = INVALID_ID
  BY NoneIsNoMessage
<1>1. /\ m2 \in Seq(Message) /\ Len(m2) = Len(ms)
      /\ m2[pos] = Default /\ \A i \in 1 .. Len(ms) : i # pos => m2[i] = ms[i]
  BY <1>0
<1> HIDE DEF m2
<1>2. \A i \in 1 .. Len(ms) : i # pos => ms[i].id # ms[pos].id
  BY DEF Unique
<1>3. Unique(m2)
  BY <1>0, <1>1 DEF Unique
<1>4. ASSUME NEW id, id # INVALID_ID
      PROVE  EntryIs(m2, id) = IF id = ms[pos].id THEN "absent" ELSE EntryIs(ms, id)
  <2>1. CASE id = ms[pos].id \/ \A i \in 1 .. Len(ms) : ms[i].id # id
    <3>1. \A i \in 1 .. Len(m2) : m2[i].id # id
      BY <2>1, <1>0, <1>1, <1>2, <1>4
    <3>2. EntryIs(m2, id) = "absent"
      BY <3>1, <1>1, EntryAbsent
    <3> QED
      BY <2>1, <3>2, EntryAbsent
  <2>3. ASSUME id # ms[pos].id, NEW i \in 1 .. Len(ms), ms[i].id = id
        PROVE  EntryIs(m2, id) = EntryIs(ms, id)
    <3>1. i # pos /\ m2[i] = ms[i]
      BY <2>3, <1>1, <1>4
    <3>2. EntryIs(ms, id) = Kind(ms[i]) /\ EntryIs(m2, id) = Kind(m2[i])
      BY <2>3, <3>1, <1>1, <1>3, <1>4, EntryFound
    <3> QED
      BY <3>1, <3>2
  <2> QED
    BY <2>1, <2>3
<1> QED
  BY <1>3, <1>4 DEF m2

(* There are as many entries as valid messages.                             *)
LEMMA PresentIs ==
  ASSUME messages \in Seq(Message), Unique(messages)
  PROVE  Cardinality({id \in 0 .. MaxId - 1 : EntryIs(messages, id) # "absent"})
           = Cardinality(ValidPlaces)
<1> DEFINE P == {id \in 0 .. MaxId - 1 : EntryIs(messages, id) # "absent"}
           f == [i \in ValidPlaces |-> messages[i].id]
<1>1. ValidPlaces = {i \in 1 .. Len(messages) : messages[i].id # INVALID_ID} /\ IsFiniteSet(ValidPlaces)
  BY ValidOrInvalid
<1>2. \A i \in ValidPlaces : messages[i].id \in P
  <2> TAKE i \in ValidPlaces
  <2>1. messages[i] \in Message /\ messages[i].id # INVALID_ID /\ i \in 1 .. Len(messages)
    BY <1>1
  <2>2. messages[i].id \in 0 .. MaxId - 1
    BY <2>1, StoreAssumption DEF Message, INVALID_ID
  <2>3. EntryIs(messages, messages[i].id) # "absent"
    BY <2>1, EntryAbsent
  <2> QED
    BY <2>2, <2>3
<1>3. \A id \in P : \E i \in ValidPlaces : messages[i].id = id
  <2> TAKE id \in P
  <2>1. PICK i \in 1 .. Len(messages) : messages[i].id = id
    BY EntryAbsent
  <2> QED
    BY <2>1, <1>1 DEF INVALID_ID
<1>4. \A i, k \in ValidPlaces : messages[i].id = messages[k].id => i = k
  BY <1>1 DEF Unique
<1> HIDE DEF P
<1>5. f \in Bijection(ValidPlaces, P)
  <2>1. f \in [ValidPlaces -> P]
    BY <1>2
  <2>2. \A i \in ValidPlaces : f[i] = messages[i].id
    OBVIOUS
  <2> HIDE DEF f
  <2>3. f \in Injection(ValidPlaces, P)
    BY <1>4, <2>1, <2>2 DEF Injection, IsInjective
  <2>4. f \in Surjection(ValidPlaces, P)
    BY <1>3, <2>1, <2>2 DEF Surjection
  <2> QED
    BY <2>3, <2>4 DEF Bijection
<1>6. ExistsBijection(ValidPlaces, P)
  BY <1>5 DEF ExistsBijection
<1>7. Cardinality(P) = Cardinality(ValidPlaces)
  BY <1>1, <1>6, FS_Bijection
<1> QED
  BY <1>7 DEF P

-----------------------------------------------------------------------------
LEMMA StoreInvInit == StoreInit => StoreInv
<1> SUFFICES ASSUME StoreInit PROVE StoreInv
  OBVIOUS
<1> USE NoneIsNoMessage
<1>1. N \in Nat
  BY StoreAssumption
<1>2. messages \in Seq(Message) /\ Len(messages) = N /\ \A i \in 1 .. N : messages[i] = Default
  BY <1>1 DEF StoreInit
<1>3. /\ object \in [Var -> Message \cup {None}] /\ \A v \in Var : object[v] = None
      /\ heap \in [Block -> (0 .. MaxId - 1) \cup {None}] /\ \A b \in Block : heap[b] = None
  BY DEF StoreInit
<1>4. \A i \in 1 .. Len(messages) : messages[i].data = None /\ messages[i].id = INVALID_ID
  BY <1>2
<1>5. Owned(object, messages, heap)
  BY <1>2, <1>3, <1>4 DEF Owned, OwnsItsText, Has
<1>6. Unique(messages)
  BY <1>4 DEF Unique
<1>7. Living(object) = {}
  BY <1>3 DEF Living
<1>8. count = Cardinality(Living(object)) + Len(messages)
  <2>1. Cardinality(Living(object)) = 0
    BY <1>7, FS_EmptySet
  <2>2. count = N
    BY DEF StoreInit
  <2> QED
    BY <1>1, <1>2, <2>1, <2>2
<1> QED
  BY <1>5, <1>6, <1>8 DEF StoreInv, CountInv, StoreInit

LEMMA Typed ==
  ASSUME StoreInv
  PROVE  /\ object \in [Var -> Message \cup {None}]
         /\ messages \in Seq(Message)
         /\ heap \in [Block -> (0 .. MaxId - 1) \cup {None}]
         /\ Len(messages) \in Nat
         /\ Unique(messages)
         /\ Owned(object, messages, heap)
         /\ count = Cardinality(Living(object)) + Len(messages)
         /\ Cardinality(Living(object)) \in Nat
         /\ nextId \in Nat
BY LivingIs, LenProperties DEF StoreInv, Owned, CountInv

LEMMA ConstructsKeeps == ASSUME StoreInv, NEW v \in Var, Constructs(v) PROVE StoreInv'
<1> USE NoneIsNoMessage, Typed
<1>1. PICK b \in Free(heap) : /\ object' = [object EXCEPT ![v] = [id |-> nextId, data |-> b]]
                              /\ heap' = [heap EXCEPT ![b] = nextId]
  BY DEF Constructs
<1>2. /\ object[v] = None /\ nextId < MaxId /\ nextId' = nextId + 1
      /\ count' = count + 1 /\ messages' = messages
  BY DEF Constructs, Lives
<1>3. b \in Block /\ heap[b] = None
  BY DEF Free
<1>4. PICK x : x = [id |-> nextId, data |-> b]
  OBVIOUS
<1>5. x \in Message /\ x.id = nextId /\ x.id # INVALID_ID /\ x.data = b
  BY <1>2, <1>3, <1>4, StoreAssumption DEF Message, INVALID_ID
<1>6. object' = [object EXCEPT ![v] = x] /\ heap' = [heap EXCEPT ![b] = x.id]
  BY <1>1, <1>4, <1>5
<1>7. Owned(object', messages', heap')
  BY <1>2, <1>3, <1>5, <1>6, VarTakes
<1>8. Cardinality(Living(object')) = Cardinality(Living(object)) + 1
  BY <1>2, <1>5, <1>6, LivingGrows
<1> QED
  BY <1>2, <1>7, <1>8 DEF StoreInv, CountInv

LEMMA DefaultConstructsKeeps ==
  ASSUME StoreInv, NEW v \in Var, DefaultConstructs(v)
  PROVE  StoreInv'
<1> USE NoneIsNoMessage, Typed
<1>1. /\ object[v] = None /\ object' = [object EXCEPT ![v] = Default]
      /\ count' = count + 1 /\ messages' = messages /\ heap' = heap /\ nextId' = nextId
  BY DEF DefaultConstructs, Lives
<1>2. Owned(object', messages', heap')
  BY <1>1, VarPlain
<1>3. Cardinality(Living(object')) = Cardinality(Living(object)) + 1
  BY <1>1, LivingGrows
<1> QED
  BY <1>1, <1>2, <1>3 DEF StoreInv, CountInv

(* A copy of a message that has a text, in a variable without one.          *)
LEMMA CopyIs ==
  ASSUME NEW h \in [Block -> (0 .. MaxId - 1) \cup {None}], NEW m \in Message,
         OwnsItsText(h, m), m.data # None, NEW b \in Block
  PROVE  /\ Copied(m, b) \in Message /\ Copied(m, b).id = m.id /\ Copied(m, b).data = b
         /\ m.id # INVALID_ID /\ h[m.data] = m.id /\ m.data \in Block
BY NoneIsNoMessage DEF Copied, Message, OwnsItsText

LEMMA CopyConstructsKeeps ==
  ASSUME StoreInv, NEW v \in Var, NEW w \in Var, CopyConstructs(v, w) PROVE StoreInv'
<1> USE NoneIsNoMessage, Typed
<1>1. PICK b \in Free(heap) : /\ object' = [object EXCEPT ![v] = Copied(object[w], b)]
                              /\ heap' = [heap EXCEPT ![b] = heap[object[w].data]]
  BY DEF CopyConstructs
<1>2. /\ object[v] = None /\ object[w] # None /\ object[w].data # None
      /\ count' = count + 1 /\ messages' = messages /\ nextId' = nextId
  BY DEF CopyConstructs, Lives
<1>3. b \in Block /\ heap[b] = None
  BY DEF Free
<1>4. object[w] \in Message /\ OwnsItsText(heap, object[w])
  BY <1>2 DEF Owned
<1>5. PICK x : x = Copied(object[w], b)
  OBVIOUS
<1>6. /\ x \in Message /\ x.id # INVALID_ID /\ x.data = b
      /\ heap[object[w].data] = x.id
  BY <1>2, <1>3, <1>4, <1>5, CopyIs
<1>7. Owned(object', messages', heap')
  <2>1. object' = [object EXCEPT ![v] = x] /\ heap' = [heap EXCEPT ![b] = x.id]
    BY <1>1, <1>5, <1>6
  <2> QED
    BY <1>2, <1>3, <1>6, <2>1, VarTakes
<1>8. Cardinality(Living(object')) = Cardinality(Living(object)) + 1
  BY <1>1, <1>2, <1>5, <1>6, LivingGrows
<1> QED
  BY <1>2, <1>7, <1>8 DEF StoreInv, CountInv

LEMMA LivingMoves ==
  ASSUME NEW ob \in [Var -> Message \cup {None}], NEW v \in Var, NEW w \in Var, v # w, ob[w] # None
  PROVE  Cardinality(Living([ob EXCEPT ![v] = ob[w], ![w] = MovedFrom(ob[w])]))
           = Cardinality(Living(ob)) + IF ob[v] = None THEN 1 ELSE 0
<1> DEFINE o2 == [ob EXCEPT ![v] = ob[w], ![w] = MovedFrom(ob[w])]
<1>1. ob[w] \in Message /\ MovedFrom(ob[w]) \in Message /\ None \notin Message
  BY NoneIsNoMessage
<1>2. Living(o2) = Living(ob) \cup {v} /\ (v \in Living(ob) <=> ob[v] # None)
  BY <1>1 DEF Living
<1> HIDE DEF o2
<1>3. Cardinality(Living(o2)) = Cardinality(Living(ob)) + IF ob[v] = None THEN 1 ELSE 0
  <2>1. Cardinality(Living(o2))
          = IF v \in Living(ob) THEN Cardinality(Living(ob)) ELSE Cardinality(Living(ob)) + 1
    BY <1>2, LivingIs, FS_AddElement
  <2>2. Cardinality(Living(ob)) \in Nat
    BY LivingIs
  <2> QED
    BY <1>2, <2>1, <2>2
<1> QED
  BY <1>3 DEF o2

LEMMA MoveConstructsKeeps ==
  ASSUME StoreInv, NEW v \in Var, NEW w \in Var, MoveConstructs(v, w) PROVE StoreInv'
<1> USE NoneIsNoMessage, Typed
<1>1. /\ object[v] = None /\ object[w] # None /\ v # w
      /\ object' = [object EXCEPT ![v] = object[w], ![w] = MovedFrom(object[w])]
      /\ count' = count + 1 /\ messages' = messages /\ heap' = heap /\ nextId' = nextId
  BY DEF MoveConstructs, Lives
<1>2. Owned(object', messages', heap')
  BY <1>1, VarMoves
<1>3. Cardinality(Living(object')) = Cardinality(Living(object)) + 1
  BY <1>1, LivingMoves
<1> QED
  BY <1>1, <1>2, <1>3 DEF StoreInv, CountInv

LEMMA CopyAssignsKeeps ==
  ASSUME StoreInv, NEW v \in Var, NEW w \in Var, CopyAssigns(v, w) PROVE StoreInv'
<1> USE NoneIsNoMessage, Typed
<1> DEFINE freed == Delete(heap, object[v].data)
           o1 == [object EXCEPT ![v] = MovedFrom(object[v])]
<1>1. PICK b \in Free(freed) : /\ object' = [object EXCEPT ![v] = Copied(object[w], b)]
                               /\ heap' = [freed EXCEPT ![b] = freed[object[w].data]]
  BY DEF CopyAssigns
<1>2. /\ object[v] # None /\ object[w] # None /\ object[w].data # None /\ v # w
      /\ count' = count /\ messages' = messages /\ nextId' = nextId
  BY DEF CopyAssigns, Lives
<1>3. b \in Block /\ freed[b] = None
  BY DEF Free
<1>4. object[v] \in Message /\ object[w] \in Message
  BY <1>2
<1>5. Owned(o1, messages, freed)
  BY <1>2, <1>4, VarDrops
<1>6. /\ o1 \in [Var -> Message \cup {None}] /\ o1[v].data = None /\ o1[w] = object[w]
      /\ \A x : [o1 EXCEPT ![v] = x] = [object EXCEPT ![v] = x]
  BY <1>2, <1>4
<1> HIDE DEF freed, o1
<1>7. OwnsItsText(freed, object[w]) /\ freed \in [Block -> (0 .. MaxId - 1) \cup {None}]
  BY <1>2, <1>5, <1>6 DEF Owned
<1>8. PICK x : x = Copied(object[w], b)
  OBVIOUS
<1>9. /\ x \in Message /\ x.id # INVALID_ID /\ x.data = b
      /\ freed[object[w].data] = x.id
  BY <1>2, <1>3, <1>4, <1>7, <1>8, CopyIs
<1>10. object' = [o1 EXCEPT ![v] = x] /\ heap' = [freed EXCEPT ![b] = x.id]
  BY <1>1, <1>6, <1>8, <1>9
<1>11. Owned(object', messages', heap')
  BY <1>2, <1>3, <1>5, <1>6, <1>9, <1>10, VarTakes
<1>12. Living(object') = Living(object)
  BY <1>1, <1>2, <1>8, <1>9, LivingStays
<1> QED
  BY <1>2, <1>11, <1>12 DEF StoreInv, CountInv

LEMMA MoveAssignsKeeps ==
  ASSUME StoreInv, NEW v \in Var, NEW w \in Var, MoveAssigns(v, w) PROVE StoreInv'
<1> USE NoneIsNoMessage, Typed
<1> DEFINE freed == Delete(heap, object[v].data)
           o1 == [object EXCEPT ![v] = MovedFrom(object[v])]
<1>1. /\ object[v] # None /\ object[w] # None /\ v # w
      /\ object' = [object EXCEPT ![v] = object[w], ![w] = MovedFrom(object[w])]
      /\ heap' = freed
      /\ count' = count /\ messages' = messages /\ nextId' = nextId
  BY DEF MoveAssigns, Lives
<1>2. object[v] \in Message /\ object[w] \in Message
  BY <1>1
<1>3. Owned(o1, messages, freed)
  BY <1>1, <1>2, VarDrops
<1>4. /\ o1[v].data = None /\ o1[w] = object[w]
      /\ object' = [o1 EXCEPT ![v] = o1[w], ![w] = MovedFrom(o1[w])]
  BY <1>1, <1>2
<1> HIDE DEF freed, o1
<1>5. Owned(object', messages', heap')
  <2>1. Owned([o1 EXCEPT ![v] = o1[w], ![w] = MovedFrom(o1[w])], messages, freed)
    BY <1>1, <1>3, <1>4, VarMoves
  <2> QED
    BY <1>1, <1>4, <2>1
<1>6. Cardinality(Living(object')) = Cardinality(Living(object))
  <2>1. Cardinality(Living([object EXCEPT ![v] = object[w], ![w] = MovedFrom(object[w])]))
           = Cardinality(Living(object)) + 0
    BY <1>1, LivingMoves
  <2> QED
    BY <1>1, <2>1
<1> QED
  BY <1>1, <1>5, <1>6 DEF StoreInv, CountInv

LEMMA DestroysKeeps == ASSUME StoreInv, NEW v \in Var, Destroys(v) PROVE StoreInv'
<1> USE NoneIsNoMessage, Typed
<1>1. /\ object[v] # None /\ object' = [object EXCEPT ![v] = None]
      /\ heap' = Delete(heap, object[v].data)
      /\ count' = count - 1 /\ messages' = messages /\ nextId' = nextId
  BY DEF Destroys, Lives
<1>2. Owned(object', messages', heap')
  BY <1>1, VarDrops
<1>3. Cardinality(Living(object')) = Cardinality(Living(object)) - 1
  BY <1>1, LivingShrinks
<1> QED
  BY <1>1, <1>2, <1>3 DEF StoreInv, CountInv

-----------------------------------------------------------------------------
(* FirstOf is FindMessagePos, of any array.                                 *)
LEMMA FindIs == \A id : FindMessagePos(id) = FirstOf(messages, id)
BY DEF FindMessagePos, FirstOf, PlacesOf

LEMMA UpTo == ASSUME NEW n \in Nat PROVE Cardinality(1 .. n) = n
BY FS_Interval

AddsTo(v, array, to) ==
  /\ to \in 1 .. Len(array)
  /\ Owned(object, array, heap) /\ Unique(array)
  /\ \/ array[to].id = object[v].id
     \/ array[to].id = INVALID_ID /\ \A i \in 1 .. Len(array) : array[i].id # object[v].id
  /\ \A id : id # INVALID_ID => EntryIs(array, id) = EntryIs(messages, id)
  /\ Len(array) = IF EntryIs(messages, object[v].id) = "absent"
                       /\ Cardinality(ValidPlaces) = Len(messages)
                  THEN Len(messages) + N ELSE Len(messages)
  /\ messages' = [array EXCEPT ![to] = object[v]]
  /\ heap' = Delete(heap, array[to].data)
  /\ count' = count + Len(array) - Len(messages)

(* Where add() puts the message, and in which array.                        *)
LEMMA AddsIs ==
  ASSUME StoreInv, NEW v \in Var, AddsMessage(v)
  PROVE  \E array \in Seq(Message), to \in Nat : AddsTo(v, array, to)
<1> USE NoneIsNoMessage, Typed
<1> DEFINE m == object[v]
           known == FindMessagePos(m.id)
           free == FindMessagePos(INVALID_ID)
<1>1. m # None /\ m \in Message /\ m.id # INVALID_ID
  BY DEF AddsMessage, Lives, Valid
<1>2. /\ \/ known = 0 /\ \A i \in 1 .. Len(messages) : messages[i].id # m.id
         \/ known \in 1 .. Len(messages) /\ messages[known].id = m.id
      /\ \/ free = 0 /\ \A i \in 1 .. Len(messages) : messages[i].id # INVALID_ID
         \/ free \in 1 .. Len(messages) /\ messages[free].id = INVALID_ID
  BY FindIs, FirstOfIs
<1>3. /\ ValidPlaces = {i \in 1 .. Len(messages) : messages[i].id # INVALID_ID}
      /\ Cardinality(ValidPlaces) \in 0 .. Len(messages)
      /\ Cardinality(ValidPlaces) = Len(messages) => ValidPlaces = 1 .. Len(messages)
  BY ValidOrInvalid
<1> DEFINE array == IF known + free # 0 THEN messages ELSE Reallocated(Len(messages) + N)
           to == IF known # 0 THEN known ELSE IF free # 0 THEN free ELSE Len(messages) + 1
<1>4. /\ messages' = [array EXCEPT ![to] = m]
      /\ heap' = Delete(heap, array[to].data)
      /\ count' = count + Len(array) - Len(messages)
  BY DEF AddsMessage
<1>5. N \in Nat /\ N > 0
  BY StoreAssumption
<1> HIDE DEF m, known, free
<1>6. CASE known # 0
  <2>1. array = messages /\ to = known
    BY <1>2, <1>6
  <2>2. EntryIs(messages, m.id) # "absent"
    BY <1>2, <1>6, EntryAbsent
  <2>3. /\ messages' = [messages EXCEPT ![known] = m]
        /\ heap' = Delete(heap, messages[known].data)
        /\ count' = count + Len(messages) - Len(messages)
    BY <1>4, <2>1
  <2>4. AddsTo(v, messages, known)
    BY <1>2, <1>6, <2>2, <2>3 DEF m, AddsTo
  <2> QED
    BY <2>4, <1>2, <1>6
<1>7. CASE known = 0 /\ free # 0
  <2>1. array = messages /\ to = free
    BY <1>2, <1>7
  <2>2. free \in 1 .. Len(messages) /\ free \notin ValidPlaces
    BY <1>2, <1>3, <1>7
  <2>3. Cardinality(ValidPlaces) # Len(messages)
    BY <1>3, <2>2
  <2>4. /\ messages' = [messages EXCEPT ![free] = m]
        /\ heap' = Delete(heap, messages[free].data)
        /\ count' = count + Len(messages) - Len(messages)
    BY <1>4, <2>1
  <2>5. AddsTo(v, messages, free)
    BY <1>2, <1>7, <2>2, <2>3, <2>4 DEF m, AddsTo
  <2> QED
    BY <2>5, <2>2
<1>8. CASE known = 0 /\ free = 0
  <2> DEFINE R == Reallocated(Len(messages) + N)
  <2>1. array = R /\ to = Len(messages) + 1
    BY <1>8
  <2>2. ValidPlaces = 1 .. Len(messages) /\ Cardinality(ValidPlaces) = Len(messages)
    <3>1. ValidPlaces = 1 .. Len(messages)
      BY <1>2, <1>3, <1>8
    <3> QED
      BY <3>1, UpTo
  <2>3. Len(messages) + N \in Nat /\ Cardinality(ValidPlaces) <= Len(messages) + N
    BY <1>5, <2>2
  <2>4. /\ R \in Seq(Message) /\ Len(R) = Len(messages) + N
        /\ \A i \in ValidPlaces : FreePos(i) \in 1 .. Len(R) /\ R[FreePos(i)] = messages[i]
        /\ \A j \in 1 .. Len(R) : R[j] = Default \/ \E i \in ValidPlaces : R[j] = messages[i]
        /\ \A j \in 1 .. Len(R) : j > Cardinality(ValidPlaces) => R[j] = Default
    BY <2>3, ReallocatedIs
  <2>5. Owned(object, R, heap) /\ Unique(R)
    BY <2>3, ReallocatedOwned
  <2> HIDE DEF R
  <2>6. to \in 1 .. Len(R) /\ R[to].id = INVALID_ID
    <3>1. Len(messages) + 1 \in 1 .. Len(R) /\ Len(messages) + 1 > Cardinality(ValidPlaces)
      BY <1>5, <2>2, <2>4
    <3>2. R[Len(messages) + 1] = Default
      BY <2>4, <3>1
    <3> QED
      BY <2>1, <3>1, <3>2
  <2>7. \A i \in 1 .. Len(R) : R[i].id # m.id
    BY <1>1, <1>2, <1>8, <2>2, <2>4 DEF m
  <2>8. \A id : id # INVALID_ID => EntryIs(R, id) = EntryIs(messages, id)
    <3>1. \A i \in 1 .. Len(messages) :
            messages[i].id # INVALID_ID => \E j \in 1 .. Len(R) : R[j] = messages[i]
      BY <2>2, <2>4
    <3>2. \A j \in 1 .. Len(R) :
            R[j].id # INVALID_ID => \E i \in 1 .. Len(messages) : R[j] = messages[i]
      BY <2>2, <2>4
    <3> QED
      BY <2>4, <2>5, <3>1, <3>2, SameEntries
  <2>9. EntryIs(messages, m.id) = "absent"
    BY <1>2, <1>8, EntryAbsent
  <2>10. PICK n \in Nat : n = Len(messages) + 1
    OBVIOUS
  <2>11. /\ messages' = [R EXCEPT ![n] = m]
         /\ heap' = Delete(heap, R[n].data)
         /\ count' = count + Len(R) - Len(messages)
         /\ n \in 1 .. Len(R) /\ R[n].id = INVALID_ID
    BY <1>4, <2>1, <2>6, <2>10
  <2>12. AddsTo(v, R, n)
    BY <2>2, <2>4, <2>5, <2>7, <2>8, <2>9, <2>11 DEF m, AddsTo
  <2> QED
    BY <2>4, <2>12
<1> QED
  BY <1>6, <1>7, <1>8

LEMMA AddsKeeps ==
  ASSUME StoreInv, NEW v \in Var, AddsMessage(v)
  PROVE  /\ StoreInv'
         /\ \A id : id # INVALID_ID =>
              EntryIs(messages', id)
                = IF id = object[v].id THEN Kind(object[v]) ELSE EntryIs(messages, id)
         /\ Len(messages') = IF EntryIs(messages, object[v].id) = "absent"
                                  /\ Cardinality(ValidPlaces) = Len(messages)
                             THEN Len(messages) + N ELSE Len(messages)
<1> USE NoneIsNoMessage, Typed
<1>0. PICK array \in Seq(Message), to \in Nat : AddsTo(v, array, to)
  BY AddsIs
<1>1. /\ to \in 1 .. Len(array)
      /\ Owned(object, array, heap) /\ Unique(array)
      /\ \/ array[to].id = object[v].id
         \/ array[to].id = INVALID_ID /\ \A i \in 1 .. Len(array) : array[i].id # object[v].id
      /\ \A id : id # INVALID_ID => EntryIs(array, id) = EntryIs(messages, id)
      /\ Len(array) = IF EntryIs(messages, object[v].id) = "absent"
                           /\ Cardinality(ValidPlaces) = Len(messages)
                      THEN Len(messages) + N ELSE Len(messages)
      /\ messages' = [array EXCEPT ![to] = object[v]]
      /\ heap' = Delete(heap, array[to].data)
      /\ count' = count + Len(array) - Len(messages)
  BY <1>0 DEF AddsTo
<1>2. /\ object[v] # None /\ object[v] \in Message /\ object[v].id # INVALID_ID
      /\ object' = [object EXCEPT ![v] = MovedFrom(object[v])] /\ nextId' = nextId
  BY DEF AddsMessage, Lives, Valid
<1>3. PICK dropped : dropped = [array EXCEPT ![to] = Default]
  OBVIOUS
<1>4. Owned(object, dropped, heap')
  BY <1>1, <1>3, PlaceDrops
<1>5. /\ dropped \in Seq(Message) /\ Len(dropped) = Len(array) /\ dropped[to].data = None
      /\ messages' = [dropped EXCEPT ![to] = object[v]]
      /\ Len(messages') = Len(array)
  BY <1>1, <1>2, <1>3
<1>6. Owned(object', messages', heap')
  <2>1. to \in 1 .. Len(dropped)
    BY <1>1, <1>5
  <2> QED
    BY <1>2, <1>4, <1>5, <2>1, PlaceTakes
<1>7. Unique(messages')
      /\ \A id : id # INVALID_ID =>
           EntryIs(messages', id) = IF id = object[v].id THEN Kind(object[v]) ELSE EntryIs(array, id)
  <2>1. /\ Unique([array EXCEPT ![to] = object[v]])
        /\ \A id : id # INVALID_ID =>
             EntryIs([array EXCEPT ![to] = object[v]], id)
               = IF id = object[v].id THEN Kind(object[v]) ELSE EntryIs(array, id)
    BY <1>1, <1>2, PutsEntry
  <2> QED
    BY <1>1, <2>1
<1>8. Living(object') = Living(object)
  BY <1>2, LivingStays
<1>9. count' = Cardinality(Living(object')) + Len(messages')
  BY <1>1, <1>5, <1>8, LenProperties
<1> QED
  BY <1>1, <1>2, <1>5, <1>6, <1>7, <1>9 DEF StoreInv, CountInv

LEMMA GetsKeeps ==
  ASSUME StoreInv, NEW v \in Var, NEW id \in 0 .. MaxId - 1, GetsCopy(v, id)
  PROVE  StoreInv'
<1> USE NoneIsNoMessage, Typed
<1>1. object[v] = None /\ messages' = messages /\ nextId' = nextId
  BY DEF GetsCopy, Lives
<1>2. CASE UNCHANGED << object, heap, count >>
  BY <1>1, <1>2 DEF StoreInv, CountInv
<1>3. CASE FindMessagePos(id) # 0 /\ messages[FindMessagePos(id)].data # None
             /\ count' = count + 1
             /\ \E b \in Free(heap) :
               /\ object' = [object EXCEPT ![v] = Copied(messages[FindMessagePos(id)], b)]
               /\ heap' = [heap EXCEPT ![b] = heap[messages[FindMessagePos(id)].data]]
  <2>1. PICK b \in Free(heap) :
               /\ object' = [object EXCEPT ![v] = Copied(messages[FindMessagePos(id)], b)]
               /\ heap' = [heap EXCEPT ![b] = heap[messages[FindMessagePos(id)].data]]
    BY <1>3
  <2>2. PICK pos : pos = FindMessagePos(id)
    OBVIOUS
  <2>3. pos \in 1 .. Len(messages) /\ messages[pos].id = id /\ messages[pos].data # None
    BY <1>3, <2>2, FindIs, FirstOfIs
  <2>4. b \in Block /\ heap[b] = None
    BY DEF Free
  <2>5. messages[pos] \in Message /\ OwnsItsText(heap, messages[pos])
    BY <2>3 DEF Owned
  <2>6. PICK x : x = Copied(messages[pos], b)
    OBVIOUS
  <2>7. x \in Message /\ x.id # INVALID_ID /\ x.data = b /\ heap[messages[pos].data] = x.id
    BY <2>3, <2>4, <2>5, <2>6, CopyIs
  <2>8. object' = [object EXCEPT ![v] = x] /\ heap' = [heap EXCEPT ![b] = x.id]
    BY <2>1, <2>2, <2>6, <2>7
  <2>9. Owned(object', messages', heap')
    BY <1>1, <2>4, <2>7, <2>8, VarTakes
  <2>10. Cardinality(Living(object')) = Cardinality(Living(object)) + 1
    BY <1>1, <2>7, <2>8, LivingGrows
  <2> QED
    BY <1>1, <1>3, <2>9, <2>10 DEF StoreInv, CountInv
<1> QED
  BY <1>2, <1>3 DEF GetsCopy

LEMMA RemovesKeeps ==
  ASSUME StoreInv, NEW id \in 0 .. MaxId - 1, RemovesMessage(id)
  PROVE  /\ StoreInv'
         /\ \A j : j # INVALID_ID =>
              EntryIs(messages', j) = IF j = id THEN "absent" ELSE EntryIs(messages, j)
         /\ answer' = << "remove", IF EntryIs(messages, id) = "absent" THEN "false" ELSE "true" >>
         /\ Len(messages') = Len(messages)
<1> USE NoneIsNoMessage, Typed
<1> DEFINE pos == FindMessagePos(id)
<1>1. object' = object /\ nextId' = nextId /\ count' = count
  BY DEF RemovesMessage
<1>2. CASE pos = 0 /\ answer' = << "remove", "false" >> /\ UNCHANGED << messages, heap >>
  <2>1. \A i \in 1 .. Len(messages) : messages[i].id # id
    BY <1>2, FindIs, FirstOfIs
  <2>2. EntryIs(messages, id) = "absent"
    BY <2>1, EntryAbsent
  <2>3. StoreInv'
    BY <1>1, <1>2 DEF StoreInv, CountInv
  <2> QED
    BY <1>2, <2>2, <2>3
<1>3. CASE /\ pos # 0 /\ answer' = << "remove", "true" >>
           /\ messages' = [messages EXCEPT ![pos] = Default]
           /\ heap' = Delete(heap, messages[pos].data)
  <2>1. pos \in 1 .. Len(messages) /\ messages[pos].id = id
    BY <1>3, FindIs, FirstOfIs
  <2> HIDE DEF pos
  <2>2. id # INVALID_ID
    BY DEF INVALID_ID
  <2>3. Owned(object', messages', heap')
    BY <1>1, <1>3, <2>1, PlaceDrops
  <2>4. /\ Unique(messages')
        /\ \A j : j # INVALID_ID =>
             EntryIs(messages', j) = IF j = id THEN "absent" ELSE EntryIs(messages, j)
    <3>1. /\ Unique([messages EXCEPT ![pos] = Default])
          /\ \A j : j # INVALID_ID =>
               EntryIs([messages EXCEPT ![pos] = Default], j)
                 = IF j = messages[pos].id THEN "absent" ELSE EntryIs(messages, j)
      BY <2>1, <2>2, TakesEntryOut
    <3> QED
      BY <1>3, <2>1, <3>1
  <2>5. EntryIs(messages, id) # "absent"
    BY <2>1, EntryAbsent
  <2>6. Len(messages') = Len(messages)
    BY <1>3
  <2>7. StoreInv'
    BY <1>1, <2>3, <2>4, <2>6 DEF StoreInv, CountInv
  <2> QED
    BY <1>3, <2>4, <2>5, <2>6, <2>7
<1> QED
  BY <1>2, <1>3 DEF RemovesMessage

(* The new size of compact() is the least multiple of N with room enough.   *)
LEMMA NewDimIs ==
  ASSUME messages \in Seq(Message)
  PROVE  /\ NewDim \in Nat /\ Cardinality(ValidPlaces) <= NewDim
         /\ NewDim < Cardinality(ValidPlaces) + N
         /\ NewDim \in {m * N : m \in 0 .. Len(messages)}
<1>1. N \in Nat /\ N > 0
  BY StoreAssumption
<1>2. PICK c : c = Cardinality(ValidPlaces)
  OBVIOUS
<1>3. c \in Nat /\ c <= Len(messages) /\ Len(messages) \in Nat
  BY <1>2, ValidOrInvalid, LenProperties
<1>4. PICK q, r : q = c \div N /\ r = c % N
  OBVIOUS
<1>5. q \in Nat /\ r \in 0 .. N - 1 /\ c = N * q + r
  BY <1>1, <1>3, <1>4
<1>6. NewDim = IF r = 0 THEN c ELSE (q + 1) * N
  BY <1>2, <1>4 DEF NewDim, Stats
<1>7. q <= N * q
  BY <1>1, <1>5
<1>8. CASE r = 0
  <2>1. NewDim = q * N /\ NewDim = c
    BY <1>1, <1>5, <1>6, <1>8
  <2>2. q \in 0 .. Len(messages)
    BY <1>1, <1>3, <1>5, <1>7, <1>8
  <2> QED
    BY <1>1, <1>2, <1>3, <2>1, <2>2
<1>9. CASE r # 0
  <2>1. NewDim = (q + 1) * N /\ (q + 1) * N = N * q + N
    BY <1>1, <1>5, <1>6, <1>9
  <2>2. q + 1 \in 0 .. Len(messages)
    BY <1>1, <1>3, <1>5, <1>7, <1>9
  <2>3. NewDim \in Nat /\ c <= NewDim /\ NewDim < c + N
    BY <1>1, <1>3, <1>5, <1>9, <2>1
  <2> QED
    BY <1>2, <2>1, <2>2, <2>3
<1> QED
  BY <1>8, <1>9

LEMMA CompactsKeeps ==
  ASSUME StoreInv, Compacts
  PROVE  /\ StoreInv'
         /\ \A id : id # INVALID_ID => EntryIs(messages', id) = EntryIs(messages, id)
         /\ Len(messages') = NewDim
<1> USE NoneIsNoMessage, Typed
<1> DEFINE R == Reallocated(NewDim)
<1>1. NewDim \in Nat /\ Cardinality(ValidPlaces) <= NewDim
  BY NewDimIs
<1>2. /\ messages' = R /\ count' = count + NewDim - Len(messages)
      /\ object' = object /\ heap' = heap /\ nextId' = nextId
  BY DEF Compacts
<1>3. ValidPlaces = {i \in 1 .. Len(messages) : messages[i].id # INVALID_ID}
  BY ValidOrInvalid
<1>4. /\ R \in Seq(Message) /\ Len(R) = NewDim
      /\ \A i \in ValidPlaces : FreePos(i) \in 1 .. NewDim /\ R[FreePos(i)] = messages[i]
      /\ \A j \in 1 .. NewDim : R[j] = Default \/ \E i \in ValidPlaces : R[j] = messages[i]
  BY <1>1, ReallocatedIs
<1>5. Owned(object, R, heap) /\ Unique(R)
  BY <1>1, ReallocatedOwned
<1> HIDE DEF R
<1>6. \A i \in 1 .. Len(messages) :
        messages[i].id # INVALID_ID => \E j \in 1 .. Len(R) : R[j] = messages[i]
  BY <1>3, <1>4
<1>7. \A j \in 1 .. Len(R) :
        R[j].id # INVALID_ID => \E i \in 1 .. Len(messages) : R[j] = messages[i]
  BY <1>3, <1>4
<1>8. \A id : id # INVALID_ID => EntryIs(R, id) = EntryIs(messages, id)
  BY <1>4, <1>5, <1>6, <1>7, SameEntries
<1>9. StoreInv'
  <2>1. count' = Cardinality(Living(object')) + Len(messages')
    BY <1>1, <1>2, <1>4
  <2> QED
    BY <1>2, <1>5, <2>1 DEF StoreInv, CountInv
<1> QED
  BY <1>2, <1>4, <1>8, <1>9

-----------------------------------------------------------------------------
LEMMA StoreInvNext == StoreInv /\ [StoreNext]_storeVars => StoreInv'
<1> SUFFICES ASSUME StoreInv, [StoreNext]_storeVars
             PROVE  StoreInv'
  OBVIOUS
<1>1. ASSUME UNCHANGED << object, messages, heap, nextId, count >>
      PROVE  StoreInv'
  BY <1>1 DEF StoreInv, CountInv
<1>2. CASE UNCHANGED storeVars \/ TellsStats \/ ReadsNull
  BY <1>1, <1>2 DEF storeVars, TellsStats, ReadsNull
<1>3. ASSUME NEW v \in Var,
             \/ Constructs(v) \/ DefaultConstructs(v) \/ Destroys(v)
             \/ \E w \in Var : CopyConstructs(v, w) \/ MoveConstructs(v, w)
             \/ \E w \in Var : CopyAssigns(v, w) \/ MoveAssigns(v, w)
             \/ AddsMessage(v) \/ AddsNothing(v)
             \/ \E id \in 0 .. MaxId - 1 : GetsCopy(v, id)
      PROVE  StoreInv'
  <2>1. CASE AddsNothing(v)
    BY <1>1, <2>1 DEF AddsNothing, storeVars
  <2> QED
    BY <1>3, <2>1, ConstructsKeeps, DefaultConstructsKeeps, DestroysKeeps, CopyConstructsKeeps,
       MoveConstructsKeeps, CopyAssignsKeeps, MoveAssignsKeeps, AddsKeeps, GetsKeeps
<1> QED
  BY <1>2, <1>3, RemovesKeeps, CompactsKeeps DEF StoreNext

LEMMA StoreInvariance == StoreSpec => []StoreInv
BY StoreInvInit, StoreInvNext, PTL DEF StoreSpec

LEMMA OneOwner ==
  ASSUME StoreInv, NEW b \in Block
  PROVE  Cardinality(VarOwners(b)) + Cardinality(PlaceOwners(b)) = IF heap[b] = None THEN 0 ELSE 1
<1>1. /\ \A v \in Var : v \in VarOwners(b) <=> Has(object, v, b)
      /\ \A i : i \in PlaceOwners(b) <=> i \in 1 .. Len(messages) /\ messages[i].data = b
      /\ VarOwners(b) \subseteq Var
  BY Typed, LenProperties DEF VarOwners, PlaceOwners, Lives, Has
<1>2. \A v, w \in VarOwners(b) : v = w
  BY <1>1 DEF StoreInv, Owned
<1>3. \A i, k \in PlaceOwners(b) : i = k
  BY <1>1 DEF StoreInv, Owned
<1>4. VarOwners(b) = {} \/ PlaceOwners(b) = {}
  BY <1>1 DEF StoreInv, Owned
<1>5. VarOwners(b) = {} /\ PlaceOwners(b) = {} <=> heap[b] = None
  <2>1. ASSUME heap[b] # None
        PROVE  VarOwners(b) # {} \/ PlaceOwners(b) # {}
    BY <1>1, <2>1 DEF StoreInv, Owned
  <2>2. ASSUME NEW m \in Message, OwnsItsText(heap, m), m.data = b
        PROVE  heap[b] # None
    BY <2>2, NoneIsNoMessage, StoreAssumption DEF OwnsItsText, Message, INVALID_ID
  <2>3. ASSUME NEW v \in VarOwners(b)
        PROVE  heap[b] # None
    <3>1. object[v] \in Message /\ OwnsItsText(heap, object[v]) /\ object[v].data = b
      BY <1>1, Typed DEF Owned, Has
    <3> QED
      BY <3>1, <2>2
  <2>4. ASSUME NEW i \in PlaceOwners(b)
        PROVE  heap[b] # None
    <3>1. messages[i] \in Message /\ OwnsItsText(heap, messages[i]) /\ messages[i].data = b
      BY <1>1, Typed DEF Owned
    <3> QED
      BY <3>1, <2>2
  <2> QED
    BY <2>1, <2>3, <2>4
<1>6. \A S : (\A x, y \in S : x = y) => S = {} \/ \E x : S = {x}
  OBVIOUS
<1>7. /\ VarOwners(b) = {} \/ \E x : VarOwners(b) = {x}
      /\ PlaceOwners(b) = {} \/ \E x : PlaceOwners(b) = {x}
  BY <1>2, <1>3, <1>6
<1>8. \A S : (S = {} => Cardinality(S) = 0) /\ ((\E x : S = {x}) => Cardinality(S) = 1)
  BY FS_EmptySet, FS_Singleton
<1>9. /\ IF VarOwners(b) = {} THEN Cardinality(VarOwners(b)) = 0
         ELSE Cardinality(VarOwners(b)) = 1
      /\ IF PlaceOwners(b) = {} THEN Cardinality(PlaceOwners(b)) = 0
         ELSE Cardinality(PlaceOwners(b)) = 1
  BY <1>7, <1>8
<1> QED
  BY <1>4, <1>5, <1>9

\* Property: TextsAreOwned, whatever the variables, the memory and the increment
\* of the array (lab1/Message.cpp 12-107, MessageStore.cpp 8-80): a block has one
\* owner while it is allocated and none afterwards, a message that has a text has
\* its own, and count is the number of messages.
THEOREM TextsAreOwnedHolds == StoreSpec => []TextsAreOwned
<1>1. StoreInv => TextsAreOwned
  <2> SUFFICES ASSUME StoreInv PROVE TextsAreOwned
    OBVIOUS
  <2>1. \A v \in Var : Lives(v) /\ object[v].data # None => heap[object[v].data] = object[v].id
    BY DEF StoreInv, Owned, OwnsItsText, Lives
  <2>2. \A i \in DOMAIN messages : messages[i].data # None => heap[messages[i].data] = messages[i].id
    BY Typed, LenProperties DEF Owned, OwnsItsText
  <2>3. {v \in Var : Lives(v)} = Living(object)
    BY DEF Lives, Living
  <2>4. count = Cardinality({v \in Var : Lives(v)}) + Len(messages)
    BY <2>3 DEF StoreInv, CountInv
  <2> QED
    BY <2>1, <2>2, <2>4, OneOwner DEF TextsAreOwned
<1> QED
  BY <1>1, StoreInvariance, PTL

-----------------------------------------------------------------------------
Id == 0 .. MaxId - 1

Shown(ms) == [id \in Id |-> EntryIs(ms, id)]

LEMMA EntriesAre ==
  /\ [id \in 0 .. MaxId - 1 |-> Entry(id)] = Shown(messages)
  /\ [id \in 0 .. MaxId - 1 |-> Entry(id)]' = Shown(messages')
  /\ \A id \in Id : id # INVALID_ID
<1>1. \A id : Entry(id) = EntryIs(messages, id)
  BY DEF Entry, EntryIs, FindMessagePos, FirstOf, PlacesOf
<1>2. \A id : Entry(id)' = EntryIs(messages', id)
  BY DEF Entry, EntryIs, FindMessagePos, FirstOf, PlacesOf
<1> QED
  BY <1>1, <1>2 DEF Shown, Id, INVALID_ID

LEMMA SameCardinality == \A S : Dict!Cardinality(S) = Cardinality(S)
BY DEF Dict!Cardinality, Cardinality

LEMMA StoreStepsDictionary ==
  ASSUME StoreInv, StoreInv', [StoreNext]_storeVars
  PROVE  [Dict!Next]_(Dict!vars)
<1> DEFINE dict == [id \in 0 .. MaxId - 1 |-> Entry(id)]
<1>0. dict = Shown(messages) /\ dict' = Shown(messages') /\ \A id \in Id : id # INVALID_ID
  BY EntriesAre
<1> USE Typed
<1>1. ASSUME UNCHANGED << messages, answer >>
      PROVE  UNCHANGED Dict!vars
  BY <1>0, <1>1 DEF Dict!vars
<1>2. Cardinality(Dict!Present) = Cardinality(ValidPlaces)
  <2>1. Dict!Present = {id \in 0 .. MaxId - 1 : EntryIs(messages, id) # "absent"}
    BY <1>0 DEF Dict!Present, Shown, Id
  <2> QED
    BY <2>1, PresentIs
<1>3. ASSUME NEW v \in Var, AddsMessage(v)
      PROVE  Dict!Next
  <2>1. /\ \A id \in Id : EntryIs(messages', id)
             = IF id = object[v].id THEN Kind(object[v]) ELSE EntryIs(messages, id)
        /\ Len(messages') = IF EntryIs(messages, object[v].id) = "absent"
                                  /\ Cardinality(ValidPlaces) = Len(messages)
                             THEN Len(messages) + N ELSE Len(messages)
        /\ answer' = answer
    BY <1>0, <1>3, AddsKeeps DEF AddsMessage
  <2>2. object[v].id \in Id /\ Kind(object[v]) \in {"whole", "hollow"}
    BY <1>3, StoreAssumption DEF AddsMessage, Lives, Valid, Message, INVALID_ID, Id, Kind
  <2>3. Shown(messages') = [Shown(messages) EXCEPT ![object[v].id] = Kind(object[v])]
    BY <2>1, <2>2 DEF Shown
  <2>4. object[v].id \notin Dict!Present <=> EntryIs(messages, object[v].id) = "absent"
    BY <1>0, <2>2 DEF Dict!Present, Shown, Id
  <2>5. Dict!Add(object[v].id, Kind(object[v]))
    <3>1. dict' = [dict EXCEPT ![object[v].id] = Kind(object[v])]
      BY <1>0, <2>3
    <3>2. Len(messages)' = IF object[v].id \notin Dict!Present
                                /\ Cardinality(Dict!Present) = Len(messages)
                           THEN Len(messages) + N ELSE Len(messages)
      BY <1>2, <2>1, <2>4
    <3> QED
      BY <2>1, <3>1, <3>2, SameCardinality DEF Dict!Add
  <2> QED
    BY <2>2, <2>5 DEF Dict!Next, Id
<1>4. ASSUME NEW v \in Var, NEW id \in Id, GetsCopy(v, id)
      PROVE  Dict!Next
  <2>1. messages' = messages
    BY <1>4 DEF GetsCopy
  <2>2. answer' = << "get", Entry(id) >>
    BY <1>4 DEF GetsCopy, Entry
  <2>3. dict[id] = Entry(id)
    BY DEF Id
  <2>4. Dict!Get(id)
    BY <1>0, <2>1, <2>2, <2>3 DEF Dict!Get
  <2> QED
    BY <2>4 DEF Dict!Next, Id
<1>5. ASSUME NEW id \in Id, RemovesMessage(id)
      PROVE  Dict!Next
  <2>1. /\ \A j \in Id : EntryIs(messages', j) = IF j = id THEN "absent" ELSE EntryIs(messages, j)
        /\ answer' = << "remove", IF EntryIs(messages, id) = "absent" THEN "false" ELSE "true" >>
        /\ Len(messages') = Len(messages)
    BY <1>0, <1>5, RemovesKeeps DEF Id
  <2>2. Shown(messages') = [Shown(messages) EXCEPT ![id] = "absent"]
    BY <2>1 DEF Shown
  <2>3. id \in Dict!Present <=> EntryIs(messages, id) # "absent"
    BY <1>0 DEF Dict!Present, Shown, Id
  <2>4. Dict!Remove(id)
    BY <1>0, <2>1, <2>2, <2>3 DEF Dict!Remove
  <2> QED
    BY <2>4 DEF Dict!Next, Id
<1>6. ASSUME TellsStats
      PROVE  Dict!Next
  <2>1. /\ answer' = << "stats", Cardinality(ValidPlaces), Len(messages) - Cardinality(ValidPlaces) >>
        /\ messages' = messages
    BY <1>6, ValidOrInvalid DEF TellsStats, Stats
  <2>2. Dict!Stats
    <3>1. dict' = dict
      BY <1>0, <2>1
    <3>2. answer' = << "stats", Cardinality(Dict!Present), Len(messages) - Cardinality(Dict!Present) >>
      BY <1>2, <2>1
    <3> QED
      BY <2>1, <3>1, <3>2, SameCardinality DEF Dict!Stats
  <2> QED
    BY <2>2 DEF Dict!Next
<1>7. ASSUME Compacts
      PROVE  Dict!Next
  <2>1. /\ \A id \in Id : EntryIs(messages', id) = EntryIs(messages, id)
        /\ Len(messages') = NewDim /\ answer' = answer
    BY <1>0, <1>7, CompactsKeeps DEF Compacts
  <2>2. Shown(messages') = Shown(messages)
    BY <2>1 DEF Shown
  <2>3. /\ NewDim \in {m * N : m \in 0 .. Len(messages)}
        /\ Cardinality(ValidPlaces) <= NewDim /\ NewDim < Cardinality(ValidPlaces) + N
    BY NewDimIs
  <2>4. Dict!Compact
    <3>1. dict' = dict
      BY <1>0, <2>2
    <3>2. /\ Len(messages)' \in {m * N : m \in 0 .. Len(messages)}
          /\ Len(messages)' >= Cardinality(Dict!Present)
          /\ Len(messages)' < Cardinality(Dict!Present) + N
      <4>1. NewDim \in Nat /\ Cardinality(ValidPlaces) \in Nat
        BY NewDimIs, ValidOrInvalid
      <4> QED
        BY <4>1, <1>2, <2>1, <2>3
    <3> QED
      BY <2>1, <3>1, <3>2, SameCardinality DEF Dict!Compact
  <2> QED
    BY <2>4 DEF Dict!Next
<1>8. ASSUME NEW v \in Var,
             \/ Constructs(v) \/ DefaultConstructs(v) \/ Destroys(v)
             \/ \E w \in Var : CopyConstructs(v, w) \/ MoveConstructs(v, w)
             \/ \E w \in Var : CopyAssigns(v, w) \/ MoveAssigns(v, w)
             \/ AddsNothing(v)
      PROVE  UNCHANGED << messages, answer >>
  BY <1>8 DEF Constructs, DefaultConstructs, Destroys, CopyConstructs, MoveConstructs, CopyAssigns,
              MoveAssigns, AddsNothing, storeVars
<1>9. CASE UNCHANGED storeVars \/ ReadsNull
  BY <1>1, <1>9 DEF storeVars, ReadsNull
<1> QED
  BY <1>1, <1>3, <1>4, <1>5, <1>6, <1>7, <1>8, <1>9 DEF StoreNext, Id

\* Property: the array of lab1/MessageStore.cpp is a dictionary, for every
\* increment N and every bound: each step of the program is a step of Dictionary,
\* or changes none of what it shows.
THEOREM StoreImplementsDictionary == StoreSpec => ImplementsDictionary
<1>1. StoreInit => Dict!Init
  <2> SUFFICES ASSUME StoreInit PROVE Dict!Init
    OBVIOUS
  <2>1. N \in Nat /\ Len(messages) = N /\ \A i \in 1 .. Len(messages) : messages[i].id = INVALID_ID
    BY StoreAssumption, NoneIsNoMessage DEF StoreInit
  <2>2. \A id \in Id : EntryIs(messages, id) = "absent"
    <3>1. StoreInv
      BY StoreInvInit
    <3> QED
      BY <2>1, <3>1, Typed, EntryAbsent, EntriesAre
  <2>3. Shown(messages) = [id \in 0 .. MaxId - 1 |-> "absent"]
    BY <2>2 DEF Shown, Id
  <2>4. answer = << >>
    BY DEF StoreInit
  <2> QED
    BY <2>1, <2>3, <2>4, EntriesAre DEF Dict!Init
<1>2. StoreInv /\ StoreInv' /\ [StoreNext]_storeVars => [Dict!Next]_(Dict!vars)
  BY StoreStepsDictionary
<1> QED
  BY <1>1, <1>2, StoreInvariance, PTL DEF StoreSpec, ImplementsDictionary, Dict!Spec

-----------------------------------------------------------------------------
(* A table t of nodes, the pointers hd of a client, the root rt, and one    *)
(* pointer more, lim, which an operation has in its hands.                  *)
NodeRecord ==
  [kind : {"dir", "file"}, parent : Node \cup {Null},
   children : [Name -> Node \cup {Null}], uses : Nat]

Table == [Node -> NodeRecord \cup {Null}]

PlacedIn(t, s, m) == \E d \in s, x \in Name : t[d] # Null /\ t[d].children[x] = m

Closed(t, s) ==
  \A d \in s, x \in Name : t[d] # Null /\ t[d].children[x] # Null => t[d].children[x] \in s

BelowOf(t, ns) == {m \in Node : \A s \in SUBSET Node : ns \subseteq s /\ Closed(t, s) => m \in s}

Shape(t) ==
  /\ t \in Table
  /\ \A d \in Node, x \in Name : t[d] # Null /\ t[d].children[x] # Null =>
       LET c == t[d].children[x]
       IN  /\ t[c] # Null /\ t[d].kind = "dir"
           /\ t[c].parent = IF t[c].kind = "dir" THEN d ELSE Null
           /\ d \notin BelowOf(t, {c})
  /\ \A d, e \in Node, x, y \in Name :
       /\ t[d] # Null /\ t[e] # Null /\ t[d].children[x] # Null
       /\ t[d].children[x] = t[e].children[y]
       => d = e /\ x = y

Roots(hd, rt, lim) == ({rt, lim} \cup {hd[h] : h \in Handle}) \ {Null}

HandlesTo(hd, n) == Cardinality({h \in Handle : hd[h] = n})

SoundTree(t, hd, rt, lim) ==
  /\ Shape(t)
  /\ hd \in [Handle -> Node \cup {Null}] /\ rt \in Node \cup {Null} /\ lim \in Node \cup {Null}
  /\ \A n \in Roots(hd, rt, lim) : t[n] # Null
  /\ \A n \in Node : t[n] # Null =>
       /\ t[n].uses = HandlesTo(hd, n) + (IF rt = n THEN 1 ELSE 0) + (IF lim = n THEN 1 ELSE 0)
                        + (IF PlacedIn(t, Node, n) THEN 1 ELSE 0)
       /\ n \in BelowOf(t, Roots(hd, rt, lim))

-----------------------------------------------------------------------------
(* What is below a set of nodes.                                            *)
LEMMA BelowHas ==
  ASSUME NEW t, NEW ns \in SUBSET Node
  PROVE  ns \subseteq BelowOf(t, ns)
BY DEF BelowOf

LEMMA BelowIsLeast ==
  ASSUME NEW t, NEW ns, NEW s \in SUBSET Node, ns \subseteq s, Closed(t, s)
  PROVE  BelowOf(t, ns) \subseteq s
BY DEF BelowOf

LEMMA BelowIsClosed ==
  ASSUME NEW t, t \in Table, NEW ns
  PROVE  BelowOf(t, ns) \in SUBSET Node /\ Closed(t, BelowOf(t, ns))
<1>1. ASSUME NEW d \in BelowOf(t, ns), NEW x \in Name, t[d] # Null, t[d].children[x] # Null
      PROVE  t[d].children[x] \in BelowOf(t, ns)
  <2>1. d \in Node /\ t[d] \in NodeRecord
    BY <1>1 DEF BelowOf, Table
  <2>2. t[d].children[x] \in Node
    BY <1>1, <2>1 DEF NodeRecord
  <2>3. ASSUME NEW s \in SUBSET Node, ns \subseteq s, Closed(t, s) PROVE t[d].children[x] \in s
    <3>1. d \in s
      BY <2>3 DEF BelowOf
    <3> QED BY <1>1, <2>3, <3>1 DEF Closed
  <2> QED BY <2>2, <2>3 DEF BelowOf
<1> QED BY <1>1 DEF Closed, BelowOf

(* A table with no more children has no more below.                         *)
LEMMA BelowShrinks ==
  ASSUME NEW t, NEW u, NEW ns,
         \A s \in SUBSET Node : Closed(t, s) => Closed(u, s)
  PROVE  BelowOf(u, ns) \subseteq BelowOf(t, ns)
BY DEF BelowOf

LEMMA BelowGrows ==
  ASSUME NEW t, NEW ns, NEW ms, ns \subseteq ms
  PROVE  BelowOf(t, ns) \subseteq BelowOf(t, ms)
BY DEF BelowOf

(* A node is in one place, so that one pointer at most leads to it.         *)
LEMMA PointersCount ==
  ASSUME NEW t, Shape(t), NEW s \in SUBSET Node, NEW m \in Node
  PROVE  Cardinality(PointersFrom(t, s, m)) = IF PlacedIn(t, s, m) THEN 1 ELSE 0
<1>0. m # Null
  BY TreeAssumption
<1>1. CASE PlacedIn(t, s, m)
  <2>1. PICK d \in s, x \in Name : t[d] # Null /\ t[d].children[x] = m
    BY <1>1 DEF PlacedIn
  <2>2. << d, x >> \in PointersFrom(t, s, m)
    BY <2>1 DEF PointersFrom
  <2>3. ASSUME NEW p \in PointersFrom(t, s, m) PROVE p = << d, x >>
    <3>1. p \in s \X Name /\ t[p[1]] # Null /\ t[p[1]].children[p[2]] = m
      BY <2>3 DEF PointersFrom
    <3>2. p = << p[1], p[2] >> /\ p[1] \in Node /\ p[2] \in Name
      BY <3>1
    <3>3. p[1] = d /\ p[2] = x
      BY <1>0, <2>1, <3>1, <3>2 DEF Shape
    <3> QED BY <3>2, <3>3
  <2>4. PointersFrom(t, s, m) = {<< d, x >>}
    BY <2>2, <2>3
  <2>5. Cardinality({<< d, x >>}) = 1
    BY FS_Singleton
  <2> QED BY <1>1, <2>4, <2>5
<1>2. CASE ~PlacedIn(t, s, m)
  <2>1. PointersFrom(t, s, m) = {}
    <3> SUFFICES ASSUME NEW p \in PointersFrom(t, s, m) PROVE FALSE
      OBVIOUS
    <3>1. p[1] \in s /\ p[2] \in Name /\ t[p[1]] # Null /\ t[p[1]].children[p[2]] = m
      BY DEF PointersFrom
    <3> QED BY <1>2, <3>1 DEF PlacedIn
  <2> QED BY <1>2, <2>1, FS_EmptySet
<1> QED BY <1>1, <1>2

-----------------------------------------------------------------------------
(* The release of a pointer.                                                *)
LEMMA GivenUpIs ==
  ASSUME NEW t, Shape(t), NEW s \in SUBSET Node, NEW m \in Node, NEW n
  PROVE  /\ GivenUp(t, s, n, m)
              = (IF PlacedIn(t, s, m) THEN 1 ELSE 0) + (IF m = n THEN 1 ELSE 0)
         /\ GivenUp(t, s, n, m) \in Nat
BY PointersCount DEF GivenUp

LEMMA GivenUpGrows ==
  ASSUME NEW t, Shape(t), NEW s \in SUBSET Node, NEW r \in SUBSET Node, r \subseteq s,
         NEW m \in Node, NEW n
  PROVE  GivenUp(t, r, n, m) <= GivenUp(t, s, n, m)
<1>1. PlacedIn(t, r, m) => PlacedIn(t, s, m)
  BY DEF PlacedIn
<1> QED BY <1>1, GivenUpIs

(* What is destroyed is the least set that is swept.                        *)
LEMMA DestroyedIsSwept ==
  ASSUME NEW t, Shape(t), NEW n
  PROVE  /\ Destroyed(t, n) \in SUBSET Node /\ Swept(t, Destroyed(t, n), n)
         /\ \A m \in Destroyed(t, n) : t[m] # Null
<1> DEFINE gone == Destroyed(t, n)
<1>1. gone \in SUBSET Node
  BY DEF Destroyed
<1>2. ASSUME NEW m \in Node, t[m] # Null, t[m].uses <= GivenUp(t, gone, n, m),
             NEW s \in SUBSET Node, Swept(t, s, n)
      PROVE  m \in s
  <2>1. gone \subseteq s
    BY <1>2 DEF Destroyed
  <2>2. GivenUp(t, gone, n, m) <= GivenUp(t, s, n, m)
    BY <1>1, <2>1, GivenUpGrows
  <2>3. GivenUp(t, gone, n, m) \in Nat /\ GivenUp(t, s, n, m) \in Nat
    BY <1>1, GivenUpIs
  <2>4. t[m].uses \in Nat
    BY <1>2 DEF Shape, Table, NodeRecord
  <2>5. t[m].uses <= GivenUp(t, s, n, m)
    BY <1>2, <2>2, <2>3, <2>4
  <2> QED BY <1>2, <2>5 DEF Swept
<1>3. Swept(t, gone, n)
  BY <1>2 DEF Swept, Destroyed
<1>4. ASSUME NEW m \in gone PROVE t[m] # Null
  <2>1. Swept(t, {k \in Node : t[k] # Null}, n)
    BY DEF Swept
  <2>2. m \in {k \in Node : t[k] # Null}
    BY <2>1 DEF Destroyed
  <2> QED BY <2>2
<1> QED BY <1>1, <1>3, <1>4

LEMMA DestroyedIsLeast ==
  ASSUME NEW t, Shape(t), NEW n, NEW m \in Destroyed(t, n)
  PROVE  t[m].uses <= GivenUp(t, Destroyed(t, n), n, m)
<1> DEFINE gone == Destroyed(t, n)
           rest == gone \ {m}
<1>0. gone \in SUBSET Node /\ rest \in SUBSET Node /\ m \in Node /\ t[m] # Null /\ Swept(t, gone, n)
  BY DestroyedIsSwept
<1> HIDE DEF gone
<1>1. SUFFICES ASSUME ~(t[m].uses <= GivenUp(t, gone, n, m)) PROVE FALSE
  BY DEF gone
<1>2. ASSUME NEW k \in Node, t[k] # Null, t[k].uses <= GivenUp(t, rest, n, k)
      PROVE  k \in rest
  <2>1. GivenUp(t, rest, n, k) <= GivenUp(t, gone, n, k)
    BY <1>0, GivenUpGrows
  <2>2. GivenUp(t, rest, n, k) \in Nat /\ GivenUp(t, gone, n, k) \in Nat
    BY <1>0, GivenUpIs
  <2>3. t[k].uses \in Nat
    BY <1>2 DEF Shape, Table, NodeRecord
  <2>4. t[k].uses <= GivenUp(t, gone, n, k)
    BY <1>2, <2>1, <2>2, <2>3
  <2>5. k \in gone
    BY <1>0, <1>2, <2>4 DEF Swept
  <2> QED BY <1>1, <2>4, <2>5
<1>3. Swept(t, rest, n)
  BY <1>2 DEF Swept
<1>4. m \in rest
  BY <1>0, <1>3 DEF Destroyed, gone
<1> QED BY <1>4

(* A node is destroyed if nobody holds it but nodes that are destroyed.     *)
LEMMA GoneIs ==
  ASSUME NEW t, NEW hd, NEW rt, NEW lim, SoundTree(t, hd, rt, lim), NEW m \in Node, t[m] # Null
  PROVE  m \in Destroyed(t, lim)
           <=> /\ rt # m /\ \A h \in Handle : hd[h] # m
               /\ \A d \in Node, x \in Name :
                    t[d] # Null /\ t[d].children[x] = m => d \in Destroyed(t, lim)
<1> DEFINE gone == Destroyed(t, lim)
<1>1. Shape(t) /\ gone \in SUBSET Node /\ Swept(t, gone, lim)
  BY DestroyedIsSwept DEF SoundTree
<1>2. m \in gone => t[m].uses <= GivenUp(t, gone, lim, m)
  BY <1>1, DestroyedIsLeast
<1> HIDE DEF gone
<1>3. m \in gone <=> t[m].uses <= GivenUp(t, gone, lim, m)
  BY <1>1, <1>2 DEF Swept
<1>4. /\ t[m].uses = HandlesTo(hd, m) + (IF rt = m THEN 1 ELSE 0) + (IF lim = m THEN 1 ELSE 0)
                       + (IF PlacedIn(t, Node, m) THEN 1 ELSE 0)
      /\ GivenUp(t, gone, lim, m)
           = (IF PlacedIn(t, gone, m) THEN 1 ELSE 0) + (IF m = lim THEN 1 ELSE 0)
  BY <1>1, GivenUpIs DEF SoundTree
<1>5. HandlesTo(hd, m) \in Nat /\ (HandlesTo(hd, m) = 0 <=> \A h \in Handle : hd[h] # m)
  <2>1. IsFiniteSet({h \in Handle : hd[h] = m})
    BY TreeAssumption, FS_Subset
  <2> QED BY <2>1, FS_CardinalityType, FS_EmptySet DEF HandlesTo
<1>6. PlacedIn(t, gone, m) => PlacedIn(t, Node, m)
  BY <1>1 DEF PlacedIn
<1>7. m \in gone <=> /\ rt # m /\ HandlesTo(hd, m) = 0
                     /\ PlacedIn(t, Node, m) => PlacedIn(t, gone, m)
  BY <1>3, <1>4, <1>5, <1>6
<1>8. (PlacedIn(t, Node, m) => PlacedIn(t, gone, m))
        <=> \A d \in Node, x \in Name : t[d] # Null /\ t[d].children[x] = m => d \in gone
  <2>1. m # Null
    BY TreeAssumption
  <2>2. ASSUME NEW d \in Node, NEW x \in Name, t[d] # Null, t[d].children[x] = m,
               PlacedIn(t, gone, m)
        PROVE  d \in gone
    <3>1. PICK e \in gone, y \in Name : t[e] # Null /\ t[e].children[y] = m
      BY <2>2 DEF PlacedIn
    <3>2. e = d
      BY <1>1, <2>1, <2>2, <3>1 DEF Shape
    <3> QED BY <3>2
  <2>3. ASSUME NEW d \in Node, NEW x \in Name, t[d] # Null, t[d].children[x] = m
        PROVE  PlacedIn(t, Node, m)
    BY <2>3 DEF PlacedIn
  <2>4. ASSUME \A d \in Node, x \in Name : t[d] # Null /\ t[d].children[x] = m => d \in gone,
               PlacedIn(t, Node, m)
        PROVE  PlacedIn(t, gone, m)
    BY <2>4 DEF PlacedIn
  <2> QED BY <2>2, <2>3, <2>4
<1> QED BY <1>5, <1>7, <1>8 DEF gone
LEMMA ReleasedIs ==
  ASSUME NEW t, NEW hd, NEW rt, NEW lim, SoundTree(t, hd, rt, lim), NEW m \in Node
  PROVE  LET u == Release(t, lim) IN
         /\ u[m] = Null <=> t[m] = Null \/ m \in Destroyed(t, lim)
         /\ u[m] # Null =>
              /\ u[m] \in NodeRecord
              /\ u[m].kind = t[m].kind /\ u[m].parent = t[m].parent
              /\ u[m].children = t[m].children
              /\ u[m].uses = HandlesTo(hd, m) + (IF rt = m THEN 1 ELSE 0)
                   + (IF PlacedIn(t, Node, m) /\ ~PlacedIn(t, Destroyed(t, lim), m) THEN 1 ELSE 0)
<1> DEFINE gone == Destroyed(t, lim)
           u == Release(t, lim)
           left == t[m].uses - GivenUp(t, gone, lim, m)
<1>0. Shape(t) /\ gone \in SUBSET Node
  BY DestroyedIsSwept DEF SoundTree
<1>1. u[m] = IF t[m] = Null \/ m \in gone THEN Null ELSE [t[m] EXCEPT !.uses = left]
  BY DEF Release
<1> HIDE DEF gone, u, left
<1>2. SUFFICES ASSUME t[m] # Null, m \notin gone
               PROVE  /\ u[m] # Null /\ u[m] \in NodeRecord
                      /\ u[m].kind = t[m].kind /\ u[m].parent = t[m].parent
                      /\ u[m].children = t[m].children
                      /\ u[m].uses = HandlesTo(hd, m) + (IF rt = m THEN 1 ELSE 0)
                           + (IF PlacedIn(t, Node, m) /\ ~PlacedIn(t, gone, m) THEN 1 ELSE 0)
  BY <1>1 DEF u, gone
<1>3. t[m] \in NodeRecord
  BY <1>0, <1>2 DEF Shape, Table
<1>4. HandlesTo(hd, m) \in Nat
  <2>1. IsFiniteSet({h \in Handle : hd[h] = m})
    BY TreeAssumption, FS_Subset
  <2> QED BY <2>1, FS_CardinalityType DEF HandlesTo
<1>5. PlacedIn(t, gone, m) => PlacedIn(t, Node, m)
  BY <1>0 DEF PlacedIn
<1>6. /\ t[m].uses = HandlesTo(hd, m) + (IF rt = m THEN 1 ELSE 0) + (IF lim = m THEN 1 ELSE 0)
                       + (IF PlacedIn(t, Node, m) THEN 1 ELSE 0)
      /\ GivenUp(t, gone, lim, m)
           = (IF PlacedIn(t, gone, m) THEN 1 ELSE 0) + (IF m = lim THEN 1 ELSE 0)
  BY <1>0, <1>2, GivenUpIs DEF SoundTree
<1>7. left = HandlesTo(hd, m) + (IF rt = m THEN 1 ELSE 0)
               + (IF PlacedIn(t, Node, m) /\ ~PlacedIn(t, gone, m) THEN 1 ELSE 0)
  BY <1>4, <1>5, <1>6 DEF left
<1>8. left \in Nat
  BY <1>4, <1>7
<1>9. u[m] = [t[m] EXCEPT !.uses = left]
  BY <1>1, <1>2
<1>10. /\ u[m] \in NodeRecord /\ u[m].kind = t[m].kind /\ u[m].parent = t[m].parent
       /\ u[m].children = t[m].children /\ u[m].uses = left
  BY <1>3, <1>8, <1>9 DEF NodeRecord
<1>11. u[m] # Null
  BY <1>10, TreeAssumption DEF NodeRecord
<1> QED BY <1>7, <1>10, <1>11

LEMMA ReleasedShape ==
  ASSUME NEW t, NEW hd, NEW rt, NEW lim, SoundTree(t, hd, rt, lim)
  PROVE  /\ Shape(Release(t, lim))
         /\ \A s \in SUBSET Node : Closed(t, s) => Closed(Release(t, lim), s)
<1> DEFINE gone == Destroyed(t, lim)
           u == Release(t, lim)
<1>0. Shape(t) /\ gone \in SUBSET Node
  BY DestroyedIsSwept DEF SoundTree
<1>1. \A m \in Node : /\ u[m] = Null <=> t[m] = Null \/ m \in gone
                      /\ u[m] # Null => /\ u[m] \in NodeRecord
                                        /\ u[m].kind = t[m].kind /\ u[m].parent = t[m].parent
                                        /\ u[m].children = t[m].children
  BY ReleasedIs
<1>2. u = [m \in Node |-> u[m]]
  BY DEF Release
<1> HIDE DEF gone, u
<1>3. u \in Table
  BY <1>1, <1>2 DEF Table
<1>4. ASSUME NEW s \in SUBSET Node, Closed(t, s) PROVE Closed(u, s)
  BY <1>1, <1>4 DEF Closed
<1>5. ASSUME NEW d \in Node, NEW x \in Name, u[d] # Null, u[d].children[x] # Null
      PROVE  LET c == u[d].children[x]
             IN  /\ u[c] # Null /\ u[d].kind = "dir"
                 /\ u[c].parent = IF u[c].kind = "dir" THEN d ELSE Null
                 /\ d \notin BelowOf(u, {c})
  <2> DEFINE c == u[d].children[x]
  <2>1. t[d] # Null /\ t[d].children[x] = c /\ u[d].kind = t[d].kind /\ d \notin gone
    BY <1>1, <1>5
  <2>2. c \in Node
    BY <1>1, <1>5 DEF NodeRecord
  <2> HIDE DEF c
  <2>3. c # Null
    BY <2>2, TreeAssumption
  <2>4. /\ t[c] # Null /\ t[d].kind = "dir"
        /\ t[c].parent = IF t[c].kind = "dir" THEN d ELSE Null
        /\ d \notin BelowOf(t, {c})
    BY <1>0, <2>1, <2>3 DEF Shape
  <2>5. c \notin gone
    BY <2>1, <2>2, <2>4, GoneIs DEF gone
  <2>6. u[c] # Null /\ u[c].kind = t[c].kind /\ u[c].parent = t[c].parent
    BY <1>1, <2>2, <2>4, <2>5
  <2>7. BelowOf(u, {c}) \subseteq BelowOf(t, {c})
    BY <1>4, BelowShrinks
  <2> QED BY <2>1, <2>4, <2>6, <2>7 DEF c
<1>6. ASSUME NEW d \in Node, NEW e \in Node, NEW x \in Name, NEW y \in Name,
             u[d] # Null, u[e] # Null, u[d].children[x] # Null,
             u[d].children[x] = u[e].children[y]
      PROVE  d = e /\ x = y
  <2>1. /\ t[d] # Null /\ t[d].children = u[d].children
        /\ t[e] # Null /\ t[e].children = u[e].children
    BY <1>1, <1>6
  <2> QED BY <1>0, <1>6, <2>1 DEF Shape
<1> QED BY <1>3, <1>4, <1>5, <1>6 DEF Shape, u

(* Whoever survives can be reached: otherwise it would be in a place whose  *)
(* directory cannot be reached either, and so on, and some node would be    *)
(* below itself.                                                            *)
LEMMA SurvivorsAreReached ==
  ASSUME NEW t, NEW hd, NEW rt, NEW lim, SoundTree(t, hd, rt, lim),
         NEW n \in Node, Release(t, lim)[n] # Null
  PROVE  n \in BelowOf(Release(t, lim), Roots(hd, rt, Null))
<1> DEFINE gone == Destroyed(t, lim)
           u == Release(t, lim)
           reached == BelowOf(u, Roots(hd, rt, Null))
           lost == {m \in Node : u[m] # Null /\ m \notin reached}
           rest == Node \ lost
<1>0. Shape(t) /\ gone \in SUBSET Node /\ t \in Table
  BY DestroyedIsSwept DEF SoundTree, Shape
<1>1. Shape(u) /\ u \in Table
  BY ReleasedShape DEF Shape
<1>2. \A m \in Node : /\ u[m] = Null <=> t[m] = Null \/ m \in gone
                      /\ u[m] # Null => u[m].children = t[m].children
  BY ReleasedIs
<1>3. /\ hd \in [Handle -> Node \cup {Null}] /\ rt \in Node \cup {Null} /\ lim \in Node \cup {Null}
      /\ \A m \in Roots(hd, rt, lim) : t[m] # Null
  BY DEF SoundTree
<1>4. Roots(hd, rt, Null) \in SUBSET Node /\ Roots(hd, rt, lim) \subseteq Roots(hd, rt, Null) \cup ({lim} \ {Null})
  BY <1>3 DEF Roots
<1>5. Roots(hd, rt, Null) \subseteq reached /\ reached \in SUBSET Node /\ Closed(u, reached)
  BY <1>1, <1>4, BelowHas, BelowIsClosed
<1>6. \A m \in Node : t[m] # Null =>
        (m \in gone <=> /\ rt # m /\ \A h \in Handle : hd[h] # m
                        /\ \A d \in Node, x \in Name :
                             t[d] # Null /\ t[d].children[x] = m => d \in gone)
  BY GoneIs
<1> HIDE DEF gone, u, reached
<1>7. ASSUME NEW m \in lost
      PROVE  \E d \in lost, x \in Name : t[d] # Null /\ t[d].children[x] = m
  <2>1. m \in Node /\ u[m] # Null /\ m \notin reached /\ t[m] # Null /\ m \notin gone /\ m # Null
    BY <1>2, <1>7, TreeAssumption
  <2>2. rt # m /\ \A h \in Handle : hd[h] # m
    BY <1>5, <2>1 DEF Roots
  <2>3. PICK d \in Node, x \in Name : t[d] # Null /\ t[d].children[x] = m /\ d \notin gone
    BY <1>6, <2>1, <2>2
  <2>4. u[d] # Null /\ u[d].children[x] = m
    BY <1>2, <2>3
  <2>5. d \notin reached
    BY <1>5, <2>1, <2>4 DEF Closed
  <2> QED BY <2>3, <2>4, <2>5
<1>8. Closed(t, rest)
  <2> SUFFICES ASSUME NEW d \in rest, NEW x \in Name, t[d] # Null, t[d].children[x] # Null
               PROVE  t[d].children[x] \in rest
    BY DEF Closed
  <2>1. d \in Node /\ t[d].children[x] \in Node
    BY <1>0 DEF Table, NodeRecord
  <2>2. ASSUME t[d].children[x] \in lost PROVE FALSE
    <3>1. PICK e \in lost, y \in Name : t[e] # Null /\ t[e].children[y] = t[d].children[x]
      BY <1>7, <2>2
    <3>2. d = e
      BY <1>0, <2>1, <3>1 DEF Shape
    <3> QED BY <3>1, <3>2
  <2> QED BY <2>1, <2>2
<1>9. Roots(hd, rt, Null) \subseteq rest
  BY <1>4, <1>5
<1>10. CASE lim \notin lost
  <2>1. Roots(hd, rt, lim) \subseteq rest
    BY <1>3, <1>4, <1>9, <1>10
  <2>2. BelowOf(t, Roots(hd, rt, lim)) \subseteq rest
    BY <1>8, <2>1, BelowIsLeast
  <2>3. t[n] # Null
    BY <1>2 DEF u
  <2>4. n \in rest
    BY <2>2, <2>3 DEF SoundTree
  <2> QED BY <2>4 DEF u, reached
<1>11. CASE lim \in lost
  <2> DEFINE both == rest \cup BelowOf(t, {lim})
  <2>1. PICK d \in lost, x \in Name : t[d] # Null /\ t[d].children[x] = lim
    BY <1>7, <1>11
  <2>2. lim # Null /\ lim \in Node
    BY <1>11, TreeAssumption
  <2>3. d \notin BelowOf(t, {lim})
    BY <1>0, <2>1, <2>2 DEF Shape
  <2>4. BelowOf(t, {lim}) \in SUBSET Node /\ Closed(t, BelowOf(t, {lim})) /\ lim \in BelowOf(t, {lim})
    BY <1>0, <2>2, BelowIsClosed, BelowHas
  <2>5. Closed(t, both) /\ both \in SUBSET Node
    BY <1>8, <2>4 DEF Closed
  <2>6. Roots(hd, rt, lim) \subseteq both
    BY <1>4, <1>9, <2>4
  <2>7. BelowOf(t, Roots(hd, rt, lim)) \subseteq both
    BY <2>5, <2>6, BelowIsLeast
  <2>8. d \in both
    BY <2>1, <2>7 DEF SoundTree
  <2> QED BY <2>1, <2>3, <2>8
<1> QED BY <1>10, <1>11

LEMMA ReleaseKeeps ==
  ASSUME NEW t, NEW hd, NEW rt, NEW lim, SoundTree(t, hd, rt, lim)
  PROVE  SoundTree(Release(t, lim), hd, rt, Null)
<1> DEFINE gone == Destroyed(t, lim)
           u == Release(t, lim)
<1>1. Shape(u) /\ Shape(t)
  BY ReleasedShape DEF SoundTree
<1>2. /\ hd \in [Handle -> Node \cup {Null}] /\ rt \in Node \cup {Null}
      /\ \A m \in Roots(hd, rt, lim) : t[m] # Null
  BY DEF SoundTree
<1>3. \A n \in Node : u[n] # Null => n \in BelowOf(u, Roots(hd, rt, Null))
  BY SurvivorsAreReached
<1>4. \A m \in Node : /\ u[m] = Null <=> t[m] = Null \/ m \in gone
                      /\ u[m] # Null =>
                           /\ u[m].children = t[m].children
                           /\ u[m].uses = HandlesTo(hd, m) + (IF rt = m THEN 1 ELSE 0)
                                + (IF PlacedIn(t, Node, m) /\ ~PlacedIn(t, gone, m) THEN 1 ELSE 0)
  BY ReleasedIs
<1>5. \A m \in Node : t[m] # Null /\ (rt = m \/ \E h \in Handle : hd[h] = m) => m \notin gone
  BY GoneIs
<1>6. gone \in SUBSET Node
  BY <1>1, DestroyedIsSwept
<1> HIDE DEF gone, u
<1>7. \A m \in Roots(hd, rt, Null) : u[m] # Null
  <2> SUFFICES ASSUME NEW m \in Roots(hd, rt, Null) PROVE u[m] # Null
    OBVIOUS
  <2>1. m \in Node /\ m \in Roots(hd, rt, lim) /\ (rt = m \/ \E h \in Handle : hd[h] = m)
    BY <1>2 DEF Roots
  <2> QED BY <1>2, <1>4, <1>5, <2>1
<1>8. ASSUME NEW m \in Node, u[m] # Null
      PROVE  PlacedIn(u, Node, m) <=> PlacedIn(t, Node, m) /\ ~PlacedIn(t, gone, m)
  <2>0. m # Null
    BY TreeAssumption
  <2>1. ASSUME PlacedIn(u, Node, m) PROVE PlacedIn(t, Node, m) /\ ~PlacedIn(t, gone, m)
    <3>1. PICK d \in Node, x \in Name : u[d] # Null /\ u[d].children[x] = m
      BY <2>1 DEF PlacedIn
    <3>2. t[d] # Null /\ t[d].children[x] = m /\ d \notin gone
      BY <1>4, <3>1
    <3>3. ASSUME NEW e \in gone, NEW y \in Name, t[e] # Null, t[e].children[y] = m PROVE FALSE
      <4>1. e = d
        BY <1>1, <1>6, <2>0, <3>2, <3>3 DEF Shape
      <4> QED BY <3>2, <4>1
    <3> QED BY <3>2, <3>3 DEF PlacedIn
  <2>2. ASSUME PlacedIn(t, Node, m), ~PlacedIn(t, gone, m) PROVE PlacedIn(u, Node, m)
    <3>1. PICK d \in Node, x \in Name : t[d] # Null /\ t[d].children[x] = m
      BY <2>2 DEF PlacedIn
    <3>2. d \notin gone
      BY <2>2, <3>1 DEF PlacedIn
    <3>3. u[d] # Null /\ u[d].children[x] = m
      BY <1>4, <3>1, <3>2
    <3> QED BY <3>3 DEF PlacedIn
  <2> QED BY <2>1, <2>2
<1>9. ASSUME NEW m \in Node, u[m] # Null
      PROVE  u[m].uses = HandlesTo(hd, m) + (IF rt = m THEN 1 ELSE 0) + (IF Null = m THEN 1 ELSE 0)
                           + (IF PlacedIn(u, Node, m) THEN 1 ELSE 0)
  <2>1. Null # m
    BY TreeAssumption
  <2>2. HandlesTo(hd, m) \in Nat
    <3>1. IsFiniteSet({h \in Handle : hd[h] = m})
      BY TreeAssumption, FS_Subset
    <3> QED BY <3>1, FS_CardinalityType DEF HandlesTo
  <2> QED BY <1>4, <1>8, <1>9, <2>1, <2>2
<1> QED BY <1>1, <1>2, <1>3, <1>7, <1>9 DEF SoundTree, u

-----------------------------------------------------------------------------
(* One pointer more, and two that change places.                            *)
LEMMA HandlesAreCounted ==
  ASSUME NEW hd, NEW n
  PROVE  IsFiniteSet({h \in Handle : hd[h] = n}) /\ HandlesTo(hd, n) \in Nat
<1>1. IsFiniteSet({h \in Handle : hd[h] = n})
  BY TreeAssumption, FS_Subset
<1> QED BY <1>1, FS_CardinalityType DEF HandlesTo

LEMMA AcquireKeeps ==
  ASSUME NEW t, NEW hd, NEW rt, NEW n \in Node, SoundTree(t, hd, rt, Null), t[n] # Null
  PROVE  SoundTree(Acquire(t, n), hd, rt, n)
<1> DEFINE u == Acquire(t, n)
<1>0. Shape(t) /\ t \in Table /\ n # Null
  BY TreeAssumption DEF SoundTree, Shape
<1>1. u = [t EXCEPT ![n].uses = @ + 1]
  BY <1>0 DEF Acquire
<1>2. t[n] \in NodeRecord
  BY <1>0 DEF Table
<1>3. u = [t EXCEPT ![n] = [t[n] EXCEPT !.uses = @ + 1]] /\ [t[n] EXCEPT !.uses = @ + 1] \in NodeRecord
  BY <1>0, <1>1, <1>2 DEF Table, NodeRecord
<1>4. u \in Table
  BY <1>0, <1>3 DEF Table
<1>5. \A m \in Node : m # n => u[m] = t[m]
  BY <1>0, <1>3 DEF Table
<1>6. u[n] = [t[n] EXCEPT !.uses = @ + 1]
  BY <1>0, <1>3 DEF Table
<1>7. u[n] # Null
  BY <1>3, <1>6, TreeAssumption DEF NodeRecord
<1>8. \A m \in Node : /\ u[m] = Null <=> t[m] = Null
                      /\ t[m] # Null =>
                           /\ u[m].kind = t[m].kind /\ u[m].parent = t[m].parent
                           /\ u[m].children = t[m].children
                           /\ u[m].uses = t[m].uses + (IF m = n THEN 1 ELSE 0)
  <2> SUFFICES ASSUME NEW m \in Node
               PROVE  /\ u[m] = Null <=> t[m] = Null
                      /\ t[m] # Null =>
                           /\ u[m].kind = t[m].kind /\ u[m].parent = t[m].parent
                           /\ u[m].children = t[m].children
                           /\ u[m].uses = t[m].uses + (IF m = n THEN 1 ELSE 0)
    OBVIOUS
  <2>1. CASE m = n
    BY <1>2, <1>6, <1>7, <2>1 DEF NodeRecord
  <2>2. CASE m # n
    <3>1. t[m] # Null => t[m].uses \in Nat
      BY <1>0 DEF Table, NodeRecord
    <3> QED BY <1>5, <2>2, <3>1
  <2> QED BY <2>1, <2>2
<1> HIDE DEF u
<1>9. \A s \in SUBSET Node : Closed(t, s) <=> Closed(u, s)
  BY <1>8 DEF Closed
<1>10. \A ns : BelowOf(u, ns) = BelowOf(t, ns)
  BY <1>9 DEF BelowOf
<1>11. Shape(u)
  <2>1. ASSUME NEW d \in Node, NEW x \in Name, u[d] # Null, u[d].children[x] # Null
        PROVE  LET c == u[d].children[x]
               IN  /\ u[c] # Null /\ u[d].kind = "dir"
                   /\ u[c].parent = IF u[c].kind = "dir" THEN d ELSE Null
                   /\ d \notin BelowOf(u, {c})
    <3>1. t[d] # Null /\ t[d].children = u[d].children /\ u[d].kind = t[d].kind
      BY <1>8, <2>1
    <3>2. PICK c \in Node : c = u[d].children[x]
      BY <1>4, <2>1 DEF Table, NodeRecord
    <3>3. /\ t[c] # Null /\ t[d].kind = "dir"
          /\ t[c].parent = IF t[c].kind = "dir" THEN d ELSE Null
          /\ d \notin BelowOf(t, {c})
      BY <1>0, <2>1, <3>1, <3>2 DEF Shape
    <3>4. u[c] # Null /\ u[c].kind = t[c].kind /\ u[c].parent = t[c].parent
      BY <1>8, <3>3
    <3>5. d \notin BelowOf(u, {c})
      BY <1>10, <3>3
    <3> QED BY <3>1, <3>2, <3>3, <3>4, <3>5
  <2>2. ASSUME NEW d \in Node, NEW e \in Node, NEW x \in Name, NEW y \in Name,
               u[d] # Null, u[e] # Null, u[d].children[x] # Null,
               u[d].children[x] = u[e].children[y]
        PROVE  d = e /\ x = y
    <3>1. /\ t[d] # Null /\ t[d].children = u[d].children
          /\ t[e] # Null /\ t[e].children = u[e].children
      BY <1>8, <2>2
    <3> QED BY <1>0, <2>2, <3>1 DEF Shape
  <2> QED BY <1>4, <2>1, <2>2 DEF Shape
<1>12. /\ hd \in [Handle -> Node \cup {Null}] /\ rt \in Node \cup {Null}
       /\ \A m \in Roots(hd, rt, Null) : t[m] # Null
  BY DEF SoundTree
<1>13. Roots(hd, rt, n) = Roots(hd, rt, Null) \cup {n} /\ Roots(hd, rt, n) \subseteq Node
  BY <1>0, <1>12 DEF Roots
<1>14. \A m \in Roots(hd, rt, n) : u[m] # Null
  BY <1>7, <1>8, <1>12, <1>13
<1>15. ASSUME NEW m \in Node, u[m] # Null
       PROVE  /\ u[m].uses = HandlesTo(hd, m) + (IF rt = m THEN 1 ELSE 0) + (IF n = m THEN 1 ELSE 0)
                               + (IF PlacedIn(u, Node, m) THEN 1 ELSE 0)
              /\ m \in BelowOf(u, Roots(hd, rt, n))
  <2>1. t[m] # Null /\ Null # m
    BY <1>8, <1>15, TreeAssumption
  <2>2. PlacedIn(u, Node, m) <=> PlacedIn(t, Node, m)
    BY <1>8 DEF PlacedIn
  <2>3. /\ t[m].uses = HandlesTo(hd, m) + (IF rt = m THEN 1 ELSE 0) + (IF Null = m THEN 1 ELSE 0)
                         + (IF PlacedIn(t, Node, m) THEN 1 ELSE 0)
        /\ m \in BelowOf(t, Roots(hd, rt, Null))
    BY <2>1 DEF SoundTree
  <2>4. BelowOf(t, Roots(hd, rt, Null)) \subseteq BelowOf(t, Roots(hd, rt, n))
    BY <1>13, BelowGrows
  <2>5. u[m].uses = HandlesTo(hd, m) + (IF rt = m THEN 1 ELSE 0) + (IF n = m THEN 1 ELSE 0)
                      + (IF PlacedIn(u, Node, m) THEN 1 ELSE 0)
    <3>1. HandlesTo(hd, m) \in Nat
      BY HandlesAreCounted
    <3>2. t[m].uses = HandlesTo(hd, m) + (IF rt = m THEN 1 ELSE 0)
                        + (IF PlacedIn(u, Node, m) THEN 1 ELSE 0)
      BY <2>1, <2>2, <2>3, <3>1
    <3>3. u[m].uses = t[m].uses + (IF n = m THEN 1 ELSE 0)
      BY <1>8, <2>1
    <3> QED BY <3>1, <3>2, <3>3
  <2> QED BY <1>10, <2>3, <2>4, <2>5
<1> QED BY <1>11, <1>12, <1>14, <1>15 DEF SoundTree, u

LEMMA SwapKeeps ==
  ASSUME NEW t, NEW hd, NEW rt, NEW lim, NEW h \in Handle, SoundTree(t, hd, rt, lim)
  PROVE  SoundTree(t, [hd EXCEPT ![h] = lim], rt, hd[h])
<1> DEFINE hs == [hd EXCEPT ![h] = lim]
<1>1. /\ hd \in [Handle -> Node \cup {Null}] /\ rt \in Node \cup {Null} /\ lim \in Node \cup {Null}
      /\ \A m \in Roots(hd, rt, lim) : t[m] # Null
  BY DEF SoundTree
<1>2. hs \in [Handle -> Node \cup {Null}] /\ hs[h] = lim /\ hd[h] \in Node \cup {Null}
  BY <1>1
<1>3. \A k \in Handle : k # h => hs[k] = hd[k]
  BY <1>1
<1> HIDE DEF hs
<1>4. Roots(hs, rt, hd[h]) = Roots(hd, rt, lim)
  BY <1>2, <1>3 DEF Roots
<1>5. ASSUME NEW m \in Node
      PROVE  HandlesTo(hs, m) + (IF hd[h] = m THEN 1 ELSE 0)
               = HandlesTo(hd, m) + (IF lim = m THEN 1 ELSE 0)
  <2> DEFINE others == {k \in Handle \ {h} : hd[k] = m}
  <2>1. IsFiniteSet(others) /\ h \notin others
    <3>1. IsFiniteSet(Handle \ {h})
      BY TreeAssumption, FS_Subset
    <3> QED BY <3>1, FS_Subset
  <2>2. /\ {k \in Handle : hd[k] = m} = others \cup (IF hd[h] = m THEN {h} ELSE {})
        /\ {k \in Handle : hs[k] = m} = others \cup (IF lim = m THEN {h} ELSE {})
    BY <1>2, <1>3
  <2> HIDE DEF others
  <2>3. Cardinality(others \cup {h}) = Cardinality(others) + 1 /\ Cardinality(others) \in Nat
    BY <2>1, FS_AddElement, FS_CardinalityType
  <2>4. HandlesTo(hd, m) = Cardinality(others) + (IF hd[h] = m THEN 1 ELSE 0)
    <3>1. CASE hd[h] = m
      <4>1. {k \in Handle : hd[k] = m} = others \cup {h}
        BY <2>2, <3>1
      <4>2. HandlesTo(hd, m) = Cardinality(others \cup {h})
        BY <4>1, Zenon DEF HandlesTo
      <4> QED BY <2>3, <3>1, <4>2
    <3>2. CASE hd[h] # m
      <4>1. {k \in Handle : hd[k] = m} = others
        BY <2>2, <3>2
      <4>2. HandlesTo(hd, m) = Cardinality(others)
        BY <4>1, Zenon DEF HandlesTo
      <4> QED BY <2>3, <3>2, <4>2
    <3> QED BY <3>1, <3>2
  <2>5. HandlesTo(hs, m) = Cardinality(others) + (IF lim = m THEN 1 ELSE 0)
    <3>1. CASE lim = m
      <4>1. {k \in Handle : hs[k] = m} = others \cup {h}
        BY <2>2, <3>1
      <4>2. HandlesTo(hs, m) = Cardinality(others \cup {h})
        BY <4>1, Zenon DEF HandlesTo
      <4> QED BY <2>3, <3>1, <4>2
    <3>2. CASE lim # m
      <4>1. {k \in Handle : hs[k] = m} = others
        BY <2>2, <3>2
      <4>2. HandlesTo(hs, m) = Cardinality(others)
        BY <4>1, Zenon DEF HandlesTo
      <4> QED BY <2>3, <3>2, <4>2
    <3> QED BY <3>1, <3>2
  <2> QED BY <2>3, <2>4, <2>5
<1>6. ASSUME NEW m \in Node, t[m] # Null
      PROVE  /\ t[m].uses = HandlesTo(hs, m) + (IF rt = m THEN 1 ELSE 0) + (IF hd[h] = m THEN 1 ELSE 0)
                              + (IF PlacedIn(t, Node, m) THEN 1 ELSE 0)
             /\ m \in BelowOf(t, Roots(hs, rt, hd[h]))
  <2>1. /\ t[m].uses = HandlesTo(hd, m) + (IF rt = m THEN 1 ELSE 0) + (IF lim = m THEN 1 ELSE 0)
                         + (IF PlacedIn(t, Node, m) THEN 1 ELSE 0)
        /\ m \in BelowOf(t, Roots(hd, rt, lim))
    BY <1>6 DEF SoundTree
  <2>2. HandlesTo(hd, m) \in Nat /\ HandlesTo(hs, m) \in Nat
    BY HandlesAreCounted
  <2> QED BY <1>4, <1>5, <2>1, <2>2
<1>7. Shape(t)
  BY DEF SoundTree
<1> QED BY <1>1, <1>2, <1>4, <1>6, <1>7 DEF SoundTree, hs

LEMMA AssignKeeps ==
  ASSUME NEW t, NEW rt, SoundTree(t, handle, rt, Null), NEW h \in Handle,
         NEW n, n = Null \/ (n \in Node /\ t[n] # Null), Assign(t, h, n)
  PROVE  SoundTree(node', handle', rt, Null)
<1>1. SoundTree(Acquire(t, n), handle, rt, n)
  BY AcquireKeeps DEF Acquire
<1>2. SoundTree(Acquire(t, n), handle', rt, handle[h])
  BY <1>1, SwapKeeps DEF Assign
<1> QED BY <1>2, ReleaseKeeps DEF Assign

-----------------------------------------------------------------------------
(* A node more.                                                             *)
NewNode(kind, parent) == [kind |-> kind, parent |-> parent, children |-> NoChild, uses |-> 1]

LEMMA NewNodeIs ==
  ASSUME NEW kind \in {"dir", "file"}, NEW parent \in Node \cup {Null}
  PROVE  /\ NewNode(kind, parent) \in NodeRecord /\ NewNode(kind, parent) # Null
         /\ \A x \in Name : NewNode(kind, parent).children[x] = Null
<1>1. NoChild \in [Name -> Node \cup {Null}] /\ \A x \in Name : NoChild[x] = Null
  BY DEF NoChild
<1>2. NewNode(kind, parent) \in NodeRecord
  BY <1>1 DEF NewNode, NodeRecord
<1> QED BY <1>1, <1>2, TreeAssumption DEF NewNode, NodeRecord

LEMMA InOnePlace ==
  ASSUME NEW t, Shape(t), NEW d \in Node, NEW e \in Node, NEW x \in Name, NEW y \in Name,
         t[d] # Null, t[e] # Null, t[d].children[x] # Null, t[d].children[x] = t[e].children[y]
  PROVE  d = e /\ x = y
BY DEF Shape

(* A child exists, in a directory, its parent if it is one itself.          *)
IsChild(t, d, c) ==
  /\ t[c] # Null /\ t[d].kind = "dir"
  /\ t[c].parent = IF t[c].kind = "dir" THEN d ELSE Null
  /\ d \notin BelowOf(t, {c})

LEMMA ChildIs ==
  ASSUME NEW t, Shape(t), NEW d \in Node, NEW x \in Name, t[d] # Null, t[d].children[x] # Null
  PROVE  IsChild(t, d, t[d].children[x])
BY DEF Shape, IsChild

LEMMA ShapeIs ==
  ASSUME NEW t, t \in Table,
         \A d \in Node, x \in Name : t[d] # Null /\ t[d].children[x] # Null =>
           LET c == t[d].children[x]
           IN  /\ t[c] # Null /\ t[d].kind = "dir"
               /\ t[c].parent = IF t[c].kind = "dir" THEN d ELSE Null
               /\ d \notin BelowOf(t, {c}),
         \A d, e \in Node, x, y \in Name :
           t[d] # Null /\ t[e] # Null /\ t[d].children[x] # Null
             /\ t[d].children[x] = t[e].children[y]
           => d = e /\ x = y
  PROVE  Shape(t)
BY DEF Shape

(* Nobody points to a node that does not exist.                             *)
LEMMA NobodyPointsTo ==
  ASSUME NEW t, NEW hd, NEW rt, NEW lim, SoundTree(t, hd, rt, lim), NEW n \in Node, t[n] = Null
  PROVE  /\ HandlesTo(hd, n) = 0 /\ rt # n /\ lim # n
         /\ \A d \in Node, x \in Name : t[d] # Null => t[d].children[x] # n
<1>0. n # Null
  BY TreeAssumption
<1>1. n \notin Roots(hd, rt, lim)
  BY DEF SoundTree
<1>2. rt # n /\ lim # n /\ \A h \in Handle : hd[h] # n
  BY <1>0, <1>1 DEF Roots
<1>3. {h \in Handle : hd[h] = n} = {}
  BY <1>2
<1>4. HandlesTo(hd, n) = 0
  BY <1>3, FS_EmptySet DEF HandlesTo
<1> QED BY <1>0, <1>2, <1>4 DEF SoundTree, Shape

LEMMA NewRootKeeps ==
  ASSUME NEW t, NEW hd, SoundTree(t, hd, Null, Null), NEW n \in Node, t[n] = Null
  PROVE  SoundTree(New(t, n, "dir", Null), hd, n, Null)
<1> DEFINE u == New(t, n, "dir", Null)
<1>0. Shape(t) /\ t \in Table /\ n # Null
  BY TreeAssumption DEF SoundTree, Shape
<1>1. u = [t EXCEPT ![n] = NewNode("dir", Null)]
  BY DEF New, NewNode
<1>2. /\ u \in Table /\ u[n] # Null /\ u[n].uses = 1 /\ \A x \in Name : u[n].children[x] = Null
      /\ \A m \in Node : m # n => u[m] = t[m]
  <2>1. NewNode("dir", Null) \in NodeRecord /\ NewNode("dir", Null) # Null
    BY NewNodeIs
  <2>2. u[n] = NewNode("dir", Null)
    BY <1>0, <1>1 DEF Table
  <2>3. u \in Table /\ \A m \in Node : m # n => u[m] = t[m]
    BY <1>0, <1>1, <2>1 DEF Table
  <2> QED BY <2>1, <2>2, <2>3, NewNodeIs DEF NewNode
<1>3. /\ HandlesTo(hd, n) = 0 /\ \A d \in Node, x \in Name : t[d] # Null => t[d].children[x] # n
  BY NobodyPointsTo
<1> HIDE DEF u
<1>4. \A s \in SUBSET Node : Closed(t, s) <=> Closed(u, s)
  <2> SUFFICES ASSUME NEW s \in SUBSET Node PROVE Closed(t, s) <=> Closed(u, s)
    OBVIOUS
  <2>1. \A d \in s, x \in Name :
          (t[d] # Null /\ t[d].children[x] # Null) <=> (u[d] # Null /\ u[d].children[x] # Null)
    BY <1>2
  <2>2. \A d \in s, x \in Name : t[d] # Null => u[d] = t[d]
    BY <1>2
  <2>3. \A d \in s, x \in Name : t[d] # Null => u[d].children[x] = t[d].children[x]
    BY <2>2
  <2> QED BY <2>1, <2>3 DEF Closed
<1>5. \A ns : BelowOf(u, ns) = BelowOf(t, ns)
  BY <1>4 DEF BelowOf
<1>6. Shape(u)
  <2>1. ASSUME NEW d \in Node, NEW x \in Name, u[d] # Null, u[d].children[x] # Null
        PROVE  LET c == u[d].children[x]
               IN  /\ u[c] # Null /\ u[d].kind = "dir"
                   /\ u[c].parent = IF u[c].kind = "dir" THEN d ELSE Null
                   /\ d \notin BelowOf(u, {c})
    <3>1. d # n /\ u[d] = t[d]
      BY <1>2, <2>1
    <3>2. PICK c \in Node : c = u[d].children[x]
      BY <1>2, <2>1 DEF Table, NodeRecord
    <3>3. /\ t[c] # Null /\ t[d].kind = "dir"
          /\ t[c].parent = IF t[c].kind = "dir" THEN d ELSE Null
          /\ d \notin BelowOf(t, {c})
      BY <1>0, <2>1, <3>1, <3>2 DEF Shape
    <3>4. u[c] = t[c]
      BY <1>2, <3>3
    <3>5. d \notin BelowOf(u, {c})
      BY <1>5, <3>3
    <3> QED BY <3>1, <3>2, <3>3, <3>4, <3>5
  <2>2. ASSUME NEW d \in Node, NEW e \in Node, NEW x \in Name, NEW y \in Name,
               u[d] # Null, u[e] # Null, u[d].children[x] # Null,
               u[d].children[x] = u[e].children[y]
        PROVE  d = e /\ x = y
    <3>1. u[d] = t[d] /\ u[e] = t[e]
      BY <1>2, <2>2
    <3> QED BY <1>0, <2>2, <3>1 DEF Shape
  <2> QED BY <1>2, <2>1, <2>2 DEF Shape
<1>7. hd \in [Handle -> Node \cup {Null}] /\ \A m \in Roots(hd, Null, Null) : t[m] # Null
  BY DEF SoundTree
<1>8. Roots(hd, n, Null) = Roots(hd, Null, Null) \cup {n} /\ Roots(hd, n, Null) \subseteq Node
  BY <1>0, <1>7 DEF Roots
<1>9. \A m \in Roots(hd, n, Null) : u[m] # Null
  BY <1>2, <1>7, <1>8
<1>10. ASSUME NEW m \in Node, u[m] # Null
       PROVE  /\ u[m].uses = HandlesTo(hd, m) + (IF n = m THEN 1 ELSE 0) + (IF Null = m THEN 1 ELSE 0)
                               + (IF PlacedIn(u, Node, m) THEN 1 ELSE 0)
              /\ m \in BelowOf(u, Roots(hd, n, Null))
  <2>0. Null # m /\ HandlesTo(hd, m) \in Nat
    BY TreeAssumption, HandlesAreCounted
  <2>1. CASE m = n
    <3>1. ~PlacedIn(u, Node, m)
      <4> SUFFICES ASSUME NEW d \in Node, NEW x \in Name, u[d] # Null, u[d].children[x] = n
                   PROVE  FALSE
        BY <2>1 DEF PlacedIn
      <4>1. d # n
        BY <1>0, <1>2
      <4> QED BY <1>2, <1>3, <4>1
    <3>2. m \in BelowOf(u, Roots(hd, n, Null))
      BY <1>8, <2>1, BelowHas
    <3> QED BY <1>2, <1>3, <2>0, <2>1, <3>1, <3>2
  <2>2. CASE m # n
    <3>1. u[m] = t[m] /\ t[m] # Null
      BY <1>2, <1>10, <2>2
    <3>2. PlacedIn(u, Node, m) <=> PlacedIn(t, Node, m)
      <4>1. \A d \in Node : u[d] # Null /\ d # n => t[d] # Null /\ t[d] = u[d]
        BY <1>2
      <4>2. \A d \in Node : t[d] # Null => u[d] # Null /\ t[d] = u[d]
        BY <1>2
      <4> QED BY <1>2, <2>0, <4>1, <4>2 DEF PlacedIn
    <3>3. /\ t[m].uses = HandlesTo(hd, m) + (IF Null = m THEN 1 ELSE 0) + (IF Null = m THEN 1 ELSE 0)
                           + (IF PlacedIn(t, Node, m) THEN 1 ELSE 0)
          /\ m \in BelowOf(t, Roots(hd, Null, Null))
      BY <3>1 DEF SoundTree
    <3>4. BelowOf(t, Roots(hd, Null, Null)) \subseteq BelowOf(t, Roots(hd, n, Null))
      BY <1>8, BelowGrows
    <3>5. m \in BelowOf(u, Roots(hd, n, Null))
      BY <1>5, <3>3, <3>4
    <3>6. u[m].uses = HandlesTo(hd, m) + (IF PlacedIn(u, Node, m) THEN 1 ELSE 0)
      BY <2>0, <3>1, <3>2, <3>3
    <3> QED BY <2>0, <2>2, <3>5, <3>6
  <2> QED BY <2>1, <2>2
<1> QED BY <1>6, <1>7, <1>9, <1>10 DEF SoundTree, u

LEMMA NewChildKeeps ==
  ASSUME NEW t, NEW hd, NEW rt, SoundTree(t, hd, rt, Null),
         NEW d \in Node, t[d] # Null, t[d].kind = "dir", NEW x \in Name, t[d].children[x] = Null,
         NEW n \in Node, t[n] = Null, NEW kind \in {"dir", "file"}
  PROVE  SoundTree([New(t, n, kind, IF kind = "dir" THEN d ELSE Null) EXCEPT ![d].children[x] = n],
               hd, rt, Null)
<1> DEFINE parent == IF kind = "dir" THEN d ELSE Null
           u == [New(t, n, kind, parent) EXCEPT ![d].children[x] = n]
           row == [t[d] EXCEPT !.children[x] = n]
<1>0. Shape(t) /\ t \in Table /\ n # Null /\ d # n /\ t[d] \in NodeRecord /\ parent \in Node \cup {Null}
  BY TreeAssumption DEF SoundTree, Shape, Table
<1>1. /\ row \in NodeRecord /\ row # Null /\ row.kind = "dir" /\ row.parent = t[d].parent
      /\ row.uses = t[d].uses /\ row.children[x] = n
      /\ \A y \in Name : y # x => row.children[y] = t[d].children[y]
  <2>1. row \in NodeRecord
    BY <1>0 DEF NodeRecord
  <2>2. row # Null
    BY <2>1, TreeAssumption DEF NodeRecord
  <2> QED BY <1>0, <2>1, <2>2 DEF NodeRecord
<1> HIDE DEF parent
<1>2. /\ New(t, n, kind, parent) \in Table /\ New(t, n, kind, parent)[n] = NewNode(kind, parent)
      /\ \A m \in Node : m # n => New(t, n, kind, parent)[m] = t[m]
  <2>1. NewNode(kind, parent) \in NodeRecord
    BY <1>0, NewNodeIs
  <2>2. New(t, n, kind, parent) = [t EXCEPT ![n] = NewNode(kind, parent)]
    BY DEF New, NewNode
  <2> QED BY <1>0, <2>1, <2>2 DEF Table
<1>3. u = [New(t, n, kind, parent) EXCEPT ![d] = row]
  BY <1>0, <1>2 DEF Table
<1> HIDE DEF row, u
<1>4. /\ u \in Table /\ u[d] = row /\ u[n] = NewNode(kind, parent)
      /\ \A m \in Node : m # n /\ m # d => u[m] = t[m]
  BY <1>0, <1>1, <1>2, <1>3 DEF Table
<1>5. /\ u[n] # Null /\ u[n].uses = 1 /\ u[n].kind = kind /\ u[n].parent = parent
      /\ \A y \in Name : u[n].children[y] = Null
  BY <1>0, <1>4, NewNodeIs DEF NewNode
<1>6. /\ HandlesTo(hd, n) = 0 /\ rt # n
      /\ \A e \in Node, y \in Name : t[e] # Null => t[e].children[y] # n
  BY NobodyPointsTo
<1>7. \A m \in Node : m # n =>
        /\ u[m] = Null <=> t[m] = Null
        /\ t[m] # Null =>
             /\ u[m].kind = t[m].kind /\ u[m].parent = t[m].parent /\ u[m].uses = t[m].uses
             /\ \A y \in Name : m # d \/ y # x => u[m].children[y] = t[m].children[y]
  BY <1>1, <1>4
<1>8. u[d].children[x] = n /\ u[d] # Null
  BY <1>1, <1>4
<1>9. \A s \in SUBSET Node : Closed(u, s) => Closed(t, s)
  <2> SUFFICES ASSUME NEW s \in SUBSET Node, Closed(u, s),
                      NEW e \in s, NEW y \in Name, t[e] # Null, t[e].children[y] # Null
               PROVE  t[e].children[y] \in s
    BY DEF Closed
  <2>1. e # n /\ u[e] # Null /\ u[e].children[y] = t[e].children[y]
    BY <1>7
  <2> QED BY <2>1 DEF Closed
<1>10. \A s \in SUBSET Node : Closed(t, s) => Closed(u, s \cup {n})
  <2> SUFFICES ASSUME NEW s \in SUBSET Node, Closed(t, s),
                      NEW e \in s \cup {n}, NEW y \in Name, u[e] # Null, u[e].children[y] # Null
               PROVE  u[e].children[y] \in s \cup {n}
    BY DEF Closed
  <2>1. CASE e = d /\ y = x
    BY <1>8, <2>1
  <2>2. CASE e # d \/ y # x
    <3>1. e # n
      BY <1>5
    <3>2. t[e] # Null /\ u[e].children[y] = t[e].children[y]
      BY <1>7, <2>2, <3>1
    <3> QED BY <3>1, <3>2 DEF Closed
  <2> QED BY <2>1, <2>2
<1>11. ASSUME NEW c \in Node, NEW e \in Node, e # n, e \notin BelowOf(t, {c})
       PROVE  e \notin BelowOf(u, {c})
  <2>1. BelowOf(t, {c}) \in SUBSET Node /\ Closed(t, BelowOf(t, {c})) /\ c \in BelowOf(t, {c})
    BY <1>0, BelowIsClosed, BelowHas
  <2>2. Closed(u, BelowOf(t, {c}) \cup {n})
    BY <1>10, <2>1
  <2>3. BelowOf(u, {c}) \subseteq BelowOf(t, {c}) \cup {n}
    BY <2>1, <2>2, BelowIsLeast
  <2> QED BY <1>11, <2>3
<1>12. d \notin BelowOf(u, {n})
  <2>1. Closed(u, {n})
    BY <1>5 DEF Closed
  <2>2. BelowOf(u, {n}) \subseteq {n}
    BY <2>1, BelowIsLeast
  <2> QED BY <1>0, <2>2
<1>13. Shape(u)
  <2>1. ASSUME NEW e \in Node, NEW y \in Name, u[e] # Null, u[e].children[y] # Null
        PROVE  LET c == u[e].children[y]
               IN  /\ u[c] # Null /\ u[e].kind = "dir"
                   /\ u[c].parent = IF u[c].kind = "dir" THEN e ELSE Null
                   /\ e \notin BelowOf(u, {c})
    <3>1. CASE e = d /\ y = x
      <4>1. u[d].kind = "dir"
        BY <1>1, <1>4
      <4> QED BY <1>5, <1>8, <1>12, <3>1, <4>1 DEF parent
    <3>2. CASE e # d \/ y # x
      <4>1. e # n
        BY <1>5, <2>1
      <4>2. t[e] # Null /\ u[e].children[y] = t[e].children[y] /\ u[e].kind = t[e].kind
        BY <1>7, <2>1, <3>2, <4>1
      <4>3. PICK c \in Node : c = u[e].children[y]
        BY <1>4, <2>1 DEF Table, NodeRecord
      <4>4. /\ t[c] # Null /\ t[e].kind = "dir"
            /\ t[c].parent = IF t[c].kind = "dir" THEN e ELSE Null
            /\ e \notin BelowOf(t, {c})
        BY <1>0, <2>1, <4>2, <4>3 DEF Shape
      <4>5. u[c] # Null /\ u[c].kind = t[c].kind /\ u[c].parent = t[c].parent
        BY <1>7, <4>4
      <4>6. e \notin BelowOf(u, {c})
        BY <1>11, <4>1, <4>4
      <4> QED BY <4>2, <4>3, <4>4, <4>5, <4>6
    <3> QED BY <3>1, <3>2
  <2>2. ASSUME NEW e \in Node, NEW f \in Node, NEW y \in Name, NEW z \in Name,
               u[e] # Null, u[f] # Null, u[e].children[y] # Null,
               u[e].children[y] = u[f].children[z]
        PROVE  e = f /\ y = z
    <3>1. e # n /\ f # n
      BY <1>5, <2>2
    <3>2. t[e] # Null /\ t[f] # Null
      BY <1>7, <2>2, <3>1
    <3>3. \A g \in Node, w \in Name : g # n /\ t[g] # Null /\ u[g].children[w] = n => g = d /\ w = x
      BY <1>6, <1>7
    <3>4. CASE u[e].children[y] = n
      BY <2>2, <3>1, <3>2, <3>3, <3>4
    <3>5. CASE u[e].children[y] # n
      <4>1. u[e].children[y] = t[e].children[y] /\ u[f].children[z] = t[f].children[z]
        BY <1>7, <1>8, <2>2, <3>1, <3>2, <3>5
      <4>2. t[e].children[y] # Null /\ t[e].children[y] = t[f].children[z]
        BY <2>2, <4>1
      <4> QED BY <1>0, <3>2, <4>2, InOnePlace
    <3> QED BY <3>4, <3>5
  <2>3. \A e, f \in Node, y, z \in Name :
          u[e] # Null /\ u[f] # Null /\ u[e].children[y] # Null
            /\ u[e].children[y] = u[f].children[z]
          => e = f /\ y = z
    BY <2>2
  <2>4. \A e \in Node, y \in Name : u[e] # Null /\ u[e].children[y] # Null =>
           LET c == u[e].children[y]
           IN  /\ u[c] # Null /\ u[e].kind = "dir"
               /\ u[c].parent = IF u[c].kind = "dir" THEN e ELSE Null
               /\ e \notin BelowOf(u, {c})
    BY <2>1
  <2>5. u \in Table
    BY <1>4
  <2> QED BY <2>3, <2>4, <2>5, ShapeIs
<1>14. /\ hd \in [Handle -> Node \cup {Null}] /\ rt \in Node \cup {Null}
       /\ \A m \in Roots(hd, rt, Null) : t[m] # Null
  BY DEF SoundTree
<1>15. Roots(hd, rt, Null) \subseteq Node
  BY <1>14 DEF Roots
<1>16. \A m \in Roots(hd, rt, Null) : u[m] # Null
  BY <1>7, <1>14, <1>15
<1>17. \A m \in Node : t[m] # Null => m \in BelowOf(u, Roots(hd, rt, Null))
  <2>1. BelowOf(t, Roots(hd, rt, Null)) \subseteq BelowOf(u, Roots(hd, rt, Null))
    BY <1>9, BelowShrinks
  <2> QED BY <2>1 DEF SoundTree
<1>18. n \in BelowOf(u, Roots(hd, rt, Null))
  BY <1>4, <1>8, <1>17, <1>0, BelowIsClosed DEF Closed
<1>19. ASSUME NEW m \in Node, u[m] # Null
       PROVE  /\ u[m].uses = HandlesTo(hd, m) + (IF rt = m THEN 1 ELSE 0) + (IF Null = m THEN 1 ELSE 0)
                               + (IF PlacedIn(u, Node, m) THEN 1 ELSE 0)
              /\ m \in BelowOf(u, Roots(hd, rt, Null))
  <2>0. Null # m /\ HandlesTo(hd, m) \in Nat
    BY TreeAssumption, HandlesAreCounted
  <2>1. CASE m = n
    <3>1. PlacedIn(u, Node, m)
      BY <1>8, <2>1 DEF PlacedIn
    <3> QED BY <1>5, <1>6, <1>18, <2>0, <2>1, <3>1
  <2>2. CASE m # n
    <3>1. t[m] # Null /\ u[m].uses = t[m].uses
      BY <1>7, <1>19, <2>2
    <3>2. PlacedIn(u, Node, m) <=> PlacedIn(t, Node, m)
      <4>1. ASSUME NEW e \in Node, NEW y \in Name, u[e] # Null, u[e].children[y] = m
            PROVE  t[e] # Null /\ t[e].children[y] = m
        <5>1. e # n /\ (e # d \/ y # x)
          BY <1>5, <1>8, <2>0, <2>2, <4>1
        <5> QED BY <1>7, <4>1, <5>1
      <4>2. ASSUME NEW e \in Node, NEW y \in Name, t[e] # Null, t[e].children[y] = m
            PROVE  u[e] # Null /\ u[e].children[y] = m
        <5>1. e # n /\ (e # d \/ y # x)
          BY <2>0, <4>2
        <5> QED BY <1>7, <4>2, <5>1
      <4> QED BY <4>1, <4>2 DEF PlacedIn
    <3>3. t[m].uses = HandlesTo(hd, m) + (IF rt = m THEN 1 ELSE 0) + (IF Null = m THEN 1 ELSE 0)
                        + (IF PlacedIn(t, Node, m) THEN 1 ELSE 0)
      BY <3>1 DEF SoundTree
    <3>4. m \in BelowOf(u, Roots(hd, rt, Null))
      BY <1>17, <3>1
    <3> QED BY <3>1, <3>2, <3>3, <3>4
  <2> QED BY <2>1, <2>2
<1> QED BY <1>13, <1>14, <1>16, <1>19 DEF SoundTree, u, parent

-----------------------------------------------------------------------------
(* A child that is taken out of its directory, and is still to be released. *)
LEMMA UnlinkKeeps ==
  ASSUME NEW t, NEW hd, NEW rt, SoundTree(t, hd, rt, Null),
         NEW d \in Node, t[d] # Null, NEW x \in Name, t[d].children[x] # Null
  PROVE  SoundTree([t EXCEPT ![d].children[x] = Null], hd, rt, t[d].children[x])
<1> DEFINE u == [t EXCEPT ![d].children[x] = Null]
           row == [t[d] EXCEPT !.children[x] = Null]
<1>0. Shape(t) /\ t \in Table /\ t[d] \in NodeRecord
  BY DEF SoundTree, Shape, Table
<1>1. PICK c \in Node : c = t[d].children[x]
  BY <1>0 DEF NodeRecord
<1>2. c # Null /\ t[c] # Null
  BY <1>0, <1>1, TreeAssumption DEF Shape
<1>3. /\ row \in NodeRecord /\ row # Null /\ row.kind = t[d].kind /\ row.parent = t[d].parent
      /\ row.uses = t[d].uses /\ row.children[x] = Null
      /\ \A y \in Name : y # x => row.children[y] = t[d].children[y]
  <2>1. row \in NodeRecord
    BY <1>0 DEF NodeRecord
  <2>2. row # Null
    BY <2>1, TreeAssumption DEF NodeRecord
  <2> QED BY <1>0, <2>1, <2>2 DEF NodeRecord
<1>4. u = [t EXCEPT ![d] = row]
  BY <1>0 DEF Table
<1> HIDE DEF row, u
<1>5. u \in Table /\ u[d] = row /\ \A m \in Node : m # d => u[m] = t[m]
  BY <1>0, <1>3, <1>4 DEF Table
<1>6. \A m \in Node :
        /\ u[m] = Null <=> t[m] = Null
        /\ t[m] # Null =>
             /\ u[m].kind = t[m].kind /\ u[m].parent = t[m].parent /\ u[m].uses = t[m].uses
             /\ \A y \in Name : m # d \/ y # x => u[m].children[y] = t[m].children[y]
  BY <1>3, <1>5
<1>7. u[d].children[x] = Null
  BY <1>3, <1>5
<1>8. \A s \in SUBSET Node : Closed(t, s) => Closed(u, s)
  <2> SUFFICES ASSUME NEW s \in SUBSET Node, Closed(t, s),
                      NEW e \in s, NEW y \in Name, u[e] # Null, u[e].children[y] # Null
               PROVE  u[e].children[y] \in s
    BY DEF Closed
  <2>1. t[e] # Null /\ u[e].children[y] = t[e].children[y]
    BY <1>6, <1>7
  <2> QED BY <2>1 DEF Closed
<1>9. \A ns : BelowOf(u, ns) \subseteq BelowOf(t, ns)
  BY <1>8, BelowShrinks
<1>10. Shape(u)
  <2>1. ASSUME NEW e \in Node, NEW y \in Name, u[e] # Null, u[e].children[y] # Null
        PROVE  LET b == u[e].children[y]
               IN  /\ u[b] # Null /\ u[e].kind = "dir"
                   /\ u[b].parent = IF u[b].kind = "dir" THEN e ELSE Null
                   /\ e \notin BelowOf(u, {b})
    <3>1. t[e] # Null /\ u[e].children[y] = t[e].children[y] /\ u[e].kind = t[e].kind
      BY <1>6, <1>7, <2>1
    <3>2. PICK b \in Node : b = u[e].children[y]
      BY <1>5, <2>1 DEF Table, NodeRecord
    <3>3. /\ t[b] # Null /\ t[e].kind = "dir"
          /\ t[b].parent = IF t[b].kind = "dir" THEN e ELSE Null
          /\ e \notin BelowOf(t, {b})
      <4>1. Shape(t) /\ t[e] # Null /\ t[e].children[y] # Null
        BY <1>0, <2>1, <3>1
      <4>2. IsChild(t, e, t[e].children[y])
        BY <4>1, ChildIs
      <4>3. t[e].children[y] = b
        BY <3>1, <3>2
      <4> QED BY <4>2, <4>3 DEF IsChild
    <3>4. u[b] # Null /\ u[b].kind = t[b].kind /\ u[b].parent = t[b].parent
      BY <1>6, <3>3
    <3>5. e \notin BelowOf(u, {b})
      BY <1>9, <3>3
    <3> QED BY <3>1, <3>2, <3>3, <3>4, <3>5
  <2>2. ASSUME NEW e \in Node, NEW f \in Node, NEW y \in Name, NEW z \in Name,
               u[e] # Null, u[f] # Null, u[e].children[y] # Null,
               u[e].children[y] = u[f].children[z]
        PROVE  e = f /\ y = z
    <3>1. /\ t[e] # Null /\ u[e].children[y] = t[e].children[y]
          /\ t[f] # Null /\ u[f].children[z] = t[f].children[z]
      BY <1>6, <1>7, <2>2
    <3>2. t[e].children[y] # Null /\ t[e].children[y] = t[f].children[z]
      BY <2>2, <3>1
    <3> QED BY <1>0, <3>1, <3>2, InOnePlace
  <2>3. \A e, f \in Node, y, z \in Name :
          u[e] # Null /\ u[f] # Null /\ u[e].children[y] # Null
            /\ u[e].children[y] = u[f].children[z]
          => e = f /\ y = z
    BY <2>2
  <2>4. \A e \in Node, y \in Name : u[e] # Null /\ u[e].children[y] # Null =>
           LET b == u[e].children[y]
           IN  /\ u[b] # Null /\ u[e].kind = "dir"
               /\ u[b].parent = IF u[b].kind = "dir" THEN e ELSE Null
               /\ e \notin BelowOf(u, {b})
    BY <2>1
  <2>5. u \in Table
    BY <1>5
  <2> QED BY <2>3, <2>4, <2>5, ShapeIs
<1>11. /\ hd \in [Handle -> Node \cup {Null}] /\ rt \in Node \cup {Null}
       /\ \A m \in Roots(hd, rt, Null) : t[m] # Null
  BY DEF SoundTree
<1>12. Roots(hd, rt, c) = Roots(hd, rt, Null) \cup {c} /\ Roots(hd, rt, c) \subseteq Node
  BY <1>2, <1>11 DEF Roots
<1>13. \A m \in Roots(hd, rt, c) : u[m] # Null
  BY <1>2, <1>6, <1>11, <1>12
<1>14. ASSUME NEW m \in Node, u[m] # Null
       PROVE  m \in BelowOf(u, Roots(hd, rt, c))
  <2> DEFINE s == BelowOf(u, Roots(hd, rt, c))
  <2>1. s \in SUBSET Node /\ Closed(u, s) /\ Roots(hd, rt, c) \subseteq s
    BY <1>5, <1>12, BelowIsClosed, BelowHas
  <2> HIDE DEF s
  <2>2. Closed(t, s)
    <3> SUFFICES ASSUME NEW e \in s, NEW y \in Name, t[e] # Null, t[e].children[y] # Null
                 PROVE  t[e].children[y] \in s
      BY DEF Closed
    <3>1. CASE e = d /\ y = x
      BY <1>1, <1>12, <2>1, <3>1
    <3>2. CASE e # d \/ y # x
      <4>1. u[e] # Null /\ u[e].children[y] = t[e].children[y]
        BY <1>6, <2>1, <3>2
      <4> QED BY <2>1, <4>1 DEF Closed
    <3> QED BY <3>1, <3>2
  <2>3. BelowOf(t, Roots(hd, rt, Null)) \subseteq s
    BY <1>12, <2>1, <2>2, BelowIsLeast
  <2>4. t[m] # Null
    BY <1>6, <1>14
  <2> QED BY <2>3, <2>4 DEF SoundTree, s
<1>15. ASSUME NEW m \in Node, u[m] # Null
       PROVE  u[m].uses = HandlesTo(hd, m) + (IF rt = m THEN 1 ELSE 0) + (IF c = m THEN 1 ELSE 0)
                            + (IF PlacedIn(u, Node, m) THEN 1 ELSE 0)
  <2>0. Null # m /\ HandlesTo(hd, m) \in Nat /\ t[m] # Null /\ u[m].uses = t[m].uses
    BY <1>6, <1>15, TreeAssumption, HandlesAreCounted
  <2>1. t[m].uses = HandlesTo(hd, m) + (IF rt = m THEN 1 ELSE 0) + (IF Null = m THEN 1 ELSE 0)
                      + (IF PlacedIn(t, Node, m) THEN 1 ELSE 0)
    BY <2>0 DEF SoundTree
  <2>2. u[m].uses = HandlesTo(hd, m) + (IF rt = m THEN 1 ELSE 0)
                      + (IF PlacedIn(t, Node, m) THEN 1 ELSE 0)
    BY <2>0, <2>1
  <2>3. CASE m = c
    <3>1. PlacedIn(t, Node, m)
      BY <1>1, <2>3 DEF PlacedIn
    <3>2. ASSUME NEW e \in Node, NEW y \in Name, u[e] # Null, u[e].children[y] = c PROVE FALSE
      <4>1. t[e] # Null /\ t[e].children[y] = c /\ (e # d \/ y # x)
        BY <1>2, <1>6, <1>7, <3>2
      <4> QED BY <1>0, <1>1, <1>2, <4>1, InOnePlace
    <3>3. ~PlacedIn(u, Node, m)
      BY <2>3, <3>2 DEF PlacedIn
    <3> QED BY <2>0, <2>2, <2>3, <3>1, <3>3
  <2>4. CASE m # c
    <3>1. ASSUME NEW e \in Node, NEW y \in Name, u[e] # Null, u[e].children[y] = m
          PROVE  t[e] # Null /\ t[e].children[y] = m
      BY <1>6, <1>7, <2>0, <3>1
    <3>2. ASSUME NEW e \in Node, NEW y \in Name, t[e] # Null, t[e].children[y] = m
          PROVE  u[e] # Null /\ u[e].children[y] = m
      BY <1>1, <1>6, <2>4, <3>2
    <3>3. PlacedIn(u, Node, m) <=> PlacedIn(t, Node, m)
      BY <3>1, <3>2 DEF PlacedIn
    <3> QED BY <2>0, <2>2, <2>4, <3>3
  <2> QED BY <2>3, <2>4
<1>16. c \in Node \cup {Null}
  OBVIOUS
<1>17. SoundTree(u, hd, rt, c)
  BY <1>10, <1>11, <1>13, <1>14, <1>15, <1>16 DEF SoundTree
<1> QED BY <1>1, <1>17 DEF u

-----------------------------------------------------------------------------
(* The client's operations.                                                 *)
TreeInv == SoundTree(node, handle, root, Null)

LEMMA TreeTypes ==
  ASSUME TreeInv
  PROVE  /\ root \in Node \cup {Null} /\ \A h \in Handle : handle[h] \in Node \cup {Null}
         /\ root # Null => node[root] # Null
         /\ \A h \in Handle : handle[h] # Null => node[handle[h]] # Null
         /\ node \in Table /\ Shape(node)
BY DEF TreeInv, SoundTree, Shape, Roots

LEMMA TreeStarts == TreeInit => TreeInv
<1> SUFFICES ASSUME TreeInit PROVE TreeInv
  OBVIOUS
<1>1. node \in Table /\ handle \in [Handle -> Node \cup {Null}] /\ root = Null
  BY DEF TreeInit, Table
<1>2. \A n \in Node : node[n] = Null
  BY DEF TreeInit
<1>3. Roots(handle, root, Null) = {}
  BY DEF TreeInit, Roots
<1>4. Shape(node)
  BY <1>1, <1>2 DEF Shape
<1> QED BY <1>1, <1>2, <1>3, <1>4 DEF TreeInv, SoundTree

LEMMA GetsRootKeeps ==
  ASSUME TreeInv, NEW h \in Handle, GetsRoot(h)
  PROVE  TreeInv'
<1>1. CASE root # Null /\ Assign(node, h, root) /\ UNCHANGED root
  <2>1. root \in Node /\ node[root] # Null
    BY <1>1, TreeTypes
  <2> QED BY <1>1, <2>1, AssignKeeps DEF TreeInv
<1>2. ASSUME root = Null, NEW n \in Unused, root' = n, Assign(New(node, n, "dir", Null), h, n)
      PROVE  TreeInv'
  <2>1. n \in Node /\ node[n] = Null
    BY DEF Unused
  <2>2. SoundTree(New(node, n, "dir", Null), handle, n, Null)
    BY <1>2, <2>1, NewRootKeeps DEF TreeInv
  <2>3. n \in Roots(handle, n, Null)
    BY <2>1, TreeAssumption DEF Roots
  <2>4. New(node, n, "dir", Null)[n] # Null
    BY <2>2, <2>3 DEF SoundTree
  <2> QED BY <1>2, <2>1, <2>2, <2>4, AssignKeeps DEF TreeInv
<1> QED BY <1>1, <1>2 DEF GetsRoot

LEMMA TreeAddsKeeps ==
  ASSUME TreeInv, NEW d, IsDir(d), d \in Node, NEW h \in Handle, NEW name \in Name \cup Special,
         NEW kind \in {"dir", "file"}, Adds(d, h, name, kind)
  PROVE  TreeInv'
<1>1. name \in Name /\ node[d] # Null /\ node[d].kind = "dir" /\ node[d].children[name] = Null
  BY DEF Adds, Taken, Child, IsDir, Exists
<1>2. PICK n \in Unused :
        Assign([New(node, n, kind, IF kind = "dir" THEN d ELSE Null) EXCEPT ![d].children[name] = n], h, n)
  BY DEF Adds
<1>3. n \in Node /\ node[n] = Null /\ n # d
  BY <1>1 DEF Unused
<1> DEFINE u == [New(node, n, kind, IF kind = "dir" THEN d ELSE Null) EXCEPT ![d].children[name] = n]
<1>4. SoundTree(u, handle, root, Null)
  BY <1>1, <1>3, NewChildKeeps DEF TreeInv
<1>5. u[n] # Null
  <2>1. New(node, n, kind, IF kind = "dir" THEN d ELSE Null) \in [Node -> NodeRecord \cup {Null}]
    <3>1. NewNode(kind, IF kind = "dir" THEN d ELSE Null) \in NodeRecord
      BY NewNodeIs
    <3> QED BY <3>1, TreeTypes DEF New, NewNode, Table
  <2>2. New(node, n, kind, IF kind = "dir" THEN d ELSE Null)[n] = NewNode(kind, IF kind = "dir" THEN d ELSE Null)
    BY <1>3, TreeTypes DEF New, NewNode, Table
  <2>3. u[n] = NewNode(kind, IF kind = "dir" THEN d ELSE Null)
    BY <1>3, <2>1, <2>2
  <2> QED BY <2>3, NewNodeIs
<1>6. root' = root
  BY DEF Adds
<1> HIDE DEF u
<1>7. Assign(u, h, n)
  BY <1>2 DEF u
<1>8. SoundTree(node', handle', root, Null)
  BY <1>3, <1>4, <1>5, <1>7, AssignKeeps
<1> QED BY <1>6, <1>8 DEF TreeInv

LEMMA TreeGetsKeeps ==
  ASSUME TreeInv, NEW d, NEW h \in Handle, NEW name, NEW kinds, IsDir(d), d \in Node,
         name \in Name \cup Special, Gets(d, h, name, kinds)
  PROVE  TreeInv'
<1> DEFINE n == Found(d, name)
           m == IF Exists(n) /\ node[n].kind \in kinds THEN n ELSE Null
<1>1. n \in Node \cup {Null}
  <2>1. node[d] \in NodeRecord
    BY TreeTypes DEF IsDir, Exists, Table
  <2>2. /\ node[d].parent \in Node \cup {Null} /\ Lock(node[d].parent) \in Node \cup {Null}
        /\ \A x \in Name : node[d].children[x] \in Node \cup {Null}
    BY <2>1 DEF NodeRecord, Lock
  <2>3. Child(d, name) \in Node \cup {Null}
    BY <2>2 DEF Child
  <2> QED BY <2>2, <2>3 DEF Found
<1>2. m = Null \/ (m \in Node /\ node[m] # Null)
  BY <1>1 DEF Exists
<1>3. Assign(node, h, m) /\ root' = root
  BY DEF Gets
<1> HIDE DEF m
<1> QED BY <1>2, <1>3, AssignKeeps DEF TreeInv

LEMMA TreeRemovesKeeps ==
  ASSUME TreeInv, NEW d, NEW name, IsDir(d), d \in Node, name \in Name \cup Special, Removes(d, name)
  PROVE  TreeInv'
<1>1. /\ name \in Name /\ node[d] # Null /\ Child(d, name) = node[d].children[name]
      /\ node[d].children[name] # Null
  BY DEF Removes, Child, IsDir, Exists
<1>2. SoundTree([node EXCEPT ![d].children[name] = Null], handle, root, node[d].children[name])
  BY <1>1, UnlinkKeeps DEF TreeInv
<1>3. SoundTree(node', handle, root, Null)
  BY <1>1, <1>2, ReleaseKeeps DEF Removes
<1> QED BY <1>3 DEF Removes, TreeInv

LEMMA NullKeeps ==
  ASSUME TreeInv, NEW h \in Handle, Assign(node, h, Null), root' = root
  PROVE  TreeInv'
BY AssignKeeps DEF TreeInv

LEMMA TreeStep == TreeInv /\ [TreeNext]_treeVars => TreeInv'
<1> SUFFICES ASSUME TreeInv, [TreeNext]_treeVars PROVE TreeInv'
  OBVIOUS
<1>1. CASE UNCHANGED treeVars
  BY <1>1 DEF treeVars, TreeInv
<1>2. ASSUME NEW h \in Handle, GetsRoot(h) PROVE TreeInv'
  BY <1>2, GetsRootKeeps
<1>3. ASSUME NEW h \in Handle, Drops(h) PROVE TreeInv'
  BY <1>3, NullKeeps DEF Drops
<1>4. ASSUME NEW h \in Handle, NEW g \in Handle, NEW name \in Name \cup Special, IsDir(handle[g]),
             \/ \E kind \in {"dir", "file"} : Adds(handle[g], h, name, kind)
             \/ \E kinds \in {{"dir"}, {"file"}, {"dir", "file"}} : Gets(handle[g], h, name, kinds)
             \/ AddsNot(handle[g], h, name)
             \/ Removes(handle[g], name) \/ RemovesNot(handle[g], name)
      PROVE  TreeInv'
  <2>1. handle[g] \in Node
    BY <1>4, TreeTypes DEF IsDir, Exists
  <2>2. ASSUME NEW kind \in {"dir", "file"}, Adds(handle[g], h, name, kind) PROVE TreeInv'
    BY <1>4, <2>1, <2>2, TreeAddsKeeps
  <2>3. ASSUME NEW kinds, Gets(handle[g], h, name, kinds) PROVE TreeInv'
    BY <1>4, <2>1, <2>3, TreeGetsKeeps
  <2>4. CASE AddsNot(handle[g], h, name)
    BY <2>4, NullKeeps DEF AddsNot
  <2>5. CASE Removes(handle[g], name)
    BY <1>4, <2>1, <2>5, TreeRemovesKeeps
  <2>6. CASE RemovesNot(handle[g], name)
    BY <2>6 DEF RemovesNot, treeVars, TreeInv
  <2> QED BY <1>4, <2>2, <2>3, <2>4, <2>5, <2>6
<1> QED BY <1>1, <1>2, <1>3, <1>4 DEF TreeNext

-----------------------------------------------------------------------------
LEMMA TreeInvIsSound == TreeInv => TreeIsSound
<1> SUFFICES ASSUME TreeInv PROVE TreeIsSound
  OBVIOUS
<1>1. Shape(node) /\ node \in Table /\ Null \notin Node
  BY TreeTypes, TreeAssumption
<1>2. ASSUME NEW d \in Node, NEW x \in Name, node[d] # Null, node[d].children[x] # Null
      PROVE  << d, x >> \in Places
  BY <1>1, <1>2 DEF Shape, Places, IsDir, Exists
<1>3. \A p \in Places : p[1] \in Node /\ p[2] \in Name /\ p = << p[1], p[2] >> /\ node[p[1]] # Null
  BY DEF Places, IsDir, Exists
<1>4. ASSUME NEW ns PROVE Below(ns) = BelowOf(node, ns)
  <2>1. ASSUME NEW s \in SUBSET Node
        PROVE  (\A p \in Places : p[1] \in s => node[p[1]].children[p[2]] \in s \cup {Null})
                 <=> Closed(node, s)
    <3>1. ASSUME Closed(node, s), NEW p \in Places, p[1] \in s
          PROVE  node[p[1]].children[p[2]] \in s \cup {Null}
      BY <1>3, <3>1 DEF Closed
    <3>2. ASSUME \A p \in Places : p[1] \in s => node[p[1]].children[p[2]] \in s \cup {Null},
                 NEW d \in s, NEW x \in Name, node[d] # Null, node[d].children[x] # Null
          PROVE  node[d].children[x] \in s
      <4>1. << d, x >> \in Places
        BY <1>2, <3>2
      <4>2. << d, x >>[1] = d /\ << d, x >>[2] = x
        OBVIOUS
      <4> QED BY <3>2, <4>1, <4>2
    <3> QED BY <3>1, <3>2 DEF Closed
  <2> QED BY <2>1 DEF Below, BelowOf
<1>5. ASSUME NEW n \in Node, Exists(n) PROVE node[n].uses = Uses(n)
  <2>1. node[n] # Null /\ Null # n /\ HandlesTo(handle, n) \in Nat
    BY <1>5, TreeAssumption, HandlesAreCounted DEF Exists
  <2>2. {p \in Places : node[p[1]].children[p[2]] = n} = PointersFrom(node, Node, n)
    <3>1. ASSUME NEW p \in Places, node[p[1]].children[p[2]] = n PROVE p \in PointersFrom(node, Node, n)
      BY <1>3, <3>1 DEF PointersFrom
    <3>2. ASSUME NEW p \in PointersFrom(node, Node, n)
          PROVE  p \in Places /\ node[p[1]].children[p[2]] = n
      <4>1. p \in Node \X Name /\ node[p[1]] # Null /\ node[p[1]].children[p[2]] = n
        BY DEF PointersFrom
      <4>2. p = << p[1], p[2] >> /\ p[1] \in Node /\ p[2] \in Name
        BY <4>1
      <4> QED BY <1>2, <2>1, <4>1, <4>2
    <3> QED BY <3>1, <3>2
  <2>3. Cardinality({p \in Places : node[p[1]].children[p[2]] = n})
          = IF PlacedIn(node, Node, n) THEN 1 ELSE 0
    BY <1>1, <2>2, PointersCount
  <2>4. node[n].uses = HandlesTo(handle, n) + (IF root = n THEN 1 ELSE 0) + (IF Null = n THEN 1 ELSE 0)
                         + (IF PlacedIn(node, Node, n) THEN 1 ELSE 0)
    BY <2>1 DEF TreeInv, SoundTree
  <2> QED BY <2>1, <2>3, <2>4 DEF Uses, HandlesTo
<1>6. {n \in Node : Exists(n)} = Below(({root} \cup {handle[h] : h \in Handle}) \ {Null})
  <2> DEFINE rs == Roots(handle, root, Null)
             exist == {n \in Node : Exists(n)}
  <2>1. ({root} \cup {handle[h] : h \in Handle}) \ {Null} = rs
    BY DEF Roots
  <2>2. exist \subseteq BelowOf(node, rs)
    BY DEF TreeInv, SoundTree, Exists
  <2>3. rs \subseteq exist
    BY TreeTypes DEF Roots, Exists
  <2>4. Closed(node, exist)
    <3> SUFFICES ASSUME NEW d \in exist, NEW x \in Name, node[d] # Null, node[d].children[x] # Null
                 PROVE  node[d].children[x] \in exist
      BY DEF Closed
    <3>1. node[d].children[x] \in Node
      BY <1>1 DEF Table, NodeRecord
    <3> QED BY <1>1, <3>1 DEF Shape, Exists
  <2>5. exist \in SUBSET Node
    OBVIOUS
  <2> HIDE DEF exist, rs
  <2>6. BelowOf(node, rs) \subseteq exist
    BY <2>3, <2>4, <2>5, BelowIsLeast
  <2> QED BY <1>4, <2>1, <2>2, <2>6 DEF exist
<1>7. ASSUME NEW p \in Places, node[p[1]].children[p[2]] # Null
      PROVE  LET c == node[p[1]].children[p[2]]
             IN  /\ Exists(c) /\ node[c].parent = IF IsDir(c) THEN p[1] ELSE Null
                 /\ \A q \in Places : node[q[1]].children[q[2]] = c => q = p
                 /\ p[1] \notin Below({c})
  <2>1. p[1] \in Node /\ p[2] \in Name /\ p = << p[1], p[2] >> /\ node[p[1]] # Null
    BY <1>3
  <2>2. PICK c : c = node[p[1]].children[p[2]]
    OBVIOUS
  <2>3. /\ c # Null /\ node[c] # Null
        /\ node[c].parent = IF node[c].kind = "dir" THEN p[1] ELSE Null
        /\ p[1] \notin BelowOf(node, {c})
    BY <1>1, <1>7, <2>1, <2>2 DEF Shape
  <2>4. ASSUME NEW q \in Places, node[q[1]].children[q[2]] = c PROVE q = p
    <3>1. q[1] \in Node /\ q[2] \in Name /\ q = << q[1], q[2] >> /\ node[q[1]] # Null
      BY <1>3
    <3>2. q[1] = p[1] /\ q[2] = p[2]
      BY <1>1, <1>7, <2>1, <2>2, <2>4, <3>1, InOnePlace
    <3> QED BY <2>1, <3>1, <3>2
  <2> QED BY <1>4, <2>2, <2>3, <2>4 DEF Exists, IsDir
<1> QED BY <1>5, <1>6, <1>7 DEF TreeIsSound, OnlyReachableExist, UpIsWhereItIs

(* Whatever directories and files a client adds, finds, holds and removes,  *)
(* and in whatever order it lets them go: what exists is what can be        *)
(* reached, each counted right, and nothing is in two places or below       *)
(* itself.                                                                  *)
THEOREM TreeIsSoundHolds == TreeSpec => []TreeIsSound
BY TreeStarts, TreeStep, TreeInvIsSound, PTL DEF TreeSpec
=============================================================================
