--------------------------- MODULE CircularBuffer ---------------------------
(***************************************************************************)
(* lab4/CircularBuffer.h: a ring of Size = Requested + 1 slots with two    *)
(* indices that are normalised at different moments.  tail is reduced      *)
(* right after it is incremented, so it lies in 0 .. Size-1; head is       *)
(* reduced just before it is used, so between calls it lies in 1 .. Size   *)
(* (and is Size, not 0, when freshly built).  empty() and full() depend on *)
(* that asymmetry: one slot is always unused.                              *)
(*                                                                         *)
(* The class does no checks of its own: put() and get() are called by      *)
(* Jobs (lab4/Jobs.h:29-30, 37-39) only when full() and empty() are false; *)
(* these are the guards below.  All indices are at most Requested + 1, so  *)
(* unsigned arithmetic does not wrap for a Requested below UINT_MAX.       *)
(***************************************************************************)
EXTENDS Naturals, Sequences

CONSTANTS
  Item,       \* the values stored
  Blank,      \* T(), what the slots of the new std::vector hold
  Requested   \* the constructor's argument

ASSUME RequestedAssumption == Requested \in Nat

VARIABLES buffer, head, tail

ringVars == << buffer, head, tail >>

Size == Requested + 1

Slot == 0 .. Size - 1

(* Variant: both indices start at 0.                                        *)
InitAtZero ==
  /\ buffer = [i \in Slot |-> Blank]
  /\ head = 0
  /\ tail = 0

RingInit ==
  /\ buffer = [i \in Slot |-> Blank]
  /\ head = Size
  /\ tail = 0

(* Variant: the indices are compared as they are.                           *)
EmptyAsStored == head = tail

Empty == head % Size = tail

Full == head = tail + 1

Put(x) ==
  /\ ~Full
  /\ buffer' = [buffer EXCEPT ![tail] = x]
  /\ tail' = (tail + 1) % Size
  /\ UNCHANGED head

Front == buffer[head % Size]    \* what get() returns

Get ==
  /\ ~Empty
  /\ head' = (head % Size) + 1
  /\ UNCHANGED << buffer, tail >>

RingNext == Get \/ \E x \in Item : Put(x)

RingSpec == RingInit /\ [][RingNext]_ringVars

-----------------------------------------------------------------------------
(* The sequence of items the ring holds, oldest first.                     *)
First == head % Size

Count == IF First <= tail THEN tail - First ELSE Size - First + tail

At(i) == IF First + i <= Size THEN First + i - 1 ELSE First + i - 1 - Size

Contents == [i \in 1 .. Count |-> buffer[At(i)]]

Fifo == INSTANCE BoundedFifo WITH queue <- Contents, Capacity <- Requested

\* Both indices stay in the ranges on which empty() and full() are right, and
\* every slot between them holds an item that was put (never T()).
RingTypeOK ==
  /\ buffer \in [Slot -> Item \cup {Blank}]
  /\ head \in 1 .. Size
  /\ tail \in Slot
  /\ Contents \in Seq(Item)

\* empty() and full() answer for the number of items inside although the two
\* indices are compared without being normalised the same way: a ring built
\* for Requested items refuses the next one exactly at Requested, and get()
\* returns the item that has been inside longest.
ObserversAreExact ==
  /\ Empty <=> Count = 0
  /\ Full <=> Count = Requested
  /\ ~Empty => Front = Head(Contents)

\* The ring is a first-in first-out buffer of Requested items, across any
\* number of turns of the two indices.
FifoSpec == Fifo!Spec
=============================================================================
