---------------------------- MODULE MessageStore ----------------------------
(***************************************************************************)
(* lab1: MessageStore.cpp, an array of messages, and the objects of        *)
(* Message.cpp, each of which owns a block of memory with its text.        *)
(*                                                                         *)
(* A text is made once, with the identifier, and only copied or moved      *)
(* afterwards: the block holds the identifier in its place.  Messages are  *)
(* in the variables of a client, which calls the operations of both        *)
(* classes in any order, and in the array.  A message that was moved from  *)
(* keeps its identifier and loses its block (Message.cpp 76-80, 97-107,    *)
(* the variant without COPY_SWAP, which is the one compiled).              *)
(***************************************************************************)
EXTENDS Integers, Sequences, FiniteSets

CONSTANTS
  Var,        \* variables of the client
  Block,      \* memory for texts; bound: the client stops when it is used up
  N,          \* the increment of the array
  MaxId,      \* bound on the identifiers
  MaxDim,     \* bound on the size of the array
  None

INVALID_ID == -1

ASSUME StoreAssumption ==
  /\ N \in Nat \ {0} /\ MaxId \in Nat /\ IsFiniteSet(Var)
  /\ None \notin Block /\ None \notin Nat
  /\ None \notin [id : Int, data : Block \cup {None}]

VARIABLES
  object,     \* the message in each variable, None outside its lifetime
  messages,   \* the array
  heap,       \* the text in each block, None when it is not allocated
  nextId,
  count,      \* instances of Message
  answer,     \* what the last call of the store returned
  alive       \* FALSE once a null pointer has been read

storeVars == << object, messages, heap, nextId, count, answer, alive >>

Default == [id |-> INVALID_ID, data |-> None]

Valid(m) == m.id # INVALID_ID

Lives(v) == object[v] # None

MovedFrom(m) == [m EXCEPT !.data = None]

(* new char[] and delete[], which does nothing to a null pointer.           *)
Free(h) == {b \in Block : h[b] = None}

Delete(h, data) == IF data = None THEN h ELSE [h EXCEPT ![data] = None]

Copied(m, b) == [m EXCEPT !.data = b]

StoreInit ==
  /\ object = [v \in Var |-> None]
  /\ messages = [i \in 1 .. N |-> Default]
  /\ heap = [b \in Block |-> None]
  /\ nextId = 0
  /\ count = N
  /\ answer = << >>
  /\ alive = TRUE

-----------------------------------------------------------------------------
(* The special members of Message.                                          *)
Constructs(v) ==
  /\ ~Lives(v) /\ nextId < MaxId
  /\ \E b \in Free(heap) :
       /\ object' = [object EXCEPT ![v] = [id |-> nextId, data |-> b]]
       /\ heap' = [heap EXCEPT ![b] = nextId]
  /\ nextId' = nextId + 1 /\ count' = count + 1
  /\ UNCHANGED << messages, answer, alive >>

DefaultConstructs(v) ==
  /\ ~Lives(v)
  /\ object' = [object EXCEPT ![v] = Default]
  /\ count' = count + 1
  /\ UNCHANGED << messages, heap, nextId, answer, alive >>

CopyConstructs(v, w) ==
  /\ ~Lives(v) /\ Lives(w) /\ object[w].data # None
  /\ \E b \in Free(heap) :
       /\ object' = [object EXCEPT ![v] = Copied(object[w], b)]
       /\ heap' = [heap EXCEPT ![b] = heap[object[w].data]]
  /\ count' = count + 1
  /\ UNCHANGED << messages, nextId, answer, alive >>

MoveConstructs(v, w) ==
  /\ ~Lives(v) /\ Lives(w)
  /\ object' = [object EXCEPT ![v] = object[w], ![w] = MovedFrom(object[w])]
  /\ count' = count + 1
  /\ UNCHANGED << messages, heap, nextId, answer, alive >>

CopyAssignsShared(v, w) ==    \* variant: the pointer is copied
  /\ Lives(v) /\ Lives(w) /\ v # w /\ object[w].data # None
  /\ object' = [object EXCEPT ![v] = object[w]]
  /\ heap' = Delete(heap, object[v].data)
  /\ UNCHANGED << messages, nextId, count, answer, alive >>

CopyAssigns(v, w) ==
  /\ Lives(v) /\ Lives(w) /\ v # w /\ object[w].data # None
  /\ LET freed == Delete(heap, object[v].data)
     IN \E b \in Free(freed) :
          /\ object' = [object EXCEPT ![v] = Copied(object[w], b)]
          /\ heap' = [freed EXCEPT ![b] = freed[object[w].data]]
  /\ UNCHANGED << messages, nextId, count, answer, alive >>

MoveAssigns(v, w) ==
  /\ Lives(v) /\ Lives(w) /\ v # w
  /\ object' = [object EXCEPT ![v] = object[w], ![w] = MovedFrom(object[w])]
  /\ heap' = Delete(heap, object[v].data)
  /\ UNCHANGED << messages, nextId, count, answer, alive >>

Destroys(v) ==
  /\ Lives(v)
  /\ object' = [object EXCEPT ![v] = None]
  /\ heap' = Delete(heap, object[v].data)
  /\ count' = count - 1
  /\ UNCHANGED << messages, nextId, answer, alive >>

(* A copy of a message without a block, a default one included, reads a     *)
(* null pointer; so does operator<< if the identifier is not INVALID_ID,    *)
(* and get() if the store was given a message that had been moved from.     *)
ReadsNull ==
  /\ \/ \E v \in Var : Lives(v) /\ object[v].data = None
     \/ \E i \in DOMAIN messages : Valid(messages[i]) /\ messages[i].data = None
  /\ alive' = FALSE
  /\ UNCHANGED << object, messages, heap, nextId, count, answer >>

-----------------------------------------------------------------------------
PlacesOf(id) == {i \in DOMAIN messages : messages[i].id = id}

ValidPlaces == {i \in DOMAIN messages : Valid(messages[i])}

(* find_message_pos(): the first place, or 0 instead of -1.                 *)
FindMessagePos(id) ==
  IF PlacesOf(id) = {} THEN 0
  ELSE CHOOSE i \in PlacesOf(id) : \A k \in PlacesOf(id) : i <= k

(* reallocate(): the valid messages are moved, in their order, to the front *)
(* of an array of default ones; the others are destroyed with the old one.  *)
FreePos(i) == Cardinality({k \in ValidPlaces : k <= i})

Reallocated(dim) ==
  [j \in 1 .. dim |->
     IF \E i \in ValidPlaces : FreePos(i) = j
     THEN messages[CHOOSE i \in ValidPlaces : FreePos(i) = j] ELSE Default]

(* add(std::move(m)): the parameter takes the message over, and what it     *)
(* holds in the end, the message overwritten, is destroyed.  A message that *)
(* is not valid is left out; it has no block.                               *)
AddsMessageFirstFree(v) ==    \* variant: no search for a message with the same identifier
  /\ Lives(v) /\ Valid(object[v])
  /\ LET free == FindMessagePos(INVALID_ID)
         array == IF free # 0 THEN messages ELSE Reallocated(Len(messages) + N)
         to == IF free # 0 THEN free ELSE Len(messages) + 1
     IN /\ Len(array) <= MaxDim
        /\ messages' = [array EXCEPT ![to] = object[v]]
        /\ heap' = Delete(heap, array[to].data)
        /\ count' = count + Len(array) - Len(messages)
  /\ object' = [object EXCEPT ![v] = MovedFrom(object[v])]
  /\ UNCHANGED << nextId, answer, alive >>

AddsMessage(v) ==
  /\ Lives(v) /\ Valid(object[v])
  /\ LET known == FindMessagePos(object[v].id)
         free == FindMessagePos(INVALID_ID)
         array == IF known + free # 0 THEN messages ELSE Reallocated(Len(messages) + N)
         to == IF known # 0 THEN known ELSE IF free # 0 THEN free ELSE Len(messages) + 1
     IN /\ Len(array) <= MaxDim
        /\ messages' = [array EXCEPT ![to] = object[v]]
        /\ heap' = Delete(heap, array[to].data)
        /\ count' = count + Len(array) - Len(messages)
  /\ object' = [object EXCEPT ![v] = MovedFrom(object[v])]
  /\ UNCHANGED << nextId, answer, alive >>

AddsNothing(v) == Lives(v) /\ ~Valid(object[v]) /\ UNCHANGED storeVars

(* get(): a copy, which the client keeps in v.                              *)
GetsCopy(v, id) ==
  /\ ~Lives(v)
  /\ LET pos == FindMessagePos(id) IN
       \/ /\ pos = 0 /\ answer' = << "get", "absent" >>
          /\ UNCHANGED << object, heap, count >>
       \/ /\ pos # 0 /\ messages[pos].data # None
          /\ answer' = << "get", "whole" >>
          /\ \E b \in Free(heap) :
               /\ object' = [object EXCEPT ![v] = Copied(messages[pos], b)]
               /\ heap' = [heap EXCEPT ![b] = heap[messages[pos].data]]
          /\ count' = count + 1
  /\ UNCHANGED << messages, nextId, alive >>

RemovesMessage(id) ==
  /\ LET pos == FindMessagePos(id) IN
       \/ /\ pos = 0 /\ answer' = << "remove", "false" >>
          /\ UNCHANGED << messages, heap >>
       \/ /\ pos # 0 /\ answer' = << "remove", "true" >>
          /\ messages' = [messages EXCEPT ![pos] = Default]
          /\ heap' = Delete(heap, messages[pos].data)
  /\ UNCHANGED << object, nextId, count, alive >>

Stats == << Cardinality(ValidPlaces), Cardinality(PlacesOf(INVALID_ID)) >>

TellsStats ==
  /\ answer' = << "stats", Stats[1], Stats[2] >>
  /\ UNCHANGED << object, messages, heap, nextId, count, alive >>

NewDim == IF Stats[1] % N = 0 THEN Stats[1] ELSE (Stats[1] \div N + 1) * N

Compacts ==
  /\ messages' = Reallocated(NewDim)
  /\ count' = count + NewDim - Len(messages)
  /\ UNCHANGED << object, heap, nextId, answer, alive >>

StoreNext ==
  /\ alive
  /\ \/ \E v \in Var :
          \/ Constructs(v) \/ DefaultConstructs(v) \/ Destroys(v)
          \/ \E w \in Var : CopyConstructs(v, w) \/ MoveConstructs(v, w)
          \/ \E w \in Var : CopyAssigns(v, w) \/ MoveAssigns(v, w)
          \/ AddsMessage(v) \/ AddsNothing(v)
          \/ \E id \in 0 .. MaxId - 1 : GetsCopy(v, id)
     \/ \E id \in 0 .. MaxId - 1 : RemovesMessage(id)
     \/ TellsStats \/ Compacts \/ ReadsNull

StoreSpec == StoreInit /\ [][StoreNext]_storeVars

-----------------------------------------------------------------------------
(* The owners of a block are variables and places of the array.             *)
VarOwners(b) == {v \in Var : Lives(v) /\ object[v].data = b}

PlaceOwners(b) == {i \in DOMAIN messages : messages[i].data = b}

\* Whatever is copied, moved, overwritten, reallocated or used after it was
\* moved from, each block has one owner while it is allocated and none
\* afterwards: nothing is leaked, deleted twice or used after its deletion; a
\* message that has a text has its own; and count is the number of messages.
TextsAreOwned ==
  /\ \A b \in Block :
       Cardinality(VarOwners(b)) + Cardinality(PlaceOwners(b)) = IF heap[b] = None THEN 0 ELSE 1
  /\ \A v \in Var : Lives(v) /\ object[v].data # None => heap[object[v].data] = object[v].id
  /\ \A i \in DOMAIN messages :
       messages[i].data # None => heap[messages[i].data] = messages[i].id
  /\ count = Cardinality({v \in Var : Lives(v)}) + Len(messages)

Entry(id) ==
  IF FindMessagePos(id) = 0 THEN "absent"
  ELSE IF messages[FindMessagePos(id)].data = None THEN "hollow" ELSE "whole"

Dict == INSTANCE Dictionary WITH
  Id <- 0 .. MaxId - 1, dict <- [id \in 0 .. MaxId - 1 |-> Entry(id)], room <- Len(messages)

\* The array is a dictionary: no identifier is in it twice, also when the
\* message with that identifier is removed, another takes its place and the
\* first is added again; growing and compacting lose nothing and leave as many
\* places as said; and stats() counts what is there.
ImplementsDictionary == Dict!Spec
=============================================================================
