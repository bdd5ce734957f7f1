------------------------------ MODULE PipeBytes -----------------------------
(***************************************************************************)
(* The bytes behind the messages of both versions: lab3/Serializable.h and *)
(* .cpp, MapperInput.h, ReducerInput.h, Result.h, and the framing of       *)
(* Pipe::read().                                                           *)
(* A pipe is a stream of bytes; that it behaves as the queue of messages   *)
(* of the module Pipes rests on the layout of what is written into it.     *)
(*                                                                         *)
(* A number of type size_t takes SizeT bytes, of which the first stands    *)
(* for the number: the machine that writes it reads it.  Keys and values   *)
(* are strings, as in the search for attacks.                              *)
(***************************************************************************)
EXTENDS SyncMapReduce

CONSTANTS
  SizeT,      \* sizeof(std::size_t)
  Text        \* Text[s]: the bytes of a line or a key

ASSUME SizeTAssumption == SizeT \in Nat \ {0}

(* serialize_binary_size(), and n bytes from the p-th on; what follows the  *)
(* last byte is taken to be zero.                                          *)
Size(n) == [i \in 1 .. SizeT |-> IF i = 1 THEN n ELSE 0]

Bytes(s, p, n) == [i \in 1 .. n |-> IF p + i - 1 \in DOMAIN s THEN s[p + i - 1] ELSE 0]

SizeAt(s, p) == Bytes(s, p, SizeT)[1]

-----------------------------------------------------------------------------
(* serialize_binary_attribute<std::string>(), and its inverse.              *)
Attribute(string) == Size(Len(string)) \o string

AttributeAt(s, p) == Bytes(s, p + SizeT, SizeAt(s, p))

(* MapperInput, Result and ReducerInput: serializeBinary() and              *)
(* deserializeBinary().  Each begins with its size, which does not count    *)
(* itself and is added up from its parts.                                  *)
InputBytes(line) == Size(SizeT + Len(Text[line])) \o Attribute(Text[line])

ResultOfOneSize(r) ==    \* variant: the size of the value's size is left out
  Size(SizeT + Len(Text[r.key]) + Len(r.value)) \o Attribute(Text[r.key]) \o Attribute(r.value)

ResultBytes(r) ==
  Size(2 * SizeT + Len(Text[r.key]) + Len(r.value))
    \o Attribute(Text[r.key]) \o Attribute(r.value)

ReducerInputBytes(r) ==
  Size(3 * SizeT + Len(Text[r.key]) + Len(<< r.value >>) + Len(r.acc))
    \o Attribute(Text[r.key]) \o Attribute(<< r.value >>) \o Attribute(r.acc)

InputAt(s, p) == AttributeAt(s, p + SizeT)

ResultAt(s, p) ==
  LET key == AttributeAt(s, p + SizeT)
  IN  << key, AttributeAt(s, p + SizeT + SizeT + Len(key)) >>

ReducerInputAt(s, p) ==
  LET result == ResultAt(s, p)
  IN  result \o << AttributeAt(s, p + SizeT + SizeT + Len(result[1]) + SizeT + Len(result[2])) >>

(* Where the object behind the one at p begins.                             *)
After(s, p) == p + SizeT + SizeAt(s, p)

-----------------------------------------------------------------------------
(* Where the objects begin that are read one after the other from the      *)
(* first byte on, as long as they begin before the byte end.                *)
Starts(s, first, end) ==
  LET from[p \in Nat] == IF p < end THEN << p >> \o from[After(s, p)] ELSE << >>
  IN  from[first]

(* Pipe::read() until the pipe is empty.                                    *)
ReadStarts(s) == Starts(s, 1, Len(s) + 1)

InputsRead(s) == [i \in DOMAIN ReadStarts(s) |-> InputAt(s, ReadStarts(s)[i])]

ResultsRead(s) == [i \in DOMAIN ReadStarts(s) |-> ResultAt(s, ReadStarts(s)[i])]

ReducerInputsRead(s) == [i \in DOMAIN ReadStarts(s) |-> ReducerInputAt(s, ReadStarts(s)[i])]

(* serialize_binary() and deserialize_binary() of a vector.  The total does *)
(* not count its own bytes, but the bytes used, p - 1, do.                  *)
VectorBytes(objects) == Size(Len(FlattenSeq(objects))) \o FlattenSeq(objects)

VectorStarts(s) == Starts(s, 1 + SizeT, SizeAt(s, 1) + 1)

InputsOfVector(s) == [i \in DOMAIN VectorStarts(s) |-> InputAt(s, VectorStarts(s)[i])]

ResultsOfVector(s) == [i \in DOMAIN VectorStarts(s) |-> ResultAt(s, VectorStarts(s)[i])]

VectorsRead(s) ==
  [i \in DOMAIN ReadStarts(s) |->
     ResultsOfVector(SubSeq(s, ReadStarts(s)[i], After(s, ReadStarts(s)[i]) - 1))]

-----------------------------------------------------------------------------
(* The values of accumulators are strings, those of the mapper's results    *)
(* strings of one address.                                                  *)
Single(r) == [key |-> r.key, value |-> << r.value >>]

Stream(x) ==
  FlattenSeq([i \in DOMAIN content[x] |->
    LET m == content[x][i] IN
      CASE x = "cm" -> InputBytes(m)
        [] x = "rc" -> ResultBytes(m)
        [] version = "multiplexed" /\ x \in {"mc", "cr"} -> ResultBytes(Single(m))
        [] version = "synchronous" /\ x = "mc" ->
             VectorBytes([n \in DOMAIN m |-> ResultBytes(Single(m[n]))])
        [] version = "synchronous" /\ x = "cr" -> ReducerInputBytes(m)])

Plain(r) == << Text[r.key], r.value >>

Mapped == [i \in DOMAIN content["mc"] |->
             [n \in DOMAIN content["mc"][i] |-> Plain(Single(content["mc"][i][n]))]]

ToReduce == [i \in DOMAIN content["cr"] |->
               Plain(Single(content["cr"][i])) \o << content["cr"][i].acc >>]

\* Whatever is in the pipes, or on its way into one, the bytes are read back as the messages that were
\* written, one for one, although messages have different lengths and only
\* their first bytes tell where they end (Pipe.cpp 34-46).  So are the vectors
\* of the synchronous version and one of the lines to come, although the loop of
\* deserialize_binary() compares a total without the first bytes with a count
\* that has them: the objects, of two sizes at least, are longer than what the
\* two differ by (Serializable.h 160-178).
BytesAreReadBack ==
  /\ InputsRead(Stream("cm")) = [i \in DOMAIN content["cm"] |-> Text[content["cm"][i]]]
  /\ ResultsRead(Stream("rc")) = [i \in DOMAIN content["rc"] |-> Plain(content["rc"][i])]
  /\ version = "multiplexed" => \A x \in {"mc", "cr"} :
       ResultsRead(Stream(x)) = [i \in DOMAIN content[x] |-> Plain(Single(content[x][i]))]
  /\ version = "synchronous" => /\ VectorsRead(Stream("mc")) = Mapped
                                /\ ReducerInputsRead(Stream("cr")) = ToReduce
  /\ InputsOfVector(VectorBytes([i \in DOMAIN unread |-> InputBytes(unread[i])]))
       = [i \in DOMAIN unread |-> Text[unread[i]]]
=============================================================================
