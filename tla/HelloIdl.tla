------------------------------- MODULE HelloIdl -------------------------------
(***************************************************************************)
(* HelloWorld of the IDL example and its HelloWorldPubSubType: a type that *)
(* knows the largest payload it can have.  Its string is written with its  *)
(* length and its terminating zero; the size fastddsgen assumes for it is  *)
(* that of 255 characters, longer ones do not fit.                         *)
(***************************************************************************)
EXTENDS Naturals

CONSTANTS
  Text,         \* the strings
  EmptyText,    \* ""
  TextLength    \* their lengths

MaxString == 255
EncapsulationSize == 4

Message == [index : Nat, message : Text]

HelloWorld == [index |-> 0, message |-> EmptyText]

set_index(data, value)   == [data EXCEPT !.index = value]
set_message(data, value) == [data EXCEPT !.message = value]

\* operator=
Assign(to, from) == set_message(set_index(to, from.index), from.message)

\* Cdr::alignment: padding before the next item.
alignment(current, size) == (size - (current % size)) % size

Aligned4(current, bytes) == current + 4 + alignment(current, 4) + bytes

getMaxCdrSerializedSize == Aligned4(Aligned4(0, 0), MaxString + 1)

getCdrSerializedSize(data) ==
  Aligned4(Aligned4(0, 0), TextLength[data.message] + 1)

\* What the two operator<< of serialize(Cdr) write.
CdrWritten(data) == 4 + (4 + TextLength[data.message] + 1)

m_typeSize == getMaxCdrSerializedSize + EncapsulationSize

getSerializedSizeProvider(data) == getCdrSerializedSize(data) + EncapsulationSize

\* serialize(): a payload that is too small keeps its length, 0.
Fits(data, max_size) == EncapsulationSize + CdrWritten(data) <= max_size

serialize(data, max_size) ==
  IF Fits(data, max_size)
  THEN [result |-> TRUE, body |-> <<data>>,
        length |-> EncapsulationSize + CdrWritten(data)]
  ELSE [result |-> FALSE, body |-> <<>>, length |-> 0]

\* deserialize(): reading beyond the payload is NotEnoughMemory.
CanDeserialize(body, length) ==
  body # <<>> /\ EncapsulationSize + CdrWritten(body[1]) <= length

deserialize(body) == Assign(HelloWorld, body[1])

=============================================================================
