------------------------------- MODULE ProtoWire -------------------------------
(***************************************************************************)
(* What the protobuf library does for the code protoc generates: the bytes *)
(* of a value, and a message on the wire, which is the sequence of its     *)
(* fields.  Bytes are counted and not spelled; a text is known by its      *)
(* length alone.                                                           *)
(*                                                                         *)
(* proto3 does not distinguish a field that was never set from one that    *)
(* was set to its default, 0 or the empty string: merging skips it and it  *)
(* is not on the wire.                                                     *)
(***************************************************************************)
EXTENDS Integers, Sequences, FiniteSets

CONSTANTS
  Text,         \* the strings
  EmptyText,    \* ""
  TextLength    \* their lengths

Merged(to, from, default) == IF from = default THEN to ELSE from

NonDefault(size, value, default) == IF value = default THEN 0 ELSE size

\* Bytes of a number of 32 bits: 7 bits in each.  A negative one is sent as one
\* of 64 bits.
VarintSize(n) == IF n < 0 THEN 10 ELSE 1 + Cardinality({k \in 1 .. 4 : n >= 128 ^ k})
StringSize(t) == VarintSize(TextLength[t]) + TextLength[t]
MessageSize(bytes) == VarintSize(bytes) + bytes

\* The first n of some sizes together, for each n.
UpTo(sizes) ==
  LET sum[n \in 0 .. Len(sizes)] == IF n = 0 THEN 0 ELSE sum[n - 1] + sizes[n]
  IN  sum

\* Bytes that are written for a field of numbers and texts: its tag and value.
ScalarSize(f) ==
  1 + (IF f.kind = "varint" THEN VarintSize(f.value) ELSE StringSize(f.value))
ScalarSizes(fields) == [i \in 1 .. Len(fields) |-> ScalarSize(fields[i])]
ScalarsSize(fields) == UpTo(ScalarSizes(fields))[Len(fields)]

FieldSize(f) ==
  IF f.kind = "message" THEN 1 + MessageSize(ScalarsSize(f.value)) ELSE ScalarSize(f)
FieldSizes(fields) == [i \in 1 .. Len(fields) |-> FieldSize(fields[i])]

\* Fields of another version of the .proto: their numbers are not known to this
\* one.  A number below 16 has a tag of one byte.
Scalar ==
  [number : 1 .. 15, kind : {"varint"}, value : Int]
    \cup [number : 1 .. 15, kind : {"text"}, value : Text]
Unknown(known) == Seq({f \in Scalar : f.number \notin known})

VarintField(number, n) ==
  IF n = 0 THEN <<>> ELSE <<[number |-> number, kind |-> "varint", value |-> n]>>
TextField(number, t) ==
  IF t = EmptyText THEN <<>> ELSE <<[number |-> number, kind |-> "text", value |-> t]>>

\* ParseFromArray reads this many fields; one that is cut off fails the parser.
FieldsWithin(fields, bytes) ==
  {n \in 0 .. Len(fields) : UpTo(FieldSizes(fields))[n] = bytes}

CanParse(fields, bytes) == FieldsWithin(fields, bytes) # {}

FieldsRead(fields, bytes) ==
  SubSeq(fields, 1, CHOOSE n \in FieldsWithin(fields, bytes) : TRUE)

\* They are parsed into the object one after the other.
ParseAll(Parse(_, _), object, fields) ==
  LET parsed[n \in 0 .. Len(fields)] ==
        IF n = 0 THEN object ELSE Parse(parsed[n - 1], fields[n])
  IN  parsed[Len(fields)]

=============================================================================
