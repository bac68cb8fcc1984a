------------------------------ MODULE HelloProto ------------------------------
(***************************************************************************)
(* HelloWorld of the protobuf example, a user's message: its text may be   *)
(* of any length.                                                          *)
(***************************************************************************)
EXTENDS ProtoWire

Message == [index : Int, message : Text, unknown : Unknown({1, 2})]

HelloWorld == [index |-> 0, message |-> EmptyText, unknown |-> <<>>]

set_index(m, value)   == [m EXCEPT !.index = value]
set_message(m, value) == [m EXCEPT !.message = value]

Clear(m) == HelloWorld

MergeFrom(to, from) ==
  [index   |-> Merged(to.index, from.index, 0),
   message |-> Merged(to.message, from.message, EmptyText),
   unknown |-> to.unknown \o from.unknown]

CopyFrom(to, from) == MergeFrom(Clear(to), from)

\* operator=
Assign(to, from) == CopyFrom(to, from)

Serialize(m) == VarintField(1, m.index) \o TextField(2, m.message) \o m.unknown

ByteSizeLong(m) ==
  NonDefault(1 + StringSize(m.message), m.message, EmptyText)
    + NonDefault(1 + VarintSize(m.index), m.index, 0)
    + ScalarsSize(m.unknown)

ParseField(m, f) ==
  CASE f.number = 1 /\ f.kind = "varint" -> set_index(m, f.value)
    [] f.number = 2 /\ f.kind = "text" -> set_message(m, f.value)
    [] OTHER -> [m EXCEPT !.unknown = Append(@, f)]

\* The object is cleared, then each field is parsed into it.
ParseFromArray(fields, bytes) ==
  ParseAll(ParseField, HelloWorld, FieldsRead(fields, bytes))

=============================================================================
