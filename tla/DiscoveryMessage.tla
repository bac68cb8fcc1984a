--------------------------- MODULE DiscoveryMessage ---------------------------
(***************************************************************************)
(* The messages of the discovery protocol, ServiceDiscovery and the        *)
(* ServiceInfo it carries: what protoc made of service_discovery.proto.    *)
(*                                                                         *)
(* OFFER, service 0 and instance 0 are defaults.  A field that the parser  *)
(* does not know, of a process built from another version of the .proto,   *)
(* is kept as it is.                                                       *)
(***************************************************************************)
EXTENDS ProtoWire

\* ServiceDiscoveryOperation; the default is an offer.
OFFER == 0
STOP_OFFER == 1
FIND == 2
STOP_FIND == 3

-----------------------------------------------------------------------------
\* Objects.

\* service_info_ is a pointer: a sequence of at most one.
Info ==
  [service_id : Nat, instance_id : Nat, host_id : Text, process_id : Text,
   unknown : Unknown({1, 2, 4, 5})]
Message ==
  [operation : Int, service_info : {s \in Seq(Info) : Len(s) <= 1},
   unknown : Unknown({1, 2})]

EmptyInfo ==
  [service_id |-> 0, instance_id |-> 0,
   host_id |-> EmptyText, process_id |-> EmptyText, unknown |-> <<>>]

EmptyDiscovery == [operation |-> OFFER, service_info |-> <<>>, unknown |-> <<>>]

set_service_id(info, value)  == [info EXCEPT !.service_id = value]
set_instance_id(info, value) == [info EXCEPT !.instance_id = value]
set_host_id(info, value)     == [info EXCEPT !.host_id = value]
set_process_id(info, value)  == [info EXCEPT !.process_id = value]
set_operation(m, value)      == [m EXCEPT !.operation = value]

has_service_info(m) == m.service_info # <<>>

\* A message without one shows the default instance.
service_info(m) == IF has_service_info(m) THEN Head(m.service_info) ELSE EmptyInfo

\* mutable_service_info(): what is done to it is done to the message.
WithServiceInfo(m, info) == [m EXCEPT !.service_info = <<info>>]

fillServiceInfoMessage(a, info) ==
  set_process_id(
    set_host_id(
      set_instance_id(set_service_id(info, a.service_id), a.instance_id),
      a.host_id),
    a.process_id)

\* The message that requestDiscoveryOperation writes for announcement a.
Announce(a) ==
  LET m == set_operation(EmptyDiscovery, a.operation)
  IN  WithServiceInfo(m, fillServiceInfoMessage(a, service_info(m)))

\* What updateRegistryFromServiceDiscovery reads of a message.
Announced(m) ==
  [operation   |-> m.operation,
   service_id  |-> service_info(m).service_id,
   instance_id |-> service_info(m).instance_id,
   host_id     |-> service_info(m).host_id,
   process_id  |-> service_info(m).process_id]

-----------------------------------------------------------------------------
\* Copies.  A default never replaces a value: to assign is to clear, then merge.

MergeInfo(to, from) ==
  [service_id  |-> Merged(to.service_id, from.service_id, 0),
   instance_id |-> Merged(to.instance_id, from.instance_id, 0),
   host_id     |-> Merged(to.host_id, from.host_id, EmptyText),
   process_id  |-> Merged(to.process_id, from.process_id, EmptyText),
   unknown     |-> to.unknown \o from.unknown]

MergeFrom(to, from) ==
  [operation    |-> Merged(to.operation, from.operation, OFFER),
   service_info |-> IF has_service_info(from)
                    THEN <<MergeInfo(service_info(to), service_info(from))>>
                    ELSE to.service_info,
   unknown      |-> to.unknown \o from.unknown]

\* Mutant: the operation of the last message is not cleared.
ClearInfoOnly(m) == [m EXCEPT !.service_info = <<>>, !.unknown = <<>>]
Clear(m) == EmptyDiscovery

CopyFrom(to, from) == MergeFrom(Clear(to), from)

\* operator=
Assign(to, from) == CopyFrom(to, from)

-----------------------------------------------------------------------------
\* The wire.

SerializeInfo(info) ==
  VarintField(1, info.service_id) \o VarintField(2, info.instance_id)
    \o TextField(4, info.host_id) \o TextField(5, info.process_id)
    \o info.unknown

Serialize(m) ==
  VarintField(1, m.operation)
    \o (IF has_service_info(m)
        THEN <<[number |-> 2, kind |-> "message",
                value |-> SerializeInfo(service_info(m))]>>
        ELSE <<>>)
    \o m.unknown

InfoByteSize(info) ==
  NonDefault(1 + StringSize(info.host_id), info.host_id, EmptyText)
    + NonDefault(1 + StringSize(info.process_id), info.process_id, EmptyText)
    + NonDefault(1 + VarintSize(info.service_id), info.service_id, 0)
    + NonDefault(1 + VarintSize(info.instance_id), info.instance_id, 0)
    + ScalarsSize(info.unknown)

ByteSizeLong(m) ==
  (IF has_service_info(m) THEN 1 + MessageSize(InfoByteSize(service_info(m))) ELSE 0)
    + NonDefault(1 + VarintSize(m.operation), m.operation, OFFER)
    + ScalarsSize(m.unknown)

\* _InternalParse: a known number of another wire type is unusual, too.
ParseInfoField(info, f) ==
  CASE f.number = 1 /\ f.kind = "varint" -> set_service_id(info, f.value)
    [] f.number = 2 /\ f.kind = "varint" -> set_instance_id(info, f.value)
    [] f.number = 4 /\ f.kind = "text" -> set_host_id(info, f.value)
    [] f.number = 5 /\ f.kind = "text" -> set_process_id(info, f.value)
    [] OTHER -> [info EXCEPT !.unknown = Append(@, f)]

ParseField(m, f) ==
  CASE f.number = 1 /\ f.kind = "varint" -> set_operation(m, f.value)
    [] f.number = 2 /\ f.kind = "message" ->
         WithServiceInfo(m, ParseAll(ParseInfoField, service_info(m), f.value))
    [] OTHER -> [m EXCEPT !.unknown = Append(@, f)]

\* The object is cleared, then each field is parsed into it.
ParseFromArray(fields, bytes) ==
  ParseAll(ParseField, EmptyDiscovery, FieldsRead(fields, bytes))

=============================================================================
