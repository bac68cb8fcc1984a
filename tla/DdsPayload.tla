------------------------------ MODULE DdsPayload ------------------------------
(***************************************************************************)
(* FastDDSDataType (fastdds_data_type.h): how an object becomes a payload  *)
(* of DDS, by SerializerProtobuf or SerializerIdl, and an object again.    *)
(*                                                                         *)
(* A payload is the encapsulation, the size of the object, and the object. *)
(* FastDDS asks the size provider first, reserves that many bytes - never  *)
(* fewer than the type's m_typeSize - and hands the buffer to serialize(), *)
(* whose serializer does not look at its end.                              *)
(***************************************************************************)
EXTENDS Naturals

CONSTANTS Text, EmptyText, TextLength  \* see ProtoWire

ASSUME TextAssumption ==
  /\ EmptyText \in Text
  /\ TextLength \in [Text -> Nat]
  /\ \A t \in Text : TextLength[t] = 0 <=> t = EmptyText

Discovery == INSTANCE DiscoveryMessage
Hello     == INSTANCE HelloProto
HelloIdl  == INSTANCE HelloIdl

\* The types that are sent; the last one by SerializerIdl.
Type == {"ServiceDiscovery", "HelloWorld", "IdlHelloWorld"}

-----------------------------------------------------------------------------
\* The types: what is generated for them.

Message(type) ==
  CASE type = "ServiceDiscovery" -> Discovery!Message
    [] type = "HelloWorld" -> Hello!Message
    [] type = "IdlHelloWorld" -> HelloIdl!Message

createData(type) ==
  CASE type = "ServiceDiscovery" -> Discovery!EmptyDiscovery
    [] type = "HelloWorld" -> Hello!HelloWorld
    [] type = "IdlHelloWorld" -> HelloIdl!HelloWorld

Assign(type, to, from) ==
  CASE type = "ServiceDiscovery" -> Discovery!Assign(to, from)
    [] type = "HelloWorld" -> Hello!Assign(to, from)
    [] type = "IdlHelloWorld" -> HelloIdl!Assign(to, from)

ByteSizeLong(type, data) ==
  IF type = "HelloWorld" THEN Hello!ByteSizeLong(data) ELSE Discovery!ByteSizeLong(data)

Serialize(type, data) ==
  IF type = "HelloWorld" THEN Hello!Serialize(data) ELSE Discovery!Serialize(data)

ParseFromArray(type, body, bytes) ==
  IF type = "HelloWorld"
  THEN Hello!ParseFromArray(body, bytes)
  ELSE Discovery!ParseFromArray(body, bytes)

-----------------------------------------------------------------------------
\* The serializers.  `length` is *dest_len, `result` what serialize returns.

PB_DEFAULT_MAX_SIZE == 256

ProtobufSerialize(type, data) ==
  [result |-> TRUE, body |-> Serialize(type, data), length |-> ByteSizeLong(type, data)]

ProtobufDeserialize(type, body, length) ==
  IF Hello!CanParse(body, length)
  THEN [result |-> TRUE, data |-> ParseFromArray(type, body, length)]
  ELSE [result |-> FALSE, data |-> createData(type)]

\* The object is serialized to a payload of its maximal size, then copied.
IdlSerialize(data) == HelloIdl!serialize(data, HelloIdl!m_typeSize)

IdlDeserialize(body, length) ==
  IF HelloIdl!CanDeserialize(body, length)
  THEN [result |-> TRUE, data |-> HelloIdl!deserialize(body)]
  ELSE [result |-> FALSE, data |-> HelloIdl!HelloWorld]

UsesIdl(type) == type = "IdlHelloWorld"

getMaxSize(type) == IF UsesIdl(type) THEN HelloIdl!m_typeSize ELSE PB_DEFAULT_MAX_SIZE

getSize(type, data) ==
  IF UsesIdl(type) THEN HelloIdl!getSerializedSizeProvider(data)
                   ELSE ByteSizeLong(type, data)

SerializeWith(type, data) ==
  IF UsesIdl(type) THEN IdlSerialize(data) ELSE ProtobufSerialize(type, data)

-----------------------------------------------------------------------------
\* FastDDSDataType.

CDR_VECTOR_LEN_SIZE == 4
CDR_ENCAPSULATION_SIZE == 4
HeaderSize == CDR_VECTOR_LEN_SIZE + CDR_ENCAPSULATION_SIZE

m_typeSize(type) == getMaxSize(type) + HeaderSize

Pad(n) == HelloIdl!alignment(n, 4)

\* Mutant: the header is forgotten.
SizeWithoutHeader(type, data) == getSize(type, data) + Pad(getSize(type, data))

\* The object is counted first: the padding is between it and the header.
getSerializedSizeProvider(type, data) ==
  LET object == getSize(type, data) + Pad(0)
      vector == object + CDR_VECTOR_LEN_SIZE + Pad(object)
  IN  vector + CDR_ENCAPSULATION_SIZE + Pad(vector)

\* What FastDDS has allocated when it calls serialize().
Reserved(type, data) ==
  LET asked == getSerializedSizeProvider(type, data)
  IN  IF asked > m_typeSize(type) THEN asked ELSE m_typeSize(type)

\* Mutant: what the serializer says is not passed on.
SerializeIgnoringResult(type, data) ==
  [result |-> TRUE, size |-> getSize(type, data),
   body |-> SerializeWith(type, data).body,
   length |-> HeaderSize + getSize(type, data)]

\* The payload: its size field is what getSize says, not what was written.
serialize(type, data) ==
  [result |-> SerializeWith(type, data).result,
   size   |-> getSize(type, data),
   body   |-> SerializeWith(type, data).body,
   length |-> HeaderSize + getSize(type, data)]

\* The bytes serialize() writes to.
Touched(type, data) == HeaderSize + SerializeWith(type, data).length

deserialize(type, payload) ==
  IF UsesIdl(type) THEN IdlDeserialize(payload.body, payload.size)
                   ELSE ProtobufDeserialize(type, payload.body, payload.size)

=============================================================================
