---------------------------- MODULE MCDdsTransport ----------------------------
(***************************************************************************)
(* A process with the discovery topic of its registry, the topic of a      *)
(* protobuf type with a Publisher's writer and a Subscriber's reader, and  *)
(* the topic of an IDL type with a Subscriber's reader and two endpoints   *)
(* that are destroyed as what they are.                                    *)
(***************************************************************************)
EXTENDS DdsTransport

CONSTANTS regWriter, regReader, pubWriter, subReader, idlReader, ownWriter, ownReader,
          host, process, longest, tooLong

\* A host id is the host's addresses, a process id a number; 255 characters
\* are the most an IDL string may have.
MCText == {EmptyText, host, process, longest, tooLong}
MCTextLength ==
  (EmptyText :> 0) @@ (host :> 140) @@ (process :> 5) @@ (longest :> 255)
    @@ (tooLong :> 256)

MCTopicName ==
  [e \in {regWriter, regReader} |-> "discovery"]
    @@ [e \in {pubWriter, subReader} |-> "event"]
    @@ [e \in {ownWriter, ownReader, idlReader} |-> "idl"]
MCDataType ==
  [discovery |-> "ServiceDiscovery", event |-> "HelloWorld", idl |-> "IdlHelloWorld"]

Announcement(op, service, instance) ==
  Discovery!Announce([operation |-> op, service_id |-> service,
    instance_id |-> instance, host_id |-> host, process_id |-> process])

Greeting(i, t) == Hello!set_message(Hello!set_index(Hello!HelloWorld, i), t)
IdlGreeting(i, t) ==
  HelloIdl!set_message(HelloIdl!set_index(HelloIdl!HelloWorld, i), t)

MCObject ==
  [discovery |-> {Announcement(Discovery!OFFER, 0, 300),
                  Announcement(Discovery!FIND, 300, 0)},
   event     |-> {Greeting(0, tooLong), Greeting(0 - 1, EmptyText)},
   idl       |-> {IdlGreeting(1, longest), IdlGreeting(0, tooLong)}]

\* A process of another version: both messages have a field 3; or no ServiceInfo.
Unknown == [number |-> 3, kind |-> "varint", value |-> 300]
Newer(m) ==
  LET info == Discovery!service_info(m) IN
  [Discovery!WithServiceInfo(m, [info EXCEPT !.unknown = <<Unknown>>])
     EXCEPT !.unknown = <<Unknown>>]
From(m) == [payload |-> serialize("ServiceDiscovery", m), meant |-> m]

MCForeign ==
  [discovery |-> {From(Newer(Announcement(Discovery!STOP_OFFER, 300, 0))),
                  From(Discovery!EmptyDiscovery)},
   event |-> {}, idl |-> {}]

\* Bound: of the seven, this many are created in a behaviour.
MaxEndpoints == 3
Bound == Cardinality({e \in Endpoint : pc[e] # "absent"}) <= MaxEndpoints

=============================================================================
