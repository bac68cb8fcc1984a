----------------------------- MODULE DdsTransport -----------------------------
(***************************************************************************)
(* The DDS side of a process: FastDDSParticipant with its table of topics, *)
(* the FastDDSWriters and FastDDSReaders that share them, and what becomes *)
(* of an object between a write and the reader that takes it.              *)
(*                                                                         *)
(* Writers and readers are created and destroyed by any thread.  Each      *)
(* takes a topic of the participant (getTopic) and gives it back           *)
(* (deleteTopic); the DDS topic lives while somebody has it.  Publisher,   *)
(* Subscriber and ServiceRegistry hold theirs as DDSFactory makes them,    *)
(* by a pointer to TransportWriter or TransportReader, which have no       *)
(* virtual destructor: deleting one runs nothing of the derived class.     *)
(* Others have them as variables of their own type.                        *)
(***************************************************************************)
EXTENDS DdsPayload, Integers, FiniteSetsExt, SequencesExt

CONSTANTS
  Writer, Reader,  \* endpoints of this process
  Factory,         \* those made by DDSFactory
  DisabledFirst,   \* readers whose owner disables them before it lets them go
  topic_name,      \* the name of each endpoint's topic
  data_type,       \* the type of each topic
  Object,          \* the objects that may be written to each topic
  Foreign,         \* payloads other processes may write to each topic
  Nobody,          \* no endpoint
  RefLimit,        \* refCount is an int16_t: 2^15
  Depth            \* of a reader's history

Endpoint == Writer \cup Reader
Topic == {topic_name[e] : e \in Endpoint}

ASSUME TransportAssumption ==
  /\ Writer \cap Reader = {} /\ Nobody \notin Endpoint
  /\ Factory \subseteq Endpoint /\ DisabledFirst \subseteq Reader \cap Factory
  /\ data_type \in [Topic -> Type]
  /\ RefLimit \in Nat /\ Depth \in Nat
  /\ IsFiniteSet(Endpoint) /\ Cardinality(Endpoint) < RefLimit

\* What is written to a topic is of its type, by other processes, too.
ASSUME ObjectAssumption ==
  \A n \in Topic :
    /\ Object[n] \subseteq Message(data_type[n])
    /\ \A p \in Foreign[n] :
         /\ p.meant \in Message(data_type[n])
         /\ p.payload = serialize(data_type[n], p.meant) /\ p.payload.result

VARIABLES
  m_topics,   \* participant: name -> refCount, of the names in the table
  exists,     \* DDS topics the participant has
  mutex,      \* who holds m_topics_mutex
  pc,         \* of each endpoint, where it is in its life
  enabled,    \* endpoints whose DDS reader or writer exists
  stored,     \* of each writer, the object it writes
  meant,      \* of each writer, the object its owner assigned last
  history,    \* of each reader, payloads with what they were to say
  got,        \* of each reader, what it took last, as it was and as it was meant
  lied,       \* a write returned true and sent nothing, or false and sent
  died        \* "no", or how the process ended: "exit", "assert", "overflow", "freed"

lifeVars == <<m_topics, exists, mutex, pc, enabled>>
dataVars == <<stored, meant, history, got, lied>>
vars == <<lifeVars, dataVars, died>>

TypeOf(e) == data_type[topic_name[e]]

Init ==
  /\ m_topics = <<>> /\ exists = {} /\ mutex = Nobody
  /\ pc = [e \in Endpoint |-> "absent"]
  /\ enabled = {}
  /\ stored = [w \in Writer |-> createData(TypeOf(w))]
  /\ meant = stored
  /\ history = [r \in Reader |-> <<>>]
  /\ got = [r \in Reader |-> <<>>]
  /\ lied = FALSE
  /\ died = "no"

Runs == died = "no" /\ UNCHANGED died
DiesIf(bad, how) == died = "no" /\ died' = IF bad THEN how ELSE "no"

Moves(e, from, to) == pc[e] = from /\ pc' = [pc EXCEPT ![e] = to]

-----------------------------------------------------------------------------
\* FastDDSParticipant.

\* Mutant: m_topics_mutex is not taken.
TakesNothing(e) == mutex' = mutex
Takes(e) == mutex = Nobody /\ mutex' = e

\* getTopic: under the mutex the name is looked up, ...
getTopic(e) ==
  /\ Runs
  /\ Moves(e, "absent", IF topic_name[e] \in DOMAIN m_topics THEN "count" ELSE "create")
  /\ Takes(e)
  /\ UNCHANGED <<m_topics, exists, enabled, dataVars>>

\* ... the topic is created - DDS refuses a second one of a name, init() asserts ...
create_topic(e) ==
  /\ Moves(e, "create", "count")
  /\ DiesIf(topic_name[e] \in exists, "assert")
  /\ exists' = exists \cup {topic_name[e]}
  /\ m_topics' = [n \in DOMAIN m_topics \cup {topic_name[e]} |->
                    IF n = topic_name[e] THEN 0 ELSE m_topics[n]]
  /\ UNCHANGED <<mutex, enabled, dataVars>>

\* Arithmetic on an int16_t is modulo 2^16.
Int16(n) == CASE n >= RefLimit   -> n - 2 * RefLimit
              [] n < 0 - RefLimit -> n + 2 * RefLimit
              [] OTHER            -> n

\* Mutant: only the first endpoint is counted.
CountedOnce(n) == Int16(1)
Counted(n) == Int16(n + 1)

\* ... and counted.
countTopic(e) ==
  /\ Runs
  /\ Moves(e, "count", "init")
  /\ m_topics' = [m_topics EXCEPT ![topic_name[e]] = Counted(@)]
  /\ mutex' = Nobody
  /\ UNCHANGED <<exists, enabled, dataVars>>

\* Mutant: the topic is never deleted.
MayEraseNever(refCount) == refCount < 0
MayErase(refCount) == refCount <= 0

\* deleteTopic: under the mutex the count goes down; at 0 it is the last.
deleteTopic(e) ==
  LET n == topic_name[e]
      last == n \in DOMAIN m_topics /\ MayErase(Int16(m_topics[n] - 1))
  IN
  /\ Runs
  /\ Moves(e, "deleteTopic", IF last THEN "erase" ELSE "gone")
  /\ mutex = Nobody /\ mutex' = IF last THEN e ELSE Nobody
  /\ m_topics' = [m_topics EXCEPT ![n] = Int16(@ - 1)]
  /\ UNCHANGED <<exists, enabled, dataVars>>

\* A DDS topic cannot be deleted while a DDS reader or writer uses it.
InUse(n) == \E u \in enabled : topic_name[u] = n

eraseTopic(e) ==
  /\ Moves(e, "erase", "gone")
  /\ DiesIf(InUse(topic_name[e]), "assert")
  /\ exists' = exists \ {topic_name[e]}
  /\ m_topics' = [n \in DOMAIN m_topics \ {topic_name[e]} |-> m_topics[n]]
  /\ mutex' = Nobody
  /\ UNCHANGED <<enabled, dataVars>>

\* ~FastDDSParticipant, when main has returned and the registry is destroyed.
exitProcess ==
  /\ died = "no" /\ died' = "exit"
  /\ \A e \in Endpoint : pc[e] \in {"absent", "gone", "leaked"}
  /\ exists' = {} /\ enabled' = {}
  /\ history' = [r \in Reader |-> <<>>]
  /\ UNCHANGED <<m_topics, mutex, pc, stored, meant, got, lied>>

-----------------------------------------------------------------------------
\* FastDDSWriter and FastDDSReader.

\* The rest of init(): the DDS writer; a reader is enabled.  Neither is created
\* for a topic that is gone.
init(e) ==
  /\ DiesIf(topic_name[e] \notin exists, "assert")
  /\ Moves(e, "init", "live")
  /\ enabled' = enabled \cup {e}
  /\ UNCHANGED <<m_topics, exists, mutex, dataVars>>

enable(r) ==
  /\ DiesIf(topic_name[r] \notin exists, "assert")
  /\ pc[r] = "live"
  /\ enabled' = enabled \cup {r}
  /\ UNCHANGED <<m_topics, exists, mutex, pc, dataVars>>

\* The DDS reader is deleted, with what it has not handed out.
disable(r) ==
  /\ Runs
  /\ pc[r] = "live"
  /\ enabled' = enabled \ {r}
  /\ history' = [history EXCEPT ![r] = <<>>]
  /\ UNCHANGED <<m_topics, exists, mutex, pc, stored, meant, got, lied>>

\* ~FastDDSWriter, ~FastDDSReader: the DDS endpoint first, its topic after it.
destroy(e) ==
  /\ Runs
  /\ e \notin Factory
  /\ Moves(e, "live", "deleteTopic")
  /\ enabled' = enabled \ {e}
  /\ history' = IF e \in Reader THEN [history EXCEPT ![e] = <<>>] ELSE history
  /\ UNCHANGED <<m_topics, exists, mutex, stored, meant, got, lied>>

\* A Subscriber disables its readers before.
ReadyToLetGo(e) == e \in DisabledFirst => e \notin enabled

\* The owner of one from DDSFactory deletes it: its memory, and no more.
deleteThroughBase(e) ==
  /\ Runs
  /\ e \in Factory
  /\ ReadyToLetGo(e)
  /\ Moves(e, "live", "leaked")
  /\ UNCHANGED <<m_topics, exists, mutex, enabled, dataVars>>

-----------------------------------------------------------------------------
\* Objects.

\* The owner assigns another object to the one it writes from.
assign(w, object) ==
  /\ Runs
  /\ pc[w] = "live"
  /\ stored' = [stored EXCEPT ![w] = Assign(TypeOf(w), @, object)]
  /\ meant' = [meant EXCEPT ![w] = object]
  /\ UNCHANGED <<lifeVars, history, got, lied>>

\* KEEP_LAST: the oldest payload makes room.
Kept(h) == IF Len(h) > Depth THEN Tail(h) ELSE h

\* Best effort: some readers of the topic have it, others do not.
Deliver(n, p) ==
  \E R \in SUBSET {r \in Reader \cap enabled : topic_name[r] = n} :
    history' = [r \in Reader |-> IF r \in R THEN Kept(Append(history[r], p))
                                            ELSE history[r]]

Sent(w) == serialize(TypeOf(w), stored[w])

\* What was meant cannot be sent: it is longer than the type's maximum.
TooLong(w) ==
  UsesIdl(TypeOf(w)) /\ TextLength[meant[w].message] > HelloIdl!MaxString

HasRoom(w) == Touched(TypeOf(w), stored[w]) <= Reserved(TypeOf(w), stored[w])

\* write(): FastDDS reserves what the size provider says, serializes, sends.
write(w) ==
  LET p == Sent(w) IN
  /\ pc[w] = "live"
  /\ DiesIf(~HasRoom(w), "overflow")
  /\ IF p.result
     THEN Deliver(topic_name[w], [payload |-> p, meant |-> meant[w]])
     ELSE UNCHANGED history
  /\ lied' = (lied \/ p.result = TooLong(w))
  /\ UNCHANGED <<lifeVars, stored, meant, got>>

\* Another process, perhaps of another version, writes to the topic.
foreignWrite(n) ==
  /\ Runs
  /\ \E p \in Foreign[n] : Deliver(n, p)
  /\ UNCHANGED <<lifeVars, stored, meant, got, lied>>

\* onDataAvailable: an object is created, taken into, and handed on.
take(r) ==
  LET p == Head(history[r])
      d == deserialize(TypeOf(r), p.payload)
  IN
  /\ Runs
  /\ pc[r] = "live" /\ history[r] # <<>>
  /\ history' = [history EXCEPT ![r] = Tail(@)]
  /\ got' = [got EXCEPT ![r] =
       <<[decoded |-> d.result, value |-> d.data, meant |-> p.meant]>>]
  /\ UNCHANGED <<lifeVars, stored, meant, lied>>

\* The listener of a reader that was deleted as a TransportReader is called.
listenerIsFreed(r) ==
  /\ pc[r] = "leaked" /\ history[r] # <<>>
  /\ DiesIf(TRUE, "freed")
  /\ UNCHANGED <<lifeVars, dataVars>>

-----------------------------------------------------------------------------
Next ==
  \/ \E e \in Endpoint :
       \/ getTopic(e) \/ create_topic(e) \/ countTopic(e) \/ init(e)
       \/ destroy(e) \/ deleteTopic(e) \/ eraseTopic(e) \/ deleteThroughBase(e)
  \/ \E r \in Reader : enable(r) \/ disable(r) \/ take(r) \/ listenerIsFreed(r)
  \/ \E w \in Writer :
       \/ \E object \in Object[topic_name[w]] : assign(w, object)
       \/ write(w)
  \/ \E n \in Topic : foreignWrite(n)
  \/ exitProcess

Spec == Init /\ [][Next]_vars

-----------------------------------------------------------------------------
\* Type invariant of the participant and its endpoints.
PC == {"absent", "create", "count", "init", "live", "deleteTopic", "erase", "gone",
       "leaked"}
TypeOK ==
  /\ DOMAIN m_topics \subseteq Topic
  /\ \A n \in DOMAIN m_topics : m_topics[n] \in (0 - RefLimit) .. (RefLimit - 1)
  /\ exists \subseteq Topic
  /\ mutex \in Endpoint \cup {Nobody}
  /\ pc \in [Endpoint -> PC]
  /\ \A e \in Endpoint : pc[e] \in {"create", "count", "erase"} <=> mutex = e
  /\ enabled \subseteq Endpoint
  /\ \A r \in Reader : Len(history[r]) <= Depth /\ Len(got[r]) <= 1
  /\ \A r \in Reader : history[r] # <<>> => r \in enabled
  /\ lied \in BOOLEAN
  /\ died \in {"no", "exit", "assert", "overflow", "freed"}

\* Endpoints between their getTopic and their deleteTopic.
Holders(n) ==
  {e \in Endpoint : topic_name[e] = n /\ pc[e] \in {"init", "live", "deleteTopic", "leaked"}}

(***************************************************************************)
(* refCount says how many have the topic, however their threads interleave *)
(* in getTopic and deleteTopic, and never wraps below RefLimit endpoints.  *)
(***************************************************************************)
RefCountIsHolders ==
  \A n \in DOMAIN m_topics : m_topics[n] = Cardinality(Holders(n))

(***************************************************************************)
(* The DDS topics are those somebody has: no endpoint is left with a topic *)
(* that another one's deleteTopic took away, and the only ones left behind *)
(* are those of endpoints that were deleted through their base class.      *)
(***************************************************************************)
TopicsAreThoseInUse ==
  mutex = Nobody /\ died # "exit" => exists = {n \in Topic : Holders(n) # {}}

\* No assert() on what DDS returns for a topic, a reader or a writer fails.
NoAssertFails == died # "assert"

(***************************************************************************)
(* serialize() stays inside what getSerializedSizeProvider made FastDDS    *)
(* reserve, for every object of both serializers.                          *)
(***************************************************************************)
NeverOverflows == died # "overflow"

(***************************************************************************)
(* write() returns true when the object is sent, and false only when it is *)
(* longer than its type allows (requestDiscoveryOperation asserts it).     *)
(***************************************************************************)
WriteTellsTheTruth == ~lied

(***************************************************************************)
(* A reader takes what the writer's owner assigned last, whatever the      *)
(* object held before: a default value of the new object is not lost, nor  *)
(* a field of another version's message taken for one of this.             *)
(***************************************************************************)
SameAs(type, value, object) ==
  IF type = "ServiceDiscovery"
  THEN Discovery!Announced(value) = Discovery!Announced(object)
  ELSE value.index = object.index /\ value.message = object.message
TakesWhatWasMeant ==
  \A r \in Reader : \A g \in Range(got[r]) :
    g.decoded /\ SameAs(TypeOf(r), g.value, g.meant)

=============
