# A verification of smw in TLA+

smw is a C++ middleware: a process offers services (`ServiceSkeleton`) or looks
for them (`ServiceProxy`), and publishers and subscribers of a service exchange
samples, over iceoryx on one host and over Fast-DDS between hosts. This directory
models the parts of it that run on several threads or in several processes, checks
them with TLC and proves the main results with TLAPS.

## 1. The system

| part | state it keeps | operations | talks to |
|---|---|---|---|
| `ServiceRegistry` (service_registry.cpp), one per process | `m_registry`, the always table and the some-times table, the observers, a writer thread | `requestDiscoveryOperation`, `updateRegistryFromServiceDiscovery`, start/stopObserve, query, clear | the registries of the other processes, by DDS messages; observers, by callback |
| `ServiceSkeleton`, `ServiceProxy` | `m_is_offered` | construct, offer, stop, destroy | their process's registry |
| `ServiceStatus` | four sets of processes: local/remote providers/consumers | the four queries | written by the registry, read by publishers and subscribers |
| `Subscriber` | which of its two readers is enabled, its observer, the user's handler | construct, destroy, `onServiceStatusChanged` | registry, both readers |
| `FastDDSReader` | DDS reader, callback, execution queue, worker thread | `onDataAvailable`, `setDataCallback`, `enable`, `disable`, destroy | Fast-DDS's receive thread; the user, by callback |
| `IceoryxReader` | subscription, callback | the same, without a queue | iceoryx's listener thread |
| `Publisher` | two writers | `loanSample`, two `publish` | registry, both writers |
| `IceoryxWriter`, `SamplePtr` | loaned chunks; pointer and heap flag | `loan`, `write`; move, swap, release, reset, delete | iceoryx |
| `FastDDSWriter`, `FastDDSParticipant` | DDS entities; topics with reference counts | write; `getTopic`, `deleteTopic` | Fast-DDS |
| `FastDDSDataType`, serializers, generated messages | an object; its fields and their presence | size, serialize, deserialize; assign, clear, merge, parse | Fast-DDS, by callback |
| `DDSFactory`, transport interfaces | | make readers and writers as pointers to a base class | their owners |
| `Result`, `Runtime`, host id | values, options | plain functions | |

How they interact. A skeleton or proxy calls `requestDiscoveryOperation` on its own
thread, which writes one DDS message and edits the two tables. The writer thread
repeats what the tables hold. The worker thread of the discovery reader updates
`m_registry` and, still holding its mutex, calls the observers; a subscriber's
observer disables one reader and enables the other. A publisher looks at
`m_registry` twice per publish, once for each transport. Samples reach a DDS reader
on Fast-DDS's thread and the user on the reader's own worker thread. Samples from iceoryx
reach the user on iceoryx's listener thread; both pass one lambda of the subscriber and
its mutex. All DDS readers and writers of a process share one participant and its topics.

What is hard in it:

* concurrency: the tables have a mutex each and a request takes them in turn; an
  observer runs on two threads; a queue is handed from one thread to another;
* the network: no acknowledgement, best-effort reading, late starts, crashes;
* ordering: a constructor registers its observer before it has finished; a STOP can
  be followed by an OFFER that was older;
* ownership: chunks of shared memory in smart pointers that delete; topics that several
  endpoints share; endpoints deleted through a base class without a virtual destructor;
* sizes: what Fast-DDS reserves for an object against what its serializer writes;
* stopping: threads that must be woken to end.

What makes each part correct: an announcement says what its skeleton or proxy says,
spreads while it stands and disappears afterwards; a subscriber reads one transport,
the right one; a reader gives each sample to a callback once and in order, and its
destructor leaves nothing running and returns; a chunk has one owner and comes back;
a publish tells the truth. Every place where the code is exposed to something a unit
test hardly reaches is listed in `PROJECT.json` under `hazards`, with the property
that watches it.

## 2. Modules

| module | models | states it as |
|---|---|---|
| `ServiceStatus` | struct `ServiceStatus` and the switch of `updateRegistryFromServiceDiscovery` | operators |
| `Discovery` | the registries of all processes, skeletons, proxies, the network | state machine |
| `MCDiscovery` | small deployments for TLC | constants |
| `DiscoveryProofs` | | theorems |
| `Handoff` | what a reader promises: each sample taken is handed over once, in order, eventually | abstract specification |
| `FastDDSReader` | fastdds_reader.h, implementing `Handoff` | state machine, refinement |
| `FastDDSReaderProofs` | | theorems |
| `Subscriber` | subscriber.h, with startObserve/notify/stopObserve and the registry entry of one service | state machine |
| `SubscriberProofs` | | theorems |
| `Delivery` | `Subscriber` composed with the threads of both readers and the user's handler | state machine over `Subscriber` |
| `DeliveryProofs` | | theorems about `Delivery`, on those of `SubscriberProofs` |
| `Result` | result.h | operators |
| `Publishing` | publisher.h over iceoryx_writer.h, sample_ptr.h and `Result` | state machine |
| `PublishingProofs` | | theorems |
| `ProtoWire` | what generated protobuf code does with any message: sizes of fields, parsing, unknown fields | operators |
| `DiscoveryMessage`, `HelloProto` | the generated code of service_discovery.proto and of the example's message | operators over `ProtoWire` |
| `HelloIdl` | the code Fast-DDS-Gen made of the example's IDL type | operators |
| `DdsPayload` | fastdds_data_type.h over both serializers | operators |
| `PayloadProofs` | | theorems about the objects and payloads of all types |
| `DdsTransport` | fastdds_participant.*, fastdds_writer.h, the topic side of fastdds_reader.h, dds_factory.h | state machine over `DdsPayload` |
| `DdsTransportProofs` | | theorems, on those of `PayloadProofs` |
| `MCDdsTransport` | the endpoints, objects and foreign messages for TLC | constants |

### Discovery

A client is a skeleton or a proxy, with the thread that uses it. `pc` is its place in
`requestDiscoveryOperation`: `beginRequest` is the write of line 213, `eraseOther` the
first table under its mutex, `storeEntry` the second one, and what the caller does
after the request has returned (the flag; a destroyed object is gone). `construct`,
`offerService`, `stopOfferService` and `destroy` are its callers. The writer thread of
a process is `wpc`: the test of `m_exit`, then each table, sent as a whole because its
mutex is held. `updateRegistryFromServiceDiscovery` receives one message. A process
starts, exits (`~ServiceRegistry`: the reader's callback is unset, the thread joined)
or crashes.

The network is external: one FIFO link per writer, reader and service, which may lose
messages (a DDS reader is best-effort by default) but does not reorder or duplicate
them. A message of a process also comes to itself, as in the code. A ServiceEntityInfo
is a process; a process id is not used again. `sleep_for` is left out: the loop may
run at any time. The debug output and the message's other fields are left out.

### FastDDSReader

Three threads: Fast-DDS's receive thread (`rpc`, in `onDataAvailable`), the worker
(`wpc`, the loop of `init()`), and the owner (`opc`, in the destructor). The mutex of
the queue is held by the worker in the states of `HoldsQueue`, and for the one step
`emplace` by the receive thread. The wait of the condition variable is split into the
test of the predicate, the going to sleep and the wake-up, because a notification in
between is lost. The copy of `m_user_callback` in `onDataAvailable` is not protected:
while it is being assigned the copy is the old callback, the new one, or the process
dies (`aborted`); the same for `m_data_reader` before it is assigned. Deleting a DDS
reader waits for its listener: that is Fast-DDS's, and assumed.

### Subscriber

Two threads run `onServiceStatusChanged`: the discovery worker, and the owner inside
`startObserveServiceStatus`. The mutex of the observers is free when no thread is inside
an observer. The status is read where the code tests it, since it is a reference. The
constructor's and destructor's lines are steps of the owner. Which providers exist is
chosen by the environment; that the registry hears of them again and again is what
`Discovery` shows.

### Delivery

The threads a sample passes: Fast-DDS's `receive` thread puts a wrapper with a copy of the
reader's callback into the queue, the `runner` (the reader's worker) runs what is queued while it
holds the queue's mutex, iceoryx's `listener` takes one sample per event. The callback of both is
the lambda of the subscriber's constructor: it locks the handler's mutex and calls the handler.
`SubscriberStep` conjoins a step of `Subscriber` with the mutexes and the listener it
may have to wait for: `setDataCallback` of the iceoryx reader waits for the callback that
runs, and a DDS reader is deleted when its listener is taken away (`removeListener`) and
no receive thread is inside any more, which is Fast-DDS's. A handler returns, or calls smw:
it asks for the registry's mutex (a publish or a query), or registers a handler and waits
for its own mutex. After the destructor a wrapper that is still queued runs in a
subscriber that is gone: it works, or the process dies (`useAfterFree`). A queued
wrapper is only whether its callback is set; `FastDDSReader` has the samples and the
condition variable.

### Publishing

The user has SamplePtr variables and calls `loanSample`, either `publish`, moves, swaps, resets
or destroys a sample; consumers come and go in between. A publish is two steps, one per query of
the registry. iceoryx's pool is the set `Chunk`: a loan fails when none is free. What is
undefined behaviour in the code (delete of a chunk, dereference of an empty sample) ends
the behaviour in `died`.

### DdsTransport

An endpoint is a writer or a reader with the thread that makes and destroys it: `getTopic`
under the topics' mutex (look up, create, count), the rest of `init()`, use, and the
destructor (the DDS entity, then `deleteTopic`). One that `DDSFactory` made is deleted
through its base class, which has no virtual destructor: `deleteThroughBase` frees its memory
and leaves the DDS entity, the topic and its count. That is undefined behaviour, by
the outcome the usual build has. The owner of a `Subscriber`'s readers disables them before
(`DisabledFirst`), the `ServiceRegistry` does not, and its listener may be called in freed memory when
the process exits (`listenerIsFreed`).

A writer's owner assigns to one object again and again, as `requestDiscoveryOperation`
assigns to its message; `meant` is what it assigned. A payload is the encapsulation, the length
and what the serializer wrote; `Reserved` is what Fast-DDS allocates for what the size provider
says, `Touched` what `serialize` writes. A text is a member of a set with a length. A protobuf
message is a sequence of fields on the wire with a number and a kind, so that default values
are not sent, and unknown fields of another version are kept and sent on. Numbers have 32
bits; a negative one takes ten bytes. Numbers of unknown fields are below 16, so that a tag is one byte.
Other processes write messages of a newer version and messages without a ServiceInfo
(`Foreign`): what they write is serialized from an object of the type, and a payload that is damaged or of
another type is not in the model. `Message(type)` is the set of all objects of a type.

## 3. What TLC checks

| run | bounds | properties |
|---|---|---|
| `discovery` | 2 processes on 2 hosts, 1 skeleton, 2 STOP copies, 2 messages per link, 1 loss per link and request | `TypeOK`, `TablesDisjoint`, `AnnouncementMatchesClient`, `NoGhost`, `OfferSpreads`, `StopSpreads` |
| `discovery_two_clients` | 1 process, a skeleton and a proxy of 2 services, 1 message per link, 1 loss | `AnnouncementMatchesClient`, `NoGhost`, `OfferSpreads`, `StopSpreads` |
| `fastdds_reader` | 3 samples, 1 callback or none | `TypeOK`, `NothingRunsAfterDtor`, `HandsOver`, `DtorReturnsIfAwake` |
| `subscriber` (`Delivery`) | a local and a remote provider, 2 samples in the queue | `TypeOK`, `OneTransport`, `DestroyedIsQuiet`, `DeliveryTypeOK`, `ListenerLeavesDestroyed`, `StuckOnlyByHandler`, `DestroyedReceivesNothing`, `SettlesOnLocal`, `SettlesOnRemote` |
| `publishing` | 2 chunks, 2 samples, both kinds of types | `TypeOK`, `OneOwner`, `ResultIsTrue`, `DynamicIsSafe` |
| `dds_transport` | any 3 of 7 endpoints on 3 topics, history of 1, two objects per topic | `TypeOK`, `RefCountIsHolders`, `TopicsAreThoseInUse`, `NoAssertFails`, `NeverOverflows`, `WriteTellsTheTruth`, `TakesWhatWasMeant` |

Why the bounds are enough. In `Discovery` a link is independent of every other, so two
processes show all of sending and receiving, a process to itself included; `MAX_DISCOVERY_COUNT`
is 2 instead of 5, the smallest number where a count is kept between two rounds and a
message can be lost without losing all; two messages on a link let an old OFFER be followed
by a STOP, or a STOP by an old OFFER. `MaxInFlight` makes a write wait, which the code never
does; the link of 1 of the two clients is enough for what the tables do. Three samples let one be run, one be queued and one be in the
receive thread's hand. Two chunks and two samples are the least where a chunk could have
two owners, or be loaned to the wrong one. Two places in the queue of `Delivery` let a receive thread
wait with its sample while the runner is inside a handler, which the circle of waiting threads
needs. In `DdsTransport` three endpoints are one to hold a topic, one to give it back and one to
take it in between; `MaxEndpoints` says so in a constraint, and the other four
endpoints stay away in turn. `RefLimit` is 8 instead of 2^15 and is not reached: the
count is exact below it. Beyond it the code has no guard and the theorems say nothing: see the end of
this section. The lengths of texts are those the code tells apart: none, a host id, a
process id, the longest an IDL string may be (255) and one more, so objects are
shorter, as long as, and longer than what is reserved for a type. The theorems below have none of these bounds.

`CHECK_DEADLOCK FALSE` is set because every model may really stop: a process exits, a
reader or a subscriber is destroyed, a process dies.

### Fairness

* `Discovery`: the threads of clients are weakly fair inside a request, since nothing in it
  blocks; a link delivers what it does not lose; the writer thread is strongly fair only
  because another client can fill the bounded link again and again. Nobody has to call
  anything. Losses are bounded per request by `MaxLoss`; an unbounded number of losses
  would refute every liveness property of a best-effort link.
* `FastDDSReader`: the three threads are scheduled, a callback returns, and a thread that
  waits for the queue's mutex gets it if it is freed again and again (strong fairness of
  `emplace` alone). Spurious wake-ups are possible and never needed.
* `Delivery` (with `Subscriber`): every thread is scheduled (weak fairness of the discovery worker, the
  owner inside a constructor or destructor, the runner, the listener, `emplace`); the registry
  hears of every provider again and again (strong fairness of `receive(p)`: the periodic
  OFFER for one that offers, StopSpreads for one that stopped), strong since an observer
  may be in its way each time; and the runner gets the handler's mutex although the listener
  may take it again and again (strong fairness of its `LambdaStep`), as a mutex that is handed
  on does. A handler returns. `delete_datareader` keeps new samples out, or it could wait for ever
  for a listener that is always inside. `SettlesOnLocal` and `SettlesOnRemote` hold if
  no handler calls smw (`NoHandlerAsks`), for one that does can stop the discovery worker for
  good; which ones are in such a circle is `StuckOnlyByHandler`. No sample has to come, and
  nobody has to construct or destroy.
* `Publishing` and `DdsTransport` have no fairness: their properties are about safety.

### Where the code does not do what it says

Each of these runs checks one statement of a comment, a document or a test, and TLC
shows a behaviour that breaks it; the details are in `PROJECT.json`.

| run | statement | what happens |
|---|---|---|
| `discovery_find_replaces_offer` | offers are repeated always | a proxy of the same process and service replaces the table's entry |
| `discovery_exit` | a STOP is repeated some times | a process that ends sends one, and its writer thread may send an OFFER after it |
| `fastdds_reader_dtor` | the destructor returns | the notification comes between the worker's test and its sleep |
| `subscriber_first_status` | local messages are preferred | the constructor disables the reader its first notification enabled |
| `publishing_chunk_lost` | a sample can be loaned | a chunk published to nobody is never given back |
| `publishing_chunk_freed` | a chunk is not deleted | the deleter of a loaned sample deletes it |

The cause of the first is that the tables are keyed by service alone. `ExclusiveClients`
names the deployments where it does not matter, one client of a service per process, and the
passing runs and the theorems about the tables assume it. Without it two more things go wrong:
a skeleton's stop withdraws the service of another skeleton, and of two threads that request for
one service, a stop and an offer, each can remove the other table's entry before the other stores
it. Then `TablesDisjoint` is false and the process repeats both (with two skeletons as the clients
of `discovery_find_replaces_offer`, TLC shows it in 12 states). In `Delivery` a sample that comes before the iceoryx reader
has its callback ends the process (`callEmptyCallback`), and what was queued before a
subscriber was destroyed runs after it (`useAfterFree`).

Seen while modelling, without a statement of the code that a run could refute:

* `FastDDSParticipant`'s constructor builds a QoS and creates the participant with
  `PARTICIPANT_QOS_DEFAULT`; `Subscriber` stores its `queue_size` and no reader gets it.
* The readers' DDS subscribers and the writers' DDS publishers are not deleted by their destructors.
* `IceoryxWriter::write` ignores what its serializer returns; its `write(const T&)`, which
  nothing calls, writes a fresh loan and not its argument.
* Nothing `DDSFactory` made gives its topic back, so the 16-bit count of a topic grows with every
  Publisher and Subscriber that ever was. The 32768th endpoint wraps it below 0, and the next
  `deleteTopic`, of an endpoint that is destroyed as what it is, asks DDS to delete a topic that is
  in use: an `assert` fails (`Int16`, `MayErase`, `eraseTopic`).
* `Result::getError` of an Ok result returns a default error, where its comment says the program exits.
* A handler that registers a handler waits for itself; one that publishes or queries can be in a
  circle with the discovery worker that disables its reader.

## 4. What is proved

For every set of processes, services and clients, every `MAX_DISCOVERY_COUNT`, `MaxInFlight` and
`MaxLoss` (`DiscoveryProofs`):

* `TypeCorrect`: `Spec => []TypeOK`, also without exclusive clients.
* `TablesStayDisjoint`, `AnnouncementsMatch`: from `ExclusiveClients`. The inductive invariant is
  `ClientInv /\ UnownedInv`: it says, for each place of `requestDiscoveryOperation`, what the two
  tables hold, which neither property says of the steps in between (between `eraseOther` and
  `storeEntry` both tables are empty, before it the other table may be full), and that a service
  without a client has no entry.
* `NoGhostStays`: the inductive invariant `LinkInv` adds what is on its way. `OriginInv` says that
  what a process lists, or a link carries, was announced by a client. `WithdrawnInv` counts: the
  STOPs that are still to be sent, in flight behind the last OFFER, or lost since the request add
  up to the number of copies, so a link that is empty and lost fewer has delivered one, after the
  last OFFER.

For every set of chunks and samples, and both kinds of types (`PublishingProofs`):

* `TypeCorrect`, `OneOwnerStays` (`OneOwner` is inductive with `TypeOK`: a loan takes a free
  chunk, which is in no sample; a swap permutes the samples), `ResultStaysTrue`, by `CallInv`,
  which adds what holds between the two halves of a call: the error it returns names a transport
  that was asked for and not written; and `DynamicStaysSafe`, by `DynamicInv`: for a dynamic type
  no sample ever points to a chunk, and no chunk stays loaned after the step that loaned it. The
  lemmas `ResultType`, `ErrIsError` and `OkIsNoError` say what a `Result` keeps.

For any number of samples (`FastDDSReaderProofs`):

* `TypeCorrect`; `QuietAfterDtor`, by `DtorInv`, which says for each line of the destructor which
  of the receive thread, the worker and the DDS reader is already gone.
* `ReaderHandsOver`: `FastDDSReader` implements `Handoff!Safety`. The invariant is `OrderInv`:
  what was taken is what was handed over, then what is queued behind the wrapper that runs, then
  the wrapper the receive thread still has. Every step of the three threads is a step of `Handoff`
  or a stutter, a destroyed or aborted reader being closed.

For any providers on any hosts, and any length of the queue (`SubscriberProofs`,
`DeliveryProofs`):

* `SubscriberTypes`, `OneTransportAlways`, `DestroyedIsQuietAlways` of `Subscriber` alone. The
  invariant `SubInv` adds that one thread at a time is inside the observer (`OneInside`), that
  nobody is before it is registered and after it is removed (`InsideInv`), and that whoever is
  about to turn a reader on has turned the other off (`SwitchInv`): `OneTransport` says nothing of
  a subscriber that is still being constructed, where both readers are enabled at first.
* `SubscriberInDelivery`: the same with the threads of both readers and with processes that die:
  what `Delivery` adds to a step of `Subscriber` only restricts it.
* `DeliveryTypes` and `ListenerLeaves`, by `ReaderThreadsInv`: what each place of the runner and
  the listener says of the queue, and that the iceoryx reader keeps its callback while the
  listener runs it.
* `NothingIsReceived`, an action property, from the same invariant: a subscriber that is gone has
  no DDS reader a sample could come from, and nobody enables one.
* `OnlyHandlersBlock`: a circle of waiting threads has a handler that called smw in it. Without
  one (`NoCircle`) the runner and the listener can only wait for a handler that returns, so
  neither is in a circle; the receive thread waits for the runner alone; and the owner waits for
  the worker only to register the observer the worker would have to be inside of.

For every object of every type, texts of any length (`PayloadProofs`): `AssignedIsCopied`,
`RoomForAll`, `FailsIfTooLong`, `ReadBack`. These are about what recursive functions compute for
every input. The library's schemes of induction take an operator and cannot be used here, so
`UpToN` is induction for a set: a number that is not in it would have a least one. With it sums
exist and grow (`SumExists`, `UpToIsSum`, `UpToGrows`), so a payload of the announced size is read
to its end and no further (`AllIsRead`); `HelloSize`, `InfoSize`, `DiscoverySize` show that
ByteSizeLong announces the size of what is serialized, and `HelloIsReadBack`, `InfoIsReadBack`,
`DiscoveryIsReadBack` that parsing the fields in order, a field at a time (`ReadsBoth`), restores
the object from a cleared one.

For every finite set of endpoints smaller than `RefLimit`, all topics, depths and objects
(`DdsTransportProofs`):

* `TypeCorrect`, `RefCountsAreRight`, `TopicsAreInUse`, `AssertsHold`, by `Inv`. Its part
  `LifeInv` says for each place of `getTopic` and `deleteTopic` what the mutex and the table hold: the one that creates a topic does not find it in the table (`TopicsNamed`), the
  one that erases it is the last (`EraserIsLast`), and a name in the table is somebody's or the
  mutex's holder is at it (`NoneForgotten`). No property says so of the steps in between, where a
  topic exists that nobody holds. `RefCountsAreRight` holds below the limit: it assumes fewer than
  `RefLimit` endpoints over the life of the process, and `Int16` wraps nothing (`Int16Fits`); the code
  guards nothing at the limit.
* `BuffersSuffice`, `WritesTellTheTruth`, `TakenIsMeant`, by `ObjectInv`: a writer's object is the
  one its owner assigned last (`StoredInv`, from `AssignedIsCopied`), and every payload in a
  history was serialized from an object of the topic's type (`SentInv`); the theorems of
  `PayloadProofs` do the rest.

The assumptions are the named ones of the modules, which TLC evaluates in the runs:
`ClientAssumption`, `NoOpAssumption`, the `BoundAssumption`s (a bound is a number),
`PublishingAssumption`, `ProviderAssumption`, `QueueAssumption`, `TransportAssumption` (the kinds
of endpoints, fewer than `RefLimit`), `ObjectAssumption` (what is written to a topic is of its
type, by other processes too, as Fast-DDS matches endpoints by their type's name),
`TextAssumption` (only the empty text has no length); and `ExclusiveClients` where a theorem says
so.

Only model-checked: everything under fairness, which is out of TLAPS's reach: `OfferSpreads`,
`StopSpreads`, `HandsOver` as far as it says that a sample is handed over at last,
`DtorReturnsIfAwake`, `SettlesOnLocal`, `SettlesOnRemote`. Every invariant and action property
that a passing run checks is proved.

## 5. Not modelled

* `IceoryxRuntime`, `Runtime` and its options: configuration that is read once.
* Of the generated code: arenas, reflection, mutable and released pointers, Swap, descriptors; keys.
* spdlog; the examples but for their generated types: not part of the program's logic.
* Fast-DDS, iceoryx and the protobuf library appear only through what smw relies on: the definitions marked
  external in the map. Their mutexes and threads are those of the models.
* `clearRegistry`, used by tests alone; `write(const T&)`, `enable` and `disable` of the writers and
  `FastDDSWriter::loan`, used by nobody.
* Several observers of a service, and observers that call the registry: smw registers one
  kind, which does not.
* Samples a handler keeps, whose deleter uses an iceoryx reader that may be gone, and events that
  iceoryx coalesces.

## 6. Plan

What is left, in order of importance:

1. Several observers of a service in the registry, and `clearRegistry` with references still out: a module of the
   observers' map, its two mutexes and the threads that call and remove them.
2. An abstract specification of `Discovery`, a service that every process comes to know and to forget, and of
   `DdsTransport`, a table of topics without a count; the safety of the refinement proved.
3. Samples a handler keeps while its iceoryx reader goes.
