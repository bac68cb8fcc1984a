------------------------------ MODULE Discovery ------------------------------
(***************************************************************************)
(* Service discovery of smw: how the processes of a deployment learn which *)
(* of them offer and which of them look for a service.                     *)
(*                                                                         *)
(* Every process holds one ServiceRegistry (service_registry.cpp).  A      *)
(* ServiceSkeleton or a ServiceProxy asks its registry to announce OFFER,  *)
(* FIND, STOP_OFFER or STOP_FIND: the calling thread writes the message    *)
(* once, then edits two tables, each under its own mutex.  A writer thread *)
(* wakes up every DISCOVERY_CYCLE_TIME and writes every entry of the       *)
(* "always" table, then every entry of the "some times" table, which it    *)
(* drops after MAX_DISCOVERY_COUNT copies.  Nothing is acknowledged.  A    *)
(* received message updates m_registry; nothing in it ever expires.        *)
(*                                                                         *)
(* The network is DDS with its default QoS, one best-effort FIFO link per  *)
(* writer, reader and service: a message can be lost on any link, also on  *)
(* the one of a process to itself.                                         *)
(***************************************************************************)
EXTENDS Naturals, Sequences, ServiceStatus

CONSTANTS
  Proc,                 \* processes, one per ServiceEntityInfo (no pid reuse)
  Service,              \* ServiceDescriptions
  Client,               \* ServiceSkeleton and ServiceProxy objects
  HostOf,               \* the host id of a process
  ProcOf,               \* the process a client lives in
  ServiceOf,            \* the service a client is constructed for
  KindOf,               \* "skeleton" or "proxy"
  NoOp,                 \* not an operation: no entry in a table
  MAX_DISCOVERY_COUNT,  \* copies of a STOP the writer thread sends
  MaxInFlight,          \* bound: messages on one link
  MaxLoss               \* bound: losses on one link since the last request

ASSUME ClientAssumption ==
  /\ ProcOf \in [Client -> Proc]
  /\ ServiceOf \in [Client -> Service]
  /\ KindOf \in [Client -> {"skeleton", "proxy"}]

ASSUME NoOpAssumption == NoOp \notin Operation

ASSUME BoundAssumption ==
  /\ MAX_DISCOVERY_COUNT \in Nat \ {0}
  /\ MaxInFlight \in Nat
  /\ MaxLoss \in Nat

(***************************************************************************)
(* No two clients of one process are for the same service.  The code does  *)
(* not enforce it; the tables, keyed by service alone, need it.            *)
(***************************************************************************)
ExclusiveClients ==
  \A c, d \in Client :
    ProcOf[c] = ProcOf[d] /\ ServiceOf[c] = ServiceOf[d] => c = d

VARIABLES
  life,           \* of a process; "exiting" is inside ~ServiceRegistry
  m_always,       \* m_message_need_send_always: an operation or NoOp
  m_some,         \* m_message_need_send_some_times: operation and count
  m_registry,     \* what each process knows of each service
  wpc,            \* where the writer thread of a process is in its loop
  object,         \* whether a client object exists
  m_is_offered,   \* the flag of a skeleton
  pc,             \* where a client's thread is in requestDiscoveryOperation
  request,        \* the operation it is requesting
  net,            \* messages in flight: sender, receiver, service
  lost            \* losses on a link since the service's last request

tableVars  == <<m_always, m_some>>
clientVars == <<object, m_is_offered, pc, request>>
linkVars   == <<net, lost>>
vars == <<life, tableVars, m_registry, wpc, clientVars, linkVars>>

NoEntry == [op |-> NoOp, count |-> 0]

StartOp(c) == IF KindOf[c] = "skeleton" THEN "OFFER" ELSE "FIND"
StopOp(c)  == IF KindOf[c] = "skeleton" THEN "STOP_OFFER" ELSE "STOP_FIND"

Init ==
  /\ life = [p \in Proc |-> "absent"]
  /\ m_always = [p \in Proc |-> [s \in Service |-> NoOp]]
  /\ m_some = [p \in Proc |-> [s \in Service |-> NoEntry]]
  /\ m_registry = [p \in Proc |-> [s \in Service |-> EmptyStatus]]
  /\ wpc = [p \in Proc |-> "check"]
  /\ object = [c \in Client |-> "absent"]
  /\ m_is_offered = [c \in Client |-> FALSE]
  /\ pc = [c \in Client |-> "idle"]
  /\ request = [c \in Client |-> NoOp]
  /\ net = [p \in Proc |-> [q \in Proc |-> [s \in Service |-> <<>>]]]
  /\ lost = [p \in Proc |-> [q \in Proc |-> [s \in Service |-> 0]]]

(***************************************************************************)
(* m_service_discovery_writer->write of m[s] for every s with a message:   *)
(* one copy for every process that is up, the sender included.             *)
(***************************************************************************)
Transmit(p, m) ==
  /\ \A q \in Proc, s \in Service :
       life[q] = "up" /\ m[s] # NoOp => Len(net[p][q][s]) < MaxInFlight
  /\ net' = [net EXCEPT ![p] = [q \in Proc |-> [s \in Service |->
       IF life[q] = "up" /\ m[s] # NoOp
         THEN Append(net[p][q][s], m[s]) ELSE net[p][q][s]]]]

-----------------------------------------------------------------------------
\* requestDiscoveryOperation, called by the thread of a client.

\* The message is written once, before any table is touched.
beginRequest(c, op) ==
  /\ life[ProcOf[c]] = "up"
  /\ pc[c] = "idle"
  /\ pc' = [pc EXCEPT ![c] = "clear"]
  /\ request' = [request EXCEPT ![c] = op]
  /\ Transmit(ProcOf[c], [s \in Service |-> IF s = ServiceOf[c] THEN op ELSE NoOp])
  /\ UNCHANGED <<life, tableVars, m_registry, wpc, m_is_offered, lost>>

\* The constructors of ServiceSkeleton (offerService) and of ServiceProxy.
construct(c) ==
  /\ object[c] = "absent"
  /\ object' = [object EXCEPT ![c] = "live"]
  /\ beginRequest(c, StartOp(c))

offerService(c) ==
  /\ KindOf[c] = "skeleton"
  /\ object[c] = "live"
  /\ beginRequest(c, "OFFER")
  /\ UNCHANGED object

stopOfferService(c) ==
  /\ KindOf[c] = "skeleton"
  /\ object[c] = "live"
  /\ beginRequest(c, "STOP_OFFER")
  /\ UNCHANGED object

\* ~ServiceProxy, and ~ServiceSkeleton of a service that is offered.
destroy(c) ==
  /\ object[c] = "live"
  /\ KindOf[c] = "skeleton" => m_is_offered[c]
  /\ object' = [object EXCEPT ![c] = "dying"]
  /\ beginRequest(c, StopOp(c))

\* ~ServiceSkeleton of a service that is not offered announces nothing.
destroyNotOffered(c) ==
  /\ life[ProcOf[c]] = "up"
  /\ KindOf[c] = "skeleton"
  /\ object[c] = "live" /\ pc[c] = "idle"
  /\ ~m_is_offered[c]
  /\ object' = [object EXCEPT ![c] = "absent"]
  /\ UNCHANGED <<life, tableVars, m_registry, wpc, m_is_offered, pc, request,
                 linkVars>>

\* Mutants of RemoveOther: the old entry stays; the whole table is cleared.
RemoveOtherNothing(p, s, op) == UNCHANGED tableVars
RemoveOtherAll(p, s, op) ==
  /\ m_some' = IF op \in AddOps
                 THEN [m_some EXCEPT ![p] = [t \in Service |-> NoEntry]] ELSE m_some
  /\ m_always' = IF op \in StopOps
                   THEN [m_always EXCEPT ![p] = [t \in Service |-> NoOp]] ELSE m_always

\* The old entry is removed from the other table, under that table's mutex.
RemoveOther(p, s, op) ==
  \/ /\ op \in AddOps
     /\ m_some' = [m_some EXCEPT ![p][s] = NoEntry]
     /\ UNCHANGED m_always
  \/ /\ op \in StopOps
     /\ m_always' = [m_always EXCEPT ![p][s] = NoOp]
     /\ UNCHANGED m_some

\* Mutants of Store: an OFFER is repeated some times only; a STOP is not stored.
StoreSomeTimes(p, s, op) ==
  /\ m_some' = [m_some EXCEPT ![p][s] = [op |-> op, count |-> 0]]
  /\ UNCHANGED m_always
StoreOffersOnly(p, s, op) ==
  /\ m_always' = IF op \in AddOps THEN [m_always EXCEPT ![p][s] = op] ELSE m_always
  /\ UNCHANGED m_some

\* The new entry goes into its own table, under that table's mutex.
Store(p, s, op) ==
  \/ /\ op \in AddOps
     /\ m_always' = [m_always EXCEPT ![p][s] = op]
     /\ UNCHANGED m_some
  \/ /\ op \in StopOps
     /\ m_some' = [m_some EXCEPT ![p][s] = [op |-> op, count |-> 0]]
     /\ UNCHANGED m_always

eraseOther(c) ==
  /\ pc[c] = "clear"
  /\ RemoveOther(ProcOf[c], ServiceOf[c], request[c])
  /\ pc' = [pc EXCEPT ![c] = "store"]
  /\ UNCHANGED <<life, m_registry, wpc, object, m_is_offered, request, linkVars>>

\* The flag of a skeleton after the request; its mutant forgets to reset it.
IsOfferedAfterStart(c) == m_is_offered[c] \/ request[c] = "OFFER"
IsOfferedAfter(c) == KindOf[c] = "skeleton" /\ request[c] = "OFFER"

(***************************************************************************)
(* The entry is stored and the request returns: a skeleton updates         *)
(* m_is_offered, an object under destruction is gone.                      *)
(***************************************************************************)
storeEntry(c) ==
  LET p == ProcOf[c]
      s == ServiceOf[c] IN
  /\ pc[c] = "store"
  /\ Store(p, s, request[c])
  /\ pc' = [pc EXCEPT ![c] = "idle"]
  /\ request' = [request EXCEPT ![c] = NoOp]
  /\ m_is_offered' = [m_is_offered EXCEPT ![c] = IsOfferedAfter(c)]
  /\ object' = [object EXCEPT ![c] = IF @ = "dying" THEN "absent" ELSE @]
  /\ lost' = [lost EXCEPT ![p] = [q \in Proc |-> [@[q] EXCEPT ![s] = 0]]]
  /\ UNCHANGED <<life, m_registry, wpc, net>>

-----------------------------------------------------------------------------
\* The writer thread: while (!m_exit) { always; some; sleep }.

loopTop(p) ==
  /\ life[p] = "up"
  /\ wpc[p] = "check"
  /\ wpc' = [wpc EXCEPT ![p] = "always"]
  /\ UNCHANGED <<life, tableVars, m_registry, clientVars, linkVars>>

send_always_message(p) ==
  /\ life[p] \in {"up", "exiting"}
  /\ wpc[p] = "always"
  /\ Transmit(p, m_always[p])
  /\ wpc' = [wpc EXCEPT ![p] = "some"]
  /\ UNCHANGED <<life, tableVars, m_registry, clientVars, lost>>

\* Mutants of Counted: one copy too many; only one copy.
CountedTooLate(entry) ==
  IF entry.op = NoOp \/ entry.count >= MAX_DISCOVERY_COUNT
    THEN NoEntry ELSE [entry EXCEPT !.count = @ + 1]
CountedOnce(entry) == NoEntry

\* An entry after one more copy of it.
Counted(entry) ==
  IF entry.op = NoOp \/ entry.count + 1 >= MAX_DISCOVERY_COUNT
    THEN NoEntry
    ELSE [entry EXCEPT !.count = @ + 1]

send_and_remove_some_time_message(p) ==
  /\ life[p] \in {"up", "exiting"}
  /\ wpc[p] = "some"
  /\ Transmit(p, [s \in Service |-> m_some[p][s].op])
  /\ m_some' = [m_some EXCEPT ![p] = [s \in Service |-> Counted(@[s])]]
  /\ wpc' = [wpc EXCEPT ![p] = "check"]
  /\ UNCHANGED <<life, m_always, m_registry, clientVars, lost>>

-----------------------------------------------------------------------------
\* Reception.

\* The oldest message leaves the link.
TakeHead(p, q, s) == net' = [net EXCEPT ![p][q][s] = Tail(@)]

updateRegistryFromServiceDiscovery(p, q, s) ==
  /\ life[q] = "up"
  /\ net[p][q][s] # <<>>
  /\ m_registry' = [m_registry EXCEPT ![q][s] =
       ApplyDiscovery(@, Head(net[p][q][s]), p, HostOf[p] = HostOf[q])]
  /\ TakeHead(p, q, s)
  /\ UNCHANGED <<life, tableVars, wpc, clientVars, lost>>

\* A best-effort reader never asks for a lost message again.
lose(p, q, s) ==
  /\ net[p][q][s] # <<>>
  /\ lost[p][q][s] < MaxLoss
  /\ lost' = [lost EXCEPT ![p][q][s] = @ + 1]
  /\ TakeHead(p, q, s)
  /\ UNCHANGED <<life, tableVars, m_registry, wpc, clientVars>>

-----------------------------------------------------------------------------
\* Life of a process.

\* What is in flight to q is dropped: its reader is gone.
DropIncoming(q) ==
  net' = [p \in Proc |-> [net[p] EXCEPT ![q] = [s \in Service |-> <<>>]]]

\* The constructor of ServiceRegistry.
start(p) ==
  /\ life[p] = "absent"
  /\ life' = [life EXCEPT ![p] = "up"]
  /\ UNCHANGED <<tableVars, m_registry, wpc, clientVars, linkVars>>

(***************************************************************************)
(* ~ServiceRegistry: the reader's callback is unset, m_exit is set, the    *)
(* writer thread is joined.  Every skeleton and proxy is gone by then.     *)
(***************************************************************************)
exit(p) ==
  /\ life[p] = "up"
  /\ \A c \in Client : ProcOf[c] = p => object[c] = "absent"
  /\ life' = [life EXCEPT ![p] = "exiting"]
  /\ DropIncoming(p)
  /\ UNCHANGED <<tableVars, m_registry, wpc, clientVars, lost>>

threadExit(p) ==
  /\ life[p] = "exiting"
  /\ wpc[p] = "check"
  /\ life' = [life EXCEPT ![p] = "exited"]
  /\ UNCHANGED <<tableVars, m_registry, wpc, clientVars, linkVars>>

\* A process killed at any point: what it wrote may still be delivered.
crash(p) ==
  /\ life[p] \in {"up", "exiting"}
  /\ life' = [life EXCEPT ![p] = "crashed"]
  /\ m_always' = [m_always EXCEPT ![p] = [s \in Service |-> NoOp]]
  /\ m_some' = [m_some EXCEPT ![p] = [s \in Service |-> NoEntry]]
  /\ m_registry' = [m_registry EXCEPT ![p] = [s \in Service |-> EmptyStatus]]
  /\ wpc' = [wpc EXCEPT ![p] = "check"]
  /\ object' = [c \in Client |-> IF ProcOf[c] = p THEN "absent" ELSE object[c]]
  /\ m_is_offered' =
       [c \in Client |-> IF ProcOf[c] = p THEN FALSE ELSE m_is_offered[c]]
  /\ pc' = [c \in Client |-> IF ProcOf[c] = p THEN "idle" ELSE pc[c]]
  /\ request' = [c \in Client |-> IF ProcOf[c] = p THEN NoOp ELSE request[c]]
  /\ DropIncoming(p)
  /\ UNCHANGED lost

-----------------------------------------------------------------------------
ClientStep(c) ==
  \/ construct(c)
  \/ offerService(c)
  \/ stopOfferService(c)
  \/ destroy(c)
  \/ destroyNotOffered(c)
  \/ eraseOther(c)
  \/ storeEntry(c)

WriterStep(p) ==
  \/ loopTop(p)
  \/ send_always_message(p)
  \/ send_and_remove_some_time_message(p)
  \/ threadExit(p)

Next ==
  \/ \E c \in Client : ClientStep(c)
  \/ \E p \in Proc : WriterStep(p) \/ start(p) \/ exit(p) \/ crash(p)
  \/ \E p, q \in Proc, s \in Service :
       updateRegistryFromServiceDiscovery(p, q, s) \/ lose(p, q, s)

Spec == Init /\ [][Next]_vars

(***************************************************************************)
(* Threads are scheduled and the transport delivers what it does not lose. *)
(* Nobody has to start, stop, crash or lose anything.  In the code a write *)
(* never waits, so weak fairness of the writer thread is all it needs; the *)
(* strong fairness here only makes up for MaxInFlight, the model's bound,  *)
(* which another client can make a write wait for again and again.         *)
(***************************************************************************)
Fairness ==
  /\ \A c \in Client : WF_vars(eraseOther(c) \/ storeEntry(c))
  /\ \A p \in Proc : SF_vars(WriterStep(p))
  /\ \A p, q \in Proc, s \in Service :
       WF_vars(updateRegistryFromServiceDiscovery(p, q, s))

FairSpec == Spec /\ Fairness

-----------------------------------------------------------------------------
\* Type invariant of the tables, links, registries, threads and clients.
TypeOK ==
  /\ life \in [Proc -> {"absent", "up", "exiting", "exited", "crashed"}]
  /\ m_always \in [Proc -> [Service -> AddOps \cup {NoOp}]]
  /\ m_some \in [Proc -> [Service ->
       [op : StopOps \cup {NoOp}, count : 0 .. MAX_DISCOVERY_COUNT - 1]]]
  /\ m_registry \in [Proc -> [Service -> [StatusField -> SUBSET Proc]]]
  /\ wpc \in [Proc -> {"check", "always", "some"}]
  /\ object \in [Client -> {"absent", "live", "dying"}]
  /\ m_is_offered \in [Client -> BOOLEAN]
  /\ pc \in [Client -> {"idle", "clear", "store"}]
  /\ request \in [Client -> Operation \cup {NoOp}]
  /\ net \in [Proc -> [Proc -> [Service -> Seq(Operation)]]]
  /\ lost \in [Proc -> [Proc -> [Service -> Nat]]]

\* A client whose last completed request was an OFFER or a FIND.
Standing(c) ==
  object[c] = "live" /\ (KindOf[c] = "skeleton" => m_is_offered[c])

\* No request of the client is under way in a process that runs.
Settled(c) == life[ProcOf[c]] = "up" /\ pc[c] = "idle"

(***************************************************************************)
(* A process never repeats both "this service is here" and "this service   *)
(* has stopped": the two tables never hold entries for one service at the  *)
(* same time, at any point of any request                                  *)
(* (requestDiscoveryOperation's "remove them" comments).  With one client   *)
(* of a service per process they do not, with two on two threads they may. *)
(***************************************************************************)
TablesDisjoint ==
  \A p \in Proc, s \in Service :
    m_always[p][s] # NoOp => m_some[p][s].op = NoOp

(***************************************************************************)
(* While a skeleton offers (isOffered()) or a proxy exists, its process    *)
(* keeps announcing it, with the right operation; otherwise the writer     *)
(* thread announces nothing of the kind.  This is what late joiners and    *)
(* receivers that lost a message depend on.                                *)
(***************************************************************************)
AnnouncementMatchesClient ==
  \A c \in Client :
    Settled(c) =>
      m_always[ProcOf[c]][ServiceOf[c]] = IF Standing(c) THEN StartOp(c) ELSE NoOp

\* q lists p as a provider or a consumer of s.
Listed(q, s, p) == \E f \in StatusField : p \in m_registry[q][s][f]

(***************************************************************************)
(* No ghosts: once a process has withdrawn a service and has sent its      *)
(* copies of the STOP, a receiver that has processed what reached it, and  *)
(* lost fewer than MAX_DISCOVERY_COUNT messages since, does not list the   *)
(* process any more - whatever OFFERs the writer thread interleaved with   *)
(* the request.                                                            *)
(***************************************************************************)
NoGhost ==
  \A c \in Client, q \in Proc :
    LET p == ProcOf[c]
        s == ServiceOf[c] IN
    /\ Settled(c) /\ ~Standing(c) /\ life[q] = "up"
    /\ m_some[p][s].op = NoOp
    /\ net[p][q][s] = <<>>
    /\ lost[p][q][s] < MAX_DISCOVERY_COUNT
    => ~Listed(q, s, p)

\* The set of q's status that c belongs in.
FieldAt(c, q) ==
  IF KindOf[c] = "skeleton"
    THEN IF HostOf[ProcOf[c]] = HostOf[q] THEN "localProviders" ELSE "remoteProviders"
    ELSE IF HostOf[ProcOf[c]] = HostOf[q] THEN "localConsumers" ELSE "remoteConsumers"

(***************************************************************************)
(* A service that stays offered, or looked for, is eventually known for    *)
(* good to every process that stays up, in the set that says whether it is *)
(* on the same host: the periodic OFFER reaches late joiners and repairs   *)
(* losses.                                                                 *)
(***************************************************************************)
OfferSpreads ==
  \A c \in Client, q \in Proc :
    <>[](Settled(c) /\ Standing(c) /\ life[q] = "up")
      => <>[](ProcOf[c] \in m_registry[q][ServiceOf[c]][FieldAt(c, q)])

(***************************************************************************)
(* A service that stays withdrawn is eventually forgotten for good by      *)
(* every process that stays up, when a link loses fewer messages after a   *)
(* request than the STOP is repeated.                                      *)
(***************************************************************************)
StopSpreads ==
  \A c \in Client, q \in Proc :
    <>[](Settled(c) /\ ~Standing(c) /\ life[q] = "up")
      => <>[](~Listed(q, ServiceOf[c], ProcOf[c]))

-----------------------------------------------------------------------------
\* What the comments of the code say of every deployment, exclusive or not.

(***************************************************************************)
(* "offer and find need send always" (requestDiscoveryOperation): while a  *)
(* skeleton offers or a proxy exists, its process repeats the announcement.*)
(***************************************************************************)
OfferSentAlways ==
  \A c \in Client :
    Settled(c) /\ Standing(c) => m_always[ProcOf[c]][ServiceOf[c]] = StartOp(c)

(***************************************************************************)
(* "stop offer and stop find need send some time": a process that ended in *)
(* order, all its skeletons and proxies destroyed, is listed nowhere once  *)
(* all it sent is processed.                                               *)
(***************************************************************************)
ExitLeavesNoGhost ==
  \A p, q \in Proc, s \in Service :
    life[p] = "exited" /\ life[q] = "up" /\ net[p][q][s] = <<>>
      => ~Listed(q, s, p)

=============================================================================
