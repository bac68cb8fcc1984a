--------------------------- MODULE DiscoveryProofs ---------------------------
(***************************************************************************)
(* Theorems about Discovery, for any number of processes, services,        *)
(* clients and STOP copies.                                                *)
(***************************************************************************)
EXTENDS Discovery, SequenceTheorems, TLAPS

Link == [Service -> Seq(Operation)]

-----------------------------------------------------------------------------
\* Type correctness.

\* A write keeps the links sequences of operations.
LEMMA TransmitType ==
  ASSUME TypeOK, NEW p \in Proc, NEW m \in [Service -> Operation \cup {NoOp}],
         Transmit(p, m)
  PROVE  net' \in [Proc -> [Proc -> Link]]
<1> DEFINE L == [q \in Proc |-> [s \in Service |->
                   IF life[q] = "up" /\ m[s] # NoOp
                     THEN Append(net[p][q][s], m[s]) ELSE net[p][q][s]]]
<1>1. net \in [Proc -> [Proc -> Link]]
  BY DEF TypeOK, Link
<1>2. ASSUME NEW q \in Proc, NEW s \in Service PROVE L[q][s] \in Seq(Operation)
  <2>1. net[p][q][s] \in Seq(Operation)
    BY <1>1 DEF Link
  <2>2. CASE life[q] = "up" /\ m[s] # NoOp
    <3>1. m[s] \in Operation
      BY <2>2
    <3> QED
      BY <2>1, <2>2, <3>1, AppendProperties
  <2>3. CASE ~(life[q] = "up" /\ m[s] # NoOp)
    BY <2>1, <2>3
  <2> QED
    BY <2>2, <2>3
<1>3. L \in [Proc -> Link]
  BY <1>2 DEF Link
<1>4. net' = [net EXCEPT ![p] = L]
  BY DEF Transmit
<1> QED
  BY <1>1, <1>3, <1>4

\* So does dropping what is in flight to a process.
LEMMA DropType ==
  ASSUME TypeOK, NEW q \in Proc, DropIncoming(q)
  PROVE  net' \in [Proc -> [Proc -> Link]]
<1>1. net \in [Proc -> [Proc -> Link]]
  BY DEF TypeOK, Link
<1>2. [s \in Service |-> <<>>] \in Link
  BY DEF Link
<1>3. ASSUME NEW p \in Proc
      PROVE  [net[p] EXCEPT ![q] = [s \in Service |-> <<>>]] \in [Proc -> Link]
  BY <1>1, <1>2
<1> QED
  BY <1>3 DEF DropIncoming

\* A message moves its sender in or out of one of the four sets.
LEMMA ApplyType ==
  ASSUME NEW status \in [StatusField -> SUBSET Proc], NEW op \in Operation,
         NEW p \in Proc, NEW local \in BOOLEAN
  PROVE  ApplyDiscovery(status, op, p, local) \in [StatusField -> SUBSET Proc]
<1>1. FieldOf(op, local) \in StatusField
  BY DEF FieldOf, StatusField
<1>2. CASE op \in AddOps
  BY <1>1, <1>2 DEF ApplyDiscovery
<1>3. CASE op \notin AddOps
  BY <1>1, <1>3 DEF ApplyDiscovery
<1> QED
  BY <1>2, <1>3

SomeEntry == [op : StopOps \cup {NoOp}, count : 0 .. MAX_DISCOVERY_COUNT - 1]

LEMMA CountedType ==
  ASSUME NEW e \in SomeEntry
  PROVE  Counted(e) \in SomeEntry
BY BoundAssumption DEF SomeEntry, Counted, NoEntry

LEMMA NoEntryType == NoEntry \in SomeEntry
BY BoundAssumption DEF SomeEntry, NoEntry

\* What a request does to the tables keeps them tables.
LEMMA RemoveOtherType ==
  ASSUME TypeOK, NEW p \in Proc, NEW s \in Service, NEW op, RemoveOther(p, s, op)
  PROVE  /\ m_always' \in [Proc -> [Service -> AddOps \cup {NoOp}]]
         /\ m_some' \in [Proc -> [Service -> SomeEntry]]
<1>1. CASE op \in AddOps /\ m_some' = [m_some EXCEPT ![p][s] = NoEntry] /\ UNCHANGED m_always
  BY <1>1, NoEntryType DEF TypeOK, SomeEntry
<1>2. CASE op \in StopOps /\ m_always' = [m_always EXCEPT ![p][s] = NoOp] /\ UNCHANGED m_some
  BY <1>2 DEF TypeOK, SomeEntry
<1> QED
  BY <1>1, <1>2 DEF RemoveOther

LEMMA StoreType ==
  ASSUME TypeOK, NEW p \in Proc, NEW s \in Service, NEW op, Store(p, s, op)
  PROVE  /\ m_always' \in [Proc -> [Service -> AddOps \cup {NoOp}]]
         /\ m_some' \in [Proc -> [Service -> SomeEntry]]
<1> DEFINE e == [op |-> op, count |-> 0]
<1>1. CASE op \in AddOps /\ m_always' = [m_always EXCEPT ![p][s] = op] /\ UNCHANGED m_some
  BY <1>1 DEF TypeOK, SomeEntry
<1>2. CASE op \in StopOps /\ m_some' = [m_some EXCEPT ![p][s] = e] /\ UNCHANGED m_always
  <2>1. e \in SomeEntry
    BY <1>2, BoundAssumption DEF SomeEntry
  <2> HIDE DEF e
  <2> QED
    BY <1>2, <2>1 DEF TypeOK, SomeEntry
<1> QED
  BY <1>1, <1>2 DEF Store

\* Every variable keeps its type.
THEOREM TypeCorrect == Spec => []TypeOK
<1>1. Init => TypeOK
  <2> SUFFICES ASSUME Init PROVE TypeOK
    OBVIOUS
  <2>1. m_some \in [Proc -> [Service -> SomeEntry]]
    BY NoEntryType DEF Init
  <2>2. net \in [Proc -> [Proc -> [Service -> Seq(Operation)]]]
    BY DEF Init
  <2>3. m_registry \in [Proc -> [Service -> [StatusField -> SUBSET Proc]]]
    BY DEF Init, EmptyStatus
  <2>4. lost \in [Proc -> [Proc -> [Service -> Nat]]]
    BY DEF Init
  <2> QED
    BY <2>1, <2>2, <2>3, <2>4 DEF Init, TypeOK, SomeEntry
<1>2. TypeOK /\ [Next]_vars => TypeOK'
  <2> SUFFICES ASSUME TypeOK, [Next]_vars PROVE TypeOK'
    OBVIOUS
  <2> USE DEF Link
  <2>1. ASSUME NEW c \in Client, NEW op \in Operation, beginRequest(c, op),
               object' \in [Client -> {"absent", "live", "dying"}]
        PROVE  TypeOK'
    <3>1. [s \in Service |-> IF s = ServiceOf[c] THEN op ELSE NoOp]
            \in [Service -> Operation \cup {NoOp}]
      OBVIOUS
    <3>2. ProcOf[c] \in Proc
      BY ClientAssumption
    <3>3. net' \in [Proc -> [Proc -> Link]]
      BY <2>1, <3>1, <3>2, TransmitType DEF beginRequest
    <3> QED
      BY <2>1, <3>3 DEF TypeOK, beginRequest, tableVars
  <2>2. ASSUME NEW c \in Client, construct(c) PROVE TypeOK'
    BY <2>1, <2>2 DEF construct, StartOp, Operation, AddOps, TypeOK
  <2>3. ASSUME NEW c \in Client, offerService(c) PROVE TypeOK'
    BY <2>1, <2>3 DEF offerService, Operation, AddOps, TypeOK
  <2>4. ASSUME NEW c \in Client, stopOfferService(c) PROVE TypeOK'
    BY <2>1, <2>4 DEF stopOfferService, Operation, StopOps, TypeOK
  <2>5. ASSUME NEW c \in Client, destroy(c) PROVE TypeOK'
    BY <2>1, <2>5 DEF destroy, StopOp, Operation, StopOps, TypeOK
  <2>6. ASSUME NEW c \in Client, destroyNotOffered(c) PROVE TypeOK'
    BY <2>6 DEF destroyNotOffered, TypeOK, tableVars, linkVars
  <2>7. ASSUME NEW c \in Client, eraseOther(c) PROVE TypeOK'
    <3> RemoveOther(ProcOf[c], ServiceOf[c], request[c])
      BY <2>7 DEF eraseOther
    <3> QED
      BY <2>7, RemoveOtherType, ClientAssumption
      DEF eraseOther, TypeOK, SomeEntry, linkVars
  <2>8. ASSUME NEW c \in Client, storeEntry(c) PROVE TypeOK'
    <3>1. Store(ProcOf[c], ServiceOf[c], request[c])
      BY <2>8 DEF storeEntry
    <3>2. /\ m_always' \in [Proc -> [Service -> AddOps \cup {NoOp}]]
          /\ m_some' \in [Proc -> [Service -> SomeEntry]]
      BY <3>1, StoreType, ClientAssumption
    <3>4. lost' \in [Proc -> [Proc -> [Service -> Nat]]]
      BY <2>8 DEF storeEntry, TypeOK
    <3>5. m_is_offered' \in [Client -> BOOLEAN]
      BY <2>8 DEF storeEntry, IsOfferedAfter, TypeOK
    <3> QED
      BY <2>8, <3>2, <3>4, <3>5 DEF storeEntry, TypeOK, SomeEntry
  <2>9. ASSUME NEW p \in Proc, loopTop(p) PROVE TypeOK'
    BY <2>9 DEF loopTop, TypeOK, tableVars, clientVars, linkVars
  <2>10. ASSUME NEW p \in Proc, send_always_message(p) PROVE TypeOK'
    <3>1. m_always[p] \in [Service -> Operation \cup {NoOp}]
      BY DEF TypeOK, Operation
    <3>2. net' \in [Proc -> [Proc -> Link]]
      BY <2>10, <3>1, TransmitType DEF send_always_message
    <3> QED
      BY <2>10, <3>2 DEF send_always_message, TypeOK, tableVars, clientVars
  <2>11. ASSUME NEW p \in Proc, send_and_remove_some_time_message(p) PROVE TypeOK'
    <3> DEFINE m == [s \in Service |-> m_some[p][s].op]
    <3>1. m_some \in [Proc -> [Service -> SomeEntry]]
      BY DEF TypeOK, SomeEntry
    <3>2. m \in [Service -> Operation \cup {NoOp}]
      BY <3>1 DEF SomeEntry, Operation
    <3>3. net' \in [Proc -> [Proc -> Link]]
      BY <2>11, <3>2, TransmitType DEF send_and_remove_some_time_message
    <3>4. [s \in Service |-> Counted(m_some[p][s])] \in [Service -> SomeEntry]
      BY <3>1, CountedType
    <3>5. m_some' \in [Proc -> [Service -> SomeEntry]]
      BY <2>11, <3>1, <3>4 DEF send_and_remove_some_time_message
    <3> QED
      BY <2>11, <3>3, <3>5
      DEF send_and_remove_some_time_message, TypeOK, SomeEntry, clientVars
  <2>12. ASSUME NEW p \in Proc, threadExit(p) PROVE TypeOK'
    BY <2>12 DEF threadExit, TypeOK, tableVars, clientVars, linkVars
  <2>13. ASSUME NEW p \in Proc, start(p) PROVE TypeOK'
    BY <2>13 DEF start, TypeOK, tableVars, clientVars, linkVars
  <2>14. ASSUME NEW p \in Proc, exit(p) PROVE TypeOK'
    <3>1. net' \in [Proc -> [Proc -> Link]]
      BY <2>14, DropType DEF exit
    <3> QED
      BY <2>14, <3>1 DEF exit, TypeOK, tableVars, clientVars
  <2>15. ASSUME NEW p \in Proc, crash(p) PROVE TypeOK'
    <3>1. net' \in [Proc -> [Proc -> Link]]
      BY <2>15, DropType DEF crash
    <3>2. m_some' \in [Proc -> [Service -> SomeEntry]]
      BY <2>15, NoEntryType DEF crash, TypeOK, SomeEntry
    <3>3. m_registry' \in [Proc -> [Service -> [StatusField -> SUBSET Proc]]]
      BY <2>15 DEF crash, TypeOK, EmptyStatus
    <3>4. m_always' \in [Proc -> [Service -> AddOps \cup {NoOp}]]
      BY <2>15 DEF crash, TypeOK
    <3> QED
      BY <2>15, <3>1, <3>2, <3>3, <3>4 DEF crash, TypeOK, SomeEntry
  <2>16. ASSUME NEW p \in Proc, NEW q \in Proc, NEW s \in Service,
                updateRegistryFromServiceDiscovery(p, q, s)
         PROVE  TypeOK'
    <3>1. /\ net[p][q][s] \in Seq(Operation) /\ net[p][q][s] # <<>>
          /\ m_registry[q][s] \in [StatusField -> SUBSET Proc]
      BY <2>16 DEF updateRegistryFromServiceDiscovery, TypeOK
    <3>2. /\ Head(net[p][q][s]) \in Operation
          /\ Tail(net[p][q][s]) \in Seq(Operation)
      BY <3>1, HeadTailProperties
    <3>3. ApplyDiscovery(m_registry[q][s], Head(net[p][q][s]), p,
                         HostOf[p] = HostOf[q]) \in [StatusField -> SUBSET Proc]
      BY <3>1, <3>2, ApplyType
    <3>4. m_registry' \in [Proc -> [Service -> [StatusField -> SUBSET Proc]]]
      BY <2>16, <3>3 DEF updateRegistryFromServiceDiscovery, TypeOK
    <3>5. net' \in [Proc -> [Proc -> Link]]
      BY <2>16, <3>2 DEF updateRegistryFromServiceDiscovery, TakeHead, TypeOK
    <3> QED
      BY <2>16, <3>4, <3>5
      DEF updateRegistryFromServiceDiscovery, TypeOK, tableVars, clientVars
  <2>17. ASSUME NEW p \in Proc, NEW q \in Proc, NEW s \in Service, lose(p, q, s)
         PROVE  TypeOK'
    <3>1. net[p][q][s] \in Seq(Operation) /\ net[p][q][s] # <<>>
      BY <2>17 DEF lose, TypeOK
    <3>2. Tail(net[p][q][s]) \in Seq(Operation)
      BY <3>1, HeadTailProperties
    <3>3. net' \in [Proc -> [Proc -> Link]]
      BY <2>17, <3>2 DEF lose, TakeHead, TypeOK
    <3>4. lost' \in [Proc -> [Proc -> [Service -> Nat]]]
      BY <2>17 DEF lose, TypeOK
    <3> QED
      BY <2>17, <3>3, <3>4 DEF lose, TypeOK, tableVars, clientVars
  <2>18. CASE UNCHANGED vars
    BY <2>18 DEF vars, tableVars, clientVars, linkVars, TypeOK
  <2> QED
    BY <2>2, <2>3, <2>4, <2>5, <2>6, <2>7, <2>8, <2>9, <2>10, <2>11, <2>12,
       <2>13, <2>14, <2>15, <2>16, <2>17, <2>18
    DEF Next, ClientStep, WriterStep
<1> QED
  BY <1>1, <1>2, PTL DEF Spec

-----------------------------------------------------------------------------
\* The tables and the clients.

\* The entries of the service of c in its process.
AlwaysOf(c) == m_always[ProcOf[c]][ServiceOf[c]]
SomeOf(c)   == m_some[ProcOf[c]][ServiceOf[c]]

\* Where a client is in its life.
ObjectInv(c) ==
  /\ object[c] # "absent" => life[ProcOf[c]] = "up"
  /\ object[c] = "absent" => pc[c] = "idle" /\ ~m_is_offered[c]
  /\ object[c] = "dying" => pc[c] # "idle" /\ request[c] = StopOp(c)
  /\ KindOf[c] = "proxy" /\ object[c] = "live" /\ pc[c] # "idle"
       => request[c] = StartOp(c)
  /\ pc[c] # "idle" => request[c] \in {StartOp(c), StopOp(c)}

(***************************************************************************)
(* What the entries are at each point of a request.  Disjointness alone is *)
(* not inductive: storing one kind of entry keeps it only because the step *)
(* before removed the other kind, and nothing put it back in between.      *)
(***************************************************************************)
TablesInv(c) ==
  /\ AlwaysOf(c) \in {NoOp, StartOp(c)}
  /\ SomeOf(c).op \in {NoOp, StopOp(c)}
  /\ AlwaysOf(c) # NoOp => SomeOf(c).op = NoOp
  /\ pc[c] = "idle" => AlwaysOf(c) = IF Standing(c) THEN StartOp(c) ELSE NoOp
  /\ pc[c] = "store" =>
       IF request[c] = StartOp(c) THEN SomeOf(c).op = NoOp ELSE AlwaysOf(c) = NoOp

ClientInv == \A c \in Client : ObjectInv(c) /\ TablesInv(c)

\* No entry for a service without a client.
UnownedInv ==
  \A p \in Proc, s \in Service :
    (\A c \in Client : ~(ProcOf[c] = p /\ ServiceOf[c] = s))
      => m_always[p][s] = NoOp /\ m_some[p][s].op = NoOp

\* OFFER and FIND are added, their STOPs are not; neither is NoOp.
LEMMA OperationFacts ==
  ASSUME NEW c \in Client
  PROVE  /\ StartOp(c) \in AddOps /\ StartOp(c) \notin StopOps
         /\ StopOp(c) \in StopOps /\ StopOp(c) \notin AddOps
         /\ StartOp(c) # NoOp /\ StopOp(c) # NoOp /\ StartOp(c) # StopOp(c)
         /\ KindOf[c] = "skeleton" => (StartOp(c) = "OFFER" /\ StopOp(c) = "STOP_OFFER")
         /\ KindOf[c] # "skeleton" => (StartOp(c) = "FIND" /\ StopOp(c) = "STOP_FIND")
BY NoOpAssumption DEF StartOp, StopOp, AddOps, StopOps, Operation

LEMMA Homes == ASSUME NEW c \in Client
               PROVE  /\ ProcOf[c] \in Proc /\ ServiceOf[c] \in Service
                      /\ KindOf[c] \in {"skeleton", "proxy"}
BY ClientAssumption

\* A request edits the entries of its own client only.
LEMMA RemoveOtherEffect ==
  ASSUME TypeOK, ExclusiveClients, NEW d \in Client, NEW op \in AddOps \cup StopOps,
         RemoveOther(ProcOf[d], ServiceOf[d], op), NEW c \in Client
  PROVE  /\ c # d => AlwaysOf(c)' = AlwaysOf(c) /\ SomeOf(c)' = SomeOf(c)
         /\ c = d => IF op \in AddOps
                       THEN SomeOf(c)'.op = NoOp /\ AlwaysOf(c)' = AlwaysOf(c)
                       ELSE AlwaysOf(c)' = NoOp /\ SomeOf(c)' = SomeOf(c)
<1> /\ ProcOf[d] \in Proc /\ ServiceOf[d] \in Service
    /\ ProcOf[c] \in Proc /\ ServiceOf[c] \in Service
  BY Homes
<1>0. op \in AddOps <=> op \notin StopOps
  BY DEF AddOps, StopOps
<1>1. CASE op \in AddOps /\ m_some' = [m_some EXCEPT ![ProcOf[d]][ServiceOf[d]] = NoEntry]
           /\ UNCHANGED m_always
  BY <1>1 DEF TypeOK, ExclusiveClients, AlwaysOf, SomeOf, NoEntry
<1>2. CASE op \in StopOps /\ m_always' = [m_always EXCEPT ![ProcOf[d]][ServiceOf[d]] = NoOp]
           /\ UNCHANGED m_some
  BY <1>0, <1>2 DEF TypeOK, ExclusiveClients, AlwaysOf, SomeOf
<1> QED
  BY <1>1, <1>2 DEF RemoveOther

LEMMA StoreEffect ==
  ASSUME TypeOK, ExclusiveClients, NEW d \in Client, NEW op \in AddOps \cup StopOps,
         Store(ProcOf[d], ServiceOf[d], op), NEW c \in Client
  PROVE  /\ c # d => AlwaysOf(c)' = AlwaysOf(c) /\ SomeOf(c)' = SomeOf(c)
         /\ c = d => IF op \in AddOps
                       THEN SomeOf(c)' = SomeOf(c) /\ AlwaysOf(c)' = op
                       ELSE /\ AlwaysOf(c)' = AlwaysOf(c)
                            /\ SomeOf(c)' = [op |-> op, count |-> 0]
<1> /\ ProcOf[d] \in Proc /\ ServiceOf[d] \in Service
    /\ ProcOf[c] \in Proc /\ ServiceOf[c] \in Service
  BY Homes
<1>0. op \in AddOps <=> op \notin StopOps
  BY DEF AddOps, StopOps
<1> DEFINE e == [op |-> op, count |-> 0]
<1>1. CASE op \in AddOps /\ m_always' = [m_always EXCEPT ![ProcOf[d]][ServiceOf[d]] = op]
           /\ UNCHANGED m_some
  BY <1>1 DEF TypeOK, ExclusiveClients, AlwaysOf, SomeOf
<1>2. CASE op \in StopOps /\ m_some' = [m_some EXCEPT ![ProcOf[d]][ServiceOf[d]] = e]
           /\ UNCHANGED m_always
  <2> HIDE DEF e
  <2>1. /\ c # d => AlwaysOf(c)' = AlwaysOf(c) /\ SomeOf(c)' = SomeOf(c)
        /\ c = d => AlwaysOf(c)' = AlwaysOf(c) /\ SomeOf(c)' = e
    BY <1>2 DEF TypeOK, ExclusiveClients, AlwaysOf, SomeOf
  <2> QED
    BY <2>1, <1>0, <1>2 DEF e
<1> QED
  BY <1>1, <1>2 DEF Store

\* The writer thread only lowers entries of the "some times" table.
LEMMA CountedEffect ==
  ASSUME NEW e \in SomeEntry
  PROVE  Counted(e).op \in {NoOp, e.op}
BY DEF SomeEntry, Counted, NoEntry

-----------------------------------------------------------------------------
\* The tables match the clients, always.

LEMMA ClientInit == Init => ClientInv /\ UnownedInv
<1> SUFFICES ASSUME Init PROVE ClientInv /\ UnownedInv
  OBVIOUS
<1>1. ASSUME NEW c \in Client PROVE ObjectInv(c) /\ TablesInv(c)
  BY Homes, OperationFacts
  DEF Init, ObjectInv, TablesInv, AlwaysOf, SomeOf, NoEntry, Standing
<1>2. UnownedInv
  BY DEF Init, UnownedInv, NoEntry
<1> QED
  BY <1>1, <1>2 DEF ClientInv

\* What a client c is told by a step that is not its own and leaves its
\* entries alone.
LEMMA ClientFrame ==
  ASSUME NEW c \in Client, ObjectInv(c), TablesInv(c),
         object'[c] = object[c], m_is_offered'[c] = m_is_offered[c],
         pc'[c] = pc[c], request'[c] = request[c],
         AlwaysOf(c)' = AlwaysOf(c),
         SomeOf(c)'.op \in {NoOp, SomeOf(c).op},
         object[c] # "absent" => life'[ProcOf[c]] = "up"
  PROVE  (ObjectInv(c) /\ TablesInv(c))'
BY DEF ObjectInv, TablesInv, Standing, StartOp, StopOp

LEMMA ClientStepInv ==
  ASSUME TypeOK, ExclusiveClients, ClientInv, NEW d \in Client, ClientStep(d),
         NEW c \in Client
  PROVE  (ObjectInv(c) /\ TablesInv(c))'
<1> /\ ObjectInv(c) /\ TablesInv(c) /\ ObjectInv(d) /\ TablesInv(d)
    /\ ProcOf[c] \in Proc /\ ServiceOf[c] \in Service
    /\ ProcOf[d] \in Proc /\ ServiceOf[d] \in Service
    /\ KindOf[c] \in {"skeleton", "proxy"}
  BY Homes DEF ClientInv
<1>1. CASE construct(d) \/ offerService(d) \/ stopOfferService(d) \/ destroy(d)
  <2>1. PICK op \in {StartOp(d), StopOp(d)} : beginRequest(d, op)
    BY <1>1 DEF construct, offerService, stopOfferService, destroy, StartOp, StopOp
  <2>2. AlwaysOf(c)' = AlwaysOf(c) /\ SomeOf(c)' = SomeOf(c) /\ life' = life
    BY <2>1 DEF beginRequest, tableVars, AlwaysOf, SomeOf
  <2>3. CASE c = d
    <3>1. /\ pc'[c] = "clear" /\ life[ProcOf[c]] = "up" /\ m_is_offered' = m_is_offered
          /\ request'[c] \in {StartOp(c), StopOp(c)}
      BY <2>1, <2>3 DEF beginRequest, TypeOK
    <3>2. /\ object'[c] \in {"live", "dying"}
          /\ object'[c] = "dying" => request'[c] = StopOp(c)
          /\ KindOf[c] = "proxy" /\ object'[c] = "live" => request'[c] = StartOp(c)
      BY <1>1, <2>3
      DEF construct, offerService, stopOfferService, destroy, beginRequest, TypeOK
    <3> QED
      BY <2>2, <3>1, <3>2 DEF ObjectInv, TablesInv, StartOp, StopOp
  <2>4. CASE c # d
    <3>1. /\ pc'[c] = pc[c] /\ request'[c] = request[c] /\ object'[c] = object[c]
          /\ m_is_offered'[c] = m_is_offered[c]
      BY <1>1, <2>1, <2>4
      DEF construct, offerService, stopOfferService, destroy, beginRequest, TypeOK
    <3> QED
      BY <2>2, <3>1, ClientFrame DEF ObjectInv
  <2> QED
    BY <2>3, <2>4
<1>2. CASE destroyNotOffered(d)
  <2>1. AlwaysOf(c)' = AlwaysOf(c) /\ SomeOf(c)' = SomeOf(c) /\ life' = life
    BY <1>2 DEF destroyNotOffered, tableVars, AlwaysOf, SomeOf
  <2>2. CASE c = d
    BY <1>2, <2>1, <2>2
    DEF destroyNotOffered, TypeOK, ObjectInv, TablesInv, Standing, StartOp, StopOp
  <2>3. CASE c # d
    <3>1. /\ pc' = pc /\ request' = request /\ m_is_offered' = m_is_offered
          /\ object'[c] = object[c]
      BY <1>2, <2>3 DEF destroyNotOffered, TypeOK
    <3> QED
      BY <2>1, <3>1, ClientFrame DEF ObjectInv
  <2> QED
    BY <2>2, <2>3
<1>3. CASE eraseOther(d)
  <2>1. /\ request[d] \in {StartOp(d), StopOp(d)}
        /\ RemoveOther(ProcOf[d], ServiceOf[d], request[d])
    BY <1>3 DEF eraseOther, ObjectInv
  <2>2. request[d] \in AddOps \cup StopOps
    BY <2>1, OperationFacts
  <2>3. CASE c = d
    <3>1. /\ pc'[c] = "store" /\ request' = request /\ object' = object
          /\ life' = life /\ m_is_offered' = m_is_offered
      BY <1>3, <2>3 DEF eraseOther, TypeOK
    <3>2. IF request[c] = StartOp(c)
            THEN SomeOf(c)'.op = NoOp /\ AlwaysOf(c)' = AlwaysOf(c)
            ELSE AlwaysOf(c)' = NoOp /\ SomeOf(c)' = SomeOf(c)
      BY <2>1, <2>2, <2>3, RemoveOtherEffect, OperationFacts
    <3>3. ObjectInv(c)'
      BY <1>3, <2>1, <2>3, <3>1 DEF ObjectInv, eraseOther, StartOp, StopOp
    <3>4. TablesInv(c)'
      BY <3>1, <3>2 DEF TablesInv, StartOp, StopOp
    <3> QED
      BY <3>3, <3>4
  <2>4. CASE c # d
    <3>1. AlwaysOf(c)' = AlwaysOf(c) /\ SomeOf(c)' = SomeOf(c)
      BY <2>1, <2>2, <2>4, RemoveOtherEffect
    <3>2. /\ pc'[c] = pc[c] /\ request' = request /\ m_is_offered' = m_is_offered
          /\ object' = object /\ life' = life
      BY <1>3, <2>4 DEF eraseOther, TypeOK
    <3> QED
      BY <3>1, <3>2, ClientFrame DEF ObjectInv
  <2> QED
    BY <2>3, <2>4
<1>4. CASE storeEntry(d)
  <2>1. /\ request[d] \in {StartOp(d), StopOp(d)}
        /\ Store(ProcOf[d], ServiceOf[d], request[d])
    BY <1>4 DEF storeEntry, ObjectInv
  <2>2. request[d] \in AddOps \cup StopOps
    BY <2>1, OperationFacts
  <2>3. CASE c = d
    <3>1. /\ pc[c] = "store" /\ pc'[c] = "idle" /\ life' = life
          /\ m_is_offered'[c] = (KindOf[c] = "skeleton" /\ request[c] = "OFFER")
          /\ object'[c] = IF object[c] = "dying" THEN "absent" ELSE object[c]
      BY <1>4, <2>3 DEF storeEntry, IsOfferedAfter, TypeOK
    <3>2. IF request[c] = StartOp(c)
            THEN SomeOf(c)' = SomeOf(c) /\ AlwaysOf(c)' = StartOp(c)
            ELSE AlwaysOf(c)' = AlwaysOf(c) /\ SomeOf(c)'.op = StopOp(c)
      BY <2>1, <2>2, <2>3, StoreEffect, OperationFacts
    <3>3. Standing(c)' <=> request[c] = StartOp(c)
      BY <2>1, <2>3, <3>1, OperationFacts DEF Standing, ObjectInv, TypeOK
    <3>4. ObjectInv(c)'
      BY <2>1, <2>3, <3>1, OperationFacts DEF ObjectInv, TypeOK
    <3>5. TablesInv(c)'
      BY <2>1, <2>3, <3>1, <3>2, <3>3, OperationFacts DEF TablesInv, StartOp, StopOp
    <3> QED
      BY <3>4, <3>5
  <2>4. CASE c # d
    <3>1. AlwaysOf(c)' = AlwaysOf(c) /\ SomeOf(c)' = SomeOf(c)
      BY <2>1, <2>2, <2>4, StoreEffect
    <3>2. /\ pc'[c] = pc[c] /\ request'[c] = request[c] /\ object'[c] = object[c]
          /\ m_is_offered'[c] = m_is_offered[c] /\ life' = life
      BY <1>4, <2>4 DEF storeEntry, TypeOK
    <3> QED
      BY <3>1, <3>2, ClientFrame DEF ObjectInv
  <2> QED
    BY <2>3, <2>4
<1> QED
  BY <1>1, <1>2, <1>3, <1>4 DEF ClientStep

LEMMA OtherStepInv ==
  ASSUME TypeOK, ClientInv, NEW c \in Client,
         \/ \E p \in Proc : WriterStep(p) \/ start(p) \/ exit(p) \/ crash(p)
         \/ \E p, q \in Proc, s \in Service :
              updateRegistryFromServiceDiscovery(p, q, s) \/ lose(p, q, s)
         \/ UNCHANGED vars
  PROVE  (ObjectInv(c) /\ TablesInv(c))'
<1> /\ ObjectInv(c) /\ TablesInv(c)
    /\ ProcOf[c] \in Proc /\ ServiceOf[c] \in Service
  BY Homes DEF ClientInv
<1> USE DEF AlwaysOf, SomeOf, tableVars, clientVars, linkVars
<1>1. ASSUME NEW p \in Proc,
             loopTop(p) \/ send_always_message(p) \/ threadExit(p) \/ start(p) \/ exit(p)
      PROVE  (ObjectInv(c) /\ TablesInv(c))'
  <2>1. UNCHANGED <<tableVars, clientVars>>
    BY <1>1 DEF loopTop, send_always_message, threadExit, start, exit
  <2>2. object[c] # "absent" => life'[ProcOf[c]] = "up"
    BY <1>1 DEF loopTop, send_always_message, threadExit, start, exit, ObjectInv, TypeOK
  <2> QED
    BY <2>1, <2>2, ClientFrame
<1>2. ASSUME NEW p \in Proc, send_and_remove_some_time_message(p)
      PROVE  (ObjectInv(c) /\ TablesInv(c))'
  <2>1. UNCHANGED <<life, m_always, clientVars>>
    BY <1>2 DEF send_and_remove_some_time_message
  <2>2. SomeOf(c) \in SomeEntry
    BY DEF TypeOK, SomeEntry
  <2>3. SomeOf(c)' \in {SomeOf(c), Counted(SomeOf(c))}
    BY <1>2 DEF send_and_remove_some_time_message, TypeOK
  <2>4. SomeOf(c)'.op \in {NoOp, SomeOf(c).op}
    BY <2>2, <2>3, CountedEffect
  <2> QED
    BY <2>1, <2>4, ClientFrame DEF ObjectInv
<1>3. ASSUME NEW p \in Proc, crash(p) PROVE (ObjectInv(c) /\ TablesInv(c))'
  <2>1. CASE ProcOf[c] = p
    <3>1. /\ object'[c] = "absent" /\ pc'[c] = "idle" /\ ~m_is_offered'[c]
          /\ AlwaysOf(c)' = NoOp /\ SomeOf(c)'.op = NoOp
      BY <1>3, <2>1 DEF crash, TypeOK, NoEntry
    <3> QED
      BY <3>1 DEF ObjectInv, TablesInv, Standing
  <2>2. CASE ProcOf[c] # p
    <3>1. /\ object'[c] = object[c] /\ pc'[c] = pc[c] /\ request'[c] = request[c]
          /\ m_is_offered'[c] = m_is_offered[c] /\ life'[ProcOf[c]] = life[ProcOf[c]]
          /\ AlwaysOf(c)' = AlwaysOf(c) /\ SomeOf(c)' = SomeOf(c)
      BY <1>3, <2>2 DEF crash, TypeOK
    <3> QED
      BY <3>1, ClientFrame DEF ObjectInv
  <2> QED
    BY <2>1, <2>2
<1>4. ASSUME NEW p \in Proc, NEW q \in Proc, NEW s \in Service,
             updateRegistryFromServiceDiscovery(p, q, s) \/ lose(p, q, s)
      PROVE  (ObjectInv(c) /\ TablesInv(c))'
  <2>1. UNCHANGED <<life, tableVars, clientVars>>
    BY <1>4 DEF updateRegistryFromServiceDiscovery, lose
  <2> QED
    BY <2>1, ClientFrame DEF ObjectInv
<1>5. CASE UNCHANGED vars
  BY <1>5, ClientFrame DEF vars, ObjectInv
<1> QED
  BY <1>1, <1>2, <1>3, <1>4, <1>5 DEF WriterStep

\* Only requests store entries, and only for the service of their client.
LEMMA UnownedStep ==
  ASSUME TypeOK, UnownedInv, [Next]_vars
  PROVE  UnownedInv'
<1> SUFFICES ASSUME NEW p \in Proc, NEW s \in Service,
                    \A c \in Client : ~(ProcOf[c] = p /\ ServiceOf[c] = s)
             PROVE  m_always'[p][s] = NoOp /\ m_some'[p][s].op = NoOp
  BY DEF UnownedInv
<1>0. m_always[p][s] = NoOp /\ m_some[p][s].op = NoOp
  BY DEF UnownedInv
<1> USE DEF tableVars, clientVars, linkVars
<1>1. ASSUME NEW c \in Client, ClientStep(c)
      PROVE  m_always'[p][s] = m_always[p][s] /\ m_some'[p][s] = m_some[p][s]
  <2> ProcOf[c] \in Proc /\ ServiceOf[c] \in Service
    BY Homes
  <2>0. ~(ProcOf[c] = p /\ ServiceOf[c] = s)
    OBVIOUS
  <2>1. ASSUME NEW op, RemoveOther(ProcOf[c], ServiceOf[c], op)
        PROVE  m_always'[p][s] = m_always[p][s] /\ m_some'[p][s] = m_some[p][s]
    <3>1. CASE m_some' = [m_some EXCEPT ![ProcOf[c]][ServiceOf[c]] = NoEntry]
               /\ UNCHANGED m_always
      BY <2>0, <3>1 DEF TypeOK
    <3>2. CASE m_always' = [m_always EXCEPT ![ProcOf[c]][ServiceOf[c]] = NoOp]
               /\ UNCHANGED m_some
      BY <2>0, <3>2 DEF TypeOK
    <3> QED
      BY <2>1, <3>1, <3>2 DEF RemoveOther
  <2>2. ASSUME NEW op, Store(ProcOf[c], ServiceOf[c], op)
        PROVE  m_always'[p][s] = m_always[p][s] /\ m_some'[p][s] = m_some[p][s]
    <3> DEFINE e == [op |-> op, count |-> 0]
    <3>1. CASE m_always' = [m_always EXCEPT ![ProcOf[c]][ServiceOf[c]] = op]
               /\ UNCHANGED m_some
      BY <2>0, <3>1 DEF TypeOK
    <3>2. CASE m_some' = [m_some EXCEPT ![ProcOf[c]][ServiceOf[c]] = e]
               /\ UNCHANGED m_always
      <4> HIDE DEF e
      <4> QED
        BY <2>0, <3>2 DEF TypeOK
    <3> QED
      BY <2>2, <3>1, <3>2 DEF Store
  <2> QED
    BY <1>1, <2>1, <2>2
    DEF ClientStep, construct, offerService, stopOfferService, destroy,
        destroyNotOffered, eraseOther, storeEntry, beginRequest
<1>2. ASSUME NEW q \in Proc, send_and_remove_some_time_message(q)
      PROVE  m_always'[p][s] = NoOp /\ m_some'[p][s].op = NoOp
  <2>1. m_some[p][s] \in SomeEntry
    BY DEF TypeOK, SomeEntry
  <2>2. m_some'[p][s] \in {m_some[p][s], Counted(m_some[p][s])}
    BY <1>2 DEF send_and_remove_some_time_message, TypeOK
  <2>3. m_some'[p][s].op = NoOp
    BY <1>0, <2>1, <2>2, CountedEffect
  <2> QED
    BY <1>0, <1>2, <2>3 DEF send_and_remove_some_time_message
<1>3. ASSUME NEW q \in Proc, crash(q)
      PROVE  m_always'[p][s] = NoOp /\ m_some'[p][s].op = NoOp
  BY <1>0, <1>3 DEF crash, TypeOK, NoEntry
<1> QED
  BY <1>0, <1>1, <1>2, <1>3
  DEF Next, WriterStep, loopTop, send_always_message, threadExit, start, exit,
      updateRegistryFromServiceDiscovery, lose, vars

LEMMA ClientInvariant ==
  ASSUME ExclusiveClients
  PROVE  Spec => [](TypeOK /\ ClientInv /\ UnownedInv)
<1>1. Init => ClientInv /\ UnownedInv
  BY ClientInit
<1>2. TypeOK /\ ClientInv /\ UnownedInv /\ [Next]_vars => (ClientInv /\ UnownedInv)'
  <2> SUFFICES ASSUME TypeOK, ClientInv, UnownedInv, [Next]_vars
               PROVE  (ClientInv /\ UnownedInv)'
    OBVIOUS
  <2>1. ASSUME NEW c \in Client PROVE (ObjectInv(c) /\ TablesInv(c))'
    BY ClientStepInv, OtherStepInv DEF Next
  <2>2. UnownedInv'
    BY UnownedStep
  <2> QED
    BY <2>1, <2>2 DEF ClientInv
<1> QED
  BY <1>1, <1>2, TypeCorrect, PTL DEF Spec

(***************************************************************************)
(* When no two clients of a process share a service, the two tables of a   *)
(* process never both hold an entry for a service, at any point of any     *)
(* number of concurrent requests.                                          *)
(***************************************************************************)
THEOREM TablesStayDisjoint ==
  ASSUME ExclusiveClients
  PROVE  Spec => []TablesDisjoint
<1>1. ClientInv /\ UnownedInv => TablesDisjoint
  BY DEF ClientInv, UnownedInv, TablesInv, TablesDisjoint, AlwaysOf, SomeOf
<1> QED
  BY <1>1, ClientInvariant, PTL

(***************************************************************************)
(* Under the same assumption the writer thread announces exactly what the  *)
(* clients of its process stand for.                                       *)
(***************************************************************************)
THEOREM AnnouncementsMatch ==
  ASSUME ExclusiveClients
  PROVE  Spec => []AnnouncementMatchesClient
<1>1. ClientInv => AnnouncementMatchesClient
  BY DEF ClientInv, TablesInv, AnnouncementMatchesClient, Settled, AlwaysOf
<1> QED
  BY <1>1, ClientInvariant, PTL

-----------------------------------------------------------------------------
\* The links and the registries.

LinkOf(c, q) == net[ProcOf[c]][q][ServiceOf[c]]
LossOf(c, q) == lost[ProcOf[c]][q][ServiceOf[c]]
ListsIn(c, q, f) == ProcOf[c] \in m_registry[q][ServiceOf[c]][f]
ListsClient(c, q) == \E f \in StatusField : ListsIn(c, q, f)

\* Only c's own announcements are on its link, only in its field is it listed.
OriginInv(c, q) ==
  /\ \A i \in 1 .. Len(LinkOf(c, q)) : LinkOf(c, q)[i] \in {StartOp(c), StopOp(c)}
  /\ \A f \in StatusField : ListsIn(c, q, f) => f = FieldAt(c, q)
  /\ life[q] = "absent" \/ life[ProcOf[c]] = "absent"
       => LinkOf(c, q) = <<>> /\ ~ListsClient(c, q)

\* The last k messages of n are op.
Suffix(n, op, k) ==
  k <= Len(n) /\ \A i \in 1 .. Len(n) : i > Len(n) - k => n[i] = op

\* How many STOPs the writer thread has sent since the request.
StopsSent(c) ==
  IF SomeOf(c).op = NoOp THEN MAX_DISCOVERY_COUNT ELSE SomeOf(c).count

\* q has forgotten c and only STOPs can reach it.
Forgotten(c, q) ==
  ~ListsClient(c, q) /\ Suffix(LinkOf(c, q), StopOp(c), Len(LinkOf(c, q)))

\* Every STOP sent so far is still under way, at the end of the link, or lost.
StopsPending(c, q) ==
  \E k \in Nat : Suffix(LinkOf(c, q), StopOp(c), k) /\ k + LossOf(c, q) >= StopsSent(c)

(***************************************************************************)
(* Once a service is withdrawn, a receiver has forgotten it or has all of  *)
(* its STOPs ahead or lost: the first STOP that arrives empties the        *)
(* listing, and nothing but STOPs comes after it.                          *)
(***************************************************************************)
WithdrawnInv(c, q) ==
  Settled(c) /\ ~Standing(c) /\ life[q] = "up"
    => Forgotten(c, q) \/ StopsPending(c, q)

LinkInv == \A c \in Client, q \in Proc : OriginInv(c, q) /\ WithdrawnInv(c, q)

LEMMA SuffixAppend ==
  ASSUME NEW n \in Seq(Operation), NEW op \in Operation, NEW k \in Nat,
         Suffix(n, op, k)
  PROVE  Suffix(Append(n, op), op, k + 1)
BY AppendProperties DEF Suffix

LEMMA SuffixTail ==
  ASSUME NEW n \in Seq(Operation), n # <<>>, NEW op, NEW k \in Nat, Suffix(n, op, k)
  PROVE  /\ k < Len(n) => Suffix(Tail(n), op, k)
         /\ k = Len(n) => k - 1 \in Nat /\ Head(n) = op /\ Suffix(Tail(n), op, k - 1)
<1>1. /\ Len(n) \in Nat \ {0} /\ Head(n) = n[1] /\ Len(Tail(n)) = Len(n) - 1
      /\ \A i \in 1 .. Len(Tail(n)) : Tail(n)[i] = n[i + 1]
  BY HeadTailProperties, EmptySeq, LenProperties
<1>2. ASSUME NEW i \in 1 .. Len(Tail(n)), i + 1 > Len(n) - k PROVE Tail(n)[i] = op
  <2>1. i + 1 \in 1 .. Len(n)
    BY <1>1
  <2> QED
    BY <1>1, <1>2, <2>1 DEF Suffix
<1>3. k < Len(n) => Suffix(Tail(n), op, k)
  BY <1>1, <1>2 DEF Suffix
<1>4. k = Len(n) => k - 1 \in Nat /\ Head(n) = op /\ Suffix(Tail(n), op, k - 1)
  <2> SUFFICES ASSUME k = Len(n)
               PROVE  k - 1 \in Nat /\ Head(n) = op /\ Suffix(Tail(n), op, k - 1)
    OBVIOUS
  <2>1. n[1] = op
    BY <1>1 DEF Suffix
  <2> QED
    BY <1>1, <1>2, <2>1 DEF Suffix
<1> QED
  BY <1>3, <1>4

\* A delivered message decides one of the four sets, for its sender only.
LEMMA ApplyEffect ==
  ASSUME NEW status \in [StatusField -> SUBSET Proc], NEW op \in Operation,
         NEW p \in Proc, NEW local \in BOOLEAN, NEW x \in Proc, NEW f \in StatusField
  PROVE  x \in ApplyDiscovery(status, op, p, local)[f] <=>
           IF x = p /\ f = FieldOf(op, local) THEN op \in AddOps ELSE x \in status[f]
<1>1. FieldOf(op, local) \in StatusField
  BY DEF FieldOf, StatusField
<1> QED
  BY <1>1 DEF ApplyDiscovery

\* Both operations of c are about the set c belongs in.
LEMMA FieldFacts ==
  ASSUME NEW c \in Client, NEW q \in Proc, NEW op \in {StartOp(c), StopOp(c)}
  PROVE  /\ FieldOf(op, HostOf[ProcOf[c]] = HostOf[q]) = FieldAt(c, q)
         /\ FieldAt(c, q) \in StatusField
BY OperationFacts DEF FieldOf, FieldAt, StatusField

LEMMA LinkTypes ==
  ASSUME TypeOK, NEW c \in Client, NEW q \in Proc
  PROVE  /\ LinkOf(c, q) \in Seq(Operation) /\ LossOf(c, q) \in Nat
         /\ SomeOf(c) \in SomeEntry /\ Len(LinkOf(c, q)) \in Nat
<1>1. LinkOf(c, q) \in Seq(Operation) /\ LossOf(c, q) \in Nat /\ SomeOf(c) \in SomeEntry
  BY Homes DEF TypeOK, LinkOf, LossOf, SomeOf, SomeEntry
<1> QED
  BY <1>1, LenProperties

\* A write appends to the links of its sender.
LEMMA TransmitEffect ==
  ASSUME TypeOK, NEW p \in Proc, NEW m, Transmit(p, m), NEW c \in Client, NEW q \in Proc
  PROVE  LinkOf(c, q)' =
           IF ProcOf[c] = p /\ life[q] = "up" /\ m[ServiceOf[c]] # NoOp
             THEN Append(LinkOf(c, q), m[ServiceOf[c]]) ELSE LinkOf(c, q)
<1> ProcOf[c] \in Proc /\ ServiceOf[c] \in Service
  BY Homes
<1> DEFINE L == [r \in Proc |-> [s \in Service |->
                   IF life[r] = "up" /\ m[s] # NoOp
                     THEN Append(net[p][r][s], m[s]) ELSE net[p][r][s]]]
<1>1. net' = [net EXCEPT ![p] = L]
  BY DEF Transmit
<1>2. net'[ProcOf[c]] = IF ProcOf[c] = p THEN L ELSE net[ProcOf[c]]
  BY <1>1 DEF TypeOK
<1> QED
  BY <1>2 DEF LinkOf

LEMMA DropEffect ==
  ASSUME TypeOK, NEW p \in Proc, DropIncoming(p), NEW c \in Client, NEW q \in Proc
  PROVE  LinkOf(c, q)' = IF q = p THEN <<>> ELSE LinkOf(c, q)
<1> ProcOf[c] \in Proc /\ ServiceOf[c] \in Service
  BY Homes
<1>1. net'[ProcOf[c]] = [net[ProcOf[c]] EXCEPT ![p] = [s \in Service |-> <<>>]]
  BY DEF DropIncoming
<1>2. net'[ProcOf[c]][q] = IF q = p THEN [s \in Service |-> <<>>] ELSE net[ProcOf[c]][q]
  BY <1>1 DEF TypeOK
<1> QED
  BY <1>2 DEF LinkOf

\* Steps that leave a link, its losses and the listing alone keep LinkInv.
LEMMA LinkFrame ==
  ASSUME NEW c \in Client, NEW q \in Proc, OriginInv(c, q),
         LinkOf(c, q)' = LinkOf(c, q),
         \A f \in StatusField : ListsIn(c, q, f)' => ListsIn(c, q, f),
         life'[q] = "absent" => life[q] = "absent",
         life'[ProcOf[c]] = "absent" => life[ProcOf[c]] = "absent"
  PROVE  /\ OriginInv(c, q)'
         /\ /\ WithdrawnInv(c, q)
            /\ LossOf(c, q)' = LossOf(c, q) /\ StopsSent(c)' = StopsSent(c)
            /\ Settled(c)' /\ ~Standing(c)' /\ life'[q] = "up"
                 => Settled(c) /\ ~Standing(c) /\ life[q] = "up"
            => WithdrawnInv(c, q)'
<1>1. OriginInv(c, q)'
  BY DEF OriginInv, ListsClient, FieldAt, StartOp, StopOp
<1>2. ASSUME LossOf(c, q)' = LossOf(c, q), StopsSent(c)' = StopsSent(c)
      PROVE  /\ Forgotten(c, q) => Forgotten(c, q)'
             /\ StopsPending(c, q) => StopsPending(c, q)'
  BY <1>2 DEF Forgotten, StopsPending, ListsClient, StopOp
<1> QED
  BY <1>1, <1>2 DEF WithdrawnInv

\* A write of c's own announcement keeps the origin of what is on the link.
LEMMA OriginAppend ==
  ASSUME TypeOK, NEW c \in Client, NEW q \in Proc, OriginInv(c, q),
         NEW op \in {StartOp(c), StopOp(c)}, life[q] = "up",
         life[ProcOf[c]] # "absent", life' = life, m_registry' = m_registry,
         LinkOf(c, q)' = Append(LinkOf(c, q), op)
  PROVE  OriginInv(c, q)'
<1>1. op \in Operation
  BY OperationFacts DEF Operation
<1>2. \A i \in 1 .. Len(LinkOf(c, q)') : LinkOf(c, q)'[i] \in {StartOp(c), StopOp(c)}
  BY <1>1, LinkTypes, AppendProperties DEF OriginInv
<1> QED
  BY <1>2 DEF OriginInv, ListsIn, ListsClient, FieldAt, StartOp, StopOp

LEMMA LinkInit == Init => LinkInv
<1> SUFFICES ASSUME Init, NEW c \in Client, NEW q \in Proc
             PROVE  OriginInv(c, q) /\ WithdrawnInv(c, q)
  BY DEF LinkInv
<1>1. LinkOf(c, q) = <<>> /\ ~ListsClient(c, q) /\ life[q] = "absent"
  BY Homes DEF Init, LinkOf, ListsClient, ListsIn, EmptyStatus
<1> QED
  BY <1>1 DEF OriginInv, WithdrawnInv, ListsClient

\* A request writes to its own links; until it is stored it promises nothing.
LEMMA RequestLinkInv ==
  ASSUME TypeOK, ExclusiveClients, ClientInv, NEW d \in Client, ClientStep(d),
         NEW c \in Client, NEW q \in Proc, OriginInv(c, q), WithdrawnInv(c, q)
  PROVE  OriginInv(c, q)' /\ WithdrawnInv(c, q)'
<1> /\ ObjectInv(d) /\ TablesInv(d)
    /\ ProcOf[c] \in Proc /\ ServiceOf[c] \in Service
    /\ ProcOf[d] \in Proc /\ ServiceOf[d] \in Service
  BY Homes DEF ClientInv
<1>1. CASE construct(d) \/ offerService(d) \/ stopOfferService(d) \/ destroy(d)
  <2> DEFINE m(op) == [s \in Service |-> IF s = ServiceOf[d] THEN op ELSE NoOp]
  <2>1. PICK op \in {StartOp(d), StopOp(d)} : beginRequest(d, op)
    BY <1>1 DEF construct, offerService, stopOfferService, destroy, StartOp, StopOp
  <2>2. LinkOf(c, q)' = IF ProcOf[c] = ProcOf[d] /\ life[q] = "up" /\ m(op)[ServiceOf[c]] # NoOp
                          THEN Append(LinkOf(c, q), m(op)[ServiceOf[c]]) ELSE LinkOf(c, q)
    <3>1. Transmit(ProcOf[d], m(op))
      BY <2>1 DEF beginRequest
    <3> HIDE DEF m
    <3> QED
      BY <3>1, TransmitEffect
  <2>3. CASE c = d
    <3>1. pc'[c] = "clear"
      BY <2>1, <2>3 DEF beginRequest, TypeOK
    <3>2. WithdrawnInv(c, q)'
      BY <3>1 DEF WithdrawnInv, Settled
    <3>3. life[ProcOf[c]] = "up" /\ life' = life /\ m_registry' = m_registry
      BY <2>1, <2>3 DEF beginRequest
    <3>4. m(op)[ServiceOf[c]] = op /\ op # NoOp
      BY <2>3, OperationFacts
    <3>5. CASE life[q] = "up"
      BY <2>2, <2>3, <3>2, <3>3, <3>4, <3>5, OriginAppend
    <3>6. CASE life[q] # "up"
      <4>1. LinkOf(c, q)' = LinkOf(c, q)
        BY <2>2, <3>6
      <4> QED
        BY <3>2, <3>3, <4>1, LinkFrame DEF ListsIn
    <3> QED
      BY <3>5, <3>6
  <2>4. CASE c # d
    <3>1. ~(ProcOf[c] = ProcOf[d] /\ m(op)[ServiceOf[c]] # NoOp)
      BY <2>4 DEF ExclusiveClients
    <3>2. LinkOf(c, q)' = LinkOf(c, q)
      BY <2>2, <3>1
    <3>3. /\ life' = life /\ m_registry' = m_registry /\ lost' = lost
          /\ m_some' = m_some /\ m_is_offered' = m_is_offered
          /\ pc'[c] = pc[c] /\ object'[c] = object[c]
      BY <1>1, <2>1, <2>4
      DEF construct, offerService, stopOfferService, destroy, beginRequest,
          tableVars, TypeOK
    <3> QED
      BY <3>2, <3>3, LinkFrame
      DEF ListsIn, LossOf, StopsSent, SomeOf, Settled, Standing
  <2> QED
    BY <2>3, <2>4
<1>2. CASE destroyNotOffered(d)
  <2>1. /\ life' = life /\ m_registry' = m_registry /\ lost' = lost /\ net' = net
        /\ m_some' = m_some /\ m_is_offered' = m_is_offered /\ pc' = pc
        /\ object'[c] # object[c] => ~Standing(c)
        /\ object'[c] \in {"absent", object[c]}
    BY <1>2 DEF destroyNotOffered, tableVars, linkVars, TypeOK, Standing
  <2> QED
    BY <2>1, LinkFrame
    DEF ListsIn, LinkOf, LossOf, StopsSent, SomeOf, Settled, Standing
<1>3. CASE eraseOther(d)
  <2>1. /\ life' = life /\ m_registry' = m_registry /\ lost' = lost /\ net' = net
        /\ m_is_offered' = m_is_offered /\ object' = object
        /\ pc' = [pc EXCEPT ![d] = "store"]
    BY <1>3 DEF eraseOther, linkVars
  <2>2. CASE c = d
    <3>1. WithdrawnInv(c, q)'
      BY <2>1, <2>2 DEF WithdrawnInv, Settled, TypeOK
    <3> QED
      BY <2>1, <3>1, LinkFrame DEF ListsIn, LinkOf
  <2>3. CASE c # d
    <3>1. /\ request[d] \in AddOps \cup StopOps
          /\ RemoveOther(ProcOf[d], ServiceOf[d], request[d])
      BY <1>3, OperationFacts DEF eraseOther, ObjectInv
    <3>2. SomeOf(c)' = SomeOf(c)
      BY <2>3, <3>1, RemoveOtherEffect
    <3>3. pc'[c] = pc[c]
      BY <2>1, <2>3 DEF TypeOK
    <3> QED
      BY <2>1, <3>2, <3>3, LinkFrame
      DEF ListsIn, LinkOf, LossOf, StopsSent, Settled, Standing
  <2> QED
    BY <2>2, <2>3
<1>4. CASE storeEntry(d)
  <2>1. /\ life' = life /\ m_registry' = m_registry /\ net' = net
        /\ request[d] \in {StartOp(d), StopOp(d)}
        /\ request[d] \in AddOps \cup StopOps
        /\ Store(ProcOf[d], ServiceOf[d], request[d])
    BY <1>4, OperationFacts DEF storeEntry, ObjectInv
  <2>2. OriginInv(c, q)'
    BY <2>1, LinkFrame DEF ListsIn, LinkOf
  <2>3. CASE c = d
    <3>1. CASE request[c] = StartOp(c)
      <4>1. object[c] # "dying"
        BY <2>3, <3>1, OperationFacts DEF ObjectInv
      <4>2. object'[c] = object[c] /\ object[c] = "live"
        BY <1>4, <2>3, <4>1 DEF storeEntry, ObjectInv, TypeOK
      <4>3. KindOf[c] = "skeleton" => m_is_offered'[c]
        BY <1>4, <2>3, <3>1, OperationFacts DEF storeEntry, IsOfferedAfter, TypeOK
      <4> QED
        BY <2>2, <4>2, <4>3 DEF WithdrawnInv, Standing
    <3>2. CASE request[c] = StopOp(c)
      <4>1. SomeOf(c)' = [op |-> StopOp(c), count |-> 0]
        BY <2>1, <2>3, <3>2, StoreEffect, OperationFacts
      <4>2. StopsSent(c)' = 0
        BY <4>1, OperationFacts DEF StopsSent
      <4>3. LossOf(c, q)' = 0
        BY <1>4, <2>3 DEF storeEntry, LossOf, TypeOK
      <4>4. Suffix(LinkOf(c, q)', StopOp(c)', 0)
        BY <2>1, LinkTypes DEF Suffix, LinkOf
      <4> QED
        BY <2>2, <4>2, <4>3, <4>4 DEF WithdrawnInv, StopsPending
    <3> QED
      BY <2>1, <2>3, <3>1, <3>2
  <2>4. CASE c # d
    <3>1. SomeOf(c)' = SomeOf(c)
      BY <2>1, <2>4, StoreEffect
    <3>2. /\ pc'[c] = pc[c] /\ object'[c] = object[c]
          /\ m_is_offered'[c] = m_is_offered[c]
      BY <1>4, <2>4 DEF storeEntry, TypeOK
    <3>3. LossOf(c, q)' = LossOf(c, q)
      BY <1>4, <2>4 DEF storeEntry, LossOf, TypeOK, ExclusiveClients
    <3> QED
      BY <2>1, <3>1, <3>2, <3>3, LinkFrame
      DEF ListsIn, LinkOf, StopsSent, Settled, Standing
  <2> QED
    BY <2>3, <2>4
<1> QED
  BY <1>1, <1>2, <1>3, <1>4 DEF ClientStep

\* The writer thread adds STOPs, and nothing else, to what is withdrawn.
LEMMA WriterLinkInv ==
  ASSUME TypeOK, ClientInv, NEW p \in Proc, WriterStep(p),
         NEW c \in Client, NEW q \in Proc, OriginInv(c, q), WithdrawnInv(c, q)
  PROVE  OriginInv(c, q)' /\ WithdrawnInv(c, q)'
<1> /\ ObjectInv(c) /\ TablesInv(c)
    /\ ProcOf[c] \in Proc /\ ServiceOf[c] \in Service
    /\ LinkOf(c, q) \in Seq(Operation) /\ LossOf(c, q) \in Nat
    /\ SomeOf(c) \in SomeEntry /\ Len(LinkOf(c, q)) \in Nat
  BY Homes, LinkTypes DEF ClientInv
<1>1. CASE loopTop(p) \/ threadExit(p)
  <2>1. UNCHANGED <<tableVars, m_registry, clientVars, linkVars>>
    BY <1>1 DEF loopTop, threadExit
  <2>2. \A r \in Proc : /\ life'[r] = "absent" => life[r] = "absent"
                        /\ life'[r] = "up" => life[r] = "up"
    BY <1>1 DEF loopTop, threadExit, TypeOK
  <2> QED
    BY <2>1, <2>2, LinkFrame
    DEF tableVars, clientVars, linkVars, ListsIn, LinkOf, LossOf, StopsSent, SomeOf,
        Settled, Standing
<1>2. CASE send_always_message(p)
  <2>1. UNCHANGED <<life, m_some, m_registry, clientVars, lost>>
    BY <1>2 DEF send_always_message, tableVars
  <2>2. LinkOf(c, q)' = IF ProcOf[c] = p /\ life[q] = "up" /\ AlwaysOf(c) # NoOp
                          THEN Append(LinkOf(c, q), AlwaysOf(c)) ELSE LinkOf(c, q)
    BY <1>2, TransmitEffect DEF send_always_message, AlwaysOf
  <2>3. CASE ProcOf[c] = p /\ life[q] = "up" /\ AlwaysOf(c) # NoOp
    <3>1. AlwaysOf(c) = StartOp(c) /\ (Settled(c) => Standing(c))
      BY <2>3 DEF TablesInv, Settled
    <3>2. life[ProcOf[c]] # "absent"
      BY <1>2, <2>3 DEF send_always_message
    <3>3. OriginInv(c, q)'
      BY <2>1, <2>2, <2>3, <3>1, <3>2, OriginAppend
    <3>4. Settled(c)' => Standing(c)'
      BY <2>1, <3>1 DEF clientVars, Settled, Standing
    <3> QED
      BY <3>3, <3>4 DEF WithdrawnInv
  <2>4. CASE ~(ProcOf[c] = p /\ life[q] = "up" /\ AlwaysOf(c) # NoOp)
    BY <2>1, <2>2, <2>4, LinkFrame
    DEF clientVars, ListsIn, LossOf, StopsSent, SomeOf, Settled, Standing
  <2> QED
    BY <2>3, <2>4
<1>3. CASE send_and_remove_some_time_message(p)
  <2> DEFINE m == [s \in Service |-> m_some[p][s].op]
  <2>1. UNCHANGED <<life, m_registry, clientVars, lost>>
    BY <1>3 DEF send_and_remove_some_time_message
  <2>2. LinkOf(c, q)' = IF ProcOf[c] = p /\ life[q] = "up" /\ m[ServiceOf[c]] # NoOp
                          THEN Append(LinkOf(c, q), m[ServiceOf[c]]) ELSE LinkOf(c, q)
    <3>1. Transmit(p, m)
      BY <1>3 DEF send_and_remove_some_time_message
    <3> HIDE DEF m
    <3> QED
      BY <3>1, TransmitEffect
  <2>3. SomeOf(c)' = IF ProcOf[c] = p THEN Counted(SomeOf(c)) ELSE SomeOf(c)
    BY <1>3 DEF send_and_remove_some_time_message, SomeOf, TypeOK
  <2>4. ProcOf[c] = p => m[ServiceOf[c]] = SomeOf(c).op
    BY DEF SomeOf
  <2>5. CASE ProcOf[c] # p \/ SomeOf(c).op = NoOp
    <3>1. LinkOf(c, q)' = LinkOf(c, q)
      BY <2>2, <2>4, <2>5
    <3>2. StopsSent(c)' = StopsSent(c)
      BY <2>3, <2>5 DEF StopsSent, Counted, NoEntry
    <3> QED
      BY <2>1, <3>1, <3>2, LinkFrame
      DEF clientVars, ListsIn, LossOf, Settled, Standing
  <2>6. CASE ProcOf[c] = p /\ SomeOf(c).op # NoOp
    <3>1. SomeOf(c).op = StopOp(c) /\ StopOp(c) \in Operation
      BY <2>6, OperationFacts DEF TablesInv, Operation
    <3>2. StopsSent(c)' \in Nat /\ StopsSent(c)' <= StopsSent(c) + 1
      BY <2>3, <2>6, BoundAssumption
      DEF StopsSent, Counted, NoEntry, SomeEntry
    <3>3. CASE life[q] = "up"
      <4>1. LinkOf(c, q)' = Append(LinkOf(c, q), StopOp(c))
        BY <2>2, <2>4, <2>6, <3>1, <3>3
      <4>2. life[ProcOf[c]] # "absent"
        BY <1>3, <2>6 DEF send_and_remove_some_time_message
      <4>3. OriginInv(c, q)'
        BY <2>1, <3>3, <4>1, <4>2, OriginAppend
      <4>4. Forgotten(c, q) => Forgotten(c, q)'
        <5> SUFFICES ASSUME Forgotten(c, q) PROVE Forgotten(c, q)'
          OBVIOUS
        <5>1. Suffix(LinkOf(c, q)', StopOp(c), Len(LinkOf(c, q)) + 1)
          BY <3>1, <4>1, SuffixAppend DEF Forgotten
        <5>2. Len(LinkOf(c, q)') = Len(LinkOf(c, q)) + 1
          BY <3>1, <4>1, AppendProperties
        <5> QED
          BY <2>1, <5>1, <5>2 DEF Forgotten, ListsClient, ListsIn, StopOp
      <4>5. StopsPending(c, q) => StopsPending(c, q)'
        <5> SUFFICES ASSUME NEW k \in Nat, Suffix(LinkOf(c, q), StopOp(c), k),
                            k + LossOf(c, q) >= StopsSent(c)
                     PROVE  StopsPending(c, q)'
          BY DEF StopsPending
        <5>1. Suffix(LinkOf(c, q)', StopOp(c)', k + 1)
          BY <3>1, <4>1, SuffixAppend DEF StopOp
        <5>2. LossOf(c, q)' = LossOf(c, q) /\ StopsSent(c) \in Nat
          BY <2>1, BoundAssumption DEF LossOf, StopsSent, SomeEntry
        <5>3. (k + 1) + LossOf(c, q)' >= StopsSent(c)' /\ k + 1 \in Nat
          BY <3>2, <5>2
        <5> QED
          BY <5>1, <5>3 DEF StopsPending
      <4>6. Settled(c)' /\ ~Standing(c)' => Settled(c) /\ ~Standing(c)
        BY <2>1 DEF clientVars, Settled, Standing
      <4> QED
        BY <3>3, <4>3, <4>4, <4>5, <4>6 DEF WithdrawnInv
    <3>4. CASE life[q] # "up"
      <4>1. LinkOf(c, q)' = LinkOf(c, q)
        BY <2>2, <3>4
      <4>2. OriginInv(c, q)'
        BY <2>1, <4>1, LinkFrame DEF ListsIn
      <4> QED
        BY <2>1, <3>4, <4>2 DEF WithdrawnInv
    <3> QED
      BY <3>3, <3>4
  <2> QED
    BY <2>5, <2>6
<1> QED
  BY <1>1, <1>2, <1>3 DEF WriterStep

\* Delivery and loss take the head of one link.
LEMMA HeadLeaves ==
  ASSUME TypeOK, NEW p \in Proc, NEW r \in Proc, NEW s \in Service,
         TakeHead(p, r, s), NEW c \in Client, NEW q \in Proc
  PROVE  LinkOf(c, q)' = IF ProcOf[c] = p /\ q = r /\ ServiceOf[c] = s
                           THEN Tail(LinkOf(c, q)) ELSE LinkOf(c, q)
<1> ProcOf[c] \in Proc /\ ServiceOf[c] \in Service
  BY Homes
<1>1. net \in [Proc -> [Proc -> Link]] /\ net' = [net EXCEPT ![p][r][s] = Tail(@)]
  BY DEF TypeOK, Link, TakeHead
<1>2. CASE ProcOf[c] = p /\ q = r
  <2>1. net'[p][r] = [net[p][r] EXCEPT ![s] = Tail(@)]
    BY <1>1
  <2> QED
    BY <1>1, <1>2, <2>1 DEF LinkOf, Link
<1>3. CASE ~(ProcOf[c] = p /\ q = r)
  <2>1. net'[ProcOf[c]][q] = net[ProcOf[c]][q]
    BY <1>1, <1>3
  <2> QED
    BY <1>3, <2>1 DEF LinkOf
<1> QED
  BY <1>2, <1>3

\* A delivered STOP empties the listing; a delivered message leaves the link.
LEMMA DeliverLinkInv ==
  ASSUME TypeOK, NEW p \in Proc, NEW r \in Proc, NEW s \in Service,
         updateRegistryFromServiceDiscovery(p, r, s),
         NEW c \in Client, NEW q \in Proc, OriginInv(c, q), WithdrawnInv(c, q)
  PROVE  OriginInv(c, q)' /\ WithdrawnInv(c, q)'
<1> DEFINE same == HostOf[p] = HostOf[r]
           head == Head(net[p][r][s])
<1> /\ ProcOf[c] \in Proc /\ ServiceOf[c] \in Service
    /\ LinkOf(c, q) \in Seq(Operation) /\ LossOf(c, q) \in Nat
    /\ Len(LinkOf(c, q)) \in Nat
  BY Homes, LinkTypes
<1>1. UNCHANGED <<life, m_some, object, m_is_offered, pc, lost>>
  BY DEF updateRegistryFromServiceDiscovery, tableVars, clientVars
<1>2. /\ net[p][r][s] \in Seq(Operation) /\ net[p][r][s] # <<>>
      /\ m_registry[r][s] \in [StatusField -> SUBSET Proc]
  BY DEF updateRegistryFromServiceDiscovery, TypeOK
<1>3. head \in Operation
  BY <1>2, HeadTailProperties
<1>4. \A f \in StatusField :
        ListsIn(c, q, f)' <=>
          IF q = r /\ ServiceOf[c] = s /\ ProcOf[c] = p /\ f = FieldOf(head, same)
            THEN head \in AddOps ELSE ListsIn(c, q, f)
  <2>1. m_registry'[q][ServiceOf[c]] =
          IF q = r /\ ServiceOf[c] = s
            THEN ApplyDiscovery(m_registry[r][s], head, p, same)
            ELSE m_registry[q][ServiceOf[c]]
    BY DEF updateRegistryFromServiceDiscovery, TypeOK
  <2> HIDE DEF same, head
  <2>2. same \in BOOLEAN
    BY DEF same
  <2>3. ASSUME NEW f \in StatusField
        PROVE  ProcOf[c] \in ApplyDiscovery(m_registry[r][s], head, p, same)[f] <=>
                 IF ProcOf[c] = p /\ f = FieldOf(head, same)
                   THEN head \in AddOps ELSE ProcOf[c] \in m_registry[r][s][f]
    BY <1>2, <1>3, <2>2, ApplyEffect
  <2> QED
    BY <2>1, <2>3 DEF ListsIn
<1>5. LinkOf(c, q)' = IF ProcOf[c] = p /\ q = r /\ ServiceOf[c] = s
                        THEN Tail(LinkOf(c, q)) ELSE LinkOf(c, q)
  <2>1. TakeHead(p, r, s)
    BY DEF updateRegistryFromServiceDiscovery
  <2> QED
    BY <2>1, HeadLeaves
<1>6. CASE ProcOf[c] = p /\ q = r /\ ServiceOf[c] = s
  <2>1. /\ LinkOf(c, q) # <<>> /\ LinkOf(c, q)' = Tail(LinkOf(c, q))
        /\ head = Head(LinkOf(c, q)) /\ life[q] = "up"
    BY <1>5, <1>6 DEF LinkOf, updateRegistryFromServiceDiscovery
  <2>2. /\ Len(LinkOf(c, q)) \in Nat \ {0} /\ Head(LinkOf(c, q)) = LinkOf(c, q)[1]
        /\ Len(Tail(LinkOf(c, q))) = Len(LinkOf(c, q)) - 1
        /\ \A i \in 1 .. Len(Tail(LinkOf(c, q))) :
             Tail(LinkOf(c, q))[i] = LinkOf(c, q)[i + 1]
    BY <2>1, HeadTailProperties, EmptySeq, LenProperties
  <2>3. head \in {StartOp(c), StopOp(c)}
    BY <2>1, <2>2 DEF OriginInv
  <2>4. FieldOf(head, same) = FieldAt(c, q) /\ FieldAt(c, q) \in StatusField
    BY <1>6, <2>3, FieldFacts
  <2>5. \A f \in StatusField :
          ListsIn(c, q, f)' <=> IF f = FieldAt(c, q) THEN head \in AddOps ELSE ListsIn(c, q, f)
    BY <1>4, <1>6, <2>4
  <2>6. OriginInv(c, q)'
    <3>1. \A i \in 1 .. Len(LinkOf(c, q)') : LinkOf(c, q)'[i] \in {StartOp(c), StopOp(c)}
      BY <2>1, <2>2 DEF OriginInv
    <3>2. \A f \in StatusField : ListsIn(c, q, f)' => f = FieldAt(c, q)
      BY <2>5 DEF OriginInv
    <3>3. life[q] # "absent" /\ life[ProcOf[c]] # "absent"
      BY <2>1 DEF OriginInv
    <3> QED
      BY <1>1, <3>1, <3>2, <3>3 DEF OriginInv, FieldAt, StartOp, StopOp
  <2>7. head = StopOp(c) => ~ListsClient(c, q)'
    BY <2>5, OperationFacts DEF OriginInv, ListsClient
  <2>8. Forgotten(c, q) => Forgotten(c, q)'
    <3> SUFFICES ASSUME Forgotten(c, q) PROVE Forgotten(c, q)'
      OBVIOUS
    <3>1. /\ head = StopOp(c)
          /\ Suffix(Tail(LinkOf(c, q)), StopOp(c), Len(LinkOf(c, q)) - 1)
      BY <2>1, SuffixTail DEF Forgotten
    <3> QED
      BY <2>1, <2>2, <2>7, <3>1 DEF Forgotten, StopOp
  <2>9. StopsPending(c, q) => Forgotten(c, q)' \/ StopsPending(c, q)'
    <3> SUFFICES ASSUME NEW k \in Nat, Suffix(LinkOf(c, q), StopOp(c), k),
                        k + LossOf(c, q) >= StopsSent(c)
                 PROVE  Forgotten(c, q)' \/ StopsPending(c, q)'
      BY DEF StopsPending
    <3>1. CASE k < Len(LinkOf(c, q))
      <4>1. Suffix(LinkOf(c, q)', StopOp(c)', k)
        BY <2>1, <3>1, SuffixTail DEF StopOp
      <4>2. LossOf(c, q)' = LossOf(c, q) /\ StopsSent(c)' = StopsSent(c)
        BY <1>1 DEF LossOf, StopsSent, SomeOf
      <4> QED
        BY <4>1, <4>2 DEF StopsPending
    <3>2. CASE k = Len(LinkOf(c, q))
      <4>1. /\ head = StopOp(c)
            /\ Suffix(Tail(LinkOf(c, q)), StopOp(c), Len(LinkOf(c, q)) - 1)
        BY <2>1, <3>2, SuffixTail
      <4> QED
        BY <2>1, <2>2, <2>7, <4>1 DEF Forgotten, StopOp
    <3> QED
      BY <3>1, <3>2 DEF Suffix
  <2>10. Settled(c)' /\ ~Standing(c)' => Settled(c) /\ ~Standing(c)
    BY <1>1 DEF Settled, Standing
  <2> QED
    BY <2>1, <2>6, <2>8, <2>9, <2>10 DEF WithdrawnInv
<1>7. CASE ~(ProcOf[c] = p /\ q = r /\ ServiceOf[c] = s)
  <2>1. LinkOf(c, q)' = LinkOf(c, q) /\ \A f \in StatusField : ListsIn(c, q, f)' => ListsIn(c, q, f)
    BY <1>4, <1>5, <1>7
  <2> QED
    BY <1>1, <2>1, LinkFrame DEF LossOf, StopsSent, SomeOf, Settled, Standing
<1> QED
  BY <1>6, <1>7

\* A STOP that is lost is counted.
LEMMA LoseLinkInv ==
  ASSUME TypeOK, NEW p \in Proc, NEW r \in Proc, NEW s \in Service, lose(p, r, s),
         NEW c \in Client, NEW q \in Proc, OriginInv(c, q), WithdrawnInv(c, q)
  PROVE  OriginInv(c, q)' /\ WithdrawnInv(c, q)'
<1> /\ ProcOf[c] \in Proc /\ ServiceOf[c] \in Service
    /\ LinkOf(c, q) \in Seq(Operation) /\ LossOf(c, q) \in Nat
    /\ Len(LinkOf(c, q)) \in Nat
  BY Homes, LinkTypes
<1>1. UNCHANGED <<life, m_registry, m_some, object, m_is_offered, pc>>
  BY DEF lose, tableVars, clientVars
<1>2. /\ LinkOf(c, q)' = IF ProcOf[c] = p /\ q = r /\ ServiceOf[c] = s
                           THEN Tail(LinkOf(c, q)) ELSE LinkOf(c, q)
      /\ LossOf(c, q)' = IF ProcOf[c] = p /\ q = r /\ ServiceOf[c] = s
                           THEN LossOf(c, q) + 1 ELSE LossOf(c, q)
  <2>1. TakeHead(p, r, s)
    BY DEF lose
  <2>2. lost' = [lost EXCEPT ![p][r][s] = @ + 1] /\ lost \in [Proc -> [Proc -> [Service -> Nat]]]
    BY DEF lose, TypeOK
  <2>3. CASE ProcOf[c] = p /\ q = r
    <3>1. /\ lost'[p][r] = [lost[p][r] EXCEPT ![s] = lost[p][r][s] + 1]
          /\ lost[p][r] \in [Service -> Nat]
      BY <2>2
    <3>2. lost'[p][r][ServiceOf[c]] =
            IF ServiceOf[c] = s THEN lost[p][r][ServiceOf[c]] + 1 ELSE lost[p][r][ServiceOf[c]]
      BY <3>1
    <3> QED
      BY <2>1, <2>3, <3>2, HeadLeaves DEF LossOf
  <2>4. CASE ~(ProcOf[c] = p /\ q = r)
    <3>1. lost'[ProcOf[c]][q] = lost[ProcOf[c]][q]
      BY <2>2, <2>4
    <3> QED
      BY <2>1, <2>4, <3>1, HeadLeaves DEF LossOf
  <2> QED
    BY <2>3, <2>4
<1>3. CASE ProcOf[c] = p /\ q = r /\ ServiceOf[c] = s
  <2>1. /\ LinkOf(c, q) # <<>> /\ LinkOf(c, q)' = Tail(LinkOf(c, q))
        /\ LossOf(c, q)' = LossOf(c, q) + 1
    BY <1>2, <1>3 DEF LinkOf, lose
  <2>2. /\ Len(LinkOf(c, q)) \in Nat \ {0}
        /\ Len(Tail(LinkOf(c, q))) = Len(LinkOf(c, q)) - 1
        /\ \A i \in 1 .. Len(Tail(LinkOf(c, q))) :
             Tail(LinkOf(c, q))[i] = LinkOf(c, q)[i + 1]
    BY <2>1, HeadTailProperties, EmptySeq, LenProperties
  <2>3. OriginInv(c, q)'
    <3>1. \A i \in 1 .. Len(LinkOf(c, q)') : LinkOf(c, q)'[i] \in {StartOp(c), StopOp(c)}
      BY <2>1, <2>2 DEF OriginInv
    <3> QED
      BY <1>1, <2>1, <3>1 DEF OriginInv, ListsIn, ListsClient, FieldAt, StartOp, StopOp
  <2>4. StopsSent(c)' = StopsSent(c) /\ StopsSent(c) \in Nat
    BY <1>1, LinkTypes, BoundAssumption DEF StopsSent, SomeOf, SomeEntry
  <2>5. Forgotten(c, q) => Forgotten(c, q)'
    <3>1. Suffix(LinkOf(c, q), StopOp(c), Len(LinkOf(c, q)))
            => Suffix(Tail(LinkOf(c, q)), StopOp(c), Len(LinkOf(c, q)) - 1)
      BY <2>1, SuffixTail
    <3> QED
      BY <1>1, <2>1, <2>2, <3>1 DEF Forgotten, ListsClient, ListsIn, StopOp
  <2>6. StopsPending(c, q) => StopsPending(c, q)'
    <3> SUFFICES ASSUME NEW k \in Nat, Suffix(LinkOf(c, q), StopOp(c), k),
                        k + LossOf(c, q) >= StopsSent(c)
                 PROVE  StopsPending(c, q)'
      BY DEF StopsPending
    <3>1. CASE k < Len(LinkOf(c, q))
      <4>1. Suffix(LinkOf(c, q)', StopOp(c)', k)
        BY <2>1, <3>1, SuffixTail DEF StopOp
      <4>2. k + LossOf(c, q)' >= StopsSent(c)'
        BY <2>1, <2>4
      <4> QED
        BY <4>1, <4>2 DEF StopsPending
    <3>2. CASE k = Len(LinkOf(c, q))
      <4>1. k - 1 \in Nat /\ Suffix(LinkOf(c, q)', StopOp(c)', k - 1)
        BY <2>1, <3>2, SuffixTail DEF StopOp
      <4>2. (k - 1) + LossOf(c, q)' >= StopsSent(c)'
        BY <2>1, <2>4
      <4> QED
        BY <4>1, <4>2 DEF StopsPending
    <3> QED
      BY <3>1, <3>2 DEF Suffix
  <2>7. Settled(c)' /\ ~Standing(c)' => Settled(c) /\ ~Standing(c)
    BY <1>1 DEF Settled, Standing
  <2> QED
    BY <1>1, <2>3, <2>5, <2>6, <2>7 DEF WithdrawnInv
<1>4. CASE ~(ProcOf[c] = p /\ q = r /\ ServiceOf[c] = s)
  BY <1>1, <1>2, <1>4, LinkFrame DEF ListsIn, StopsSent, SomeOf, Settled, Standing
<1> QED
  BY <1>3, <1>4

\* A process that starts has heard nothing and has sent nothing.
LEMMA LifeLinkInv ==
  ASSUME TypeOK, NEW p \in Proc, start(p) \/ exit(p) \/ crash(p),
         NEW c \in Client, NEW q \in Proc, OriginInv(c, q), WithdrawnInv(c, q)
  PROVE  OriginInv(c, q)' /\ WithdrawnInv(c, q)'
<1> ProcOf[c] \in Proc /\ ServiceOf[c] \in Service
  BY Homes
<1>1. CASE start(p)
  <2>1. /\ UNCHANGED <<tableVars, m_registry, clientVars, linkVars>>
        /\ life[p] = "absent" /\ life' = [life EXCEPT ![p] = "up"]
    BY <1>1 DEF start
  <2>2. OriginInv(c, q)'
    BY <2>1, LinkFrame DEF linkVars, ListsIn, LinkOf, TypeOK
  <2>3. CASE q = p \/ ProcOf[c] = p
    <3>1. LinkOf(c, q) = <<>> /\ ~ListsClient(c, q)
      BY <2>1, <2>3 DEF OriginInv
    <3>2. Forgotten(c, q)'
      BY <2>1, <3>1 DEF Forgotten, Suffix, ListsClient, ListsIn, LinkOf, linkVars
    <3> QED
      BY <2>2, <3>2 DEF WithdrawnInv
  <2>4. CASE q # p /\ ProcOf[c] # p
    <3>1. life'[q] = life[q] /\ life'[ProcOf[c]] = life[ProcOf[c]]
      BY <2>1, <2>4 DEF TypeOK
    <3> QED
      BY <2>1, <3>1, LinkFrame
      DEF tableVars, clientVars, linkVars, ListsIn, LinkOf, LossOf, StopsSent, SomeOf,
          Settled, Standing
  <2> QED
    BY <2>3, <2>4
<1>2. CASE exit(p) \/ crash(p)
  <2>1. /\ DropIncoming(p) /\ lost' = lost
        /\ life'[p] \notin {"absent", "up"}
        /\ \A r \in Proc : r # p => life'[r] = life[r]
    BY <1>2 DEF exit, crash, TypeOK
  <2>2. LinkOf(c, q)' = IF q = p THEN <<>> ELSE LinkOf(c, q)
    BY <2>1, DropEffect
  <2>3. \A f \in StatusField : ListsIn(c, q, f)' => ListsIn(c, q, f)
    <3>1. CASE m_registry' = m_registry
      BY <3>1 DEF ListsIn
    <3>2. CASE m_registry' = [m_registry EXCEPT ![p] = [s \in Service |-> EmptyStatus]]
      <4>1. m_registry'[q] = IF q = p THEN [s \in Service |-> EmptyStatus] ELSE m_registry[q]
        BY <3>2 DEF TypeOK
      <4> QED
        BY <4>1 DEF ListsIn, EmptyStatus
    <3> QED
      BY <1>2, <3>1, <3>2 DEF exit, crash
  <2>4. CASE q = p
    <3>1. OriginInv(c, q)'
      <4>1. life'[ProcOf[c]] = "absent" => life[ProcOf[c]] = "absent"
        BY <2>1
      <4> QED
        BY <2>1, <2>2, <2>3, <2>4, <4>1
        DEF OriginInv, ListsClient, FieldAt, StartOp, StopOp
    <3> QED
      BY <2>1, <2>4, <3>1 DEF WithdrawnInv
  <2>5. CASE q # p /\ ProcOf[c] = p
    BY <2>1, <2>2, <2>3, <2>5, LinkFrame DEF WithdrawnInv, Settled
  <2>6. CASE q # p /\ ProcOf[c] # p
    <3>1. /\ SomeOf(c)' = SomeOf(c) /\ pc'[c] = pc[c] /\ object'[c] = object[c]
          /\ m_is_offered'[c] = m_is_offered[c]
      <4>1. CASE exit(p)
        BY <4>1 DEF exit, SomeOf, tableVars, clientVars
      <4>2. CASE crash(p)
        <5>1. SomeOf(c)' = SomeOf(c)
          BY <2>6, <4>2 DEF crash, SomeOf, TypeOK
        <5> QED
          BY <2>6, <4>2, <5>1 DEF crash
      <4> QED
        BY <1>2, <4>1, <4>2
    <3>2. life'[q] = life[q] /\ life'[ProcOf[c]] = life[ProcOf[c]]
      BY <2>1, <2>6
    <3> QED
      BY <2>1, <2>2, <2>3, <2>6, <3>1, <3>2, LinkFrame
      DEF LossOf, StopsSent, Settled, Standing
  <2> QED
    BY <2>4, <2>5, <2>6
<1> QED
  BY <1>1, <1>2

LEMMA LinkInvariant ==
  ASSUME ExclusiveClients
  PROVE  Spec => [](TypeOK /\ LinkInv)
<1>1. TypeOK /\ ClientInv /\ LinkInv /\ [Next]_vars => LinkInv'
  <2> SUFFICES ASSUME TypeOK, ClientInv, LinkInv, [Next]_vars,
                      NEW c \in Client, NEW q \in Proc
               PROVE  OriginInv(c, q)' /\ WithdrawnInv(c, q)'
    BY DEF LinkInv
  <2>1. OriginInv(c, q) /\ WithdrawnInv(c, q)
    BY DEF LinkInv
  <2>2. ASSUME NEW d \in Client, ClientStep(d)
        PROVE  OriginInv(c, q)' /\ WithdrawnInv(c, q)'
    BY <2>1, <2>2, RequestLinkInv
  <2>3. ASSUME NEW p \in Proc, WriterStep(p)
        PROVE  OriginInv(c, q)' /\ WithdrawnInv(c, q)'
    BY <2>1, <2>3, WriterLinkInv
  <2>4. ASSUME NEW p \in Proc, start(p) \/ exit(p) \/ crash(p)
        PROVE  OriginInv(c, q)' /\ WithdrawnInv(c, q)'
    BY <2>1, <2>4, LifeLinkInv
  <2>5. ASSUME NEW p \in Proc, NEW r \in Proc, NEW s \in Service,
               updateRegistryFromServiceDiscovery(p, r, s)
        PROVE  OriginInv(c, q)' /\ WithdrawnInv(c, q)'
    BY <2>1, <2>5, DeliverLinkInv
  <2>6. ASSUME NEW p \in Proc, NEW r \in Proc, NEW s \in Service, lose(p, r, s)
        PROVE  OriginInv(c, q)' /\ WithdrawnInv(c, q)'
    BY <2>1, <2>6, LoseLinkInv
  <2>7. CASE UNCHANGED vars
    BY <2>1, <2>7, LinkFrame
    DEF vars, tableVars, clientVars, linkVars, ListsIn, LinkOf, LossOf, StopsSent, SomeOf,
        Settled, Standing
  <2> QED
    BY <2>2, <2>3, <2>4, <2>5, <2>6, <2>7 DEF Next
<1> QED
  BY <1>1, LinkInit, TypeCorrect, ClientInvariant, PTL DEF Spec

(***************************************************************************)
(* When no two clients of a process share a service, no ghost stays: a     *)
(* withdrawn service whose STOPs are all sent is listed by no receiver     *)
(* that lost fewer than MAX_DISCOVERY_COUNT messages since the request.    *)
(***************************************************************************)
THEOREM NoGhostStays ==
  ASSUME ExclusiveClients
  PROVE  Spec => []NoGhost
<1>1. TypeOK /\ LinkInv => NoGhost
  <2> SUFFICES ASSUME TypeOK, LinkInv, NEW c \in Client, NEW q \in Proc,
                      Settled(c), ~Standing(c), life[q] = "up", SomeOf(c).op = NoOp,
                      LinkOf(c, q) = <<>>, LossOf(c, q) < MAX_DISCOVERY_COUNT
               PROVE  ~ListsClient(c, q)
    BY DEF NoGhost, Listed, ListsClient, ListsIn, SomeOf, LinkOf, LossOf
  <2>1. Forgotten(c, q) \/ StopsPending(c, q)
    BY DEF LinkInv, WithdrawnInv
  <2>2. ~StopsPending(c, q)
    <3> SUFFICES ASSUME NEW k \in Nat, Suffix(LinkOf(c, q), StopOp(c), k),
                        k + LossOf(c, q) >= MAX_DISCOVERY_COUNT
                 PROVE  FALSE
      BY DEF StopsPending, StopsSent
    <3>1. k <= 0
      BY EmptySeq DEF Suffix
    <3> QED
      BY <3>1, LinkTypes, BoundAssumption
  <2> QED
    BY <2>1, <2>2 DEF Forgotten
<1> QED
  BY <1>1, LinkInvariant, PTL

=============================================================================
