-------------------------- MODULE DdsTransportProofs --------------------------
(***************************************************************************)
(* Theorems about DdsTransport, for any finite set of endpoints smaller    *)
(* than what refCount can count: the table of topics says the truth about  *)
(* the DDS topics and who has them, and no assert() on DDS fails.  What is *)
(* written is what was assigned last, and what is taken what was written.  *)
(***************************************************************************)
EXTENDS DdsTransport, PayloadProofs

-----------------------------------------------------------------------------
\* Who has a topic.

Holding == {"init", "live", "deleteTopic", "leaked"}

LEMMA HoldersDef ==
  ASSUME NEW n
  PROVE  Holders(n) = {e \in Endpoint : topic_name[e] = n /\ pc[e] \in Holding}
BY DEF Holders, Holding

\* A step of one endpoint that neither takes a topic nor gives one back.
LEMMA HoldersSame ==
  ASSUME pc \in [Endpoint -> PC], NEW e \in Endpoint, NEW v \in PC,
         pc' = [pc EXCEPT ![e] = v], v \in Holding <=> pc[e] \in Holding, NEW n
  PROVE  Holders(n)' = Holders(n)
BY DEF Holders, Holding

\* An endpoint takes its topic.
LEMMA HoldersGrow ==
  ASSUME pc \in [Endpoint -> PC], NEW e \in Endpoint, NEW v \in PC,
         pc' = [pc EXCEPT ![e] = v], v \in Holding, pc[e] \notin Holding, NEW n
  PROVE  /\ Holders(n)' = IF n = topic_name[e] THEN Holders(n) \cup {e} ELSE Holders(n)
         /\ e \notin Holders(n)
BY DEF Holders, Holding

\* An endpoint gives its topic back.
LEMMA HoldersShrink ==
  ASSUME pc \in [Endpoint -> PC], NEW e \in Endpoint, NEW v \in PC,
         pc' = [pc EXCEPT ![e] = v], v \notin Holding, pc[e] \in Holding, NEW n
  PROVE  /\ Holders(n)' = IF n = topic_name[e] THEN Holders(n) \ {e} ELSE Holders(n)
         /\ e \in Holders(topic_name[e])
BY DEF Holders, Holding

\* They can be counted, and one more than there are is still below the limit.
LEMMA HoldersCount ==
  ASSUME NEW n
  PROVE  /\ IsFiniteSet(Holders(n))
         /\ Cardinality(Holders(n)) \in 0 .. (RefLimit - 1)
         /\ \A e \in Endpoint \ Holders(n) :
              /\ Cardinality(Holders(n) \cup {e}) = Cardinality(Holders(n)) + 1
              /\ Cardinality(Holders(n)) + 1 < RefLimit
         /\ \A e \in Holders(n) :
              Cardinality(Holders(n) \ {e}) = Cardinality(Holders(n)) - 1
         /\ Holders(n) = {} <=> Cardinality(Holders(n)) = 0
<1>1. IsFiniteSet(Endpoint) /\ Cardinality(Endpoint) \in Nat
      /\ Cardinality(Endpoint) < RefLimit /\ RefLimit \in Nat
  BY TransportAssumption, FS_CardinalityType DEF TransportAssumption
<1>2. Holders(n) \in SUBSET Endpoint
  BY DEF Holders
<1>3. IsFiniteSet(Holders(n)) /\ Cardinality(Holders(n)) \in Nat
      /\ Cardinality(Holders(n)) <= Cardinality(Endpoint)
  BY <1>1, <1>2, FS_Subset, FS_CardinalityType
<1>4. ASSUME NEW e \in Endpoint \ Holders(n)
      PROVE  /\ Cardinality(Holders(n) \cup {e}) = Cardinality(Holders(n)) + 1
             /\ Cardinality(Holders(n)) + 1 < RefLimit
  <2>1. Holders(n) \cup {e} \in SUBSET Endpoint
    BY <1>2
  <2>2. Cardinality(Holders(n) \cup {e}) = Cardinality(Holders(n)) + 1
    BY <1>3, FS_AddElement
  <2>3. Cardinality(Holders(n) \cup {e}) <= Cardinality(Endpoint)
    BY <1>1, <2>1, FS_Subset
  <2> QED
    BY <1>1, <1>3, <2>2, <2>3
<1>5. ASSUME NEW e \in Holders(n)
      PROVE  Cardinality(Holders(n) \ {e}) = Cardinality(Holders(n)) - 1
  BY <1>3, FS_RemoveElement
<1>6. Holders(n) = {} <=> Cardinality(Holders(n)) = 0
  BY <1>3, FS_EmptySet
<1> QED
  BY <1>1, <1>3, <1>4, <1>5, <1>6

-----------------------------------------------------------------------------
\* The life of the endpoints and the table of topics.

\* Types of what getTopic and deleteTopic work on, and who has the mutex.
LifeTypes ==
  /\ m_topics \in [DOMAIN m_topics -> Int] /\ DOMAIN m_topics \subseteq Topic
  /\ exists \subseteq Topic
  /\ mutex \in Endpoint \cup {Nobody}
  /\ pc \in [Endpoint -> PC]
  /\ \A e \in Endpoint : pc[e] \in {"create", "count", "erase"} <=> mutex = e
  /\ enabled \subseteq Endpoint

\* The table names the DDS topics there are, until the participant is destroyed.
NamesExist == died # "exit" => exists = DOMAIN m_topics

\* An endpoint about to create its topic does not find it, any other one does.
TopicsNamed ==
  \A e \in Endpoint :
    /\ pc[e] = "create" => topic_name[e] \notin DOMAIN m_topics
    /\ pc[e] \in {"count", "erase"} \cup Holding => topic_name[e] \in DOMAIN m_topics

\* The one that erases a topic is the last: nobody has it and nobody gets it.
EraserIsLast == \A e \in Endpoint : pc[e] = "erase" => Holders(topic_name[e]) = {}

\* A topic in the table is somebody's, or about to be counted or erased.
NoneForgotten ==
  \A n \in DOMAIN m_topics :
    Holders(n) # {} \/ \E e \in Endpoint : topic_name[e] = n /\ pc[e] \in {"count", "erase"}

\* Only an endpoint in use is enabled, or one let go of as the base class.
EnabledInv == \A e \in enabled : pc[e] \in {"live", "leaked"}

LifeInv ==
  /\ LifeTypes /\ NamesExist /\ TopicsNamed /\ EraserIsLast /\ NoneForgotten /\ EnabledInv
  /\ RefCountIsHolders

\* Everything in the table fits an int16_t.
LEMMA RefCountRange ==
  RefCountIsHolders => \A n \in DOMAIN m_topics : m_topics[n] \in 0 .. (RefLimit - 1)
BY HoldersCount DEF RefCountIsHolders

\* Below the limit nothing wraps.
LEMMA Int16Fits ==
  ASSUME NEW n \in Int, 0 - RefLimit <= n, n < RefLimit
  PROVE  Int16(n) = n
<1>1. RefLimit \in Int
  BY TransportAssumption DEF TransportAssumption
<1>2. ~(n >= RefLimit) /\ ~(n < 0 - RefLimit)
  BY <1>1
<1> QED
  BY <1>2 DEF Int16

LEMMA InitLife == Init => LifeInv
<1> SUFFICES ASSUME Init PROVE LifeInv
  OBVIOUS
<1>1. DOMAIN m_topics = {} /\ m_topics \in [DOMAIN m_topics -> Int]
  BY DEF Init
<1>2. pc \in [Endpoint -> PC] /\ \A e \in Endpoint : pc[e] = "absent"
  BY DEF Init, PC
<1> QED
  BY <1>1, <1>2, TransportAssumption
  DEF TransportAssumption, Init, LifeInv, LifeTypes, NamesExist, TopicsNamed, EraserIsLast,
      NoneForgotten, EnabledInv, RefCountIsHolders, Holding

\* A step of the data, which may be the last of the process.
LEMMA LifeUnchanged ==
  ASSUME LifeInv, UNCHANGED lifeVars, died = "no"
  PROVE  LifeInv'
<1>1. \A n : Holders(n)' = Holders(n)
  BY DEF lifeVars, Holders
<1> QED
  BY <1>1
  DEF lifeVars, LifeInv, LifeTypes, NamesExist, TopicsNamed, EraserIsLast,
      NoneForgotten, EnabledInv, RefCountIsHolders, Holding, Topic, Endpoint

\* Under the mutex the name is looked up.
LEMMA GetTopicLife ==
  ASSUME LifeInv, NEW e \in Endpoint, getTopic(e)
  PROVE  LifeInv'
<1> USE DEF getTopic, Moves, Runs, Takes, LifeInv, LifeTypes
<1> DEFINE v == IF topic_name[e] \in DOMAIN m_topics THEN "count" ELSE "create"
<1>1. v \in PC /\ v \in {"count", "create"} /\ pc[e] = "absent" /\ pc' = [pc EXCEPT ![e] = v]
  BY DEF PC
<1>2. \A n : Holders(n)' = Holders(n)
  BY <1>1, HoldersSame DEF Holding
<1>3. \A f \in Endpoint : pc'[f] = IF f = e THEN v ELSE pc[f]
  BY <1>1
<1>4. LifeTypes'
  BY <1>1, <1>3, TransportAssumption DEF TransportAssumption
<1>5. NamesExist' /\ RefCountIsHolders'
  BY <1>2 DEF NamesExist, RefCountIsHolders
<1>6. TopicsNamed' /\ EraserIsLast'
  BY <1>1, <1>2, <1>3 DEF TopicsNamed, EraserIsLast, Holding
<1>7. NoneForgotten'
  BY <1>1, <1>2, <1>3 DEF NoneForgotten
<1>8. EnabledInv'
  BY <1>1, <1>3 DEF EnabledInv
<1> QED
  BY <1>4, <1>5, <1>6, <1>7, <1>8

\* The topic is created: the mutex kept everyone else from creating it.
LEMMA CreateTopicLife ==
  ASSUME LifeInv, NEW e \in Endpoint, create_topic(e)
  PROVE  LifeInv' /\ died' = "no"
<1> USE DEF create_topic, Moves, DiesIf, LifeInv, LifeTypes
<1> DEFINE t == topic_name[e]
<1>1. "count" \in PC /\ pc[e] = "create" /\ pc' = [pc EXCEPT ![e] = "count"]
  BY DEF PC
<1>2. \A n : Holders(n)' = Holders(n)
  BY <1>1, HoldersSame DEF Holding
<1>3. \A f \in Endpoint : pc'[f] = IF f = e THEN "count" ELSE pc[f]
  BY <1>1
<1>4. t \notin DOMAIN m_topics /\ exists = DOMAIN m_topics /\ t \in Topic
  BY <1>1 DEF TopicsNamed, NamesExist, Topic
<1>5. /\ DOMAIN m_topics' = DOMAIN m_topics \cup {t}
      /\ m_topics'[t] = 0 /\ \A n \in DOMAIN m_topics : m_topics'[n] = m_topics[n]
      /\ m_topics' \in [DOMAIN m_topics' -> Int]
  BY <1>4
<1>6. Holders(t) = {}
  BY <1>4 DEF TopicsNamed, Holders, Holding
<1>7. LifeTypes'
  BY <1>1, <1>3, <1>4, <1>5
<1>8. NamesExist' /\ died' = "no"
  BY <1>4, <1>5 DEF NamesExist
<1>9. RefCountIsHolders'
  BY <1>2, <1>5, <1>6, HoldersCount DEF RefCountIsHolders
<1>10. TopicsNamed'
  <2>1. \A f \in Endpoint : pc'[f] = "create" => f = e
    BY <1>1, <1>3
  <2> QED
    BY <1>3, <1>5, <2>1 DEF TopicsNamed, Holding
<1>11. EraserIsLast'
  BY <1>2, <1>3 DEF EraserIsLast
<1>12. NoneForgotten'
  BY <1>1, <1>2, <1>3, <1>5 DEF NoneForgotten
<1>13. EnabledInv'
  BY <1>1, <1>3 DEF EnabledInv
<1> QED
  BY <1>7, <1>8, <1>9, <1>10, <1>11, <1>12, <1>13

\* The endpoint is counted: it has its topic, and the count does not wrap.
LEMMA CountTopicLife ==
  ASSUME LifeInv, NEW e \in Endpoint, countTopic(e)
  PROVE  LifeInv'
<1> USE DEF countTopic, Moves, Runs, LifeInv, LifeTypes
<1> DEFINE t == topic_name[e]
<1>1. "init" \in PC /\ pc[e] = "count" /\ pc' = [pc EXCEPT ![e] = "init"] /\ mutex = e
  BY DEF PC
<1>2. \A n : /\ Holders(n)' = IF n = t THEN Holders(n) \cup {e} ELSE Holders(n)
             /\ e \notin Holders(n)
  BY <1>1, HoldersGrow DEF Holding
<1>3. \A f \in Endpoint : pc'[f] = IF f = e THEN "init" ELSE pc[f]
  BY <1>1
<1>4. t \in DOMAIN m_topics
  BY <1>1 DEF TopicsNamed
<1>5. Cardinality(Holders(t) \cup {e}) = Cardinality(Holders(t)) + 1
      /\ Cardinality(Holders(t)) + 1 < RefLimit /\ Cardinality(Holders(t)) \in Nat
      /\ RefLimit \in Nat
  BY <1>2, HoldersCount, TransportAssumption DEF TransportAssumption
<1>6. Counted(m_topics[t]) = Cardinality(Holders(t)) + 1
  BY <1>4, <1>5, Int16Fits DEF Counted, RefCountIsHolders
<1>7. /\ DOMAIN m_topics' = DOMAIN m_topics
      /\ m_topics'[t] = Cardinality(Holders(t)) + 1
      /\ \A n \in DOMAIN m_topics : n # t => m_topics'[n] = m_topics[n]
      /\ m_topics' \in [DOMAIN m_topics' -> Int]
  BY <1>4, <1>5, <1>6
<1>8. LifeTypes'
  BY <1>1, <1>3, <1>7, TransportAssumption DEF TransportAssumption
<1>9. NamesExist'
  BY <1>7 DEF NamesExist
<1>10. RefCountIsHolders'
  BY <1>2, <1>5, <1>7 DEF RefCountIsHolders
<1>11. TopicsNamed'
  BY <1>3, <1>4, <1>7 DEF TopicsNamed, Holding
<1>12. EraserIsLast'
  BY <1>1, <1>3 DEF EraserIsLast
<1>13. NoneForgotten'
  BY <1>1, <1>2, <1>3, <1>7 DEF NoneForgotten
<1>14. EnabledInv'
  BY <1>1, <1>3 DEF EnabledInv
<1> QED
  BY <1>8, <1>9, <1>10, <1>11, <1>12, <1>13, <1>14

\* An endpoint that has its topic goes on and keeps it.
LEMMA HolderMoves ==
  ASSUME LifeInv, died = "no", NEW e \in Endpoint, pc[e] \in {"init", "live"},
         NEW v \in {"live", "deleteTopic", "leaked"}, pc' = [pc EXCEPT ![e] = v],
         UNCHANGED <<m_topics, exists, mutex>>,
         enabled' \subseteq Endpoint, EnabledInv'
  PROVE  LifeInv'
<1> USE DEF LifeInv, LifeTypes
<1>1. v \in PC
  BY DEF PC
<1>2. \A n : Holders(n)' = Holders(n)
  BY <1>1, HoldersSame DEF Holding
<1>3. \A f \in Endpoint : pc'[f] = IF f = e THEN v ELSE pc[f]
  OBVIOUS
<1>4. LifeTypes'
  BY <1>1, <1>3
<1>5. NamesExist' /\ RefCountIsHolders'
  BY <1>2 DEF NamesExist, RefCountIsHolders
<1>6. TopicsNamed' /\ EraserIsLast'
  BY <1>2, <1>3 DEF TopicsNamed, EraserIsLast, Holding
<1>7. NoneForgotten'
  BY <1>2, <1>3 DEF NoneForgotten
<1> QED
  BY <1>4, <1>5, <1>6, <1>7

\* DDS has the topic of whoever creates a reader or a writer for it.
LEMMA HolderHasTopic ==
  ASSUME LifeInv, died = "no", NEW e \in Endpoint, pc[e] \in Holding
  PROVE  topic_name[e] \in exists
BY DEF LifeInv, NamesExist, TopicsNamed

LEMMA InitEndpointLife ==
  ASSUME LifeInv, NEW e \in Endpoint, init(e)
  PROVE  LifeInv' /\ died' = "no"
<1> USE DEF init, Moves, DiesIf
<1>1. died = "no" /\ died' = "no" /\ pc[e] = "init" /\ pc' = [pc EXCEPT ![e] = "live"]
  BY HolderHasTopic DEF Holding
<1>2. enabled' \subseteq Endpoint /\ EnabledInv'
  BY <1>1 DEF LifeInv, LifeTypes, EnabledInv
<1> QED
  BY <1>1, <1>2, HolderMoves

LEMMA EnableLife ==
  ASSUME LifeInv, NEW r \in Reader, enable(r)
  PROVE  LifeInv' /\ died' = "no"
<1> USE DEF enable, DiesIf
<1>1. died = "no" /\ died' = "no" /\ pc[r] = "live" /\ r \in Endpoint
  BY HolderHasTopic DEF Holding, Endpoint
<1>2. pc' = [pc EXCEPT ![r] = "live"]
  BY <1>1 DEF LifeInv, LifeTypes
<1>3. enabled' \subseteq Endpoint /\ EnabledInv'
  BY <1>1 DEF LifeInv, LifeTypes, EnabledInv
<1> QED
  BY <1>1, <1>2, <1>3, HolderMoves

LEMMA DisableLife ==
  ASSUME LifeInv, NEW r \in Reader, disable(r)
  PROVE  LifeInv'
<1> USE DEF disable, Runs
<1>1. died = "no" /\ pc[r] = "live" /\ r \in Endpoint
  BY DEF Endpoint
<1>2. pc' = [pc EXCEPT ![r] = "live"]
  BY <1>1 DEF LifeInv, LifeTypes
<1>3. enabled' \subseteq Endpoint /\ EnabledInv'
  BY <1>1 DEF LifeInv, LifeTypes, EnabledInv
<1> QED
  BY <1>1, <1>2, <1>3, HolderMoves

LEMMA DestroyLife ==
  ASSUME LifeInv, NEW e \in Endpoint, destroy(e)
  PROVE  LifeInv'
<1> USE DEF destroy, Moves, Runs
<1>1. died = "no" /\ pc[e] = "live" /\ pc' = [pc EXCEPT ![e] = "deleteTopic"]
  OBVIOUS
<1>2. enabled' \subseteq Endpoint /\ EnabledInv'
  BY <1>1 DEF LifeInv, LifeTypes, EnabledInv
<1> QED
  BY <1>1, <1>2, HolderMoves

LEMMA LetGoLife ==
  ASSUME LifeInv, NEW e \in Endpoint, deleteThroughBase(e)
  PROVE  LifeInv'
<1> USE DEF deleteThroughBase, Moves, Runs
<1>1. died = "no" /\ pc[e] = "live" /\ pc' = [pc EXCEPT ![e] = "leaked"]
  OBVIOUS
<1>2. enabled' \subseteq Endpoint /\ EnabledInv'
  BY <1>1 DEF LifeInv, LifeTypes, EnabledInv
<1> QED
  BY <1>1, <1>2, HolderMoves

\* The count goes down, and at 0 the one that lowered it was the last.
LEMMA DeleteTopicLife ==
  ASSUME LifeInv, NEW e \in Endpoint, deleteTopic(e)
  PROVE  LifeInv'
<1> USE DEF Moves, Runs, LifeInv, LifeTypes
<1> DEFINE t == topic_name[e]
           last == t \in DOMAIN m_topics /\ MayErase(Int16(m_topics[t] - 1))
           v == IF last THEN "erase" ELSE "gone"
<1>1. /\ v \in PC /\ pc[e] = "deleteTopic" /\ pc' = [pc EXCEPT ![e] = v] /\ died = "no"
      /\ mutex = Nobody /\ mutex' = IF last THEN e ELSE Nobody
      /\ m_topics' = [m_topics EXCEPT ![t] = Int16(@ - 1)]
      /\ UNCHANGED <<exists, enabled, died>>
  BY DEF deleteTopic, PC
<1>2. \A n : Holders(n)' = IF n = t THEN Holders(n) \ {e} ELSE Holders(n)
  BY <1>1, HoldersShrink DEF Holding
<1>3. e \in Holders(t)
  BY <1>1, HoldersDef DEF Holding
<1>4. \A f \in Endpoint : pc'[f] = IF f = e THEN v ELSE pc[f]
  BY <1>1
<1>5. t \in DOMAIN m_topics
  BY <1>1 DEF TopicsNamed, Holding
<1>6. Cardinality(Holders(t) \ {e}) = m_topics[t] - 1 /\ m_topics[t] \in Nat \ {0}
  BY <1>3, <1>5, HoldersCount DEF RefCountIsHolders
<1>61. m_topics[t] < RefLimit /\ RefLimit \in Nat
  BY <1>5, <1>6, RefCountRange, TransportAssumption DEF TransportAssumption
<1>62. Int16(m_topics[t] - 1) = m_topics[t] - 1
  BY <1>6, <1>61, Int16Fits
<1>7. last <=> Holders(t)' = {}
  <2>1. (Holders(t) \ {e} = {}) <=> (m_topics[t] = 1)
    <3>1. IsFiniteSet(Holders(t) \ {e})
      BY HoldersCount, FS_RemoveElement
    <3>2. Holders(t) \ {e} = {} <=> Cardinality(Holders(t) \ {e}) = 0
      BY <3>1, FS_EmptySet, Zenon
    <3> QED
      BY <3>2, <1>6
  <2> QED
    BY <1>2, <1>5, <1>6, <1>62, <2>1 DEF MayErase
<1>8. /\ DOMAIN m_topics' = DOMAIN m_topics
      /\ m_topics'[t] = m_topics[t] - 1
      /\ \A n \in DOMAIN m_topics : n # t => m_topics'[n] = m_topics[n]
      /\ m_topics' \in [DOMAIN m_topics' -> Int]
  BY <1>1, <1>5, <1>6, <1>62
<1> HIDE DEF last
<1>9. LifeTypes'
  BY <1>1, <1>4, <1>8, TransportAssumption DEF TransportAssumption
<1>10. NamesExist'
  BY <1>1, <1>8 DEF NamesExist
<1>11. RefCountIsHolders'
  BY <1>2, <1>6, <1>8 DEF RefCountIsHolders
<1>12. TopicsNamed'
  BY <1>4, <1>5, <1>8 DEF TopicsNamed, Holding
<1>13. EraserIsLast'
  <2>1. \A f \in Endpoint : pc[f] # "erase"
    BY <1>1, TransportAssumption DEF TransportAssumption
  <2> QED
    BY <1>4, <1>7, <2>1 DEF EraserIsLast
<1>14. NoneForgotten'
  <2> SUFFICES ASSUME NEW n \in DOMAIN m_topics
               PROVE  (Holders(n) # {} \/ \E f \in Endpoint :
                         topic_name[f] = n /\ pc[f] \in {"count", "erase"})'
    BY <1>8 DEF NoneForgotten
  <2>1. CASE n = t
    BY <2>1, <1>4, <1>7
  <2>2. CASE n # t
    BY <2>2, <1>1, <1>2, <1>4 DEF NoneForgotten
  <2> QED
    BY <2>1, <2>2
<1>15. EnabledInv'
  BY <1>1, <1>4 DEF EnabledInv
<1> QED
  BY <1>9, <1>10, <1>11, <1>12, <1>13, <1>14, <1>15

\* The topic is deleted: no reader or writer of this process uses it.
LEMMA EraseTopicLife ==
  ASSUME LifeInv, NEW e \in Endpoint, eraseTopic(e)
  PROVE  LifeInv' /\ died' = "no"
<1> USE DEF eraseTopic, Moves, DiesIf, LifeInv, LifeTypes
<1> DEFINE t == topic_name[e]
<1>1. /\ "gone" \in PC /\ pc[e] = "erase" /\ pc' = [pc EXCEPT ![e] = "gone"] /\ mutex = e
      /\ died = "no"
  BY DEF PC
<1>2. \A n : Holders(n)' = Holders(n)
  BY <1>1, HoldersSame DEF Holding
<1>3. \A f \in Endpoint : pc'[f] = IF f = e THEN "gone" ELSE pc[f]
  BY <1>1
<1>4. Holders(t) = {}
  BY <1>1 DEF EraserIsLast
<1>5. \A f \in Endpoint : topic_name[f] = t /\ pc[f] \in {"count", "erase"} \cup Holding => f = e
  BY <1>1, <1>4, HoldersDef
<1>6. died' = "no"
  BY <1>1, <1>5 DEF InUse, EnabledInv, Holding
<1>7. /\ DOMAIN m_topics' = DOMAIN m_topics \ {t}
      /\ \A n \in DOMAIN m_topics' : m_topics'[n] = m_topics[n]
      /\ m_topics' \in [DOMAIN m_topics' -> Int]
  OBVIOUS
<1>8. LifeTypes'
  BY <1>1, <1>3, <1>7, TransportAssumption DEF TransportAssumption
<1>9. NamesExist'
  BY <1>1, <1>7 DEF NamesExist
<1>10. RefCountIsHolders'
  BY <1>2, <1>7 DEF RefCountIsHolders
<1>11. TopicsNamed'
  BY <1>1, <1>3, <1>5, <1>7 DEF TopicsNamed, Holding
<1>12. EraserIsLast'
  BY <1>2, <1>3 DEF EraserIsLast
<1>13. NoneForgotten'
  BY <1>1, <1>2, <1>3, <1>7 DEF NoneForgotten
<1>14. EnabledInv'
  BY <1>1, <1>3 DEF EnabledInv
<1> QED
  BY <1>6, <1>8, <1>9, <1>10, <1>11, <1>12, <1>13, <1>14

\* The participant is destroyed with its DDS topics, readers and writers.
LEMMA ExitLife ==
  ASSUME LifeInv, exitProcess
  PROVE  LifeInv' /\ died' = "exit"
<1>1. \A n : Holders(n)' = Holders(n)
  BY DEF exitProcess, Holders
<1> QED
  BY <1>1
  DEF exitProcess, LifeInv, LifeTypes, NamesExist, TopicsNamed, EraserIsLast,
      NoneForgotten, EnabledInv, RefCountIsHolders, Holding

-----------------------------------------------------------------------------
\* What the readers hold.

\* A sequence, of whatever it is of.
IsSeq(s) == s \in Seq(Range(s))

LEMMA SeqIsSeq ==
  ASSUME NEW S, NEW s \in Seq(S)
  PROVE  IsSeq(s)
<1>1. s \in [1 .. Len(s) -> Range(s)] /\ Len(s) \in Nat
  BY LenProperties DEF Range
<1> QED
  BY <1>1, SeqDef, Zenon DEF IsSeq

LEMMA AppendIsSeq ==
  ASSUME NEW s, IsSeq(s), NEW x
  PROVE  IsSeq(Append(s, x)) /\ Len(Append(s, x)) = Len(s) + 1 /\ Len(s) \in Nat
<1> DEFINE S == Range(s) \cup {x}
<1>1. s \in Seq(S)
  BY SeqMonotonic DEF IsSeq
<1> HIDE DEF S
<1>2. x \in S
  BY DEF S
<1>3. Append(s, x) \in Seq(S) /\ Len(Append(s, x)) = Len(s) + 1 /\ Len(s) \in Nat
  BY <1>1, <1>2, AppendProperties, LenProperties
<1> QED
  BY <1>3, SeqIsSeq

LEMMA TailIsSeq ==
  ASSUME NEW s, IsSeq(s), s # <<>>
  PROVE  IsSeq(Tail(s)) /\ Len(Tail(s)) = Len(s) - 1 /\ Len(s) \in Nat
<1>1. Tail(s) \in Seq(Range(s)) /\ Len(Tail(s)) = Len(s) - 1 /\ Len(s) \in Nat
  BY HeadTailProperties, LenProperties DEF IsSeq
<1> QED
  BY <1>1, SeqIsSeq

LEMMA NothingIsSeq == IsSeq(<<>>) /\ Len(<<>>) = 0
BY EmptySeq DEF IsSeq

\* A history that is at its limit stays there.
LEMMA KeptIsBounded ==
  ASSUME NEW s, IsSeq(s), Len(s) <= Depth, NEW x
  PROVE  IsSeq(Kept(Append(s, x))) /\ Len(Kept(Append(s, x))) <= Depth
<1>1. IsSeq(Append(s, x)) /\ Len(Append(s, x)) = Len(s) + 1 /\ Len(s) \in Nat
  BY AppendIsSeq
<1>2. Append(s, x) # <<>>
  BY <1>1, NothingIsSeq
<1>3. IsSeq(Tail(Append(s, x))) /\ Len(Tail(Append(s, x))) = Len(s)
  <2> DEFINE a == Append(s, x)
  <2> HIDE DEF a
  <2>1. IsSeq(a) /\ a # <<>> /\ Len(a) = Len(s) + 1 /\ Len(s) \in Nat
    BY <1>1, <1>2 DEF a
  <2>2. IsSeq(Tail(a)) /\ Len(Tail(a)) = Len(a) - 1
    BY <2>1, TailIsSeq
  <2> QED
    BY <2>1, <2>2 DEF a
<1>4. Depth \in Nat
  BY TransportAssumption DEF TransportAssumption
<1> QED
  BY <1>1, <1>3, <1>4 DEF Kept

\* The history of every reader is bounded, and there only while it is enabled.
HistoryInv ==
  /\ history = [r \in Reader |-> history[r]]
  /\ \A r \in Reader : IsSeq(history[r]) /\ Len(history[r]) <= Depth
  /\ \A r \in Reader : history[r] # <<>> => r \in enabled

GotInv == got = [r \in Reader |-> got[r]] /\ \A r \in Reader : Len(got[r]) <= 1

\* The process dies in one of the ways there are.
EndInv == lied \in BOOLEAN /\ died \in {"no", "exit", "assert", "overflow", "freed"}

DataInv == HistoryInv /\ GotInv /\ EndInv

LEMMA InitData == Init => DataInv
<1> SUFFICES ASSUME Init PROVE DataInv
  OBVIOUS
<1>1. history = [r \in Reader |-> <<>>] /\ got = [r \in Reader |-> <<>>]
      /\ lied = FALSE /\ died = "no"
  BY DEF Init
<1>2. HistoryInv
  BY <1>1, NothingIsSeq, TransportAssumption DEF HistoryInv, TransportAssumption
<1>3. GotInv
  BY <1>1, NothingIsSeq DEF GotInv
<1> QED
  BY <1>1, <1>2, <1>3 DEF DataInv, EndInv

\* Some of the readers of a topic get what is sent.
LEMMA DeliverHistory ==
  ASSUME HistoryInv, NEW n, NEW p, Deliver(n, p), UNCHANGED enabled
  PROVE  HistoryInv'
<1>1. PICK R \in SUBSET {r \in Reader \cap enabled : topic_name[r] = n} :
        history' = [r \in Reader |-> IF r \in R THEN Kept(Append(history[r], p))
                                                ELSE history[r]]
  BY DEF Deliver
<1>2. ASSUME NEW r \in Reader
      PROVE  /\ IsSeq(history'[r]) /\ Len(history'[r]) <= Depth
             /\ history'[r] # <<>> => r \in enabled
  <2>1. CASE r \in R
    <3>1. IsSeq(history[r]) /\ Len(history[r]) <= Depth
      BY DEF HistoryInv
    <3>2. history'[r] = Kept(Append(history[r], p)) /\ r \in enabled
      BY <1>1, <2>1
    <3> QED
      BY <3>1, <3>2, KeptIsBounded
  <2>2. CASE r \notin R
    BY <1>1, <2>2 DEF HistoryInv
  <2> QED
    BY <2>1, <2>2
<1>3. history' = [r \in Reader |-> history'[r]]
  BY <1>1
<1> QED
  BY <1>2, <1>3 DEF HistoryInv

\* A reader's history is emptied when it is disabled.
LEMMA EmptiedHistory ==
  ASSUME HistoryInv, NEW e, enabled' = enabled \ {e},
         history' = IF e \in Reader THEN [history EXCEPT ![e] = <<>>] ELSE history
  PROVE  HistoryInv'
<1>1. ASSUME NEW r \in Reader
      PROVE  /\ IsSeq(history'[r]) /\ Len(history'[r]) <= Depth
             /\ history'[r] # <<>> => r \in enabled'
  <2>1. CASE r = e
    BY <2>1, NothingIsSeq, TransportAssumption DEF HistoryInv, TransportAssumption
  <2>2. CASE r # e
    BY <2>2 DEF HistoryInv
  <2> QED
    BY <2>1, <2>2
<1>2. history' = [r \in Reader |-> history'[r]]
  BY DEF HistoryInv
<1> QED
  BY <1>1, <1>2 DEF HistoryInv

\* The oldest that is there is taken.
LEMMA TakeData ==
  ASSUME DataInv, NEW r \in Reader, take(r)
  PROVE  DataInv'
<1> USE DEF take, Runs, DataInv
<1>1. IsSeq(history[r]) /\ history[r] # <<>> /\ Len(history[r]) <= Depth
  BY DEF HistoryInv
<1>2. IsSeq(Tail(history[r])) /\ Len(Tail(history[r])) <= Depth
  BY <1>1, TailIsSeq, TransportAssumption DEF TransportAssumption
<1>3. history' = [history EXCEPT ![r] = Tail(history[r])] /\ enabled' = enabled
  BY DEF lifeVars
<1>4. \A q \in Reader : history'[q] = IF q = r THEN Tail(history[r]) ELSE history[q]
  BY <1>3 DEF HistoryInv
<1>5. history' = [q \in Reader |-> history'[q]]
  BY <1>3 DEF HistoryInv
<1>6. HistoryInv'
  BY <1>1, <1>2, <1>3, <1>4, <1>5 DEF HistoryInv
<1>7. PICK x : got' = [got EXCEPT ![r] = <<x>>]
  OBVIOUS
<1>8. Len(<<x>>) = 1
  OBVIOUS
<1>9. GotInv'
  <2>1. got' = [q \in Reader |-> got'[q]]
    BY <1>7 DEF GotInv
  <2>2. \A q \in Reader : got'[q] = IF q = r THEN <<x>> ELSE got[q]
    BY <1>7 DEF GotInv
  <2> QED
    BY <1>8, <2>1, <2>2 DEF GotInv
<1>10. EndInv'
  BY DEF EndInv
<1> QED
  BY <1>6, <1>9, <1>10

-----------------------------------------------------------------------------
\* All of it.

Inv == LifeInv /\ DataInv /\ NoAssertFails

\* A step that leaves the data alone and disables nobody.
LEMMA DataUnchanged ==
  ASSUME DataInv, UNCHANGED dataVars, enabled \subseteq enabled',
         died' \in {"no", "exit", "assert", "overflow", "freed"}
  PROVE  DataInv'
BY DEF DataInv, HistoryInv, GotInv, EndInv, dataVars

\* A process that lives, or ended otherwise, has not failed an assert().
LEMMA AliveIsWell == died' \in {"no", "exit", "overflow", "freed"} => NoAssertFails'
BY DEF NoAssertFails

LEMMA WriteStep ==
  ASSUME Inv, NEW w \in Writer, write(w)
  PROVE  Inv'
<1>1. died = "no" /\ died' \in {"no", "overflow"} /\ UNCHANGED lifeVars /\ UNCHANGED got
      /\ lied' \in BOOLEAN
  BY DEF write, DiesIf, Inv, DataInv, EndInv
<1>2. Deliver(topic_name[w], [payload |-> Sent(w), meant |-> meant[w]]) \/ UNCHANGED history
  BY DEF write
<1>3. HistoryInv'
  BY <1>1, <1>2, DeliverHistory DEF Inv, DataInv, HistoryInv, lifeVars
<1>4. GotInv' /\ EndInv'
  BY <1>1 DEF Inv, DataInv, GotInv, EndInv
<1> QED
  BY <1>1, <1>3, <1>4, LifeUnchanged, AliveIsWell DEF Inv, DataInv

LEMMA FreedStep ==
  ASSUME Inv, NEW r \in Reader, listenerIsFreed(r)
  PROVE  Inv'
<1>1. died = "no" /\ died' = "freed" /\ UNCHANGED lifeVars /\ UNCHANGED dataVars
  BY DEF listenerIsFreed, DiesIf
<1>2. LifeInv'
  BY <1>1, LifeUnchanged DEF Inv
<1>3. DataInv'
  BY <1>1, DataUnchanged DEF Inv, lifeVars
<1> QED
  BY <1>1, <1>2, <1>3, AliveIsWell DEF Inv

(***************************************************************************)
(* The steps of the endpoints, of the data and the end of the process.     *)
(***************************************************************************)
LEMMA InvStep == Inv /\ [Next]_vars => Inv'
<1> SUFFICES ASSUME Inv, [Next]_vars PROVE Inv'
  OBVIOUS
<1> USE DEF Inv
<1>1. ASSUME LifeInv', UNCHANGED dataVars, enabled \subseteq enabled', died' \in {"no", "exit"}
      PROVE  Inv'
  BY <1>1, DataUnchanged, AliveIsWell
<1>2. ASSUME NEW e \in Endpoint, getTopic(e) PROVE Inv'
  BY <1>1, <1>2, GetTopicLife DEF getTopic, Runs
<1>3. ASSUME NEW e \in Endpoint, create_topic(e) PROVE Inv'
  BY <1>1, <1>3, CreateTopicLife DEF create_topic
<1>4. ASSUME NEW e \in Endpoint, countTopic(e) PROVE Inv'
  BY <1>1, <1>4, CountTopicLife DEF countTopic, Runs
<1>5. ASSUME NEW e \in Endpoint, init(e) PROVE Inv'
  BY <1>1, <1>5, InitEndpointLife DEF init
<1>6. ASSUME NEW r \in Reader, enable(r) PROVE Inv'
  BY <1>1, <1>6, EnableLife DEF enable
<1>7. ASSUME NEW e \in Endpoint, deleteTopic(e) PROVE Inv'
  BY <1>1, <1>7, DeleteTopicLife DEF deleteTopic, Runs
<1>8. ASSUME NEW e \in Endpoint, eraseTopic(e) PROVE Inv'
  BY <1>1, <1>8, EraseTopicLife DEF eraseTopic
<1>9. ASSUME NEW e \in Endpoint, deleteThroughBase(e) PROVE Inv'
  BY <1>1, <1>9, LetGoLife DEF deleteThroughBase, Runs
<1>10. ASSUME NEW r \in Reader, disable(r) PROVE Inv'
  <2>1. HistoryInv'
    BY <1>10, EmptiedHistory DEF disable, DataInv
  <2>2. GotInv' /\ EndInv' /\ died' = "no"
    BY <1>10 DEF disable, Runs, DataInv, GotInv, EndInv
  <2> QED
    BY <1>10, <2>1, <2>2, DisableLife, AliveIsWell DEF DataInv
<1>11. ASSUME NEW e \in Endpoint, destroy(e) PROVE Inv'
  <2>1. HistoryInv'
    BY <1>11, EmptiedHistory DEF destroy, DataInv
  <2>2. GotInv' /\ EndInv' /\ died' = "no"
    BY <1>11 DEF destroy, Runs, DataInv, GotInv, EndInv
  <2> QED
    BY <1>11, <2>1, <2>2, DestroyLife, AliveIsWell DEF DataInv
<1>12. CASE exitProcess
  <2>1. HistoryInv'
    BY <1>12, NothingIsSeq, TransportAssumption
    DEF exitProcess, HistoryInv, TransportAssumption
  <2>2. GotInv' /\ EndInv' /\ died' = "exit"
    BY <1>12 DEF exitProcess, DataInv, GotInv, EndInv
  <2> QED
    BY <1>12, <2>1, <2>2, ExitLife, AliveIsWell DEF DataInv
<1>13. ASSUME NEW r \in Reader, take(r) PROVE Inv'
  BY <1>13, TakeData, LifeUnchanged, AliveIsWell DEF take, Runs
<1>14. ASSUME NEW r \in Reader, listenerIsFreed(r) PROVE Inv'
  BY <1>14, FreedStep
<1>15. ASSUME NEW w \in Writer, NEW object, assign(w, object) PROVE Inv'
  <2>1. died = "no" /\ died' = "no" /\ UNCHANGED lifeVars /\ UNCHANGED <<history, got, lied>>
    BY <1>15 DEF assign, Runs
  <2>2. DataInv'
    BY <2>1 DEF DataInv, HistoryInv, GotInv, EndInv, lifeVars
  <2> QED
    BY <2>1, <2>2, LifeUnchanged, AliveIsWell
<1>16. ASSUME NEW w \in Writer, write(w) PROVE Inv'
  BY <1>16, WriteStep
<1>17. ASSUME NEW n \in Topic, foreignWrite(n) PROVE Inv'
  <2>1. died = "no" /\ died' = "no" /\ UNCHANGED lifeVars /\ UNCHANGED <<got, lied>>
    BY <1>17 DEF foreignWrite, Runs
  <2>2. HistoryInv'
    BY <1>17, <2>1, DeliverHistory DEF foreignWrite, DataInv, lifeVars
  <2> QED
    BY <2>1, <2>2, LifeUnchanged, AliveIsWell DEF DataInv, GotInv, EndInv
<1>18. CASE UNCHANGED vars
  BY <1>18
  DEF vars, lifeVars, dataVars, LifeInv, LifeTypes, NamesExist, TopicsNamed, EraserIsLast,
      NoneForgotten, EnabledInv, RefCountIsHolders, Holders, DataInv, HistoryInv, GotInv,
      EndInv, NoAssertFails
<1> QED
  BY <1>2, <1>3, <1>4, <1>5, <1>6, <1>7, <1>8, <1>9, <1>10, <1>11, <1>12, <1>13, <1>14,
     <1>15, <1>16, <1>17, <1>18
  DEF Next

LEMMA InvAlways == Spec => []Inv
<1>1. Init => Inv
  BY InitLife, InitData DEF Inv, NoAssertFails, Init
<1> QED
  BY <1>1, InvStep, PTL DEF Spec

(***************************************************************************)
(* Types of the participant and its endpoints: refCount is in the range of *)
(* an int16_t, a history is no longer than its depth, and only an enabled  *)
(* reader has one.                                                         *)
(***************************************************************************)
THEOREM TypeCorrect == Spec => []TypeOK
<1>1. Inv => TypeOK
  <2> SUFFICES ASSUME Inv PROVE TypeOK
    OBVIOUS
  <2>1. \A n \in DOMAIN m_topics : m_topics[n] \in (0 - RefLimit) .. (RefLimit - 1)
    BY RefCountRange, TransportAssumption DEF Inv, LifeInv, TransportAssumption
  <2> QED
    BY <2>1 DEF Inv, LifeInv, LifeTypes, DataInv, HistoryInv, GotInv, EndInv, TypeOK
<1> QED
  BY <1>1, InvAlways, PTL

(***************************************************************************)
(* refCount counts those that have the topic, with fewer than RefLimit     *)
(* endpoints in all that come and go on any threads.                       *)
(***************************************************************************)
THEOREM RefCountsAreRight == Spec => []RefCountIsHolders
<1>1. Inv => RefCountIsHolders
  BY DEF Inv, LifeInv
<1> QED
  BY <1>1, InvAlways, PTL

(***************************************************************************)
(* The DDS topics that exist are those somebody has, when nobody is inside *)
(* getTopic or deleteTopic and until the participant is destroyed.         *)
(***************************************************************************)
THEOREM TopicsAreInUse == Spec => []TopicsAreThoseInUse
<1>1. Inv => TopicsAreThoseInUse
  <2> SUFFICES ASSUME Inv, mutex = Nobody, died # "exit"
               PROVE  exists = {n \in Topic : Holders(n) # {}}
    BY DEF TopicsAreThoseInUse
  <2>1. exists = DOMAIN m_topics /\ DOMAIN m_topics \subseteq Topic
    BY DEF Inv, LifeInv, LifeTypes, NamesExist
  <2>2. \A e \in Endpoint : pc[e] \notin {"count", "erase"}
    BY TransportAssumption DEF Inv, LifeInv, LifeTypes, TransportAssumption
  <2>3. ASSUME NEW n \in DOMAIN m_topics PROVE Holders(n) # {}
    BY <2>2 DEF Inv, LifeInv, NoneForgotten
  <2>4. ASSUME NEW n, Holders(n) # {} PROVE n \in DOMAIN m_topics
    <3>1. PICK e \in Endpoint : topic_name[e] = n /\ pc[e] \in Holding
      BY <2>4, HoldersDef
    <3> QED
      BY <3>1 DEF Inv, LifeInv, TopicsNamed
  <2> QED
    BY <2>1, <2>3, <2>4
<1> QED
  BY <1>1, InvAlways, PTL

(***************************************************************************)
(* No assert() on what DDS returns fails: a topic is never created twice,  *)
(* never used by a reader or writer that is created when it is gone, never *)
(* deleted while one uses it.                                              *)
(***************************************************************************)
THEOREM AssertsHold == Spec => []NoAssertFails
<1>1. Inv => NoAssertFails
  BY DEF Inv
<1> QED
  BY <1>1, InvAlways, PTL

-----------------------------------------------------------------------------
\* The objects.

LEMMA TypeOfType ==
  ASSUME NEW e \in Endpoint
  PROVE  TypeOf(e) \in Type /\ topic_name[e] \in Topic
BY TransportAssumption DEF TransportAssumption, TypeOf, Topic

\* A writer writes what its owner assigned last.
StoredInv ==
  /\ stored = [w \in Writer |-> stored[w]] /\ meant = [w \in Writer |-> meant[w]]
  /\ \A w \in Writer : stored[w] \in Message(TypeOf(w)) /\ stored[w] = meant[w]

\* A payload is the object that was meant, serialized.
SaysWhatWasMeant(type, p) ==
  /\ p.meant \in Message(type)
  /\ p.payload = serialize(type, p.meant) /\ p.payload.result

SentInv ==
  \A r \in Reader : \A p \in Range(history[r]) : SaysWhatWasMeant(TypeOf(r), p)

ObjectInv ==
  StoredInv /\ SentInv /\ NeverOverflows /\ WriteTellsTheTruth /\ TakesWhatWasMeant

LEMMA InitObject == Init => ObjectInv
<1> SUFFICES ASSUME Init PROVE ObjectInv
  OBVIOUS
<1>1. StoredInv
  BY TypeOfType, CreatedData DEF Init, StoredInv, Endpoint
<1>2. Range(<<>>) = {}
  BY DEF Range
<1>3. SentInv /\ TakesWhatWasMeant
  BY <1>2 DEF Init, SentInv, TakesWhatWasMeant
<1> QED
  BY <1>1, <1>3 DEF Init, ObjectInv, NeverOverflows, WriteTellsTheTruth

\* What is in a history that one more has come to, or one has gone from.
LEMMA KeptIsOfBoth ==
  ASSUME NEW s, IsSeq(s), NEW x
  PROVE  Range(Kept(Append(s, x))) \subseteq Range(s) \cup {x}
<1> DEFINE S == Range(s) \cup {x}
           a == Append(s, x)
<1>1. s \in Seq(S) /\ x \in S
  BY SeqMonotonic DEF IsSeq
<1>2. a \in Seq(S) /\ a # <<>>
  <2> HIDE DEF S
  <2> QED
    BY <1>1, AppendProperties
<1>3. Tail(a) \in Seq(S)
  <2> HIDE DEF S, a
  <2> QED
    BY <1>2, HeadTailProperties
<1>4. \A t \in Seq(S) : Range(t) \subseteq S
  <2> HIDE DEF S
  <2> QED
    BY DEF Range
<1>5. Kept(a) \in Seq(S)
  BY <1>2, <1>3 DEF Kept
<1> QED
  BY <1>4, <1>5

LEMMA HeadAndTailOf ==
  ASSUME NEW s, IsSeq(s), s # <<>>
  PROVE  Head(s) \in Range(s) /\ Range(Tail(s)) \subseteq Range(s)
<1>1. Head(s) \in Range(s) /\ Tail(s) \in Seq(Range(s))
  BY HeadTailProperties DEF IsSeq
<1>2. \A S : \A t \in Seq(S) : Range(t) \subseteq S
  BY DEF Range
<1> QED
  BY <1>1, <1>2

\* What is delivered says what was meant to every reader of the topic.
LEMMA DeliverSays ==
  ASSUME Inv, SentInv, NEW n, NEW p, Deliver(n, p), SaysWhatWasMeant(data_type[n], p)
  PROVE  SentInv'
<1>1. PICK R \in SUBSET {r \in Reader \cap enabled : topic_name[r] = n} :
        history' = [r \in Reader |-> IF r \in R THEN Kept(Append(history[r], p))
                                                ELSE history[r]]
  BY DEF Deliver
<1>2. ASSUME NEW r \in Reader, NEW q \in Range(history'[r])
      PROVE  SaysWhatWasMeant(TypeOf(r), q)
  <2>1. CASE r \in R
    <3>1. TypeOf(r) = data_type[n] /\ history'[r] = Kept(Append(history[r], p))
      BY <1>1, <2>1 DEF TypeOf
    <3>2. IsSeq(history[r])
      BY DEF Inv, DataInv, HistoryInv
    <3>3. q \in Range(history[r]) \cup {p}
      BY <1>2, <3>1, <3>2, KeptIsOfBoth
    <3> QED
      BY <3>1, <3>3 DEF SentInv
  <2>2. CASE r \notin R
    BY <1>1, <1>2, <2>2 DEF SentInv
  <2> QED
    BY <2>1, <2>2
<1> QED
  BY <1>2 DEF SentInv, TypeOf

\* The object is assigned: whatever was in it is cleared.
LEMMA AssignObject ==
  ASSUME ObjectInv, NEW w \in Writer, NEW object \in Object[topic_name[w]],
         assign(w, object)
  PROVE  ObjectInv'
<1> USE DEF ObjectInv
<1>1. object \in Message(TypeOf(w)) /\ TypeOf(w) \in Type
  BY TypeOfType, ObjectAssumption DEF ObjectAssumption, TypeOf, Endpoint
<1>2. stored[w] \in Message(TypeOf(w))
  BY DEF StoredInv
<1>3. Assign(TypeOf(w), stored[w], object) = object
  BY <1>1, <1>2, AssignedIsCopied
<1>4. /\ stored' = [stored EXCEPT ![w] = object] /\ meant' = [meant EXCEPT ![w] = object]
      /\ UNCHANGED <<history, got, lied, died>>
  BY <1>3 DEF assign, Runs
<1>5. StoredInv'
  <2>1. stored' = [v \in Writer |-> stored'[v]] /\ meant' = [v \in Writer |-> meant'[v]]
    BY <1>4 DEF StoredInv
  <2>2. \A v \in Writer : /\ stored'[v] = IF v = w THEN object ELSE stored[v]
                          /\ meant'[v] = IF v = w THEN object ELSE meant[v]
    BY <1>4 DEF StoredInv
  <2> QED
    BY <1>1, <2>1, <2>2 DEF StoredInv, TypeOf
<1> QED
  BY <1>4, <1>5
  DEF SentInv, NeverOverflows, WriteTellsTheTruth, TakesWhatWasMeant, TypeOf

\* There is room for what is written, and it is sent unless it is too long.
LEMMA WriteObject ==
  ASSUME Inv, ObjectInv, NEW w \in Writer, write(w)
  PROVE  ObjectInv'
<1> USE DEF ObjectInv
<1> DEFINE t == TypeOf(w)
           m == stored[w]
           p == [payload |-> Sent(w), meant |-> meant[w]]
<1>1. t \in Type /\ m \in Message(t) /\ meant[w] = m
  BY TypeOfType DEF StoredInv, Endpoint
<1>2. HasRoom(w)
  BY <1>1, RoomForAll DEF HasRoom
<1>3. NeverOverflows' /\ died' = "no"
  BY <1>2 DEF write, DiesIf, NeverOverflows
<1>4. Sent(w) = serialize(t, m) /\ Sent(w).result = ~TooLong(w)
  BY <1>1, FailsIfTooLong DEF Sent, TooLong
<1>5. Sent(w).result \in BOOLEAN /\ TooLong(w) \in BOOLEAN
  BY <1>4 DEF TooLong
<1>6. lied' = (lied \/ Sent(w).result = TooLong(w)) /\ ~lied
  BY DEF write, WriteTellsTheTruth
<1>7. WriteTellsTheTruth'
  BY <1>4, <1>5, <1>6, Zenon DEF WriteTellsTheTruth
<1>8. SentInv'
  <2>1. CASE Sent(w).result
    <3>1. Deliver(topic_name[w], p)
      BY <2>1 DEF write
    <3>2. SaysWhatWasMeant(data_type[topic_name[w]], p)
      BY <1>1, <1>4, <2>1 DEF SaysWhatWasMeant, TypeOf
    <3> QED
      BY <3>1, <3>2, DeliverSays
  <2>2. CASE ~Sent(w).result
    BY <2>2 DEF write, SentInv, TypeOf
  <2> QED
    BY <2>1, <2>2
<1> QED
  BY <1>3, <1>7, <1>8 DEF write, StoredInv, TakesWhatWasMeant, TypeOf

\* What is taken is what was meant.
LEMMA TakeObject ==
  ASSUME Inv, ObjectInv, NEW r \in Reader, take(r)
  PROVE  ObjectInv'
<1> USE DEF ObjectInv
<1> DEFINE t == TypeOf(r)
           p == Head(history[r])
           d == deserialize(t, p.payload)
           g == [decoded |-> d.result, value |-> d.data, meant |-> p.meant]
<1>1. IsSeq(history[r]) /\ history[r] # <<>>
  BY DEF Inv, DataInv, HistoryInv, take
<1>2. p \in Range(history[r]) /\ Range(Tail(history[r])) \subseteq Range(history[r])
  BY <1>1, HeadAndTailOf
<1>3. t \in Type
  BY TypeOfType DEF Endpoint
<1>4. SaysWhatWasMeant(t, p)
  BY <1>2 DEF SentInv
<1>5. d = [result |-> TRUE, data |-> p.meant]
  BY <1>3, <1>4, ReadBack DEF SaysWhatWasMeant
<1>6. g.decoded /\ SameAs(t, g.value, g.meant)
  BY <1>5 DEF SameAs
<1>7. /\ history' = [history EXCEPT ![r] = Tail(@)]
      /\ got' = [got EXCEPT ![r] = <<g>>]
      /\ UNCHANGED <<stored, meant, lied, died>>
  BY DEF take, Runs
<1> HIDE DEF g, d, p
<1>8. SentInv'
  <2>1. \A q \in Reader :
          history'[q] = IF q = r THEN Tail(history[r]) ELSE history[q]
    BY <1>7 DEF Inv, DataInv, HistoryInv
  <2> QED
    BY <1>2, <2>1 DEF SentInv, TypeOf
<1>9. TakesWhatWasMeant'
  <2>1. \A q \in Reader : got'[q] = IF q = r THEN <<g>> ELSE got[q]
    BY <1>7 DEF Inv, DataInv, GotInv
  <2>2. \A x \in Range(<<g>>) : x = g
    BY DEF Range
  <2> QED
    BY <1>6, <2>1, <2>2 DEF TakesWhatWasMeant, TypeOf
<1> QED
  BY <1>7, <1>8, <1>9 DEF StoredInv, NeverOverflows, WriteTellsTheTruth, TypeOf

\* A step that moves no object; a reader that is disabled loses some.
LEMMA ObjectsStay ==
  ASSUME Inv, ObjectInv, UNCHANGED <<stored, meant, got, lied>>, died' # "overflow",
         \A r \in Reader : history'[r] = history[r] \/ history'[r] = <<>>
  PROVE  ObjectInv'
<1>1. Range(<<>>) = {}
  BY DEF Range
<1>2. SentInv'
  BY <1>1 DEF ObjectInv, SentInv, TypeOf
<1> QED
  BY <1>2
  DEF ObjectInv, StoredInv, NeverOverflows, WriteTellsTheTruth, TakesWhatWasMeant, TypeOf

LEMMA ObjectStep == Inv /\ ObjectInv /\ [Next]_vars => ObjectInv'
<1> SUFFICES ASSUME Inv, ObjectInv, [Next]_vars PROVE ObjectInv'
  OBVIOUS
<1>1. ASSUME UNCHANGED dataVars, died' # "overflow" PROVE ObjectInv'
  BY <1>1, ObjectsStay DEF dataVars
<1>2. ASSUME NEW e \in Endpoint,
             \/ getTopic(e) \/ create_topic(e) \/ countTopic(e) \/ init(e)
             \/ deleteTopic(e) \/ eraseTopic(e) \/ deleteThroughBase(e)
      PROVE  ObjectInv'
  <2>1. UNCHANGED dataVars /\ died' # "overflow"
    BY <1>2
    DEF getTopic, create_topic, countTopic, init, deleteTopic, eraseTopic,
        deleteThroughBase, Runs, DiesIf
  <2> QED
    BY <1>1, <2>1
<1>3. ASSUME NEW r \in Reader, enable(r) \/ listenerIsFreed(r) PROVE ObjectInv'
  BY <1>1, <1>3 DEF enable, listenerIsFreed, DiesIf
<1>4. ASSUME NEW r \in Reader, disable(r) PROVE ObjectInv'
  BY <1>4, ObjectsStay DEF disable, Runs, Inv, DataInv, HistoryInv
<1>5. ASSUME NEW e \in Endpoint, destroy(e) PROVE ObjectInv'
  BY <1>5, ObjectsStay DEF destroy, Runs, Inv, DataInv, HistoryInv
<1>6. CASE exitProcess
  BY <1>6, ObjectsStay DEF exitProcess
<1>7. ASSUME NEW w \in Writer, NEW object \in Object[topic_name[w]], assign(w, object)
      PROVE  ObjectInv'
  BY <1>7, AssignObject
<1>8. ASSUME NEW w \in Writer, write(w) PROVE ObjectInv'
  BY <1>8, WriteObject
<1>9. ASSUME NEW r \in Reader, take(r) PROVE ObjectInv'
  BY <1>9, TakeObject
<1>10. ASSUME NEW n \in Topic, foreignWrite(n) PROVE ObjectInv'
  <2>1. PICK p \in Foreign[n] : Deliver(n, p)
    BY <1>10 DEF foreignWrite
  <2>2. SaysWhatWasMeant(data_type[n], p)
    BY ObjectAssumption DEF ObjectAssumption, SaysWhatWasMeant
  <2>3. SentInv'
    BY <2>1, <2>2, DeliverSays DEF ObjectInv
  <2> QED
    BY <1>10, <2>3
    DEF foreignWrite, Runs, ObjectInv, StoredInv, NeverOverflows, WriteTellsTheTruth,
        TakesWhatWasMeant, TypeOf
<1>11. CASE UNCHANGED vars
  BY <1>1, <1>11 DEF vars, ObjectInv, NeverOverflows
<1> QED
  BY <1>2, <1>3, <1>4, <1>5, <1>6, <1>7, <1>8, <1>9, <1>10, <1>11 DEF Next

LEMMA ObjectAlways == Spec => []ObjectInv
BY InitObject, ObjectStep, InvAlways, PTL DEF Spec

(***************************************************************************)
(* serialize() never writes past what its size provider made FastDDS       *)
(* reserve, for all objects of both serializers.                           *)
(***************************************************************************)
THEOREM BuffersSuffice == Spec => []NeverOverflows
<1>1. ObjectInv => NeverOverflows
  BY DEF ObjectInv
<1> QED
  BY <1>1, ObjectAlways, PTL

(***************************************************************************)
(* write() returns true if and only if the object is sent, and fails only  *)
(* for an object that is longer than its type allows.                      *)
(***************************************************************************)
THEOREM WritesTellTheTruth == Spec => []WriteTellsTheTruth
<1>1. ObjectInv => WriteTellsTheTruth
  BY DEF ObjectInv
<1> QED
  BY <1>1, ObjectAlways, PTL

(***************************************************************************)
(* A reader takes the object that the writer's owner assigned last before  *)
(* it was written, whatever the writer had written before, and whatever    *)
(* fields of another version it has.                                       *)
(***************************************************************************)
THEOREM TakenIsMeant == Spec => []TakesWhatWasMeant
<1>1. ObjectInv => TakesWhatWasMeant
  BY DEF ObjectInv
<1> QED
  BY <1>1, ObjectAlways, PTL

=============================================================================
