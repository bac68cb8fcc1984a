---------------------------- MODULE DeliveryProofs ----------------------------
(***************************************************************************)
(* Theorems about Delivery, for any providers and any bound of the queue:  *)
(* what the threads of the two readers do to a subscriber while it is used *)
(* and when it is destroyed, and who can wait for whom.                    *)
(***************************************************************************)
EXTENDS Delivery, SubscriberProofs, SequenceTheorems

-----------------------------------------------------------------------------
\* The queue of the DDS reader and the listener of the iceoryx reader.

\* Wrappers are in the receive thread's hand, then in the queue.
WrappersInv ==
  /\ receiving \in {<<>>} \cup {<<c>> : c \in BOOLEAN}
  /\ queue \in Seq(BOOLEAN)
  /\ Len(queue) + Len(receiving) <= MaxQueue

\* The runner stops only when the queue is empty, and its callback is the front.
RunnerInv ==
  /\ InLambda("runner") => queue # <<>> /\ Head(queue)
  /\ pc["runner"] = "next" => queue # <<>>

\* While it is closing or gives out a sample, the DDS reader exists.
ClosingInv == closing \/ receiving # <<>> => dds

\* The listener is inside the callback only while the callback is set.
IoxCallbackInv ==
  /\ InLambda("listener") => ioxCallback
  /\ Destroying /\ opc # "unset_iox" => ~ioxCallback

PlainTypes ==
  /\ pc \in [Reading -> {"idle", "next", "taken", "lambda", "handler"} \cup Asks]
  /\ handler \in BOOLEAN /\ closing \in BOOLEAN

ReaderThreadsInv == WrappersInv /\ RunnerInv /\ ClosingInv /\ IoxCallbackInv /\ PlainTypes
DeliveryInv == SubInv /\ ReaderThreadsInv

LEMMA InitDelivery == DeliveryInit => DeliveryInv
<1> SUFFICES ASSUME DeliveryInit PROVE DeliveryInv
  OBVIOUS
<1>1. SubInv
  BY InitSub DEF DeliveryInit
<1>2. WrappersInv
  BY EmptySeq, QueueAssumption DEF DeliveryInit, WrappersInv, QueueAssumption
<1>3. pc["runner"] = "idle" /\ pc["listener"] = "idle"
  BY DEF DeliveryInit, Reading
<1>4. RunnerInv /\ ClosingInv /\ IoxCallbackInv /\ PlainTypes
  BY <1>3
  DEF DeliveryInit, Init, RunnerInv, ClosingInv, IoxCallbackInv, PlainTypes, InLambda, Asks,
      Destroying
<1> QED
  BY <1>1, <1>2, <1>4 DEF DeliveryInv, ReaderThreadsInv

\* The process dies, and nothing else happens.
LEMMA DeathKeeps ==
  ASSUME DeliveryInv, NEW how \in {"race", "bad_function_call", "use_after_free"}, Dies(how)
  PROVE  DeliveryInv'
<1> USE DEF Dies, registryVars, callbackVars, readerVars, deliveryVars
<1>1. SubInv'
  BY DEF DeliveryInv, SubInv, TypeOK, OneInside, InsideInv, Unregistered, Destroying,
         ObserveFree, SwitchInv, ReadersInv, IoxWasOff, Constructed
<1>2. WrappersInv' /\ ClosingInv' /\ PlainTypes'
  BY DEF DeliveryInv, ReaderThreadsInv, WrappersInv, ClosingInv, PlainTypes
<1>3. RunnerInv' /\ IoxCallbackInv'
  BY DEF DeliveryInv, ReaderThreadsInv, RunnerInv, IoxCallbackInv, InLambda, Destroying
<1> QED
  BY <1>1, <1>2, <1>3 DEF DeliveryInv, ReaderThreadsInv

\* Only the owner sets the callback of the iceoryx reader and unsets it.
IoxCallbackStep ==
  \/ opc' = "disable_dds" /\ ioxCallback'
  \/ opc = "unset_iox" /\ opc' = "stop_iox" /\ ~ioxCallback'
  \/ /\ ioxCallback' = ioxCallback
     /\ opc' \in {"stop_iox", "unset_dds", "stop_dds", "gone"} =>
          opc \in {"stop_iox", "unset_dds", "stop_dds", "gone"}

LEMMA WhoSetsIoxCallback ==
  ASSUME SubInv, [Next]_vars
  PROVE  IoxCallbackStep
<1> USE DEF IoxCallbackStep, SubInv, TypeOK, Thread, Runs, registryVars, callbackVars, readerVars
<1>1. ASSUME NEW p \in Provider, toggle(p) PROVE IoxCallbackStep
  BY <1>1 DEF toggle
<1>2. ASSUME NEW p \in Provider, receive(p) PROVE IoxCallbackStep
  BY <1>2 DEF receive
<1>3. CASE writeEntry
  BY <1>3 DEF writeEntry
<1>4. CASE notifyUserCallback
  BY <1>4 DEF notifyUserCallback
<1>5. ASSUME NEW t \in Thread, preferLocal(t) PROVE IoxCallbackStep
  BY <1>5 DEF preferLocal
<1>6. ASSUME NEW t \in Thread, turnOffDds(t) PROVE IoxCallbackStep
  BY <1>6 DEF turnOffDds
<1>7. ASSUME NEW t \in Thread, preferRemote(t) PROVE IoxCallbackStep
  BY <1>7 DEF preferRemote
<1>8. ASSUME NEW t \in Thread, noProvider(t) PROVE IoxCallbackStep
  BY <1>8 DEF noProvider
<1>9. ASSUME NEW t \in Thread, enableReader(t) PROVE IoxCallbackStep
  BY <1>9 DEF enableReader
<1>10. ASSUME NEW t \in Thread, observerReturns(t) PROVE IoxCallbackStep
  BY <1>10 DEF observerReturns
<1>11. CASE createReaders
  BY <1>11 DEF createReaders
<1>12. CASE startObserveServiceStatus
  BY <1>12 DEF startObserveServiceStatus, WaitsForObserver
<1>13. CASE readRace
  BY <1>13 DEF readRace
<1>14. CASE disableIox
  BY <1>14 DEF disableIox, ownerStep
<1>15. CASE setIoxCallback
  BY <1>15 DEF setIoxCallback, ownerStep
<1>16. CASE disableDds
  BY <1>16 DEF disableDds, ownerStep
<1>17. CASE setDdsCallback
  BY <1>17 DEF setDdsCallback, ownerStep
<1>18. CASE stopObserveServiceStatus
  BY <1>18 DEF stopObserveServiceStatus, ownerStep
<1>19. CASE unsetIoxCallback
  BY <1>19 DEF unsetIoxCallback, ownerStep
<1>20. CASE disableIoxInDtor
  BY <1>20 DEF disableIoxInDtor, ownerStep
<1>21. CASE unsetDdsCallback
  BY <1>21 DEF unsetDdsCallback, ownerStep
<1>22. CASE disableDdsInDtor
  BY <1>22 DEF disableDdsInDtor, ownerStep
<1>23. CASE UNCHANGED vars
  BY <1>23 DEF vars
<1> QED
  BY <1>1, <1>2, <1>3, <1>4, <1>5, <1>6, <1>7, <1>8, <1>9, <1>10, <1>11, <1>12,
     <1>13, <1>14, <1>15, <1>16, <1>17, <1>18, <1>19, <1>20, <1>21, <1>22, <1>23
  DEF Next, WorkerStep, ObserverStep, CtorStep, DtorStep

\* A step of the Subscriber module: the queue and the callbacks go on.
LEMMA SubscriberKeeps ==
  ASSUME DeliveryInv, SubscriberStep(Next)
  PROVE  DeliveryInv'
<1>1. /\ Next
      /\ dds /\ ~dds' => closing /\ MayDelete
      /\ ioxCallback' = ioxCallback \/ ~HoldsIoxCallback
      /\ closing' = (closing /\ dds')
      /\ UNCHANGED <<receiving, queue, pc, handler>>
  BY DEF SubscriberStep
<1>2. SubInv' /\ dds' \in BOOLEAN
  BY <1>1, SubStep DEF DeliveryInv, SubInv, TypeOK
<1>3. WrappersInv' /\ RunnerInv' /\ PlainTypes'
  BY <1>1, <1>2 DEF DeliveryInv, ReaderThreadsInv, WrappersInv, RunnerInv, PlainTypes, InLambda
<1>4. ClosingInv'
  BY <1>1 DEF DeliveryInv, ReaderThreadsInv, ClosingInv, MayDelete
<1>5. IoxCallbackStep
  BY <1>1, WhoSetsIoxCallback DEF DeliveryInv
<1>6. ioxCallback \in BOOLEAN /\ ioxCallback' \in BOOLEAN
  BY <1>2 DEF DeliveryInv, SubInv, TypeOK
<1>7. IoxCallbackInv'
  BY <1>1, <1>5, <1>6
  DEF DeliveryInv, ReaderThreadsInv, IoxCallbackInv, IoxCallbackStep, HoldsIoxCallback,
      InLambda, Destroying
<1> QED
  BY <1>2, <1>3, <1>4, <1>7 DEF DeliveryInv, ReaderThreadsInv

\* A step of the readers' threads leaves the subscriber alone.
LEMMA SubUnchanged == SubInv /\ UNCHANGED vars => SubInv'
BY SubStep

LEMMA IoxUnchanged ==
  ASSUME IoxCallbackInv, UNCHANGED vars, InLambda("listener")' => InLambda("listener")
  PROVE  IoxCallbackInv'
BY DEF IoxCallbackInv, vars, readerVars, callbackVars, Destroying

LEMMA RemoveListenerKeeps ==
  ASSUME DeliveryInv, NEW t \in Thread, removeListener(t)
  PROVE  DeliveryInv'
BY SubUnchanged
DEF removeListener, DeliveryInv, ReaderThreadsInv, WrappersInv, RunnerInv, ClosingInv,
    IoxCallbackInv, PlainTypes, InLambda, Destroying, vars, readerVars, callbackVars

LEMMA OneIsSeq ==
  ASSUME NEW S, NEW x \in S
  PROVE  <<x>> \in Seq(S) /\ Len(<<x>>) = 1
OBVIOUS

\* The receive thread's hand is a sequence like the queue.
LEMMA WrapperIsSeq ==
  ASSUME WrappersInv
  PROVE  receiving \in Seq(BOOLEAN) /\ Len(receiving) \in Nat
<1>1. CASE receiving = <<>>
  <2>1. <<>> \in Seq(BOOLEAN)
    BY EmptySeq, Zenon
  <2> QED
    BY <1>1, <2>1, LenProperties
<1>2. ASSUME NEW c \in BOOLEAN, receiving = <<c>>
      PROVE  receiving \in Seq(BOOLEAN) /\ Len(receiving) \in Nat
  BY <1>2, OneIsSeq
<1> QED
  BY <1>1, <1>2 DEF WrappersInv

\* The receive thread takes a sample and queues it.
LEMMA ReceiveKeeps ==
  ASSUME DeliveryInv, ReceiveStep
  PROVE  DeliveryInv'
<1> USE DEF DeliveryInv, ReaderThreadsInv
<1>1. CASE onDataAvailable
  <2>1. UNCHANGED vars /\ UNCHANGED <<closing, queue, pc, handler>> /\ dds
        /\ receiving = <<>> /\ receiving' = <<ddsCallback>> /\ Len(queue) < MaxQueue
    BY <1>1 DEF onDataAvailable
  <2>2. ddsCallback \in BOOLEAN /\ dds' = dds
    BY <2>1 DEF SubInv, TypeOK, vars, readerVars
  <2>3. WrappersInv'
    <3>1. Len(receiving') = 1 /\ Len(queue) \in Nat /\ MaxQueue \in Nat
      BY <2>1, LenProperties, QueueAssumption DEF WrappersInv, QueueAssumption
    <3> QED
      BY <2>1, <2>2, <3>1 DEF WrappersInv
  <2>4. RunnerInv' /\ ClosingInv' /\ PlainTypes'
    BY <2>1, <2>2 DEF RunnerInv, ClosingInv, PlainTypes, InLambda
  <2>5. IoxCallbackInv'
    BY <2>1, IoxUnchanged DEF InLambda
  <2> QED
    BY <2>1, <2>3, <2>4, <2>5, SubUnchanged
<1>2. CASE copyRace
  BY <1>2, DeathKeeps DEF copyRace
<1>3. CASE emplace
  <2>1. UNCHANGED vars /\ UNCHANGED <<closing, pc, handler>> /\ receiving # <<>>
        /\ pc["runner"] = "idle" /\ queue' = queue \o receiving /\ receiving' = <<>>
    BY <1>3 DEF emplace, HoldsQueue
  <2>2. receiving \in Seq(BOOLEAN) /\ queue \in Seq(BOOLEAN)
    BY WrapperIsSeq DEF WrappersInv
  <2>3. queue' \in Seq(BOOLEAN) /\ Len(queue') = Len(queue) + Len(receiving)
        /\ Len(receiving') = 0
    BY <2>1, <2>2, ConcatProperties
  <2>4. Len(queue) \in Nat /\ Len(receiving) \in Nat /\ MaxQueue \in Nat
    BY <2>2, LenProperties, QueueAssumption DEF QueueAssumption
  <2>5. WrappersInv'
    BY <2>1, <2>3, <2>4 DEF WrappersInv
  <2>6. RunnerInv' /\ ClosingInv' /\ PlainTypes'
    BY <2>1
    DEF RunnerInv, ClosingInv, PlainTypes, InLambda, vars, readerVars, Asks
  <2>7. IoxCallbackInv'
    BY <2>1, IoxUnchanged DEF InLambda
  <2> QED
    BY <2>1, <2>5, <2>6, <2>7, SubUnchanged
<1> QED
  BY <1>1, <1>2, <1>3 DEF ReceiveStep

\* What is left when the front has been popped.
LEMMA PoppedKeeps ==
  ASSUME DeliveryInv, queue # <<>>, UNCHANGED vars, UNCHANGED <<closing, receiving, handler>>,
         queue' = Tail(queue), pc' = [pc EXCEPT !["runner"] = AfterPop]
  PROVE  DeliveryInv'
<1> USE DEF DeliveryInv, ReaderThreadsInv
<1>1. queue \in Seq(BOOLEAN) /\ receiving \in Seq(BOOLEAN) /\ Len(receiving) \in Nat
  BY WrapperIsSeq DEF WrappersInv
<1>2. Tail(queue) \in Seq(BOOLEAN) /\ Len(Tail(queue)) = Len(queue) - 1 /\ Len(queue) \in Nat
  BY <1>1, HeadTailProperties, LenProperties
<1>3. WrappersInv'
  BY <1>1, <1>2, QueueAssumption DEF WrappersInv, QueueAssumption
<1>4. pc'["runner"] = AfterPop /\ pc'["listener"] = pc["listener"]
  BY DEF PlainTypes, Reading
<1>5. RunnerInv'
  <2>1. pc'["runner"] \in {"idle", "next"} /\ (pc'["runner"] = "next" => queue' # <<>>)
    BY <1>4 DEF AfterPop
  <2>2. ~InLambda("runner")'
    BY <2>1 DEF InLambda, Asks
  <2> QED
    BY <2>1, <2>2 DEF RunnerInv
<1>6. ClosingInv' /\ PlainTypes'
  BY DEF ClosingInv, PlainTypes, AfterPop, vars, readerVars
<1>7. IoxCallbackInv'
  BY <1>4, IoxUnchanged DEF InLambda
<1> QED
  BY <1>3, <1>5, <1>6, <1>7, SubUnchanged

\* A thread goes from one place to another, and what it has stays.
LEMMA ThreadMoves ==
  ASSUME DeliveryInv, NEW t \in Reading, UNCHANGED vars,
         UNCHANGED <<closing, receiving, queue>>, handler' \in BOOLEAN,
         NEW to \in {"idle", "taken", "lambda", "handler"} \cup Asks,
         pc' = [pc EXCEPT ![t] = to],
         t = "runner" /\ to # "idle" => queue # <<>> /\ Head(queue),
         t = "listener" /\ to \notin {"idle", "taken"} => ioxCallback
  PROVE  DeliveryInv'
<1> USE DEF DeliveryInv, ReaderThreadsInv
<1>1. pc'[t] = to /\ \A u \in Reading \ {t} : pc'[u] = pc[u]
  BY DEF PlainTypes
<1>2. WrappersInv' /\ ClosingInv' /\ PlainTypes'
  BY DEF WrappersInv, ClosingInv, PlainTypes, vars, readerVars
<1>3. RunnerInv'
  BY <1>1 DEF RunnerInv, InLambda, Reading, Asks
<1>4. IoxCallbackInv'
  BY <1>1 DEF IoxCallbackInv, InLambda, Reading, Asks, Destroying, vars, readerVars, callbackVars
<1> QED
  BY <1>2, <1>3, <1>4, SubUnchanged

\* The runner calls the lambda, or drops a wrapper that has no callback.
LEMMA RunFrontKeeps ==
  ASSUME DeliveryInv, runFront
  PROVE  DeliveryInv'
<1>1. UNCHANGED vars /\ UNCHANGED <<closing, receiving, handler>> /\ queue # <<>>
  BY DEF runFront
<1>2. CASE Head(queue)
  <2>1. pc' = [pc EXCEPT !["runner"] = "lambda"] /\ queue' = queue
    BY <1>2 DEF runFront
  <2> QED
    BY <1>1, <1>2, <2>1, ThreadMoves DEF Reading, DeliveryInv, ReaderThreadsInv, PlainTypes
<1>3. CASE ~Head(queue)
  <2>1. pc' = [pc EXCEPT !["runner"] = AfterPop] /\ queue' = Tail(queue)
    BY <1>3 DEF runFront
  <2> QED
    BY <1>1, <2>1, PoppedKeeps
<1> QED
  BY <1>2, <1>3

\* The listener takes a sample and calls what is set, or the process dies.
LEMMA ListenerKeeps ==
  ASSUME DeliveryInv, ListenerStep
  PROVE  DeliveryInv'
<1> USE DEF DeliveryInv, ReaderThreadsInv, PlainTypes
<1>1. CASE take
  BY <1>1, ThreadMoves DEF take, Reading
<1>2. CASE callUserCallback
  BY <1>2, ThreadMoves DEF callUserCallback, Reading
<1>3. CASE callEmptyCallback
  BY <1>3, DeathKeeps DEF callEmptyCallback
<1> QED
  BY <1>1, <1>2, <1>3 DEF ListenerStep

\* The lambda returns.
LEMMA ReturnsKeeps ==
  ASSUME DeliveryInv, NEW t \in Reading, InLambda(t), Returns(t)
  PROVE  DeliveryInv'
<1> USE DEF DeliveryInv, ReaderThreadsInv, PlainTypes
<1>1. UNCHANGED vars /\ UNCHANGED <<closing, receiving, handler>>
  BY DEF Returns
<1>2. CASE t = "runner"
  <2>1. pc' = [pc EXCEPT !["runner"] = AfterPop] /\ queue' = Tail(queue) /\ queue # <<>>
    BY <1>2 DEF Returns, RunnerInv
  <2> QED
    BY <1>1, <2>1, PoppedKeeps
<1>3. CASE t = "listener"
  <2>1. pc' = [pc EXCEPT !["listener"] = "idle"] /\ queue' = queue
    BY <1>3 DEF Returns
  <2> QED
    BY <1>1, <1>3, <2>1, ThreadMoves
<1> QED
  BY <1>2, <1>3 DEF Reading

LEMMA LambdaKeeps ==
  ASSUME DeliveryInv, NEW t \in Reading, LambdaStep(t) \/ handlerAsks(t)
  PROVE  DeliveryInv'
<1> USE DEF DeliveryInv, ReaderThreadsInv, PlainTypes
<1>1. ASSUME InLambda(t), NEW to \in {"handler"} \cup Asks, pc' = [pc EXCEPT ![t] = to],
             UNCHANGED <<vars, closing, receiving, queue, handler>>
      PROVE  DeliveryInv'
  <2>1. /\ t = "runner" => queue # <<>> /\ Head(queue)
        /\ t = "listener" => ioxCallback
    BY <1>1 DEF RunnerInv, IoxCallbackInv
  <2> QED
    BY <1>1, <2>1, ThreadMoves
<1>2. CASE lockHandler(t)
  BY <1>1, <1>2 DEF lockHandler, InLambda
<1>3. CASE handlerAsks(t)
  BY <1>1, <1>3 DEF handlerAsks, InLambda
<1>4. CASE noHandler(t) \/ handlerReturns(t) \/ isAnswered(t)
  BY <1>4, ReturnsKeeps DEF noHandler, handlerReturns, isAnswered, InLambda, Asks
<1> QED
  BY <1>2, <1>3, <1>4 DEF LambdaStep

(***************************************************************************)
(* The steps of the subscriber and of the threads of its readers.          *)
(***************************************************************************)
LEMMA DeliveryStep == DeliveryInv /\ [DeliveryNext]_allVars => DeliveryInv'
<1> SUFFICES ASSUME DeliveryInv, [DeliveryNext]_allVars PROVE DeliveryInv'
  OBVIOUS
<1>1. CASE registerReceiveHandler
  <2>1. UNCHANGED <<vars, closing, receiving, queue, pc>> /\ handler' = TRUE
    BY <1>1 DEF registerReceiveHandler
  <2>2. WrappersInv' /\ RunnerInv' /\ ClosingInv' /\ PlainTypes'
    BY <2>1
    DEF DeliveryInv, ReaderThreadsInv, WrappersInv, RunnerInv, ClosingInv, PlainTypes,
        InLambda, vars, readerVars
  <2>3. IoxCallbackInv'
    BY <2>1, IoxUnchanged DEF InLambda, DeliveryInv, ReaderThreadsInv
  <2> QED
    BY <2>1, <2>2, <2>3, SubUnchanged DEF DeliveryInv, ReaderThreadsInv
<1>2. ASSUME NEW t \in Reading, useAfterFree(t) PROVE DeliveryInv'
  BY <1>2, DeathKeeps DEF useAfterFree
<1>3. CASE UNCHANGED allVars
  <2>1. UNCHANGED vars /\ UNCHANGED deliveryVars
    BY <1>3 DEF allVars
  <2>2. WrappersInv' /\ RunnerInv' /\ ClosingInv' /\ PlainTypes'
    BY <2>1
    DEF DeliveryInv, ReaderThreadsInv, WrappersInv, RunnerInv, ClosingInv, PlainTypes,
        InLambda, vars, readerVars, deliveryVars
  <2>3. IoxCallbackInv'
    BY <2>1, IoxUnchanged DEF InLambda, DeliveryInv, ReaderThreadsInv, deliveryVars
  <2> QED
    BY <2>1, <2>2, <2>3, SubUnchanged DEF DeliveryInv, ReaderThreadsInv
<1> QED
  BY <1>1, <1>2, <1>3, SubscriberKeeps, RemoveListenerKeeps, ReceiveKeeps, RunFrontKeeps,
     ListenerKeeps, LambdaKeeps
  DEF DeliveryNext

LEMMA DeliveryAlways == DeliverySpec => []DeliveryInv
BY InitDelivery, DeliveryStep, PTL DEF DeliverySpec

\* Types of the threads of the readers, and what their states entail.
THEOREM DeliveryTypes == DeliverySpec => []DeliveryTypeOK
<1>1. DeliveryInv => DeliveryTypeOK
  <2> SUFFICES ASSUME DeliveryInv PROVE DeliveryTypeOK
    OBVIOUS
  <2>1. queue \in UNION {[1 .. n -> BOOLEAN] : n \in 0 .. MaxQueue}
    <3>1. queue \in [1 .. Len(queue) -> BOOLEAN] /\ Len(queue) \in Nat
      BY LenProperties DEF DeliveryInv, ReaderThreadsInv, WrappersInv
    <3>2. Len(queue) \in 0 .. MaxQueue
      BY <3>1, WrapperIsSeq, QueueAssumption
      DEF DeliveryInv, ReaderThreadsInv, WrappersInv, QueueAssumption
    <3> QED
      BY <3>1, <3>2, Zenon
  <2> QED
    BY <2>1
    DEF DeliveryInv, ReaderThreadsInv, WrappersInv, RunnerInv, ClosingInv, PlainTypes,
        DeliveryTypeOK
<1> QED
  BY <1>1, DeliveryAlways, PTL

\* Subscriber is as it was alone, whatever its readers' threads do.
THEOREM SubscriberInDelivery == DeliverySpec => [](TypeOK /\ OneTransport /\ DestroyedIsQuiet)
<1>1. DeliveryInv => TypeOK /\ OneTransport /\ DestroyedIsQuiet
  BY DEF DeliveryInv, SubInv, InsideInv, Unregistered, ReadersInv, IoxWasOff, OneTransport,
         DestroyedIsQuiet
<1> QED
  BY <1>1, DeliveryAlways, PTL

(***************************************************************************)
(* When ~Subscriber has unset the callback of the iceoryx reader, the      *)
(* listener is outside of the subscriber for good.                         *)
(***************************************************************************)
THEOREM ListenerLeaves == DeliverySpec => []ListenerLeavesDestroyed
<1>1. DeliveryInv => ListenerLeavesDestroyed
  BY DEF DeliveryInv, ReaderThreadsInv, IoxCallbackInv, ListenerLeavesDestroyed
<1> QED
  BY <1>1, DeliveryAlways, PTL

-----------------------------------------------------------------------------
\* What a destroyed subscriber still does.

\* A queue that is popped is not longer.
LEMMA PoppedIsShorter ==
  ASSUME NEW q \in Seq(BOOLEAN), q # <<>>
  PROVE  Len(Tail(q)) <= Len(q)
<1>1. Len(Tail(q)) = Len(q) - 1 /\ Len(q) \in Nat
  BY HeadTailProperties, LenProperties
<1> QED
  BY <1>1

(***************************************************************************)
(* After ~Subscriber the DDS reader is disabled, and whoever still takes a *)
(* step only works off the queue.                                          *)
(***************************************************************************)
LEMMA WorksOffTheQueue ==
  ASSUME DeliveryInv, [DeliveryNext]_allVars, opc = "gone"
  PROVE  receiving' = <<>> /\ Len(queue') <= Len(queue)
<1>1. ~dds /\ receiving = <<>>
  BY DEF DeliveryInv, SubInv, ReadersInv, ReaderThreadsInv, ClosingInv
<1>2. queue \in Seq(BOOLEAN) /\ Len(queue) \in Nat
  BY LenProperties DEF DeliveryInv, ReaderThreadsInv, WrappersInv
<1> DEFINE Goal == receiving' = <<>> /\ Len(queue') <= Len(queue)
<1>3. ASSUME UNCHANGED <<receiving, queue>> PROVE Goal
  BY <1>1, <1>2, <1>3
<1>4. ASSUME receiving' = receiving, queue # <<>>, queue' = Tail(queue) PROVE Goal
  BY <1>1, <1>2, <1>4, PoppedIsShorter
<1>5. CASE SubscriberStep(Next)
  BY <1>3, <1>5 DEF SubscriberStep
<1>6. ASSUME NEW t \in Thread, removeListener(t) PROVE Goal
  BY <1>3, <1>6 DEF removeListener
<1>7. CASE ReceiveStep
  BY <1>1, <1>3, <1>7 DEF ReceiveStep, onDataAvailable, copyRace, emplace, Dies, deliveryVars
<1>8. CASE runFront
  BY <1>3, <1>4, <1>8 DEF runFront
<1>9. CASE ListenerStep
  BY <1>3, <1>9 DEF ListenerStep, take, callUserCallback, callEmptyCallback, Dies, deliveryVars
<1>10. ASSUME NEW t \in Reading, InLambda(t), Returns(t) PROVE Goal
  <2>1. receiving' = receiving /\ queue' = IF t = "runner" THEN Tail(queue) ELSE queue
    BY <1>10 DEF Returns
  <2>2. t = "runner" => queue # <<>>
    BY <1>10 DEF DeliveryInv, ReaderThreadsInv, RunnerInv
  <2> QED
    BY <1>3, <1>4, <2>1, <2>2
<1>11. ASSUME NEW t \in Reading, LambdaStep(t) \/ handlerAsks(t) \/ useAfterFree(t) PROVE Goal
  <2>1. CASE lockHandler(t) \/ handlerAsks(t) \/ useAfterFree(t)
    BY <1>3, <2>1 DEF lockHandler, handlerAsks, useAfterFree, Dies, deliveryVars
  <2>2. CASE noHandler(t) \/ handlerReturns(t) \/ isAnswered(t)
    BY <1>10, <2>2 DEF noHandler, handlerReturns, isAnswered, InLambda, Asks
  <2> QED
    BY <1>11, <2>1, <2>2 DEF LambdaStep
<1>12. CASE registerReceiveHandler
  BY <1>3, <1>12 DEF registerReceiveHandler
<1>13. CASE UNCHANGED allVars
  BY <1>3, <1>13 DEF allVars, deliveryVars
<1> QED
  BY <1>5, <1>6, <1>7, <1>8, <1>9, <1>11, <1>12, <1>13 DEF DeliveryNext

(***************************************************************************)
(* No sample is taken or queued for a destroyed subscriber.                *)
(***************************************************************************)
THEOREM NothingIsReceived == DeliverySpec => DestroyedReceivesNothing
<1>1. DeliveryInv /\ [DeliveryNext]_allVars
        => [opc = "gone" => receiving' = <<>> /\ Len(queue') <= Len(queue)]_allVars
  BY WorksOffTheQueue
<1> QED
  BY <1>1, DeliveryAlways, PTL DEF DeliverySpec, DestroyedReceivesNothing

-----------------------------------------------------------------------------
\* Who waits for whom.

(***************************************************************************)
(* In a circle of waiting threads somebody is a handler that called smw:   *)
(* without one, whoever waits for a lambda's mutex waits for a handler     *)
(* that runs, the receive thread for the runner, the worker for the owner; *)
(* and the owner waits for the worker's observer only before it has one.   *)
(***************************************************************************)
LEMMA NoCircle ==
  ASSUME DeliveryInv, NEW S \in SUBSET (Thread \cup Reading \cup {"receive"}),
         \A t \in S : \E u \in S : WaitsFor(t, u),
         \A t \in S \cap Reading : pc[t] \notin Asks
  PROVE  S = {}
<1>1. \A t \in Reading : t \notin S
  <2> SUFFICES ASSUME NEW t \in Reading, t \in S PROVE FALSE
    OBVIOUS
  <2>1. t \in {"runner", "listener"} /\ pc[t] \notin Asks
    BY DEF Reading
  <2>2. PICK u \in S : WaitsFor(t, u)
    OBVIOUS
  <2>3. u \in HandlerHolders
    BY <2>1, <2>2 DEF WaitsFor, Thread, Asks
  <2>4. u \in Reading /\ pc[u] = "handler"
    BY <2>3 DEF HandlerHolders, InLambda
  <2>5. PICK v \in S : WaitsFor(u, v)
    OBVIOUS
  <2> QED
    BY <2>4, <2>5 DEF WaitsFor, Thread, Reading, Asks
<1>2. "receive" \notin S
  <2> SUFFICES ASSUME "receive" \in S PROVE FALSE
    OBVIOUS
  <2>1. PICK u \in S : WaitsFor("receive", u)
    OBVIOUS
  <2>2. u = "runner"
    BY <2>1 DEF WaitsFor, Thread, Reading
  <2> QED
    BY <1>1, <2>1, <2>2 DEF Reading
<1>3. S \subseteq {"owner", "worker"}
  BY <1>1, <1>2 DEF Thread
<1>4. "owner" \notin S
  <2> SUFFICES ASSUME "owner" \in S PROVE FALSE
    OBVIOUS
  <2>1. PICK u \in {"owner", "worker"} : WaitsFor("owner", u)
    BY <1>3
  <2>2. opc = "observe" /\ cpc["worker"] # "none"
    BY <2>1 DEF WaitsFor, Reading
  <2> QED
    BY <2>2 DEF DeliveryInv, SubInv, InsideInv, Unregistered, ObserveFree, Thread
<1>5. "worker" \notin S
  <2> SUFFICES ASSUME "worker" \in S PROVE FALSE
    OBVIOUS
  <2>1. PICK u \in S : WaitsFor("worker", u)
    OBVIOUS
  <2>2. u = "worker"
    BY <1>3, <1>4
  <2> QED
    BY <2>1, <2>2 DEF WaitsFor, Reading
<1> QED
  BY <1>3, <1>4, <1>5

\* Five threads and five mutexes do not deadlock but through a handler.
THEOREM OnlyHandlersBlock == DeliverySpec => []StuckOnlyByHandler
<1>1. DeliveryInv => StuckOnlyByHandler
  BY NoCircle DEF StuckOnlyByHandler
<1> QED
  BY <1>1, DeliveryAlways, PTL

=============================================================================
