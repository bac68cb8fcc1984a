------------------------------ MODULE Delivery ------------------------------
(***************************************************************************)
(* How a sample reaches the handler of a subscriber: the Subscriber module *)
(* composed with the threads of its two readers.                           *)
(*                                                                         *)
(*   receive   of FastDDS: onDataAvailable of the DDS reader puts a sample *)
(*             in a queue, with a copy of the reader's callback            *)
(*   runner    of the DDS reader: runs what is queued, under the mutex of  *)
(*             the queue                                                   *)
(*   listener  of iceoryx: takes a sample and runs the callback, under the *)
(*             mutex of the callback                                       *)
(*                                                                         *)
(* Both readers' callbacks are one lambda of the subscriber, which locks   *)
(* m_user_data_callback_mutex and calls the handler the user registered.   *)
(* A handler may call smw: it publishes or asks for a service (and waits   *)
(* for m_registry_mutex, which the worker holds while it is not idle), or  *)
(* registers another handler (and waits for the mutex its own thread has). *)
(*                                                                         *)
(* FastDDSReader shows what the queue does in detail; here a wrapper is    *)
(* whether its callback is the lambda or empty.                            *)
(***************************************************************************)
EXTENDS Subscriber, Naturals, Sequences

CONSTANT MaxQueue  \* bound: samples in the queue of the DDS reader

ASSUME QueueAssumption == MaxQueue \in Nat \ {0}

VARIABLES
  closing,    \* disable() has taken the listener from the DDS reader
  receiving,  \* wrapper of the receive thread: a sequence of at most one
  queue,      \* m_user_callback_execution_queue
  pc,         \* of "runner" and "listener"
  handler     \* m_user_data_callback is set

deliveryVars == <<closing, receiving, queue, pc, handler>>
allVars == <<vars, deliveryVars>>

Reading == {"runner", "listener"}
Asks == {"query", "register"}    \* a handler that called smw and waits

DeliveryInit ==
  /\ Init
  /\ closing = FALSE /\ receiving = <<>> /\ queue = <<>>
  /\ pc = [t \in Reading |-> "idle"]
  /\ handler = FALSE

Alive == died = "no"

Dies(how) ==
  /\ Alive
  /\ died' = how
  /\ UNCHANGED <<offered, registryVars, wpc, opc, cpc, readerVars, deliveryVars>>

-----------------------------------------------------------------------------
\* Who holds what.

InLambda(t) == pc[t] \in {"lambda", "handler"} \cup Asks
HoldsQueue == pc["runner"] # "idle"

\* Mutant: the destructor keeps handlers out with their mutex.
HandlerHoldersAndDtor ==
  {t \in Reading : InLambda(t) /\ pc[t] # "lambda"}
    \cup (IF Destroying /\ opc # "gone" THEN {"owner"} ELSE {})
HandlerHolders == {t \in Reading : InLambda(t) /\ pc[t] # "lambda"}

\* Mutant: setDataCallback of the iceoryx reader does not lock.
HoldsNothing == FALSE
HoldsIoxCallback == InLambda("listener")

\* t is in disable() of the DDS reader, which holds m_data_reader_mutex.
DisablesDds(t) ==
  \/ cpc[t] = "disable_dds"
  \/ t = "owner" /\ opc \in {"disable_dds", "stop_dds"}

MayDelete == receiving = <<>>

(***************************************************************************)
(* A step of the Subscriber module, when what it waits for is free.  The   *)
(* DDS reader is deleted when its listener is taken away and none runs any *)
(* more; enable() and disable() exclude each other.                        *)
(***************************************************************************)
SubscriberStep(A) ==
  /\ A
  /\ dds /\ ~dds' => closing /\ MayDelete
  /\ closing => \A t \in Thread : cpc[t] = "enable_dds" => cpc'[t] = cpc[t]
  /\ ioxCallback' = ioxCallback \/ ~HoldsIoxCallback
  /\ closing' = (closing /\ dds')
  /\ UNCHANGED <<receiving, queue, pc, handler>>

\* set_listener(nullptr): a listener that runs goes on.
removeListener(t) ==
  /\ Alive
  /\ DisablesDds(t) /\ dds
  /\ closing' = TRUE
  /\ UNCHANGED <<vars, receiving, queue, pc, handler>>

-----------------------------------------------------------------------------
\* The receive thread: FastDDSReader::onDataAvailable.

\* A sample is taken, the callback copied without its mutex.
onDataAvailable ==
  /\ Alive
  /\ dds /\ ~closing /\ offered # {}
  /\ receiving = <<>> /\ Len(queue) < MaxQueue
  /\ receiving' = <<ddsCallback>>
  /\ UNCHANGED <<vars, closing, queue, pc, handler>>

\* The owner is assigning the callback at that moment.
copyRace ==
  /\ dds /\ ~closing /\ offered # {}
  /\ receiving = <<>>
  /\ opc \in {"set_dds", "unset_dds"}
  /\ Dies("race")

emplace ==
  /\ Alive
  /\ receiving # <<>> /\ ~HoldsQueue
  /\ queue' = queue \o receiving
  /\ receiving' = <<>>
  /\ UNCHANGED <<vars, closing, pc, handler>>

-----------------------------------------------------------------------------
\* The runner: the queue is emptied before its mutex is released.

\* Mutant: the mutex of the queue is kept when the queue is empty.
AfterPopNext == "next"
AfterPop == IF Tail(queue) = <<>> THEN "idle" ELSE "next"

runFront ==
  /\ Alive
  /\ pc["runner"] \in {"idle", "next"} /\ queue # <<>>
  /\ pc' = [pc EXCEPT !["runner"] = IF Head(queue) THEN "lambda" ELSE AfterPop]
  /\ queue' = IF Head(queue) THEN queue ELSE Tail(queue)
  /\ UNCHANGED <<vars, closing, receiving, handler>>

-----------------------------------------------------------------------------
\* The listener: IceoryxReader::onDataAvailable.

take ==
  /\ Alive
  /\ iox /\ offered \cap LocalProvider # {}
  /\ pc["listener"] = "idle"
  /\ pc' = [pc EXCEPT !["listener"] = "taken"]
  /\ UNCHANGED <<vars, closing, receiving, queue, handler>>

callUserCallback ==
  /\ Alive
  /\ pc["listener"] = "taken" /\ ioxCallback
  /\ pc' = [pc EXCEPT !["listener"] = "lambda"]
  /\ UNCHANGED <<vars, closing, receiving, queue, handler>>

\* It is not tested whether m_user_callback is empty.
callEmptyCallback ==
  /\ pc["listener"] = "taken" /\ ~ioxCallback
  /\ Dies("bad_function_call")

-----------------------------------------------------------------------------
\* The lambda, in either thread.

\* The lambda returns to the runner, which pops, or to the listener.
Returns(t) ==
  /\ pc' = [pc EXCEPT ![t] = IF t = "runner" THEN AfterPop ELSE "idle"]
  /\ queue' = IF t = "runner" THEN Tail(queue) ELSE queue
  /\ UNCHANGED <<vars, closing, receiving, handler>>

lockHandler(t) ==
  /\ Alive
  /\ pc[t] = "lambda" /\ HandlerHolders = {} /\ handler
  /\ pc' = [pc EXCEPT ![t] = "handler"]
  /\ UNCHANGED <<vars, closing, receiving, queue, handler>>

noHandler(t) ==
  /\ Alive
  /\ pc[t] = "lambda" /\ HandlerHolders = {} /\ ~handler
  /\ Returns(t)

handlerReturns(t) == Alive /\ pc[t] = "handler" /\ Returns(t)

handlerAsks(t) ==
  /\ Alive
  /\ pc[t] = "handler"
  /\ \E a \in Asks : pc' = [pc EXCEPT ![t] = a]
  /\ UNCHANGED <<vars, closing, receiving, queue, handler>>

\* queryServiceStatus has m_registry_mutex; a registration never gets its own.
isAnswered(t) ==
  /\ Alive
  /\ pc[t] = "query" /\ wpc = "idle"
  /\ Returns(t)

LambdaStep(t) == lockHandler(t) \/ noHandler(t) \/ handlerReturns(t) \/ isAnswered(t)

(***************************************************************************)
(* A wrapper queued before the destructor unset the callback has its copy, *)
(* and the lambda has the address of the subscriber: it may work as if     *)
(* nothing had happened, or crash.                                         *)
(***************************************************************************)
useAfterFree(t) ==
  /\ opc = "gone" /\ InLambda(t)
  /\ Dies("use_after_free")

registerReceiveHandler ==
  /\ Alive
  /\ opc = "live" /\ HandlerHolders = {}
  /\ handler' = TRUE
  /\ UNCHANGED <<vars, closing, receiving, queue, pc>>

-----------------------------------------------------------------------------
ReceiveStep == onDataAvailable \/ copyRace \/ emplace
ListenerStep == take \/ callUserCallback \/ callEmptyCallback

DeliveryNext ==
  \/ SubscriberStep(Next) \/ \E t \in Thread : removeListener(t)
  \/ ReceiveStep \/ runFront \/ ListenerStep
  \/ \E t \in Reading : LambdaStep(t) \/ handlerAsks(t) \/ useAfterFree(t)
  \/ registerReceiveHandler

DeliverySpec == DeliveryInit /\ [][DeliveryNext]_allVars

(***************************************************************************)
(* Threads are scheduled, mutexes are handed on to those who wait for      *)
(* them, delete_datareader keeps new samples out, handlers return, and     *)
(* every provider that offers is heard of again and again (Discovery: the  *)
(* always table; for the one that stopped, StopSpreads).  Nobody has to    *)
(* construct or destroy, and no sample has to come.                        *)
(***************************************************************************)
FairSpec ==
  /\ DeliverySpec
  /\ WF_allVars(SubscriberStep(WorkerStep) \/ removeListener("worker"))
  /\ WF_allVars(SubscriberStep(CtorStep \/ DtorStep) \/ removeListener("owner"))
  /\ \A p \in Provider : SF_allVars(SubscriberStep(receive(p)))
  /\ WF_allVars(emplace) /\ WF_allVars(runFront) /\ WF_allVars(callUserCallback)
  /\ SF_allVars(LambdaStep("runner")) /\ WF_allVars(LambdaStep("listener"))

-----------------------------------------------------------------------------
\* Type invariant of the threads of the readers, and what their states entail.
DeliveryTypeOK ==
  /\ receiving \in {<<>>} \cup {<<c>> : c \in BOOLEAN}
  /\ queue \in UNION {[1 .. n -> BOOLEAN] : n \in 0 .. MaxQueue}
  /\ Len(queue) + Len(receiving) <= MaxQueue
  /\ pc \in [Reading -> {"idle", "next", "taken", "lambda", "handler"} \cup Asks]
  /\ InLambda("runner") => queue # <<>> /\ Head(queue)
  /\ pc["runner"] = "next" => queue # <<>>
  /\ handler \in BOOLEAN
  /\ closing \in BOOLEAN /\ (closing \/ receiving # <<>> => dds)

(***************************************************************************)
(* Once ~Subscriber has unset the callback of the iceoryx reader, the      *)
(* listener is not inside the subscriber and never gets there again, even  *)
(* with a sample it took before: setDataCallback waits for the callback    *)
(* that runs.  (The DDS reader has no such order: useAfterFree.)           *)
(***************************************************************************)
ListenerLeavesDestroyed == Destroying /\ opc # "unset_iox" => ~InLambda("listener")

(***************************************************************************)
(* What can still run in a destroyed subscriber is what was queued before  *)
(* ~Subscriber ended: no sample is taken or queued after it, although      *)
(* notifications of the registry and the DDS receive thread go on.         *)
(***************************************************************************)
DestroyedReceivesNothing ==
  [][opc = "gone" => receiving' = <<>> /\ Len(queue') <= Len(queue)]_allVars

\* t cannot go on before u has: a mutex u holds, or a listener u is inside.
WaitsFor(t, u) ==
  \/ t = "worker" /\ wpc = "notify" /\ u = "owner" /\ cpc[u] # "none"
  \/ t = "worker" /\ cpc[t] = "enable_dds" /\ closing /\ u = "owner"
  \/ t = "owner" /\ opc = "observe" /\ u = "worker" /\ cpc[u] # "none"
  \/ t \in Thread /\ DisablesDds(t) /\ closing /\ receiving # <<>> /\ u = "receive"
  \/ t = "owner" /\ opc \in {"set_iox", "unset_iox"} /\ HoldsIoxCallback /\ u = "listener"
  \/ t = "receive" /\ receiving # <<>> /\ HoldsQueue /\ u = "runner"
  \/ t \in Reading /\ pc[t] = "lambda" /\ u \in HandlerHolders
  \/ t \in Reading /\ pc[t] = "query" /\ wpc # "idle" /\ u = "worker"
  \/ t \in Reading /\ pc[t] = "register" /\ u = t

(***************************************************************************)
(* The five threads and their five mutexes never wait for one another in a *)
(* circle, unless a handler that called smw is part of it: the comment of  *)
(* FastDDSReader::onDataAvailable that "in user's callback may do anything"*)
(* holds for all that does not come back to smw.                           *)
(***************************************************************************)
StuckOnlyByHandler ==
  \A S \in SUBSET (Thread \cup Reading \cup {"receive"}) :
    S # {} /\ (\A t \in S : \E u \in S : WaitsFor(t, u))
      => \E t \in S \cap Reading : pc[t] \in Asks

NoHandlerAsks == [](\A t \in Reading : pc[t] \notin Asks)

(***************************************************************************)
(* The subscriber settles on the transport its comment promises: iceoryx   *)
(* for good while a local process provides the service, DDS for good while *)
(* only remote ones do - also when the constructor undid what the first    *)
(* notifications set, and while samples keep coming.                       *)
(***************************************************************************)
SettlesOnLocal ==
  NoHandlerAsks =>
    (<>[](Live /\ offered \cap LocalProvider # {}) => <>[](iox /\ ~dds))
SettlesOnRemote ==
  NoHandlerAsks =>
    (<>[](Live /\ offered # {} /\ offered \cap LocalProvider = {}) => <>[](dds /\ ~iox))

=============================================================================
