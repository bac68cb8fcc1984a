---------------------------- MODULE FastDDSReader ----------------------------
(***************************************************************************)
(* FastDDSReader (transport/dds/fastdds_reader.h): how samples get from    *)
(* the receive thread of FastDDS to the user's callback.                   *)
(*                                                                         *)
(* The receive thread calls onDataAvailable through FastDDSReaderListener. *)
(* It takes a sample, wraps it with a copy of the callback that is set,    *)
(* and puts the wrapper in a queue.  A worker thread waits on a condition  *)
(* variable and runs what is queued, holding the queue's mutex while it    *)
(* does.  A third thread owns the reader: it sets the callback, enables,   *)
(* disables and destroys it.                                               *)
(*                                                                         *)
(* A step is what one thread does between two points where another can see *)
(* the difference.  The mutex of the queue belongs to the worker in the    *)
(* states of HoldsQueue; the receive thread needs it for one step.         *)
(***************************************************************************)
EXTENDS Naturals, Sequences

CONSTANTS
  Callback,     \* user callbacks
  NoCallback,   \* an empty std::function
  MaxSamples    \* bound: samples that reach the reader

ASSUME CallbackAssumption == NoCallback \notin Callback
ASSUME BoundAssumption == MaxSamples \in Nat

VARIABLES
  data_reader,        \* the DDS reader: "none", "unassigned" or "assigned"
  m_notify_callback,  \* the listener has its callback
  m_user_callback,    \* the callback that is set
  assigning,          \* {cb} while setDataCallback(cb) assigns, else {}
  m_exit,
  queue,              \* m_user_callback_execution_queue
  rpc,                \* receive thread
  wrapper,            \* its UserCallbackWrapper: a sequence of at most one
  wpc,                \* worker thread
  opc,                \* owner's thread: "live", or where it is in the dtor
  arrived,            \* samples that reached the DDS reader
  taken, handed,      \* wrappers made, wrappers run, in order
  aborted             \* the process has died of undefined behaviour

ownerVars  == <<data_reader, m_notify_callback, m_user_callback, assigning, m_exit, opc>>
threadVars == <<rpc, wpc>>
dataVars   == <<queue, wrapper, arrived, taken, handed>>
vars == <<ownerVars, threadVars, dataVars, aborted>>

Wrapper == [sample : 1 .. MaxSamples, callback : Callback \cup {NoCallback}]

\* After init(): the listener is set, the worker runs, enable() comes next.
Init ==
  /\ data_reader = "none"
  /\ m_notify_callback = TRUE
  /\ m_user_callback = NoCallback
  /\ assigning = {}
  /\ m_exit = FALSE
  /\ queue = <<>>
  /\ rpc = "idle"
  /\ wrapper = <<>>
  /\ wpc = "top"
  /\ opc = "live"
  /\ arrived = 0
  /\ taken = <<>> /\ handed = <<>>
  /\ aborted = FALSE

Runs == ~aborted /\ UNCHANGED aborted

-----------------------------------------------------------------------------
\* The receive thread.

\* on_data_available holds m_notify_callback_mutex until rpc is idle again.
on_data_available ==
  /\ Runs
  /\ data_reader # "none"
  /\ rpc = "idle"
  /\ arrived < MaxSamples
  /\ arrived' = arrived + 1
  /\ rpc' = IF m_notify_callback THEN "notified" ELSE "idle"
  /\ UNCHANGED <<ownerVars, wpc, queue, wrapper, taken, handed>>

(***************************************************************************)
(* The sample is taken through m_data_reader, the callback is copied       *)
(* without its mutex: during an assignment the copy is the old callback,   *)
(* the new one, or a crash.                                                *)
(***************************************************************************)
takeSample ==
  /\ Runs
  /\ rpc = "notified"
  /\ data_reader = "assigned"
  /\ \E cb \in {m_user_callback} \cup assigning :
       LET w == [sample |-> arrived, callback |-> cb] IN
       /\ wrapper' = <<w>>
       /\ taken' = Append(taken, w)
  /\ rpc' = "taken"
  /\ UNCHANGED <<ownerVars, wpc, queue, arrived, handed>>

\* take_next_sample fails, or the sample has no valid data.
takeFails ==
  /\ Runs
  /\ rpc = "notified"
  /\ data_reader = "assigned"
  /\ rpc' = "idle"
  /\ UNCHANGED <<ownerVars, wpc, dataVars>>

\* m_data_reader is still null while create_datareader returns; or a torn copy.
takeAborts ==
  /\ ~aborted
  /\ rpc = "notified"
  /\ data_reader = "unassigned" \/ assigning # {}
  /\ aborted' = TRUE
  /\ UNCHANGED <<ownerVars, threadVars, dataVars>>

HoldsQueue == wpc \in {"test", "block", "check", "call", "running"}

\* Mutant: the wrapper is copied into the queue and kept.
emplaceCopy ==
  /\ Runs
  /\ rpc = "taken"
  /\ ~HoldsQueue
  /\ queue' = queue \o wrapper
  /\ rpc' = "queued"
  /\ UNCHANGED <<ownerVars, wpc, wrapper, arrived, taken, handed>>

\* The wrapper is queued under the mutex of the queue.
emplace ==
  /\ Runs
  /\ rpc = "taken"
  /\ ~HoldsQueue
  /\ queue' = queue \o wrapper
  /\ wrapper' = <<>>
  /\ rpc' = "queued"
  /\ UNCHANGED <<ownerVars, wpc, arrived, taken, handed>>

Wake == wpc' = IF wpc = "waiting" THEN "woken" ELSE wpc

notify_one ==
  /\ Runs
  /\ rpc = "queued"
  /\ Wake
  /\ rpc' = "idle"
  /\ UNCHANGED <<ownerVars, dataVars>>

-----------------------------------------------------------------------------
\* The worker thread: the loop dds_operation of init().

workerStep(from, to) ==
  /\ Runs
  /\ wpc = from
  /\ wpc' = to
  /\ UNCHANGED <<ownerVars, rpc, dataVars>>

checkExit == workerStep("top", IF m_exit THEN "done" ELSE "lock")
lockQueue == workerStep("lock", "test")

\* The predicate of wait() is false.
HasNothing == queue = <<>> /\ ~m_exit

\* The predicate is tested with the mutex held; sleeping releases it later.
testPredicate == workerStep("test", IF HasNothing THEN "block" ELSE "check")
block == workerStep("block", "waiting")
spuriousWakeup == workerStep("waiting", "woken")
relock == workerStep("woken", "test")

checkExitLocked == workerStep("check", IF m_exit THEN "done" ELSE "call")

\* front()(): the callback of the first wrapper begins, if it has one.
runFront ==
  /\ Runs
  /\ wpc = "call"
  /\ queue # <<>>
  /\ handed' = Append(handed, Head(queue))
  /\ wpc' = "running"
  /\ UNCHANGED <<ownerVars, rpc, queue, wrapper, arrived, taken>>

\* Mutant: everything that is queued is dropped, not the front alone.
AllPopped == <<>>
Popped == Tail(queue)

\* The callback returns; pop().
callbackReturns ==
  /\ Runs
  /\ wpc = "running"
  /\ queue' = Popped
  /\ wpc' = "call"
  /\ UNCHANGED <<ownerVars, rpc, wrapper, arrived, taken, handed>>

\* Mutant: the inner loop goes on when the queue is empty.
AfterQueueCall == "call"
AfterQueue == "top"

queueDone == queue = <<>> /\ workerStep("call", AfterQueue)

-----------------------------------------------------------------------------
\* The owner of the reader.

ownerStep == Runs /\ UNCHANGED <<threadVars, dataVars>>

beginSetDataCallback ==
  /\ opc = "live" /\ assigning = {}
  /\ \E cb \in Callback \cup {NoCallback} : assigning' = {cb}
  /\ UNCHANGED <<data_reader, m_notify_callback, m_user_callback, m_exit, opc>>
  /\ ownerStep

endSetDataCallback ==
  /\ assigning # {}
  /\ assigning' = {}
  /\ m_user_callback' \in assigning
  /\ UNCHANGED <<data_reader, m_notify_callback, m_exit, opc>>
  /\ ownerStep

\* enable(): the new reader can receive before m_data_reader points to it.
create_datareader ==
  /\ opc = "live" /\ assigning = {}
  /\ data_reader = "none"
  /\ data_reader' = "unassigned"
  /\ UNCHANGED <<m_notify_callback, m_user_callback, assigning, m_exit, opc>>
  /\ ownerStep

assignDataReader ==
  /\ data_reader = "unassigned"
  /\ data_reader' = "assigned"
  /\ UNCHANGED <<m_notify_callback, m_user_callback, assigning, m_exit, opc>>
  /\ ownerStep

\* delete_datareader returns when no listener of the reader runs any more.
DeleteReader == rpc = "idle" /\ data_reader' = "none"

disable ==
  /\ opc = "live" /\ assigning = {}
  /\ data_reader = "assigned"
  /\ DeleteReader
  /\ UNCHANGED <<m_notify_callback, m_user_callback, assigning, m_exit, opc>>
  /\ ownerStep

\* ~FastDDSReader: m_exit, the listener, disable(), notify_all, join.
storeExit ==
  /\ opc = "live" /\ assigning = {} /\ data_reader # "unassigned"
  /\ m_exit' = TRUE
  /\ opc' = "listener"
  /\ UNCHANGED <<data_reader, m_notify_callback, m_user_callback, assigning>>
  /\ ownerStep

\* setNotifyCallback(nullptr) waits for m_notify_callback_mutex.
unsetNotifyCallback ==
  /\ opc = "listener"
  /\ rpc = "idle"
  /\ m_notify_callback' = FALSE
  /\ opc' = "disable"
  /\ UNCHANGED <<data_reader, m_user_callback, assigning, m_exit>>
  /\ ownerStep

disableInDtor ==
  /\ opc = "disable"
  /\ DeleteReader
  /\ opc' = "notify"
  /\ UNCHANGED <<m_notify_callback, m_user_callback, assigning, m_exit>>
  /\ ownerStep

notify_all ==
  /\ Runs
  /\ opc = "notify"
  /\ Wake
  /\ opc' = "join"
  /\ UNCHANGED <<data_reader, m_notify_callback, m_user_callback, assigning, m_exit,
                 rpc, dataVars>>

\* Mutant: the destructor does not wait for the worker.
Joined == TRUE
WorkerEnded == wpc = "done"

join ==
  /\ opc = "join"
  /\ WorkerEnded
  /\ opc' = "gone"
  /\ UNCHANGED <<data_reader, m_notify_callback, m_user_callback, assigning, m_exit>>
  /\ ownerStep

-----------------------------------------------------------------------------
ReceiveStep == takeSample \/ takeFails \/ takeAborts \/ emplace \/ notify_one

WorkerStep ==
  \/ checkExit \/ lockQueue \/ testPredicate \/ block \/ relock
  \/ checkExitLocked \/ runFront \/ callbackReturns \/ queueDone

DtorStep == unsetNotifyCallback \/ disableInDtor \/ notify_all \/ join

OwnerStep ==
  \/ beginSetDataCallback \/ endSetDataCallback \/ create_datareader
  \/ assignDataReader \/ disable \/ storeExit \/ DtorStep

Next == on_data_available \/ ReceiveStep \/ WorkerStep \/ spuriousWakeup \/ OwnerStep

(***************************************************************************)
(* The three threads are scheduled, callbacks return, and a call the owner *)
(* has begun goes on; a thread that waits for the queue's mutex gets it    *)
(* when it is released again and again.  Nothing makes samples arrive, the *)
(* owner call, or the condition variable wake up spuriously.               *)
(***************************************************************************)
Fairness ==
  /\ WF_vars(ReceiveStep) /\ SF_vars(emplace)
  /\ WF_vars(WorkerStep)
  /\ WF_vars(endSetDataCallback \/ assignDataReader \/ DtorStep)

Spec == Init /\ [][Next]_vars /\ Fairness

-----------------------------------------------------------------------------
\* Type invariant of the three threads, the queue and the reader.
TypeOK ==
  /\ data_reader \in {"none", "unassigned", "assigned"}
  /\ m_notify_callback \in BOOLEAN
  /\ m_user_callback \in Callback \cup {NoCallback}
  /\ assigning \in SUBSET (Callback \cup {NoCallback})
  /\ m_exit \in BOOLEAN
  /\ queue \in Seq(Wrapper) /\ wrapper \in Seq(Wrapper)
  /\ Len(wrapper) = (IF rpc = "taken" THEN 1 ELSE 0)
  /\ rpc \in {"idle", "notified", "taken", "queued"}
  /\ wpc \in {"top", "lock", "test", "block", "waiting", "woken", "check",
              "call", "running", "done"}
  /\ opc \in {"live", "listener", "disable", "notify", "join", "gone"}
  /\ arrived \in 0 .. MaxSamples
  /\ taken \in Seq(Wrapper) /\ handed \in Seq(Wrapper)
  /\ aborted \in BOOLEAN

(***************************************************************************)
(* The reader is a Handoff: what onDataAvailable took is handed to the     *)
(* callback it was wrapped with, once, in order, and - until the reader is *)
(* destroyed - eventually, although the queue is filled and emptied by two *)
(* threads and the worker sleeps in between.                               *)
(***************************************************************************)
Reader == INSTANCE Handoff WITH
  Item <- Wrapper, open <- opc = "live" /\ ~aborted
HandsOver == Reader!Spec

(***************************************************************************)
(* Once the destructor has returned no thread touches the reader: its      *)
(* worker has ended, no sample is in the receive thread's hand.            *)
(***************************************************************************)
NothingRunsAfterDtor ==
  opc = "gone" => wpc = "done" /\ rpc = "idle" /\ data_reader = "none"

(***************************************************************************)
(* A destructor that has woken the worker returns, unless the worker went  *)
(* to sleep after it was woken for the last time: whatever is queued and   *)
(* whichever callback runs, the worker sees m_exit when it is awake.       *)
(***************************************************************************)
DtorReturnsIfAwake ==
  opc = "join" ~> (opc = "gone" \/ wpc = "waiting" \/ aborted)

\* The destructor returns (the worker is told to stop, and is joined).
DtorReturns == (opc # "live") ~> (opc = "gone" \/ aborted)

=============================================================================
