------------------------- MODULE FastDDSReaderProofs -------------------------
(***************************************************************************)
(* Theorems about FastDDSReader, for any set of callbacks and any number   *)
(* of samples: its types, what a destructor that has returned leaves       *)
(* behind, and that every step of it is a step of Handoff or none.         *)
(***************************************************************************)
EXTENDS FastDDSReader, SequenceTheorems, TLAPS

-----------------------------------------------------------------------------
\* Sequences of at most one, and what moves from one sequence to the next.

\* A sequence of length 0 or 1 is known by its elements.
LEMMA AtMostOne ==
  ASSUME NEW S, NEW s \in Seq(S)
  PROVE  Len(s) = 0 <=> s = <<>>
BY EmptySeq

\* A sequence is its head and its tail.
LEMMA HeadAndTail ==
  ASSUME NEW S, NEW q \in Seq(S), q # <<>>
  PROVE  q = <<Head(q)>> \o Tail(q)
<1>1. Head(q) \in S /\ Tail(q) \in Seq(S) /\ Len(Tail(q)) = Len(q) - 1
      /\ \A i \in 1 .. Len(Tail(q)) : Tail(q)[i] = q[i + 1]
  BY HeadTailProperties
<1>2. Len(q) \in Nat \ {0}
  BY EmptySeq
<1>3. <<Head(q)>> \in Seq(S) /\ Len(<<Head(q)>>) = 1 /\ <<Head(q)>>[1] = Head(q)
  BY <1>1
<1>4. Head(q) = q[1]
  OBVIOUS
<1>5. /\ <<Head(q)>> \o Tail(q) \in Seq(S)
      /\ Len(<<Head(q)>> \o Tail(q)) = Len(q)
      /\ \A i \in 1 .. Len(q) : (<<Head(q)>> \o Tail(q))[i] = q[i]
  <2>1. Len(<<Head(q)>>) + Len(Tail(q)) = Len(q)
    BY <1>1, <1>2, <1>3
  <2>2. /\ <<Head(q)>> \o Tail(q) \in Seq(S)
        /\ Len(<<Head(q)>> \o Tail(q)) = Len(<<Head(q)>>) + Len(Tail(q))
        /\ \A i \in 1 .. Len(<<Head(q)>>) + Len(Tail(q)) :
             (<<Head(q)>> \o Tail(q))[i]
               = IF i <= Len(<<Head(q)>>) THEN <<Head(q)>>[i]
                                          ELSE Tail(q)[i - Len(<<Head(q)>>)]
    BY <1>1, <1>3, ConcatProperties
  <2>3. ASSUME NEW i \in 1 .. Len(q)
        PROVE  (<<Head(q)>> \o Tail(q))[i] = q[i]
    <3>1. CASE i = 1
      BY <3>1, <2>1, <2>2, <1>3, <1>4
    <3>2. CASE i # 1
      <4>1. i - 1 \in 1 .. Len(Tail(q)) /\ (i - 1) + 1 = i
        BY <3>2, <1>1, <1>2
      <4>2. Tail(q)[i - 1] = q[i]
        BY <4>1, <1>1
      <4>3. (<<Head(q)>> \o Tail(q))[i] = Tail(q)[i - 1]
        BY <3>2, <2>1, <2>2, <1>2, <1>3
      <4> QED
        BY <4>2, <4>3
    <3> QED
      BY <3>1, <3>2
  <2> QED
    BY <2>1, <2>2, <2>3
<1> QED
  BY <1>5, SeqEqual

\* A wrapper that is taken goes behind everything that is not handed over yet.
LEMMA TakenGoesLast ==
  ASSUME NEW S, NEW h \in Seq(S), NEW q \in Seq(S), NEW w \in S
  PROVE  Append(h \o (q \o <<>>), w) = h \o (q \o <<w>>)
<1>1. <<w>> \in Seq(S)
  OBVIOUS
<1>2. q \o <<>> = q
  BY ConcatEmptySeq
<1>3. h \o q \in Seq(S)
  BY ConcatProperties
<1>4. Append(h \o q, w) = (h \o q) \o <<w>>
  BY <1>3, AppendIsConcat
<1>5. (h \o q) \o <<w>> = h \o (q \o <<w>>)
  BY <1>1, ConcatAssociative, SMTT(30)
<1> QED
  BY <1>2, <1>4, <1>5, Zenon

\* A wrapper that moves from the receive thread's hand to the queue keeps its place.
LEMMA QueuedKeepsPlace ==
  ASSUME NEW S, NEW q \in Seq(S), NEW w \in Seq(S)
  PROVE  (q \o w) \o <<>> = q \o w
BY ConcatProperties, ConcatEmptySeq

\* The front of the queue is the next wrapper to hand over.
LEMMA FrontIsNext ==
  ASSUME NEW S, NEW h \in Seq(S), NEW q \in Seq(S), q # <<>>, NEW w \in Seq(S)
  PROVE  /\ h \o (q \o w) = Append(h, Head(q)) \o (Tail(q) \o w)
         /\ Len(h) < Len(h \o (q \o w))
         /\ (h \o (q \o w))[Len(h) + 1] = Head(q)
<1> DEFINE f == <<Head(q)>>
<1>1. Head(q) \in S /\ Tail(q) \in Seq(S) /\ f \in Seq(S)
  BY HeadTailProperties
<1>2. q \o w = f \o (Tail(q) \o w)
  <2>1. q = f \o Tail(q)
    BY HeadAndTail
  <2>2. (f \o Tail(q)) \o w = f \o (Tail(q) \o w)
    BY <1>1, ConcatAssociative, SMTT(30)
  <2> QED
    BY <2>1, <2>2, Zenon
<1>3. Append(h, Head(q)) = h \o f
  BY <1>1, AppendIsConcat
<1>4. Append(h, Head(q)) \in Seq(S) /\ Tail(q) \o w \in Seq(S)
  BY <1>1, AppendProperties, ConcatProperties
<1>5. h \o (q \o w) = Append(h, Head(q)) \o (Tail(q) \o w)
  <2>1. (h \o f) \o (Tail(q) \o w) = h \o (f \o (Tail(q) \o w))
    BY <1>1, <1>4, ConcatAssociative, SMTT(30)
  <2> QED
    BY <1>2, <1>3, <2>1, Zenon
<1>6. Len(h) \in Nat /\ Len(Append(h, Head(q))) = Len(h) + 1
      /\ Append(h, Head(q))[Len(h) + 1] = Head(q)
  BY <1>1, AppendProperties, LenProperties
<1>7. Len(Tail(q) \o w) \in Nat
  BY <1>4, LenProperties
<1>8. /\ Len(Append(h, Head(q)) \o (Tail(q) \o w))
           = Len(Append(h, Head(q))) + Len(Tail(q) \o w)
      /\ \A i \in 1 .. Len(Append(h, Head(q))) + Len(Tail(q) \o w) :
           (Append(h, Head(q)) \o (Tail(q) \o w))[i]
             = IF i <= Len(Append(h, Head(q))) THEN Append(h, Head(q))[i]
               ELSE (Tail(q) \o w)[i - Len(Append(h, Head(q)))]
  BY <1>4, ConcatProperties
<1> QED
  BY <1>5, <1>6, <1>7, <1>8

-----------------------------------------------------------------------------
\* Type correctness.

\* The steps of the worker and of the owner that leave the data alone.
LEMMA WorkerMoves ==
  ASSUME NEW from, NEW to, workerStep(from, to)
  PROVE  wpc = from /\ wpc' = to /\ UNCHANGED <<ownerVars, rpc, dataVars, aborted>>
BY DEF workerStep, Runs

\* A notified receive thread has a sample, a running callback is at the front.
TypeInv ==
  /\ TypeOK
  /\ rpc = "notified" => arrived \in 1 .. MaxSamples
  /\ wpc = "running" => queue # <<>>

(***************************************************************************)
(* Every variable of the three threads keeps its type, and the receive     *)
(* thread has a wrapper in its hand exactly between taking a sample and    *)
(* queueing it.                                                            *)
(***************************************************************************)
LEMMA TypeInvStep == TypeInv /\ [Next]_vars => TypeInv'
<1> SUFFICES ASSUME TypeInv, [Next]_vars PROVE TypeInv'
  OBVIOUS
<1> USE DEF TypeInv, TypeOK, Runs, ownerVars, threadVars, dataVars
<1>1. CASE on_data_available
  <2>1. arrived' \in 1 .. MaxSamples
    BY <1>1, BoundAssumption DEF BoundAssumption, on_data_available
  <2> QED
    BY <1>1, <2>1 DEF on_data_available
<1>2. CASE takeSample
  <2>1. PICK cb \in {m_user_callback} \cup assigning :
          /\ wrapper' = <<[sample |-> arrived, callback |-> cb]>>
          /\ taken' = Append(taken, [sample |-> arrived, callback |-> cb])
    BY <1>2 DEF takeSample
  <2>2. [sample |-> arrived, callback |-> cb] \in Wrapper
    BY <1>2 DEF takeSample, Wrapper
  <2>3. wrapper' \in Seq(Wrapper) /\ Len(wrapper') = 1
    BY <2>1, <2>2
  <2>4. taken' \in Seq(Wrapper)
    BY <2>1, <2>2, AppendProperties
  <2> QED
    BY <1>2, <2>3, <2>4 DEF takeSample
<1>3. CASE takeFails
  BY <1>3 DEF takeFails
<1>4. CASE takeAborts
  BY <1>4 DEF takeAborts
<1>5. CASE emplace
  <2>1. queue' \in Seq(Wrapper)
    BY <1>5, ConcatProperties DEF emplace
  <2>2. wrapper' \in Seq(Wrapper) /\ Len(wrapper') = 0
    BY <1>5, EmptySeq DEF emplace
  <2> QED
    BY <1>5, <2>1, <2>2 DEF emplace, HoldsQueue
<1>6. CASE notify_one
  BY <1>6 DEF notify_one, Wake
<1>7. ASSUME NEW from, NEW to, workerStep(from, to),
             to \in {"top", "lock", "test", "block", "waiting", "woken", "check",
                     "call", "done"}
      PROVE  TypeInv'
  BY <1>7, WorkerMoves
<1>8. CASE runFront
  <2>1. handed' \in Seq(Wrapper)
    BY <1>8, HeadTailProperties, AppendProperties DEF runFront
  <2> QED
    BY <1>8, <2>1 DEF runFront
<1>9. CASE callbackReturns
  <2>1. queue' \in Seq(Wrapper)
    BY <1>9, HeadTailProperties DEF callbackReturns, Popped
  <2> QED
    BY <1>9, <2>1 DEF callbackReturns
<1>10. CASE beginSetDataCallback
  BY <1>10 DEF beginSetDataCallback, ownerStep
<1>11. CASE endSetDataCallback
  BY <1>11 DEF endSetDataCallback, ownerStep
<1>12. CASE create_datareader
  BY <1>12 DEF create_datareader, ownerStep
<1>13. CASE assignDataReader
  BY <1>13 DEF assignDataReader, ownerStep
<1>14. CASE disable
  BY <1>14 DEF disable, ownerStep, DeleteReader
<1>15. CASE storeExit
  BY <1>15 DEF storeExit, ownerStep
<1>16. CASE unsetNotifyCallback
  BY <1>16 DEF unsetNotifyCallback, ownerStep
<1>17. CASE disableInDtor
  BY <1>17 DEF disableInDtor, ownerStep, DeleteReader
<1>18. CASE notify_all
  BY <1>18 DEF notify_all, Wake
<1>19. CASE join
  BY <1>19 DEF join, ownerStep
<1>20. CASE UNCHANGED vars
  BY <1>20 DEF vars
<1> QED
  BY <1>1, <1>2, <1>3, <1>4, <1>5, <1>6, <1>7, <1>8, <1>9, <1>10,
     <1>11, <1>12, <1>13, <1>14, <1>15, <1>16, <1>17, <1>18, <1>19, <1>20
  DEF Next, ReceiveStep, WorkerStep, OwnerStep, DtorStep, spuriousWakeup, checkExit,
      lockQueue, testPredicate, block, relock, checkExitLocked, queueDone, AfterQueue

\* The reader starts idle.
LEMMA InitTypeInv == Init => TypeInv
<1> SUFFICES ASSUME Init PROVE TypeInv
  OBVIOUS
<1> USE DEF Init
<1>1. queue \in Seq(Wrapper) /\ wrapper \in Seq(Wrapper) /\ Len(wrapper) = 0
  BY EmptySeq
<1>2. taken \in Seq(Wrapper) /\ handed \in Seq(Wrapper)
  BY EmptySeq
<1>3. arrived \in 0 .. MaxSamples
  BY BoundAssumption DEF BoundAssumption
<1>4. queue = <<>> /\ rpc = "idle" /\ wpc = "top"
  OBVIOUS
<1>5. /\ data_reader \in {"none", "unassigned", "assigned"}
      /\ m_notify_callback \in BOOLEAN
      /\ m_user_callback \in Callback \cup {NoCallback}
      /\ assigning \in SUBSET (Callback \cup {NoCallback})
  OBVIOUS
<1>6. /\ m_exit \in BOOLEAN
      /\ opc \in {"live", "listener", "disable", "notify", "join", "gone"}
      /\ aborted \in BOOLEAN
  OBVIOUS
<1> HIDE DEF Init
<1> QED
  BY <1>1, <1>2, <1>3, <1>4, <1>5, <1>6 DEF TypeInv, TypeOK

\* Types of the three threads, the queue and the reader.
THEOREM TypeCorrect == Spec => []TypeOK
<1>1. TypeInv => TypeOK
  BY DEF TypeInv
<1> QED
  BY <1>1, InitTypeInv, TypeInvStep, PTL DEF Spec

-----------------------------------------------------------------------------
\* What the destructor leaves behind.

\* setDataCallback and enable() are over when the owner begins to destroy.
OwnerBusy == assigning # {} \/ data_reader = "unassigned"

(***************************************************************************)
(* The destructor unsets the listener's callback before it deletes the DDS *)
(* reader, so that from then on the receive thread has nothing to do, and  *)
(* it passes join() when the worker has ended.                             *)
(***************************************************************************)
DtorInv ==
  /\ opc # "live" => ~OwnerBusy
  /\ opc \in {"disable", "notify", "join", "gone"} => rpc = "idle" /\ ~m_notify_callback
  /\ opc \in {"notify", "join", "gone"} => data_reader = "none"
  /\ opc = "gone" => wpc = "done"

LEMMA DtorInvStep == TypeInv /\ DtorInv /\ [Next]_vars => DtorInv'
<1> SUFFICES ASSUME TypeInv, DtorInv, [Next]_vars PROVE DtorInv'
  OBVIOUS
<1> USE DEF TypeInv, TypeOK, DtorInv, OwnerBusy, Runs, ownerVars, threadVars, dataVars
<1>1. CASE on_data_available
  BY <1>1 DEF on_data_available
<1>2. CASE takeSample
  BY <1>2 DEF takeSample
<1>3. CASE takeFails
  BY <1>3 DEF takeFails
<1>4. CASE takeAborts
  BY <1>4 DEF takeAborts
<1>5. CASE emplace
  BY <1>5 DEF emplace
<1>6. CASE notify_one
  BY <1>6 DEF notify_one, Wake
<1>7. ASSUME NEW from, NEW to, workerStep(from, to), from # "done"
      PROVE  DtorInv'
  BY <1>7, WorkerMoves
<1>8. CASE runFront
  BY <1>8 DEF runFront
<1>9. CASE callbackReturns
  BY <1>9 DEF callbackReturns
<1>10. CASE beginSetDataCallback
  BY <1>10 DEF beginSetDataCallback, ownerStep
<1>11. CASE endSetDataCallback
  BY <1>11 DEF endSetDataCallback, ownerStep
<1>12. CASE create_datareader
  BY <1>12 DEF create_datareader, ownerStep
<1>13. CASE assignDataReader
  BY <1>13 DEF assignDataReader, ownerStep
<1>14. CASE disable
  BY <1>14 DEF disable, ownerStep, DeleteReader
<1>15. CASE storeExit
  BY <1>15 DEF storeExit, ownerStep
<1>16. CASE unsetNotifyCallback
  BY <1>16 DEF unsetNotifyCallback, ownerStep
<1>17. CASE disableInDtor
  BY <1>17 DEF disableInDtor, ownerStep, DeleteReader
<1>18. CASE notify_all
  BY <1>18 DEF notify_all, Wake
<1>19. CASE join
  BY <1>19 DEF join, ownerStep, WorkerEnded
<1>20. CASE UNCHANGED vars
  BY <1>20 DEF vars
<1> QED
  BY <1>1, <1>2, <1>3, <1>4, <1>5, <1>6, <1>7, <1>8, <1>9, <1>10,
     <1>11, <1>12, <1>13, <1>14, <1>15, <1>16, <1>17, <1>18, <1>19, <1>20
  DEF Next, ReceiveStep, WorkerStep, OwnerStep, DtorStep, spuriousWakeup, checkExit,
      lockQueue, testPredicate, block, relock, checkExitLocked, queueDone

(***************************************************************************)
(* When the destructor has returned no thread of the reader runs, and the  *)
(* DDS reader is gone: whatever arrived, was queued or was being called    *)
(* when it began.                                                          *)
(***************************************************************************)
THEOREM QuietAfterDtor == Spec => []NothingRunsAfterDtor
<1>1. Init => TypeInv /\ DtorInv
  BY InitTypeInv DEF Init, DtorInv, OwnerBusy
<1>2. DtorInv => NothingRunsAfterDtor
  BY DEF DtorInv, NothingRunsAfterDtor
<1> QED
  BY <1>1, <1>2, TypeInvStep, DtorInvStep, PTL DEF Spec

-----------------------------------------------------------------------------
\* The reader implements Handoff.

\* What is in the queue and not handed over: all of it, or all but the front.
Pending == IF wpc = "running" THEN Tail(queue) ELSE queue

\* Nothing is lost, repeated or reordered between taking and handing over.
OrderInv == taken = handed \o (Pending \o wrapper)

\* What a step means to Handoff.
Handing == [Reader!Next]_(Reader!vars)
Open == opc = "live" /\ ~aborted

LEMMA PendingType == TypeInv => Pending \in Seq(Wrapper)
BY HeadTailProperties DEF TypeInv, TypeOK, Pending

\* A step that leaves the data alone and no callback runs in or leaves.
LEMMA QuietStep ==
  ASSUME OrderInv, UNCHANGED <<taken, handed, queue, wrapper>>,
         wpc = "running" <=> wpc' = "running",
         Open' = Open \/ (Open /\ ~Open')
  PROVE  OrderInv' /\ Handing
<1>1. Pending' = Pending
  BY DEF Pending
<1>2. OrderInv'
  BY <1>1 DEF OrderInv
<1>3. CASE Open' = Open
  BY <1>2, <1>3 DEF Handing, Open, Reader!vars
<1>4. CASE Open /\ ~Open'
  <2>1. Reader!Close
    BY <1>4 DEF Open, Reader!Close
  <2> QED
    BY <1>2, <2>1 DEF Handing, Reader!Next
<1> QED
  BY <1>3, <1>4

(***************************************************************************)
(* Every step of the threads keeps the samples in order, and is a step of  *)
(* Handoff or none: takeSample takes, runFront hands over, the beginning   *)
(* of the destructor and a crash close.                                    *)
(***************************************************************************)
LEMMA HandoffStep == TypeInv /\ OrderInv /\ [Next]_vars => OrderInv' /\ Handing
<1> SUFFICES ASSUME TypeInv, OrderInv, [Next]_vars PROVE OrderInv' /\ Handing
  OBVIOUS
<1> USE DEF Runs, ownerVars, threadVars, dataVars
<1>1. CASE takeSample
  <2>1. PICK cb \in {m_user_callback} \cup assigning :
          /\ wrapper' = <<[sample |-> arrived, callback |-> cb]>>
          /\ taken' = Append(taken, [sample |-> arrived, callback |-> cb])
    BY <1>1 DEF takeSample
  <2> DEFINE w == [sample |-> arrived, callback |-> cb]
  <2>2. w \in Wrapper
    BY <1>1 DEF takeSample, Wrapper, TypeInv, TypeOK
  <2>3. wrapper = <<>> /\ handed \in Seq(Wrapper) /\ Pending \in Seq(Wrapper)
    BY <1>1, PendingType, AtMostOne DEF takeSample, TypeInv, TypeOK
  <2>4. UNCHANGED <<handed, queue, wpc>> /\ Pending' = Pending
    BY <1>1 DEF takeSample, Pending
  <2> HIDE DEF w
  <2>5. taken = handed \o (Pending \o <<>>)
    BY <2>3 DEF OrderInv
  <2>6. taken' = handed \o (Pending \o <<w>>)
    BY <2>1, <2>2, <2>3, <2>5, TakenGoesLast DEF w
  <2>7. OrderInv'
    BY <2>1, <2>4, <2>6 DEF OrderInv, w
  <2>8. Reader!Take
    BY <1>1, <2>1, <2>2 DEF Reader!Take, takeSample, w
  <2> QED
    BY <2>7, <2>8 DEF Handing, Reader!Next
<1>2. CASE emplace
  <2>1. queue \in Seq(Wrapper) /\ wrapper \in Seq(Wrapper) /\ wpc # "running"
    BY <1>2 DEF emplace, HoldsQueue, TypeInv, TypeOK
  <2>2. Pending = queue /\ Pending' = queue \o wrapper /\ wrapper' = <<>>
        /\ UNCHANGED <<taken, handed>>
    BY <1>2, <2>1 DEF emplace, Pending
  <2>3. OrderInv'
    BY <2>1, <2>2, QueuedKeepsPlace DEF OrderInv
  <2>4. Handing
    BY <1>2 DEF emplace, Handing, Reader!vars
  <2> QED
    BY <2>3, <2>4
<1>3. CASE runFront
  <2>1. /\ queue \in Seq(Wrapper) /\ queue # <<>>
        /\ wrapper \in Seq(Wrapper) /\ handed \in Seq(Wrapper)
    BY <1>3 DEF runFront, TypeInv, TypeOK
  <2>2. Pending = queue /\ Pending' = Tail(queue) /\ handed' = Append(handed, Head(queue))
        /\ UNCHANGED <<taken, wrapper, opc, aborted>>
    BY <1>3 DEF runFront, Pending
  <2>3. taken = handed \o (queue \o wrapper)
    BY <2>2 DEF OrderInv
  <2>4. /\ taken = handed' \o (Tail(queue) \o wrapper)
        /\ Len(handed) < Len(taken) /\ taken[Len(handed) + 1] = Head(queue)
    <3>1. /\ handed \o (queue \o wrapper) = Append(handed, Head(queue)) \o (Tail(queue) \o wrapper)
          /\ Len(handed) < Len(handed \o (queue \o wrapper))
          /\ (handed \o (queue \o wrapper))[Len(handed) + 1] = Head(queue)
      BY <2>1, FrontIsNext
    <3> QED
      BY <2>2, <2>3, <3>1, Zenon
  <2>5. OrderInv'
    BY <2>2, <2>4 DEF OrderInv
  <2>6. Reader!Hand
    BY <2>2, <2>4 DEF Reader!Hand
  <2> QED
    BY <2>5, <2>6 DEF Handing, Reader!Next
<1>4. CASE callbackReturns
  <2>1. Pending' = Pending /\ UNCHANGED <<taken, handed, wrapper, opc, aborted>>
    BY <1>4 DEF callbackReturns, Pending, Popped
  <2> QED
    BY <2>1 DEF OrderInv, Handing, Reader!vars
<1>5. CASE on_data_available
  BY <1>5, QuietStep DEF on_data_available, Open, TypeInv, TypeOK
<1>6. CASE takeFails
  BY <1>6, QuietStep DEF takeFails, Open, TypeInv, TypeOK
<1>7. CASE takeAborts
  BY <1>7, QuietStep DEF takeAborts, Open, TypeInv, TypeOK
<1>8. CASE notify_one
  BY <1>8, QuietStep DEF notify_one, Wake, Open, TypeInv, TypeOK
<1>9. ASSUME NEW from, NEW to, workerStep(from, to), from # "running", to # "running"
      PROVE  OrderInv' /\ Handing
  BY <1>9, WorkerMoves, QuietStep DEF Open
<1>10. CASE beginSetDataCallback
  BY <1>10, QuietStep DEF beginSetDataCallback, ownerStep, Open
<1>11. CASE endSetDataCallback
  BY <1>11, QuietStep DEF endSetDataCallback, ownerStep, Open
<1>12. CASE create_datareader
  BY <1>12, QuietStep DEF create_datareader, ownerStep, Open
<1>13. CASE assignDataReader
  BY <1>13, QuietStep DEF assignDataReader, ownerStep, Open
<1>14. CASE disable
  BY <1>14, QuietStep DEF disable, ownerStep, Open
<1>15. CASE storeExit
  BY <1>15, QuietStep DEF storeExit, ownerStep, Open
<1>16. CASE unsetNotifyCallback
  BY <1>16, QuietStep DEF unsetNotifyCallback, ownerStep, Open
<1>17. CASE disableInDtor
  BY <1>17, QuietStep DEF disableInDtor, ownerStep, Open
<1>18. CASE notify_all
  BY <1>18, QuietStep DEF notify_all, Wake, Open
<1>19. CASE join
  BY <1>19, QuietStep DEF join, ownerStep, Open
<1>20. CASE UNCHANGED vars
  BY <1>20, QuietStep DEF vars, Open
<1> QED
  BY <1>1, <1>2, <1>3, <1>4, <1>5, <1>6, <1>7, <1>8, <1>9, <1>10,
     <1>11, <1>12, <1>13, <1>14, <1>15, <1>16, <1>17, <1>18, <1>19, <1>20
  DEF Next, ReceiveStep, WorkerStep, OwnerStep, DtorStep, spuriousWakeup, checkExit,
      lockQueue, testPredicate, block, relock, checkExitLocked, queueDone, AfterQueue

(***************************************************************************)
(* FastDDSReader implements Handoff, but for its liveness: every callback  *)
(* gets the sample it was taken for, once and in the order of arrival,     *)
(* however the three threads interleave and whenever the callback is       *)
(* replaced, the DDS reader deleted or the reader destroyed.               *)
(***************************************************************************)
THEOREM ReaderHandsOver == Spec => Reader!Safety
<1>1. Init => Reader!Init
  BY DEF Init, Reader!Init
<1>2. Init => OrderInv
  <2>1. <<>> \o (<<>> \o <<>>) = <<>>
    BY ConcatEmptySeq, EmptySeq
  <2> QED
    BY <2>1 DEF Init, OrderInv, Pending
<1> QED
  BY <1>1, <1>2, InitTypeInv, TypeInvStep, HandoffStep, PTL DEF Spec, Reader!Safety, Handing

=============================================================================
