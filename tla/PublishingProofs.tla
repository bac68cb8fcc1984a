-------------------------- MODULE PublishingProofs --------------------------
(***************************************************************************)
(* Theorems about Publishing, for any set of chunks and of samples and for *)
(* both kinds of data types.                                               *)
(***************************************************************************)
EXTENDS Publishing, TLAPS

Sample == [ptr : Pointer, heap : BOOLEAN]

\* A chunk that can be loaned is in no sample.
LEMMA LoanableIsUnheld ==
  ASSUME OneOwner, NEW c \in Loanable, NEW s \in Slot
  PROVE  held[s].ptr # c
BY DEF OneOwner, Loanable

\* The Result of a loan hands out the sample that was put in.
LEMMA ReturnedSample ==
  ASSUME NEW s, NEW sample
  PROVE  Returned(s, sample) <=> held' = [held EXCEPT ![s] = sample]
BY DEF Returned, andThen, OkValue, hasError, getValue

-----------------------------------------------------------------------------
\* Type correctness.

\* What a publish may return.
LEMMA ResultType ==
  Ok \in PublishResult /\ \A e \in PublisherError : Err(e) \in PublishResult
BY DEF PublishResult

\* The end of a call keeps the call's variables in their types.
LEMMA ReturnType ==
  ASSUME TypeOK, NEW failure, NEW transports, return(failure, transports),
         failure \in {"no", "IPC_WRITE_FAILED", "LOAN_FAILED"},
         transports \subseteq {"iox"},
         transports # {} => local
  PROVE  /\ upc' = "idle" /\ arg' = arg /\ remote' = remote /\ local' = local
         /\ result' \in PublishResult
         /\ seen' \subseteq Transport /\ written' \subseteq seen'
BY ResultType DEF TypeOK, return, Transport, PublisherError

\* Every variable keeps its type, and only transports with consumers are written.
THEOREM TypeCorrect == Spec => []TypeOK
<1>1. Init => TypeOK
  <2> SUFFICES ASSUME Init PROVE TypeOK
    OBVIOUS
  <2>1. EmptySample \in Sample
    BY DEF EmptySample, Sample, Pointer
  <2>2. held \in [Slot -> Sample]
    BY <2>1 DEF Init
  <2> QED
    BY <2>2, ResultType DEF Init, TypeOK, Sample
<1>2. TypeOK /\ [Next]_vars => TypeOK'
  <2> SUFFICES ASSUME TypeOK, [Next]_vars PROVE TypeOK'
    OBVIOUS
  <2> USE DEF Runs, Loanable
  <2>1. CASE statusChanges
    BY <2>1 DEF TypeOK, statusChanges, callVars
  <2>2. ASSUME NEW c \in Chunk, release(c) PROVE TypeOK'
    BY <2>2 DEF TypeOK, release, callVars
  <2>3. ASSUME NEW s \in Slot, loanSample(s) PROVE TypeOK'
    <3>1. CASE loanHeap(s)
      <4>1. held' = [held EXCEPT ![s] = [ptr |-> Heap, heap |-> TRUE]]
        BY <3>1, ReturnedSample DEF loanHeap
      <4> QED
        BY <2>3, <3>1, <4>1 DEF TypeOK, loanSample, loanHeap, Pointer, callVars
    <3>2. CASE loanChunk(s)
      <4>1. PICK c \in Chunk :
              /\ chunk' = [chunk EXCEPT ![c] = "loaned"]
              /\ held' = [held EXCEPT ![s] = [ptr |-> c, heap |-> FALSE]]
        BY <3>2, ReturnedSample DEF loanChunk
      <4> QED
        BY <2>3, <4>1 DEF TypeOK, loanSample, Pointer, callVars
    <3>3. CASE loanNothing(s)
      <4>1. held' = [held EXCEPT ![s] = EmptySample]
        BY <3>3, ReturnedSample DEF loanNothing
      <4> QED
        BY <2>3, <3>3, <4>1
        DEF TypeOK, loanSample, loanNothing, EmptySample, Pointer, callVars
    <3> QED
      BY <2>3, <3>1, <3>2, <3>3 DEF loanSample
  <2>4. ASSUME NEW s \in Slot, destroySample(s) PROVE TypeOK'
    BY <2>4 DEF TypeOK, destroySample, Deleted, EmptySample, Pointer, callVars
  <2>5. ASSUME NEW slots, beginPublish(slots),
               slots = {} \/ \E s \in Slot : slots = {s}
        PROVE  TypeOK'
    BY <2>5, ResultType DEF TypeOK, beginPublish
  <2>6. ASSUME NEW s \in Slot, publishToLocal(s) PROVE TypeOK'
    <3>1. CASE writeChunk(s)
      <4>1. held' \in [Slot -> Sample]
        BY <3>1 DEF TypeOK, writeChunk, AfterPublish, Sample, Pointer
      <4> QED
        BY <2>6, <3>1, <4>1, ReturnType
        DEF TypeOK, publishToLocal, writeChunk, Sample
    <3>2. CASE writeSerialized
      BY <2>6, <3>2, ReturnType DEF TypeOK, publishToLocal, writeSerialized, Published
    <3>3. CASE writeWithoutChunk
      BY <2>6, <3>3, ReturnType DEF TypeOK, publishToLocal, writeWithoutChunk
    <3>4. CASE writeEmpty(s)
      BY <2>6, <3>4, ReturnType DEF TypeOK, publishToLocal, writeEmpty
    <3> QED
      BY <2>6, <3>1, <3>2, <3>3, <3>4 DEF publishToLocal
  <2>7. ASSUME NEW s \in Slot, keepFromDelete(s) PROVE TypeOK'
    <3>1. held' \in [Slot -> Sample]
      BY <2>7 DEF TypeOK, keepFromDelete, Sample, Pointer
    <3> QED
      BY <2>7, <3>1, ReturnType DEF TypeOK, keepFromDelete, WrittenNowhere, Sample
  <2>8. CASE writeDds
    BY <2>8, ResultType DEF TypeOK, writeDds, Transport, PublisherError
  <2>9. CASE dereferenceNull
    BY <2>9 DEF TypeOK, dereferenceNull, callVars
  <2>10. CASE publishValueFixed
    BY <2>10, ReturnType DEF TypeOK, publishValueFixed
  <2>11. CASE deleteChunk
    BY <2>11 DEF TypeOK, deleteChunk, callVars
  <2>12. CASE publishValueSerialized
    BY <2>12, ReturnType
    DEF TypeOK, publishValueSerialized, writeSerialized, writeWithoutChunk,
        Published
  <2>13. CASE publishValueRemoteOnly
    BY <2>13, ReturnType DEF TypeOK, publishValueRemoteOnly
  <2>14. ASSUME NEW s \in Slot, NEW t \in Slot, swap(s, t) PROVE TypeOK'
    BY <2>14 DEF TypeOK, swap, callVars
  <2>15. ASSUME NEW s \in Slot, NEW t \in Slot, moveAssign(s, t) PROVE TypeOK'
    <3>1. held' \in [Slot -> Sample]
      BY <2>15 DEF TypeOK, moveAssign, Sample, Pointer
    <3> QED
      BY <2>15, <3>1 DEF TypeOK, moveAssign, Deleted, callVars, Sample
  <2>16. ASSUME NEW s \in Slot, reset(s) PROVE TypeOK'
    <3>1. held' \in [Slot -> Sample]
      BY <2>16 DEF TypeOK, reset, Sample, Pointer
    <3> QED
      BY <2>16, <3>1 DEF TypeOK, reset, Deleted, callVars, Sample
  <2>17. CASE UNCHANGED vars
    BY <2>17 DEF TypeOK, vars, callVars
  <2> QED
    BY <2>1, <2>2, <2>3, <2>4, <2>5, <2>6, <2>7, <2>8, <2>9, <2>10, <2>11, <2>12,
       <2>13, <2>14, <2>15, <2>16, <2>17 DEF Next
<1> QED
  BY <1>1, <1>2, PTL DEF Spec

-----------------------------------------------------------------------------
\* Ownership of chunks.

\* Nothing a sample points to changes: OneOwner stays.
LEMMA OwnerFrame ==
  ASSUME TypeOK, OneOwner, UNCHANGED held,
         \A c \in Chunk : chunk[c] = "loaned" => chunk'[c] = "loaned"
  PROVE  OneOwner'
BY DEF OneOwner

\* A chunk that was free goes to subscribers: OneOwner stays.
LEMMA OwnerSendsFree ==
  ASSUME TypeOK, OneOwner, UNCHANGED held,
         NEW c \in Loanable, NEW st, chunk' = [chunk EXCEPT ![c] = st]
  PROVE  OneOwner'
BY LoanableIsUnheld DEF OneOwner, TypeOK, Loanable

\* A sample becomes empty and no other chunk changes: OneOwner stays.
LEMMA OwnerLetsGo ==
  ASSUME TypeOK, OneOwner, NEW s \in Slot, held'[s].ptr = Null,
         \A t \in Slot : t # s => held'[t] = held[t],
         \A c \in Chunk : c # held[s].ptr => chunk'[c] = chunk[c]
  PROVE  OneOwner'
BY PublishingAssumption DEF OneOwner

(***************************************************************************)
(* A chunk has one owner: it is in at most one SamplePtr, and in none once *)
(* it is sent or given back, whatever the user publishes, in which order,  *)
(* and how often (SamplePtr::release in IceoryxWriter::write).             *)
(***************************************************************************)
THEOREM OneOwnerStays == Spec => []OneOwner
<1>1. Init => OneOwner
  BY PublishingAssumption DEF Init, OneOwner, EmptySample
<1>2. TypeOK /\ OneOwner /\ [Next]_vars => OneOwner'
  <2> SUFFICES ASSUME TypeOK, OneOwner, [Next]_vars PROVE OneOwner'
    OBVIOUS
  <2>1. CASE statusChanges
    BY <2>1, OwnerFrame DEF statusChanges
  <2>2. ASSUME NEW c \in Chunk, release(c) PROVE OneOwner'
    BY <2>2, OwnerFrame DEF release, TypeOK
  <2>3. ASSUME NEW s \in Slot, loanSample(s) PROVE OneOwner'
    <3>1. CASE loanHeap(s)
      BY <3>1, ReturnedSample, PublishingAssumption DEF loanHeap, OneOwner, TypeOK
    <3>2. CASE loanChunk(s)
      <4>1. PICK c \in Loanable :
              /\ chunk' = [chunk EXCEPT ![c] = "loaned"]
              /\ held' = [held EXCEPT ![s] = [ptr |-> c, heap |-> FALSE]]
        BY <3>2, ReturnedSample DEF loanChunk
      <4>2. c \in Chunk /\ chunk'[c] = "loaned"
        BY <4>1 DEF Loanable, TypeOK
      <4>3. \A t \in Slot : held[t].ptr # c
        BY LoanableIsUnheld
      <4>4. held'[s] = [ptr |-> c, heap |-> FALSE]
        BY <4>1 DEF TypeOK
      <4>5. \A t \in Slot : t # s => held'[t] = held[t]
        BY <4>1 DEF TypeOK
      <4>6. \A d \in Chunk : d # c => chunk'[d] = chunk[d]
        BY <4>1 DEF TypeOK
      <4> QED
        BY <4>2, <4>3, <4>4, <4>5, <4>6 DEF OneOwner
    <3>3. CASE loanNothing(s)
      BY <3>3, ReturnedSample, PublishingAssumption
      DEF loanNothing, OneOwner, TypeOK, EmptySample
    <3> QED
      BY <2>3, <3>1, <3>2, <3>3 DEF loanSample
  <2>4. ASSUME NEW s \in Slot, destroySample(s) PROVE OneOwner'
    BY <2>4, OwnerLetsGo DEF destroySample, Deleted, EmptySample, TypeOK
  <2>5. ASSUME NEW slots, beginPublish(slots) PROVE OneOwner'
    BY <2>5, OwnerFrame DEF beginPublish
  <2>6. ASSUME NEW s \in Slot, publishToLocal(s) PROVE OneOwner'
    <3>1. CASE writeChunk(s)
      BY <3>1, OwnerLetsGo DEF writeChunk, AfterPublish, TypeOK
    <3>2. CASE writeSerialized
      BY <3>2, OwnerSendsFree DEF writeSerialized
    <3>3. CASE writeWithoutChunk \/ writeEmpty(s)
      BY <3>3, OwnerFrame DEF writeWithoutChunk, writeEmpty
    <3> QED
      BY <2>6, <3>1, <3>2, <3>3 DEF publishToLocal
  <2>7. ASSUME NEW s \in Slot, keepFromDelete(s) PROVE OneOwner'
    <3>1. CASE held[s].heap
      BY <2>7, <3>1, OwnerFrame DEF keepFromDelete
    <3>2. CASE ~held[s].heap
      BY <2>7, <3>2, OwnerLetsGo DEF keepFromDelete, TypeOK
    <3> QED
      BY <3>1, <3>2
  <2>8. CASE writeDds \/ dereferenceNull \/ deleteChunk \/ publishValueRemoteOnly
    BY <2>8, OwnerFrame
    DEF writeDds, dereferenceNull, deleteChunk, publishValueRemoteOnly
  <2>9. CASE publishValueFixed
    BY <2>9, OwnerFrame, OwnerSendsFree DEF publishValueFixed
  <2>10. CASE publishValueSerialized
    BY <2>10, OwnerFrame, OwnerSendsFree
    DEF publishValueSerialized, writeSerialized, writeWithoutChunk
  <2>11. ASSUME NEW s \in Slot, NEW t \in Slot, swap(s, t) PROVE OneOwner'
    <3>1. held'[s] = held[t] /\ held'[t] = held[s]
      BY <2>11 DEF swap, TypeOK
    <3>2. \A u \in Slot : u # s /\ u # t => held'[u] = held[u]
      BY <2>11 DEF swap, TypeOK
    <3>3. chunk' = chunk
      BY <2>11 DEF swap
    <3> QED
      BY <3>1, <3>2, <3>3 DEF OneOwner
  <2>12. ASSUME NEW s \in Slot, NEW t \in Slot, moveAssign(s, t) PROVE OneOwner'
    <3>1. held'[s] = held[t] /\ held'[t].ptr = Null
      BY <2>12 DEF moveAssign, TypeOK
    <3>2. \A u \in Slot : u # s /\ u # t => held'[u] = held[u]
      BY <2>12 DEF moveAssign, TypeOK
    <3>3. chunk' = chunk
      BY <2>12 DEF moveAssign, Deleted
    <3> QED
      BY <3>1, <3>2, <3>3, PublishingAssumption DEF OneOwner
  <2>13. ASSUME NEW s \in Slot, reset(s) PROVE OneOwner'
    BY <2>13, OwnerLetsGo DEF reset, Deleted, TypeOK
  <2>14. CASE UNCHANGED vars
    BY <2>14, OwnerFrame DEF vars
  <2> QED
    BY <2>1, <2>2, <2>3, <2>4, <2>5, <2>6, <2>7, <2>8, <2>9, <2>10, <2>11, <2>12,
       <2>13, <2>14 DEF Next
<1> QED
  BY <1>1, <1>2, TypeCorrect, PTL DEF Spec

-----------------------------------------------------------------------------
\* The result of a publish.

(***************************************************************************)
(* The inductive form of ResultIsTrue: it holds between the two halves of  *)
(* a call as well, and the first half has seen no iceoryx consumer yet.    *)
(***************************************************************************)
CallInv ==
  /\ upc # "dds" => Truthful
  /\ upc = "dds" => ~hasError(result) /\ seen = {} /\ written = {}
  /\ upc = "iox" => seen \subseteq {"dds"}

\* What an Err tells.
LEMMA ErrIsError ==
  ASSUME NEW e
  PROVE  hasError(Err(e)) /\ orElse(Err(e)) = {e}
BY DEF hasError, Err, orElse, getError

\* An Ok tells nothing.
LEMMA OkIsNoError == ~hasError(Ok) /\ orElse(Ok) = {}
BY DEF hasError, Ok, orElse

\* The end of a call that wrote to iceoryx, or had nobody to write to.
LEMMA ReturnSuccess ==
  ASSUME TypeOK, CallInv, upc = "iox", NEW transports, return("no", transports),
         transports = IF local THEN {"iox"} ELSE {}
  PROVE  CallInv'
<1>1. upc' = "idle" /\ result' = result
  BY DEF return
<1>2. seen' = seen \cup transports /\ written' = written \cup transports
  BY DEF return
<1>3. "iox" \notin seen /\ "iox" \notin written
  BY DEF CallInv, TypeOK
<1>4. (written' = seen') <=> (written = seen)
  BY <1>2, <1>3
<1>5. seen \ written = seen' \ written'
  BY <1>2, <1>3
<1>6. Truthful
  BY DEF CallInv
<1>7. Truthful'
  BY <1>1, <1>4, <1>5, <1>6 DEF Truthful, hasError, orElse, getError, FailedOn
<1> QED
  BY <1>1, <1>7 DEF CallInv

\* The end of a call that failed to write to iceoryx.
LEMMA ReturnFailure ==
  ASSUME TypeOK, CallInv, upc = "iox", local, NEW failure, return(failure, {}),
         failure \in {"IPC_WRITE_FAILED", "LOAN_FAILED"}
  PROVE  CallInv'
<1>1. upc' = "idle" /\ result' = Err(failure)
  BY DEF return
<1>2. "iox" \in seen' /\ "iox" \notin written'
  BY DEF return, CallInv, TypeOK
<1>3. FailedOn(failure) = "iox"
  BY DEF FailedOn
<1>4. Truthful'
  BY <1>1, <1>2, <1>3, ErrIsError DEF Truthful, hasError, orElse, getError, FailedOn
<1> QED
  BY <1>1, <1>4 DEF CallInv

\* A value whose DDS write failed is kept from iceoryx: still that error.
LEMMA ReturnAfterFailure ==
  ASSUME TypeOK, CallInv, upc = "iox", local, hasError(result), return("no", {})
  PROVE  CallInv'
<1>1. upc' = "idle" /\ result' = result /\ written' = written
  BY DEF return
<1>2. seen \subseteq seen'
  BY DEF return
<1>3. Truthful
  BY DEF CallInv
<1>4. Truthful'
  BY <1>1, <1>2, <1>3 DEF Truthful, hasError, orElse, getError, FailedOn
<1> QED
  BY <1>1, <1>4 DEF CallInv

(***************************************************************************)
(* A publish returns Ok exactly when it wrote to every transport that had  *)
(* consumers when it looked, and else an error of one it did not write to  *)
(* (Publisher::publish), for both overloads.                               *)
(***************************************************************************)
THEOREM ResultStaysTrue == Spec => []ResultIsTrue
<1>1. Init => CallInv
  BY OkIsNoError DEF Init, CallInv, Truthful
<1>2. TypeOK /\ CallInv /\ [Next]_vars => CallInv'
  <2> SUFFICES ASSUME TypeOK, CallInv, [Next]_vars PROVE CallInv'
    OBVIOUS
  <2>1. ASSUME UNCHANGED callVars PROVE CallInv'
    BY <2>1
    DEF callVars, CallInv, Truthful, hasError, orElse, getError, FailedOn
  <2>2. CASE \/ statusChanges \/ dereferenceNull \/ deleteChunk \/ UNCHANGED vars
             \/ \E c \in Chunk : release(c)
             \/ \E s \in Slot : loanSample(s) \/ destroySample(s) \/ reset(s)
             \/ \E s, t \in Slot : swap(s, t) \/ moveAssign(s, t)
    BY <2>1, <2>2 DEF statusChanges, dereferenceNull, deleteChunk, vars, release,
                      loanSample, destroySample, reset, moveAssign, swap, Deleted
  <2>3. ASSUME NEW slots, beginPublish(slots) PROVE CallInv'
    BY <2>3, OkIsNoError DEF beginPublish, CallInv, hasError
  <2>4. CASE writeDds
    <3>1. upc' = "iox" /\ seen' \subseteq {"dds"}
      BY <2>4 DEF writeDds
    <3>2. ~hasError(result)
      BY <2>4 DEF writeDds, CallInv
    <3>3. CASE written' = seen'
      <4>1. result' = result
        BY <2>4, <3>3 DEF writeDds
      <4>2. Truthful'
        BY <3>2, <3>3, <4>1 DEF Truthful, hasError, orElse
      <4> QED
        BY <3>1, <4>2 DEF CallInv
    <3>4. CASE written' # seen'
      <4>1. result' = Err("DDS_WRITE_FAILED")
        BY <2>4, <3>4 DEF writeDds
      <4>2. "dds" \in seen' \ written'
        BY <2>4, <3>4 DEF writeDds
      <4>3. Truthful'
        BY <4>1, <4>2, ErrIsError DEF Truthful, hasError, orElse, getError, FailedOn
      <4> QED
        BY <3>1, <4>3 DEF CallInv
    <3> QED
      BY <3>3, <3>4
  <2>5. ASSUME NEW s \in Slot, publishToLocal(s) PROVE CallInv'
    BY <2>5, ReturnSuccess, ReturnFailure
    DEF publishToLocal, writeChunk, writeSerialized, writeWithoutChunk, writeEmpty
  <2>6. ASSUME NEW s \in Slot, keepFromDelete(s) PROVE CallInv'
    BY <2>6, ReturnSuccess DEF keepFromDelete, WrittenNowhere
  <2>7. CASE publishValueFixed
    BY <2>7, ReturnSuccess, ReturnFailure DEF publishValueFixed
  <2>8. CASE publishValueSerialized
    BY <2>8, ReturnSuccess, ReturnFailure, ReturnAfterFailure
    DEF publishValueSerialized, writeSerialized, writeWithoutChunk
  <2>9. CASE publishValueRemoteOnly
    BY <2>9, ReturnSuccess DEF publishValueRemoteOnly
  <2> QED
    BY <2>2, <2>3, <2>4, <2>5, <2>6, <2>7, <2>8, <2>9 DEF Next
<1>3. CallInv => ResultIsTrue
  BY DEF CallInv, ResultIsTrue
<1> QED
  BY <1>1, <1>2, <1>3, TypeCorrect, PTL DEF Spec

-----------------------------------------------------------------------------
\* Samples of a dynamic type.

(***************************************************************************)
(* The inductive form of DynamicIsSafe: no sample ever points to a chunk,  *)
(* so that none can be deleted, and no chunk stays loaned after the step   *)
(* that loaned it.                                                         *)
(***************************************************************************)
DynamicInv ==
  ~IsFixed =>
    /\ died # "freed"
    /\ \A s \in Slot : held[s].ptr \notin Chunk
    /\ \A c \in Chunk : chunk[c] # "loaned"

(***************************************************************************)
(* The samples of a dynamic type never cost a chunk: IceoryxWriter::write  *)
(* publishes each one it loans, and the deleter of a SamplePtr never meets *)
(* one, whichever write fails and whatever the user does with a sample.    *)
(***************************************************************************)
THEOREM DynamicStaysSafe == Spec => []DynamicIsSafe
<1>1. Init => DynamicInv
  BY PublishingAssumption DEF Init, DynamicInv, EmptySample
<1>2. TypeOK /\ DynamicInv /\ [Next]_vars => DynamicInv'
  <2> SUFFICES ASSUME TypeOK, DynamicInv, [Next]_vars PROVE DynamicInv'
    OBVIOUS
  <2>1. IsFixed' = IsFixed
    BY DEF Next, vars, Runs, statusChanges, release, loanSample, destroySample,
           reset, moveAssign, swap, Deleted, beginPublish, writeDds, dereferenceNull, publishToLocal, keepFromDelete,
           publishValueFixed, deleteChunk, publishValueSerialized,
           publishValueRemoteOnly
  <2> SUFFICES ASSUME ~IsFixed PROVE DynamicInv'
    BY <2>1 DEF DynamicInv
  <2>2. /\ died # "freed"
        /\ \A s \in Slot : held[s].ptr \notin Chunk
        /\ \A c \in Chunk : chunk[c] # "loaned"
    BY DEF DynamicInv
  <2>3. CASE \/ statusChanges \/ writeDds \/ publishValueRemoteOnly
             \/ UNCHANGED vars \/ \E slots : beginPublish(slots)
    BY <2>2, <2>3 DEF statusChanges, writeDds, publishValueRemoteOnly, vars,
                      beginPublish, Runs, DynamicInv
  <2>4. CASE dereferenceNull
    BY <2>2, <2>4 DEF dereferenceNull, DynamicInv
  <2>5. ASSUME NEW c \in Chunk, release(c) PROVE DynamicInv'
    BY <2>2, <2>5 DEF release, Runs, DynamicInv, TypeOK
  <2>6. ASSUME NEW s \in Slot, loanSample(s) PROVE DynamicInv'
    <3>1. loanHeap(s)
      BY <2>6 DEF loanSample, loanChunk, loanNothing
    <3>2. \A t \in Slot : held'[t].ptr \notin Chunk
      BY <2>2, <3>1, ReturnedSample, PublishingAssumption DEF loanHeap, TypeOK
    <3> QED
      BY <2>2, <2>6, <3>1, <3>2 DEF loanSample, loanHeap, Runs, DynamicInv
  <2>7. ASSUME NEW s \in Slot, destroySample(s) PROVE DynamicInv'
    <3>1. \A t \in Slot : held'[t].ptr \notin Chunk
      BY <2>2, <2>7, PublishingAssumption
      DEF destroySample, Deleted, EmptySample, TypeOK
    <3> QED
      BY <2>2, <2>7, <3>1 DEF destroySample, Deleted, DynamicInv
  <2>8. ASSUME writeSerialized, Runs PROVE DynamicInv'
    BY <2>2, <2>8 DEF writeSerialized, Published, Runs, DynamicInv, TypeOK
  <2>9. ASSUME NEW s \in Slot, publishToLocal(s) PROVE DynamicInv'
    <3>1. ~writeChunk(s) /\ Runs
      BY <2>2, <2>9 DEF writeChunk, publishToLocal
    <3>2. CASE writeWithoutChunk \/ writeEmpty(s)
      BY <2>2, <3>1, <3>2 DEF writeWithoutChunk, writeEmpty, Runs, DynamicInv
    <3> QED
      BY <2>8, <2>9, <3>1, <3>2 DEF publishToLocal
  <2>10. ASSUME NEW s \in Slot, keepFromDelete(s) PROVE DynamicInv'
    <3>1. \A t \in Slot : held'[t].ptr \notin Chunk
      BY <2>2, <2>10, PublishingAssumption DEF keepFromDelete, TypeOK
    <3> QED
      BY <2>2, <2>10, <3>1 DEF keepFromDelete, Runs, DynamicInv
  <2>11. ~publishValueFixed /\ ~deleteChunk
    BY DEF publishValueFixed, deleteChunk
  <2>12. CASE publishValueSerialized
    <3>1. CASE writeSerialized
      BY <2>8, <2>12, <3>1 DEF publishValueSerialized
    <3>2. CASE ~writeSerialized
      BY <2>2, <2>12, <3>2
      DEF publishValueSerialized, writeWithoutChunk, Runs, DynamicInv
    <3> QED
      BY <3>1, <3>2
  <2>13. ASSUME NEW s \in Slot, NEW t \in Slot, swap(s, t) PROVE DynamicInv'
    <3>1. \A u \in Slot : held'[u].ptr \notin Chunk
      BY <2>2, <2>13 DEF swap, TypeOK
    <3> QED
      BY <2>2, <2>13, <3>1 DEF swap, Runs, DynamicInv
  <2>14. ASSUME NEW s \in Slot, NEW t \in Slot, moveAssign(s, t) PROVE DynamicInv'
    <3>1. \A u \in Slot : held'[u].ptr \notin Chunk
      BY <2>2, <2>14, PublishingAssumption DEF moveAssign, TypeOK
    <3> QED
      BY <2>2, <2>14, <3>1 DEF moveAssign, Deleted, DynamicInv
  <2>15. ASSUME NEW s \in Slot, reset(s) PROVE DynamicInv'
    <3>1. \A u \in Slot : held'[u].ptr \notin Chunk
      BY <2>2, <2>15, PublishingAssumption DEF reset, TypeOK
    <3> QED
      BY <2>2, <2>15, <3>1 DEF reset, Deleted, DynamicInv
  <2> QED
    BY <2>3, <2>4, <2>5, <2>6, <2>7, <2>9, <2>10, <2>11, <2>12, <2>13, <2>14, <2>15
    DEF Next
<1>3. PublishingAssumption /\ DynamicInv => DynamicIsSafe
  BY DEF DynamicInv, DynamicIsSafe, Reachable
<1> QED
  BY <1>1, <1>2, <1>3, TypeCorrect, PublishingAssumption, PTL DEF Spec

=============================================================================
