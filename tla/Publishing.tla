----------------------------- MODULE Publishing -----------------------------
(***************************************************************************)
(* Publisher (publisher.h) over its IceoryxWriter (iceoryx_writer.h): who  *)
(* owns a sample, and what a publish returns.                              *)
(*                                                                         *)
(* A sample is a SamplePtr (sample_ptr.h): a pointer and a flag.  For a    *)
(* type of fixed size it points to a chunk of shared memory that iceoryx   *)
(* loaned to the publisher and wants back, by publish; the deleter of a    *)
(* SamplePtr, however, is `delete`.  For other types it points to the heap *)
(* and a chunk is loaned only while the sample is serialized.  A publish   *)
(* asks the registry twice, once for each transport, and the discovery     *)
(* thread may change the answers in between.                               *)
(***************************************************************************)
EXTENDS Result

CONSTANTS
  Chunk,   \* chunks iceoryx loans to one publisher in parallel
  Slot,    \* SamplePtr variables of the user
  Heap,    \* a heap pointer
  Null     \* nullptr

\* PublisherError; NO_IMPLEMENT is never used.
PublisherError == {"LOAN_FAILED", "DDS_WRITE_FAILED", "IPC_WRITE_FAILED"}

\* Result<PublisherError>.
PublishResult == {Ok} \cup {Err(e) : e \in PublisherError}

ASSUME PublishingAssumption ==
  /\ Heap \notin Chunk /\ Null \notin Chunk /\ Heap # Null
  /\ NoError \notin PublisherError

VARIABLES
  IsFixed, \* IS_FIXED_DATA_TYPE of the publisher's type, which never changes
  chunk,   \* "free", "loaned" to the publisher or "sent" to subscribers
  held,    \* the user's SamplePtrs; an unused variable is an empty one
  remote, local, \* the registry lists remote, local consumers
  upc,     \* user's thread: "idle", or the transport publish turns to
  arg,     \* {slot} in publish(SamplePtr&&), {} in publish(const T&)
  result,  \* Result<PublisherError> of the call
  seen, written, \* transports with consumers, and written to, in this call
  died     \* "no", "null" dereferenced, or "freed" a chunk with delete

callVars == <<upc, arg, result, seen, written>>
vars == <<IsFixed, chunk, held, remote, local, callVars, died>>

Transport == {"dds", "iox"}
Pointer == Chunk \cup {Heap, Null}
EmptySample == [ptr |-> Null, heap |-> TRUE]

Init ==
  /\ IsFixed \in BOOLEAN
  /\ chunk = [c \in Chunk |-> "free"]
  /\ held = [s \in Slot |-> EmptySample]
  /\ remote = FALSE /\ local = FALSE
  /\ upc = "idle" /\ arg = {} /\ result = Ok
  /\ seen = {} /\ written = {}
  /\ died = "no"

Runs == died = "no" /\ UNCHANGED <<died, IsFixed>>

Loanable == {c \in Chunk : chunk[c] = "free"}

\* The discovery thread updates the registry.
statusChanges ==
  /\ Runs
  /\ remote' \in BOOLEAN /\ local' \in BOOLEAN
  /\ UNCHANGED <<chunk, held, callVars>>

\* The subscribers of a sent chunk have all released it.
release(c) ==
  /\ Runs
  /\ chunk[c] = "sent"
  /\ chunk' = [chunk EXCEPT ![c] = "free"]
  /\ UNCHANGED <<held, remote, local, callVars>>

-----------------------------------------------------------------------------
\* The user's samples.

\* The user moves the value out of the Result.
Returned(s, sample) ==
  \E v \in andThen(OkValue(sample)) : held' = [held EXCEPT ![s] = v]

\* loanSample of a heap sample, of a chunk, or - still "Ok" - of nothing.
loanHeap(s) ==
  /\ ~IsFixed
  /\ Returned(s, [ptr |-> Heap, heap |-> TRUE])
  /\ UNCHANGED chunk

loanChunk(s) ==
  /\ IsFixed
  /\ \E c \in Loanable :
       /\ chunk' = [chunk EXCEPT ![c] = "loaned"]
       /\ Returned(s, [ptr |-> c, heap |-> FALSE])

loanNothing(s) ==
  /\ IsFixed
  /\ Loanable = {}
  /\ Returned(s, EmptySample)
  /\ UNCHANGED chunk

loanSample(s) ==
  /\ Runs
  /\ upc = "idle"
  /\ held[s].ptr = Null
  /\ loanHeap(s) \/ loanChunk(s) \/ loanNothing(s)
  /\ UNCHANGED <<remote, local, callVars>>

swap(s, t) ==
  /\ Runs
  /\ upc = "idle"
  /\ held' = [held EXCEPT ![s] = held[t], ![t] = held[s]]
  /\ UNCHANGED <<chunk, remote, local, callVars>>

\* The deleter is `delete`, whatever the pointer points to.
Deleted(s) ==
  /\ died = "no"
  /\ upc = "idle"
  /\ died' = IF held[s].ptr \in Chunk THEN "freed" ELSE "no"
  /\ UNCHANGED <<IsFixed, chunk, remote, local, callVars>>

\* held[s] = std::move(held[t]): what s had is deleted, t keeps its flag.
moveAssign(s, t) ==
  /\ s # t
  /\ Deleted(s)
  /\ held' = [held EXCEPT ![s] = held[t], ![t].ptr = Null]

\* reset(nullptr), = nullptr: the flag stays.
reset(s) ==
  /\ Deleted(s)
  /\ held' = [held EXCEPT ![s].ptr = Null]

\* ~SamplePtr; the variable is declared anew.
destroySample(s) ==
  /\ held[s].ptr # Null
  /\ Deleted(s)
  /\ held' = [held EXCEPT ![s] = EmptySample]

-----------------------------------------------------------------------------
\* publish(SamplePtr&&) of slot s, and publish(const T&).

beginPublish(slots) ==
  /\ Runs
  /\ upc = "idle"
  /\ upc' = "dds"
  /\ arg' = slots
  /\ result' = Ok
  /\ seen' = {} /\ written' = {}
  /\ UNCHANGED <<chunk, held, remote, local>>

\* The sample of the call is empty: *sample has no object.
Dereferenced == \A s \in arg : held[s].ptr # Null

\* hasRemoteConsumer(): the value is written to DDS, which may refuse it.
writeDds ==
  /\ Runs
  /\ upc = "dds"
  /\ remote => Dereferenced
  /\ upc' = "iox"
  /\ seen' = IF remote THEN {"dds"} ELSE {}
  /\ written' \in SUBSET seen'
  /\ result' = IF seen' # written' THEN Err("DDS_WRITE_FAILED") ELSE result
  /\ UNCHANGED <<chunk, held, remote, local, arg>>

dereferenceNull ==
  /\ died = "no"
  /\ upc = "dds" /\ remote /\ ~Dereferenced
  /\ died' = "null"
  /\ UNCHANGED <<IsFixed, chunk, held, remote, local, callVars>>

\* Mutant: the second transport's result replaces the first one's.
returnLast(failure, transports) ==
  /\ upc' = "idle"
  /\ seen' = IF local THEN seen \cup {"iox"} ELSE seen
  /\ written' = written \cup transports
  /\ result' = IF failure = "no" THEN Ok ELSE Err(failure)
  /\ UNCHANGED <<arg, remote, local>>

\* Every end of the iceoryx half of a call.
return(failure, transports) ==
  /\ upc' = "idle"
  /\ seen' = IF local THEN seen \cup {"iox"} ELSE seen
  /\ written' = written \cup transports
  /\ result' = IF failure = "no" THEN result ELSE Err(failure)
  /\ UNCHANGED <<arg, remote, local>>

\* Mutant: the chunk stays in the SamplePtr after it is published.
AfterPublishKept(s) == held
AfterPublish(s) == [held EXCEPT ![s].ptr = Null]

\* IceoryxWriter::write of a chunk: it is published, the pointer released.
writeChunk(s) ==
  /\ held[s].ptr \in Chunk
  /\ chunk' = [chunk EXCEPT ![held[s].ptr] = "sent"]
  /\ held' = AfterPublish(s)
  /\ return("no", {"iox"})

\* Mutant: the chunk is filled and not published.
PublishedNever == "loaned"
Published == "sent"

\* IceoryxWriter::write of an object: a chunk is loaned, filled and published.
writeSerialized ==
  /\ \E c \in Loanable : chunk' = [chunk EXCEPT ![c] = Published]
  /\ return("no", {"iox"})
  /\ UNCHANGED held

writeWithoutChunk ==
  /\ Loanable = {}
  /\ return("IPC_WRITE_FAILED", {})
  /\ UNCHANGED <<chunk, held>>

writeEmpty(s) ==
  /\ held[s].ptr = Null
  /\ return("IPC_WRITE_FAILED", {})
  /\ UNCHANGED <<chunk, held>>

\* hasLocalConsumer(): the sample goes to IceoryxWriter::write.
publishToLocal(s) ==
  /\ Runs
  /\ upc = "iox" /\ arg = {s} /\ local
  /\ \/ writeChunk(s)
     \/ held[s].ptr = Heap /\ (writeSerialized \/ writeWithoutChunk)
     \/ writeEmpty(s)

\* Mutant: iceoryx is written to although nobody listens.
WrittenUnasked == {"iox"}
WrittenNowhere == {}

\* "Avoid delete by d": a chunk is released from its SamplePtr.
keepFromDelete(s) ==
  /\ Runs
  /\ upc = "iox" /\ arg = {s} /\ ~local
  /\ held' = IF held[s].heap THEN held ELSE [held EXCEPT ![s].ptr = Null]
  /\ return("no", WrittenNowhere)
  /\ UNCHANGED chunk

\* publish(const T&): a sample is loaned, assigned and written.
publishValueFixed ==
  /\ Runs
  /\ IsFixed
  /\ upc = "iox" /\ arg = {} /\ local
  /\ \/ /\ Loanable = {}
        /\ return("LOAN_FAILED", {})
        /\ UNCHANGED chunk
     \/ /\ ~hasError(result)
        /\ \E c \in Loanable : chunk' = [chunk EXCEPT ![c] = "sent"]
        /\ return("no", {"iox"})
  /\ UNCHANGED held

\* DDS has failed: the loaned chunk is not written, its SamplePtr deletes it.
deleteChunk ==
  /\ died = "no"
  /\ IsFixed
  /\ upc = "iox" /\ arg = {} /\ local
  /\ hasError(result) /\ Loanable # {}
  /\ died' = "freed"
  /\ UNCHANGED <<IsFixed, chunk, held, remote, local, callVars>>

publishValueSerialized ==
  /\ Runs
  /\ ~IsFixed
  /\ upc = "iox" /\ arg = {} /\ local
  /\ \/ ~hasError(result) /\ (writeSerialized \/ writeWithoutChunk)
     \/ hasError(result) /\ return("no", {}) /\ UNCHANGED <<chunk, held>>

publishValueRemoteOnly ==
  /\ Runs
  /\ upc = "iox" /\ arg = {} /\ ~local
  /\ return("no", {})
  /\ UNCHANGED <<chunk, held>>

-----------------------------------------------------------------------------
Next ==
  \/ statusChanges
  \/ \E c \in Chunk : release(c)
  \/ \E s \in Slot :
       \/ loanSample(s) \/ reset(s) \/ destroySample(s)
       \/ \E t \in Slot : moveAssign(s, t) \/ swap(s, t)
       \/ beginPublish({s})
       \/ publishToLocal(s) \/ keepFromDelete(s)
  \/ beginPublish({})
  \/ writeDds \/ dereferenceNull
  \/ publishValueFixed \/ publishValueSerialized \/ publishValueRemoteOnly
  \/ deleteChunk

Spec == Init /\ [][Next]_vars

-----------------------------------------------------------------------------
\* Type invariant of the chunks, the samples and the call.
TypeOK ==
  /\ IsFixed \in BOOLEAN
  /\ chunk \in [Chunk -> {"free", "loaned", "sent"}]
  /\ held \in [Slot -> [ptr : Pointer, heap : BOOLEAN]]
  /\ remote \in BOOLEAN /\ local \in BOOLEAN
  /\ upc \in {"idle", "dds", "iox"}
  /\ arg = {} \/ \E s \in Slot : arg = {s}
  /\ result \in PublishResult
  /\ seen \subseteq Transport /\ written \subseteq seen
  /\ died \in {"no", "null", "freed"}

(***************************************************************************)
(* A chunk has one owner: no two samples point to it, none points to a     *)
(* chunk that is sent or that iceoryx can loan again, and its flag says    *)
(* that it is not on the heap ("data pointer must NOT be deleted").        *)
(***************************************************************************)
OneOwner ==
  \A s \in Slot :
    held[s].ptr \in Chunk =>
      /\ chunk[held[s].ptr] = "loaned"
      /\ ~held[s].heap
      /\ \A t \in Slot : held[t].ptr = held[s].ptr => t = s

\* The transport an error is about.
FailedOn(error) == IF error = "DDS_WRITE_FAILED" THEN "dds" ELSE "iox"

(***************************************************************************)
(* A publish returns Ok exactly when the sample was written to every       *)
(* transport that had consumers when the call looked, and the error it     *)
(* returns otherwise names one that was not, however the consumers change  *)
(* during the call and whatever the sample is by then.                     *)
(***************************************************************************)
Truthful ==
  /\ hasError(result) \/ written = seen
  /\ \A e \in orElse(result) : FailedOn(e) \in seen \ written
ResultIsTrue == upc = "idle" => Truthful

\* A loaned chunk is in the hand of a sample, which can still publish it.
Reachable(c) == chunk[c] = "loaned" => \E s \in Slot : held[s].ptr = c

(***************************************************************************)
(* The samples of a dynamic type never cost a chunk: one is loaned for the *)
(* serialization and always sent, and none is ever in the hands of the     *)
(* deleter, whatever the user does with the samples and whichever write    *)
(* fails.                                                                  *)
(***************************************************************************)
DynamicIsSafe ==
  ~IsFixed => died # "freed" /\ \A c \in Chunk : Reachable(c)

-----------------------------------------------------------------------------
\* What the comments of the code say of every type.

(***************************************************************************)
(* "loan a sample, return result of loaned sample": a chunk that is        *)
(* published or kept is not lost, so that it can be loaned again.          *)
(***************************************************************************)
NoChunkLost == died = "no" => \A c \in Chunk : Reachable(c)

(***************************************************************************)
(* A chunk is never deleted: "data pointer must NOT be deleted by free(),  *)
(* because it's not allocated by heap" (IceoryxWriter::write).             *)
(***************************************************************************)
NeverFreesChunk == died # "freed"

=============================================================================
