----------------------------- MODULE Subscriber -----------------------------
(***************************************************************************)
(* Subscriber (subscriber.h): which of its two readers a subscriber reads  *)
(* from, iceoryx when a process of its own host provides the service, DDS  *)
(* when only other hosts do.                                               *)
(*                                                                         *)
(* Two threads decide it.  The owner constructs and destroys the           *)
(* subscriber; the worker of the discovery reader updates the registry     *)
(* (ServiceRegistry::updateRegistryFromServiceDiscovery) and tells the     *)
(* observers.  A subscriber registers its observer in its constructor,     *)
(* which also calls it when the registry knows the service already.        *)
(* m_observe_service_callbacks_mutex belongs to the thread that is inside  *)
(* an observer.  What the registry hears of a service is the Discovery     *)
(* module's matter: here every message is true when it is received.  What  *)
(* the readers then do with samples is the Delivery module's.              *)
(***************************************************************************)
EXTENDS ServiceStatus

CONSTANTS
  Provider,       \* processes that may provide the service
  LocalProvider   \* those on the subscriber's host

ASSUME ProviderAssumption == LocalProvider \subseteq Provider

Thread == {"owner", "worker"}

VARIABLES
  offered,     \* providers that offer the service now
  known,       \* m_registry has an entry for the service
  status,      \* the entry
  message,     \* {<<op, provider>>} while the worker writes the entry
  wpc,         \* worker: "idle", "write", "notify" or "observer"
  opc,         \* owner: next line of the constructor or destructor
  cpc,         \* of each thread in onServiceStatusChanged, "none" outside
  registered,  \* the subscriber's observer is in m_observe_service_callbacks
  dds, iox,    \* each reader is enabled
  ioxCallback, ddsCallback, \* each reader has its callback, onDataAvailable
  died         \* how the process died, or "no"

registryVars == <<known, status, message, registered>>
callbackVars == <<ioxCallback, ddsCallback>>
readerVars   == <<dds, iox, callbackVars>>
vars == <<offered, registryVars, wpc, opc, cpc, readerVars, died>>

Init ==
  /\ offered = {}
  /\ known = FALSE /\ status = EmptyStatus /\ message = {}
  /\ wpc = "idle" /\ opc = "absent"
  /\ cpc = [t \in Thread |-> "none"]
  /\ registered = FALSE
  /\ dds = FALSE /\ iox = FALSE
  /\ ioxCallback = FALSE /\ ddsCallback = FALSE
  /\ died = "no"

Runs == died = "no" /\ UNCHANGED died

\* No thread holds m_observe_service_callbacks_mutex.
ObserveFree == \A t \in Thread : cpc[t] = "none"

\* A provider starts or stops; another module says how it is announced.
toggle(p) ==
  /\ Runs
  /\ offered' = IF p \in offered THEN offered \ {p} ELSE offered \cup {p}
  /\ UNCHANGED <<registryVars, wpc, opc, cpc, readerVars>>

-----------------------------------------------------------------------------
\* The worker: updateRegistryFromServiceDiscovery, under m_registry_mutex.

receive(p) ==
  /\ Runs
  /\ wpc = "idle"
  /\ wpc' = "write"
  /\ message' = {<<IF p \in offered THEN "OFFER" ELSE "STOP_OFFER", p>>}
  /\ UNCHANGED <<offered, known, status, registered, opc, cpc, readerVars>>

writeEntry ==
  /\ Runs
  /\ wpc = "write"
  /\ \E m \in message :
       status' = ApplyDiscovery(status, m[1], m[2], m[2] \in LocalProvider)
  /\ known' = TRUE
  /\ message' = {}
  /\ wpc' = "notify"
  /\ UNCHANGED <<offered, registered, opc, cpc, readerVars>>

notifyUserCallback ==
  /\ Runs
  /\ wpc = "notify"
  /\ ObserveFree
  /\ wpc' = IF registered THEN "observer" ELSE "idle"
  /\ cpc' = [cpc EXCEPT !["worker"] = IF registered THEN "decide" ELSE "none"]
  /\ UNCHANGED <<offered, registryVars, opc, readerVars>>

-----------------------------------------------------------------------------
\* onServiceStatusChanged, called by either thread: one reader off, one on.
\* Its status is a reference to the entry, so it is read when it is tested.

\* Mutants: DDS stays enabled; consumers are taken for providers.
TurnedOffNothing == dds
TurnedOff == FALSE
NeedsDdsIfConsumed == ~hasLocalProvider(status) /\ hasRemoteConsumer(status)
NeedsDds == ~hasLocalProvider(status) /\ hasRemoteProvider(status)

preferLocal(t) ==
  /\ Runs
  /\ cpc[t] = "decide" /\ hasLocalProvider(status)
  /\ cpc' = [cpc EXCEPT ![t] = "disable_dds"]
  /\ UNCHANGED <<offered, registryVars, wpc, opc, readerVars>>

turnOffDds(t) ==
  /\ Runs
  /\ cpc[t] = "disable_dds"
  /\ dds' = TurnedOff
  /\ cpc' = [cpc EXCEPT ![t] = "enable_iox"]
  /\ UNCHANGED <<offered, registryVars, wpc, opc, iox, callbackVars>>

preferRemote(t) ==
  /\ Runs
  /\ cpc[t] = "decide" /\ NeedsDds
  /\ iox' = FALSE
  /\ cpc' = [cpc EXCEPT ![t] = "enable_dds"]
  /\ UNCHANGED <<offered, registryVars, wpc, opc, dds, callbackVars>>

noProvider(t) ==
  /\ Runs
  /\ cpc[t] = "decide" /\ ~hasLocalProvider(status) /\ ~NeedsDds
  /\ cpc' = [cpc EXCEPT ![t] = "return"]
  /\ UNCHANGED <<offered, registryVars, wpc, opc, readerVars>>

enableReader(t) ==
  /\ Runs
  /\ cpc[t] \in {"enable_iox", "enable_dds"}
  /\ iox' = (iox \/ cpc[t] = "enable_iox")
  /\ dds' = (dds \/ cpc[t] = "enable_dds")
  /\ cpc' = [cpc EXCEPT ![t] = "return"]
  /\ UNCHANGED <<offered, registryVars, wpc, opc, callbackVars>>

\* The observer returns and its caller releases the mutex.
observerReturns(t) ==
  /\ Runs
  /\ cpc[t] = "return"
  /\ cpc' = [cpc EXCEPT ![t] = "none"]
  /\ wpc' = IF t = "worker" THEN "idle" ELSE wpc
  /\ opc' = IF t = "owner" THEN "disable_iox" ELSE opc
  /\ UNCHANGED <<offered, registryVars, readerVars>>

-----------------------------------------------------------------------------
\* The owner's constructor.

\* Both readers are created enabled, without a callback.
createReaders ==
  /\ Runs
  /\ opc = "absent"
  /\ dds' = TRUE /\ iox' = TRUE
  /\ opc' = "observe"
  /\ UNCHANGED <<offered, registryVars, wpc, cpc, callbackVars>>

\* Mutants: an observer of a known service is called once and not registered;
\* the constructor goes on while its observer runs.
RegisteredIfUnknown == ~known
Registered == TRUE
GoesOn == "disable_iox"
WaitsForObserver == "observing"

(***************************************************************************)
(* The observer is registered, then called if the registry has an entry.   *)
(* m_registry_mutex is not taken: the entry is read as it is at the moment.*)
(***************************************************************************)
startObserveServiceStatus ==
  /\ Runs
  /\ opc = "observe"
  /\ ObserveFree
  /\ registered' = Registered
  /\ opc' = IF known THEN WaitsForObserver ELSE "disable_iox"
  /\ cpc' = [cpc EXCEPT !["owner"] = IF known THEN "decide" ELSE "none"]
  /\ UNCHANGED <<offered, known, status, message, wpc, readerVars>>

\* Or the read meets the worker inside the map and the process crashes.
readRace ==
  /\ died = "no"
  /\ (opc = "observe" /\ ObserveFree) \/ cpc["owner"] = "decide"
  /\ wpc = "write"
  /\ died' = "race"
  /\ UNCHANGED <<offered, registryVars, wpc, opc, cpc, readerVars>>

ownerStep(from, to) ==
  /\ Runs
  /\ opc = from
  /\ opc' = to
  /\ UNCHANGED <<offered, known, status, message, wpc, cpc>>

disableIox ==
  /\ ownerStep("disable_iox", "set_iox")
  /\ iox' = FALSE
  /\ UNCHANGED <<registered, dds, callbackVars>>

setIoxCallback ==
  /\ ownerStep("set_iox", "disable_dds")
  /\ ioxCallback' = TRUE
  /\ UNCHANGED <<registered, dds, iox, ddsCallback>>

disableDds ==
  /\ ownerStep("disable_dds", "set_dds")
  /\ dds' = FALSE
  /\ UNCHANGED <<registered, iox, callbackVars>>

setDdsCallback ==
  /\ ownerStep("set_dds", "live")
  /\ ddsCallback' = TRUE
  /\ UNCHANGED <<registered, dds, iox, ioxCallback>>

-----------------------------------------------------------------------------
\* The owner's destructor: the observer, then each reader's callback, then it.

\* Mutant: the observer is removed without its mutex.
MayStopAlways == TRUE
MayStop == ObserveFree

stopObserveServiceStatus ==
  /\ MayStop
  /\ ownerStep("live", "unset_iox")
  /\ registered' = FALSE
  /\ UNCHANGED readerVars

unsetIoxCallback ==
  /\ ownerStep("unset_iox", "stop_iox")
  /\ ioxCallback' = FALSE
  /\ UNCHANGED <<registered, dds, iox, ddsCallback>>

disableIoxInDtor ==
  /\ ownerStep("stop_iox", "unset_dds")
  /\ iox' = FALSE
  /\ UNCHANGED <<registered, dds, callbackVars>>

unsetDdsCallback ==
  /\ ownerStep("unset_dds", "stop_dds")
  /\ ddsCallback' = FALSE
  /\ UNCHANGED <<registered, dds, iox, ioxCallback>>

\* Mutant: the DDS reader loses its callback and stays enabled.
leaveDdsInDtor ==
  /\ ownerStep("stop_dds", "gone")
  /\ UNCHANGED <<registered, readerVars>>

disableDdsInDtor ==
  /\ ownerStep("stop_dds", "gone")
  /\ dds' = FALSE
  /\ UNCHANGED <<registered, iox, callbackVars>>

-----------------------------------------------------------------------------
ObserverStep(t) ==
  preferLocal(t) \/ turnOffDds(t) \/ preferRemote(t) \/ noProvider(t)
    \/ enableReader(t) \/ observerReturns(t)

WorkerStep == writeEntry \/ notifyUserCallback \/ ObserverStep("worker")

CtorStep ==
  startObserveServiceStatus \/ ObserverStep("owner")
    \/ disableIox \/ setIoxCallback \/ disableDds \/ setDdsCallback

DtorStep ==
  unsetIoxCallback \/ disableIoxInDtor \/ unsetDdsCallback \/ disableDdsInDtor

Next ==
  \/ \E p \in Provider : toggle(p) \/ receive(p)
  \/ WorkerStep
  \/ createReaders \/ CtorStep \/ readRace
  \/ stopObserveServiceStatus \/ DtorStep

Spec == Init /\ [][Next]_vars

-----------------------------------------------------------------------------
\* Type invariant of the registry entry, the threads and the readers.
TypeOK ==
  /\ offered \in SUBSET Provider
  /\ known \in BOOLEAN
  /\ status \in [StatusField -> SUBSET Provider]
  /\ message \in SUBSET ({"OFFER", "STOP_OFFER"} \X Provider)
  /\ (message # {}) = (wpc = "write")
  /\ wpc \in {"idle", "write", "notify", "observer"}
  /\ opc \in {"absent", "observe", "observing", "disable_iox", "set_iox",
              "disable_dds", "set_dds", "live",
              "unset_iox", "stop_iox", "unset_dds", "stop_dds", "gone"}
  /\ cpc \in [Thread -> {"none", "decide", "disable_dds", "enable_iox",
                        "enable_dds", "return"}]
  /\ cpc["worker"] # "none" <=> wpc = "observer"
  /\ cpc["owner"] # "none" <=> opc = "observing"
  /\ registered \in BOOLEAN
  /\ dds \in BOOLEAN /\ iox \in BOOLEAN
  /\ ioxCallback \in BOOLEAN /\ ddsCallback \in BOOLEAN
  /\ died \in {"no", "race", "bad_function_call", "use_after_free"}

(***************************************************************************)
(* A constructed subscriber never reads from both transports, so nothing   *)
(* is delivered twice: not while the two threads switch readers at once,   *)
(* not in its destructor (onServiceStatusChanged turns one reader off      *)
(* before it turns the other on).                                          *)
(***************************************************************************)
Destroying == opc \in {"unset_iox", "stop_iox", "unset_dds", "stop_dds", "gone"}
Constructed == opc = "live" \/ Destroying
OneTransport == Constructed => ~(dds /\ iox)

(***************************************************************************)
(* Once the destructor has stopped observing, no thread is inside the      *)
(* observer of the subscriber, and it leaves no reader enabled however the *)
(* last notification and the destructor interleave.                        *)
(***************************************************************************)
DestroyedIsQuiet ==
  /\ Destroying => ObserveFree
  /\ opc = "gone" => ~dds /\ ~iox

Live == opc = "live" /\ died = "no"

-----------------------------------------------------------------------------
\* What a comment of subscriber.h says.

(***************************************************************************)
(* "prefer read local message ... so we observe service status to check    *)
(* which transport should use": when the worker has nothing to do and the  *)
(* registry lists a local provider, a constructed subscriber reads iceoryx.*)
(***************************************************************************)
ReadsLocal == Live /\ wpc = "idle" /\ hasLocalProvider(status) => iox

=============================================================================
