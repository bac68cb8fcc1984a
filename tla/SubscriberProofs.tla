--------------------------- MODULE SubscriberProofs ---------------------------
(***************************************************************************)
(* Theorems about Subscriber, for any providers on any hosts: it reads     *)
(* from one transport at a time, and is quiet once it is destroyed,        *)
(* however its owner and the discovery worker interleave.                  *)
(***************************************************************************)
EXTENDS Subscriber, TLAPS

-----------------------------------------------------------------------------
\* What the two threads leave to each other.

\* One thread at a time is inside the observer.
OneInside == cpc["owner"] = "none" \/ cpc["worker"] = "none"

\* Nobody is inside before it is registered and after it is removed.
Unregistered == opc \in {"absent", "observe"} \/ Destroying
InsideInv == Unregistered => ~registered /\ ObserveFree

\* Whoever is about to turn a reader on has turned the other one off.
SwitchInv ==
  \A t \in Thread :
    /\ cpc[t] = "enable_iox" => ~dds
    /\ cpc[t] = "enable_dds" => ~iox

\* From the constructor's first disable() on the two are never both enabled.
IoxWasOff == opc \in {"set_iox", "disable_dds", "set_dds"} \/ Constructed
ReadersInv ==
  /\ IoxWasOff => ~(dds /\ iox)
  /\ opc \in {"unset_dds", "stop_dds", "gone"} => ~iox
  /\ opc = "gone" => ~dds

SubInv == TypeOK /\ OneInside /\ InsideInv /\ SwitchInv /\ ReadersInv

LEMMA ApplyType ==
  ASSUME NEW s \in [StatusField -> SUBSET Provider], NEW op, NEW p \in Provider, NEW local
  PROVE  ApplyDiscovery(s, op, p, local) \in [StatusField -> SUBSET Provider]
BY DEF ApplyDiscovery, StatusField, FieldOf

LEMMA InitSub == Init => SubInv
<1>1. EmptyStatus \in [StatusField -> SUBSET Provider]
  BY DEF EmptyStatus
<1> QED
  BY <1>1
  DEF Init, SubInv, TypeOK, OneInside, InsideInv, Unregistered, Destroying, ObserveFree,
      SwitchInv, ReadersInv, IoxWasOff, Constructed, Thread, callbackVars

(***************************************************************************)
(* A step of the registry's worker, of an observer, or of the owner.       *)
(***************************************************************************)
LEMMA SubStep == SubInv /\ [Next]_vars => SubInv'
<1> SUFFICES ASSUME SubInv, [Next]_vars PROVE SubInv'
  OBVIOUS
<1> USE DEF SubInv, TypeOK, OneInside, InsideInv, Unregistered, Destroying, ObserveFree,
            SwitchInv, ReadersInv, IoxWasOff, Constructed, Thread,
            Runs, registryVars, callbackVars, readerVars
<1>1. ASSUME NEW p \in Provider, toggle(p) PROVE SubInv'
  BY <1>1 DEF toggle
<1>2. ASSUME NEW p \in Provider, receive(p) PROVE SubInv'
  BY <1>2 DEF receive
<1>3. CASE writeEntry
  <2>1. PICK m \in message : status' = ApplyDiscovery(status, m[1], m[2], m[2] \in LocalProvider)
    BY <1>3 DEF writeEntry
  <2>2. m[2] \in Provider
    OBVIOUS
  <2>3. status' \in [StatusField -> SUBSET Provider]
    BY <2>1, <2>2, ApplyType
  <2> QED
    BY <1>3, <2>3 DEF writeEntry
<1>4. CASE notifyUserCallback
  BY <1>4 DEF notifyUserCallback
<1>5. ASSUME NEW t \in Thread, preferLocal(t) PROVE SubInv'
  BY <1>5 DEF preferLocal
<1>6. ASSUME NEW t \in Thread, turnOffDds(t) PROVE SubInv'
  BY <1>6 DEF turnOffDds, TurnedOff
<1>7. ASSUME NEW t \in Thread, preferRemote(t) PROVE SubInv'
  BY <1>7 DEF preferRemote
<1>8. ASSUME NEW t \in Thread, noProvider(t) PROVE SubInv'
  BY <1>8 DEF noProvider
<1>9. ASSUME NEW t \in Thread, enableReader(t) PROVE SubInv'
  BY <1>9 DEF enableReader
<1>10. ASSUME NEW t \in Thread, observerReturns(t) PROVE SubInv'
  BY <1>10 DEF observerReturns
<1>11. CASE createReaders
  BY <1>11 DEF createReaders
<1>12. CASE startObserveServiceStatus
  BY <1>12 DEF startObserveServiceStatus, Registered, WaitsForObserver
<1>13. CASE readRace
  BY <1>13 DEF readRace
<1>14. CASE disableIox
  BY <1>14 DEF disableIox, ownerStep
<1>15. CASE setIoxCallback
  BY <1>15 DEF setIoxCallback, ownerStep
<1>16. CASE disableDds
  BY <1>16 DEF disableDds, ownerStep
<1>17. CASE setDdsCallback
  BY <1>17 DEF setDdsCallback, ownerStep
<1>18. CASE stopObserveServiceStatus
  BY <1>18 DEF stopObserveServiceStatus, ownerStep, MayStop
<1>19. CASE unsetIoxCallback
  BY <1>19 DEF unsetIoxCallback, ownerStep
<1>20. CASE disableIoxInDtor
  BY <1>20 DEF disableIoxInDtor, ownerStep
<1>21. CASE unsetDdsCallback
  BY <1>21 DEF unsetDdsCallback, ownerStep
<1>22. CASE disableDdsInDtor
  BY <1>22 DEF disableDdsInDtor, ownerStep
<1>23. CASE UNCHANGED vars
  BY <1>23 DEF vars
<1> QED
  BY <1>1, <1>2, <1>3, <1>4, <1>5, <1>6, <1>7, <1>8, <1>9, <1>10, <1>11, <1>12,
     <1>13, <1>14, <1>15, <1>16, <1>17, <1>18, <1>19, <1>20, <1>21, <1>22, <1>23
  DEF Next, WorkerStep, ObserverStep, CtorStep, DtorStep

LEMMA SubAlways == Spec => []SubInv
BY InitSub, SubStep, PTL DEF Spec

\* Types of the registry entry, the two threads and the two readers.
THEOREM SubscriberTypes == Spec => []TypeOK
<1>1. SubInv => TypeOK
  BY DEF SubInv
<1> QED
  BY <1>1, SubAlways, PTL

(***************************************************************************)
(* A constructed subscriber has at most one of its readers enabled: what   *)
(* is published once is not delivered twice.                               *)
(***************************************************************************)
THEOREM OneTransportAlways == Spec => []OneTransport
<1>1. SubInv => OneTransport
  BY DEF SubInv, ReadersInv, IoxWasOff, OneTransport
<1> QED
  BY <1>1, SubAlways, PTL

(***************************************************************************)
(* A subscriber that is being destroyed is not observing, and leaves both  *)
(* readers disabled.                                                       *)
(***************************************************************************)
THEOREM DestroyedIsQuietAlways == Spec => []DestroyedIsQuiet
<1>1. SubInv => DestroyedIsQuiet
  BY DEF SubInv, InsideInv, Unregistered, ReadersInv, DestroyedIsQuiet
<1> QED
  BY <1>1, SubAlways, PTL

=============================================================================
