---------------------------- MODULE ServiceStatus ----------------------------
(***************************************************************************)
(* What one process knows about one service: struct ServiceStatus of       *)
(* smw_core/include/service_status.h, and the effect one discovery message *)
(* has on it (the switch of                                                *)
(* ServiceRegistry::updateRegistryFromServiceDiscovery).                   *)
(*                                                                         *)
(* An entity stands for a ServiceEntityInfo, the pair (hostId, processId)  *)
(* of the process that sent the message.                                   *)
(***************************************************************************)

\* enum ServiceDiscoveryOperation.
AddOps == {"OFFER", "FIND"}
StopOps == {"STOP_OFFER", "STOP_FIND"}
Operation == AddOps \cup StopOps

\* The four std::set members of struct ServiceStatus.
StatusField ==
  {"localProviders", "remoteProviders", "localConsumers", "remoteConsumers"}

EmptyStatus == [f \in StatusField |-> {}]

\* The set a message is about: its operation picks providers or consumers, the
\* comparison of the sender's host id with getHostId() picks local or remote.
FieldOf(op, sameHost) ==
  IF op \in {"OFFER", "STOP_OFFER"}
    THEN IF sameHost THEN "localProviders" ELSE "remoteProviders"
    ELSE IF sameHost THEN "localConsumers" ELSE "remoteConsumers"

\* emplace for OFFER and FIND, erase for STOP_OFFER and STOP_FIND.
ApplyDiscovery(status, op, entity, sameHost) ==
  [status EXCEPT ![FieldOf(op, sameHost)] =
     IF op \in AddOps THEN @ \cup {entity} ELSE @ \ {entity}]

hasLocalConsumer(status)  == status["localConsumers"] # {}
hasRemoteConsumer(status) == status["remoteConsumers"] # {}
hasLocalProvider(status)  == status["localProviders"] # {}
hasRemoteProvider(status) == status["remoteProviders"] # {}

=============================================================================
