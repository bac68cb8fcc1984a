----------------------------- MODULE MCDiscovery -----------------------------
(***************************************************************************)
(* Instances of Discovery for TLC.  The processes, hosts and clients of    *)
(* each instance are chosen by its .cfg.                                   *)
(***************************************************************************)
EXTENDS Discovery, TLC

CONSTANTS p1, p2, h1, h2, svc, svc2, skel, prox

\* p1 offers the service; p2, on another host, listens.
OneHostEach == p1 :> h1 @@ p2 :> h2
SkelProc == skel :> p1
SkelService == skel :> svc
SkelKind == skel :> "skeleton"

\* p1 offers one service and looks for another.
BothProc == skel :> p1 @@ prox :> p1
BothService == skel :> svc @@ prox :> svc2
BothKind == skel :> "skeleton" @@ prox :> "proxy"

\* What ExclusiveClients rules out: two clients of p1 for one service.
SameService == skel :> svc @@ prox :> svc

=============================================================================
