------------------------------ MODULE MCServices ------------------------------
(* Small instances of the services of the core process, side by side, for    *)
(* safety and liveness: a behaviour exercises one of them and leaves the     *)
(* others at rest.                                                           *)
EXTENDS ArchiveQueue, DetectPool, HostPower, PeerSync, TLC

CONSTANTS ja, jx, jm

VARIABLE service   \* the service this behaviour exercises

servicesVars == <<service, archiveVars, detectVars, hostVars, peerVars>>

Jobs == {ja, jx, jm}
Limits == (ja :> 2) @@ (jx :> 1) @@ (jm :> 3)
Clips == (ja :> 1) @@ (jx :> 1) @@ (jm :> 3)

ServicesInit ==
  /\ service \in {"gate", "queue", "detect", "power", "peers"}
  /\ GateInit /\ QueueInit /\ DetectInit
  /\ PowerInit /\ PeerInit
  /\ service # "power" => ~ hostUp /\ ~ boxSingle

ServicesNext ==
  /\ UNCHANGED service
  /\ \/ service = "gate" /\ GateNext /\ UNCHANGED <<queueVars, detectVars, hostVars, peerVars>>
     \/ service = "queue" /\ ArchiveNext /\ UNCHANGED <<detectVars, hostVars, peerVars>>
     \/ service = "detect" /\ DetectNext /\ UNCHANGED <<archiveVars, hostVars, peerVars>>
     \/ service = "power" /\ PowerNext /\ UNCHANGED <<archiveVars, detectVars, peerVars>>
     \/ service = "peers" /\ PeerNext /\ UNCHANGED <<archiveVars, detectVars, hostVars>>

\* The fair actions of a service at rest are not enabled.
ServicesSpec ==
  /\ ServicesInit /\ [][ServicesNext]_servicesVars
  /\ GateFairness /\ ArchiveFairness /\ DetectFairness /\ PowerFairness
  /\ PeerFairness
-----------------------------------------------------------------------------
\* Every variable of every service stays in its range.
ServicesTypeOK ==
  GateTypeOK /\ QueueTypeOK /\ DetectTypeOK /\ PowerTypeOK /\ PeerTypeOK
=============================================================================
