-------------------------------- MODULE MCCore --------------------------------
(* Small instances of the stores and bridges of the core process, side by    *)
(* side, for safety: a behaviour exercises one of them and leaves the        *)
(* others at rest.                                                           *)
EXTENDS CollectionArchive, ProjectSnapshot, HostPower, ResolveHandles,
        MediaBlobs, PeerSync, ProxyQueue, DiscordPresence, EditList, AgentTurns,
        CollectionShare

ASSUME OnePictureAssumption == 1 \in ShotSizes

VARIABLE instance  \* the one this behaviour exercises

coreVars == <<instance, collVars, snapVars, hostVars, vars, blobVars, peerVars, proxyVars, presenceVars, cutVars, agentVars, shareVars>>

\* A file of one picture that nobody cuts.
NoCut ==
  /\ movie = CopyOf(0, 1, {}, <<1>>, STEP, 1, 0, <<0, 0>>) /\ copied = movie
  /\ frames = 1 /\ gridded = FALSE /\ cut = FALSE

CoreInit ==
  /\ instance \in {"collection", "snapshot", "sends", "power", "handles", "blobs",
                  "peers", "proxies", "presence", "cuts", "agent", "share"}
  /\ CollInit /\ SnapInit /\ PowerInit /\ Init /\ BlobInit /\ PeerInit /\ ProxyInit
  /\ PresenceInit /\ AgentInit /\ ShareInit
  /\ opened = CHOOSE p \in HostProjects : TRUE
  /\ instance \notin {"sends", "power"} => ~ hostUp /\ ~ boxSingle
  /\ instance # "presence" => ~ enabled
  /\ instance # "share" => ranged = [s \in ShareShots |-> "new"]
  /\ permMode = "ask" /\ ~ duplicateFirst
  /\ IF instance = "cuts" THEN CutInit ELSE NoCut

\* The queue of sends under what the user and the poller do, and the operations
\* of the host with one send and nothing changed by hand (MCServices has changes).
SendsNext ==
  \/ BoxNext /\ UNCHANGED <<seen, powerVars, hostChanges>>
  \/ Poll \/ UserActs \/ CoreRestarts
OperationsNext ==
  PowerNext /\ UNCHANGED hostChanges /\ \A e \in SendIds : e > 1 => status'[e] = "none"

CoreNext ==
  /\ UNCHANGED instance
  /\ \/ instance = "collection" /\ CollNext /\ UNCHANGED <<snapVars, hostVars, vars, blobVars, peerVars, proxyVars, presenceVars, cutVars, agentVars, shareVars>>
     \/ instance = "snapshot" /\ SnapNext /\ UNCHANGED <<collVars, hostVars, vars, blobVars, peerVars, proxyVars, presenceVars, cutVars, agentVars, shareVars>>
     \/ instance = "sends" /\ SendsNext /\ UNCHANGED <<collVars, snapVars, vars, blobVars, peerVars, proxyVars, presenceVars, cutVars, agentVars, shareVars>>
     \/ instance = "power" /\ OperationsNext /\ UNCHANGED <<collVars, snapVars, vars, blobVars, peerVars, proxyVars, presenceVars, cutVars, agentVars, shareVars>>
     \/ instance = "handles" /\ Next /\ UNCHANGED <<collVars, snapVars, hostVars, blobVars, peerVars, proxyVars, presenceVars, cutVars, agentVars, shareVars>>
     \/ instance = "blobs" /\ BlobNext /\ UNCHANGED <<collVars, snapVars, hostVars, vars, peerVars, proxyVars, presenceVars, cutVars, agentVars, shareVars>>
     \/ instance = "peers" /\ PeerNext /\ UNCHANGED <<collVars, snapVars, hostVars, vars, blobVars, proxyVars, presenceVars, cutVars, agentVars, shareVars>>
     \/ instance = "proxies" /\ ProxyNext /\ UNCHANGED <<collVars, snapVars, hostVars, vars, blobVars, peerVars, presenceVars, cutVars, agentVars, shareVars>>
     \/ instance = "presence" /\ PresenceNext /\ UNCHANGED <<collVars, snapVars, hostVars, vars, blobVars, peerVars, proxyVars, cutVars, agentVars, shareVars>>
     \/ instance = "cuts" /\ CutNext /\ UNCHANGED <<collVars, snapVars, hostVars, vars, blobVars, peerVars, proxyVars, presenceVars, agentVars, shareVars>>
     \/ instance = "agent" /\ AgentNext /\ UNCHANGED <<collVars, snapVars, hostVars, vars, blobVars, peerVars, proxyVars, presenceVars, cutVars, shareVars>>
     \/ instance = "share" /\ ShareNext /\ UNCHANGED <<collVars, snapVars, hostVars, vars, blobVars, peerVars, proxyVars, presenceVars, cutVars, agentVars>>

CoreSpec == CoreInit /\ [][CoreNext]_coreVars
-----------------------------------------------------------------------------
\* Every variable of every part stays in its range.
CoreTypeOK ==
  CollTypeOK /\ SnapTypeOK /\ PowerTypeOK /\ TypeOK /\ BlobTypeOK
  /\ PeerTypeOK /\ ProxyTypeOK /\ PresenceTypeOK /\ CutTypeOK /\ AgentTypeOK /\ ShareTypeOK
===============================================================================
