-------------------------- MODULE Composition_proofs --------------------------
(*****************************************************************************)
(* The joined models: what every part keeps alone it keeps beside the others.*)
(*                                                                           *)
(* A step of the joined model is a step of one part and leaves the variables *)
(* of the others, so each part behaves as its own specification says         *)
(* (ServicesRunAsAlone, PartsRunAsAlone) and the theorems about the parts    *)
(* carry over.  The queue of archives is more than that: its model kills the *)
(* core with encodes under way, which the gate alone does not, and the       *)
(* invariant of the gate has to survive it (GatesStep).                      *)
(*****************************************************************************)
EXTENDS MCServices, MCCore, Connections_proofs, Files_proofs, HostAccess_proofs,
        Schedulers_proofs, Sessions_proofs, TLAPS

-----------------------------------------------------------------------------
\* A core that is started again finds its gate as it was first.
LEMMA KilledGate == CoreKilled => GateInit'
BY DEF CoreKilled, GateInit

\* The steps of the queue are steps of the gate, kills apart.
LEMMA QueueMovesGate ==
  ASSUME [ArchiveNext]_archiveVars, ~ CoreKilled
  PROVE  [GateNext]_gateVars
<1>1. CASE UNCHANGED archiveVars
  BY <1>1 DEF archiveVars
<1>2. ASSUME NEW c, NEW mode, EnqueueArchive(c, mode) PROVE UNCHANGED gateVars
  BY <1>2 DEF EnqueueArchive
<1>3. ASSUME NEW id, CancelEntry(id) PROVE UNCHANGED gateVars
  BY <1>3 DEF CancelEntry
<1>4. ASSUME NEW result, ArchiveReturns(result) PROVE UNCHANGED gateVars
  BY <1>4 DEF ArchiveReturns
<1>5. CASE TimerFires
  BY <1>5 DEF TimerFires
<1>6. CASE ArchiveRenders
  <2>1. StartExport(ArchiveJob) /\ ArchiveJob \in GateJobs
    BY <1>6, QueueAssumption DEF ArchiveRenders
  <2> QED  BY <2>1 DEF GateNext
<1>7. CASE OtherExport
  <2>1. OtherJobs \cup {ArchiveJob} \subseteq GateJobs
    BY QueueAssumption
  <2> QED  BY <1>7, <2>1 DEF OtherExport, GateNext
<1> QED  BY <1>1, <1>2, <1>3, <1>4, <1>5, <1>6, <1>7 DEF ArchiveNext

GateHolds == GateInv /\ CrewInv

LEMMA GatesStart == GateInit => GateHolds
BY InitGates, CrewStart DEF GateHolds

LEMMA GateHoldsStep == GateHolds /\ [GateNext]_gateVars => GateHolds'
BY GateStep, CrewStep DEF GateHolds

LEMMA GatesStep == GateHolds /\ [ArchiveNext]_archiveVars => GateHolds'
<1>1. CoreKilled => GateHolds'
  <2>1. (GateInit => GateHolds)'
    BY GatesStart, PTL
  <2> QED  BY <2>1, KilledGate
<1>2. GateHolds /\ [ArchiveNext]_archiveVars /\ ~ CoreKilled => GateHolds'
  BY QueueMovesGate, GateHoldsStep
<1> QED  BY <1>1, <1>2

LEMMA GateTypesHold == GateHolds => GateTypeOK
BY DEF GateHolds, GateInv, GateTypes, CrewInv, GateTypeOK

\* The slots of the gate stay exact when archives go through it, whatever exports
\* run beside them, and when the core is killed with encodes under way: nothing of
\* an earlier life counts (core/archiveQueue.js over core/export/gate.js).
THEOREM SlotsSurviveKills == ArchiveSpec => []SlotsAreExact
<1>1. GateHolds => SlotsAreExact
  BY DEF GateHolds, GateInv
<1> QED  BY <1>1, GatesStart, GatesStep, PTL DEF ArchiveSpec
-----------------------------------------------------------------------------
\* What a step of the joined services is to each of them.
LEMMA ServicesSteps ==
  ASSUME [ServicesNext]_servicesVars
  PROVE  /\ [ArchiveNext]_archiveVars \/ ([GateNext]_gateVars /\ UNCHANGED queueVars)
         /\ [DetectNext]_detectVars
         /\ [PowerNext]_hostVars
         /\ [PeerNext]_peerVars
<1>1. CASE UNCHANGED servicesVars
  BY <1>1 DEF servicesVars
<1>2. CASE service = "gate" /\ GateNext /\ UNCHANGED <<queueVars, detectVars, hostVars, peerVars>>
  BY <1>2
<1>3. CASE service = "queue" /\ ArchiveNext /\ UNCHANGED <<detectVars, hostVars, peerVars>>
  BY <1>3
<1>4. CASE service = "detect" /\ DetectNext /\ UNCHANGED <<archiveVars, hostVars, peerVars>>
  BY <1>4
<1>5. CASE service = "power" /\ PowerNext /\ UNCHANGED <<archiveVars, detectVars, peerVars>>
  BY <1>5
<1>6. CASE service = "peers" /\ PeerNext /\ UNCHANGED <<archiveVars, detectVars, hostVars>>
  BY <1>6
<1> QED  BY <1>1, <1>2, <1>3, <1>4, <1>5, <1>6 DEF ServicesNext

\* Beside the others each service does what it does alone, with the same fairness:
\* their theorems hold of the joined model.
THEOREM ServicesRunAsAlone == ServicesSpec => DetectSpec /\ PowerSpec /\ PeerSpec
<1>1. ServicesInit => DetectInit /\ PowerInit /\ PeerInit
  BY DEF ServicesInit
<1>2. [ServicesNext]_servicesVars =>
        [DetectNext]_detectVars /\ [PowerNext]_hostVars /\ [PeerNext]_peerVars
  BY ServicesSteps
<1> QED  BY <1>1, <1>2, PTL DEF ServicesSpec, DetectSpec, PowerSpec, PeerSpec

\* The gate and the queue of archives, of which a behaviour exercises either.
GateAndQueue == GateHolds /\ ArchivesInv

LEMMA GateAndQueueHold == ServicesSpec => []GateAndQueue
<1>1. ServicesInit => GateAndQueue
  BY GatesStart, ArchivesStart, QueueAssumption DEF ServicesInit, GateAndQueue
<1>2. GateAndQueue /\ [ServicesNext]_servicesVars => GateAndQueue'
  <2> SUFFICES ASSUME GateAndQueue, [ServicesNext]_servicesVars PROVE GateAndQueue'
    OBVIOUS
  <2>1. GateHolds /\ ArchivesInv
    BY DEF GateAndQueue
  <2>2. CASE [ArchiveNext]_archiveVars
    BY <2>1, <2>2, GatesStep, ArchivesStep, QueueAssumption DEF GateAndQueue
  <2>3. CASE [GateNext]_gateVars /\ UNCHANGED queueVars
    <3>1. GateHolds'
      BY <2>1, <2>3, GateHoldsStep
    <3>2. ArchivesInv'
      BY <2>1, <2>3 DEF queueVars, ArchivesInv
    <3> QED  BY <3>1, <3>2 DEF GateAndQueue
  <2> QED  BY <2>2, <2>3, ServicesSteps
<1> QED  BY <1>1, <1>2, PTL DEF ServicesSpec

\* Every variable of every service of the joined model stays in its range, kills of
\* the core included.
THEOREM ServicesTypes == ServicesSpec => []ServicesTypeOK
<1>1. GateAndQueue => GateTypeOK /\ QueueTypeOK
  <2>1. ArchivesInv => QueueTypeOK
    BY DEF ArchivesInv, Queue, QueueTypeOK
  <2> QED  BY <2>1, GateTypesHold DEF GateAndQueue
<1> QED
  BY <1>1, GateAndQueueHold, ServicesRunAsAlone, DetectTypes, PowerTypes, PeerTypes, PTL
     DEF ServicesTypeOK

\* What a service keeps alone it keeps beside the others: slots are counted, a
\* daemon serves who holds it, announced sends and archives stay announced, and
\* writers end equal.
THEOREM ServicesStaySafe ==
  ServicesSpec => [](SlotsAreExact /\ QueueNeverSleeps /\ DaemonsServeTheirHolder
                     /\ SendsAreKept /\ WritersFinishEqual)
<1>1. GateAndQueue => SlotsAreExact /\ QueueNeverSleeps
  BY ArchivesStayAwake DEF GateAndQueue, GateHolds, GateInv
<1> QED
  BY <1>1, GateAndQueueHold, ServicesRunAsAlone, EveryDaemonServesItsHolder, AnnouncedSendsAreKept,
     WritersEqual, PTL
-----------------------------------------------------------------------------
\* The stores and bridges.  What their model takes of the host is part of what the
\* user, the poller and the operations do.
LEMMA HostSteps == SendsNext \/ OperationsNext => PowerNext
BY Zenon DEF SendsNext, OperationsNext, PowerNext

\* What a step of the joined stores and bridges is to each of them.
LEMMA CoreSteps ==
  ASSUME [CoreNext]_coreVars
  PROVE  /\ [CollNext]_collVars /\ [SnapNext]_snapVars /\ [PowerNext]_hostVars /\ [Next]_vars
         /\ [BlobNext]_blobVars /\ [PeerNext]_peerVars /\ [ProxyNext]_proxyVars
         /\ [PresenceNext]_presenceVars /\ [CutNext]_cutVars /\ [AgentNext]_agentVars
         /\ [ShareNext]_shareVars
<1>1. CASE UNCHANGED coreVars
  BY <1>1 DEF coreVars
<1>2. CASE instance = "collection" /\ CollNext
          /\ UNCHANGED <<snapVars, hostVars, vars, blobVars, peerVars, proxyVars,
                         presenceVars, cutVars, agentVars, shareVars>>
  BY <1>2
<1>3. CASE instance = "snapshot" /\ SnapNext
          /\ UNCHANGED <<collVars, hostVars, vars, blobVars, peerVars, proxyVars,
                         presenceVars, cutVars, agentVars, shareVars>>
  BY <1>3
<1>4. CASE instance = "sends" /\ SendsNext
          /\ UNCHANGED <<collVars, snapVars, vars, blobVars, peerVars, proxyVars,
                         presenceVars, cutVars, agentVars, shareVars>>
  BY <1>4, HostSteps
<1>5. CASE instance = "power" /\ OperationsNext
          /\ UNCHANGED <<collVars, snapVars, vars, blobVars, peerVars, proxyVars,
                         presenceVars, cutVars, agentVars, shareVars>>
  BY <1>5, HostSteps
<1>6. CASE instance = "handles" /\ Next
          /\ UNCHANGED <<collVars, snapVars, hostVars, blobVars, peerVars, proxyVars,
                         presenceVars, cutVars, agentVars, shareVars>>
  BY <1>6
<1>7. CASE instance = "blobs" /\ BlobNext
          /\ UNCHANGED <<collVars, snapVars, hostVars, vars, peerVars, proxyVars,
                         presenceVars, cutVars, agentVars, shareVars>>
  BY <1>7
<1>8. CASE instance = "peers" /\ PeerNext
          /\ UNCHANGED <<collVars, snapVars, hostVars, vars, blobVars, proxyVars,
                         presenceVars, cutVars, agentVars, shareVars>>
  BY <1>8
<1>9. CASE instance = "proxies" /\ ProxyNext
          /\ UNCHANGED <<collVars, snapVars, hostVars, vars, blobVars, peerVars,
                         presenceVars, cutVars, agentVars, shareVars>>
  BY <1>9
<1>10. CASE instance = "presence" /\ PresenceNext
          /\ UNCHANGED <<collVars, snapVars, hostVars, vars, blobVars, peerVars,
                         proxyVars, cutVars, agentVars, shareVars>>
  BY <1>10
<1>11. CASE instance = "cuts" /\ CutNext
          /\ UNCHANGED <<collVars, snapVars, hostVars, vars, blobVars, peerVars,
                         proxyVars, presenceVars, agentVars, shareVars>>
  BY <1>11
<1>12. CASE instance = "agent" /\ AgentNext
          /\ UNCHANGED <<collVars, snapVars, hostVars, vars, blobVars, peerVars,
                         proxyVars, presenceVars, cutVars, shareVars>>
  BY <1>12
<1>13. CASE instance = "share" /\ ShareNext
          /\ UNCHANGED <<collVars, snapVars, hostVars, vars, blobVars, peerVars,
                         proxyVars, presenceVars, cutVars, agentVars>>
  BY <1>13
<1> QED
  BY <1>1, <1>2, <1>3, <1>4, <1>5, <1>6, <1>7, <1>8, <1>9, <1>10, <1>11, <1>12, <1>13, Zenon DEF CoreNext

\* Beside the others each store and each bridge does what it does alone: their
\* theorems hold of the joined model.
THEOREM PartsRunAsAlone ==
  CoreSpec => /\ CollSpec /\ SnapSpec /\ Spec /\ BlobSpec
              /\ ProxySpec /\ PresenceSpec /\ AgentSpec /\ ShareSpec
<1>1. CoreInit => /\ CollInit /\ SnapInit /\ Init /\ BlobInit
                  /\ ProxyInit /\ PresenceInit /\ AgentInit /\ ShareInit
  BY DEF CoreInit
<1>2. [CoreNext]_coreVars =>
        /\ [CollNext]_collVars /\ [SnapNext]_snapVars /\ [Next]_vars /\ [BlobNext]_blobVars
        /\ [ProxyNext]_proxyVars /\ [PresenceNext]_presenceVars /\ [AgentNext]_agentVars
        /\ [ShareNext]_shareVars
  BY CoreSteps
<1> QED
  BY <1>1, <1>2, PTL
     DEF CoreSpec, CollSpec, SnapSpec, Spec, BlobSpec, ProxySpec, PresenceSpec, AgentSpec, ShareSpec

\* A file of one picture is a copy like any other.
LEMMA NoCutStart == NoCut => CutInv
<1> SUFFICES ASSUME NoCut PROVE CutInv
  OBVIOUS
<1>1. /\ movie = CopyOf(0, 1, {}, <<1>>, STEP, 1, 0, <<0, 0>>) /\ copied = movie
      /\ frames = 1 /\ gridded = FALSE /\ cut = FALSE
  BY DEF NoCut
<1>2. IsFiniteSet({}) /\ Cardinality({}) = 0 /\ {} \in SUBSET (Nat \ {0})
  BY FS_EmptySet
<1>3. <<1>> \in Reorders(0 + 1 + Cardinality({}))
  <2>1. <<1>> \in [1 .. 1 -> 1 .. 1] /\ <<1>>[1] = 1
    OBVIOUS
  <2>2. \A i \in 1 .. 1 : <<1>>[i] - i \in -2 .. 2
    BY <2>1
  <2>3. IsInjective(<<1>>)
    BY <2>1 DEF IsInjective
  <2>4. <<1>> \in Reorders(1)
    BY <2>1, <2>2, <2>3 DEF Reorders
  <2>5. 0 + 1 + Cardinality({}) = 1
    BY <1>2
  <2> QED  BY <2>4, <2>5
<1>4. STEP \in Nat \ {0} /\ 1 \in 1 .. STEP
  BY CutAssumption
<1>5. <<0, 0>> \in [1 .. 2 -> Nat]
  OBVIOUS
<1>6. IsCopy(movie)
  BY <1>1, <1>2, <1>3, <1>4, <1>5, CopiesAreSuch
<1> QED  BY <1>1, <1>6, OnePictureAssumption DEF CutInv

\* The parts of which a behaviour takes less than they do alone, or which are fair
\* alone: the host, the exchanges with the peers and the cuts.
HostPeersAndCuts == SendsInv /\ PowerInv /\ PeerInv /\ CutInv

LEMMA HostPeersAndCutsHold == CoreSpec => []HostPeersAndCuts
<1>1. CoreInit => HostPeersAndCuts
  <2> SUFFICES ASSUME CoreInit PROVE HostPeersAndCuts
    OBVIOUS
  <2>1. PowerInit /\ PeerInit /\ (CutInit \/ NoCut)
    BY DEF CoreInit
  <2>2. SendsInv
    BY <2>1, SendsInit, OutboxAssumption DEF PowerInit
  <2>3. PowerInv /\ PeerInv
    BY <2>1, PowerStart, PowerAssumption, PeerInvInit
  <2>4. CutInv
    BY <2>1, CutStart, NoCutStart
  <2> QED  BY <2>2, <2>3, <2>4 DEF HostPeersAndCuts
<1>2. HostPeersAndCuts /\ [CoreNext]_coreVars => HostPeersAndCuts'
  <2> SUFFICES ASSUME HostPeersAndCuts, [CoreNext]_coreVars PROVE HostPeersAndCuts'
    OBVIOUS
  <2>1. SendsInv /\ PowerInv /\ PeerInv /\ CutInv
    BY DEF HostPeersAndCuts
  <2>2. [PowerNext]_hostVars /\ [PeerNext]_peerVars /\ [CutNext]_cutVars
    BY CoreSteps
  <2>3. SendsInv'
    BY <2>1, <2>2, SendsStep, OutboxAssumption
  <2>4. PowerInv' /\ PeerInv' /\ CutInv'
    BY <2>1, <2>2, <2>3, PowerInvStep, PowerAssumption, PeerInvStep, CutStep
  <2> QED  BY <2>3, <2>4 DEF HostPeersAndCuts
<1> QED  BY <1>1, <1>2, PTL DEF CoreSpec

\* Every variable of every store and bridge of the joined model stays in its range,
\* while the calls for the collection come one after the other.
THEOREM CoreTypes == CoreSpec /\ []OneCall => []CoreTypeOK
<1>1. HostPeersAndCuts => PowerTypeOK /\ PeerTypeOK /\ CutTypeOK
  BY PowerInvTypes, PeerInvTypes, CutInvTypes DEF HostPeersAndCuts
<1>2. AgentSpec => []AgentTypeOK
  <2>1. AgentInv => AgentTypeOK
    BY DEF AgentInv
  <2> QED  BY <2>1, AgentInvInit, AgentInvStep, PTL DEF AgentSpec
<1>3. ShareSpec => []ShareTypeOK
  <2>1. ShareInv => ShareTypeOK
    BY DEF ShareInv
  <2> QED  BY <2>1, ShareInvInit, ShareInvStep, PTL DEF ShareSpec
<1> QED
  BY <1>1, <1>2, <1>3, HostPeersAndCutsHold, PartsRunAsAlone, CollectionTypes, SnapshotTypes,
     HandleTypes, BlobTypes, ProxyTypes, PresenceStaysTyped, PTL
     DEF CoreTypeOK

\* What a store or a bridge keeps alone it keeps beside the others: announced sends
\* stay announced, callers get their own answers, writers end equal, preview requests
\* are served, the presence follows the user, cuts are exact, tools run as agreed,
\* both sides of a sharing agree, what was captured is complete and what is
\* referenced is kept.
THEOREM CoreStaysSafe ==
  CoreSpec =>
    /\ [](SendsAreKept /\ AnswersMatch /\ WritersFinishEqual /\ RequestsAreServed
         /\ PresenceIsHonest /\ CutsAreExact /\ ToolsRunAsAgreed /\ SharesAgree)
    /\ ACaptureIsComplete /\ ReferencedIsKept
<1>1. HostPeersAndCuts => SendsAreKept /\ WritersFinishEqual /\ CutsAreExact
  BY PeerInvEqual, CutInvExact DEF HostPeersAndCuts, SendsInv
<1> QED
  BY <1>1, HostPeersAndCutsHold, PartsRunAsAlone, AnswersAreToTheirCalls, RequestsStayServed,
     PresenceFollowsTheUser, AgentsRunWhatWasAgreed, SharesStayInAgreement,
     ACaptureThatReturnsIsComplete, NothingReferencedIsCollected, PTL
===============================================================================
