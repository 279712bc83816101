------------------------------- MODULE PeerSync -------------------------------
(***************************************************************************)
(* The exchange of a project's document between devices, without a server   *)
(* (src-tauri/src/collab/net.rs).  After an edit a writer asks for one      *)
(* exchange with each peer: the caller sends its version, the peer answers  *)
(* with what the caller lacks and its own version, the caller merges that   *)
(* and sends what the peer lacks, and leaves.  One worker per peer; edits   *)
(* during its exchange ask for one trailing pass.                           *)
(*                                                                          *)
(* A document is the set of edits it holds; a version says which they are.  *)
(* What is received from a peer that may not write is refused, whoever made *)
(* the edits.                                                               *)
(***************************************************************************)
EXTENDS Naturals, FiniteSets

CONSTANTS
  Peers,         \* devices of the project, of different accounts
  CanWrite,      \* those whose role lets them write
  MaxPeerEdits,  \* bound: edits made
  MaxNetFaults   \* bound: exchanges cut, last frames lost

ASSUME PeerAssumption ==
  CanWrite \subseteq Peers /\ MaxPeerEdits \in Nat /\ MaxNetFaults \in Nat

VARIABLES
  docs,        \* docs[p]: the edits p's document holds
  peerEdits,   \* edits made so far
  requests,    \* SYNC_REQUESTS: absent, "once", or "again" for a trailing pass
  exchange,    \* the exchange of each worker
  lastFrames,  \* what callers sent before they left, not yet read by the peer
  missed,      \* history: pairs whose latest exchange was cut or lost its last frame
  netFaults

peerVars == <<docs, peerEdits, requests, exchange, lastFrames, missed, netFaults>>
-----------------------------------------------------------------------------
Pairs == {pq \in Peers \X Peers : pq[1] # pq[2]}
NoExchange == [at |-> "none"]
AtStep(pq, s) == exchange[pq].at = s

PeerInit ==
  /\ docs = [p \in Peers |-> {}] /\ peerEdits = 0
  /\ requests = [pq \in Pairs |-> "absent"]
  /\ exchange = [pq \in Pairs |-> NoExchange]
  /\ lastFrames = {} /\ missed = {} /\ netFaults = 0

\* Mutation: a worker that runs is not told of the new edit.
RequestedSyncOnce(r) == IF r = "absent" THEN "once" ELSE r

\* request_sync: a worker that runs is asked for one more pass.
RequestedSync(r) == IF r = "absent" THEN "once" ELSE "again"

\* A writer edits: Command::Apply asks for an exchange with every peer.
PeerEdits(p) ==
  /\ p \in CanWrite /\ peerEdits < MaxPeerEdits
  /\ peerEdits' = peerEdits + 1
  /\ docs' = [docs EXCEPT ![p] = @ \cup {peerEdits'}]
  /\ requests' = [pq \in Pairs |-> IF pq[1] = p THEN RequestedSync(requests[pq]) ELSE requests[pq]]
  /\ exchange' = [pq \in Pairs |->
       IF pq[1] = p /\ requests[pq] = "absent" THEN [at |-> "begun"] ELSE exchange[pq]]
  /\ UNCHANGED <<lastFrames, missed, netFaults>>

\* The caller's version is sent.
AskPeer(pq) ==
  /\ AtStep(pq, "begun")
  /\ exchange' = [exchange EXCEPT ![pq] = [at |-> "asked", version |-> docs[pq[1]]]]
  /\ UNCHANGED <<docs, peerEdits, requests, lastFrames, missed, netFaults>>

\* serve_sync: the difference, and the peer's own version.
AnswerPeer(pq) ==
  /\ AtStep(pq, "asked")
  /\ exchange' = [exchange EXCEPT ![pq] =
       [at |-> "answered", updates |-> docs[pq[2]] \ exchange[pq].version,
        version |-> docs[pq[2]]]]
  /\ UNCHANGED <<docs, peerEdits, requests, lastFrames, missed, netFaults>>

\* What the actor accepts from a peer: nothing of one that may not write.
Merged(p, from, updates) ==
  IF from \in CanWrite THEN docs[p] \cup updates ELSE docs[p]
Refused(from, updates) == updates # {} /\ from \notin CanWrite

\* accept_inbound of the answer.
AcceptAnswer(pq) ==
  /\ AtStep(pq, "answered") /\ ~ Refused(pq[2], exchange[pq].updates)
  /\ docs' = [docs EXCEPT ![pq[1]] = Merged(pq[1], pq[2], exchange[pq].updates)]
  /\ exchange' = [exchange EXCEPT ![pq] = [at |-> "accepted", version |-> @.version]]
  /\ UNCHANGED <<peerEdits, requests, lastFrames, missed, netFaults>>

\* Mutation: no pass trails.
WorkerEnds(pq, succeeded) ==
  /\ requests' = [requests EXCEPT ![pq] = "absent"]
  /\ exchange' = [exchange EXCEPT ![pq] = NoExchange]

\* The worker's loop after an exchange: the trailing pass, if it was asked for
\* and the exchange succeeded.
WorkerContinues(pq, succeeded) ==
  LET again == succeeded /\ requests[pq] = "again" IN
  /\ requests' = [requests EXCEPT ![pq] = IF again THEN "once" ELSE "absent"]
  /\ exchange' = [exchange EXCEPT ![pq] = IF again THEN [at |-> "begun"] ELSE NoExchange]

\* What the peer lacks now is sent.
Push(pq) ==
  /\ AtStep(pq, "accepted")
  /\ lastFrames' = lastFrames \cup
       {[pair |-> pq, updates |-> docs[pq[1]] \ exchange[pq].version]}
  /\ exchange' = [exchange EXCEPT ![pq] = [at |-> "sent"]]
  /\ missed' = missed \ {pq}
  /\ UNCHANGED <<docs, peerEdits, requests, netFaults>>

\* The stream is finished and the connection closed.
Close(pq) ==
  /\ AtStep(pq, "sent")
  /\ WorkerContinues(pq, TRUE)
  /\ UNCHANGED <<docs, peerEdits, lastFrames, missed, netFaults>>

\* The answer is refused by the caller's own actor: the exchange fails.
AnswerRefused(pq) ==
  /\ AtStep(pq, "answered") /\ Refused(pq[2], exchange[pq].updates)
  /\ WorkerContinues(pq, FALSE)
  /\ UNCHANGED <<docs, peerEdits, lastFrames, missed, netFaults>>

\* The peer is unreachable, or does not answer in time; what was sent last may
\* be lost with the connection.
ExchangeCut(pq) ==
  /\ netFaults < MaxNetFaults /\ netFaults' = netFaults + 1
  /\ exchange[pq] # NoExchange
  /\ WorkerContinues(pq, FALSE)
  /\ missed' = missed \cup {pq}
  /\ lastFrames' \in {lastFrames, {f \in lastFrames : f.pair # pq}}
  /\ UNCHANGED <<docs, peerEdits>>

\* The peer reads the last frame; it refuses one of a caller that may not write.
ServeLastFrame(f) ==
  /\ f \in lastFrames
  /\ lastFrames' = lastFrames \ {f}
  /\ docs' = [docs EXCEPT ![f.pair[2]] = Merged(f.pair[2], f.pair[1], f.updates)]
  /\ UNCHANGED <<peerEdits, requests, exchange, missed, netFaults>>

\* The connection is closed before the last frame has arrived.
LastFrameLost(f) ==
  /\ netFaults < MaxNetFaults /\ netFaults' = netFaults + 1
  /\ f \in lastFrames
  /\ lastFrames' = lastFrames \ {f}
  /\ missed' = missed \cup {f.pair}
  /\ UNCHANGED <<docs, peerEdits, requests, exchange>>

PeerNext ==
  \/ \E p \in Peers : PeerEdits(p)
  \/ \E pq \in Pairs :
       \/ AskPeer(pq) \/ AnswerPeer(pq) \/ AcceptAnswer(pq) \/ AnswerRefused(pq)
       \/ Push(pq) \/ Close(pq) \/ ExchangeCut(pq)
  \/ \E f \in lastFrames : ServeLastFrame(f) \/ LastFrameLost(f)

\* An exchange that is not cut proceeds.
PeerFairness ==
  /\ \A pq \in Pairs :
       WF_peerVars(AskPeer(pq) \/ AnswerPeer(pq) \/ AcceptAnswer(pq) \/ AnswerRefused(pq)
                   \/ Push(pq) \/ Close(pq))
  /\ WF_peerVars(\E f \in lastFrames : ServeLastFrame(f))

PeerSpec == PeerInit /\ [][PeerNext]_peerVars /\ PeerFairness
-----------------------------------------------------------------------------
PeerTypeOK ==
  /\ docs \in [Peers -> SUBSET (1 .. MaxPeerEdits)]
  /\ requests \in [Pairs -> {"absent", "once", "again"}]
  /\ \A pq \in Pairs : exchange[pq] = NoExchange <=> requests[pq] = "absent"

AllExchanged ==
  (\A pq \in Pairs : requests[pq] = "absent") /\ lastFrames = {} /\ missed = {}

\* Both ends finish with the same document: when every worker has ended and
\* every last frame was read, the writers hold the same edits, whatever edits
\* fell into exchanges under way, unless the network cut a latest exchange.
WritersFinishEqual == AllExchanged => \A p, q \in CanWrite : docs[p] = docs[q]

\* "Both ends finish with the same document" (net.rs:222), of readers too.  The
\* code does not keep it: a reader that relays a writer's edits to another writer
\* is refused, and the exchange ends before it is sent what it lacks.
PeersFinishEqual == AllExchanged => \A p, q \in Peers : docs[p] = docs[q]

\* The edits stop, and every writer ends with all of them, unless a latest
\* exchange was cut.
EditsReachWriters ==
  <>[](missed = {} => \A p, q \in CanWrite : docs[p] = docs[q])
=============================================================================
