-------------------------- MODULE Connections_proofs ---------------------------
(*******************************************************************************)
(* What goes over connections that are cut: the exchange of documents          *)
(* (PeerSync) and of the files of the media (MediaBlobs) between devices, and  *)
(* the presence in the local Discord client (DiscordPresence).                 *)
(*                                                                             *)
(* Writers finish equal because every edit keeps travelling from some writer to *)
(* every other: held, in a frame, asked for again, or about to be compared     *)
(* (EditsTravel); what an exchange compares was true when it was said and      *)
(* documents only grow (VersionsOK).                                           *)
(*                                                                             *)
(* A stored file is whole because a file is verified before its rename and,    *)
(* with one download at a time, nobody writes to it in between (RenamesWhole). *)
(* The collector takes nothing that is referred to because what a document     *)
(* refers to is recorded, or is being recorded (PinsInv).                      *)
(*                                                                             *)
(* The presence is what the user asked for because a send happens only once the *)
(* window of Discord is open: the window is never shut longer than the throttle *)
(* counts (WindowInv), and a probe and a held line exclude each other (HeldInv). *)
(*******************************************************************************)
EXTENDS PeerSync, MediaBlobs, DiscordPresence, TLAPS

EditNumbers == 1 .. MaxPeerEdits
Exchange ==
  [at : {"none", "begun", "sent"}] \cup [at : {"asked", "accepted"}, version : SUBSET EditNumbers]
  \cup [at : {"answered"}, updates : SUBSET EditNumbers, version : SUBSET EditNumbers]
Frame == [pair : Pairs, updates : SUBSET EditNumbers]
Unsettled == {"begun", "asked", "answered", "accepted"}

DocsOK == peerEdits \in 0 .. MaxPeerEdits /\ docs \in [Peers -> SUBSET EditNumbers]
RequestsOK == requests \in [Pairs -> {"absent", "once", "again"}]
ExchangeOK == exchange \in [Pairs -> Exchange]
FramesOK == lastFrames \subseteq Frame
TypesOK == DocsOK /\ RequestsOK /\ ExchangeOK /\ FramesOK

\* Only edits that were made are held or under way.
OnlyMade ==
  /\ \A p \in Peers : docs[p] \subseteq 1 .. peerEdits
  /\ \A pq \in Pairs : exchange[pq].at = "answered"
       => exchange[pq].updates \subseteq 1 .. peerEdits
  /\ \A f \in lastFrames : f.updates \subseteq 1 .. peerEdits

\* What a peer was said to hold, it holds.
VersionsOK ==
  \A pq \in Pairs :
    /\ exchange[pq].at = "asked" => exchange[pq].version \subseteq docs[pq[1]]
    /\ exchange[pq].at \in {"answered", "accepted"} => exchange[pq].version \subseteq docs[pq[2]]

WorkersOK ==
  \A pq \in Pairs : exchange[pq] = NoExchange <=> requests[pq] = "absent"

InFlight(e, pq) == \E f \in lastFrames : f.pair = pq /\ e \in f.updates

\* The edit has reached the peer of pq or an exchange will bring it, unless the
\* network cuts that one too.
ToCome(e, pq) ==
  \/ e \in docs[pq[2]] \/ InFlight(e, pq) \/ pq \in missed
  \/ requests[pq] = "again" \/ exchange[pq].at \in Unsettled

EditsTravel ==
  \A e \in 1 .. peerEdits : \E a \in CanWrite :
    e \in docs[a] /\ \A q \in CanWrite \ {a} : ToCome(e, <<a, q>>)

PeerInv == TypesOK /\ OnlyMade /\ WorkersOK /\ VersionsOK /\ EditsTravel

\* The two ends of a pair are different peers.
LEMMA PairFields == ASSUME NEW pq \in Pairs PROVE pq[1] \in Peers /\ pq[2] \in Peers
  /\ pq[1] # pq[2]
  BY DEF Pairs

\* What the last frame of a caller carries.
LEMMA FrameFields ==
  ASSUME NEW f \in Frame
  PROVE f.pair \in Pairs /\ f.updates \subseteq EditNumbers
  BY DEF Frame

\* What each stage of an exchange keeps.
LEMMA ExchangeFields ==
  ASSUME NEW x \in Exchange
  PROVE /\ x.at \in Unsettled \cup {"none", "sent"}
        /\ x.at \in {"asked", "accepted", "answered"} => x.version \subseteq EditNumbers
        /\ x.at = "answered" => x.updates \subseteq EditNumbers
        /\ x.at = "none" <=> x = NoExchange
  BY DEF Exchange, Unsettled, NoExchange

\* Every stage the actions make is one.
LEMMA ExchangeMade ==
  /\ NoExchange \in Exchange /\ [at |-> "begun"] \in Exchange /\ [at |-> "sent"] \in Exchange
  /\ \A v \in SUBSET EditNumbers : [at |-> "asked", version |-> v] \in Exchange
       /\ [at |-> "accepted", version |-> v] \in Exchange
  /\ \A u, v \in SUBSET EditNumbers : [at |-> "answered", updates |-> u, version |-> v] \in Exchange
  BY DEF Exchange, NoExchange

\* Each part of the type is kept by every step.
LEMMA DocsStep == ASSUME TypesOK, PeerNext PROVE DocsOK'
<1> USE PeerAssumption, PairFields, ExchangeFields
      DEF TypesOK, AtStep, EditNumbers, DocsOK, RequestsOK, ExchangeOK, FramesOK
<1>1. ASSUME NEW p \in Peers, PeerEdits(p) PROVE DocsOK'
  BY <1>1 DEF PeerEdits, RequestedSync
<1>2. ASSUME NEW pq \in Pairs, AskPeer(pq) PROVE DocsOK'
  BY <1>2 DEF AskPeer
<1>3. ASSUME NEW pq \in Pairs, AnswerPeer(pq) PROVE DocsOK'
  BY <1>3 DEF AnswerPeer
<1>4. ASSUME NEW pq \in Pairs, AcceptAnswer(pq) PROVE DocsOK'
  BY <1>4 DEF AcceptAnswer, Merged
<1>5. ASSUME NEW pq \in Pairs, AnswerRefused(pq) PROVE DocsOK'
  BY <1>5 DEF AnswerRefused, WorkerContinues
<1>6. ASSUME NEW pq \in Pairs, Push(pq) PROVE DocsOK'
  BY <1>6, ExchangeFields, FrameFields DEF Push, Frame
<1>7. ASSUME NEW pq \in Pairs, Close(pq) PROVE DocsOK'
  BY <1>7 DEF Close, WorkerContinues
<1>8. ASSUME NEW pq \in Pairs, ExchangeCut(pq) PROVE DocsOK'
  BY <1>8 DEF ExchangeCut, WorkerContinues
<1>9. ASSUME NEW f \in lastFrames, ServeLastFrame(f) PROVE DocsOK'
  BY <1>9, FrameFields DEF ServeLastFrame, Merged
<1>10. ASSUME NEW f \in lastFrames, LastFrameLost(f) PROVE DocsOK'
  BY <1>10 DEF LastFrameLost
<1> QED
  BY <1>1, <1>2, <1>3, <1>4, <1>5, <1>6, <1>7, <1>8, <1>9, <1>10 DEF PeerNext

LEMMA RequestsStep == ASSUME TypesOK, PeerNext PROVE RequestsOK'
<1> USE DEF TypesOK, RequestsOK
<1>1. ASSUME NEW p \in Peers, PeerEdits(p) PROVE RequestsOK'
  BY <1>1 DEF PeerEdits, RequestedSync
<1>2. ASSUME NEW pq \in Pairs, AskPeer(pq) PROVE RequestsOK'
  BY <1>2 DEF AskPeer
<1>3. ASSUME NEW pq \in Pairs, AnswerPeer(pq) PROVE RequestsOK'
  BY <1>3 DEF AnswerPeer
<1>4. ASSUME NEW pq \in Pairs, AcceptAnswer(pq) PROVE RequestsOK'
  BY <1>4 DEF AcceptAnswer, Merged
<1>5. ASSUME NEW pq \in Pairs, AnswerRefused(pq) PROVE RequestsOK'
  BY <1>5 DEF AnswerRefused, WorkerContinues
<1>6. ASSUME NEW pq \in Pairs, Push(pq) PROVE RequestsOK'
  BY <1>6, ExchangeFields, FrameFields DEF Push, Frame
<1>7. ASSUME NEW pq \in Pairs, Close(pq) PROVE RequestsOK'
  BY <1>7 DEF Close, WorkerContinues
<1>8. ASSUME NEW pq \in Pairs, ExchangeCut(pq) PROVE RequestsOK'
  BY <1>8 DEF ExchangeCut, WorkerContinues
<1>9. ASSUME NEW f \in lastFrames, ServeLastFrame(f) PROVE RequestsOK'
  BY <1>9, FrameFields DEF ServeLastFrame, Merged
<1>10. ASSUME NEW f \in lastFrames, LastFrameLost(f) PROVE RequestsOK'
  BY <1>10 DEF LastFrameLost
<1> QED
  BY <1>1, <1>2, <1>3, <1>4, <1>5, <1>6, <1>7, <1>8, <1>9, <1>10 DEF PeerNext

LEMMA ExchangeStep == ASSUME TypesOK, PeerNext PROVE ExchangeOK'
<1> USE PairFields, ExchangeFields, ExchangeMade DEF TypesOK, AtStep, DocsOK, RequestsOK,
      ExchangeOK, FramesOK
<1>1. ASSUME NEW p \in Peers, PeerEdits(p) PROVE ExchangeOK'
  BY <1>1 DEF PeerEdits, RequestedSync
<1>2. ASSUME NEW pq \in Pairs, AskPeer(pq) PROVE ExchangeOK'
  BY <1>2 DEF AskPeer
<1>3. ASSUME NEW pq \in Pairs, AnswerPeer(pq) PROVE ExchangeOK'
  BY <1>3 DEF AnswerPeer
<1>4. ASSUME NEW pq \in Pairs, AcceptAnswer(pq) PROVE ExchangeOK'
  BY <1>4 DEF AcceptAnswer, Merged
<1>5. ASSUME NEW pq \in Pairs, AnswerRefused(pq) PROVE ExchangeOK'
  BY <1>5 DEF AnswerRefused, WorkerContinues
<1>6. ASSUME NEW pq \in Pairs, Push(pq) PROVE ExchangeOK'
  BY <1>6, ExchangeFields, FrameFields DEF Push, Frame
<1>7. ASSUME NEW pq \in Pairs, Close(pq) PROVE ExchangeOK'
  BY <1>7 DEF Close, WorkerContinues
<1>8. ASSUME NEW pq \in Pairs, ExchangeCut(pq) PROVE ExchangeOK'
  BY <1>8 DEF ExchangeCut, WorkerContinues
<1>9. ASSUME NEW f \in lastFrames, ServeLastFrame(f) PROVE ExchangeOK'
  BY <1>9, FrameFields DEF ServeLastFrame, Merged
<1>10. ASSUME NEW f \in lastFrames, LastFrameLost(f) PROVE ExchangeOK'
  BY <1>10 DEF LastFrameLost
<1> QED
  BY <1>1, <1>2, <1>3, <1>4, <1>5, <1>6, <1>7, <1>8, <1>9, <1>10 DEF PeerNext

LEMMA FramesStep == ASSUME TypesOK, PeerNext PROVE FramesOK'
<1> USE PairFields DEF TypesOK, AtStep, DocsOK, RequestsOK, ExchangeOK, FramesOK
<1>1. ASSUME NEW p \in Peers, PeerEdits(p) PROVE FramesOK'
  BY <1>1 DEF PeerEdits, RequestedSync
<1>2. ASSUME NEW pq \in Pairs, AskPeer(pq) PROVE FramesOK'
  BY <1>2 DEF AskPeer
<1>3. ASSUME NEW pq \in Pairs, AnswerPeer(pq) PROVE FramesOK'
  BY <1>3 DEF AnswerPeer
<1>4. ASSUME NEW pq \in Pairs, AcceptAnswer(pq) PROVE FramesOK'
  BY <1>4 DEF AcceptAnswer, Merged
<1>5. ASSUME NEW pq \in Pairs, AnswerRefused(pq) PROVE FramesOK'
  BY <1>5 DEF AnswerRefused, WorkerContinues
<1>6. ASSUME NEW pq \in Pairs, Push(pq) PROVE FramesOK'
  BY <1>6, ExchangeFields, FrameFields DEF Push, Frame
<1>7. ASSUME NEW pq \in Pairs, Close(pq) PROVE FramesOK'
  BY <1>7 DEF Close, WorkerContinues
<1>8. ASSUME NEW pq \in Pairs, ExchangeCut(pq) PROVE FramesOK'
  BY <1>8 DEF ExchangeCut, WorkerContinues
<1>9. ASSUME NEW f \in lastFrames, ServeLastFrame(f) PROVE FramesOK'
  BY <1>9, FrameFields DEF ServeLastFrame, Merged
<1>10. ASSUME NEW f \in lastFrames, LastFrameLost(f) PROVE FramesOK'
  BY <1>10 DEF LastFrameLost
<1> QED
  BY <1>1, <1>2, <1>3, <1>4, <1>5, <1>6, <1>7, <1>8, <1>9, <1>10 DEF PeerNext

MoreHeld == peerEdits <= peerEdits' /\ \A p \in Peers : docs[p] \subseteq docs[p]'

\* No step takes an edit out of a document.
LEMMA DocsGrow == ASSUME TypesOK, PeerNext PROVE MoreHeld
<1> USE PairFields, ExchangeFields DEF MoreHeld, TypesOK, AtStep, DocsOK, RequestsOK, ExchangeOK,
      FramesOK
<1>1. ASSUME NEW p \in Peers, PeerEdits(p) PROVE MoreHeld
  BY <1>1 DEF PeerEdits, RequestedSync
<1>2. ASSUME NEW pq \in Pairs, AskPeer(pq) PROVE MoreHeld
  BY <1>2 DEF AskPeer
<1>3. ASSUME NEW pq \in Pairs, AnswerPeer(pq) PROVE MoreHeld
  BY <1>3 DEF AnswerPeer
<1>4. ASSUME NEW pq \in Pairs, AcceptAnswer(pq) PROVE MoreHeld
  BY <1>4 DEF AcceptAnswer, Merged
<1>5. ASSUME NEW pq \in Pairs, AnswerRefused(pq) PROVE MoreHeld
  BY <1>5 DEF AnswerRefused, WorkerContinues
<1>6. ASSUME NEW pq \in Pairs, Push(pq) PROVE MoreHeld
  BY <1>6, ExchangeFields, FrameFields DEF Push, Frame
<1>7. ASSUME NEW pq \in Pairs, Close(pq) PROVE MoreHeld
  BY <1>7 DEF Close, WorkerContinues
<1>8. ASSUME NEW pq \in Pairs, ExchangeCut(pq) PROVE MoreHeld
  BY <1>8 DEF ExchangeCut, WorkerContinues
<1>9. ASSUME NEW f \in lastFrames, ServeLastFrame(f) PROVE MoreHeld
  BY <1>9, FrameFields DEF ServeLastFrame, Merged
<1>10. ASSUME NEW f \in lastFrames, LastFrameLost(f) PROVE MoreHeld
  BY <1>10 DEF LastFrameLost
<1> QED
  BY <1>1, <1>2, <1>3, <1>4, <1>5, <1>6, <1>7, <1>8, <1>9, <1>10 DEF PeerNext

\* Nothing is received that nobody made.
LEMMA OnlyMadeStep == ASSUME TypesOK, OnlyMade, PeerNext PROVE OnlyMade'
<1> USE PairFields, ExchangeFields DEF TypesOK, AtStep, DocsOK, RequestsOK, ExchangeOK, FramesOK,
      OnlyMade, NoExchange
<1>1. ASSUME NEW p \in Peers, PeerEdits(p) PROVE OnlyMade'
  BY <1>1 DEF PeerEdits, RequestedSync
<1>2. ASSUME NEW pq \in Pairs, AskPeer(pq) PROVE OnlyMade'
  BY <1>2 DEF AskPeer
<1>3. ASSUME NEW pq \in Pairs, AnswerPeer(pq) PROVE OnlyMade'
  BY <1>3 DEF AnswerPeer
<1>4. ASSUME NEW pq \in Pairs, AcceptAnswer(pq) PROVE OnlyMade'
  BY <1>4 DEF AcceptAnswer, Merged
<1>5. ASSUME NEW pq \in Pairs, AnswerRefused(pq) PROVE OnlyMade'
  BY <1>5 DEF AnswerRefused, WorkerContinues
<1>6. ASSUME NEW pq \in Pairs, Push(pq) PROVE OnlyMade'
  BY <1>6, ExchangeFields, FrameFields DEF Push, Frame
<1>7. ASSUME NEW pq \in Pairs, Close(pq) PROVE OnlyMade'
  BY <1>7 DEF Close, WorkerContinues
<1>8. ASSUME NEW pq \in Pairs, ExchangeCut(pq) PROVE OnlyMade'
  BY <1>8 DEF ExchangeCut, WorkerContinues
<1>9. ASSUME NEW f \in lastFrames, ServeLastFrame(f) PROVE OnlyMade'
  BY <1>9, FrameFields DEF ServeLastFrame, Merged
<1>10. ASSUME NEW f \in lastFrames, LastFrameLost(f) PROVE OnlyMade'
  BY <1>10 DEF LastFrameLost
<1> QED
  BY <1>1, <1>2, <1>3, <1>4, <1>5, <1>6, <1>7, <1>8, <1>9, <1>10 DEF PeerNext

\* A pair has a worker exactly while it has a request.
LEMMA WorkersStep == ASSUME TypesOK, WorkersOK, PeerNext PROVE WorkersOK'
<1> USE PairFields, ExchangeFields DEF TypesOK, AtStep, DocsOK, RequestsOK, ExchangeOK, FramesOK,
      WorkersOK, NoExchange
<1>1. ASSUME NEW p \in Peers, PeerEdits(p) PROVE WorkersOK'
  BY <1>1 DEF PeerEdits, RequestedSync
<1>2. ASSUME NEW pq \in Pairs, AskPeer(pq) PROVE WorkersOK'
  BY <1>2 DEF AskPeer
<1>3. ASSUME NEW pq \in Pairs, AnswerPeer(pq) PROVE WorkersOK'
  BY <1>3 DEF AnswerPeer
<1>4. ASSUME NEW pq \in Pairs, AcceptAnswer(pq) PROVE WorkersOK'
  BY <1>4 DEF AcceptAnswer, Merged
<1>5. ASSUME NEW pq \in Pairs, AnswerRefused(pq) PROVE WorkersOK'
  BY <1>5 DEF AnswerRefused, WorkerContinues
<1>6. ASSUME NEW pq \in Pairs, Push(pq) PROVE WorkersOK'
  BY <1>6, ExchangeFields, FrameFields DEF Push, Frame
<1>7. ASSUME NEW pq \in Pairs, Close(pq) PROVE WorkersOK'
  BY <1>7 DEF Close, WorkerContinues
<1>8. ASSUME NEW pq \in Pairs, ExchangeCut(pq) PROVE WorkersOK'
  BY <1>8 DEF ExchangeCut, WorkerContinues
<1>9. ASSUME NEW f \in lastFrames, ServeLastFrame(f) PROVE WorkersOK'
  BY <1>9, FrameFields DEF ServeLastFrame, Merged
<1>10. ASSUME NEW f \in lastFrames, LastFrameLost(f) PROVE WorkersOK'
  BY <1>10 DEF LastFrameLost
<1> QED
  BY <1>1, <1>2, <1>3, <1>4, <1>5, <1>6, <1>7, <1>8, <1>9, <1>10 DEF PeerNext

\* A version was true when it was sent, and documents only grow.
LEMMA VersionsStep == ASSUME TypesOK, VersionsOK, PeerNext PROVE VersionsOK'
<1> USE PairFields, ExchangeFields DEF TypesOK, AtStep, DocsOK, RequestsOK, ExchangeOK, FramesOK,
      VersionsOK, NoExchange
<1>1. ASSUME NEW p \in Peers, PeerEdits(p) PROVE VersionsOK'
  BY <1>1 DEF PeerEdits, RequestedSync
<1>2. ASSUME NEW pq \in Pairs, AskPeer(pq) PROVE VersionsOK'
  BY <1>2 DEF AskPeer
<1>3. ASSUME NEW pq \in Pairs, AnswerPeer(pq) PROVE VersionsOK'
  BY <1>3 DEF AnswerPeer
<1>4. ASSUME NEW pq \in Pairs, AcceptAnswer(pq) PROVE VersionsOK'
  BY <1>4 DEF AcceptAnswer, Merged
<1>5. ASSUME NEW pq \in Pairs, AnswerRefused(pq) PROVE VersionsOK'
  BY <1>5 DEF AnswerRefused, WorkerContinues
<1>6. ASSUME NEW pq \in Pairs, Push(pq) PROVE VersionsOK'
  BY <1>6, ExchangeFields, FrameFields DEF Push, Frame
<1>7. ASSUME NEW pq \in Pairs, Close(pq) PROVE VersionsOK'
  BY <1>7 DEF Close, WorkerContinues
<1>8. ASSUME NEW pq \in Pairs, ExchangeCut(pq) PROVE VersionsOK'
  BY <1>8 DEF ExchangeCut, WorkerContinues
<1>9. ASSUME NEW f \in lastFrames, ServeLastFrame(f) PROVE VersionsOK'
  BY <1>9, FrameFields DEF ServeLastFrame, Merged
<1>10. ASSUME NEW f \in lastFrames, LastFrameLost(f) PROVE VersionsOK'
  BY <1>10 DEF LastFrameLost
<1> QED
  BY <1>1, <1>2, <1>3, <1>4, <1>5, <1>6, <1>7, <1>8, <1>9, <1>10 DEF PeerNext

\* What a writer holds reaches the other writer, or is still to come: the heart of
\* the proof.  While the caller asks, the answerer compares with what the caller
\* holds then; what the caller gets later asks for a pass of its own or is older.
LEMMA ToComeStep == ASSUME TypesOK, VersionsOK, NEW e \in EditNumbers, NEW wr \in Pairs,
  wr[1] \in CanWrite, wr[2] \in CanWrite, e \in docs[wr[1]], ToCome(e, wr), PeerNext
  PROVE ToCome(e, wr)'
<1> USE PairFields, ExchangeFields DEF TypesOK, AtStep, DocsOK, RequestsOK, ExchangeOK, FramesOK,
      ToCome, InFlight, Unsettled, NoExchange, VersionsOK
<1>1. ASSUME NEW p \in Peers, PeerEdits(p) PROVE ToCome(e, wr)'
  BY <1>1 DEF PeerEdits, RequestedSync
<1>2. ASSUME NEW pq \in Pairs, AskPeer(pq) PROVE ToCome(e, wr)'
  BY <1>2 DEF AskPeer
<1>3. ASSUME NEW pq \in Pairs, AnswerPeer(pq) PROVE ToCome(e, wr)'
  BY <1>3 DEF AnswerPeer
<1>4. ASSUME NEW pq \in Pairs, AcceptAnswer(pq) PROVE ToCome(e, wr)'
  BY <1>4 DEF AcceptAnswer, Merged
<1>5. ASSUME NEW pq \in Pairs, AnswerRefused(pq) PROVE ToCome(e, wr)'
  BY <1>5 DEF AnswerRefused, WorkerContinues, Refused
<1>6. ASSUME NEW pq \in Pairs, Push(pq) PROVE ToCome(e, wr)'
  <2> DEFINE sent == [pair |-> pq, updates |-> docs[pq[1]] \ exchange[pq].version]
  <2>1. exchange[pq].version \subseteq docs[pq[2]] /\ docs' = docs
    BY <1>6 DEF Push
  <2>2. sent \in lastFrames' /\ lastFrames \subseteq lastFrames' /\ sent.pair = pq
    BY <1>6 DEF Push
  <2>3. CASE wr = pq
    <3>1. e \in docs[wr[2]] \/ e \in sent.updates
      BY <2>1, <2>3
    <3> QED
      BY <2>1, <2>2, <2>3, <3>1
  <2>4. CASE wr # pq
    BY <1>6, <2>1, <2>2, <2>4 DEF Push
  <2> QED
    BY <2>3, <2>4
<1>7. ASSUME NEW pq \in Pairs, Close(pq) PROVE ToCome(e, wr)'
  BY <1>7 DEF Close, WorkerContinues
<1>8. ASSUME NEW pq \in Pairs, ExchangeCut(pq) PROVE ToCome(e, wr)'
  BY <1>8 DEF ExchangeCut, WorkerContinues
<1>9. ASSUME NEW f \in lastFrames, ServeLastFrame(f) PROVE ToCome(e, wr)'
  BY <1>9, FrameFields DEF ServeLastFrame, Merged
<1>10. ASSUME NEW f \in lastFrames, LastFrameLost(f) PROVE ToCome(e, wr)'
  BY <1>10 DEF LastFrameLost
<1> QED
  BY <1>1, <1>2, <1>3, <1>4, <1>5, <1>6, <1>7, <1>8, <1>9, <1>10 DEF PeerNext

\* Of every edit there is a writer from which it travels to every other: the one who
\* made it, whose edits ask for an exchange with every peer.
LEMMA EditsTravelStep ==
  ASSUME TypesOK, VersionsOK, EditsTravel, PeerNext
  PROVE EditsTravel'
<1> SUFFICES ASSUME NEW e \in 1 .. peerEdits'
             PROVE (\E a \in CanWrite :
                      e \in docs[a] /\ \A q \in CanWrite \ {a} : ToCome(e, <<a, q>>))'
  BY DEF EditsTravel
<1>1. CASE e \in 1 .. peerEdits
  <2>1. PICK a \in CanWrite : e \in docs[a] /\ \A q \in CanWrite \ {a} : ToCome(e, <<a, q>>)
    BY <1>1 DEF EditsTravel
  <2>2. a \in Peers /\ e \in docs[a]' /\ e \in EditNumbers
    BY <2>1, DocsGrow, PeerAssumption, <1>1 DEF MoreHeld, TypesOK, DocsOK, EditNumbers
  <2>3. ASSUME NEW q \in CanWrite \ {a} PROVE ToCome(e, <<a, q>>)'
    <3> DEFINE wr == <<a, q>>
    <3>1. wr \in Pairs /\ wr[1] = a /\ wr[2] = q
      BY PeerAssumption DEF Pairs
    <3>2. ToCome(e, wr)
      BY <2>1
    <3> HIDE DEF wr
    <3>3. ToCome(e, wr)'
      BY <2>1, <2>2, <3>1, <3>2, ToComeStep
    <3> QED
      BY <3>3 DEF wr
  <2> QED
    BY <2>1, <2>2, <2>3
<1>2. CASE e \notin 1 .. peerEdits
  <2>1. PICK p \in Peers : PeerEdits(p)
    BY <1>2 DEF PeerNext, AskPeer, AnswerPeer, AcceptAnswer, AnswerRefused, Push, Close,
         ExchangeCut, ServeLastFrame, LastFrameLost
  <2>2. e = peerEdits' /\ p \in CanWrite /\ e \in docs'[p]
    BY <1>2, <2>1 DEF PeerEdits, TypesOK, DocsOK
  <2>3. ASSUME NEW q \in CanWrite \ {p} PROVE ToCome(e, <<p, q>>)'
    <3>1. <<p, q>> \in Pairs /\ <<p, q>>[1] = p
      BY PeerAssumption DEF Pairs
    <3> QED
      BY <2>1, <3>1 DEF PeerEdits, RequestedSync, ToCome, Unsettled, TypesOK, RequestsOK,
         ExchangeOK
  <2> QED
    BY <2>2, <2>3
<1> QED
  BY <1>1, <1>2

\* The initial documents are empty and nothing is under way.
LEMMA PeerInvInit == ASSUME PeerInit PROVE PeerInv
  BY PeerAssumption, ExchangeMade
     DEF PeerInit, PeerInv, TypesOK, DocsOK, RequestsOK, ExchangeOK, FramesOK, OnlyMade,
       WorkersOK,
         VersionsOK, EditsTravel, NoExchange, EditNumbers

\* Every step keeps the invariant.
LEMMA PeerInvStep == ASSUME PeerInv, [PeerNext]_peerVars PROVE PeerInv'
<1>1. CASE PeerNext
  BY <1>1, DocsStep, RequestsStep, ExchangeStep, FramesStep, OnlyMadeStep, WorkersStep,
     VersionsStep, EditsTravelStep
     DEF PeerInv, TypesOK
<1>2. CASE UNCHANGED peerVars
  BY <1>2 DEF peerVars, PeerInv, TypesOK, DocsOK, RequestsOK, ExchangeOK, FramesOK, OnlyMade,
     WorkersOK,
         VersionsOK, EditsTravel, ToCome, InFlight, AtStep
<1> QED
  BY <1>1, <1>2

\* The invariant contains the types the runs check.
LEMMA PeerInvTypes == ASSUME PeerInv PROVE PeerTypeOK
  BY DEF PeerInv, PeerTypeOK, TypesOK, DocsOK, RequestsOK, WorkersOK, EditNumbers

\* With nothing under way and nothing missed, only holding is left of ToCome.
LEMMA PeerInvEqual == ASSUME PeerInv PROVE WritersFinishEqual
<1> SUFFICES ASSUME AllExchanged, NEW p \in CanWrite, NEW q \in CanWrite, NEW e \in docs[p]
             PROVE e \in docs[q]
  BY DEF WritersFinishEqual
<1>1. e \in 1 .. peerEdits
  BY PeerAssumption DEF PeerInv, OnlyMade
<1>2. PICK a \in CanWrite : e \in docs[a] /\ \A r \in CanWrite \ {a} : ToCome(e, <<a, r>>)
  BY <1>1 DEF PeerInv, EditsTravel
<1>3. CASE q # a
  <2>1. <<a, q>> \in Pairs /\ <<a, q>>[2] = q
    BY <1>3, PeerAssumption DEF Pairs
  <2>2. ToCome(e, <<a, q>>)
    BY <1>2, <1>3
  <2>3. exchange[<<a, q>>] = NoExchange /\ requests[<<a, q>>] = "absent"
    BY <2>1 DEF PeerInv, WorkersOK, AllExchanged
  <2> QED
    BY <2>1, <2>2, <2>3 DEF ToCome, InFlight, AllExchanged, Unsettled, NoExchange
<1> QED
  BY <1>2, <1>3

\* The inductive invariant of the exchanges.
LEMMA PeerInvHolds == PeerSpec => []PeerInv
  BY PeerInvInit, PeerInvStep, PTL DEF PeerSpec

\* Writers finish equal (collab/net.rs, sync_inner and request_sync): when every
\* exchange is over and none was cut, all writers hold the same edits, for any
\* peers and any order of edits, passes and frames.
THEOREM WritersEqual == PeerSpec => []WritersFinishEqual
  BY PeerInvHolds, PeerInvEqual, PTL

\* Every variable of the exchanges stays in its range (collab/net.rs).
THEOREM PeerTypes == PeerSpec => []PeerTypeOK
  BY PeerInvHolds, PeerInvTypes, PTL

-----------------------------------------------------------------------------
\* A download keeps where in the file the chunk it asked for belongs.
Fetch ==
  [at : {"none", "manifest"}] \cup [at : {"ask", "append"}, offset : 0 .. BlobChunks - 1,
    fresh : BOOLEAN]
  \cup [at : {"verify", "rename"}, resumed : BOOLEAN]

FetchOK == fetch \in [Downloads -> Fetch]
FilesOK ==
  /\ stored = Gone \/ stored \in Seq(0 .. BlobChunks)
  /\ part = Gone \/ part \in Seq(0 .. BlobChunks)
RefersOK == refers \in [Projects -> BOOLEAN] /\ pinned \in [Projects -> BOOLEAN]
MarkersOK == import \in {"none", "placed"} /\ unreferenced \in {"no", "young", "due"}
FetchTypes == FetchOK /\ FilesOK
BlobCount == blobMishaps \in Nat

\* What is about to take the final name was verified, and nobody else touches it.
RenamesWhole ==
  /\ stored \in {Gone, Whole}
  /\ \A f \in Downloads : fetch[f].at = "rename" => part = Whole

\* No two downloads of the file are under way.
OneAtATime ==
  \A f, g \in Downloads : fetch[f] # Resting /\ fetch[g] # Resting => f = g

\* Beside a crash, the records differ from the documents only in the project
\* whose references are about to be recorded.
PinsInv ==
  /\ RefersOK /\ blobMishaps \in Nat
  /\ collecting => ~ Pins(pinned) /\ pinning = NoProject
  /\ blobMishaps = 0 => \A p \in Projects : p # pinning => refers[p] = pinned[p]

\* What each stage of a download keeps.
LEMMA FetchFields ==
  ASSUME NEW x \in Fetch
  PROVE /\ x.at \in {"none", "manifest", "ask", "append", "verify", "rename"}
        /\ x.at \in {"ask", "append"} => x.offset \in 0 .. BlobChunks - 1 /\ x.fresh \in BOOLEAN
             /\ x = [at |-> x.at, offset |-> x.offset, fresh |-> x.fresh]
        /\ x.at \in {"verify", "rename"} => x.resumed \in BOOLEAN
  BY DEF Fetch

\* Every stage the actions make is one.
LEMMA FetchMade ==
  /\ Resting \in Fetch /\ [at |-> "manifest"] \in Fetch
  /\ \A o \in 0 .. BlobChunks - 1, b \in BOOLEAN :
       [at |-> "ask", offset |-> o, fresh |-> b] \in Fetch
         /\ [at |-> "append", offset |-> o, fresh |-> b] \in Fetch
  /\ \A b \in BOOLEAN : [at |-> "verify", resumed |-> b] \in Fetch
       /\ [at |-> "rename", resumed |-> b] \in Fetch
  /\ \A x \in Fetch : x.at = "ask" =>
       [x EXCEPT !.fresh = TRUE] \in Fetch /\ [x EXCEPT !.at = "append"] \in Fetch
  BY DEF Fetch, Resting

\* A download that goes on keeps the type.
LEMMA GoesType == ASSUME FetchOK, NEW f \in Downloads, NEW to \in Fetch, Goes(f, to)
  PROVE FetchOK'
  BY DEF FetchOK, Goes

\* The constants as the proofs use them.
LEMMA BlobChunksType == BlobChunks \in Nat \ {0} /\ MaxBlobMishaps \in Nat
  /\ NoProject \notin Projects
  BY BlobAssumption DEF NoProject

\* The whole file is a sequence of chunks.
LEMMA WholeType == Whole \in Seq(0 .. BlobChunks) /\ Len(Whole) = BlobChunks /\ Whole # Gone
<1>1. Whole \in [1 .. BlobChunks -> 0 .. BlobChunks]
  BY BlobChunksType DEF Whole
<1>2. Whole \in Seq(0 .. BlobChunks) /\ Len(Whole) = BlobChunks
  BY <1>1, BlobChunksType
<1>3. Whole[1] = 1 /\ Gone[1] = BlobChunks + 2
  BY BlobChunksType DEF Whole, Gone
<1> QED
  BY <1>2, <1>3, BlobChunksType

\* A file that is gone has no length but a number.
LEMMA LengthType == ASSUME NEW file, file = Gone \/ file \in Seq(0 .. BlobChunks)
  PROVE Length(file) \in Nat
  BY DEF Length, Gone

\* Appending a chunk gives a file that has a length.
LEMMA ExtendedType ==
  ASSUME NEW file, file = Gone \/ file \in Seq(0 .. BlobChunks), NEW c \in 0 .. BlobChunks
  PROVE Extended(file, c) \in Seq(0 .. BlobChunks) /\ Len(Extended(file, c)) \in Nat \ {0}
<1>1. CASE file = Gone
  BY <1>1 DEF Extended
<1>2. CASE file # Gone
  BY <1>2 DEF Extended
<1> QED
  BY <1>1, <1>2

\* Every step keeps files files.
LEMMA FilesStep == ASSUME FetchTypes, BlobNext PROVE FilesOK'
<1> USE WholeType, BlobChunksType, FetchFields DEF FetchTypes, FetchOK, FilesOK
<1>1. ASSUME NEW f \in Downloads, FetchBegins(f) PROVE FilesOK'
  BY <1>1 DEF FetchBegins, Goes, FetchRest, fileVars, pinVars, gcVars
<1>2. ASSUME NEW f \in Downloads, FetchChecks(f) PROVE FilesOK'
  BY <1>2 DEF FetchChecks, Goes, FetchRest, fileVars, pinVars, gcVars
<1>3. ASSUME NEW f \in Downloads, FetchAppends(f) PROVE FilesOK'
  <2>1. stored' = stored
    BY <1>3 DEF FetchAppends
  <2>2. fetch[f].offset + 1 \in 0 .. BlobChunks /\ BadChunk \in 0 .. BlobChunks
    BY <1>3 DEF FetchAppends, BadChunk
  <2>3. \E c \in 0 .. BlobChunks : part' = Extended(part, c)
    BY <1>3, <2>2 DEF FetchAppends
  <2> QED
    BY <2>1, <2>3, ExtendedType, ZenonT(60)
<1>4. ASSUME NEW f \in Downloads, FetchVerifies(f) PROVE FilesOK'
  BY <1>4 DEF FetchVerifies, Goes, FetchRest, fileVars, pinVars, gcVars, FinishFailed
<1>5. ASSUME NEW f \in Downloads, FetchRenames(f) PROVE FilesOK'
  BY <1>5 DEF FetchRenames, Goes, FetchRest, fileVars, pinVars, gcVars, FinishFailed
<1>6. ASSUME NEW f \in Downloads, FetchStoresManifest(f) PROVE FilesOK'
  BY <1>6 DEF FetchStoresManifest, Goes, FetchRest, fileVars, pinVars, gcVars
<1>7. ASSUME NEW f \in Downloads, FetchFails(f) PROVE FilesOK'
  BY <1>7 DEF FetchFails, Goes, FetchRest, fileVars, pinVars, gcVars
<1>8. ASSUME ResolvesPresent PROVE FilesOK'
  BY <1>8 DEF ResolvesPresent, Goes, FetchRest, fileVars, pinVars, gcVars
<1>9. ASSUME ImportPlaces PROVE FilesOK'
  BY <1>9 DEF ImportPlaces, Goes, FetchRest, fileVars, pinVars, gcVars
<1>10. ASSUME ImportStoresManifest PROVE FilesOK'
  BY <1>10 DEF ImportStoresManifest, Goes, FetchRest, fileVars, pinVars, gcVars
<1>11. ASSUME CollectionRemoves PROVE FilesOK'
  BY <1>11 DEF CollectionRemoves, Goes, FetchRest, fileVars, pinVars, gcVars
<1>12. ASSUME GracePasses PROVE FilesOK'
  BY <1>12 DEF GracePasses, Goes, FetchRest, fileVars, pinVars, gcVars
<1>13. ASSUME DayPasses PROVE FilesOK'
  BY <1>13 DEF DayPasses, Goes, FetchRest, fileVars, pinVars, gcVars
<1>14. ASSUME BlobCrash PROVE FilesOK'
  BY <1>14 DEF BlobCrash, Goes, FetchRest, fileVars, pinVars, gcVars
<1>15. ASSUME NEW p \in Projects, Refers(p) PROVE FilesOK'
  BY <1>15 DEF Refers, Goes, FetchRest, fileVars, pinVars, gcVars
<1>16. ASSUME NEW p \in Projects, RecordsPins(p) PROVE FilesOK'
  BY <1>16 DEF RecordsPins, Goes, FetchRest, fileVars, pinVars, gcVars, Collects
<1> QED
  BY <1>1, <1>2, <1>3, <1>4, <1>5, <1>6, <1>7, <1>8, <1>9, <1>10, <1>11, <1>12, <1>13, <1>14,
     <1>15, <1>16 DEF BlobNext

\* Every step keeps downloads downloads.
LEMMA FetchStep == ASSUME FetchTypes, BlobNext PROVE FetchOK'
<1> USE FetchFields, FetchMade, BlobChunksType DEF FetchTypes
<1>1. ASSUME NEW f \in Downloads, FetchBegins(f) PROVE FetchOK'
  <2>1. Length(part) \in Nat
    BY LengthType DEF FilesOK
  <2>2. CASE Length(part) >= BlobChunks
    BY <1>1, <2>2, GoesType DEF FetchBegins
  <2>3. CASE ~ (Length(part) >= BlobChunks)
    <3>1. Length(part) \in 0 .. BlobChunks - 1
      BY <2>1, <2>3
    <3> QED
      BY <1>1, <2>3, <3>1, GoesType DEF FetchBegins
  <2> QED
    BY <2>2, <2>3
<1>2. ASSUME NEW f \in Downloads, FetchChecks(f) PROVE FetchOK'
  <2>1. fetch[f] \in Fetch /\ fetch[f].at = "ask"
    BY <1>2 DEF FetchChecks, FetchOK
  <2>2. CASE Goes(f, [fetch[f] EXCEPT !.at = "append"])
    BY <2>1, <2>2, GoesType
  <2>3. CASE Goes(f, [fetch[f] EXCEPT !.fresh = TRUE])
    BY <2>1, <2>3, GoesType
  <2>4. CASE Goes(f, Resting)
    BY <2>1, <2>4, GoesType
  <2> QED
    BY <1>2, <2>2, <2>3, <2>4 DEF FetchChecks
<1>3. ASSUME NEW f \in Downloads, FetchAppends(f) PROVE FetchOK'
  <2>1. fetch[f] \in Fetch /\ fetch[f].at = "append"
    BY <1>3 DEF FetchAppends, FetchOK
  <2>2. fetch[f].offset + 1 \in 0 .. BlobChunks /\ BadChunk \in 0 .. BlobChunks
    BY <2>1 DEF BadChunk
  <2>3. \E c \in 0 .. BlobChunks : part' = Extended(part, c)
    BY <1>3, <2>2 DEF FetchAppends
  <2>4. Len(part') \in Nat
    BY <2>3, ExtendedType DEF FilesOK
  <2>5. CASE Len(part') >= BlobChunks
    BY <1>3, <2>5, GoesType DEF FetchAppends
  <2>6. CASE ~ (Len(part') >= BlobChunks)
    <3>1. Len(part') \in 0 .. BlobChunks - 1
      BY <2>4, <2>6
    <3> QED
      BY <1>3, <2>6, <3>1, GoesType DEF FetchAppends
  <2> QED
    BY <2>5, <2>6
<1>4. ASSUME NEW f \in Downloads, FetchVerifies(f) PROVE FetchOK'
  <2>1. fetch[f] \in Fetch /\ fetch[f].at = "verify" /\ 0 \in 0 .. BlobChunks - 1
    BY <1>4 DEF FetchVerifies, FetchOK
  <2>2. CASE part = Whole
    BY <1>4, <2>1, <2>2, GoesType DEF FetchVerifies
  <2>3. CASE part # Whole
    BY <1>4, <2>1, <2>3, GoesType DEF FetchVerifies, FinishFailed
  <2> QED
    BY <2>2, <2>3
<1>5. ASSUME NEW f \in Downloads, FetchRenames(f) PROVE FetchOK'
  <2>1. fetch[f] \in Fetch /\ fetch[f].at = "rename" /\ 0 \in 0 .. BlobChunks - 1
    BY <1>5 DEF FetchRenames, FetchOK
  <2>2. CASE part = Gone
    BY <1>5, <2>1, <2>2, GoesType DEF FetchRenames, FinishFailed
  <2>3. CASE part # Gone
    BY <1>5, <2>1, <2>3, GoesType DEF FetchRenames
  <2> QED
    BY <2>2, <2>3
<1>6. ASSUME NEW f \in Downloads, FetchStoresManifest(f) PROVE FetchOK'
  BY <1>6, GoesType DEF FetchStoresManifest
<1>7. ASSUME NEW f \in Downloads, FetchFails(f) PROVE FetchOK'
  <2>1. fetch[f] \in Fetch /\ fetch[f].at = "ask"
    BY <1>7 DEF FetchFails, FetchOK
  <2> QED
    BY <1>7, <2>1, GoesType DEF FetchFails
<1>8. ASSUME ResolvesPresent PROVE FetchOK'
  BY <1>8 DEF FetchOK, FetchRest, ResolvesPresent
<1>9. ASSUME ImportPlaces PROVE FetchOK'
  BY <1>9 DEF FetchOK, FetchRest, ImportPlaces
<1>10. ASSUME ImportStoresManifest PROVE FetchOK'
  BY <1>10 DEF FetchOK, FetchRest, ImportStoresManifest
<1>11. ASSUME CollectionRemoves PROVE FetchOK'
  BY <1>11 DEF FetchOK, FetchRest, CollectionRemoves
<1>12. ASSUME GracePasses PROVE FetchOK'
  BY <1>12 DEF FetchOK, FetchRest, GracePasses
<1>13. ASSUME DayPasses PROVE FetchOK'
  BY <1>13 DEF FetchOK, FetchRest, DayPasses
<1>14. ASSUME BlobCrash PROVE FetchOK'
  BY <1>14 DEF FetchOK, FetchRest, BlobCrash
<1>15. ASSUME NEW p \in Projects, Refers(p) PROVE FetchOK'
  BY <1>15 DEF FetchOK, FetchRest, Refers
<1>16. ASSUME NEW p \in Projects, RecordsPins(p) PROVE FetchOK'
  BY <1>16 DEF FetchOK, FetchRest, RecordsPins
<1> QED
  BY <1>1, <1>2, <1>3, <1>4, <1>5, <1>6, <1>7, <1>8, <1>9, <1>10, <1>11, <1>12, <1>13, <1>14,
     <1>15, <1>16 DEF BlobNext

\* Every step keeps the import and the age of what is unreferenced.
LEMMA MarkersStep == ASSUME MarkersOK, BlobNext PROVE MarkersOK'
<1> USE DEF MarkersOK
<1>1. ASSUME NEW f \in Downloads, FetchBegins(f) PROVE MarkersOK'
  BY <1>1 DEF FetchBegins, Goes, FetchRest, fileVars, pinVars, gcVars
<1>2. ASSUME NEW f \in Downloads, FetchChecks(f) PROVE MarkersOK'
  BY <1>2 DEF FetchChecks, Goes, FetchRest, fileVars, pinVars, gcVars
<1>3. ASSUME NEW f \in Downloads, FetchAppends(f) PROVE MarkersOK'
  BY <1>3 DEF FetchAppends, Goes, FetchRest, fileVars, pinVars, gcVars
<1>4. ASSUME NEW f \in Downloads, FetchVerifies(f) PROVE MarkersOK'
  BY <1>4 DEF FetchVerifies, Goes, FetchRest, fileVars, pinVars, gcVars, FinishFailed
<1>5. ASSUME NEW f \in Downloads, FetchRenames(f) PROVE MarkersOK'
  BY <1>5 DEF FetchRenames, Goes, FetchRest, fileVars, pinVars, gcVars, FinishFailed
<1>6. ASSUME NEW f \in Downloads, FetchStoresManifest(f) PROVE MarkersOK'
  BY <1>6 DEF FetchStoresManifest, Goes, FetchRest, fileVars, pinVars, gcVars
<1>7. ASSUME NEW f \in Downloads, FetchFails(f) PROVE MarkersOK'
  BY <1>7 DEF FetchFails, Goes, FetchRest, fileVars, pinVars, gcVars
<1>8. ASSUME ResolvesPresent PROVE MarkersOK'
  BY <1>8 DEF ResolvesPresent, Goes, FetchRest, fileVars, pinVars, gcVars
<1>9. ASSUME ImportPlaces PROVE MarkersOK'
  BY <1>9 DEF ImportPlaces, Goes, FetchRest, fileVars, pinVars, gcVars
<1>10. ASSUME ImportStoresManifest PROVE MarkersOK'
  BY <1>10 DEF ImportStoresManifest, Goes, FetchRest, fileVars, pinVars, gcVars
<1>11. ASSUME CollectionRemoves PROVE MarkersOK'
  BY <1>11 DEF CollectionRemoves, Goes, FetchRest, fileVars, pinVars, gcVars
<1>12. ASSUME GracePasses PROVE MarkersOK'
  BY <1>12 DEF GracePasses, Goes, FetchRest, fileVars, pinVars, gcVars
<1>13. ASSUME DayPasses PROVE MarkersOK'
  BY <1>13 DEF DayPasses, Goes, FetchRest, fileVars, pinVars, gcVars
<1>14. ASSUME BlobCrash PROVE MarkersOK'
  BY <1>14 DEF BlobCrash, Goes, FetchRest, fileVars, pinVars, gcVars
<1>15. ASSUME NEW p \in Projects, Refers(p) PROVE MarkersOK'
  BY <1>15 DEF Refers, Goes, FetchRest, fileVars, pinVars, gcVars
<1>16. ASSUME NEW p \in Projects, RecordsPins(p) PROVE MarkersOK'
  BY <1>16 DEF RecordsPins, Goes, FetchRest, fileVars, pinVars, gcVars, Collects
<1> QED
  BY <1>1, <1>2, <1>3, <1>4, <1>5, <1>6, <1>7, <1>8, <1>9, <1>10, <1>11, <1>12, <1>13, <1>14,
     <1>15, <1>16 DEF BlobNext

\* Every step keeps the records and the documents together: a crash between the two
\* is a mishap, and until one every change goes through the project being recorded.
LEMMA PinsStep == ASSUME PinsInv, BlobNext PROVE PinsInv'
<1> USE BlobChunksType DEF PinsInv, RefersOK, Pins
<1>1. ASSUME NEW f \in Downloads, FetchBegins(f) PROVE PinsInv'
  BY <1>1 DEF FetchBegins, Goes, FetchRest, fileVars, pinVars, gcVars
<1>2. ASSUME NEW f \in Downloads, FetchChecks(f) PROVE PinsInv'
  BY <1>2 DEF FetchChecks, Goes, FetchRest, fileVars, pinVars, gcVars
<1>3. ASSUME NEW f \in Downloads, FetchAppends(f) PROVE PinsInv'
  BY <1>3 DEF FetchAppends, Goes, FetchRest, fileVars, pinVars, gcVars
<1>4. ASSUME NEW f \in Downloads, FetchVerifies(f) PROVE PinsInv'
  BY <1>4 DEF FetchVerifies, Goes, FetchRest, fileVars, pinVars, gcVars, FinishFailed
<1>5. ASSUME NEW f \in Downloads, FetchRenames(f) PROVE PinsInv'
  BY <1>5 DEF FetchRenames, Goes, FetchRest, fileVars, pinVars, gcVars, FinishFailed
<1>6. ASSUME NEW f \in Downloads, FetchStoresManifest(f) PROVE PinsInv'
  BY <1>6 DEF FetchStoresManifest, Goes, FetchRest, fileVars, pinVars, gcVars
<1>7. ASSUME NEW f \in Downloads, FetchFails(f) PROVE PinsInv'
  BY <1>7 DEF FetchFails, Goes, FetchRest, fileVars, pinVars, gcVars
<1>8. ASSUME ResolvesPresent PROVE PinsInv'
  BY <1>8 DEF ResolvesPresent, Goes, FetchRest, fileVars, pinVars, gcVars
<1>9. ASSUME ImportPlaces PROVE PinsInv'
  BY <1>9 DEF ImportPlaces, Goes, FetchRest, fileVars, pinVars, gcVars
<1>10. ASSUME ImportStoresManifest PROVE PinsInv'
  BY <1>10 DEF ImportStoresManifest, Goes, FetchRest, fileVars, pinVars, gcVars
<1>11. ASSUME CollectionRemoves PROVE PinsInv'
  BY <1>11 DEF CollectionRemoves, Goes, FetchRest, fileVars, pinVars, gcVars
<1>12. ASSUME GracePasses PROVE PinsInv'
  BY <1>12 DEF GracePasses, Goes, FetchRest, fileVars, pinVars, gcVars
<1>13. ASSUME DayPasses PROVE PinsInv'
  BY <1>13 DEF DayPasses, Goes, FetchRest, fileVars, pinVars, gcVars
<1>14. ASSUME BlobCrash PROVE PinsInv'
  BY <1>14 DEF BlobCrash, Goes, FetchRest, fileVars, pinVars, gcVars
<1>15. ASSUME NEW p \in Projects, Refers(p) PROVE PinsInv'
  BY <1>15 DEF Refers, Goes, FetchRest, fileVars, pinVars, gcVars
<1>16. ASSUME NEW p \in Projects, RecordsPins(p) PROVE PinsInv'
  BY <1>16 DEF RecordsPins, Goes, FetchRest, fileVars, pinVars, gcVars, Collects
<1> QED
  BY <1>1, <1>2, <1>3, <1>4, <1>5, <1>6, <1>7, <1>8, <1>9, <1>10, <1>11, <1>12, <1>13, <1>14,
     <1>15, <1>16 DEF BlobNext

\* With one download at a time nothing is appended between the verification and the
\* rename, and nothing unverified is renamed.
LEMMA RenamesStep == ASSUME FetchTypes, RenamesWhole, OneAtATime, BlobNext PROVE RenamesWhole'
<1> USE FetchFields, FetchMade, WholeType DEF FetchTypes, FetchOK, RenamesWhole, OneAtATime,
      Resting
<1>1. ASSUME NEW f \in Downloads, FetchBegins(f) PROVE RenamesWhole'
  BY <1>1 DEF FetchBegins, Goes, FetchRest, fileVars, pinVars, gcVars
<1>2. ASSUME NEW f \in Downloads, FetchChecks(f) PROVE RenamesWhole'
  BY <1>2 DEF FetchChecks, Goes, FetchRest, fileVars, pinVars, gcVars
<1>3. ASSUME NEW f \in Downloads, FetchAppends(f) PROVE RenamesWhole'
  BY <1>3 DEF FetchAppends, Goes, FetchRest, fileVars, pinVars, gcVars
<1>4. ASSUME NEW f \in Downloads, FetchVerifies(f) PROVE RenamesWhole'
  BY <1>4 DEF FetchVerifies, Goes, FetchRest, fileVars, pinVars, gcVars, FinishFailed
<1>5. ASSUME NEW f \in Downloads, FetchRenames(f) PROVE RenamesWhole'
  BY <1>5 DEF FetchRenames, Goes, FetchRest, fileVars, pinVars, gcVars, FinishFailed
<1>6. ASSUME NEW f \in Downloads, FetchStoresManifest(f) PROVE RenamesWhole'
  BY <1>6 DEF FetchStoresManifest, Goes, FetchRest, fileVars, pinVars, gcVars
<1>7. ASSUME NEW f \in Downloads, FetchFails(f) PROVE RenamesWhole'
  BY <1>7 DEF FetchFails, Goes, FetchRest, fileVars, pinVars, gcVars
<1>8. ASSUME ResolvesPresent PROVE RenamesWhole'
  BY <1>8 DEF ResolvesPresent, Goes, FetchRest, fileVars, pinVars, gcVars
<1>9. ASSUME ImportPlaces PROVE RenamesWhole'
  BY <1>9 DEF ImportPlaces, Goes, FetchRest, fileVars, pinVars, gcVars
<1>10. ASSUME ImportStoresManifest PROVE RenamesWhole'
  BY <1>10 DEF ImportStoresManifest, Goes, FetchRest, fileVars, pinVars, gcVars
<1>11. ASSUME CollectionRemoves PROVE RenamesWhole'
  BY <1>11 DEF CollectionRemoves, Goes, FetchRest, fileVars, pinVars, gcVars
<1>12. ASSUME GracePasses PROVE RenamesWhole'
  BY <1>12 DEF GracePasses, Goes, FetchRest, fileVars, pinVars, gcVars
<1>13. ASSUME DayPasses PROVE RenamesWhole'
  BY <1>13 DEF DayPasses, Goes, FetchRest, fileVars, pinVars, gcVars
<1>14. ASSUME BlobCrash PROVE RenamesWhole'
  BY <1>14 DEF BlobCrash, Goes, FetchRest, fileVars, pinVars, gcVars
<1>15. ASSUME NEW p \in Projects, Refers(p) PROVE RenamesWhole'
  BY <1>15 DEF Refers, Goes, FetchRest, fileVars, pinVars, gcVars
<1>16. ASSUME NEW p \in Projects, RecordsPins(p) PROVE RenamesWhole'
  BY <1>16 DEF RecordsPins, Goes, FetchRest, fileVars, pinVars, gcVars, Collects
<1> QED
  BY <1>1, <1>2, <1>3, <1>4, <1>5, <1>6, <1>7, <1>8, <1>9, <1>10, <1>11, <1>12, <1>13, <1>14,
     <1>15, <1>16 DEF BlobNext

\* Nothing is downloaded or imported at first.
LEMMA BlobTypesInit == ASSUME BlobInit PROVE FetchTypes /\ MarkersOK /\ PinsInv /\ RenamesWhole
  BY BlobChunksType, FetchMade DEF BlobInit, FetchTypes, FetchOK, FilesOK, MarkersOK, PinsInv,
     RefersOK, RenamesWhole, Resting

\* A step of other parts changes nothing here.
LEMMA BlobStutters == ASSUME UNCHANGED blobVars
  PROVE /\ FetchTypes => FetchTypes'
        /\ MarkersOK => MarkersOK'
        /\ PinsInv => PinsInv'
        /\ RenamesWhole => RenamesWhole'
  BY DEF blobVars, fileVars, pinVars, gcVars, FetchTypes, FetchOK, FilesOK, MarkersOK, PinsInv,
     RefersOK, RenamesWhole, Pins

\* The types of files and downloads.
LEMMA BlobTypesHold == BlobSpec => [](FetchTypes /\ MarkersOK)
<1>1. FetchTypes /\ MarkersOK /\ [BlobNext]_blobVars => (FetchTypes /\ MarkersOK)'
  BY FilesStep, FetchStep, MarkersStep, BlobStutters DEF FetchTypes
<1> QED
  BY <1>1, BlobTypesInit, PTL DEF BlobSpec

\* The records follow the documents.
LEMMA PinsHold == BlobSpec => []PinsInv
<1>1. PinsInv /\ [BlobNext]_blobVars => PinsInv'
  BY PinsStep, BlobStutters
<1> QED
  BY <1>1, BlobTypesInit, PTL DEF BlobSpec

\* Every variable of the blobs and their retention stays in its range
\* (collab/blobs.rs).
THEOREM BlobTypes == BlobSpec => []BlobTypeOK
<1>1. FetchTypes /\ MarkersOK /\ PinsInv => BlobTypeOK
  BY DEF FetchTypes, FilesOK, MarkersOK, PinsInv, RefersOK, BlobTypeOK
<1> QED
  BY <1>1, BlobTypesHold, PinsHold, PTL

\* With one download of a file at a time, what has its final name is the whole file,
\* whatever is resumed, cut or restarted (fetch_blob and finish: verification,
\* then rename).  The run of two downloads shows that the hypothesis is needed.
THEOREM OneDownloadStoresWhole ==
  BlobSpec /\ []OneAtATime => []StoredIsWhole
<1>1. FetchTypes /\ OneAtATime /\ RenamesWhole /\ [BlobNext]_blobVars => RenamesWhole'
  BY RenamesStep, BlobStutters
<1>2. RenamesWhole => StoredIsWhole
  BY DEF RenamesWhole, StoredIsWhole
<1> QED
  BY <1>1, <1>2, BlobTypesInit, BlobTypesHold, PTL DEF BlobSpec

\* The collector takes no blob that a document refers to, unless a crash fell between
\* the document and its record (collab/blobs.rs, maybe_gc and gc).
THEOREM NothingReferencedIsCollected == BlobSpec => ReferencedIsKept
<1>1. PinsInv => (CollectionRemoves => ~ Pins(pinned) /\ (blobMishaps = 0 => ~ Pins(refers)))
  BY BlobChunksType DEF PinsInv, CollectionRemoves, Pins
<1> QED
  BY <1>1, PinsHold, PTL DEF ReferencedIsKept

-----------------------------------------------------------------------------
Versions == 0 .. MaxVersions
Window == 0 .. THROTTLE
\* A connection as Discord and the system see it.
PipeLine ==
  [state : {"free", "open", "closed"}, discord : BOOLEAN, greeted : BOOLEAN,
   shown : Versions, window : Window]

FlagsOK ==
  /\ enabled \in BOOLEAN /\ stopped \in BOOLEAN /\ probingPipes \in BOOLEAN
  /\ connected \in BOOLEAN /\ retryArmed \in BOOLEAN /\ pending \in BOOLEAN
NumbersOK ==
  /\ probes \in 0 .. 1 /\ wanted \in 1 .. MaxVersions
  /\ since \in 0 .. THROTTLE /\ throttleIn \in 0 .. NoTimer
LinesOK ==
  /\ sock \in Lines \cup {NoLine} /\ handshakeOf \in Lines \cup {NoLine}
  /\ lines \in [Lines -> PipeLine]
PresenceTypes == FlagsOK /\ NumbersOK /\ LinesOK

IsOpen(l) == lines[l].state = "open"

\* A probe and a held line exclude each other, and only what is held is open.
HeldInv ==
  /\ probingPipes => probes = 1 /\ sock = NoLine
  /\ ~ probingPipes => probes = 0
  /\ \A l \in Lines : IsOpen(l) => l = sock
  /\ stopped \/ ~ enabled => sock = NoLine
  /\ connected => sock # NoLine

\* Discord's window is open whenever the throttle has run out, because it is
\* never shut later than the last send was counted.
WindowInv ==
  /\ \A l \in Lines : IsOpen(l) => since <= lines[l].window
  /\ \A l \in Lines : IsOpen(l) /\ ~ lines[l].greeted => lines[l].window = THROTTLE
  /\ connected /\ IsOpen(sock) => lines[sock].discord /\ lines[sock].greeted
  /\ throttleIn # NoTimer => THROTTLE <= since + throttleIn

PresenceInv ==
  PresenceTypes /\ HeldInv /\ WindowInv /\ PresenceFollows /\ SomebodyReconnects

\* The constants as the proofs use them.
LEMMA ThrottleFacts ==
  /\ THROTTLE \in Nat \ {0} /\ MaxVersions \in Nat \ {0} /\ NoLine \notin Lines
  /\ NoTimer = THROTTLE + 1 /\ Cleared = 0
  BY PresenceAssumption DEF NoTimer, Cleared

\* What a connection is made of.
LEMMA PipeLineFields ==
  ASSUME NEW x \in PipeLine
  PROVE /\ x.state \in {"free", "open", "closed"} /\ x.discord \in BOOLEAN
             /\ x.greeted \in BOOLEAN
        /\ x.shown \in Versions /\ x.window \in Window
  BY DEF PipeLine

Opens(x, b, y) == y = [x EXCEPT !.state = "open", !.discord = b]

\* What a pipe that accepts changes.
LEMMA OpensType ==
  ASSUME NEW x \in PipeLine, NEW b \in BOOLEAN, NEW y, Opens(x, b, y)
  PROVE y \in PipeLine /\ y.state = "open" /\ y.discord = b /\ y.greeted = x.greeted
          /\ y.window = x.window
  BY DEF Opens, PipeLine

\* Connections that nobody has opened, that are open and that are closed.
LEMMA PipeLinesMade ==
  /\ Free \in PipeLine /\ Free.state = "free"
  /\ \A x : Closed(x) \in PipeLine /\ Closed(x).state = "closed"
  /\ \A b \in BOOLEAN :
       LET y == [Free EXCEPT !.state = "open", !.discord = b]
       IN  y \in PipeLine /\ y.state = "open" /\ y.greeted = FALSE /\ y.window = THROTTLE
<1>1. 0 \in Versions /\ THROTTLE \in Window
  BY ThrottleFacts DEF Versions, Window
<1>2. Free \in PipeLine /\ Free.state = "free"
  BY <1>1, ThrottleFacts DEF Free, PipeLine
<1>3. ASSUME NEW x PROVE Closed(x) \in PipeLine /\ Closed(x).state = "closed"
  BY <1>1, ThrottleFacts DEF Free, Closed, PipeLine
<1>4. ASSUME NEW b \in BOOLEAN
      PROVE LET y == [Free EXCEPT !.state = "open", !.discord = b]
            IN  y \in PipeLine /\ y.state = "open" /\ y.greeted = FALSE /\ y.window = THROTTLE
  <2> DEFINE y == [Free EXCEPT !.state = "open", !.discord = b]
  <2>1. Opens(Free, b, y)
    BY DEF Opens
  <2>2. Free.greeted = FALSE /\ Free.window = THROTTLE
    BY DEF Free
  <2> HIDE DEF y
  <2>3. y \in PipeLine /\ y.state = "open" /\ y.greeted = FALSE /\ y.window = THROTTLE
    BY <1>2, <2>1, <2>2, OpensType
  <2> QED
    BY <2>3 DEF y
<1> QED
  BY <1>2, <1>3, <1>4

\* A line that is hung up is closed, and the others stay.
LEMMA HangLines ==
  ASSUME NEW ls \in [Lines -> PipeLine], NEW l \in Lines \cup {NoLine}
  PROVE /\ Hang(ls, l) \in [Lines -> PipeLine]
        /\ \A k \in Lines : \/ Hang(ls, l)[k] = ls[k] /\ (k = l => ls[k].state # "open")
                            \/ Hang(ls, l)[k].state # "open"
<1>1. CASE l # NoLine /\ ls[l].state = "open"
  <2> DEFINE y == Closed(ls[l])
  <2>1. Hang(ls, l) = [ls EXCEPT ![l] = y]
    BY <1>1 DEF Hang
  <2>2. y \in PipeLine /\ y.state = "closed" /\ l \in Lines
    BY <1>1, PipeLinesMade
  <2> HIDE DEF y
  <2> QED
    BY <2>1, <2>2
<1>2. CASE ~ (l # NoLine /\ ls[l].state = "open")
  <2>1. Hang(ls, l) = ls
    BY <1>2 DEF Hang
  <2> QED
    BY <1>2, <2>1, ThrottleFacts
<1> QED
  BY <1>1, <1>2

Shows(x, a, z, y) == y = [x EXCEPT !.shown = a, !.window = z]

\* What an activity that is taken changes.
LEMMA ShowsType ==
  ASSUME NEW x \in PipeLine, NEW a \in Versions, NEW z \in Window, NEW y, Shows(x, a, z, y)
  PROVE /\ y \in PipeLine /\ y.state = x.state /\ y.discord = x.discord /\ y.greeted = x.greeted
        /\ y.shown = a /\ y.window = z
  BY DEF Shows, PipeLine

\* What is sent changes the held line at most, and is shown if Discord takes it.
LEMMA DeliveredLines ==
  ASSUME NEW ls \in [Lines -> PipeLine], NEW a \in Versions, sock \in Lines \cup {NoLine}
  PROVE /\ Delivered(ls, a) \in [Lines -> PipeLine]
        /\ \A k \in Lines :
             \/ Delivered(ls, a)[k] = ls[k] /\ (k = sock
                  => ls[k].state # "open" \/ ~ ls[k].discord \/ ls[k].window # THROTTLE)
             \/ /\ k = sock /\ ls[k].window = THROTTLE
                /\ Delivered(ls, a)[k].state = ls[k].state
                     /\ Delivered(ls, a)[k].discord = ls[k].discord
                /\ Delivered(ls, a)[k].greeted = ls[k].greeted
                /\ Delivered(ls, a)[k].shown = a /\ Delivered(ls, a)[k].window = 0
<1> DEFINE takes == sock # NoLine /\ ls[sock].state = "open" /\ ls[sock].discord
      /\ ls[sock].window = THROTTLE
           y == [ls[sock] EXCEPT !.shown = a, !.window = 0]
<1>1. CASE takes
  <2>1. sock \in Lines /\ ls[sock] \in PipeLine
    BY <1>1
  <2>2. Shows(ls[sock], a, 0, y) /\ 0 \in Window
    BY ThrottleFacts DEF Shows, Window
  <2>3. Delivered(ls, a) = [ls EXCEPT ![sock] = y]
    BY <1>1, <2>1 DEF Delivered
  <2> HIDE DEF y
  <2>4. /\ y \in PipeLine /\ y.state = ls[sock].state /\ y.discord = ls[sock].discord
        /\ y.greeted = ls[sock].greeted /\ y.shown = a /\ y.window = 0
    BY <2>1, <2>2, ShowsType
  <2>5. Delivered(ls, a) \in [Lines -> PipeLine]
        /\ \A k \in Lines : Delivered(ls, a)[k] = IF k = sock THEN y ELSE ls[k]
    BY <2>1, <2>3, <2>4
  <2> QED
    BY <1>1, <2>4, <2>5
<1>2. CASE ~ takes
  <2>1. Delivered(ls, a) = ls
    BY <1>2 DEF Delivered
  <2> QED
    BY <1>2, <2>1, ThrottleFacts
<1> QED
  BY <1>1, <1>2

\* The flags of the presence stay flags.
LEMMA FlagsStep == ASSUME PresenceTypes, PresenceNext PROVE FlagsOK'
<1> USE DEF PresenceTypes, FlagsOK, NumbersOK, LinesOK, Delivered
<1>1. ASSUME NEW l \in Lines, NEW b \in BOOLEAN, ProbeAccepted(l, b) PROVE FlagsOK'
  BY <1>1 DEF ProbeAccepted
<1>2. ASSUME NEW l \in Lines, Ready(l) PROVE FlagsOK'
  BY <1>2 DEF Ready, SendActivity
<1>3. ASSUME NEW l \in Lines, CloseFrame(l) PROVE FlagsOK'
  BY <1>3 DEF CloseFrame, Teardown, ScheduleRetry
<1>4. ASSUME NEW l \in Lines, Drops(l) PROVE FlagsOK'
  BY <1>4 DEF Drops
<1>5. ASSUME NEW l \in Lines, CloseEvent(l) PROVE FlagsOK'
  BY <1>5 DEF CloseEvent, ScheduleRetry
<1>6. ASSUME ProbeEnds PROVE FlagsOK'
  BY <1>6 DEF ProbeEnds, ScheduleRetry
<1>7. ASSUME HandshakeTimeout PROVE FlagsOK'
  BY <1>7 DEF HandshakeTimeout, Teardown, ScheduleRetry
<1>8. ASSUME RetryTimeout PROVE FlagsOK'
  BY <1>8 DEF RetryTimeout, Connect
<1>9. ASSUME ThrottleTimeout PROVE FlagsOK'
  BY <1>9 DEF ThrottleTimeout, SendActivity
<1>10. ASSUME Changes PROVE FlagsOK'
  BY <1>10 DEF Changes, PushThrottled, SendActivity
<1>11. ASSUME SwitchOff PROVE FlagsOK'
  BY <1>11 DEF SwitchOff, Clears, TeardownQuiet
<1>12. ASSUME SwitchOn PROVE FlagsOK'
  BY <1>12 DEF SwitchOn, Connect
<1>13. ASSUME PresenceStops PROVE FlagsOK'
  BY <1>13 DEF PresenceStops, TeardownQuiet
<1>14. ASSUME Tick PROVE FlagsOK'
  BY <1>14 DEF Tick
<1> QED
  BY <1>1, <1>2, <1>3, <1>4, <1>5, <1>6, <1>7, <1>8, <1>9, <1>10, <1>11, <1>12, <1>13, <1>14
     DEF PresenceNext

\* The counters of the presence stay in their ranges: a second probe needs a free
\* flag, which the probe in flight holds.
LEMMA NumbersStep == ASSUME PresenceTypes, HeldInv, PresenceNext PROVE NumbersOK'
<1> USE ThrottleFacts DEF PresenceTypes, FlagsOK, NumbersOK, LinesOK, HeldInv
<1>1. ASSUME NEW l \in Lines, NEW b \in BOOLEAN, ProbeAccepted(l, b) PROVE NumbersOK'
  BY <1>1 DEF ProbeAccepted
<1>2. ASSUME NEW l \in Lines, Ready(l) PROVE NumbersOK'
  BY <1>2 DEF Ready, SendActivity
<1>3. ASSUME NEW l \in Lines, CloseFrame(l) PROVE NumbersOK'
  BY <1>3 DEF CloseFrame, Teardown, ScheduleRetry
<1>4. ASSUME NEW l \in Lines, Drops(l) PROVE NumbersOK'
  BY <1>4 DEF Drops
<1>5. ASSUME NEW l \in Lines, CloseEvent(l) PROVE NumbersOK'
  BY <1>5 DEF CloseEvent, ScheduleRetry
<1>6. ASSUME ProbeEnds PROVE NumbersOK'
  BY <1>6 DEF ProbeEnds, ScheduleRetry
<1>7. ASSUME HandshakeTimeout PROVE NumbersOK'
  BY <1>7 DEF HandshakeTimeout, Teardown, ScheduleRetry
<1>8. ASSUME RetryTimeout PROVE NumbersOK'
  BY <1>8 DEF RetryTimeout, Connect
<1>9. ASSUME ThrottleTimeout PROVE NumbersOK'
  BY <1>9 DEF ThrottleTimeout, SendActivity
<1>10. ASSUME Changes PROVE NumbersOK'
  BY <1>10 DEF Changes, PushThrottled, SendActivity
<1>11. ASSUME SwitchOff PROVE NumbersOK'
  BY <1>11 DEF SwitchOff, Clears, TeardownQuiet
<1>12. ASSUME SwitchOn PROVE NumbersOK'
  BY <1>12 DEF SwitchOn, Connect
<1>13. ASSUME PresenceStops PROVE NumbersOK'
  BY <1>13 DEF PresenceStops, TeardownQuiet
<1>14. ASSUME Tick PROVE NumbersOK'
  BY <1>14 DEF Tick
<1> QED
  BY <1>1, <1>2, <1>3, <1>4, <1>5, <1>6, <1>7, <1>8, <1>9, <1>10, <1>11, <1>12, <1>13, <1>14
     DEF PresenceNext

\* A step that closes lines at most, the held one if it is let go.
ClosesLines ==
  /\ LinesOK'
  /\ \A k \in Lines : lines'[k] = lines[k] \/ lines'[k].state # "open"
  /\ sock' \in {sock, NoLine} /\ (connected' => connected /\ sock' = sock)
  /\ \A k \in Lines : k = sock /\ sock' # sock => lines'[k].state # "open"
  /\ UNCHANGED wanted
  /\ \/ UNCHANGED <<since, pending, throttleIn>>
     \/ ~ connected' /\ throttleIn' = NoTimer /\ since' \in 0 .. THROTTLE
        /\ \A k \in Lines : lines'[k].state # "open"

\* teardown() hangs up one line and lets go of it.
LEMMA TeardownCloses ==
  ASSUME PresenceTypes, HeldInv, NEW s \in Lines \cup {NoLine}, Teardown(s),
         UNCHANGED <<wanted, since, pending, throttleIn>>
  PROVE ClosesLines
<1> USE DEF PresenceTypes, LinesOK
<1>1. CASE s # NoLine /\ sock # NoLine /\ s # sock
  <2>1. lines' = Hang(lines, s) /\ UNCHANGED <<handshakeOf, sock, connected>>
    BY <1>1 DEF Teardown
  <2> QED
    BY <2>1, HangLines DEF ClosesLines
<1>2. CASE ~ (s # NoLine /\ sock # NoLine /\ s # sock)
  <2>1. lines' = Hang(lines, sock) /\ handshakeOf' = NoLine /\ sock' = NoLine /\ ~ connected'
    BY <1>2 DEF Teardown
  <2> QED
    BY <2>1, HangLines DEF ClosesLines
<1> QED
  BY <1>1, <1>2

\* The presence is cleared, and the line it was shown over is hung up.
LEMMA ClearingCloses ==
  ASSUME PresenceTypes, HeldInv, TeardownQuiet, UNCHANGED wanted,
         lines' = Hang(Delivered(lines, Cleared), sock) \/ lines' = Hang(lines, sock),
         \/ UNCHANGED <<since, pending, throttleIn>>
         \/ throttleIn' = NoTimer /\ since' \in {0, since}
  PROVE ClosesLines
<1>0. /\ \A k \in Lines : lines[k].state = "open" => k = sock
      /\ {0, since} \subseteq 0 .. THROTTLE
  BY ThrottleFacts DEF HeldInv, IsOpen, PresenceTypes, NumbersOK
<1> USE DEF PresenceTypes, LinesOK
<1>1. handshakeOf' = NoLine /\ sock' = NoLine /\ ~ connected'
  BY DEF TeardownQuiet
<1>2. CASE lines' = Hang(lines, sock)
  BY <1>0, <1>1, <1>2, HangLines DEF ClosesLines
<1>3. CASE lines' = Hang(Delivered(lines, Cleared), sock)
  <2> DEFINE ls == Delivered(lines, Cleared)
  <2>1. Cleared \in Versions
    BY ThrottleFacts DEF Versions
  <2>2. ls \in [Lines -> PipeLine] /\ \A k \in Lines : k # sock => ls[k] = lines[k]
    BY <2>1, DeliveredLines
  <2> HIDE DEF ls
  <2>3. lines' = Hang(ls, sock)
    BY <1>3 DEF ls
  <2> QED
    BY <1>0, <1>1, <2>2, <2>3, HangLines DEF ClosesLines
<1> QED
  BY <1>2, <1>3

\* What ends or marks a connection closes lines at most.
LEMMA ClosingSteps ==
  ASSUME PresenceTypes, HeldInv,
         \/ \E l \in Lines : CloseFrame(l) \/ Drops(l) \/ CloseEvent(l)
         \/ HandshakeTimeout \/ SwitchOff \/ PresenceStops
  PROVE ClosesLines
<1> USE DEF PresenceTypes, LinesOK
<1>1. ASSUME NEW l \in Lines, CloseFrame(l) PROVE ClosesLines
  BY <1>1, TeardownCloses DEF CloseFrame
<1>2. ASSUME NEW l \in Lines, Drops(l) PROVE ClosesLines
  BY <1>2, HangLines DEF Drops, ClosesLines
<1>3. ASSUME NEW l \in Lines, CloseEvent(l) PROVE ClosesLines
  <2>1. lines' = [lines EXCEPT ![l] = Free] /\ Free \in PipeLine /\ Free.state # "open"
    BY <1>3, PipeLinesMade DEF CloseEvent
  <2>2. \/ sock \in {NoLine, l} /\ handshakeOf' = NoLine /\ sock' = NoLine /\ ~ connected'
        \/ UNCHANGED <<handshakeOf, sock, connected>>
    BY <1>3 DEF CloseEvent
  <2>3. UNCHANGED <<wanted, since, pending, throttleIn>>
    BY <1>3 DEF CloseEvent
  <2> QED
    BY <2>1, <2>2, <2>3, ThrottleFacts DEF ClosesLines
<1>4. CASE HandshakeTimeout
  <2>1. CASE connected
    BY <1>4, <2>1 DEF HandshakeTimeout, ClosesLines
  <2>2. CASE ~ connected
    BY <1>4, <2>2, TeardownCloses DEF HandshakeTimeout
  <2> QED
    BY <2>1, <2>2
<1>5. CASE SwitchOff
  BY <1>5, ClearingCloses DEF SwitchOff, Clears
<1>6. CASE PresenceStops
  BY <1>6, ClearingCloses DEF PresenceStops
<1> QED
  BY <1>1, <1>2, <1>3, <1>4, <1>5, <1>6

\* What is sent once the throttle has run out is taken, if the line is open.
SendsOver(ls) ==
  /\ lines' = Delivered(ls, wanted') /\ since' = 0 /\ ~ pending' /\ throttleIn' = NoTimer
  /\ sock' = sock /\ handshakeOf' \in {handshakeOf, NoLine} /\ connected'

\* What is sent while the window is open is shown.
LEMMA SendsShow ==
  ASSUME PresenceTypes, HeldInv, wanted' \in Versions, NEW ls \in [Lines -> PipeLine], SendsOver(ls),
         \A k \in Lines : ls[k].state = lines[k].state,
         IsOpen(sock) => ls[sock].window = THROTTLE /\ ls[sock].discord /\ ls[sock].greeted,
         sock # NoLine
  PROVE /\ LinesOK' /\ PresenceFollows'
        /\ \A k \in Lines : lines'[k].state = lines[k].state
        /\ IsOpen(sock)' => lines'[sock].discord /\ lines'[sock].greeted
        /\ \A k \in Lines : IsOpen(k)' => since' <= lines'[k].window
<1> USE DEF PresenceTypes, LinesOK
<1>1. sock \in Lines /\ sock' = sock
  BY DEF SendsOver
<1>2. /\ lines' \in [Lines -> PipeLine]
      /\ \A k \in Lines :
           \/ lines'[k] = ls[k]
                /\ (k = sock => ls[k].state # "open" \/ ~ ls[k].discord
                     \/ ls[k].window # THROTTLE)
           \/ /\ k = sock /\ ls[k].window = THROTTLE
              /\ lines'[k].state = ls[k].state /\ lines'[k].discord = ls[k].discord
              /\ lines'[k].greeted = ls[k].greeted
              /\ lines'[k].shown = wanted' /\ lines'[k].window = 0
  BY DeliveredLines DEF SendsOver
<1>3. \A k \in Lines : lines'[k].state = lines[k].state
  BY <1>2
<1>4. IsOpen(sock)' => lines'[sock].shown = wanted' /\ lines'[sock].discord
        /\ lines'[sock].greeted
  BY <1>1, <1>2, <1>3 DEF IsOpen
<1>5. \A k \in Lines : lines'[k].window \in 0 .. THROTTLE
  BY <1>2, PipeLineFields DEF Window
<1> QED
  BY <1>1, <1>2, <1>3, <1>4, <1>5, ThrottleFacts DEF SendsOver, PresenceFollows, IsOpen

OpenIsHeld ==
  /\ \A l \in Lines : IsOpen(l) => l = sock
  /\ connected => sock # NoLine

\* What the steps below keep together.
LineInv == LinesOK /\ OpenIsHeld /\ WindowInv /\ PresenceFollows

\* Closing lines keeps what is said of the open ones.
LEMMA ClosingKeeps ==
  ASSUME PresenceTypes, LineInv, ClosesLines PROVE LineInv'
<1> USE DEF LineInv, ClosesLines
<1>1. OpenIsHeld'
  BY DEF OpenIsHeld, IsOpen
<1>2. ASSUME NEW l \in Lines, IsOpen(l)'
      PROVE IsOpen(l) /\ lines'[l] = lines[l] /\ l = sock /\ sock' = sock
              /\ UNCHANGED <<since, pending, throttleIn>>
  BY <1>2 DEF OpenIsHeld, IsOpen
<1>3. \A l \in Lines : IsOpen(l)' => since' <= lines'[l].window
  BY <1>2 DEF WindowInv
<1>4. \A l \in Lines : IsOpen(l)' /\ ~ lines'[l].greeted => lines'[l].window = THROTTLE
  BY <1>2 DEF WindowInv
<1>5. connected' /\ IsOpen(sock)' => lines'[sock'].discord /\ lines'[sock'].greeted
  <2>1. HAVE connected' /\ IsOpen(sock)'
  <2>2. sock \in Lines /\ sock' = sock
    BY <2>1 DEF OpenIsHeld, PresenceTypes, LinesOK
  <2> QED
    BY <1>2, <2>1, <2>2 DEF WindowInv
<1>6. throttleIn' # NoTimer => THROTTLE <= since' + throttleIn'
  BY DEF WindowInv
<1>7. PresenceFollows'
  <2>1. SUFFICES ASSUME connected', lines'[sock'].state = "open"
                          PROVE lines'[sock'].shown = wanted' \/ (pending'
                                  /\ throttleIn' # NoTimer)
    BY DEF PresenceFollows
  <2>2. sock \in Lines /\ sock' = sock /\ connected
    BY <2>1 DEF OpenIsHeld, PresenceTypes, LinesOK
  <2>3. lines'[sock] = lines[sock] /\ UNCHANGED <<since, pending, throttleIn>>
    BY <1>2, <2>1, <2>2 DEF IsOpen
  <2>4. lines[sock].state = "open" /\ connected
    BY <2>1, <2>2, <2>3
  <2>5. lines[sock].shown = wanted \/ (pending /\ throttleIn # NoTimer)
    BY <2>4, Zenon DEF PresenceFollows
  <2> QED
    BY <2>1, <2>2, <2>3, <2>5 DEF PresenceTypes, FlagsOK
<1> HIDE DEF ClosesLines
<1>8. WindowInv'
  BY <1>3, <1>4, <1>5, <1>6 DEF WindowInv, IsOpen
<1>9. LinesOK'
  BY DEF ClosesLines
<1> QED
  BY <1>1, <1>7, <1>8, <1>9

\* Sending into an open window keeps it too.
LEMMA SendingKeeps ==
  ASSUME PresenceTypes, HeldInv, LineInv, wanted' \in Versions, NEW ls \in [Lines -> PipeLine],
           SendsOver(ls),
         \A k \in Lines : ls[k].state = lines[k].state,
         IsOpen(sock) => ls[sock].window = THROTTLE /\ ls[sock].discord /\ ls[sock].greeted,
         sock # NoLine
  PROVE LineInv'
<1>1. /\ LinesOK' /\ PresenceFollows'
      /\ \A k \in Lines : lines'[k].state = lines[k].state
      /\ IsOpen(sock)' => lines'[sock].discord /\ lines'[sock].greeted
      /\ \A k \in Lines : IsOpen(k)' => since' <= lines'[k].window
  BY SendsShow
<1>2. sock' = sock /\ throttleIn' = NoTimer
  BY DEF SendsOver
<1>3. OpenIsHeld'
  BY <1>1, <1>2 DEF LineInv, OpenIsHeld, IsOpen
<1>4. \A k \in Lines : IsOpen(k)' => lines'[k].greeted
  BY <1>1, <1>2, <1>3 DEF OpenIsHeld, IsOpen
<1>5. WindowInv'
  BY <1>1, <1>2, <1>4 DEF WindowInv, IsOpen
<1> QED
  BY <1>1, <1>3, <1>5 DEF LineInv

\* A send finds the window open: READY by the line's newness, the others by the
\* throttle.
LEMMA SendingSteps ==
  ASSUME PresenceTypes, HeldInv, LineInv, NumbersOK',
         \/ \E l \in Lines : Ready(l)
         \/ ThrottleTimeout /\ pending /\ connected
         \/ Changes /\ connected /\ since = THROTTLE
  PROVE LineInv'
<1>1. wanted' \in Versions /\ sock \in Lines \cup {NoLine} /\ lines \in [Lines -> PipeLine]
  BY DEF NumbersOK, Versions, PresenceTypes, LinesOK
<1>2. connected => sock # NoLine
  BY DEF LineInv, OpenIsHeld
<1>3. ASSUME NEW l \in Lines, Ready(l) PROVE LineInv'
  <2> DEFINE y == [lines[l] EXCEPT !.greeted = TRUE]
             ls == [lines EXCEPT ![l] = y]
  <2>1. /\ lines[l].state = "open" /\ lines[l].discord /\ ~ lines[l].greeted
        /\ connected' /\ handshakeOf' = NoLine /\ UNCHANGED <<sock, wanted>>
        /\ lines' = Delivered(ls, wanted) /\ since' = 0 /\ ~ pending' /\ throttleIn' = NoTimer
    BY <1>3 DEF Ready, SendActivity
  <2>2. l = sock /\ lines[l].window = THROTTLE
    BY <2>1 DEF LineInv, OpenIsHeld, WindowInv, IsOpen
  <2>3. /\ y \in PipeLine /\ y.state = lines[l].state /\ y.discord = lines[l].discord /\ y.greeted
        /\ y.window = lines[l].window
    BY <1>1 DEF PipeLine
  <2> HIDE DEF y
  <2>4. ls \in [Lines -> PipeLine] /\ ls[l] = y /\ \A k \in Lines : k # l => ls[k] = lines[k]
    BY <1>1, <2>3
  <2> HIDE DEF ls
  <2>5. SendsOver(ls)
    BY <1>3, <2>1 DEF SendsOver, Ready
  <2>6. ls[sock].window = THROTTLE /\ ls[sock].discord /\ ls[sock].greeted
    BY <2>1, <2>2, <2>3, <2>4
  <2>7. \A k \in Lines : ls[k].state = lines[k].state
    BY <2>3, <2>4
  <2>8. sock # NoLine
    BY <2>2, ThrottleFacts
  <2> QED
    BY <1>1, <2>4, <2>5, <2>6, <2>7, <2>8, SendingKeeps
<1>4. ASSUME SendsOver(lines), connected, since = THROTTLE PROVE LineInv'
  <2>1. ASSUME IsOpen(sock)
        PROVE lines[sock].window = THROTTLE /\ lines[sock].discord /\ lines[sock].greeted
    <3>1. sock \in Lines
      BY <1>1, <1>2, <1>4
    <3>2. lines[sock].window \in Window /\ since <= lines[sock].window
      BY <1>1, <2>1, <3>1, PipeLineFields DEF LineInv, WindowInv
    <3>3. lines[sock].window = THROTTLE
      BY <1>4, <3>2, ThrottleFacts DEF Window
    <3> QED
      BY <1>4, <2>1, <3>3 DEF LineInv, WindowInv
  <2> QED
    BY <1>1, <1>2, <1>4, <2>1, SendingKeeps
<1>5. ASSUME ThrottleTimeout, pending, connected PROVE LineInv'
  <2>1. SendsOver(lines)
    BY <1>5 DEF ThrottleTimeout, SendActivity, SendsOver
  <2>2. throttleIn = 0 /\ since \in 0 .. THROTTLE
    BY <1>5 DEF ThrottleTimeout, PresenceTypes, NumbersOK
  <2>3. since = THROTTLE
    BY <2>2, ThrottleFacts DEF LineInv, WindowInv
  <2> QED
    BY <1>4, <1>5, <2>1, <2>3
<1>6. ASSUME Changes, connected, since = THROTTLE PROVE LineInv'
  <2>1. SendsOver(lines)
    BY <1>6 DEF Changes, PushThrottled, SendActivity, SendsOver
  <2> QED
    BY <1>4, <1>6, <2>1
<1> QED
  BY <1>3, <1>5, <1>6

\* A pipe that accepts is held as the one open line, and is not connected yet.
LEMMA AcceptingKeeps ==
  ASSUME PresenceTypes, HeldInv, LineInv, NEW l \in Lines, NEW b \in BOOLEAN, ProbeAccepted(l, b)
  PROVE LineInv'
<1>1. UNCHANGED <<connected, wanted, since, pending, throttleIn>> /\ probes > 0
  BY DEF ProbeAccepted
<1>2. sock = NoLine /\ ~ connected
  BY <1>1 DEF HeldInv, PresenceTypes, FlagsOK
<1>3. CASE stopped \/ ~ enabled
  <2>1. UNCHANGED <<sock, lines, handshakeOf>>
    BY <1>3 DEF ProbeAccepted
  <2> QED
    BY <1>1, <2>1 DEF LineInv, LinesOK, OpenIsHeld, WindowInv, PresenceFollows, IsOpen
<1>4. CASE ~ (stopped \/ ~ enabled)
  <2> DEFINE y == [Free EXCEPT !.state = "open", !.discord = b]
  <2>1. sock' = l /\ handshakeOf' = l /\ lines' = [lines EXCEPT ![l] = y]
    BY <1>4 DEF ProbeAccepted
  <2>2. y \in PipeLine /\ y.state = "open" /\ y.greeted = FALSE /\ y.window = THROTTLE
    BY PipeLinesMade
  <2> HIDE DEF y
  <2>3. lines' \in [Lines -> PipeLine] /\ lines'[l] = y /\ \A k \in Lines : k # l
          => lines'[k] = lines[k]
    BY <2>1, <2>2 DEF PresenceTypes, LinesOK
  <2>4. \A k \in Lines : k # l => lines'[k].state # "open"
    BY <1>2, <2>3, ThrottleFacts DEF LineInv, OpenIsHeld, IsOpen
  <2>5. LinesOK'
    BY <2>1, <2>3 DEF LinesOK
  <2>6. OpenIsHeld'
    BY <1>1, <1>2, <2>1, <2>4 DEF OpenIsHeld, IsOpen
  <2>7. since' <= THROTTLE
    BY <1>1, ThrottleFacts DEF PresenceTypes, NumbersOK
  <2>8. WindowInv'
    BY <1>1, <1>2, <2>1, <2>2, <2>3, <2>4, <2>7 DEF LineInv, WindowInv, IsOpen
  <2>9. PresenceFollows'
    BY <1>1, <1>2 DEF PresenceFollows
  <2> QED
    BY <2>5, <2>6, <2>8, <2>9 DEF LineInv
<1> QED
  BY <1>3, <1>4

\* A change that has to wait is pending, with a timer that ends with the window.
LEMMA WaitingKeeps ==
  ASSUME PresenceTypes, HeldInv, LineInv, NumbersOK',
         \/ ThrottleTimeout /\ ~ (pending /\ connected)
         \/ Changes /\ ~ (connected /\ since = THROTTLE)
  PROVE LineInv'
<1>1. UNCHANGED <<sock, connected, lines, handshakeOf, since>>
  BY DEF ThrottleTimeout, Changes, PushThrottled
<1>2. LinesOK' /\ OpenIsHeld'
  BY <1>1 DEF LineInv, LinesOK, OpenIsHeld, IsOpen
<1>3. throttleIn' # NoTimer => THROTTLE <= since' + throttleIn'
  <2>1. since \in 0 .. THROTTLE /\ throttleIn \in 0 .. NoTimer
    BY DEF PresenceTypes, NumbersOK
  <2>2. throttleIn' \in {NoTimer, throttleIn} \/ throttleIn' = THROTTLE - since
    BY DEF ThrottleTimeout, Changes, PushThrottled
  <2> QED
    BY <1>1, <2>1, <2>2, ThrottleFacts DEF LineInv, WindowInv
<1>4. WindowInv'
  BY <1>1, <1>3 DEF LineInv, WindowInv, IsOpen
<1>5. PresenceFollows'
  <2>1. CASE ThrottleTimeout /\ ~ (pending /\ connected)
    BY <1>1, <2>1 DEF LineInv, PresenceFollows, ThrottleTimeout
  <2>2. CASE Changes /\ ~ (connected /\ since = THROTTLE)
    <3>1. CASE ~ connected
      BY <1>1, <3>1 DEF PresenceFollows
    <3>2. CASE connected
      <4>1. pending' /\ throttleIn' = IF throttleIn
              = NoTimer THEN THROTTLE - since ELSE throttleIn
        BY <2>2, <3>2 DEF Changes, PushThrottled
      <4>2. throttleIn' # NoTimer
        BY <4>1, ThrottleFacts DEF PresenceTypes, NumbersOK
      <4> QED
        BY <4>1, <4>2 DEF PresenceFollows
    <3> QED
      BY <3>1, <3>2
  <2> QED
    BY <2>1, <2>2
<1> QED
  BY <1>2, <1>4, <1>5 DEF LineInv

Ticks(x, z, y) == y = [x EXCEPT !.window = z]

\* What time changes in a line.
LEMMA TicksType ==
  ASSUME NEW x \in PipeLine, NEW z \in Window, NEW y, Ticks(x, z, y)
  PROVE /\ y \in PipeLine /\ y.state = x.state /\ y.discord = x.discord /\ y.greeted = x.greeted
        /\ y.shown = x.shown /\ y.window = z
  BY DEF Ticks, PipeLine

\* Time passes for the windows of Discord and for the throttle at once.
LEMMA TickingKeeps ==
  ASSUME PresenceTypes, HeldInv, LineInv, Tick PROVE LineInv'
<1>1. /\ since' = (IF since < THROTTLE THEN since + 1 ELSE since)
      /\ throttleIn' = IF throttleIn \in 1 .. THROTTLE THEN throttleIn - 1 ELSE throttleIn
      /\ UNCHANGED <<sock, connected, handshakeOf, wanted, pending>>
  BY DEF Tick
<1>2. since \in 0 .. THROTTLE /\ throttleIn \in 0 .. NoTimer /\ lines \in [Lines -> PipeLine]
      /\ sock \in Lines \cup {NoLine}
  BY DEF PresenceTypes, NumbersOK, LinesOK
<1>3. ASSUME NEW l \in Lines
      PROVE /\ lines'[l] \in PipeLine /\ lines'[l].state = lines[l].state
            /\ lines'[l].discord = lines[l].discord /\ lines'[l].greeted = lines[l].greeted
            /\ lines'[l].shown = lines[l].shown
            /\ lines'[l].window = IF lines[l].window < THROTTLE THEN lines[l].window + 1 ELSE
                 lines[l].window
  <2>1. lines[l] \in PipeLine /\ lines[l].window \in 0 .. THROTTLE
    BY <1>2, PipeLineFields DEF Window
  <2>2. CASE lines[l].window < THROTTLE
    <3> DEFINE y == lines'[l]
    <3>1. Ticks(lines[l], lines[l].window + 1, y)
      BY <2>2 DEF Tick, Ticks
    <3>2. lines[l].window + 1 \in Window
      BY <2>1, <2>2, ThrottleFacts DEF Window
    <3> HIDE DEF y
    <3>3. /\ y \in PipeLine /\ y.state = lines[l].state /\ y.discord = lines[l].discord
          /\ y.greeted = lines[l].greeted /\ y.shown = lines[l].shown
               /\ y.window = lines[l].window + 1
      BY <2>1, <3>1, <3>2, TicksType
    <3> QED
      BY <2>2, <3>3 DEF y
  <2>3. CASE ~ (lines[l].window < THROTTLE)
    BY <2>1, <2>3 DEF Tick
  <2> QED
    BY <2>2, <2>3
<1>4. lines' \in [Lines -> PipeLine]
  <2>1. lines' = [l \in Lines |-> lines'[l]]
    BY DEF Tick
  <2> QED
    BY <1>3, <2>1
<1>5. LinesOK'
  BY <1>1, <1>4 DEF LineInv, LinesOK
<1>6. OpenIsHeld'
  BY <1>1, <1>3 DEF LineInv, OpenIsHeld, IsOpen
<1>7. ASSUME NEW l \in Lines, IsOpen(l)' PROVE since' <= lines'[l].window
  <2>1. lines[l].window \in 0 .. THROTTLE /\ since <= lines[l].window
    BY <1>2, <1>3, <1>7, PipeLineFields DEF LineInv, WindowInv, IsOpen, Window
  <2> QED
    BY <1>1, <1>2, <1>3, <2>1, ThrottleFacts
<1>8. ASSUME NEW l \in Lines, IsOpen(l)', ~ lines'[l].greeted PROVE lines'[l].window = THROTTLE
  BY <1>3, <1>8, ThrottleFacts DEF LineInv, WindowInv, IsOpen
<1>9. connected' /\ IsOpen(sock)' => lines'[sock].discord /\ lines'[sock].greeted
  BY <1>1, <1>2, <1>3 DEF LineInv, OpenIsHeld, WindowInv, IsOpen
<1>10. throttleIn' # NoTimer => THROTTLE <= since' + throttleIn'
  BY <1>1, <1>2, ThrottleFacts DEF LineInv, WindowInv
<1>11. WindowInv'
  BY <1>1, <1>7, <1>8, <1>9, <1>10 DEF WindowInv, IsOpen
<1>12. PresenceFollows'
  <2>1. SUFFICES ASSUME connected', lines'[sock'].state = "open"
                 PROVE lines'[sock'].shown = wanted' \/ (pending' /\ throttleIn' # NoTimer)
    BY DEF PresenceFollows
  <2>2. sock \in Lines /\ sock' = sock /\ connected
    BY <1>1, <1>2, <2>1 DEF LineInv, OpenIsHeld
  <2>0. lines[sock].state = "open"
    BY <1>3, <2>1, <2>2
  <2>3. lines[sock].shown = wanted \/ (pending /\ throttleIn # NoTimer)
    BY <2>0, <2>2, Zenon DEF LineInv, PresenceFollows
  <2>4. throttleIn # NoTimer => throttleIn' # NoTimer
    BY <1>1, <1>2, ThrottleFacts
  <2> QED
    BY <1>1, <1>3, <2>2, <2>3, <2>4
<1> QED
  BY <1>5, <1>6, <1>11, <1>12 DEF LineInv

\* Every step keeps what is said of the lines.
LEMMA LineStep ==
  ASSUME PresenceTypes, HeldInv, LineInv, NumbersOK', PresenceNext PROVE LineInv'
<1>1. ASSUME NEW l \in Lines, NEW b \in BOOLEAN, ProbeAccepted(l, b) PROVE LineInv'
  BY <1>1, AcceptingKeeps
<1>2. ASSUME NEW l \in Lines, Ready(l) PROVE LineInv'
  BY <1>2, SendingSteps
<1>3. ASSUME \/ \E l \in Lines : CloseFrame(l) \/ Drops(l) \/ CloseEvent(l)
             \/ HandshakeTimeout \/ SwitchOff \/ PresenceStops
      PROVE LineInv'
  BY <1>3, ClosingSteps, ClosingKeeps
<1>4. ASSUME ProbeEnds \/ RetryTimeout \/ SwitchOn PROVE LineInv'
  <2>1. UNCHANGED <<sock, connected, lines, handshakeOf, wanted, since, pending, throttleIn>>
    BY <1>4 DEF ProbeEnds, RetryTimeout, SwitchOn
  <2> QED
    BY <2>1 DEF LineInv, LinesOK, OpenIsHeld, WindowInv, PresenceFollows, IsOpen
<1>5. CASE ThrottleTimeout
  BY <1>5, SendingSteps, WaitingKeeps
<1>6. CASE Changes
  BY <1>6, SendingSteps, WaitingKeeps
<1>7. CASE Tick
  BY <1>7, TickingKeeps
<1> QED
  BY <1>1, <1>2, <1>3, <1>4, <1>5, <1>6, <1>7 DEF PresenceNext

\* A probe runs only while nothing is held, and the switch lets go of the line.
LEMMA ReleasedStep ==
  ASSUME PresenceTypes, HeldInv, NumbersOK', PresenceNext
  PROVE /\ probingPipes' => probes' = 1 /\ sock' = NoLine
        /\ ~ probingPipes' => probes' = 0
        /\ stopped' \/ ~ enabled' => sock' = NoLine
<1> DEFINE R == /\ probingPipes' => probes' = 1 /\ sock' = NoLine
                /\ ~ probingPipes' => probes' = 0
                /\ stopped' \/ ~ enabled' => sock' = NoLine
<1>0. /\ probingPipes => probes = 1 /\ sock = NoLine
      /\ ~ probingPipes => probes = 0
      /\ stopped \/ ~ enabled => sock = NoLine
      /\ connected => sock # NoLine
  BY DEF HeldInv
<1>1. ASSUME UNCHANGED <<probingPipes, probes, enabled, stopped>>, sock' \in {sock, NoLine}
               PROVE R
  BY <1>0, <1>1
<1>2. ASSUME NEW l \in Lines, CloseFrame(l) PROVE R
  BY <1>1, <1>2 DEF CloseFrame, Teardown
<1>3. ASSUME NEW l \in Lines, CloseEvent(l) PROVE R
  BY <1>1, <1>3 DEF CloseEvent
<1>4. CASE HandshakeTimeout
  BY <1>1, <1>4 DEF HandshakeTimeout, Teardown
<1>5. ASSUME \/ \E l \in Lines : Ready(l) \/ Drops(l)
             \/ ThrottleTimeout \/ Changes \/ Tick
      PROVE R
  BY <1>1, <1>5 DEF Ready, Drops, ThrottleTimeout, Changes, Tick
<1>6. ASSUME NEW l \in Lines, NEW b \in BOOLEAN, ProbeAccepted(l, b) PROVE R
  <2>1. probes = 1 /\ sock = NoLine
    BY <1>0, <1>6 DEF ProbeAccepted, PresenceTypes, FlagsOK
  <2>2. ~ probingPipes' /\ probes' = 0 /\ UNCHANGED <<enabled, stopped>>
    BY <1>6, <2>1 DEF ProbeAccepted
  <2>3. stopped \/ ~ enabled => sock' = sock
    BY <1>6 DEF ProbeAccepted
  <2> QED
    BY <2>1, <2>2, <2>3
<1>7. CASE ProbeEnds
  <2>1. probes = 1 /\ sock = NoLine
    BY <1>0, <1>7 DEF ProbeEnds, PresenceTypes, FlagsOK
  <2> QED
    BY <1>7, <2>1 DEF ProbeEnds
<1>8. CASE RetryTimeout \/ SwitchOn
  <2>1. sock' = sock /\ stopped' = stopped /\ (enabled => enabled')
    <3>1. CASE RetryTimeout
      BY <3>1, Zenon DEF RetryTimeout
    <3>2. CASE SwitchOn
      BY <3>2, Zenon DEF SwitchOn
    <3> QED
      BY <1>8, <3>1, <3>2
  <2>2. PICK on \in BOOLEAN : Connect(on) /\ (on => enabled')
    BY <1>8 DEF RetryTimeout, SwitchOn, PresenceTypes, FlagsOK
  <2>3. stopped' \/ ~ enabled' => sock' = NoLine
    BY <1>0, <2>1
  <2>4. CASE on /\ ~ stopped /\ sock = NoLine /\ ~ probingPipes
    <3>1. probes' = 1
      BY <1>0, <2>2, <2>4 DEF Connect
    <3>2. probingPipes'
      BY <2>2, <2>4, Zenon DEF Connect
    <3> QED
      BY <2>1, <2>3, <2>4, <3>1, <3>2
  <2>5. CASE ~ (on /\ ~ stopped /\ sock = NoLine /\ ~ probingPipes)
    <3>1. probes' = probes /\ probingPipes' = probingPipes
      BY <2>2, <2>5 DEF Connect, PresenceTypes, FlagsOK
    <3> QED
      BY <1>0, <2>1, <2>3, <3>1
  <2> QED
    BY <2>4, <2>5
<1>9. CASE SwitchOff \/ PresenceStops
  <2>1. sock' = NoLine /\ UNCHANGED <<probingPipes, probes>>
    BY <1>9 DEF SwitchOff, PresenceStops, TeardownQuiet
  <2> QED
    BY <1>0, <2>1
<1> QED
  BY <1>2, <1>3, <1>4, <1>5, <1>6, <1>7, <1>8, <1>9 DEF PresenceNext

\* Who lets go of a line, or of a probe, arms the retry.
LEMMA ReconnectStep ==
  ASSUME PresenceTypes, HeldInv, SomebodyReconnects, PresenceNext PROVE SomebodyReconnects'
<1> USE DEF PresenceTypes, FlagsOK, SomebodyReconnects
<1>1. ASSUME NEW l \in Lines, CloseFrame(l) PROVE SomebodyReconnects'
  BY <1>1 DEF CloseFrame, Teardown, ScheduleRetry
<1>2. ASSUME NEW l \in Lines, CloseEvent(l) PROVE SomebodyReconnects'
  BY <1>2 DEF CloseEvent, ScheduleRetry
<1>3. CASE HandshakeTimeout
  BY <1>3 DEF HandshakeTimeout, Teardown, ScheduleRetry
<1>4. ASSUME \/ \E l \in Lines : Ready(l) \/ Drops(l)
             \/ ThrottleTimeout \/ Changes \/ Tick
      PROVE SomebodyReconnects'
  BY <1>4 DEF Ready, Drops, ThrottleTimeout, Changes, Tick
<1>5. ASSUME NEW l \in Lines, NEW b \in BOOLEAN, ProbeAccepted(l, b) PROVE SomebodyReconnects'
  BY <1>5, ThrottleFacts DEF ProbeAccepted
<1>6. CASE ProbeEnds
  BY <1>6 DEF ProbeEnds, ScheduleRetry
<1>7. CASE RetryTimeout
  BY <1>7 DEF RetryTimeout, Connect
<1>8. CASE SwitchOn
  BY <1>8 DEF SwitchOn, Connect
<1>9. CASE SwitchOff \/ PresenceStops
  BY <1>9 DEF SwitchOff, PresenceStops
<1> QED
  BY <1>1, <1>2, <1>3, <1>4, <1>5, <1>6, <1>7, <1>8, <1>9 DEF PresenceNext

\* Nothing is connected at first.
LEMMA PresenceInitially == PresenceInit => PresenceInv
<1> SUFFICES ASSUME PresenceInit PROVE PresenceInv
  OBVIOUS
<1>1. FlagsOK
  BY DEF PresenceInit, FlagsOK
<1>2. NumbersOK
  BY ThrottleFacts DEF PresenceInit, NumbersOK
<1>3. lines \in [Lines -> PipeLine] /\ \A l \in Lines : lines[l].state = "free"
  BY PipeLinesMade DEF PresenceInit
<1>4. LinesOK
  BY <1>3 DEF PresenceInit, LinesOK
<1>5. HeldInv
  BY <1>3 DEF PresenceInit, HeldInv, IsOpen
<1>6. WindowInv
  BY <1>3 DEF PresenceInit, WindowInv, IsOpen
<1>7. PresenceFollows /\ SomebodyReconnects
  BY DEF PresenceInit, PresenceFollows, SomebodyReconnects
<1> QED
  BY <1>1, <1>2, <1>4, <1>5, <1>6, <1>7 DEF PresenceInv, PresenceTypes

\* Every step keeps the invariant.
LEMMA PresenceInductive == PresenceInv /\ [PresenceNext]_presenceVars => PresenceInv'
<1> SUFFICES ASSUME PresenceInv, [PresenceNext]_presenceVars PROVE PresenceInv'
  OBVIOUS
<1>1. CASE PresenceNext
  <2>1. PresenceTypes /\ HeldInv /\ SomebodyReconnects
    BY DEF PresenceInv
  <2>2. LineInv
    BY DEF PresenceInv, HeldInv, PresenceTypes, LineInv, OpenIsHeld
  <2>3. FlagsOK'
    BY <1>1, <2>1, FlagsStep
  <2>4. NumbersOK'
    BY <1>1, <2>1, NumbersStep
  <2>5. LineInv'
    BY <1>1, <2>1, <2>2, <2>4, LineStep
  <2>6. /\ probingPipes' => probes' = 1 /\ sock' = NoLine
        /\ ~ probingPipes' => probes' = 0
        /\ stopped' \/ ~ enabled' => sock' = NoLine
    BY <1>1, <2>1, <2>4, ReleasedStep
  <2>7. SomebodyReconnects'
    BY <1>1, <2>1, ReconnectStep
  <2>8. HeldInv'
    BY <2>5, <2>6 DEF LineInv, OpenIsHeld, HeldInv
  <2> QED
    BY <2>3, <2>4, <2>5, <2>7, <2>8 DEF PresenceInv, PresenceTypes, LineInv
<1>2. CASE UNCHANGED presenceVars
  BY <1>2 DEF presenceVars, PresenceInv, PresenceTypes, FlagsOK, NumbersOK, LinesOK, HeldInv,
              WindowInv, IsOpen, PresenceFollows, SomebodyReconnects
<1> QED
  BY <1>1, <1>2

\* The presence is what the user asked for, over any sequence of toggles, of
\* handshakes and of late events of earlier connections: only the held line is open,
\* what it shows is what is wanted or a send that Discord takes is scheduled, and
\* while the presence is wanted somebody holds a line or will look for one.
THEOREM PresenceFollowsTheUser == PresenceSpec => []PresenceIsHonest
<1>1. PresenceInv => PresenceIsHonest
  <2> SUFFICES ASSUME PresenceInv PROVE PresenceIsHonest
    OBVIOUS
  <2>1. OnlyTheHeldLineIsOpen
    BY ThrottleFacts DEF PresenceInv, HeldInv, IsOpen, OnlyTheHeldLineIsOpen, Opened
  <2> QED
    BY <2>1 DEF PresenceInv, PresenceIsHonest
<1> QED
  BY <1>1, PresenceInitially, PresenceInductive, PTL DEF PresenceSpec

\* Every variable of the presence stays in its range, for every window and
\* every number of connections: no more than one probe is ever in flight.
THEOREM PresenceStaysTyped == PresenceSpec => []PresenceTypeOK
<1>1. PresenceInv => PresenceTypeOK
  BY DEF PresenceInv, PresenceTypes, FlagsOK, NumbersOK, LinesOK, PresenceTypeOK, PipeLine,
     Versions, Window
<1> QED
  BY <1>1, PresenceInitially, PresenceInductive, PTL DEF PresenceSpec
================================================================================
