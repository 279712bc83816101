--------------------------- MODULE CollabSync_proofs --------------------------
(***************************************************************************)
(* What is proved of CollabSync for every set of devices and every bound:  *)
(* the types, that a sequence number of a device names one sealed content, *)
(* and that a publication base covers nothing the server has not accepted. *)
(* Then that nothing stored is lost: not on the server, where a compaction *)
(* contains what it replaces, and not on a writer's disk, where what was   *)
(* never accepted is in the envelope published next.  So the devices and   *)
(* the server keep the promise of SharedEditing.  Last, that no operation  *)
(* id is used twice.                                                       *)
(*                                                                         *)
(* For the numbers: a step either seals nothing, and every envelope about  *)
(* was about before, or seals one envelope under the next number of its    *)
(* device, above all the others.                                           *)
(***************************************************************************)
EXTENDS CollabSyncInvariants, FiniteSetTheorems, TLAPS

(* Applied only selects.                                                   *)
LEMMA AppliedSubset == \A S : Applied(S) \subseteq S
BY DEF Applied

(* What the kind of a call says of its other fields.                       *)
LEMMA CallFields ==
    ASSUME NEW c \in Call
    PROVE  /\ c.kind = "publish" => c.env \in Envelope
           /\ c.kind = "answered" => c.env \in Envelope
           /\ c.kind = "recover" => c.checkpoint \in Checkpoint
           /\ c.kind = "compact" => c.checkpoint \in Checkpoint
           /\ c.kind = "commit" => c.request \in Request
           /\ c.kind = "committed" => c.ops \in SUBSET Op
BY DEF Call, Idle

LEMMA LateFields ==
    ASSUME NEW r \in LateRequest
    PROVE  /\ r.kind = "publish" => r.device \in Device /\ r.env \in Envelope
           /\ r.kind = "commit" => r.request \in Request
BY DEF LateRequest

(* The server's mutations keep its tables in range.                        *)
LEMMA PublishHeadType ==
    ASSUME TypeOK, NEW d \in Device, NEW env \in Envelope, RunPublishHead(d, env)
    PROVE  /\ heads' \in [Device -> Row] /\ inserted' \in Nat
           /\ checkpoint' = checkpoint /\ accepted' \subseteq Op
<1>1. PublishedRow(d, env) \in Row
  BY DEF PublishedRow, TypeOK, Row, Envelope
<1> QED BY <1>1 DEF RunPublishHead, PublishHead, TypeOK, Envelope

LEMMA CommitCheckpointType ==
    ASSUME TypeOK, NEW request \in Request, CommitCheckpoint(request)
    PROVE  /\ heads' \in [Device -> Row] /\ inserted' = inserted
           /\ checkpoint' \in Checkpoint
<1>1. NoHead \in Row
  BY DEF NoHead, Row
<1>2. CASE CasMatches(request)
  <2>1. checkpoint' \in Checkpoint
    BY <1>2 DEF CommitCheckpoint, TypeOK, Request, Checkpoint
  <2>2. heads' \in [Device -> Row]
    BY <1>1, <1>2 DEF CommitCheckpoint, TypeOK
  <2> QED BY <2>1, <2>2 DEF CommitCheckpoint
<1>3. CASE ~CasMatches(request)
  BY <1>3 DEF CommitCheckpoint, TypeOK
<1> QED BY <1>2, <1>3

LEMMA CommitLocalType ==
    ASSUME TypeOK, NEW d \in Device, NEW delta \in SUBSET Op, CommitLocal(d, delta)
    PROVE  /\ updates' \in [Device -> SUBSET Op] /\ seq' \in [Device -> Nat]
           /\ pending' \in [Device -> Envelope]
BY DEF CommitLocal, TypeOK, Envelope

LEMMA EnqueueType ==
    ASSUME TypeOK, NEW d \in Device, NEW version \in SUBSET Op,
           EnqueueCurrentState(d, version)
    PROVE  /\ updates' \in [Device -> SUBSET Op] /\ seq' \in [Device -> Nat]
           /\ pending' \in [Device -> Envelope]
<1>1. CASE MustEnqueue(d, version)
  BY <1>1, CommitLocalType DEF EnqueueCurrentState
<1>2. CASE ~MustEnqueue(d, version)
  BY <1>2 DEF EnqueueCurrentState, TypeOK
<1> QED BY <1>1, <1>2

LEMMA ListedOpsType == TypeOK => ListedOps \subseteq Op /\ ListedHeads \subseteq Consumed
BY DEF TypeOK, ListedOps, ListedHeads, Consumed, Row

LEMMA AbandonedType ==
    ASSUME TypeOK, NEW d \in Device
    PROVE  Abandoned(d) \subseteq LateRequest
<1>1. call[d] \in Call
  BY DEF TypeOK
<1> QED BY <1>1, CallFields DEF Abandoned, LateRequest

(* The range invariant is inductive: one step for each action.             *)
LEMMA TypeStep == TypeOK /\ [Next]_vars => TypeOK'
<1> SUFFICES ASSUME TypeOK, [Next]_vars PROVE TypeOK'
  OBVIOUS
<1> USE AppliedSubset
<1>1. ASSUME NEW d \in Device, DeviceStep(d) PROVE TypeOK'
  <2>0. call[d] \in Call
    BY DEF TypeOK
  <2>1. CASE Edit(d)
    <3>1. (Applied(doc[d]) \cup {NextOp(d)}) \ base[d] \in SUBSET Op
      BY <2>1 DEF Edit, Author, TypeOK
    <3>2. updates' \in [Device -> SUBSET Op] /\ seq' \in [Device -> Nat]
          /\ pending' \in [Device -> Envelope]
      BY <2>1, <3>1, CommitLocalType DEF Edit
    <3> QED BY <2>1, <3>2 DEF Edit, Author, TypeOK, serverVars
  <2>2. CASE Undo(d)
    BY <2>2 DEF Undo, Author, TypeOK, serverVars, Call
  <2>3. CASE FinishUndo(d)
    <3>1. Applied(doc[d]) \in SUBSET Op
      BY DEF TypeOK
    <3>2. updates' \in [Device -> SUBSET Op] /\ seq' \in [Device -> Nat]
          /\ pending' \in [Device -> Envelope]
      BY <2>3, <3>1, EnqueueType DEF FinishUndo
    <3> QED BY <2>3, <3>2 DEF FinishUndo, TypeOK, serverVars, Call, MustEnqueue
  <2>4. CASE StartPublish(d)
    BY <2>4 DEF StartPublish, TypeOK, serverVars, Call
  <2>5. CASE ServePublish(d)
    <3>1. call[d].env \in Envelope
      BY <2>5, <2>0, CallFields DEF ServePublish
    <3>2. PublishStatus(d, call[d].env) \in {"published", "already", "stale", "refused"}
      BY DEF PublishStatus
    <3>3. call' \in [Device -> Call]
      BY <2>5, <3>1, <3>2 DEF ServePublish, TypeOK, Call
    <3> QED BY <2>5, <3>1, <3>3, PublishHeadType DEF ServePublish, TypeOK, localVars
  <2>6. CASE FinishPublish(d)
    <3>0. Applied(doc[d]) \in SUBSET Op
      BY DEF TypeOK
    <3>1. base' \in [Device -> SUBSET Op] /\ due' \in [Device -> BOOLEAN]
      BY <2>6, <3>0 DEF FinishPublish, ConfirmThrough, TypeOK
    <3>2. pending' \in [Device -> Envelope]
      BY <2>6, SMTT(30) DEF FinishPublish, ConfirmThrough, TypeOK, NoEnvelope, Envelope
    <3> QED BY <2>6, <3>1, <3>2 DEF FinishPublish, TypeOK, serverVars, Call
  <2>7. CASE \E purpose \in {"recover", "compact"} : ReadCheckpoint(d, purpose)
    BY <2>7 DEF ReadCheckpoint, TypeOK, serverVars, localVars, Call
  <2>8. CASE FinishRecovery(d)
    <3> DEFINE received == doc[d] \cup call[d].checkpoint.ops \cup ListedOps
    <3>1. call[d].checkpoint.ops \in SUBSET Op
      BY <2>8, <2>0, CallFields DEF FinishRecovery, Checkpoint
    <3>2. received \in SUBSET Op /\ Applied(received) \in SUBSET Op
      BY <3>1, ListedOpsType DEF TypeOK
    <3>3. updates' \in [Device -> SUBSET Op] /\ seq' \in [Device -> Nat]
          /\ pending' \in [Device -> Envelope]
      BY <2>8, <3>2, EnqueueType DEF FinishRecovery
    <3>4. due' \in [Device -> BOOLEAN] /\ doc' \in [Device -> SUBSET Op]
      BY <2>8, <3>2 DEF FinishRecovery, TypeOK
    <3> HIDE DEF received
    <3> QED BY <2>8, <3>3, <3>4 DEF FinishRecovery, TypeOK, serverVars, Call
  <2>9. CASE ReadHeads(d)
    <3>1. call[d].checkpoint \in Checkpoint
      BY <2>9, <2>0, CallFields DEF ReadHeads
    <3>2. [expected |-> call[d].checkpoint.epoch, consumed |-> ListedHeads,
           ops |-> Applied(call[d].checkpoint.ops \cup ListedOps)] \in Request
      BY <3>1, ListedOpsType DEF Request, Checkpoint
    <3> QED BY <2>9, <3>2 DEF ReadHeads, TypeOK, serverVars, localVars, Call
  <2>10. CASE ServeCommit(d)
    <3>1. call[d].request \in Request
      BY <2>10, <2>0, CallFields DEF ServeCommit
    <3>2. call' \in [Device -> Call]
      BY <2>10, <3>1 DEF ServeCommit, TypeOK, Call, Request
    <3> QED BY <2>10, <3>1, <3>2, CommitCheckpointType DEF ServeCommit, TypeOK, localVars
  <2>11. CASE FinishCommit(d)
    <3>1. call[d].ops \in SUBSET Op
      BY <2>11, <2>0, CallFields DEF FinishCommit
    <3> QED BY <2>11, <3>1 DEF FinishCommit, TypeOK, serverVars, Call
  <2>12. ASSUME NEW e \in Device, InboundUpdate(d, e) PROVE TypeOK'
    <3> DEFINE received == doc[d] \cup Applied(doc[e])
    <3>1. received \in SUBSET Op /\ Applied(received) \in SUBSET Op
      BY DEF TypeOK
    <3>2. updates' \in [Device -> SUBSET Op] /\ seq' \in [Device -> Nat]
          /\ pending' \in [Device -> Envelope]
      <4>1. EnqueueCurrentState(d, Applied(received)) \/ UNCHANGED <<updates, seq, pending>>
        BY <2>12 DEF InboundUpdate
      <4> QED BY <4>1, <3>1, EnqueueType DEF TypeOK
    <3>3. due' \in [Device -> BOOLEAN] /\ doc' \in [Device -> SUBSET Op]
      BY <2>12, <3>1 DEF InboundUpdate, TypeOK, MustEnqueue
    <3> HIDE DEF received
    <3> QED BY <2>12, <3>2, <3>3 DEF InboundUpdate, TypeOK, serverVars
  <2>13. CASE Timeout(d)
    BY <2>13, AbandonedType DEF Timeout, TypeOK, serverVars, Call
  <2>14. CASE Crash(d)
    <3>1. doc' \in [Device -> SUBSET Op]
      BY <2>14 DEF Crash, TypeOK
    <3> QED BY <2>14, <3>1, AbandonedType DEF Crash, TypeOK, serverVars, Call
  <2>15. CASE Open(d)
    <3> DEFINE replayed == doc[d] \cup snapshot[d] \cup updates[d]
    <3>1. replayed \in SUBSET Op /\ Applied(replayed) \in SUBSET Op
      BY DEF TypeOK
    <3>2. updates' \in [Device -> SUBSET Op] /\ seq' \in [Device -> Nat]
          /\ pending' \in [Device -> Envelope]
      BY <2>15, <3>1, EnqueueType DEF Open
    <3>3. due' \in [Device -> BOOLEAN] /\ doc' \in [Device -> SUBSET Op]
      BY <2>15, <3>1 DEF Open, TypeOK, MustEnqueue
    <3> HIDE DEF replayed
    <3> QED BY <2>15, <3>2, <3>3 DEF Open, TypeOK, serverVars
  <2>16. CASE Discard(d)
    BY <2>16 DEF Discard, DiscardStaleHead, TypeOK, localVars, NoHead, Row
  <2> QED BY <1>1, <2>1, <2>2, <2>3, <2>4, <2>5, <2>6, <2>7, <2>8, <2>9, <2>10,
             <2>11, <2>12, <2>13, <2>14, <2>15, <2>16 DEF DeviceStep
<1>2. ASSUME NEW r \in late, ServeLate(r) PROVE TypeOK'
  <2>1. r \in LateRequest
    BY DEF TypeOK
  <2>2. CASE r.kind = "publish" /\ RunPublishHead(r.device, r.env)
    BY <1>2, <2>1, <2>2, LateFields, PublishHeadType DEF ServeLate, TypeOK, localVars
  <2>3. CASE r.kind = "commit" /\ CommitCheckpoint(r.request) /\ UNCHANGED accepted
    BY <1>2, <2>1, <2>3, LateFields, CommitCheckpointType DEF ServeLate, TypeOK, localVars
  <2> QED BY <1>2, <2>2, <2>3 DEF ServeLate
<1>3. CASE UNCHANGED vars
  BY <1>3 DEF vars, serverVars, localVars, TypeOK
<1> QED BY <1>1, <1>2, <1>3 DEF Next

LEMMA TypeInit == Init => TypeOK
BY DEF Init, ServerInit, TypeOK, NoHead, NoCheckpoint, NoEnvelope, Idle, Row,
       Checkpoint, Envelope, Call, LateRequest

(* Every variable stays in its range, for any number of devices, edits and *)
(* faults.                                                                 *)
THEOREM TypeCorrect == Spec => []TypeOK
BY TypeInit, TypeStep, PTL DEF Spec
-------------------------------------------------------------------------------
NumberInv == NumbersAreBounded /\ SequenceNeverReused

HeadEnvelope(d) == [seq |-> heads[d].seq, ops |-> heads[d].ops]

(* The places a sealed envelope can be in.                                 *)
LEMMA SealedPlaces ==
    \A d, e : e \in Sealed(d) <=>
        \/ e = pending[d] /\ e # NoEnvelope
        \/ Publishing(d) /\ e = call[d].env
        \/ \E r \in late : r.kind = "publish" /\ r.device = d /\ e = r.env
        \/ HasHead(d) /\ e = HeadEnvelope(d)
BY DEF Sealed, Publishing, HeadEnvelope

LEMMA SealedPlacesNext ==
    \A d, e : e \in Sealed(d)' <=>
        \/ e = pending'[d] /\ e # NoEnvelope
        \/ Publishing(d)' /\ e = call'[d].env
        \/ \E r \in late' : r.kind = "publish" /\ r.device = d /\ e = r.env
        \/ HasHead(d)' /\ e = HeadEnvelope(d)'
BY DEF Sealed, Publishing, HeadEnvelope, HasHead

LEMMA SealedType == TypeOK => \A d \in Device : Sealed(d) \subseteq Envelope
<1> SUFFICES ASSUME TypeOK, NEW d \in Device, NEW e \in Sealed(d) PROVE e \in Envelope
  OBVIOUS
<1>1. call[d] \in Call /\ late \subseteq LateRequest
  BY DEF TypeOK
<1>2. CASE e = pending[d]
  BY <1>2 DEF TypeOK
<1>3. CASE Publishing(d) /\ e = call[d].env
  BY <1>1, <1>3, CallFields DEF Publishing
<1>4. CASE \E r \in late : r.kind = "publish" /\ r.device = d /\ e = r.env
  BY <1>1, <1>4, LateFields
<1>5. CASE HasHead(d) /\ e = HeadEnvelope(d)
  BY <1>5 DEF TypeOK, Row, Envelope, HeadEnvelope
<1> QED BY <1>2, <1>3, <1>4, <1>5, SealedPlaces

(* What a step may do to the envelopes of device d.                        *)
SealsNothing(d) == seq'[d] = seq[d] /\ Sealed(d)' \subseteq Sealed(d)
SealsNext(d) ==
    /\ seq'[d] = seq[d] + 1
    /\ pending'[d].seq = seq'[d]
    /\ Sealed(d)' \subseteq Sealed(d) \cup {pending'[d]}

(* Either of the two preserves the invariant of d.                         *)
LEMMA SealingPreserves ==
    ASSUME TypeOK, TypeOK', NumberInv,
           \A d \in Device : SealsNothing(d) \/ SealsNext(d)
    PROVE  NumberInv'
<1> SUFFICES ASSUME NEW d \in Device
             PROVE  /\ \A e \in Sealed(d)' : e.seq <= seq'[d]
                    /\ \A e, f \in Sealed(d)' : e.seq = f.seq => e = f
  BY DEF NumberInv, NumbersAreBounded, SequenceNeverReused
<1>0. /\ seq[d] \in Nat
      /\ \A e \in Sealed(d) : e.seq <= seq[d]
      /\ \A e, f \in Sealed(d) : e.seq = f.seq => e = f
  BY DEF NumberInv, NumbersAreBounded, SequenceNeverReused, TypeOK
<1>1. CASE SealsNothing(d)
  BY <1>0, <1>1 DEF SealsNothing
<1>2. CASE SealsNext(d)
  <2>1. \A e \in Sealed(d) : e.seq # pending'[d].seq
    <3> SUFFICES ASSUME NEW e \in Sealed(d), e.seq = seq[d] + 1 PROVE FALSE
      BY <1>2 DEF SealsNext
    <3> QED BY <1>0
  <2>2. \A e \in Sealed(d)' : e = pending'[d] \/ e \in Sealed(d)
    BY <1>2 DEF SealsNext
  <2>3. \A e \in Sealed(d)' : e.seq <= seq'[d]
    <3> SUFFICES ASSUME NEW e \in Sealed(d)' PROVE e.seq <= seq'[d]
      OBVIOUS
    <3>1. CASE e = pending'[d]
      BY <1>0, <1>2, <3>1 DEF SealsNext
    <3>2. CASE e \in Sealed(d)
      <4>1. e.seq <= seq[d] /\ seq'[d] = seq[d] + 1
        BY <1>0, <1>2, <3>2 DEF SealsNext
      <4>2. e.seq \in Nat
        BY <3>2, SealedType DEF Envelope
      <4> QED BY <1>0, <4>1, <4>2
    <3> QED BY <2>2, <3>1, <3>2
  <2> QED BY <1>0, <2>1, <2>2, <2>3
<1> QED BY <1>1, <1>2
(* What the operations of the model do to the places.                      *)
LEMMA PublishSeals ==
    ASSUME TypeOK, NEW x \in Device, NEW env \in Envelope, RunPublishHead(x, env),
           NEW d \in Device, HasHead(d)'
    PROVE  \/ HasHead(d) /\ HeadEnvelope(d)' = HeadEnvelope(d)
           \/ d = x /\ HeadEnvelope(d)' = env
<1>1. CASE PublishStatus(x, env) = "published"
  <2>1. heads' = [heads EXCEPT ![x] = PublishedRow(x, env)]
    BY <1>1 DEF RunPublishHead, PublishHead
  <2>2. CASE d = x
    <3>1. heads'[d] = PublishedRow(x, env)
      BY <2>1, <2>2 DEF TypeOK
    <3>2. [seq |-> env.seq, ops |-> env.ops] = env
      BY DEF Envelope
    <3> QED BY <2>2, <3>1, <3>2 DEF PublishedRow, HeadEnvelope
  <2>3. CASE d # x
    <3>1. heads'[d] = heads[d]
      BY <2>1, <2>3 DEF TypeOK
    <3> QED BY <3>1 DEF HeadEnvelope, HasHead
  <2> QED BY <2>2, <2>3
<1>2. CASE PublishStatus(x, env) # "published"
  BY <1>2 DEF RunPublishHead, PublishHead, HeadEnvelope, HasHead
<1> QED BY <1>1, <1>2

LEMMA CommitSeals ==
    ASSUME NEW request, CommitCheckpoint(request), NEW d \in Device, HasHead(d)'
    PROVE  HasHead(d) /\ HeadEnvelope(d)' = HeadEnvelope(d)
<1>1. heads'[d] = NoHead \/ heads'[d] = heads[d]
  BY DEF CommitCheckpoint
<1> QED BY <1>1 DEF HeadEnvelope, HasHead

LEMMA CommitLocalSeals ==
    ASSUME TypeOK, NEW x \in Device, NEW delta, CommitLocal(x, delta), NEW d \in Device
    PROVE  \/ seq'[d] = seq[d] /\ pending'[d] = pending[d]
           \/ seq'[d] = seq[d] + 1 /\ pending'[d].seq = seq'[d]
BY DEF CommitLocal, TypeOK

LEMMA EnqueueSeals ==
    ASSUME TypeOK, NEW x \in Device, NEW version, EnqueueCurrentState(x, version), NEW d \in Device
    PROVE  \/ seq'[d] = seq[d] /\ pending'[d] = pending[d]
           \/ seq'[d] = seq[d] + 1 /\ pending'[d].seq = seq'[d]
BY CommitLocalSeals DEF EnqueueCurrentState

(* A step that keeps the other places and renumbers as above.              *)
LEMMA SealsLocally ==
    ASSUME NEW d \in Device, UNCHANGED heads,
           Publishing(d)' => Publishing(d) /\ call'[d].env = call[d].env,
           late' = late,
           \/ seq'[d] = seq[d] /\ pending'[d] = pending[d]
           \/ seq'[d] = seq[d] + 1 /\ pending'[d].seq = seq'[d]
    PROVE  SealsNothing(d) \/ SealsNext(d)
<1>1. \A e \in Sealed(d)' : e \in Sealed(d) \/ e = pending'[d]
  BY SealedPlaces, SealedPlacesNext DEF HeadEnvelope, HasHead
<1>2. CASE seq'[d] = seq[d] /\ pending'[d] = pending[d]
  BY <1>2, SealedPlaces, SealedPlacesNext DEF SealsNothing, HeadEnvelope, HasHead
<1>3. CASE seq'[d] = seq[d] + 1 /\ pending'[d].seq = seq'[d]
  BY <1>1, <1>3 DEF SealsNext
<1> QED BY <1>2, <1>3
(* A request left behind was the call's own.                               *)
LEMMA AbandonSeals ==
    ASSUME NEW x \in Device, NEW d \in Device, NEW r \in Abandoned(x),
           r.kind = "publish", r.device = d
    PROVE  x = d /\ Publishing(d) /\ r.env = call[d].env
BY DEF Abandoned, Publishing

(* A caller that gives up moves its envelope from `call' to `late'.        *)
LEMMA SealsNothingByGivingUp ==
    ASSUME TypeOK, NEW x \in Device, NEW d \in Device,
           UNCHANGED <<heads, seq, pending>>,
           late' = late \cup Abandoned(x), call' = [call EXCEPT ![x] = Idle]
    PROVE  SealsNothing(d)
<1>1. Publishing(d)' => Publishing(d) /\ call'[d].env = call[d].env
  BY DEF Publishing, Idle, TypeOK
<1>2. \A e \in Sealed(d)' : e \in Sealed(d)
  BY <1>1, SealedPlaces, SealedPlacesNext, AbandonSeals DEF HeadEnvelope, HasHead
<1> QED BY <1>2 DEF SealsNothing

LEMMA SealingStep ==
    ASSUME TypeOK, [Next]_vars, NEW d \in Device
    PROVE  SealsNothing(d) \/ SealsNext(d)
<1>1. ASSUME NEW x \in Device, DeviceStep(x) PROVE SealsNothing(d) \/ SealsNext(d)
  <2>0. call \in [Device -> Call]
    BY DEF TypeOK
  <2>1. CASE Edit(x)
    BY <2>1, CommitLocalSeals, SealsLocally DEF Edit, serverVars, Publishing
  <2>2. CASE Undo(x)
    BY <2>0, <2>2, SealsLocally DEF Undo, serverVars, Publishing
  <2>3. CASE FinishUndo(x)
    BY <2>0, <2>3, EnqueueSeals, SealsLocally DEF FinishUndo, serverVars, Publishing, Idle
  <2>4. CASE StartPublish(x)
    <3>1. CASE x = d /\ pending[d] # NoEnvelope
      <4>1. call'[d] = [kind |-> "publish", env |-> pending[d]]
        BY <2>0, <2>4, <3>1 DEF StartPublish
      <4>2. \A e \in Sealed(d)' : e \in Sealed(d)
        BY <2>4, <3>1, <4>1, SealedPlaces, SealedPlacesNext
           DEF StartPublish, serverVars, HeadEnvelope, HasHead
      <4> QED BY <2>4, <4>2 DEF StartPublish, SealsNothing
    <3>2. CASE ~(x = d /\ pending[d] # NoEnvelope)
      BY <2>0, <2>4, <3>2, SealsLocally DEF StartPublish, serverVars, Publishing
    <3> QED BY <3>1, <3>2
  <2>5. CASE ServePublish(x)
    <3>1. call[x].kind = "publish" /\ call[x].env \in Envelope
      BY <2>0, <2>5, CallFields DEF ServePublish
    <3>2. Publishing(d)' => Publishing(d) /\ call'[d].env = call[d].env
      BY <2>0, <2>5, <3>1 DEF ServePublish, Publishing
    <3>3. HasHead(d)' => \/ HasHead(d) /\ HeadEnvelope(d)' = HeadEnvelope(d)
                         \/ Publishing(d) /\ HeadEnvelope(d)' = call[d].env
      BY <2>5, <3>1, PublishSeals DEF ServePublish, Publishing
    <3>4. \A e \in Sealed(d)' : e \in Sealed(d)
      BY <2>5, <3>2, <3>3, SealedPlaces, SealedPlacesNext DEF ServePublish, localVars
    <3> QED BY <2>5, <3>4 DEF ServePublish, localVars, SealsNothing
  <2>6. CASE FinishPublish(x)
    <3>1. Publishing(d)' => Publishing(d) /\ call'[d].env = call[d].env
      BY <2>0, <2>6 DEF FinishPublish, Publishing, Idle
    <3>2. pending'[d] = pending[d] \/ pending'[d] = NoEnvelope
      BY <2>6 DEF FinishPublish, ConfirmThrough, TypeOK
    <3>3. \A e \in Sealed(d)' : e \in Sealed(d)
      BY <2>6, <3>1, <3>2, SealedPlaces, SealedPlacesNext
         DEF FinishPublish, serverVars, HeadEnvelope, HasHead
    <3> QED BY <2>6, <3>3 DEF FinishPublish, SealsNothing
  <2>7. CASE \E purpose \in {"recover", "compact"} : ReadCheckpoint(x, purpose)
    BY <2>0, <2>7, SealsLocally DEF ReadCheckpoint, serverVars, localVars, Publishing
  <2>8. CASE FinishRecovery(x)
    BY <2>0, <2>8, EnqueueSeals, SealsLocally DEF FinishRecovery, serverVars, Publishing, Idle
  <2>9. CASE ReadHeads(x)
    BY <2>0, <2>9, SealsLocally DEF ReadHeads, serverVars, localVars, Publishing, Idle
  <2>10. CASE ServeCommit(x)
    <3>1. Publishing(d)' => Publishing(d) /\ call'[d].env = call[d].env
      BY <2>0, <2>10 DEF ServeCommit, Publishing, Idle
    <3>2. \A e \in Sealed(d)' : e \in Sealed(d)
      BY <2>10, <3>1, CommitSeals, SealedPlaces, SealedPlacesNext DEF ServeCommit, localVars
    <3> QED BY <2>10, <3>2 DEF ServeCommit, localVars, SealsNothing
  <2>11. CASE FinishCommit(x)
    BY <2>0, <2>11, SealsLocally DEF FinishCommit, serverVars, Publishing, Idle
  <2>12. CASE \E e \in Device : InboundUpdate(x, e)
    BY <2>12, EnqueueSeals, SealsLocally DEF InboundUpdate, serverVars, Publishing
  <2>13. CASE Timeout(x)
    BY <2>13, SealsNothingByGivingUp DEF Timeout, serverVars
  <2>14. CASE Crash(x)
    BY <2>14, SealsNothingByGivingUp DEF Crash, serverVars
  <2>15. CASE Open(x)
    BY <2>15, EnqueueSeals, SealsLocally DEF Open, serverVars, Publishing
  <2>16. CASE Discard(x)
    <3>1. HasHead(d)' => HasHead(d) /\ HeadEnvelope(d)' = HeadEnvelope(d)
      BY <2>16 DEF Discard, DiscardStaleHead, HasHead, HeadEnvelope, TypeOK
    <3>2. \A e \in Sealed(d)' : e \in Sealed(d)
      BY <2>16, <3>1, SealedPlaces, SealedPlacesNext DEF Discard, localVars, Publishing
    <3> QED BY <2>16, <3>2 DEF Discard, localVars, SealsNothing
  <2> QED BY <1>1, <2>1, <2>2, <2>3, <2>4, <2>5, <2>6, <2>7, <2>8, <2>9, <2>10,
             <2>11, <2>12, <2>13, <2>14, <2>15, <2>16 DEF DeviceStep
<1>2. ASSUME NEW r \in late, ServeLate(r) PROVE SealsNothing(d)
  <2>1. r \in LateRequest
    BY DEF TypeOK
  <2>2. HasHead(d)' => HeadEnvelope(d)' \in Sealed(d)
    <3>1. CASE r.kind = "publish" /\ RunPublishHead(r.device, r.env)
      BY <2>1, <3>1, LateFields, PublishSeals, SealedPlaces
    <3>2. CASE r.kind = "commit" /\ CommitCheckpoint(r.request)
      BY <3>2, CommitSeals, SealedPlaces
    <3> QED BY <1>2, <3>1, <3>2 DEF ServeLate
  <2>3. \A e \in Sealed(d)' : e \in Sealed(d)
    BY <1>2, <2>2, SealedPlaces, SealedPlacesNext DEF ServeLate, localVars, Publishing
  <2> QED BY <1>2, <2>3 DEF ServeLate, localVars, SealsNothing
<1>3. CASE UNCHANGED vars
  BY <1>3, SealsLocally DEF vars, serverVars, localVars, Publishing
<1> QED BY <1>1, <1>2, <1>3 DEF Next

LEMMA NumberStep == TypeOK /\ NumberInv /\ [Next]_vars => NumberInv'
BY TypeStep, SealingStep, SealingPreserves

LEMMA NumberInit == Init => NumberInv
<1> SUFFICES ASSUME Init, NEW d \in Device PROVE Sealed(d) = {}
  BY DEF NumberInv, NumbersAreBounded, SequenceNeverReused
<1> QED BY DEF Init, ServerInit, Sealed, HasHead, Idle

(* The sequence number of a device never names two contents, so publishHead *)
(* never throws "already published with different content" at an honest    *)
(* device: crashes, timeouts and late requests included.                   *)
THEOREM NumbersNameOneContent == Spec => []SequenceNeverReused
<1>1. TypeOK /\ NumberInv /\ [Next]_vars => (TypeOK /\ NumberInv)'
  BY TypeStep, NumberStep
<1>2. Init => TypeOK /\ NumberInv
  BY TypeInit, NumberInit
<1>3. NumberInv => SequenceNeverReused
  BY DEF NumberInv
<1> QED BY <1>1, <1>2, <1>3, PTL DEF Spec

(***************************************************************************)
(* The publication base never covers what the server has not accepted.     *)
(* The argument follows an operation: it is authored, sealed in the newest *)
(* envelope, accepted; the document of an open writer never holds more     *)
(* than what is accepted or sealed, and an answer confirms what was sealed *)
(* because nothing else moves a publishing actor.                          *)
(***************************************************************************)

OpsInv == OpsAreMade /\ OpsAreAccepted

(* Authoring is the only change of `made' and `past', at a new operation.  *)
LEMMA MadeStep ==
    ASSUME TypeOK, [Next]_vars
    PROVE  made \subseteq made' /\ \A o \in made : past'[o] = past[o]
<1>1. ASSUME NEW d \in Device, Author(d) PROVE made \subseteq made' /\ \A o \in made : past'[o] = past[o]
  BY <1>1 DEF Author, TypeOK
<1>2. ASSUME NEW d \in Device, DeviceStep(d)
      PROVE  UNCHANGED <<made, past>> \/ Author(d)
  BY <1>2 DEF DeviceStep, Edit, Undo, FinishUndo, StartPublish, ServePublish, FinishPublish,
     ReadCheckpoint, FinishRecovery, ReadHeads, ServeCommit, FinishCommit, InboundUpdate,
     Timeout, Crash, Open, Discard, localVars
<1>3. ASSUME NEW r \in late, ServeLate(r) PROVE UNCHANGED <<made, past>>
  BY <1>3 DEF ServeLate, localVars
<1> QED BY <1>1, <1>2, <1>3 DEF Next, vars, localVars

(* What is usable of authored operations does not change any more.         *)
LEMMA AppliedIsStable ==
    ASSUME TypeOK, [Next]_vars
    PROVE  \A S : S \subseteq made => {o \in S : past'[o] \subseteq S} = Applied(S)
BY MadeStep DEF Applied

LEMMA AppliedMonotone == \A S, T : S \subseteq T => Applied(S) \subseteq Applied(T)
BY DEF Applied

LEMMA AcceptedGrows == ASSUME [Next]_vars PROVE accepted \subseteq accepted'
<1>1. ASSUME NEW d, NEW env, RunPublishHead(d, env) PROVE accepted \subseteq accepted'
  BY <1>1 DEF RunPublishHead
<1> QED BY <1>1 DEF Next, vars, ServeLate, DeviceStep, Edit, Undo, FinishUndo, StartPublish,
     ServePublish, FinishPublish, ReadCheckpoint, FinishRecovery, ReadHeads, ServeCommit,
     FinishCommit, InboundUpdate, Timeout, Crash, Open, Discard

(* A sealing that is given authored operations seals authored operations.  *)
LEMMA CommitLocalOps ==
    ASSUME TypeOK, NEW x \in Device, NEW delta, CommitLocal(x, delta), NEW d \in Device
    PROVE  /\ updates'[d] \subseteq updates[d] \cup delta
           /\ pending'[d] = pending[d] \/ (d = x /\ pending'[d].ops = delta)
           /\ d = x => pending'[d].ops = delta
<1>1. CASE d = x
  <2>1. updates'[d] = updates[d] \cup delta
    BY <1>1 DEF CommitLocal, TypeOK
  <2>2. pending'[d] = [seq |-> seq[x] + 1, ops |-> delta]
    BY <1>1 DEF CommitLocal, TypeOK
  <2> QED BY <1>1, <2>1, <2>2
<1>2. CASE d # x
  BY <1>2 DEF CommitLocal, TypeOK
<1> QED BY <1>1, <1>2

LEMMA EnqueueOps ==
    ASSUME TypeOK, NEW x \in Device, NEW version, EnqueueCurrentState(x, version),
           NEW d \in Device
    PROVE  /\ updates'[d] \subseteq updates[d] \cup version
           /\ \/ pending'[d] = pending[d]
              \/ d = x /\ x \in Writer /\ pending'[d].ops \subseteq version
           /\ d = x /\ x \in Writer => version \subseteq base[x] \cup pending'[d].ops
<1>1. CASE MustEnqueue(x, version)
  <2>1. CommitLocal(x, version \ base[x])
    BY <1>1 DEF EnqueueCurrentState
  <2> HIDE DEF CommitLocal
  <2> QED BY <1>1, <2>1, CommitLocalOps DEF MustEnqueue
<1>2. CASE ~MustEnqueue(x, version)
  BY <1>2 DEF EnqueueCurrentState, MustEnqueue
<1> QED BY <1>1, <1>2

(* The server stores the operations of the envelope it accepts.            *)
LEMMA PublishOps ==
    ASSUME TypeOK, NEW x \in Device, NEW env \in Envelope, RunPublishHead(x, env),
           NEW d \in Device
    PROVE  /\ heads'[d].ops \subseteq heads[d].ops \cup (accepted' \cap env.ops)
           /\ accepted' \subseteq accepted \cup env.ops
           /\ accepted \subseteq accepted' /\ checkpoint' = checkpoint
BY DEF RunPublishHead, PublishHead, PublishedRow, TypeOK

-----------------------------------------------------------------------------
(* Only authored operations are anywhere.                                  *)
LEMMA ListedOpsAccepted == OpsAreAccepted => ListedOps \subseteq accepted
BY DEF OpsAreAccepted, ListedOps

LEMMA AbandonedOps ==
    ASSUME OpsAreMade, NEW d \in Device
    PROVE  \A r \in Abandoned(d) : r.kind = "publish" => r.env.ops \subseteq made
BY DEF Abandoned, OpsAreMade, Publishing

LEMMA MadeIsKept ==
    ASSUME TypeOK, OpsInv, [Next]_vars
    PROVE  OpsAreMade'
<1> USE DEF OpsInv
<1>0. made \subseteq made'
  BY MadeStep
<1>1. ASSUME NEW x \in Device, DeviceStep(x) PROVE OpsAreMade'
  <2>0. call \in [Device -> Call] /\ made \subseteq Op
    BY DEF TypeOK
  <2>1. CASE Edit(x)
    <3>1. /\ NextOp(x) \in made' /\ Applied(doc[x]) \subseteq made
          /\ \A o \in Op : past'[o] \subseteq made'
          /\ \A d \in Device : doc'[d] \subseteq made'
      BY <2>1, <1>0, AppliedSubset DEF Edit, Author, OpsAreMade, TypeOK
    <3>2. \A d \in Device : updates'[d] \subseteq made' /\ pending'[d].ops \subseteq made'
      BY <2>1, <1>0, <3>1, CommitLocalOps DEF Edit, OpsAreMade
    <3> QED BY <2>1, <1>0, <3>1, <3>2 DEF Edit, OpsAreMade, serverVars, Publishing
  <2>2. CASE Undo(x)
    <3>1. /\ \A o \in Op : past'[o] \subseteq made'
          /\ \A d \in Device : doc'[d] \subseteq made'
      BY <2>2, <1>0, AppliedSubset DEF Undo, Author, OpsAreMade, TypeOK
    <3> QED BY <2>0, <2>2, <1>0, <3>1 DEF Undo, OpsAreMade, serverVars, Publishing
  <2>3. CASE FinishUndo(x)
    <3>1. \A d \in Device : updates'[d] \subseteq made /\ pending'[d].ops \subseteq made
      BY <2>3, EnqueueOps, AppliedSubset DEF FinishUndo, OpsAreMade
    <3> QED BY <2>0, <2>3, <3>1 DEF FinishUndo, OpsAreMade, serverVars, Publishing, Idle
  <2>4. CASE StartPublish(x)
    BY <2>0, <2>4 DEF StartPublish, OpsAreMade, serverVars, Publishing
  <2>5. CASE ServePublish(x)
    <3>1. call[x].env \in Envelope /\ call[x].env.ops \subseteq made
      BY <2>0, <2>5, CallFields DEF ServePublish, OpsAreMade, Publishing
    <3>2. accepted' \subseteq made
      BY <2>5, <3>1, PublishOps DEF ServePublish, OpsAreMade
    <3> QED BY <2>0, <2>5, <3>1, <3>2 DEF ServePublish, OpsAreMade, localVars, Publishing
  <2>6. CASE FinishPublish(x)
    <3>1. \A d \in Device : pending'[d].ops \subseteq made
      BY <2>6 DEF FinishPublish, ConfirmThrough, OpsAreMade, TypeOK, NoEnvelope
    <3> QED BY <2>0, <2>6, <3>1 DEF FinishPublish, OpsAreMade, serverVars, Publishing, Idle
  <2>7. CASE \E purpose \in {"recover", "compact"} : ReadCheckpoint(x, purpose)
    BY <2>0, <2>7 DEF ReadCheckpoint, OpsAreMade, serverVars, localVars, Publishing
  <2>8. CASE FinishRecovery(x)
    <3> DEFINE received == doc[x] \cup call[x].checkpoint.ops \cup ListedOps
    <3>1. received \subseteq made
      BY <2>8, ListedOpsAccepted DEF FinishRecovery, OpsAreMade, OpsAreAccepted
    <3>2. \A d \in Device : updates'[d] \subseteq made /\ pending'[d].ops \subseteq made
      <4>1. Applied(received) \subseteq made
        BY <3>1, AppliedSubset
      <4>2. EnqueueCurrentState(x, Applied(received))
        BY <2>8 DEF FinishRecovery
      <4> QED BY <4>1, <4>2, EnqueueOps DEF OpsAreMade
    <3>3. \A d \in Device : doc'[d] \subseteq made
      BY <2>8, <3>1 DEF FinishRecovery, OpsAreMade, TypeOK
    <3> HIDE DEF received
    <3> QED BY <2>0, <2>8, <3>2, <3>3 DEF FinishRecovery, OpsAreMade, serverVars, Publishing, Idle
  <2>9. CASE ReadHeads(x)
    BY <2>0, <2>9 DEF ReadHeads, OpsAreMade, serverVars, localVars, Publishing, Idle
  <2>10. CASE ServeCommit(x)
    BY <2>0, <2>10 DEF ServeCommit, OpsAreMade, localVars, Publishing, Idle
  <2>11. CASE FinishCommit(x)
    BY <2>0, <2>11 DEF FinishCommit, OpsAreMade, serverVars, Publishing, Idle
  <2>12. ASSUME NEW e \in Device, InboundUpdate(x, e) PROVE OpsAreMade'
    <3> DEFINE received == doc[x] \cup Applied(doc[e])
    <3>1. received \subseteq made
      BY AppliedSubset DEF OpsAreMade
    <3>2. \A d \in Device : updates'[d] \subseteq made /\ pending'[d].ops \subseteq made
      <4>1. Applied(received) \subseteq made
        BY <3>1, AppliedSubset
      <4>2. EnqueueCurrentState(x, Applied(received)) \/ UNCHANGED <<updates, pending>>
        BY <2>12 DEF InboundUpdate
      <4> QED BY <4>1, <4>2, EnqueueOps DEF OpsAreMade
    <3>3. \A d \in Device : doc'[d] \subseteq made
      BY <2>12, <3>1 DEF InboundUpdate, OpsAreMade, TypeOK
    <3> HIDE DEF received
    <3> QED BY <2>12, <3>2, <3>3 DEF InboundUpdate, OpsAreMade, serverVars, Publishing
  <2>13. CASE Timeout(x)
    BY <2>0, <2>13, AbandonedOps DEF Timeout, OpsAreMade, serverVars, Publishing, Idle
  <2>14. CASE Crash(x)
    <3>1. \A d \in Device : doc'[d] \subseteq made
      BY <2>14, AppliedSubset DEF Crash, OpsAreMade, TypeOK
    <3> QED BY <2>0, <2>14, <3>1, AbandonedOps DEF Crash, OpsAreMade, serverVars, Publishing, Idle
  <2>15. CASE Open(x)
    <3> DEFINE replayed == doc[x] \cup snapshot[x] \cup updates[x]
    <3>1. replayed \subseteq made
      BY DEF OpsAreMade, OpsAreAccepted
    <3>2. \A d \in Device : updates'[d] \subseteq made /\ pending'[d].ops \subseteq made
      <4>1. Applied(replayed) \subseteq made
        BY <3>1, AppliedSubset
      <4>2. EnqueueCurrentState(x, Applied(replayed))
        BY <2>15 DEF Open
      <4> QED BY <4>1, <4>2, EnqueueOps DEF OpsAreMade
    <3>3. \A d \in Device : doc'[d] \subseteq made
      BY <2>15, <3>1 DEF Open, OpsAreMade, TypeOK
    <3> HIDE DEF replayed
    <3> QED BY <2>15, <3>2, <3>3 DEF Open, OpsAreMade, serverVars, Publishing
  <2>16. CASE Discard(x)
    BY <2>16 DEF Discard, DiscardStaleHead, OpsAreMade, localVars, Publishing
  <2> QED BY <1>1, <2>1, <2>2, <2>3, <2>4, <2>5, <2>6, <2>7, <2>8, <2>9, <2>10,
             <2>11, <2>12, <2>13, <2>14, <2>15, <2>16 DEF DeviceStep
<1>2. ASSUME NEW r \in late, ServeLate(r) PROVE OpsAreMade'
  <2>1. r \in LateRequest
    BY DEF TypeOK
  <2>2. accepted' \subseteq made
    BY <1>2, <2>1, LateFields, PublishOps DEF ServeLate, OpsAreMade
  <2> QED BY <1>2, <2>2 DEF ServeLate, OpsAreMade, localVars, Publishing
<1>3. CASE UNCHANGED vars
  BY <1>3 DEF vars, serverVars, localVars, OpsAreMade, Publishing
<1> QED BY <1>1, <1>2, <1>3 DEF Next
(* What the server hands out was accepted by it.                           *)
LEMMA RequestOps ==
    ASSUME TypeOK, OpsAreAccepted, NEW request \in Requests
    PROVE  request \in Request /\ request.ops \subseteq accepted
<1>1. request.ops \subseteq accepted
  BY DEF OpsAreAccepted
<1>2. CASE \E d \in Device : call[d].kind = "commit" /\ request = call[d].request
  BY <1>1, <1>2, CallFields DEF TypeOK
<1>3. CASE \E r \in late : r.kind = "commit" /\ request = r.request
  BY <1>1, <1>3, LateFields DEF TypeOK
<1> QED BY <1>1, <1>2, <1>3 DEF Requests

(* Requests only come from a compactor that has read the heads.            *)
NewRequest(x) ==
    [expected |-> call[x].checkpoint.epoch, consumed |-> ListedHeads,
     ops |-> Applied(call[x].checkpoint.ops \cup ListedOps)]

LEMMA RequestsStep ==
    ASSUME TypeOK, [Next]_vars, NEW request \in Requests'
    PROVE  \/ request \in Requests
           \/ \E x \in Device : ReadHeads(x) /\ request = NewRequest(x)
<1>0. \/ \E d \in Device : call'[d].kind = "commit" /\ request = call'[d].request
      \/ \E r \in late' : r.kind = "commit" /\ request = r.request
  BY DEF Requests
<1>1. CASE \E r \in late' : r.kind = "commit" /\ request = r.request
  <2>1. PICK r \in late' : r.kind = "commit" /\ request = r.request
    BY <1>1
  <2>2. r \in late \/ \E x \in Device : r \in Abandoned(x)
    BY <2>1 DEF Next, DeviceStep, vars, Edit, Undo, FinishUndo, StartPublish, ServePublish,
       FinishPublish, ReadCheckpoint, FinishRecovery, ReadHeads, ServeCommit, FinishCommit,
       InboundUpdate, Timeout, Crash, Open, Discard, ServeLate
  <2>3. ASSUME NEW x \in Device, r \in Abandoned(x)
        PROVE  call[x].kind = "commit" /\ request = call[x].request
    BY <2>1, <2>3 DEF Abandoned
  <2> QED BY <2>1, <2>2, <2>3 DEF Requests
<1>2. ASSUME NEW d \in Device, call'[d].kind = "commit", request = call'[d].request
      PROVE  \/ request \in Requests
             \/ \E x \in Device : ReadHeads(x) /\ request = NewRequest(x)
  <2>0. call \in [Device -> Call] /\ Idle.kind # "commit"
    BY DEF TypeOK, Idle
  <2>1. CASE call'[d] = call[d]
    BY <1>2, <2>1 DEF Requests
  <2>2. ASSUME NEW x \in Device, DeviceStep(x), call'[d] # call[d]
        PROVE  d = x /\ ReadHeads(x) /\ request = NewRequest(x)
    <3>1. CASE ReadHeads(x)
      BY <1>2, <2>0, <2>2, <3>1 DEF ReadHeads, NewRequest
    <3>2. CASE Edit(x) \/ Undo(x) \/ FinishUndo(x) \/ StartPublish(x) \/ ServePublish(x)
      BY <1>2, <2>0, <2>2, <3>2 DEF Edit, Undo, FinishUndo, StartPublish, ServePublish
    <3>3. CASE FinishPublish(x) \/ FinishRecovery(x) \/ ServeCommit(x) \/ FinishCommit(x)
      BY <1>2, <2>0, <2>2, <3>3 DEF FinishPublish, FinishRecovery, ServeCommit, FinishCommit
    <3>4. CASE \E purpose \in {"recover", "compact"} : ReadCheckpoint(x, purpose)
      BY <1>2, <2>0, <2>2, <3>4 DEF ReadCheckpoint
    <3>5. CASE Timeout(x) \/ Crash(x)
      BY <1>2, <2>0, <2>2, <3>5 DEF Timeout, Crash
    <3>6. CASE (\E e \in Device : InboundUpdate(x, e)) \/ Open(x) \/ Discard(x)
      BY <2>2, <3>6 DEF InboundUpdate, Open, Discard
    <3> QED BY <2>2, <3>1, <3>2, <3>3, <3>4, <3>5, <3>6 DEF DeviceStep
  <2> QED BY <2>1, <2>2 DEF Next, ServeLate, vars
<1> QED BY <1>0, <1>1, <1>2

(* Who changes the server's tables.                                        *)
LEMMA ServerStep ==
    ASSUME TypeOK, [Next]_vars
    PROVE  \/ UNCHANGED serverVars
           \/ \E x \in Device, env \in Envelope : RunPublishHead(x, env)
           \/ \E request \in Requests : CommitCheckpoint(request)
           \/ \E x \in Device : Discard(x)
<1>1. ASSUME NEW x \in Device, ServePublish(x)
      PROVE  \E env \in Envelope : RunPublishHead(x, env)
  BY <1>1, CallFields DEF ServePublish, TypeOK
<1>2. ASSUME NEW x \in Device, ServeCommit(x)
      PROVE  \E request \in Requests : CommitCheckpoint(request)
  BY <1>2 DEF ServeCommit, Requests
<1>3. ASSUME NEW r \in late, ServeLate(r)
      PROVE  \/ \E x \in Device, env \in Envelope : RunPublishHead(x, env)
             \/ \E request \in Requests : CommitCheckpoint(request)
  BY <1>3, LateFields DEF ServeLate, TypeOK, Requests
<1>4. ASSUME NEW x \in Device, DeviceStep(x)
      PROVE  UNCHANGED serverVars \/ ServePublish(x) \/ ServeCommit(x) \/ Discard(x)
  BY <1>4 DEF DeviceStep, Edit, Undo, FinishUndo, StartPublish, FinishPublish, ReadCheckpoint,
     FinishRecovery, ReadHeads, FinishCommit, InboundUpdate, Timeout, Crash, Open
<1> QED BY <1>1, <1>2, <1>3, <1>4 DEF Next, vars

LEMMA AcceptedIsKept ==
    ASSUME TypeOK, OpsInv, [Next]_vars
    PROVE  OpsAreAccepted'
<1> USE DEF OpsInv
<1>0. accepted \subseteq accepted'
  BY AcceptedGrows
<1>1. ASSUME NEW request \in Requests' PROVE request.ops \subseteq accepted'
  <2>1. CASE request \in Requests
    BY <2>1, <1>0, RequestOps
  <2>2. ASSUME NEW x \in Device, ReadHeads(x), request = NewRequest(x)
        PROVE  request.ops \subseteq accepted
    BY <2>2, ListedOpsAccepted, AppliedSubset DEF NewRequest, ReadHeads, OpsAreAccepted
  <2> QED BY <1>0, <2>1, <2>2, RequestsStep
<1>2. /\ checkpoint'.ops \subseteq accepted'
      /\ \A d \in Device : heads'[d].ops \subseteq accepted'
  <2>1. ASSUME NEW x \in Device, NEW env \in Envelope, RunPublishHead(x, env)
        PROVE  /\ checkpoint'.ops \subseteq accepted'
               /\ \A d \in Device : heads'[d].ops \subseteq accepted'
    BY <1>0, <2>1, PublishOps DEF OpsAreAccepted
  <2>2. ASSUME NEW request \in Requests, CommitCheckpoint(request)
        PROVE  /\ checkpoint'.ops \subseteq accepted'
               /\ \A d \in Device : heads'[d].ops \subseteq accepted'
    <3>1. request \in Request /\ request.ops \subseteq accepted
      BY RequestOps
    <3>2. /\ checkpoint'.ops \subseteq checkpoint.ops \cup request.ops
          /\ \A d \in Device : heads'[d].ops \subseteq heads[d].ops
      <4>1. CASE CasMatches(request)
        BY <2>2, <4>1 DEF CommitCheckpoint, NoHead
      <4>2. CASE ~CasMatches(request)
        BY <2>2, <4>2 DEF CommitCheckpoint
      <4> QED BY <4>1, <4>2
    <3> QED BY <1>0, <3>1, <3>2 DEF OpsAreAccepted
  <2>3. ASSUME NEW x \in Device, Discard(x)
        PROVE  checkpoint' = checkpoint /\ \A d \in Device : heads'[d].ops \subseteq heads[d].ops
    BY <2>3 DEF Discard, DiscardStaleHead, NoHead, TypeOK
  <2>4. ASSUME UNCHANGED serverVars
        PROVE  /\ checkpoint'.ops \subseteq accepted'
               /\ \A d \in Device : heads'[d].ops \subseteq accepted'
    BY <1>0, <2>4 DEF serverVars, OpsAreAccepted
  <2>5. \/ UNCHANGED serverVars
        \/ \E x \in Device, env \in Envelope : RunPublishHead(x, env)
        \/ \E request \in Requests : CommitCheckpoint(request)
        \/ \E x \in Device : Discard(x)
    BY ServerStep
  <2> QED BY <1>0, <2>1, <2>2, <2>3, <2>4, <2>5 DEF OpsAreAccepted
<1>3. ASSUME NEW d \in Device
      PROVE  /\ snapshot'[d] \subseteq accepted'
             /\ call'[d].kind \in {"recover", "compact"} => call'[d].checkpoint.ops \subseteq accepted'
             /\ call'[d].kind = "committed" => call'[d].ops \subseteq accepted'
  <2>0. call \in [Device -> Call] /\ snapshot \in [Device -> SUBSET Op]
    BY DEF TypeOK
  <2>1. CASE UNCHANGED <<snapshot[d], call[d]>>
    BY <1>0, <2>1 DEF OpsAreAccepted
  <2>2. ASSUME NEW x \in Device, DeviceStep(x)
        PROVE  \/ UNCHANGED <<snapshot[d], call[d]>>
               \/ /\ snapshot'[d] \subseteq accepted
                  /\ \/ call'[d].kind \notin {"recover", "compact", "committed"}
                     \/ call'[d].kind \in {"recover", "compact"} /\ call'[d].checkpoint = checkpoint
                     \/ /\ call[d].kind = "commit" /\ call'[d].kind = "committed"
                        /\ call'[d].ops = call[d].request.ops
    <3>1. CASE Edit(x) \/ Undo(x) \/ FinishUndo(x) \/ StartPublish(x) \/ ServePublish(x)
      BY <2>0, <2>2, <3>1 DEF Edit, Undo, FinishUndo, StartPublish, ServePublish, localVars,
         OpsAreAccepted, Idle
    <3>2. CASE FinishPublish(x) \/ FinishRecovery(x) \/ ReadHeads(x)
      BY <2>0, <2>2, <3>2 DEF FinishPublish, FinishRecovery, ReadHeads, localVars,
         OpsAreAccepted, Idle
    <3>3. CASE ServeCommit(x)
      BY <2>0, <2>2, <3>3 DEF ServeCommit, localVars, OpsAreAccepted, Idle
    <3>4. CASE FinishCommit(x)
      BY <2>0, <2>2, <3>4 DEF FinishCommit, OpsAreAccepted, Idle
    <3>5. CASE \E purpose \in {"recover", "compact"} : ReadCheckpoint(x, purpose)
      BY <2>0, <2>2, <3>5 DEF ReadCheckpoint, localVars, OpsAreAccepted
    <3>6. CASE Timeout(x) \/ Crash(x)
      BY <2>0, <2>2, <3>6 DEF Timeout, Crash, OpsAreAccepted, Idle
    <3>7. CASE (\E e \in Device : InboundUpdate(x, e)) \/ Open(x) \/ Discard(x)
      BY <2>2, <3>7 DEF InboundUpdate, Open, Discard, localVars
    <3> QED BY <2>2, <3>1, <3>2, <3>3, <3>4, <3>5, <3>6, <3>7 DEF DeviceStep
  <2>3. call[d].kind = "commit" => call[d].request.ops \subseteq accepted
    BY DEF OpsAreAccepted, Requests
  <2>4. UNCHANGED <<snapshot[d], call[d]>> \/ \E x \in Device : DeviceStep(x)
    BY DEF Next, ServeLate, vars, localVars
  <2> QED BY <1>0, <2>1, <2>2, <2>3, <2>4 DEF OpsAreAccepted
<1> QED BY <1>1, <1>2, <1>3 DEF OpsAreAccepted

LEMMA OpsStep == TypeOK /\ OpsInv /\ [Next]_vars => OpsInv'
BY MadeIsKept, AcceptedIsKept DEF OpsInv

LEMMA OpsInit == Init => OpsInv
BY DEF Init, ServerInit, OpsInv, OpsAreMade, OpsAreAccepted, Publishing, Requests, NoHead,
   NoCheckpoint, NoEnvelope, Idle
-----------------------------------------------------------------------------
(* While a device publishes, its envelope is the one it will confirm.      *)
LEMMA EnqueueWriter ==
    ASSUME TypeOK, NEW x \in Device, NEW version, EnqueueCurrentState(x, version),
           NEW d \in Device
    PROVE  /\ d # x => pending'[d] = pending[d]
           /\ pending'[d] # NoEnvelope => pending[d] # NoEnvelope \/ d \in Writer
BY DEF EnqueueCurrentState, MustEnqueue, CommitLocal, TypeOK

PublishesPendingOf(d) ==
    /\ call[d] # Idle => open[d]
    /\ pending[d] # NoEnvelope => d \in Writer
    /\ Publishing(d) => d \in Writer /\ call[d].env = pending[d]
    /\ call[d].kind = "answered" /\ call[d].status \in {"published", "already"} =>
          call[d].env.ops \subseteq accepted

LEMMA PublishesPendingStep ==
    ASSUME TypeOK, OpsInv, PublishesPending, [Next]_vars
    PROVE  PublishesPending'
<1> SUFFICES ASSUME NEW d \in Device PROVE PublishesPendingOf(d)'
  BY DEF PublishesPending, PublishesPendingOf, Publishing
<1> USE DEF PublishesPendingOf, Publishing
<1>0. /\ accepted \subseteq accepted' /\ PublishesPendingOf(d)
      /\ call \in [Device -> Call] /\ open \in [Device -> BOOLEAN]
      /\ pending \in [Device -> Envelope]
  BY AcceptedGrows DEF PublishesPending, TypeOK
<1>1. ASSUME UNCHANGED <<call[d], open[d], pending[d]>> PROVE PublishesPendingOf(d)'
  BY <1>0, <1>1
<1>2. ASSUME NEW x \in Device, DeviceStep(x) PROVE PublishesPendingOf(d)'
  <2>0. CASE d # x
    <3>1. \A version : EnqueueCurrentState(x, version) => pending'[d] = pending[d]
      BY <2>0, EnqueueWriter
    <3>2. \A delta : CommitLocal(x, delta) => pending'[d] = pending[d]
      BY <2>0 DEF CommitLocal, TypeOK
    <3>3. CASE Edit(x) \/ Undo(x) \/ FinishUndo(x) \/ StartPublish(x) \/ ServePublish(x)
      BY <1>0, <1>1, <2>0, <3>1, <3>2, <3>3
         DEF Edit, Undo, FinishUndo, StartPublish, ServePublish, localVars
    <3>4. CASE FinishPublish(x) \/ FinishRecovery(x) \/ ReadHeads(x) \/ ServeCommit(x)
      BY <1>0, <1>1, <2>0, <3>1, <3>4
         DEF FinishPublish, ConfirmThrough, FinishRecovery, ReadHeads, ServeCommit, localVars
    <3>5. CASE FinishCommit(x) \/ Timeout(x) \/ Crash(x) \/ Open(x) \/ Discard(x)
      BY <1>0, <1>1, <2>0, <3>1, <3>5
         DEF FinishCommit, Timeout, Crash, Open, Discard, localVars
    <3>6. CASE \E purpose \in {"recover", "compact"} : ReadCheckpoint(x, purpose)
      BY <1>0, <1>1, <2>0, <3>6 DEF ReadCheckpoint, localVars
    <3>7. CASE \E e \in Device : InboundUpdate(x, e)
      BY <1>0, <1>1, <2>0, <3>1, <3>7 DEF InboundUpdate
    <3> QED BY <1>2, <3>3, <3>4, <3>5, <3>6, <3>7 DEF DeviceStep
  <2> SUFFICES ASSUME d = x PROVE PublishesPendingOf(d)'
    BY <2>0
  <2>1. CASE Edit(d)
    BY <1>0, <2>1 DEF Edit, Author, CommitLocal, Ready, Idle
  <2>2. CASE Undo(d)
    BY <1>0, <2>2 DEF Undo, Ready
  <2>3. CASE FinishUndo(d)
    BY <1>0, <2>3, EnqueueWriter DEF FinishUndo, Idle
  <2>4. CASE StartPublish(d)
    BY <1>0, <2>4 DEF StartPublish, Ready, Idle
  <2>5. CASE ServePublish(d)
    <3>1. call[d].kind = "publish" /\ call[d].env \in Envelope
      BY <1>0, <2>5, CallFields DEF ServePublish
    <3>2. PublishStatus(d, call[d].env) \in {"published", "already"} =>
            call[d].env.ops \subseteq accepted'
      BY <2>5, <1>0 DEF ServePublish, RunPublishHead, PublishStatus, OpsInv, OpsAreAccepted
    <3>3. call'[d] = [kind |-> "answered", env |-> call[d].env,
                      status |-> PublishStatus(d, call[d].env)]
      BY <1>0, <2>5 DEF ServePublish
    <3> QED BY <1>0, <2>5, <3>1, <3>2, <3>3 DEF ServePublish, localVars, Idle
  <2>6. CASE FinishPublish(d)
    <3>1. pending'[d] = NoEnvelope \/ pending'[d] = pending[d]
      BY <1>0, <2>6 DEF FinishPublish, ConfirmThrough
    <3>2. call'[d] = Idle
      BY <1>0, <2>6 DEF FinishPublish
    <3> QED BY <1>0, <2>6, <3>1, <3>2 DEF FinishPublish, Idle
  <2>7. CASE \E purpose \in {"recover", "compact"} : ReadCheckpoint(d, purpose)
    BY <1>0, <2>7 DEF ReadCheckpoint, localVars, Ready
  <2>8. CASE FinishRecovery(d)
    BY <1>0, <2>8, EnqueueWriter DEF FinishRecovery, Idle
  <2>9. CASE ReadHeads(d)
    BY <1>0, <2>9 DEF ReadHeads, localVars, Idle
  <2>10. CASE ServeCommit(d)
    BY <1>0, <2>10 DEF ServeCommit, localVars, Idle
  <2>11. CASE FinishCommit(d)
    BY <1>0, <2>11 DEF FinishCommit, Idle
  <2>12. ASSUME NEW e \in Device, InboundUpdate(d, e) PROVE PublishesPendingOf(d)'
    <3>1. pending'[d] # NoEnvelope => pending[d] # NoEnvelope \/ d \in Writer
      BY <2>12, EnqueueWriter DEF InboundUpdate
    <3> QED BY <1>0, <2>12, <3>1 DEF InboundUpdate, Ready, Idle
  <2>13. CASE Timeout(d)
    BY <1>0, <2>13 DEF Timeout, Idle
  <2>14. CASE Crash(d)
    BY <1>0, <2>14 DEF Crash, Idle
  <2>15. CASE Open(d)
    BY <1>0, <2>15, EnqueueWriter DEF Open, Idle
  <2>16. CASE Discard(d)
    BY <1>1, <2>16 DEF Discard, localVars
  <2> QED BY <1>2, <2>1, <2>2, <2>3, <2>4, <2>5, <2>6, <2>7, <2>8, <2>9, <2>10,
             <2>11, <2>12, <2>13, <2>14, <2>15, <2>16 DEF DeviceStep
<1>3. ASSUME NEW r \in late, ServeLate(r) PROVE PublishesPendingOf(d)'
  BY <1>1, <1>3 DEF ServeLate, localVars
<1>4. CASE UNCHANGED vars
  BY <1>1, <1>4 DEF vars, localVars
<1> QED BY <1>2, <1>3, <1>4 DEF Next
-----------------------------------------------------------------------------
(* The document of an open writer is accepted or queued.                   *)
DocIsQueuedOf(d) ==
    open[d] /\ call[d].kind # "undo" => Applied(doc[d]) \subseteq accepted \cup pending[d].ops

(* enqueue_current_state leaves nothing out that the server has not taken. *)
LEMMA EnqueueQueues ==
    ASSUME TypeOK, BaseWasAccepted, NEW x \in Writer, NEW version,
           EnqueueCurrentState(x, version)
    PROVE  version \subseteq accepted \cup pending'[x].ops
<1>1. x \in Device
  BY ConstantsAssumption
<1> QED BY <1>1, EnqueueOps DEF BaseWasAccepted

(* A new operation makes no other operation of its document usable.        *)
LEMMA AuthorApplies ==
    ASSUME TypeOK, OpsInv, [Next]_vars, NEW d \in Device, Author(d)
    PROVE  Applied(doc[d])' \subseteq Applied(doc[d]) \cup {NextOp(d)}
<1>1. doc'[d] = doc[d] \cup {NextOp(d)}
  BY DEF Author, TypeOK
<1> SUFFICES ASSUME NEW o \in doc[d], past'[o] \subseteq doc'[d] PROVE o \in Applied(doc[d])
  BY <1>1 DEF Applied
<1>2. o \in made /\ o \in Op
  BY DEF OpsInv, OpsAreMade, TypeOK
<1>3. past'[o] = past[o] /\ past[o] \subseteq made /\ NextOp(d) \notin made
  BY <1>2, MadeStep DEF OpsInv, OpsAreMade, Author
<1> QED BY <1>1, <1>3 DEF Applied

LEMMA DocIsQueuedStep ==
    ASSUME TypeOK, PublicationInv, [Next]_vars
    PROVE  DocIsQueued'
<1> SUFFICES ASSUME NEW d \in Writer PROVE DocIsQueuedOf(d)'
  BY DEF DocIsQueued, DocIsQueuedOf
<1> USE DEF PublicationInv
<1>0. /\ accepted \subseteq accepted' /\ DocIsQueuedOf(d)
      /\ d \in Device /\ OpsInv
      /\ call \in [Device -> Call] /\ open \in [Device -> BOOLEAN]
      /\ doc \in [Device -> SUBSET Op] /\ pending \in [Device -> Envelope]
      /\ doc[d] \subseteq made
  BY AcceptedGrows, ConstantsAssumption DEF DocIsQueued, DocIsQueuedOf, TypeOK, OpsInv, OpsAreMade
<1>1. \A S : S \subseteq made => {o \in S : past'[o] \subseteq S} = Applied(S)
  BY AppliedIsStable
<1>2. doc'[d] = doc[d] => Applied(doc[d])' = Applied(doc[d])
  BY <1>0, <1>1 DEF Applied
<1>3. ASSUME UNCHANGED <<doc[d], open[d], pending[d]>>,
             call'[d].kind # "undo" => call[d].kind # "undo"
      PROVE  DocIsQueuedOf(d)'
  BY <1>0, <1>2, <1>3 DEF DocIsQueuedOf
<1>4. ASSUME NEW received \in SUBSET made, doc'[d] = received,
             EnqueueCurrentState(d, Applied(received))
      PROVE  DocIsQueuedOf(d)'
  <2>1. Applied(received) \subseteq accepted \cup pending'[d].ops
    BY <1>4, EnqueueQueues
  <2>2. Applied(doc[d])' = Applied(received)
    BY <1>1, <1>4 DEF Applied
  <2> QED BY <1>0, <2>1, <2>2 DEF DocIsQueuedOf
<1>5. ASSUME NEW x \in Device, DeviceStep(x) PROVE DocIsQueuedOf(d)'
  <2>0. CASE d # x
    <3>1. \A version : EnqueueCurrentState(x, version) => pending'[d] = pending[d]
      BY <1>0, <2>0, EnqueueWriter
    <3>2. \A delta : CommitLocal(x, delta) => pending'[d] = pending[d]
      BY <1>0, <2>0 DEF CommitLocal, TypeOK
    <3>3. CASE Edit(x) \/ Undo(x) \/ FinishUndo(x) \/ StartPublish(x) \/ ServePublish(x)
      BY <1>0, <1>3, <2>0, <3>1, <3>2, <3>3
         DEF Edit, Undo, Author, FinishUndo, StartPublish, ServePublish, localVars
    <3>4. CASE FinishPublish(x) \/ FinishRecovery(x) \/ ReadHeads(x) \/ ServeCommit(x)
      BY <1>0, <1>3, <2>0, <3>1, <3>4
         DEF FinishPublish, ConfirmThrough, FinishRecovery, ReadHeads, ServeCommit, localVars
    <3>5. CASE FinishCommit(x) \/ Timeout(x) \/ Crash(x) \/ Open(x) \/ Discard(x)
      BY <1>0, <1>3, <2>0, <3>1, <3>5
         DEF FinishCommit, Timeout, Crash, Open, Discard, localVars
    <3>6. CASE \E purpose \in {"recover", "compact"} : ReadCheckpoint(x, purpose)
      BY <1>0, <1>3, <2>0, <3>6 DEF ReadCheckpoint, localVars
    <3>7. CASE \E e \in Device : InboundUpdate(x, e)
      BY <1>0, <1>3, <2>0, <3>1, <3>7 DEF InboundUpdate
    <3> QED BY <1>5, <3>3, <3>4, <3>5, <3>6, <3>7 DEF DeviceStep
  <2> SUFFICES ASSUME d = x PROVE DocIsQueuedOf(d)'
    BY <2>0
  <2>1. CASE Edit(d)
    <3> DEFINE delta == (Applied(doc[d]) \cup {NextOp(d)}) \ base[d]
    <3>1. Applied(doc[d])' \subseteq Applied(doc[d]) \cup {NextOp(d)}
      BY <1>0, <2>1, AuthorApplies DEF Edit
    <3>2. pending'[d].ops = delta
      BY <1>0, <2>1, CommitLocalOps DEF Edit
    <3>3. base[d] \subseteq accepted
      BY <1>0 DEF BaseWasAccepted
    <3> QED BY <1>0, <3>1, <3>2, <3>3 DEF DocIsQueuedOf
  <2>2. CASE Undo(d)
    BY <1>0, <2>2 DEF Undo, DocIsQueuedOf
  <2>3. CASE FinishUndo(d)
    BY <1>0, <1>4, <2>3 DEF FinishUndo
  <2>4. CASE StartPublish(d)
    BY <1>0, <1>3, <2>4 DEF StartPublish, Ready, Idle
  <2>5. CASE ServePublish(d)
    BY <1>0, <1>3, <2>5 DEF ServePublish, localVars
  <2>6. CASE FinishPublish(d)
    <3>1. pending'[d] = pending[d] \/ pending[d].ops \subseteq accepted
      BY <1>0, <2>6 DEF FinishPublish, PublishesPending, Publishing
    <3>2. UNCHANGED <<doc, accepted, open>>
      BY <2>6 DEF FinishPublish
    <3> QED BY <1>0, <1>2, <2>6, <3>1, <3>2 DEF FinishPublish, DocIsQueuedOf
  <2>7. CASE \E purpose \in {"recover", "compact"} : ReadCheckpoint(d, purpose)
    BY <1>0, <1>3, <2>7 DEF ReadCheckpoint, localVars, Ready, Idle
  <2>8. CASE FinishRecovery(d)
    <3>1. doc[d] \cup call[d].checkpoint.ops \cup ListedOps \in SUBSET made
      BY <1>0, <2>8, ListedOpsAccepted DEF FinishRecovery, OpsAreMade, OpsAreAccepted
    <3> QED BY <1>0, <1>4, <2>8, <3>1 DEF FinishRecovery
  <2>9. CASE ReadHeads(d)
    BY <1>0, <1>3, <2>9 DEF ReadHeads, localVars
  <2>10. CASE ServeCommit(d)
    BY <1>0, <1>3, <2>10 DEF ServeCommit, localVars
  <2>11. CASE FinishCommit(d)
    BY <1>0, <1>3, <2>11 DEF FinishCommit
  <2>12. ASSUME NEW e \in Device, InboundUpdate(d, e) PROVE DocIsQueuedOf(d)'
    <3> DEFINE received == doc[d] \cup Applied(doc[e])
    <3>1. received \in SUBSET made
      BY <1>0, AppliedSubset DEF OpsAreMade
    <3>2. doc'[d] = received
      BY <1>0, <2>12 DEF InboundUpdate
    <3>3. CASE Applied(received) # Applied(doc[d])
      BY <1>4, <2>12, <3>1, <3>2, <3>3 DEF InboundUpdate
    <3>4. CASE Applied(received) = Applied(doc[d])
      <4>1. Applied(doc[d])' = Applied(received)
        BY <1>1, <3>1, <3>2 DEF Applied
      <4>2. UNCHANGED <<pending, open, call>>
        BY <2>12, <3>4 DEF InboundUpdate
      <4> QED BY <1>0, <3>4, <4>1, <4>2 DEF DocIsQueuedOf
    <3> QED BY <3>3, <3>4
  <2>13. CASE Timeout(d)
    BY <1>0, <1>3, <2>13 DEF Timeout
  <2>14. CASE Crash(d)
    BY <1>0, <2>14 DEF Crash, DocIsQueuedOf
  <2>15. CASE Open(d)
    <3>1. doc[d] \cup snapshot[d] \cup updates[d] \in SUBSET made
      BY <1>0 DEF OpsAreMade, OpsAreAccepted
    <3> QED BY <1>0, <1>4, <2>15, <3>1 DEF Open
  <2>16. CASE Discard(d)
    BY <1>3, <2>16 DEF Discard, localVars
  <2> QED BY <1>5, <2>1, <2>2, <2>3, <2>4, <2>5, <2>6, <2>7, <2>8, <2>9, <2>10,
             <2>11, <2>12, <2>13, <2>14, <2>15, <2>16 DEF DeviceStep
<1>6. ASSUME NEW r \in late, ServeLate(r) PROVE DocIsQueuedOf(d)'
  BY <1>3, <1>6 DEF ServeLate, localVars
<1>7. CASE UNCHANGED vars
  BY <1>3, <1>7 DEF vars, localVars
<1> QED BY <1>5, <1>6, <1>7 DEF Next

(* The base moves at the end of a publication, to a document that is in    *)
(* the accepted envelope or was accepted before, and after a compaction.   *)
LEMMA BaseStep ==
    ASSUME TypeOK, PublicationInv, [Next]_vars
    PROVE  BaseWasAccepted'
<1> SUFFICES ASSUME NEW d \in Device PROVE base'[d] \subseteq accepted'
  BY DEF BaseWasAccepted
<1> USE DEF PublicationInv
<1>0. accepted \subseteq accepted' /\ base[d] \subseteq accepted /\ base \in [Device -> SUBSET Op]
  BY AcceptedGrows DEF BaseWasAccepted, TypeOK
<1>1. ASSUME NEW x \in Device, FinishPublish(x) PROVE base'[d] \subseteq accepted'
  <2>1. CASE d = x /\ call[d].status \in {"published", "already"}
    <3>1. /\ d \in Writer /\ open[d] /\ call[d].kind = "answered"
          /\ pending[d].ops \subseteq accepted
      BY <1>1, <2>1 DEF FinishPublish, PublishesPending, Publishing, Idle
    <3>2. Applied(doc[d]) \subseteq accepted
      BY <3>1 DEF DocIsQueued
    <3> QED BY <1>0, <1>1, <2>1, <3>2 DEF FinishPublish, ConfirmThrough
  <2>2. CASE ~(d = x /\ call[d].status \in {"published", "already"})
    BY <1>0, <1>1, <2>2 DEF FinishPublish, ConfirmThrough
  <2> QED BY <2>1, <2>2
<1>2. ASSUME NEW x \in Device, FinishCommit(x) PROVE base'[d] \subseteq accepted'
  BY <1>0, <1>2 DEF FinishCommit, OpsAreAccepted
<1>3. ASSUME NEW x \in Device, DeviceStep(x), ~FinishPublish(x), ~FinishCommit(x)
      PROVE  base' = base
  BY <1>3 DEF DeviceStep, Edit, Undo, FinishUndo, StartPublish, ServePublish, ReadCheckpoint,
     FinishRecovery, ReadHeads, ServeCommit, InboundUpdate, Timeout, Crash, Open, Discard, localVars
<1> QED BY <1>0, <1>1, <1>2, <1>3 DEF Next, ServeLate, vars, localVars

LEMMA PublicationStep == TypeOK /\ PublicationInv /\ [Next]_vars => PublicationInv'
BY OpsStep, PublishesPendingStep, DocIsQueuedStep, BaseStep DEF PublicationInv, OpsInv

LEMMA PublicationInit == Init => PublicationInv
<1> SUFFICES ASSUME Init PROVE PublishesPending /\ DocIsQueued /\ BaseWasAccepted
  BY OpsInit DEF PublicationInv, OpsInv
<1> QED BY AppliedSubset, ConstantsAssumption
        DEF Init, PublishesPending, DocIsQueued, BaseWasAccepted, Publishing, NoEnvelope, Idle

(* What a device leaves out of its envelopes was accepted by the server    *)
(* before, for every number of devices, edits, crashes and late requests.  *)
THEOREM BaseCoversAcceptedOnly == Spec => []BaseWasAccepted
<1>1. TypeOK /\ PublicationInv /\ [Next]_vars => (TypeOK /\ PublicationInv)'
  BY TypeStep, PublicationStep
<1>2. Init => TypeOK /\ PublicationInv
  BY TypeInit, PublicationInit
<1>3. PublicationInv => BaseWasAccepted
  BY DEF PublicationInv
<1> QED BY <1>1, <1>2, <1>3, PTL DEF Spec
-----------------------------------------------------------------------------
(***************************************************************************)
(* A committed compaction loses nothing.  The compare-and-swap names the   *)
(* checkpoint by its epoch and each branch by its row id and revision.     *)
(* Epochs and revisions only grow and ids are never used again, so a       *)
(* request that is still committed finds exactly the checkpoint and the    *)
(* branches its author merged.                                             *)
(***************************************************************************)

(* What a step may do to the row of a device and to the checkpoint.        *)
RowKept(d) == heads'[d] = heads[d]
RowDeleted(d) == heads'[d] = NoHead
RowPatched(d) ==
    /\ HasHead(d)
    /\ heads'[d].id = heads[d].id /\ heads'[d].revision = heads[d].revision + 1
RowInserted(d) ==
    /\ heads'[d].id = inserted + 1 /\ inserted' = inserted + 1

ServerMoves ==
    /\ inserted <= inserted'
    /\ checkpoint' = checkpoint \/ checkpoint'.epoch = checkpoint.epoch + 1
    /\ \A d \in Device : RowKept(d) \/ RowDeleted(d) \/ RowPatched(d) \/ RowInserted(d)

LEMMA ServerMoving ==
    ASSUME TypeOK, OpsInv, [Next]_vars
    PROVE  ServerMoves
<1> USE DEF ServerMoves, RowKept, RowDeleted, RowPatched, RowInserted
<1>0. heads \in [Device -> Row] /\ inserted \in Nat
  BY DEF TypeOK
<1>1. ASSUME NEW x \in Device, NEW env \in Envelope, RunPublishHead(x, env) PROVE ServerMoves
  <2>1. CASE PublishStatus(x, env) = "published" /\ HasHead(x)
    BY <1>0, <1>1, <2>1 DEF RunPublishHead, PublishHead, PublishedRow
  <2>2. CASE PublishStatus(x, env) = "published" /\ ~HasHead(x)
    BY <1>0, <1>1, <2>2 DEF RunPublishHead, PublishHead, PublishedRow
  <2>3. CASE PublishStatus(x, env) # "published"
    BY <1>0, <1>1, <2>3 DEF RunPublishHead, PublishHead
  <2> QED BY <2>1, <2>2, <2>3
<1>2. ASSUME NEW request \in Requests, CommitCheckpoint(request) PROVE ServerMoves
  <2>1. CASE CasMatches(request)
    BY <1>0, <1>2, <2>1 DEF CommitCheckpoint
  <2>2. CASE ~CasMatches(request)
    BY <1>0, <1>2, <2>2 DEF CommitCheckpoint
  <2> QED BY <2>1, <2>2
<1>3. ASSUME NEW x \in Device, Discard(x) PROVE ServerMoves
  BY <1>0, <1>3 DEF Discard, DiscardStaleHead
<1>4. ASSUME UNCHANGED serverVars PROVE ServerMoves
  BY <1>0, <1>4 DEF serverVars
<1> QED BY <1>1, <1>2, <1>3, <1>4, ServerStep

(* The shape of a compactor's fields.                                      *)
LEMMA RequestRows ==
    ASSUME TypeOK, NEW request \in Request
    PROVE  /\ request.expected \in Nat
           /\ \A row \in request.consumed :
                 row.device \in Device /\ row.id \in Nat /\ row.revision \in Nat
BY DEF Request, Consumed

LEMMA RowFields ==
    ASSUME TypeOK
    PROVE  /\ inserted \in Nat /\ checkpoint.epoch \in Nat
           /\ \A d \in Device : heads[d] \in Row /\ heads[d].id \in Nat /\ heads[d].revision \in Nat
BY DEF TypeOK, Row, Checkpoint

(* A compactor that read the checkpoint holds it, or an older one.         *)
LEMMA ReadsAreOldStep ==
    ASSUME TypeOK, TypeOK', OpsInv, CompactionInv, [Next]_vars
    PROVE  ReadsAreOld'
<1> SUFFICES ASSUME NEW d \in Device, call'[d].kind = "compact"
             PROVE  /\ call'[d].checkpoint.epoch <= checkpoint'.epoch
                    /\ call'[d].checkpoint.epoch = checkpoint'.epoch =>
                          call'[d].checkpoint = checkpoint'
  BY DEF ReadsAreOld
<1>0. call \in [Device -> Call] /\ call[d] \in Call /\ checkpoint.epoch \in Nat
  BY DEF TypeOK, Checkpoint
<1>1. call'[d] = call[d] \/ (call'[d].checkpoint = checkpoint /\ checkpoint' = checkpoint)
  <2>1. ASSUME NEW x \in Device, DeviceStep(x)
        PROVE  call'[d] = call[d] \/ (call'[d].checkpoint = checkpoint /\ checkpoint' = checkpoint)
    <3>1. CASE Edit(x) \/ Undo(x) \/ FinishUndo(x) \/ StartPublish(x) \/ ServePublish(x)
      BY <1>0, <3>1 DEF Edit, Undo, FinishUndo, StartPublish, ServePublish, Idle
    <3>2. CASE FinishPublish(x) \/ FinishRecovery(x) \/ ReadHeads(x)
      BY <1>0, <3>2 DEF FinishPublish, FinishRecovery, ReadHeads, Idle
    <3>3. CASE ServeCommit(x) \/ FinishCommit(x) \/ Timeout(x) \/ Crash(x)
      BY <1>0, <3>3 DEF ServeCommit, FinishCommit, Timeout, Crash, Idle
    <3>4. CASE \E purpose \in {"recover", "compact"} : ReadCheckpoint(x, purpose)
      BY <1>0, <3>4 DEF ReadCheckpoint, serverVars
    <3>5. CASE (\E e \in Device : InboundUpdate(x, e)) \/ Open(x) \/ Discard(x)
      BY <3>5 DEF InboundUpdate, Open, Discard
    <3> QED BY <2>1, <3>1, <3>2, <3>3, <3>4, <3>5 DEF DeviceStep
  <2> QED BY <2>1 DEF Next, ServeLate, vars
<1>2. CASE call'[d].checkpoint = checkpoint /\ checkpoint' = checkpoint
  BY <1>0, <1>2
<1>3. CASE call'[d] = call[d]
  <2>1. /\ call[d].checkpoint.epoch <= checkpoint.epoch
        /\ call[d].checkpoint.epoch = checkpoint.epoch => call[d].checkpoint = checkpoint
    BY <1>3 DEF CompactionInv, ReadsAreOld
  <2>2. call[d].checkpoint.epoch \in Nat
    BY <1>0, <1>3, CallFields DEF Checkpoint
  <2>3. checkpoint' = checkpoint \/ checkpoint'.epoch = checkpoint.epoch + 1
    BY ServerMoving DEF ServerMoves
  <2> QED BY <1>0, <1>3, <2>1, <2>2, <2>3
<1> QED BY <1>1, <1>2, <1>3
(* Ids are not used twice and revisions only grow.                         *)
RowsOf(request) ==
    /\ request.expected <= checkpoint.epoch
    /\ \A row \in request.consumed :
          /\ 0 < row.id /\ row.id <= inserted
          /\ heads[row.device].id = row.id => row.revision <= heads[row.device].revision

LEMMA HeadsAreCountedStep ==
    ASSUME TypeOK, OpsInv, CompactionInv, [Next]_vars, NEW d \in Device
    PROVE  heads'[d].id <= inserted' /\ (HasHead(d)' => heads'[d].id > 0)
<1>1. /\ heads[d].id <= inserted /\ (HasHead(d) => heads[d].id > 0)
      /\ inserted \in Nat /\ heads[d].id \in Nat
  BY RowFields DEF CompactionInv, RowsAreCounted
<1>2. inserted' \in Nat /\ inserted <= inserted'
  BY TypeStep, ServerMoving DEF TypeOK, ServerMoves
<1>3. RowKept(d) \/ RowDeleted(d) \/ RowPatched(d) \/ RowInserted(d)
  BY ServerMoving DEF ServerMoves
<1>4. CASE RowKept(d)
  BY <1>1, <1>2, <1>4 DEF RowKept, HasHead
<1>5. CASE RowDeleted(d)
  BY <1>2, <1>5 DEF RowDeleted, HasHead, NoHead
<1>6. CASE RowPatched(d)
  BY <1>1, <1>2, <1>6 DEF RowPatched
<1>7. CASE RowInserted(d)
  BY <1>1, <1>7 DEF RowInserted
<1> QED BY <1>3, <1>4, <1>5, <1>6, <1>7

LEMMA OldRequestRows ==
    ASSUME TypeOK, OpsInv, CompactionInv, [Next]_vars, NEW request \in Requests
    PROVE  RowsOf(request)'
<1>1. request \in Request /\ RowsOf(request)
  BY RequestOps DEF OpsInv, CompactionInv, RowsAreCounted, RowsOf
<1>2. /\ inserted \in Nat /\ inserted' \in Nat /\ inserted <= inserted'
      /\ checkpoint.epoch \in Nat
      /\ checkpoint' = checkpoint \/ checkpoint'.epoch = checkpoint.epoch + 1
  BY RowFields, TypeStep, ServerMoving DEF TypeOK, ServerMoves
<1>3. request.expected <= checkpoint'.epoch
  BY <1>1, <1>2, RequestRows DEF RowsOf
<1>4. ASSUME NEW row \in request.consumed
      PROVE  /\ 0 < row.id /\ row.id <= inserted'
             /\ heads'[row.device].id = row.id => row.revision <= heads'[row.device].revision
  <2> DEFINE d == row.device
  <2>1. /\ d \in Device /\ row.id \in Nat /\ row.revision \in Nat
        /\ heads[d].id \in Nat /\ heads[d].revision \in Nat
        /\ 0 < row.id /\ row.id <= inserted
        /\ heads[d].id = row.id => row.revision <= heads[d].revision
    BY <1>1, RequestRows, RowFields DEF RowsOf
  <2>2. RowKept(d) \/ RowDeleted(d) \/ RowPatched(d) \/ RowInserted(d)
    BY <2>1, ServerMoving DEF ServerMoves
  <2> HIDE DEF d
  <2>3. heads'[d].id = row.id => row.revision <= heads'[d].revision
    BY <1>2, <2>1, <2>2 DEF RowKept, RowDeleted, RowPatched, RowInserted, NoHead
  <2> QED BY <1>2, <2>1, <2>3 DEF d
<1> QED BY <1>3, <1>4 DEF RowsOf

LEMMA NewRequestRows ==
    ASSUME TypeOK, CompactionInv, NEW x \in Device, ReadHeads(x),
           NEW request, request = NewRequest(x)
    PROVE  RowsOf(request)'
<1>1. UNCHANGED serverVars /\ call[x].checkpoint.epoch <= checkpoint.epoch
  BY DEF ReadHeads, CompactionInv, ReadsAreOld
<1>2. \A row \in ListedHeads :
         /\ 0 < row.id /\ row.id <= inserted
         /\ row.revision = heads[row.device].revision
         /\ row.revision \in Nat
  BY RowFields DEF ListedHeads, CompactionInv, RowsAreCounted
<1>3. request.expected = call[x].checkpoint.epoch /\ request.consumed = ListedHeads
  BY DEF NewRequest
<1> QED BY <1>1, <1>2, <1>3 DEF RowsOf, serverVars

LEMMA RowsAreCountedStep ==
    ASSUME TypeOK, OpsInv, CompactionInv, [Next]_vars
    PROVE  RowsAreCounted'
<1>1. \A request \in Requests' : RowsOf(request)'
  BY RequestsStep, OldRequestRows, NewRequestRows
<1> QED BY <1>1, HeadsAreCountedStep DEF RowsAreCounted, RowsOf

-----------------------------------------------------------------------------
(* A request that would be committed after a step would have been committed *)
(* before it, over the same checkpoint and branches.                       *)
LEMMA CasIsStable ==
    ASSUME TypeOK, OpsInv, CompactionInv, [Next]_vars,
           NEW request \in Requests, CasMatches(request)'
    PROVE  CasMatches(request) /\ Selected(request)' = Selected(request)
<1>1. request \in Request /\ RowsOf(request)
  BY RequestOps DEF OpsInv, CompactionInv, RowsAreCounted, RowsOf
<1>2. checkpoint' = checkpoint
  <2>1. checkpoint' = checkpoint \/ checkpoint'.epoch = checkpoint.epoch + 1
    BY ServerMoving DEF ServerMoves
  <2>2. checkpoint'.epoch = request.expected /\ request.expected <= checkpoint.epoch
    BY <1>1 DEF CasMatches, RowsOf
  <2> QED BY <2>1, <2>2, RowFields
<1>3. ASSUME NEW row \in request.consumed
      PROVE  heads'[row.device] = heads[row.device]
  <2> DEFINE d == row.device
  <2>1. /\ d \in Device /\ row.id \in Nat /\ row.revision \in Nat
        /\ heads[d].id \in Nat /\ heads[d].revision \in Nat /\ inserted \in Nat
        /\ 0 < row.id /\ row.id <= inserted
        /\ heads[d].id = row.id => row.revision <= heads[d].revision
    BY <1>1, RequestRows, RowFields DEF RowsOf
  <2>2. heads'[d].id = row.id /\ heads'[d].revision = row.revision
    BY DEF CasMatches
  <2>3. RowKept(d) \/ RowDeleted(d) \/ RowPatched(d) \/ RowInserted(d)
    BY <2>1, ServerMoving DEF ServerMoves
  <2> HIDE DEF d
  <2>4. RowKept(d)
    BY <2>1, <2>2, <2>3 DEF RowDeleted, RowPatched, RowInserted, NoHead
  <2> QED BY <2>4 DEF RowKept, d
<1>4. CasMatches(request)
  BY <1>2, <1>3 DEF CasMatches
<1>5. Selected(request)' = Selected(request)
  BY <1>2, <1>3 DEF Selected
<1> QED BY <1>4, <1>5

LEMMA SelectedIsMade ==
    ASSUME TypeOK, OpsInv, NEW request \in Request
    PROVE  Selected(request) \subseteq made
BY RequestRows DEF Selected, OpsInv, OpsAreMade, OpsAreAccepted

LEMMA RequestsKeepBranchesStep ==
    ASSUME TypeOK, OpsInv, CompactionInv, [Next]_vars
    PROVE  RequestsKeepBranches'
<1> SUFFICES ASSUME NEW request \in Requests', CasMatches(request)'
             PROVE  Applied(Selected(request))' \subseteq request.ops
  BY DEF RequestsKeepBranches
<1>0. \A S : S \subseteq made => {o \in S : past'[o] \subseteq S} = Applied(S)
  BY AppliedIsStable
<1>1. CASE request \in Requests
  <2>1. CasMatches(request) /\ Selected(request)' = Selected(request)
    BY <1>1, CasIsStable
  <2>2. Selected(request) \subseteq made
    BY <1>1, RequestOps, SelectedIsMade DEF OpsInv
  <2>3. Applied(Selected(request)) \subseteq request.ops
    BY <1>1, <2>1 DEF CompactionInv, RequestsKeepBranches
  <2>4. Applied(Selected(request))' = Applied(Selected(request))
    BY <1>0, <2>1, <2>2 DEF Applied
  <2> QED BY <2>3, <2>4
<1>2. ASSUME NEW x \in Device, ReadHeads(x), request = NewRequest(x)
      PROVE  Applied(Selected(request))' \subseteq request.ops
  <2>1. UNCHANGED <<checkpoint, heads, past>>
    BY <1>2 DEF ReadHeads, serverVars, localVars
  <2>2. call[x].checkpoint = checkpoint
    BY <1>2, <2>1 DEF NewRequest, CasMatches, CompactionInv, ReadsAreOld, ReadHeads
  <2>3. Selected(request) \subseteq checkpoint.ops \cup ListedOps
    BY <1>2 DEF Selected, NewRequest, ListedHeads, ListedOps
  <2>4. request.ops = Applied(checkpoint.ops \cup ListedOps)
    BY <1>2, <2>2 DEF NewRequest
  <2>5. Applied(Selected(request))' = Applied(Selected(request))
    BY <2>1 DEF Applied, Selected
  <2> QED BY <2>3, <2>4, <2>5, AppliedMonotone
<1> QED BY <1>1, <1>2, RequestsStep

LEMMA CompactionStep == TypeOK /\ OpsInv /\ CompactionInv /\ [Next]_vars => CompactionInv'
BY TypeStep, RowsAreCountedStep, RequestsKeepBranchesStep, ReadsAreOldStep DEF CompactionInv

LEMMA CompactionInit == Init => CompactionInv
BY DEF Init, ServerInit, CompactionInv, RowsAreCounted, RequestsKeepBranches, ReadsAreOld,
   Requests, HasHead, NoHead, Idle

LEMMA CommitKeepsBranches ==
    ASSUME TypeOK, OpsInv, CompactionInv, [Next]_vars, checkpoint' # checkpoint
    PROVE  LET consumed == {d \in Device : HasHead(d) /\ heads'[d] = NoHead}
           IN  Applied(checkpoint.ops \cup UNION {heads[d].ops : d \in consumed})
                 \subseteq checkpoint'.ops
<1> DEFINE consumed == {d \in Device : HasHead(d) /\ heads'[d] = NoHead}
           lost == checkpoint.ops \cup UNION {heads[d].ops : d \in consumed}
<1>1. PICK request \in Requests : CommitCheckpoint(request)
  <2>1. ASSUME NEW x, NEW env, RunPublishHead(x, env) PROVE checkpoint' = checkpoint
    BY <2>1 DEF RunPublishHead, PublishHead
  <2> QED BY <2>1, ServerStep DEF serverVars, Discard, DiscardStaleHead
<1>2. /\ CasMatches(request) /\ checkpoint'.ops = request.ops
      /\ heads' = [d \in Device |-> IF \E row \in request.consumed : row.device = d
                                    THEN NoHead ELSE heads[d]]
  BY <1>1 DEF CommitCheckpoint
<1>3. lost \subseteq Selected(request)
  BY <1>2 DEF Selected, HasHead
<1>4. Applied(Selected(request)) \subseteq request.ops
  BY <1>2 DEF CompactionInv, RequestsKeepBranches
<1> QED BY <1>2, <1>3, <1>4, AppliedMonotone

(* Whatever publishes, compacts, times out or crashes between reading the  *)
(* branches and the commit, a committed compaction keeps everything usable *)
(* of the checkpoint and the branches it replaces.                         *)
THEOREM CompactionIsSafe == Spec => CompactionKeepsBranches
<1>1. TypeOK /\ OpsInv /\ CompactionInv /\ [Next]_vars => (TypeOK /\ OpsInv /\ CompactionInv)'
  BY TypeStep, OpsStep, CompactionStep
<1>2. Init => TypeOK /\ OpsInv /\ CompactionInv
  BY TypeInit, OpsInit, CompactionInit
<1>3. TypeOK /\ OpsInv /\ CompactionInv /\ [Next]_vars =>
        [ checkpoint' # checkpoint =>
            LET consumed == {d \in Device : HasHead(d) /\ heads'[d] = NoHead}
            IN  Applied(checkpoint.ops \cup UNION {heads[d].ops : d \in consumed})
                  \subseteq checkpoint'.ops ]_vars
  BY CommitKeepsBranches
<1> QED BY <1>1, <1>2, <1>3, PTL DEF Spec, CompactionKeepsBranches

-------------------------------------------------------------------------------
(***************************************************************************)
(* What is on a writer's disk and was never accepted is in the envelope it *)
(* will publish next.  The store of a writer is closed under the causal    *)
(* past, so a replay can use all of it; the document of an open project    *)
(* therefore contains it, and every sealing covers the document above a    *)
(* base the server has accepted.                                           *)
(***************************************************************************)

SafetyInv == OpsInv /\ PublicationInv /\ CompactionInv /\ StoreInv

LEMMA AppliedIsClosed ==
    ASSUME TypeOK, PastsAreClosed, NEW S \in SUBSET Op
    PROVE  Closed(Applied(S))
<1> SUFFICES ASSUME NEW o \in S, past[o] \subseteq S, NEW p \in past[o]
             PROVE  p \in S /\ past[p] \subseteq S
  BY DEF Closed, Applied
<1>1. past[p] \subseteq past[o]
  BY DEF PastsAreClosed, Closed, TypeOK
<1> QED BY <1>1

LEMMA ClosedIsStable ==
    ASSUME TypeOK, [Next]_vars
    PROVE  \A S : S \subseteq made /\ Closed(S) => \A o \in S : past'[o] \subseteq S
BY MadeStep DEF Closed

LEMMA AppliedOfClosed == \A S : Closed(S) => S \subseteq Applied(S)
BY DEF Applied, Closed

(* What an authored operation is made of.                                  *)
LEMMA AuthorPast ==
    ASSUME TypeOK, OpsInv, [Next]_vars, NEW d \in Device, Author(d)
    PROVE  /\ past'[NextOp(d)] = Applied(doc[d])
           /\ Applied(doc[d])' = Applied(doc[d]) \cup {NextOp(d)}
           /\ doc'[d] = doc[d] \cup {NextOp(d)}
<1>1. /\ doc'[d] = doc[d] \cup {NextOp(d)} /\ NextOp(d) \in Op \ made
      /\ past' = [past EXCEPT ![NextOp(d)] = Applied(doc[d])]
  BY DEF Author, TypeOK
<1>2. past'[NextOp(d)] = Applied(doc[d])
  BY <1>1 DEF TypeOK
<1>3. ASSUME NEW o \in Applied(doc[d]) PROVE o \in Applied(doc[d])'
  <2>1. o \in made /\ o \in doc[d] /\ past[o] \subseteq doc[d]
    BY DEF Applied, OpsInv, OpsAreMade
  <2>2. past'[o] = past[o]
    BY <2>1, MadeStep
  <2> QED BY <1>1, <2>1, <2>2 DEF Applied
<1>4. NextOp(d) \in Applied(doc[d])'
  BY <1>1, <1>2, AppliedSubset DEF Applied
<1> QED BY <1>1, <1>2, <1>3, <1>4, AuthorApplies

LEMMA PastsStep ==
    ASSUME TypeOK, OpsInv, PastsAreClosed, [Next]_vars
    PROVE  PastsAreClosed'
<1> SUFFICES ASSUME NEW o \in Op, NEW p \in past'[o] PROVE past'[p] \subseteq past'[o]
  BY DEF PastsAreClosed, Closed
<1>0. /\ past[o] \subseteq made /\ past[o] \subseteq Op /\ Closed(past[o])
      /\ past \in [Op -> SUBSET Op] /\ doc \in [Device -> SUBSET Op]
  BY DEF OpsInv, OpsAreMade, PastsAreClosed, TypeOK
<1>1. CASE past'[o] = past[o]
  BY <1>0, <1>1, MadeStep DEF Closed
<1>2. ASSUME NEW d \in Device, Author(d), past'[o] # past[o]
      PROVE  past'[p] \subseteq past'[o]
  <2>1. o = NextOp(d) /\ past'[o] = Applied(doc[d])
    BY <1>0, <1>2, AuthorPast DEF Author
  <2>2. Closed(Applied(doc[d])) /\ Applied(doc[d]) \subseteq made
    BY <1>0, AppliedIsClosed, AppliedSubset DEF OpsInv, OpsAreMade
  <2> QED BY <2>1, <2>2, ClosedIsStable
<1>3. UNCHANGED past \/ \E d \in Device : Author(d)
  BY DEF Next, DeviceStep, vars, Edit, Undo, FinishUndo, StartPublish, ServePublish, FinishPublish,
     ReadCheckpoint, FinishRecovery, ReadHeads, ServeCommit, FinishCommit, InboundUpdate,
     Timeout, Crash, Open, Discard, ServeLate, localVars
<1> QED BY <1>1, <1>2, <1>3

-----------------------------------------------------------------------------
(* The checkpoint only grows, so what a device saved of it stays covered.  *)
LEMMA CheckpointGrows ==
    ASSUME TypeOK, SafetyInv, [Next]_vars
    PROVE  checkpoint.ops \subseteq checkpoint'.ops
<1> DEFINE consumed == {d \in Device : HasHead(d) /\ heads'[d] = NoHead}
<1>1. CASE checkpoint' # checkpoint
  <2>1. Applied(checkpoint.ops \cup UNION {heads[d].ops : d \in consumed}) \subseteq checkpoint'.ops
    BY <1>1, CommitKeepsBranches DEF SafetyInv
  <2>2. checkpoint.ops \subseteq Applied(checkpoint.ops)
    BY AppliedOfClosed DEF SafetyInv, StoreInv, StoresAreClosed
  <2> QED BY <2>1, <2>2, AppliedMonotone
<1> QED BY <1>1

(* A call is committed by the server's answer only.                        *)
LEMMA CommittedStep ==
    ASSUME TypeOK, [Next]_vars, NEW d \in Device, call'[d].kind = "committed"
    PROVE  \/ call'[d] = call[d]
           \/ /\ ServeCommit(d) /\ CasMatches(call[d].request)
              /\ call'[d].ops = call[d].request.ops
<1>0. call \in [Device -> Call]
  BY DEF TypeOK
<1>1. ASSUME NEW x \in Device, DeviceStep(x), call'[d] # call[d]
      PROVE  /\ ServeCommit(d) /\ CasMatches(call[d].request)
             /\ call'[d].ops = call[d].request.ops
  <2>1. CASE Edit(x) \/ Undo(x) \/ FinishUndo(x) \/ StartPublish(x) \/ ServePublish(x)
    BY <1>0, <1>1, <2>1 DEF Edit, Undo, FinishUndo, StartPublish, ServePublish, Idle
  <2>2. CASE FinishPublish(x) \/ FinishRecovery(x) \/ ReadHeads(x) \/ FinishCommit(x)
    BY <1>0, <1>1, <2>2 DEF FinishPublish, FinishRecovery, ReadHeads, FinishCommit, Idle
  <2>3. CASE ServeCommit(x)
    BY <1>0, <1>1, <2>3 DEF ServeCommit, Idle
  <2>4. CASE \E purpose \in {"recover", "compact"} : ReadCheckpoint(x, purpose)
    BY <1>0, <1>1, <2>4 DEF ReadCheckpoint
  <2>5. CASE Timeout(x) \/ Crash(x)
    BY <1>0, <1>1, <2>5 DEF Timeout, Crash, Idle
  <2>6. CASE (\E e \in Device : InboundUpdate(x, e)) \/ Open(x) \/ Discard(x)
    BY <1>1, <2>6 DEF InboundUpdate, Open, Discard
  <2> QED BY <1>1, <2>1, <2>2, <2>3, <2>4, <2>5, <2>6 DEF DeviceStep
<1> QED BY <1>1 DEF Next, ServeLate, vars

LEMMA SnapshotsAreOldStep ==
    ASSUME TypeOK, SafetyInv, [Next]_vars
    PROVE  SnapshotsAreOld'
<1> SUFFICES ASSUME NEW d \in Device
             PROVE  /\ snapshot'[d] \subseteq checkpoint'.ops
                    /\ call'[d].kind = "committed" =>
                          /\ snapshot'[d] \subseteq call'[d].ops
                          /\ call'[d].ops \subseteq checkpoint'.ops
  BY DEF SnapshotsAreOld
<1>0. /\ snapshot[d] \subseteq checkpoint.ops
      /\ call[d].kind = "committed" =>
            snapshot[d] \subseteq call[d].ops /\ call[d].ops \subseteq checkpoint.ops
      /\ checkpoint.ops \subseteq checkpoint'.ops
      /\ snapshot \in [Device -> SUBSET Op] /\ call \in [Device -> Call]
  BY CheckpointGrows DEF SafetyInv, StoreInv, SnapshotsAreOld, TypeOK
<1>1. snapshot'[d] = snapshot[d] \/ FinishCommit(d)
  <2>1. ASSUME NEW x \in Device, DeviceStep(x), ~FinishCommit(x) PROVE snapshot' = snapshot
    BY <2>1 DEF DeviceStep, Edit, Undo, FinishUndo, StartPublish, ServePublish, FinishPublish,
       ReadCheckpoint, FinishRecovery, ReadHeads, ServeCommit, InboundUpdate, Timeout, Crash,
       Open, Discard, localVars
  <2>2. ASSUME NEW x \in Device, FinishCommit(x), x # d PROVE snapshot'[d] = snapshot[d]
    BY <1>0, <2>2 DEF FinishCommit
  <2> QED BY <2>1, <2>2 DEF Next, ServeLate, vars, localVars
<1>2. CASE FinishCommit(d)
  <2>1. call[d].kind = "committed" /\ snapshot'[d] = call[d].ops /\ call'[d] = Idle
    BY <1>0, <1>2 DEF FinishCommit
  <2> QED BY <1>0, <2>1 DEF Idle
<1>3. ASSUME snapshot'[d] = snapshot[d], call'[d].kind = "committed"
      PROVE  snapshot'[d] \subseteq call'[d].ops /\ call'[d].ops \subseteq checkpoint'.ops
  <2>1. CASE call'[d] = call[d]
    BY <1>0, <1>3, <2>1
  <2>2. CASE ServeCommit(d) /\ CasMatches(call[d].request) /\ call'[d].ops = call[d].request.ops
    <3>1. checkpoint'.ops = call[d].request.ops
      BY <2>2 DEF ServeCommit, CommitCheckpoint
    <3> QED BY <1>0, <1>3, <2>2, <3>1
  <2> QED BY <1>3, <2>1, <2>2, CommittedStep
<1> QED BY <1>0, <1>1, <1>2, <1>3
-----------------------------------------------------------------------------
(* Stores and requests stay closed.                                        *)
LEMMA EnqueueStore ==
    ASSUME TypeOK, NEW x \in Writer, base[x] \subseteq updates[x] \cup snapshot[x],
           NEW version, EnqueueCurrentState(x, version)
    PROVE  /\ updates'[x] \cup snapshot[x] = updates[x] \cup snapshot[x] \cup version
           /\ updates'[x] \subseteq updates[x] \cup version
<1>0. x \in Device
  BY ConstantsAssumption
<1>1. CASE MustEnqueue(x, version)
  <2>1. updates'[x] = updates[x] \cup (version \ base[x])
    BY <1>0, <1>1 DEF EnqueueCurrentState, CommitLocal, TypeOK
  <2> QED BY <2>1
<1>2. CASE ~MustEnqueue(x, version)
  BY <1>2 DEF EnqueueCurrentState, MustEnqueue
<1> QED BY <1>1, <1>2

LEMMA RequestsAreClosedStep ==
    ASSUME TypeOK, SafetyInv, [Next]_vars
    PROVE  /\ Closed(checkpoint.ops)'
           /\ \A request \in Requests' : Closed(request.ops)'
           /\ \A d \in Device : call'[d].kind = "committed" => Closed(call[d].ops)'
<1> USE DEF SafetyInv, StoreInv
<1>0. /\ OpsAreAccepted /\ accepted \subseteq made
      /\ \A S : S \subseteq made /\ Closed(S) => \A o \in S : past'[o] \subseteq S
  BY ClosedIsStable DEF OpsInv, OpsAreMade
<1>1. ASSUME NEW request \in Requests PROVE \A o \in request.ops : past'[o] \subseteq request.ops
  <2>1. Closed(request.ops) /\ request.ops \subseteq made
    BY <1>0, RequestOps DEF StoresAreClosed
  <2> QED BY <1>0, <2>1
<1>2. \A request \in Requests' : Closed(request.ops)'
  <2>1. ASSUME NEW x \in Device, ReadHeads(x), NEW request, request = NewRequest(x)
        PROVE  \A o \in request.ops : past'[o] \subseteq request.ops
    <3> DEFINE merged == call[x].checkpoint.ops \cup ListedOps
    <3>1. merged \subseteq made /\ merged \subseteq Op
      BY <1>0, <2>1, ListedOpsAccepted DEF ReadHeads, OpsAreAccepted, TypeOK
    <3>2. Closed(Applied(merged)) /\ Applied(merged) \subseteq made
      BY <3>1, AppliedIsClosed, AppliedSubset
    <3>3. request.ops = Applied(merged)
      BY <2>1 DEF NewRequest
    <3> HIDE DEF merged
    <3> QED BY <1>0, <3>2, <3>3
  <2>2. \A request \in Requests' : \A o \in request.ops : past'[o] \subseteq request.ops
    BY <1>1, <2>1, RequestsStep
  <2> QED BY <2>2 DEF Closed
<1>3. \A o \in checkpoint'.ops : past'[o] \subseteq checkpoint'.ops
  <2>1. CASE checkpoint' = checkpoint
    <3>1. Closed(checkpoint.ops) /\ checkpoint.ops \subseteq made
      BY <1>0 DEF StoresAreClosed, OpsAreAccepted
    <3> QED BY <1>0, <2>1, <3>1
  <2>2. CASE checkpoint' # checkpoint
    <3>1. ASSUME NEW x, NEW env, RunPublishHead(x, env) PROVE checkpoint' = checkpoint
      BY <3>1 DEF RunPublishHead, PublishHead
    <3>2. PICK request \in Requests : CommitCheckpoint(request)
      BY <2>2, <3>1, ServerStep DEF serverVars, Discard, DiscardStaleHead
    <3>3. checkpoint'.ops = request.ops
      BY <2>2, <3>2 DEF CommitCheckpoint
    <3> QED BY <1>1, <3>3
  <2> QED BY <2>1, <2>2
<1>4. ASSUME NEW d \in Device, call'[d].kind = "committed"
      PROVE  \A o \in call'[d].ops : past'[o] \subseteq call'[d].ops
  <2>1. CASE call'[d] = call[d]
    <3>1. Closed(call[d].ops) /\ call[d].ops \subseteq made
      BY <1>0, <1>4, <2>1 DEF StoresAreClosed, OpsAreAccepted
    <3> QED BY <1>0, <2>1, <3>1
  <2>2. CASE ServeCommit(d) /\ call'[d].ops = call[d].request.ops
    <3>1. call[d].request \in Requests
      BY <2>2 DEF ServeCommit, Requests
    <3> QED BY <1>1, <2>2, <3>1
  <2> QED BY <1>4, <2>1, <2>2, CommittedStep
<1>5. Closed(checkpoint.ops)'
  BY <1>3 DEF Closed
<1>6. \A d \in Device : call'[d].kind = "committed" => Closed(call[d].ops)'
  BY <1>4 DEF Closed
<1> QED BY <1>2, <1>5, <1>6
-----------------------------------------------------------------------------
(* One writer: its store is closed, base and document are on disk, and     *)
(* what is on disk is accepted, or queued and in the document.             *)
StoreOf(d) ==
    /\ Closed(updates[d] \cup snapshot[d])
    /\ base[d] \subseteq updates[d] \cup snapshot[d]
    /\ open[d] /\ call[d].kind # "undo" => Applied(doc[d]) \subseteq updates[d] \cup snapshot[d]
    /\ open[d] => updates[d] \ accepted \subseteq Applied(doc[d])
    /\ updates[d] \ accepted \subseteq pending[d].ops

LEMMA StoreStep ==
    ASSUME TypeOK, SafetyInv, [Next]_vars, NEW d \in Writer, StoreOf(d)
    PROVE  StoreOf(d)'
<1> USE DEF SafetyInv
<1>0. /\ d \in Device /\ OpsInv /\ BaseWasAccepted /\ accepted \subseteq accepted'
      /\ call \in [Device -> Call] /\ open \in [Device -> BOOLEAN]
      /\ doc \in [Device -> SUBSET Op] /\ pending \in [Device -> Envelope]
      /\ updates \in [Device -> SUBSET Op] /\ snapshot \in [Device -> SUBSET Op]
      /\ base \in [Device -> SUBSET Op] /\ made \subseteq Op
      /\ doc[d] \subseteq made /\ updates[d] \subseteq made /\ snapshot[d] \subseteq made
      /\ base[d] \subseteq accepted
  BY AcceptedGrows, ConstantsAssumption
     DEF TypeOK, PublicationInv, OpsInv, OpsAreMade, OpsAreAccepted, BaseWasAccepted
<1>1. \A S : S \subseteq made => {o \in S : past'[o] \subseteq S} = Applied(S)
  BY AppliedIsStable
<1>2. \A S : S \subseteq made /\ Closed(S) => \A o \in S : past'[o] \subseteq S
  BY ClosedIsStable
<1>3. doc'[d] = doc[d] => Applied(doc[d])' = Applied(doc[d])
  BY <1>0, <1>1 DEF Applied
<1>4. UNCHANGED <<updates[d], snapshot[d]>> => Closed(updates[d] \cup snapshot[d])'
  BY <1>0, <1>2 DEF StoreOf, Closed
<1>5. ASSUME UNCHANGED <<updates[d], snapshot[d], base[d], doc[d], open[d]>>,
             call'[d].kind # "undo" => call[d].kind # "undo",
             pending'[d] = pending[d] \/ pending[d].ops \subseteq accepted
      PROVE  StoreOf(d)'
  BY <1>0, <1>3, <1>4, <1>5 DEF StoreOf
(* Enqueuing what is usable of `received' once it holds the store.         *)
<1>6. ASSUME NEW received \in SUBSET made, doc'[d] = received,
             EnqueueCurrentState(d, Applied(received)),
             updates[d] \ accepted \subseteq Applied(received),
             UNCHANGED <<snapshot, base>>
      PROVE  StoreOf(d)'
  <2> DEFINE version == Applied(received)
  <2>1. /\ updates'[d] \cup snapshot'[d] = updates[d] \cup snapshot[d] \cup version
        /\ updates'[d] \subseteq updates[d] \cup version
    BY <1>0, <1>6, EnqueueStore DEF StoreOf
  <2>2. version \subseteq accepted \cup pending'[d].ops
    BY <1>0, <1>6, EnqueueQueues
  <2>3. Closed(version) /\ version \subseteq made
    BY <1>0, <1>6, AppliedIsClosed, AppliedSubset DEF StoreInv
  <2>4. Applied(doc[d])' = version
    BY <1>1, <1>6 DEF Applied
  <2> HIDE DEF version
  <2>5. \A o \in updates'[d] \cup snapshot'[d] : past'[o] \subseteq updates'[d] \cup snapshot'[d]
    BY <1>0, <1>2, <2>1, <2>3 DEF StoreOf
  <2>6. Closed(updates[d] \cup snapshot[d])'
    BY <2>5 DEF Closed
  <2>7. updates'[d] \ accepted' \subseteq version
    BY <1>0, <1>6, <2>1 DEF version
  <2> QED BY <1>0, <1>6, <2>1, <2>2, <2>4, <2>6, <2>7 DEF StoreOf
<1>7. ASSUME NEW x \in Device, DeviceStep(x) PROVE StoreOf(d)'
  <2>0. CASE d # x
    <3>1. \A version : EnqueueCurrentState(x, version) =>
             pending'[d] = pending[d] /\ updates'[d] = updates[d]
      BY <1>0, <2>0 DEF EnqueueCurrentState, CommitLocal
    <3>2. \A delta : CommitLocal(x, delta) =>
             pending'[d] = pending[d] /\ updates'[d] = updates[d]
      BY <1>0, <2>0 DEF CommitLocal
    <3>3. CASE Edit(x) \/ Undo(x) \/ FinishUndo(x) \/ StartPublish(x) \/ ServePublish(x)
      BY <1>0, <1>5, <2>0, <3>1, <3>2, <3>3
         DEF Edit, Undo, Author, FinishUndo, StartPublish, ServePublish, localVars
    <3>4. CASE FinishPublish(x) \/ FinishRecovery(x) \/ ReadHeads(x) \/ ServeCommit(x)
      BY <1>0, <1>5, <2>0, <3>1, <3>4
         DEF FinishPublish, ConfirmThrough, FinishRecovery, ReadHeads, ServeCommit, localVars
    <3>5. CASE FinishCommit(x) \/ Timeout(x) \/ Crash(x) \/ Open(x) \/ Discard(x)
      BY <1>0, <1>5, <2>0, <3>1, <3>5
         DEF FinishCommit, Timeout, Crash, Open, Discard, localVars
    <3>6. CASE \E purpose \in {"recover", "compact"} : ReadCheckpoint(x, purpose)
      BY <1>0, <1>5, <2>0, <3>6 DEF ReadCheckpoint, localVars
    <3>7. CASE \E e \in Device : InboundUpdate(x, e)
      BY <1>0, <1>5, <2>0, <3>1, <3>7 DEF InboundUpdate
    <3> QED BY <1>7, <3>3, <3>4, <3>5, <3>6, <3>7 DEF DeviceStep
  <2> SUFFICES ASSUME d = x PROVE StoreOf(d)'
    BY <2>0
  <2>1. CASE Edit(d)
    <3> DEFINE n == NextOp(d)
               delta == (Applied(doc[d]) \cup {n}) \ base[d]
    <3>1. /\ past'[n] = Applied(doc[d])
          /\ Applied(doc[d])' = Applied(doc[d]) \cup {n}
      BY <1>0, <2>1, AuthorPast DEF Edit
    <3>2. /\ Applied(doc[d]) \subseteq updates[d] \cup snapshot[d]
          /\ updates[d] \ accepted \subseteq Applied(doc[d])
      BY <2>1 DEF Edit, Ready, Idle, StoreOf
    <3>3. /\ updates'[d] = updates[d] \cup delta /\ pending'[d].ops = delta
          /\ UNCHANGED <<snapshot, base, open, accepted>>
      BY <1>0, <2>1 DEF Edit, CommitLocal
    <3> HIDE DEF n
    <3>4. \A o \in updates'[d] \cup snapshot'[d] : past'[o] \subseteq updates'[d] \cup snapshot'[d]
      BY <1>0, <1>2, <3>1, <3>2, <3>3 DEF StoreOf
    <3>5. Closed(updates[d] \cup snapshot[d])'
      BY <3>4 DEF Closed
    <3> QED BY <1>0, <3>1, <3>2, <3>3, <3>5 DEF StoreOf
  <2>2. CASE Undo(d)
    <3>1. Applied(doc[d]) \subseteq Applied(doc[d])'
      BY <1>0, <2>2, AuthorPast DEF Undo
    <3>2. call'[d].kind = "undo" /\ UNCHANGED <<updates, snapshot, base, open, pending, accepted>>
      BY <1>0, <2>2 DEF Undo
    <3> QED BY <1>4, <3>1, <3>2, <2>2 DEF StoreOf, Undo, Ready
  <2>3. CASE FinishUndo(d)
    <3>1. open[d]
      BY <1>0, <2>3 DEF FinishUndo, PublicationInv, PublishesPending, Idle
    <3> QED BY <1>0, <1>6, <2>3, <3>1 DEF FinishUndo, StoreOf
  <2>4. CASE StartPublish(d)
    BY <1>0, <1>5, <2>4 DEF StartPublish, Ready, Idle
  <2>5. CASE ServePublish(d)
    BY <1>0, <1>5, <2>5 DEF ServePublish, localVars
  <2>6. CASE FinishPublish(d)
    <3>1. pending'[d] = pending[d] \/ pending[d].ops \subseteq accepted
      BY <1>0, <2>6 DEF FinishPublish, PublicationInv, PublishesPending, Publishing
    <3>2. Applied(doc[d]) \subseteq updates[d] \cup snapshot[d]
      BY <1>0, <2>6 DEF FinishPublish, PublicationInv, PublishesPending, Idle, StoreOf
    <3>3. /\ base'[d] = base[d] \/ base'[d] = Applied(doc[d])
          /\ UNCHANGED <<updates, snapshot, doc, open, accepted>> /\ call[d].kind = "answered"
      BY <1>0, <2>6 DEF FinishPublish, ConfirmThrough
    <3> QED BY <1>0, <1>3, <1>4, <3>1, <3>2, <3>3 DEF StoreOf
  <2>7. CASE \E purpose \in {"recover", "compact"} : ReadCheckpoint(d, purpose)
    BY <1>0, <1>5, <2>7 DEF ReadCheckpoint, localVars, Ready, Idle
  <2>8. CASE FinishRecovery(d)
    <3> DEFINE received == doc[d] \cup call[d].checkpoint.ops \cup ListedOps
    <3>1. received \in SUBSET made
      BY <1>0, <2>8, ListedOpsAccepted DEF FinishRecovery, OpsInv, OpsAreMade, OpsAreAccepted
    <3>2. open[d]
      BY <1>0, <2>8 DEF FinishRecovery, PublicationInv, PublishesPending, Idle
    <3>3. updates[d] \ accepted \subseteq Applied(received)
      BY <3>2, AppliedMonotone DEF StoreOf
    <3> QED BY <1>0, <1>6, <2>8, <3>1, <3>3 DEF FinishRecovery
  <2>9. CASE ReadHeads(d)
    BY <1>0, <1>5, <2>9 DEF ReadHeads, localVars
  <2>10. CASE ServeCommit(d)
    BY <1>0, <1>5, <2>10 DEF ServeCommit, localVars
  <2>11. CASE FinishCommit(d)
    <3>1. /\ snapshot'[d] = call[d].ops /\ base'[d] = call[d].ops
          /\ UNCHANGED <<updates, doc, open, pending, accepted>> /\ call[d].kind = "committed"
      BY <1>0, <2>11 DEF FinishCommit
    <3>2. /\ snapshot[d] \subseteq call[d].ops /\ Closed(call[d].ops)
          /\ call[d].ops \subseteq made
      BY <1>0, <3>1 DEF StoreInv, SnapshotsAreOld, StoresAreClosed, OpsInv, OpsAreAccepted, OpsAreMade
    <3>3. \A o \in updates'[d] \cup snapshot'[d] : past'[o] \subseteq updates'[d] \cup snapshot'[d]
      BY <1>0, <1>2, <3>1, <3>2 DEF StoreOf
    <3>4. Closed(updates[d] \cup snapshot[d])'
      BY <3>3 DEF Closed
    <3> QED BY <1>0, <1>3, <3>1, <3>2, <3>4 DEF StoreOf
  <2>12. ASSUME NEW e \in Device, InboundUpdate(d, e) PROVE StoreOf(d)'
    <3> DEFINE received == doc[d] \cup Applied(doc[e])
    <3>1. received \in SUBSET made
      BY <1>0, AppliedSubset DEF OpsInv, OpsAreMade
    <3>2. doc'[d] = received /\ UNCHANGED <<snapshot, base, open, call, accepted>> /\ open[d]
      BY <1>0, <2>12 DEF InboundUpdate, Ready
    <3>3. updates[d] \ accepted \subseteq Applied(received)
      BY <3>2, AppliedMonotone DEF StoreOf
    <3>4. CASE Applied(received) # Applied(doc[d])
      BY <1>6, <2>12, <3>1, <3>2, <3>3, <3>4 DEF InboundUpdate
    <3>5. CASE Applied(received) = Applied(doc[d])
      <4>1. Applied(doc[d])' = Applied(doc[d])
        BY <1>1, <3>1, <3>2, <3>5 DEF Applied
      <4>2. UNCHANGED <<updates, pending>>
        BY <2>12, <3>5 DEF InboundUpdate
      <4> QED BY <1>4, <3>2, <4>1, <4>2 DEF StoreOf
    <3> QED BY <3>4, <3>5
  <2>13. CASE Timeout(d)
    BY <1>0, <1>5, <2>13 DEF Timeout
  <2>14. CASE Crash(d)
    BY <1>0, <1>4, <2>14 DEF Crash, StoreOf
  <2>15. CASE Open(d)
    <3> DEFINE replayed == doc[d] \cup snapshot[d] \cup updates[d]
    <3>1. replayed \in SUBSET made
      BY <1>0
    <3>2. updates[d] \subseteq Applied(replayed)
      <4>1. updates[d] \cup snapshot[d] \subseteq Applied(updates[d] \cup snapshot[d])
        BY AppliedOfClosed DEF StoreOf
      <4>2. updates[d] \cup snapshot[d] \subseteq replayed
        OBVIOUS
      <4> QED BY <4>1, <4>2, AppliedMonotone
    <3> QED BY <1>0, <1>6, <2>15, <3>1, <3>2 DEF Open
  <2>16. CASE Discard(d)
    BY <1>5, <2>16 DEF Discard, localVars
  <2> QED BY <1>7, <2>1, <2>2, <2>3, <2>4, <2>5, <2>6, <2>7, <2>8, <2>9, <2>10,
             <2>11, <2>12, <2>13, <2>14, <2>15, <2>16 DEF DeviceStep
<1>8. ASSUME NEW r \in late, ServeLate(r) PROVE StoreOf(d)'
  BY <1>5, <1>8 DEF ServeLate, localVars
<1>9. CASE UNCHANGED vars
  BY <1>5, <1>9 DEF vars, localVars
<1> QED BY <1>7, <1>8, <1>9 DEF Next

LEMMA StoreInvStep ==
    ASSUME TypeOK, SafetyInv, [Next]_vars
    PROVE  StoreInv'
<1>1. /\ PastsAreClosed' /\ SnapshotsAreOld'
      /\ Closed(checkpoint.ops)'
      /\ \A request \in Requests' : Closed(request.ops)'
      /\ \A d \in Device : call'[d].kind = "committed" => Closed(call[d].ops)'
  BY PastsStep, SnapshotsAreOldStep, RequestsAreClosedStep DEF SafetyInv, StoreInv
<1>2. \A d \in Writer : StoreOf(d)
  BY DEF SafetyInv, StoreInv, StoresAreClosed, DiskHoldsDoc, UnacceptedIsQueued, StoreOf
<1>3. \A d \in Writer : StoreOf(d)'
  BY <1>2, StoreStep
<1>4. StoresAreClosed' /\ DiskHoldsDoc'
  BY <1>1, <1>3 DEF StoresAreClosed, DiskHoldsDoc, StoreOf
<1>5. \A d \in Device : snapshot'[d] \subseteq accepted'
  BY OpsStep DEF SafetyInv, OpsInv, OpsAreAccepted
<1>6. UnacceptedIsQueued'
  BY <1>3, <1>5, ConstantsAssumption DEF UnacceptedIsQueued, StoreOf
<1> QED BY <1>1, <1>4, <1>6 DEF StoreInv

LEMMA SafetyStep == TypeOK /\ SafetyInv /\ [Next]_vars => SafetyInv'
BY OpsStep, PublicationStep, CompactionStep, StoreInvStep DEF SafetyInv

LEMMA SafetyInit == Init => SafetyInv
<1> SUFFICES ASSUME Init PROVE StoreInv
  BY OpsInit, PublicationInit, CompactionInit DEF SafetyInv
<1> QED BY AppliedSubset, ConstantsAssumption
        DEF Init, ServerInit, StoreInv, PastsAreClosed, StoresAreClosed, SnapshotsAreOld, Closed,
            DiskHoldsDoc, UnacceptedIsQueued, Requests, NoCheckpoint, NoEnvelope, Idle

(* What a writer's disk holds and the server never accepted is in the      *)
(* envelope it will publish next: for every number of devices and edits,   *)
(* no crash, lost answer or concurrent merge strands an edit.              *)
THEOREM UnacceptedStaysQueued == Spec => []UnacceptedIsQueued
<1>1. TypeOK /\ SafetyInv /\ [Next]_vars => (TypeOK /\ SafetyInv)'
  BY TypeStep, SafetyStep
<1>2. Init => TypeOK /\ SafetyInv
  BY TypeInit, SafetyInit
<1>3. SafetyInv => UnacceptedIsQueued
  BY DEF SafetyInv, StoreInv
<1> QED BY <1>1, <1>2, <1>3, PTL DEF Spec

-----------------------------------------------------------------------------
(***************************************************************************)
(* The devices and the server keep the promise of SharedEditing: every     *)
(* step of CollabSync makes edits durable, accepts durable ones, absorbs   *)
(* accepted ones, or changes nothing of the three.  What this needs beyond *)
(* the invariants proved so far is PromiseInv: an envelope carries edits   *)
(* of a disk, and misses nothing of their past that is not accepted.       *)
(***************************************************************************)

(* A device seals what is above its base of a version complete in itself.  *)
SealsAbove(d) ==
    \E version \in SUBSET Op :
        /\ d \in Writer
        /\ pending'[d].ops = version \ base[d]
        /\ updates'[d] = updates[d] \cup pending'[d].ops
        /\ \A o \in version : past'[o] \subseteq version

LEMMA EnqueueSealsAbove ==
    ASSUME TypeOK, SafetyInv, [Next]_vars, NEW x \in Device, NEW received \in SUBSET made,
           EnqueueCurrentState(x, Applied(received)), NEW d \in Device
    PROVE  pending'[d] = pending[d] \/ SealsAbove(d)
<1> DEFINE version == Applied(received)
<1>1. CASE MustEnqueue(x, version) /\ d = x
  <2>1. /\ Closed(version) /\ version \in SUBSET Op /\ version \subseteq made
    BY AppliedIsClosed, AppliedSubset DEF SafetyInv, StoreInv, TypeOK
  <2>2. \A o \in version : past'[o] \subseteq version
    BY <2>1, ClosedIsStable
  <2>3. /\ pending'[d].ops = version \ base[d] /\ d \in Writer
        /\ updates'[d] = updates[d] \cup (version \ base[d])
    BY <1>1 DEF EnqueueCurrentState, MustEnqueue, CommitLocal, TypeOK
  <2> HIDE DEF version
  <2> QED BY <2>1, <2>2, <2>3 DEF SealsAbove
<1>2. CASE ~ MustEnqueue(x, version) \/ d # x
  BY <1>2 DEF EnqueueCurrentState, CommitLocal, TypeOK
<1> QED BY <1>1, <1>2

LEMMA PendingStep ==
    ASSUME TypeOK, SafetyInv, [Next]_vars, NEW d \in Device
    PROVE  pending'[d] = pending[d] \/ pending'[d] = NoEnvelope \/ SealsAbove(d)
<1>0. /\ OpsInv /\ doc \in [Device -> SUBSET Op]
      /\ \A x \in Device : /\ doc[x] \subseteq made /\ updates[x] \subseteq made
                           /\ snapshot[x] \subseteq made
      /\ accepted \subseteq made /\ made \subseteq Op
  BY DEF SafetyInv, OpsInv, OpsAreMade, OpsAreAccepted, TypeOK
<1>1. ASSUME NEW x \in Device, DeviceStep(x)
      PROVE  pending'[d] = pending[d] \/ pending'[d] = NoEnvelope \/ SealsAbove(d)
  <2>1. CASE Edit(x)
    <3>1. CASE d # x
      BY <2>1, <3>1 DEF Edit, CommitLocal, TypeOK
    <3>2. CASE d = x
      <4> DEFINE n == NextOp(d)
                 version == Applied(doc[d]) \cup {n}
      <4>1. /\ past'[n] = Applied(doc[d]) /\ d \in Writer /\ n \in Op
        BY <1>0, <2>1, <3>2, AuthorPast DEF Edit, Author
      <4>2. /\ Closed(Applied(doc[d])) /\ Applied(doc[d]) \subseteq made
        BY <1>0, AppliedIsClosed, AppliedSubset DEF SafetyInv, StoreInv
      <4>3. \A o \in version : past'[o] \subseteq version
        BY <4>1, <4>2, ClosedIsStable
      <4>4. /\ pending'[d].ops = version \ base[d]
            /\ updates'[d] = updates[d] \cup (version \ base[d])
        BY <2>1, <3>2 DEF Edit, CommitLocal, TypeOK
      <4>5. version \in SUBSET Op
        BY <1>0, <4>1, <4>2
      <4> HIDE DEF version
      <4> QED BY <4>1, <4>3, <4>4, <4>5 DEF SealsAbove
    <3> QED BY <3>1, <3>2
  <2>2. CASE FinishUndo(x)
    BY <1>0, <2>2, EnqueueSealsAbove DEF FinishUndo
  <2>3. CASE FinishRecovery(x)
    <3>1. doc[x] \cup call[x].checkpoint.ops \cup ListedOps \in SUBSET made
      BY <1>0, <2>3, ListedOpsAccepted DEF FinishRecovery, OpsInv, OpsAreAccepted
    <3> QED BY <2>3, <3>1, EnqueueSealsAbove DEF FinishRecovery
  <2>4. ASSUME NEW e \in Device, InboundUpdate(x, e)
        PROVE  pending'[d] = pending[d] \/ SealsAbove(d)
    <3>1. doc[x] \cup Applied(doc[e]) \in SUBSET made
      BY <1>0, AppliedSubset
    <3> QED BY <2>4, <3>1, EnqueueSealsAbove DEF InboundUpdate
  <2>5. CASE Open(x)
    <3>1. doc[x] \cup snapshot[x] \cup updates[x] \in SUBSET made
      BY <1>0
    <3> QED BY <2>5, <3>1, EnqueueSealsAbove DEF Open
  <2>6. CASE FinishPublish(x)
    BY <2>6 DEF FinishPublish, ConfirmThrough, TypeOK
  <2>7. CASE Undo(x) \/ StartPublish(x) \/ ServePublish(x) \/ ReadHeads(x) \/ ServeCommit(x)
    BY <2>7 DEF Undo, StartPublish, ServePublish, ReadHeads, ServeCommit, localVars
  <2>8. CASE FinishCommit(x) \/ Timeout(x) \/ Crash(x) \/ Discard(x)
    BY <2>8 DEF FinishCommit, Timeout, Crash, Discard, localVars
  <2>9. CASE \E purpose \in {"recover", "compact"} : ReadCheckpoint(x, purpose)
    BY <2>9 DEF ReadCheckpoint, localVars
  <2> QED BY <1>1, <2>1, <2>2, <2>3, <2>4, <2>5, <2>6, <2>7, <2>8, <2>9 DEF DeviceStep
<1>2. ASSUME NEW r \in late, ServeLate(r) PROVE pending'[d] = pending[d]
  BY <1>2 DEF ServeLate, localVars
<1> QED BY <1>1, <1>2 DEF Next, vars, localVars

(* What is on a writer's disk stays there: updates are only added, and a   *)
(* snapshot is only replaced by one that contains it.                      *)
LEMMA WriterDiskGrows ==
    ASSUME TypeOK, SafetyInv, [Next]_vars, NEW d \in Writer
    PROVE  updates[d] \cup snapshot[d] \subseteq updates'[d] \cup snapshot'[d]
<1>0. d \in Device /\ updates \in [Device -> SUBSET Op] /\ snapshot \in [Device -> SUBSET Op]
  BY ConstantsAssumption DEF TypeOK
<1>1. ASSUME NEW x \in Device, NEW delta, CommitLocal(x, delta)
      PROVE  updates[d] \subseteq updates'[d]
  BY <1>0, <1>1 DEF CommitLocal
<1>2. ASSUME NEW x \in Device, NEW version, EnqueueCurrentState(x, version)
      PROVE  updates[d] \subseteq updates'[d]
  BY <1>1, <1>2 DEF EnqueueCurrentState
<1>3. ASSUME NEW x \in Device, DeviceStep(x)
      PROVE  updates[d] \cup snapshot[d] \subseteq updates'[d] \cup snapshot'[d]
  <2>1. CASE Edit(x) \/ FinishUndo(x) \/ FinishRecovery(x) \/ Open(x)
    BY <1>1, <1>2, <2>1 DEF Edit, FinishUndo, FinishRecovery, Open
  <2>2. CASE \E e \in Device : InboundUpdate(x, e)
    BY <1>2, <2>2 DEF InboundUpdate
  <2>3. CASE FinishCommit(x)
    BY <1>0, <2>3 DEF FinishCommit, SafetyInv, StoreInv, SnapshotsAreOld
  <2>4. CASE Undo(x) \/ StartPublish(x) \/ ServePublish(x) \/ FinishPublish(x)
    BY <2>4 DEF Undo, StartPublish, ServePublish, FinishPublish, localVars
  <2>5. CASE ReadHeads(x) \/ ServeCommit(x) \/ Timeout(x) \/ Crash(x) \/ Discard(x)
    BY <2>5 DEF ReadHeads, ServeCommit, Timeout, Crash, Discard, localVars
  <2>6. CASE \E purpose \in {"recover", "compact"} : ReadCheckpoint(x, purpose)
    BY <2>6 DEF ReadCheckpoint, localVars
  <2> QED BY <1>3, <2>1, <2>2, <2>3, <2>4, <2>5, <2>6 DEF DeviceStep
<1>4. ASSUME NEW r \in late, ServeLate(r) PROVE UNCHANGED <<updates, snapshot>>
  BY <1>4 DEF ServeLate, localVars
<1> QED BY <1>3, <1>4 DEF Next, vars, localVars

LEMMA DiskGrows ==
    ASSUME TypeOK, SafetyInv, [Next]_vars
    PROVE  OnDisk \subseteq OnDisk'
BY WriterDiskGrows DEF OnDisk

LEMMA CoverIsStable ==
    ASSUME TypeOK, SafetyInv, [Next]_vars, NEW S, S \subseteq made, Covered(S)
    PROVE  Covered(S)'
<1>1. \A o \in S : past'[o] = past[o]
  BY MadeStep
<1> QED BY <1>1, AcceptedGrows, DiskGrows DEF Covered

LEMMA LateEnvelope ==
    ASSUME TypeOK, SafetyInv, [Next]_vars, NEW r \in late', r.kind = "publish"
    PROVE  r \in late \/ \E d \in Device : r.env = pending[d]
<1>1. ASSUME NEW x \in Device, r \in Abandoned(x)
      PROVE  r.env = pending[x]
  <2>1. call[x].kind = "publish" /\ r.env = call[x].env
    BY <1>1 DEF Abandoned
  <2> QED BY <2>1 DEF SafetyInv, PublicationInv, PublishesPending, Publishing
<1>2. ASSUME NEW x \in Device, DeviceStep(x) PROVE late' = late \/ late' = late \cup Abandoned(x)
  BY <1>2 DEF DeviceStep, Edit, Undo, FinishUndo, StartPublish, ServePublish, FinishPublish,
     ReadCheckpoint, FinishRecovery, ReadHeads, ServeCommit, FinishCommit, InboundUpdate,
     Timeout, Crash, Open, Discard
<1>3. ASSUME NEW q \in late, ServeLate(q) PROVE late' \subseteq late
  BY <1>3 DEF ServeLate
<1> QED BY <1>1, <1>2, <1>3 DEF Next, vars

(* The server accepts envelopes that were waiting or delayed.              *)
LEMMA AcceptedStep ==
    ASSUME TypeOK, SafetyInv, [Next]_vars
    PROVE  \/ accepted' = accepted
           \/ /\ UNCHANGED <<updates, snapshot, past, checkpoint>>
              /\ \/ \E d \in Device : accepted' = accepted \cup pending[d].ops
                 \/ \E r \in late : r.kind = "publish" /\ accepted' = accepted \cup r.env.ops
<1>1. ASSUME NEW x \in Device, ServePublish(x)
      PROVE  /\ UNCHANGED <<updates, snapshot, past, checkpoint>>
             /\ accepted' = accepted \/ accepted' = accepted \cup pending[x].ops
  <2>1. call[x].env = pending[x]
    BY <1>1 DEF ServePublish, SafetyInv, PublicationInv, PublishesPending, Publishing
  <2> QED BY <1>1, <2>1 DEF ServePublish, RunPublishHead, PublishHead, localVars
<1>2. ASSUME NEW r \in late, ServeLate(r)
      PROVE  \/ accepted' = accepted
             \/ /\ UNCHANGED <<updates, snapshot, past, checkpoint>>
                /\ r.kind = "publish" /\ accepted' = accepted \cup r.env.ops
  BY <1>2 DEF ServeLate, RunPublishHead, PublishHead, localVars
<1>3. ASSUME NEW x \in Device, DeviceStep(x) PROVE ServePublish(x) \/ accepted' = accepted
  BY <1>3 DEF DeviceStep, Edit, Undo, FinishUndo, StartPublish, FinishPublish,
     ReadCheckpoint, FinishRecovery, ReadHeads, ServeCommit, FinishCommit, InboundUpdate,
     Timeout, Crash, Open, Discard
<1> QED BY <1>1, <1>2, <1>3 DEF Next, vars

(* A step that changes the checkpoint changes nothing of the devices.      *)
LEMMA CheckpointStep ==
    ASSUME TypeOK, [Next]_vars
    PROVE  checkpoint' = checkpoint \/ UNCHANGED <<updates, snapshot, past, accepted>>
<1>1. ASSUME NEW x \in Device, DeviceStep(x)
      PROVE  ServeCommit(x) \/ checkpoint' = checkpoint
  BY <1>1 DEF DeviceStep, Edit, Undo, FinishUndo, StartPublish, ServePublish, RunPublishHead,
     PublishHead, FinishPublish, ReadCheckpoint, FinishRecovery, ReadHeads, FinishCommit,
     InboundUpdate, Timeout, Crash, Open, Discard, DiscardStaleHead, serverVars
<1>2. ASSUME NEW x \in Device, ServeCommit(x)
      PROVE  UNCHANGED <<updates, snapshot, past, accepted>>
  BY <1>2 DEF ServeCommit, localVars
<1>3. ASSUME NEW r \in late, ServeLate(r)
      PROVE  checkpoint' = checkpoint \/ UNCHANGED <<updates, snapshot, past, accepted>>
  BY <1>3 DEF ServeLate, RunPublishHead, PublishHead, localVars
<1> QED BY <1>1, <1>2, <1>3 DEF Next, vars, serverVars

LEMMA PromiseStep ==
    ASSUME TypeOK, SafetyInv, SafetyInv', PromiseInv, [Next]_vars
    PROVE  PromiseInv'
<1>0. /\ \A d \in Device : pending[d].ops \subseteq made
      /\ \A r \in late : r.kind = "publish" => r.env.ops \subseteq made
      /\ accepted \subseteq made
  BY DEF SafetyInv, OpsInv, OpsAreMade
<1>1. ASSUME NEW d \in Device PROVE Covered(pending[d].ops)'
  <2>1. CASE pending'[d] = pending[d]
    BY <1>0, <2>1, CoverIsStable DEF PromiseInv, EnvelopesAreComplete, Covered
  <2>2. CASE pending'[d] = NoEnvelope
    BY <2>2 DEF Covered, NoEnvelope
  <2>3. CASE SealsAbove(d)
    <3>1. PICK version \in SUBSET Op :
              /\ d \in Writer
              /\ pending'[d].ops = version \ base[d]
              /\ updates'[d] = updates[d] \cup pending'[d].ops
              /\ \A o \in version : past'[o] \subseteq version
      BY <2>3 DEF SealsAbove
    <3>2. base[d] \subseteq accepted'
      BY AcceptedGrows DEF SafetyInv, PublicationInv, BaseWasAccepted
    <3>3. pending'[d].ops \subseteq OnDisk'
      BY <3>1 DEF OnDisk
    <3> QED BY <3>1, <3>2, <3>3 DEF Covered
  <2> QED BY <2>1, <2>2, <2>3, PendingStep
<1>2. ASSUME NEW r \in late', r.kind = "publish" PROVE Covered(r.env.ops)'
  <2>1. CASE r \in late
    <3>1. Covered(r.env.ops) /\ r.env.ops \subseteq made
      BY <1>0, <1>2, <2>1 DEF PromiseInv, EnvelopesAreComplete
    <3> DEFINE S == r.env.ops
    <3>2. S \subseteq made /\ Covered(S)
      BY <3>1
    <3> HIDE DEF S
    <3>3. Covered(S)'
      BY <3>2, CoverIsStable
    <3> QED BY <3>3 DEF S, Covered
  <2>2. ASSUME NEW d \in Device, r.env = pending[d] PROVE Covered(r.env.ops)'
    <3> DEFINE S == r.env.ops
    <3>1. S \subseteq made /\ Covered(S)
      BY <1>0, <2>2 DEF PromiseInv, EnvelopesAreComplete
    <3> HIDE DEF S
    <3>2. Covered(S)'
      BY <3>1, CoverIsStable
    <3> QED BY <3>2 DEF S, Covered
  <2> QED BY <1>2, <2>1, <2>2, LateEnvelope
<1>3. Covered(accepted)'
  <2>1. /\ \A o \in accepted : past'[o] = past[o]
        /\ OnDisk \subseteq OnDisk'
    BY <1>0, MadeStep, DiskGrows
  <2>2. CASE accepted' = accepted
    BY <2>1, <2>2 DEF PromiseInv, AcceptedIsComplete, Covered
  <2>3. ASSUME NEW S, Covered(S), S \subseteq made, accepted' = accepted \cup S
        PROVE  Covered(accepted)'
    <3>1. \A o \in S : past'[o] = past[o]
      BY <2>3, MadeStep
    <3> QED BY <2>1, <2>3, <3>1 DEF PromiseInv, AcceptedIsComplete, Covered
  <2> QED BY <1>0, <2>2, <2>3, AcceptedStep DEF PromiseInv, EnvelopesAreComplete
<1> QED BY <1>1, <1>2, <1>3 DEF PromiseInv, EnvelopesAreComplete, AcceptedIsComplete

LEMMA PromiseInit == Init => PromiseInv
BY DEF Init, PromiseInv, EnvelopesAreComplete, AcceptedIsComplete, Covered, NoEnvelope
-----------------------------------------------------------------------------
(* The promise, in the terms of this model.                                *)
LEMMA PromiseOfStep ==
    ASSUME TypeOK, SafetyInv, SafetyInv', PromiseInv, PromiseInv', TypeOK', [Next]_vars
    PROVE  Promise!EditingNext \/ UNCHANGED Promise!editingVars
<1>1. /\ \A o \in OnDisk : past'[o] = past[o]
      /\ OnDisk \subseteq OnDisk' /\ OnDisk' \subseteq Op
      /\ \A o \in OnDisk' : past'[o] \subseteq OnDisk'
  <2>1. OnDisk \subseteq made
    BY ConstantsAssumption DEF OnDisk, SafetyInv, OpsInv, OpsAreMade, OpsAreAccepted
  <2>2. OnDisk' \subseteq Op
    BY ConstantsAssumption DEF OnDisk, TypeOK
  <2>3. \A o \in OnDisk' : past'[o] \subseteq OnDisk'
    BY DEF SafetyInv, StoreInv, StoresAreClosed, Closed, OnDisk
  <2> QED BY <2>1, <2>2, <2>3, MadeStep, DiskGrows
<1>2. CASE UNCHANGED <<accepted, checkpoint>>
  <2>1. Promise!Keep
    BY <1>1, <1>2 DEF Promise!Keep, Promise!Kept
  <2> QED BY <2>1 DEF Promise!EditingNext
<1>3. CASE UNCHANGED <<updates, snapshot, past, checkpoint>>
  <2>1. accepted \subseteq accepted' /\ Covered(accepted)' /\ OnDisk' = OnDisk
    BY <1>3, AcceptedGrows DEF PromiseInv, AcceptedIsComplete, OnDisk
  <2>2. Promise!Publish
    BY <1>3, <2>1 DEF Promise!Publish, Promise!Kept, Promise!Complete, Covered
  <2> QED BY <2>2 DEF Promise!EditingNext
<1>4. CASE UNCHANGED <<updates, snapshot, past, accepted>>
  <2>1. /\ checkpoint.ops \subseteq checkpoint'.ops /\ checkpoint'.ops \subseteq accepted
        /\ \A o \in checkpoint'.ops : past[o] \subseteq checkpoint'.ops
        /\ OnDisk' = OnDisk
    BY <1>4, CheckpointGrows
       DEF SafetyInv, OpsInv, OpsAreAccepted, StoreInv, StoresAreClosed, Closed, OnDisk
  <2>2. accepted \subseteq OnDisk
    BY DEF PromiseInv, AcceptedIsComplete, Covered
  <2>3. Promise!Absorb
    BY <1>4, <2>1, <2>2 DEF Promise!Absorb, Promise!Complete
  <2> QED BY <2>3 DEF Promise!EditingNext
<1> QED BY <1>2, <1>3, <1>4, AcceptedStep, CheckpointStep

LEMMA PromiseOfInit == Init => Promise!EditingInit
<1> SUFFICES ASSUME Init PROVE Promise!EditingInit
  OBVIOUS
<1>1. \A d \in Writer : updates[d] = {} /\ snapshot[d] = {}
  BY ConstantsAssumption DEF Init
<1>2. OnDisk = {}
  BY <1>1 DEF OnDisk
<1>3. [o \in OnDisk |-> past[o]] = [o \in {} |-> {}]
  BY <1>2
<1> QED BY <1>3 DEF Init, ServerInit, NoCheckpoint, Promise!EditingInit

(* Over every crash, lost answer, request executed late, undo and discard, *)
(* for any devices and writers: an edit on a disk stays there with all it  *)
(* depends on, the server accepts only such edits and the checkpoint only  *)
(* accepted ones (service.rs, store.rs, heads.ts against SharedEditing).   *)
THEOREM DevicesKeepThePromise == Spec => ImplementsSharedEditing
<1> DEFINE Inv == TypeOK /\ SafetyInv /\ PromiseInv
<1>1. Inv /\ [Next]_vars => Inv'
  BY TypeStep, SafetyStep, PromiseStep
<1>2. Init => Inv
  BY TypeInit, SafetyInit, PromiseInit
<1>3. Inv /\ Inv' /\ [Next]_vars => [Promise!EditingNext]_(Promise!editingVars)
  BY PromiseOfStep
<1> QED BY <1>1, <1>2, <1>3, PromiseOfInit, PTL DEF Spec, ImplementsSharedEditing, Promise!EditingSpec

-----------------------------------------------------------------------------
(***************************************************************************)
(* No operation id is used twice.  A device numbers what it makes by what  *)
(* its document holds of its own, so the document has to hold all of it:   *)
(* it does while it is open, and a replay of the store brings all of it    *)
(* back, except for an undo that is in the document and not yet stored.    *)
(***************************************************************************)

(* How many operations a device has made.                                  *)
LEMMA CounterOf ==
    ASSUME NEW d, NEW n \in Nat
    PROVE  Cardinality({d} \X (1 .. n)) = n
<1>1. IsFiniteSet({d}) /\ Cardinality({d}) = 1
  BY FS_Singleton
<1>2. IsFiniteSet(1 .. n) /\ Cardinality(1 .. n) = n
  BY FS_Interval
<1>3. Cardinality({d} \X (1 .. n)) = 1 * n
  BY <1>1, <1>2, FS_Product
<1> QED BY <1>3

(* While its document holds all its operations, a device's next number is  *)
(* the one after them.                                                     *)
LEMMA NextFollows ==
    ASSUME TypeOK, OpsInv, NEW d \in Writer, NEW n \in 0 .. MaxEdits,
           Own(made, d) = {d} \X (1 .. n), Own(made, d) \subseteq Applied(doc[d])
    PROVE  NextOp(d) = <<d, n + 1>> /\ NextOp(d) \notin made
<1>0. d \in Device /\ n \in Nat
  BY ConstantsAssumption
<1>1. Applied(doc[d]) \subseteq made
  BY <1>0, AppliedSubset DEF OpsInv, OpsAreMade
<1>2. {o \in Applied(doc[d]) : o[1] = d} = {d} \X (1 .. n)
  BY <1>1 DEF Own
<1>3. NextOp(d) = <<d, n + 1>>
  BY <1>0, <1>2, CounterOf DEF NextOp
<1>4. <<d, n + 1>> \notin Own(made, d)
  BY <1>0
<1> QED BY <1>3, <1>4 DEF Own

(* Who makes an operation, and on what document.                           *)
LEMMA MadeBy ==
    ASSUME TypeOK, [Next]_vars
    PROVE  \/ UNCHANGED made
           \/ \E d \in Device : Author(d) /\ (Edit(d) \/ Undo(d))
BY DEF Next, DeviceStep, vars, Edit, Undo, FinishUndo, StartPublish, ServePublish, FinishPublish,
     ReadCheckpoint, FinishRecovery, ReadHeads, ServeCommit, FinishCommit, InboundUpdate,
     Timeout, Crash, Open, Discard, ServeLate, localVars

LEMMA OwnStep ==
    ASSUME TypeOK, [Next]_vars, NEW d \in Writer
    PROVE  \/ Own(made', d) = Own(made, d)
           \/ /\ Edit(d) \/ Undo(d)
              /\ Author(d) /\ Own(made', d) = Own(made, d) \cup {NextOp(d)}
<1>1. ASSUME NEW x \in Device, Author(x), Edit(x) \/ Undo(x)
      PROVE  \/ Own(made', d) = Own(made, d)
             \/ /\ Edit(d) \/ Undo(d)
                /\ Author(d) /\ Own(made', d) = Own(made, d) \cup {NextOp(d)}
  <2>1. made' = made \cup {NextOp(x)} /\ NextOp(x)[1] = x
    BY <1>1 DEF Author, NextOp
  <2> QED BY <1>1, <2>1 DEF Own
<1> QED BY <1>1, MadeBy

(* An authoring device goes on from a document that holds all of its own.  *)
LEMMA CountersStep ==
    ASSUME TypeOK, SafetyInv, IdsInv, [Next]_vars
    PROVE  CountersHaveNoGap'
<1> SUFFICES ASSUME NEW d \in Writer
             PROVE  \E n \in 0 .. MaxEdits : Own(made', d) = {d} \X (1 .. n)
  BY DEF CountersHaveNoGap, Own
<1>1. PICK n \in 0 .. MaxEdits : Own(made, d) = {d} \X (1 .. n)
  BY DEF IdsInv, CountersHaveNoGap
<1>2. CASE Own(made', d) = Own(made, d)
  BY <1>1, <1>2
<1>3. CASE (Edit(d) \/ Undo(d)) /\ Author(d) /\ Own(made', d) = Own(made, d) \cup {NextOp(d)}
  <2>1. open[d]
    BY <1>3 DEF Edit, Undo, Ready
  <2>2. NextOp(d) = <<d, n + 1>>
    BY <1>1, <2>1, NextFollows DEF IdsInv, OwnOpsAreKept, SafetyInv
  <2>3. NextOp(d) \in Op
    BY <1>3 DEF Author
  <2>4. n + 1 \in 0 .. MaxEdits
    BY <1>1, <2>2, <2>3, ConstantsAssumption DEF Op
  <2>5. {d} \X (1 .. (n + 1)) = {d} \X (1 .. n) \cup {<<d, n + 1>>}
    BY <1>1
  <2> QED BY <1>1, <1>3, <2>2, <2>4, <2>5
<1> QED BY <1>2, <1>3, OwnStep

(* A document that stays open does not lose what it can use.               *)
LEMMA UsableStays ==
    ASSUME TypeOK, OpsInv, [Next]_vars, NEW d \in Device,
           doc[d] \subseteq doc'[d]
    PROVE  Applied(doc[d]) \subseteq Applied(doc[d])'
<1>1. doc[d] \subseteq made
  BY DEF OpsInv, OpsAreMade
<1>2. Applied(doc[d]) = {o \in doc[d] : past'[o] \subseteq doc[d]}
  BY <1>1, AppliedIsStable
<1> QED BY <1>2 DEF Applied

LEMMA DocStep ==
    ASSUME TypeOK, [Next]_vars, NEW d \in Device
    PROVE  \/ doc[d] \subseteq doc'[d] /\ open'[d] = open[d]
           \/ ~ open'[d]
           \/ Open(d)
<1>0. doc \in [Device -> SUBSET Op] /\ open \in [Device -> BOOLEAN]
  BY DEF TypeOK
<1>1. ASSUME NEW x \in Device, DeviceStep(x)
      PROVE  \/ doc[d] \subseteq doc'[d] /\ open'[d] = open[d]
             \/ ~ open'[d]
             \/ Open(d)
  <2>1. CASE Edit(x) \/ Undo(x)
    BY <1>0, <2>1 DEF Edit, Undo, Author
  <2>2. CASE FinishRecovery(x)
    BY <1>0, <2>2 DEF FinishRecovery
  <2>3. CASE \E e \in Device : InboundUpdate(x, e)
    BY <1>0, <2>3 DEF InboundUpdate
  <2>4. CASE Crash(x)
    BY <1>0, <2>4 DEF Crash
  <2>5. CASE Open(x)
    <3>1. CASE x = d
      BY <2>5, <3>1
    <3>2. CASE x # d
      BY <1>0, <2>5, <3>2 DEF Open
    <3> QED BY <3>1, <3>2
  <2>6. CASE FinishUndo(x) \/ StartPublish(x) \/ ServePublish(x) \/ FinishPublish(x)
    BY <2>6 DEF FinishUndo, StartPublish, ServePublish, FinishPublish, localVars
  <2>7. CASE ReadHeads(x) \/ ServeCommit(x) \/ FinishCommit(x) \/ Timeout(x) \/ Discard(x)
    BY <2>7 DEF ReadHeads, ServeCommit, FinishCommit, Timeout, Discard, localVars
  <2>8. CASE \E purpose \in {"recover", "compact"} : ReadCheckpoint(x, purpose)
    BY <2>8 DEF ReadCheckpoint, localVars
  <2> QED BY <1>1, <2>1, <2>2, <2>3, <2>4, <2>5, <2>6, <2>7, <2>8 DEF DeviceStep
<1>2. ASSUME NEW r \in late, ServeLate(r) PROVE UNCHANGED <<doc, open>>
  BY <1>2 DEF ServeLate, localVars
<1> QED BY <1>1, <1>2 DEF Next, vars, localVars

(* What a writer has made is in its open document: a replay brings back    *)
(* all that the store holds, because the store is closed under the past.   *)
LEMMA OwnInDocStep ==
    ASSUME TypeOK, SafetyInv, IdsInv, [Next]_vars, NEW d \in Writer, open'[d]
    PROVE  Own(made', d) \subseteq Applied(doc[d])'
<1>0. d \in Device /\ OpsInv
  BY ConstantsAssumption DEF SafetyInv
<1>1. CASE Own(made', d) = Own(made, d)
  <2>1. CASE doc[d] \subseteq doc'[d] /\ open'[d] = open[d]
    <3>1. Own(made, d) \subseteq Applied(doc[d])
      BY <2>1 DEF IdsInv, OwnOpsAreKept
    <3> QED BY <1>0, <1>1, <2>1, <3>1, UsableStays
  <2>2. CASE Open(d)
    <3>1. /\ ~ open[d] /\ doc'[d] = doc[d] \cup (snapshot[d] \cup updates[d])
          /\ UNCHANGED <<past, made, call, snapshot>>
      BY <1>0, <2>2 DEF Open, TypeOK
    <3>2. call[d].kind # "undo"
      BY <1>0, <3>1 DEF SafetyInv, PublicationInv, PublishesPending, Idle
    <3>3. Own(made, d) \subseteq updates[d] \cup snapshot[d]
      BY <3>2 DEF IdsInv, OwnOpsAreKept
    <3>4. Closed(updates[d] \cup snapshot[d])
      BY DEF SafetyInv, StoreInv, StoresAreClosed
    <3>5. updates[d] \cup snapshot[d] \subseteq Applied(updates[d] \cup snapshot[d])
      BY <3>4, AppliedOfClosed
    <3>6. Own(made, d) \subseteq Applied(doc'[d])
      BY <3>1, <3>3, <3>5, AppliedMonotone
    <3>7. Applied(doc'[d]) = Applied(doc[d])'
      BY <3>1 DEF Applied
    <3> QED BY <1>1, <3>6, <3>7
  <2> QED BY <1>0, <2>1, <2>2, DocStep
<1>2. CASE (Edit(d) \/ Undo(d)) /\ Author(d) /\ Own(made', d) = Own(made, d) \cup {NextOp(d)}
  <2>1. open[d]
    BY <1>2 DEF Edit, Undo, Ready
  <2>2. Own(made, d) \subseteq Applied(doc[d])
    BY <2>1 DEF IdsInv, OwnOpsAreKept
  <2> QED BY <1>0, <1>2, <2>2, AuthorPast
<1> QED BY <1>1, <1>2, OwnStep

(* An undo under way ends by being stored, or with the process.            *)
LEMMA UndoEnds ==
    ASSUME TypeOK, [Next]_vars, NEW d \in Device, call[d].kind = "undo", call'[d].kind # "undo",
           open'[d]
    PROVE  FinishUndo(d)
<1>0. call \in [Device -> Call] /\ open \in [Device -> BOOLEAN] /\ call[d] # Idle
  BY DEF TypeOK, Idle
<1>1. ASSUME NEW x \in Device, DeviceStep(x) PROVE call'[d] = call[d] \/ FinishUndo(d)
  <2>1. CASE Edit(x) \/ Undo(x) \/ StartPublish(x)
    BY <1>0, <2>1 DEF Edit, Undo, StartPublish, Ready
  <2>2. CASE ServePublish(x) \/ FinishPublish(x)
    BY <1>0, <2>2 DEF ServePublish, FinishPublish
  <2>3. CASE FinishUndo(x)
    BY <1>0, <2>3 DEF FinishUndo
  <2>4. CASE FinishRecovery(x) \/ ReadHeads(x) \/ ServeCommit(x) \/ FinishCommit(x)
    BY <1>0, <2>4 DEF FinishRecovery, ReadHeads, ServeCommit, FinishCommit
  <2>5. CASE \E purpose \in {"recover", "compact"} : ReadCheckpoint(x, purpose)
    BY <1>0, <2>5 DEF ReadCheckpoint, Ready
  <2>6. CASE \/ \E e \in Device : InboundUpdate(x, e)
             \/ Open(x) \/ Discard(x)
    BY <2>6 DEF InboundUpdate, Open, Discard
  <2>7. CASE Timeout(x)
    BY <1>0, <2>7 DEF Timeout
  <2>8. CASE Crash(x)
    BY <1>0, <2>8 DEF Crash
  <2> QED BY <1>1, <2>1, <2>2, <2>3, <2>4, <2>5, <2>6, <2>7, <2>8 DEF DeviceStep
<1>2. ASSUME NEW r \in late, ServeLate(r) PROVE call'[d] = call[d]
  BY <1>2 DEF ServeLate
<1> QED BY <1>1, <1>2 DEF Next, vars

(* What a writer has made is in its store once an undo is stored.          *)
LEMMA OwnOnDiskStep ==
    ASSUME TypeOK, SafetyInv, IdsInv, [Next]_vars, NEW d \in Writer, call'[d].kind # "undo",
           call[d].kind = "undo" => open'[d]
    PROVE  Own(made', d) \subseteq updates'[d] \cup snapshot'[d]
<1>0. d \in Device /\ OpsInv
  BY ConstantsAssumption DEF SafetyInv
<1>1. CASE Own(made', d) = Own(made, d) /\ call[d].kind # "undo"
  BY <1>1, WriterDiskGrows DEF IdsInv, OwnOpsAreKept
<1>2. CASE Own(made', d) = Own(made, d) /\ call[d].kind = "undo"
  <2>1. FinishUndo(d)
    BY <1>0, <1>2, UndoEnds
  <2>2. open[d]
    BY <1>0, <1>2 DEF SafetyInv, PublicationInv, PublishesPending, Idle
  <2>3. Own(made, d) \subseteq Applied(doc[d])
    BY <2>2 DEF IdsInv, OwnOpsAreKept
  <2>4. base[d] \subseteq updates[d] \cup snapshot[d]
    BY DEF SafetyInv, StoreInv, DiskHoldsDoc
  <2>5. EnqueueCurrentState(d, Applied(doc[d])) /\ snapshot' = snapshot
    BY <2>1 DEF FinishUndo
  <2>6. updates'[d] \cup snapshot[d] = updates[d] \cup snapshot[d] \cup Applied(doc[d])
    BY <2>4, <2>5, EnqueueStore
  <2> QED BY <1>2, <2>3, <2>5, <2>6
<1>3. CASE (Edit(d) \/ Undo(d)) /\ Author(d) /\ Own(made', d) = Own(made, d) \cup {NextOp(d)}
  <2>1. call[d] = Idle
    BY <1>3 DEF Edit, Undo, Ready
  <2>2. ~ Undo(d)
    BY <1>0 DEF Undo, TypeOK
  <2>3. NextOp(d) \notin base[d]
    BY <1>0, <1>3 DEF Author, SafetyInv, PublicationInv, BaseWasAccepted, OpsInv, OpsAreMade
  <2>4. updates'[d] = updates[d] \cup ((Applied(doc[d]) \cup {NextOp(d)}) \ base[d])
    BY <1>0, <1>3, <2>2 DEF Edit, CommitLocal, TypeOK
  <2>5. Own(made, d) \subseteq updates'[d] \cup snapshot'[d]
    BY <2>1, WriterDiskGrows DEF Idle, IdsInv, OwnOpsAreKept
  <2> QED BY <1>3, <2>3, <2>4, <2>5
<1> QED BY <1>1, <1>2, <1>3, OwnStep

LEMMA IdsInit == Init => IdsInv
<1> SUFFICES ASSUME Init, NEW d \in Writer
             PROVE  /\ \E n \in 0 .. MaxEdits : Own(made, d) = {d} \X (1 .. n)
                    /\ Own(made, d) = {}
  BY DEF IdsInv, CountersHaveNoGap, OwnOpsAreKept
<1>1. Own(made, d) = {}
  BY DEF Init, Own
<1>2. 0 \in 0 .. MaxEdits /\ {d} \X (1 .. 0) = {}
  BY ConstantsAssumption
<1> QED BY <1>1, <1>2

(* No device authors a second operation under an id it already used, unless *)
(* its process dies inside an undo, between the document and the store     *)
(* (service.rs Command::Undo): whatever else crashes, is lost or is late,  *)
(* what Open replays holds every operation the device ever made.           *)
THEOREM IdsStayFresh == Spec /\ NoUndoIsCut => []FreshOperationIds
<1> DEFINE Kept == \A d \in Writer : call[d].kind = "undo" => open'[d]
           Inv == TypeOK /\ SafetyInv /\ IdsInv
<1>1. Inv /\ [Next]_vars /\ [Kept]_vars => Inv'
  <2> SUFFICES ASSUME Inv, [Next]_vars, [Kept]_vars PROVE IdsInv'
    BY TypeStep, SafetyStep
  <2>1. CountersHaveNoGap'
    BY CountersStep
  <2>2. OwnOpsAreKept'
    <3> SUFFICES ASSUME NEW d \in Writer
                 PROVE  /\ open'[d] => Own(made', d) \subseteq Applied(doc[d])'
                        /\ call'[d].kind # "undo" => Own(made', d) \subseteq updates'[d] \cup snapshot'[d]
      BY DEF OwnOpsAreKept, Own
    <3>1. open'[d] => Own(made', d) \subseteq Applied(doc[d])'
      BY OwnInDocStep
    <3>2. CASE Kept
      BY <3>1, <3>2, OwnOnDiskStep
    <3>3. CASE UNCHANGED vars
      BY <3>1, <3>3 DEF vars, localVars, IdsInv, OwnOpsAreKept
    <3> QED BY <3>2, <3>3
  <2> QED BY <2>1, <2>2 DEF IdsInv
<1>2. Init => Inv
  BY TypeInit, SafetyInit, IdsInit
<1>3. Inv => FreshOperationIds
  <2> SUFFICES ASSUME Inv, NEW d \in Writer, Ready(d) PROVE NextOp(d) \notin made
    BY DEF FreshOperationIds
  <2>1. PICK n \in 0 .. MaxEdits : Own(made, d) = {d} \X (1 .. n)
    BY DEF IdsInv, CountersHaveNoGap
  <2>2. Own(made, d) \subseteq Applied(doc[d])
    BY DEF Ready, IdsInv, OwnOpsAreKept
  <2> QED BY <2>1, <2>2, NextFollows DEF SafetyInv
<1>4. NoUndoIsCut => [][Kept]_vars
  BY PTL DEF NoUndoIsCut
<1> HIDE DEF Inv, Kept
<1> QED BY <1>1, <1>2, <1>3, <1>4, PTL DEF Spec
================================================================================
