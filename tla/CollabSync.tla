------------------------------- MODULE CollabSync ------------------------------
(***************************************************************************)
(* The collaboration actors of the member devices of one shared project    *)
(* (src-tauri/src/collab/service.rs, store.rs, doc.rs) against the server  *)
(* of ConvexHeads.                                                         *)
(*                                                                         *)
(* An operation is <<author, counter>>, the Loro op id.  Loro applies an   *)
(* imported operation once its causal past is present, so a replica is the *)
(* set of operations it received and Applied selects those it can use.     *)
(*                                                                         *)
(* An actor serves one command at a time.  A command that calls the server *)
(* is split at every await: `call' holds where the actor waits and the     *)
(* locals it carries across.  A request whose caller gave up may still be  *)
(* executed later: it is kept in `late'.                                   *)
(***************************************************************************)
EXTENDS ConvexHeads, FiniteSets

CONSTANTS
    Writer,       \* devices of an owner or an editor
    MaxEdits,     \* bound: operations a device authors
    MaxUndos,     \* bound: undos and redos of one behaviour
    MaxSeq,       \* bound: sequence above which remote merges stop resealing
    MaxCheckpoints, \* bound: checkpoint epoch above which no compaction starts
    MaxFaults     \* bound: crashes and timeouts of one behaviour

ASSUME ConstantsAssumption ==
    /\ Writer \subseteq Device
    /\ MaxEdits \in Nat /\ MaxUndos \in Nat /\ MaxSeq \in Nat
    /\ MaxCheckpoints \in Nat /\ MaxFaults \in Nat

VARIABLES
    past,       \* operation -> its causal past
    made,       \* history: operations authored so far
    undos,      \* undos and redos so far
    open,       \* Device -> the project is open in this process
    doc,        \* Device -> operations in the Loro document (its .loro file when closed)
    updates,    \* Device -> operations in the SQLite table `updates'
    snapshot,   \* Device -> operations in the SQLite table `checkpoint'
    seq,        \* Device -> meta `local_sequence'
    pending,    \* Device -> newest row of `outbox' with published = 0
    base,       \* Device -> meta `publication_base', as the operations it covers
    due,        \* Device -> a Publish command of the current generation is scheduled
    call,       \* Device -> where the actor's command waits
    late,       \* requests still in the network after their caller gave up
    faults,     \* crashes and timeouts so far
    accepted    \* history: operations of every head the server ever accepted

localVars == <<past, made, undos, open, doc, updates, snapshot, seq, pending, base, due>>
vars == <<serverVars, localVars, call, late, faults, accepted>>

Op == Device \X (1 .. MaxEdits)
NoEnvelope == [seq |-> 0, ops |-> {}]
Idle == [kind |-> "idle"]

(* The operations of a received set whose causal past is in it: pasts are  *)
(* transitively closed, so one pass finds them all.                        *)
Applied(received) == {o \in received : past[o] \subseteq received}

Init ==
    /\ ServerInit
    /\ past = [o \in Op |-> {}]
    /\ made = {}
    /\ undos = 0
    /\ open = [d \in Device |-> TRUE]
    /\ doc = [d \in Device |-> {}]
    /\ updates = [d \in Device |-> {}]
    /\ snapshot = [d \in Device |-> {}]
    /\ seq = [d \in Device |-> 0]
    /\ pending = [d \in Device |-> NoEnvelope]
    /\ base = [d \in Device |-> {}]
    /\ due = [d \in Device |-> FALSE]
    /\ call = [d \in Device |-> Idle]
    /\ late = {}
    /\ faults = 0
    /\ accepted = {}

Ready(d) == open[d] /\ call[d] = Idle

(* Mutations: the number follows the newest waiting envelope; the update   *)
(* row is left out of the transaction.                                     *)
CommitLocalReusesNumber(d, delta) ==
    /\ updates' = [updates EXCEPT ![d] = @ \cup delta]
    /\ seq' = [seq EXCEPT ![d] = pending[d].seq + 1]
    /\ pending' = [pending EXCEPT ![d] = [seq |-> pending[d].seq + 1, ops |-> delta]]
CommitLocalKeepsNoUpdate(d, delta) ==
    /\ seq' = [seq EXCEPT ![d] = @ + 1]
    /\ pending' = [pending EXCEPT ![d] = [seq |-> seq[d] + 1, ops |-> delta]]
    /\ UNCHANGED updates

(* ProjectStore::commit_local: the update, its sequence number and the     *)
(* sealed envelope in one SQLite transaction.                              *)
CommitLocal(d, delta) ==
    /\ updates' = [updates EXCEPT ![d] = @ \cup delta]
    /\ seq' = [seq EXCEPT ![d] = @ + 1]
    /\ pending' = [pending EXCEPT ![d] = [seq |-> seq[d] + 1, ops |-> delta]]

(* enqueue_current_state, once the document holds `version'.  Mutation:    *)
(* a waiting envelope is taken to cover the merge.                         *)
MustEnqueue(d, version) == d \in Writer /\ version # base[d]
EnqueueCurrentStateOnce(d, version) ==
    IF MustEnqueue(d, version) /\ pending[d] = NoEnvelope
    THEN CommitLocal(d, version \ base[d])
    ELSE UNCHANGED <<updates, seq, pending>>
EnqueueCurrentState(d, version) ==
    IF MustEnqueue(d, version)
    THEN CommitLocal(d, version \ base[d])
    ELSE UNCHANGED <<updates, seq, pending>>

-----------------------------------------------------------------------------
(* A new operation of d: its counter follows the document's, its past is   *)
(* the document it is made on.  The model stops authoring where an id      *)
(* would be used twice (FreshOperationIds says whether that happens).      *)
NextOp(d) == <<d, Cardinality({o \in Applied(doc[d]) : o[1] = d}) + 1>>

Author(d) ==
    /\ d \in Writer
    /\ NextOp(d) \in Op \ made
    /\ past' = [past EXCEPT ![NextOp(d)] = Applied(doc[d])]
    /\ made' = made \cup {NextOp(d)}
    /\ doc' = [doc EXCEPT ![d] = @ \cup {NextOp(d)}]

(* Mutation: the envelope carries the batch alone.                         *)
EditSealsBatchAlone(d) ==
    /\ Ready(d)
    /\ Author(d)
    /\ CommitLocal(d, {NextOp(d)})
    /\ due' = [due EXCEPT ![d] = TRUE]
    /\ UNCHANGED <<serverVars, undos, open, snapshot, base, call, late, faults, accepted>>

(* Command::Apply: the batch is prepared on the shadow replica, made       *)
(* durable, and only then imported.  The envelope carries everything above *)
(* the publication base.                                                   *)
Edit(d) ==
    /\ Ready(d)
    /\ Author(d)
    /\ CommitLocal(d, (Applied(doc[d]) \cup {NextOp(d)}) \ base[d])
    /\ due' = [due EXCEPT ![d] = TRUE]
    /\ UNCHANGED <<serverVars, undos, open, snapshot, base, call, late, faults, accepted>>

(* Command::Undo: Loro makes the inverse operation in the live document,   *)
(* where the network tasks see it, and the store follows.                  *)
Undo(d) ==
    /\ Ready(d) /\ undos < MaxUndos
    /\ \E o \in Applied(doc[d]) : o[1] = d
    /\ Author(d)
    /\ undos' = undos + 1
    /\ call' = [call EXCEPT ![d] = [kind |-> "undo"]]
    /\ UNCHANGED <<serverVars, open, updates, snapshot, seq, pending, base, due,
                   late, faults, accepted>>

FinishUndo(d) ==
    /\ call[d].kind = "undo"
    /\ EnqueueCurrentState(d, Applied(doc[d]))
    /\ due' = [due EXCEPT ![d] = @ \/ MustEnqueue(d, Applied(doc[d]))]
    /\ call' = [call EXCEPT ![d] = Idle]
    /\ UNCHANGED <<serverVars, past, made, undos, open, doc, snapshot, base, late,
                   faults, accepted>>

(* Command::Publish: publish_latest sends the newest pending envelope, if  *)
(* there is one.                                                           *)
StartPublish(d) ==
    /\ Ready(d) /\ due[d]
    /\ due' = [due EXCEPT ![d] = FALSE]
    /\ call' = IF pending[d] = NoEnvelope THEN call
               ELSE [call EXCEPT ![d] = [kind |-> "publish", env |-> pending[d]]]
    /\ UNCHANGED <<serverVars, past, made, undos, open, doc, updates, snapshot, seq, pending,
                   base, late, faults, accepted>>

(* The server runs publishHead on envelope env of device d.                *)
RunPublishHead(d, env) ==
    /\ PublishHead(d, env)
    /\ accepted' = IF PublishStatus(d, env) = "published"
                   THEN accepted \cup env.ops ELSE accepted

ServePublish(d) ==
    /\ call[d].kind = "publish"
    /\ RunPublishHead(d, call[d].env)
    /\ call' = [call EXCEPT ![d] = [kind |-> "answered", env |-> call[d].env,
                                    status |-> PublishStatus(d, call[d].env)]]
    /\ UNCHANGED <<localVars, late, faults>>

(* ProjectStore::confirm_through, with the version of the document as it   *)
(* is now.                                                                 *)
ConfirmThrough(d, env) ==
    /\ pending' = [pending EXCEPT ![d] = IF @.seq <= env.seq THEN NoEnvelope ELSE @]
    /\ base' = [base EXCEPT ![d] = Applied(doc[d])]

(* The end of publish_latest and of the Publish handler: an accepted       *)
(* envelope is confirmed, any other answer is retried later.               *)
FinishPublish(d) ==
    /\ call[d].kind = "answered"
    /\ IF call[d].status \in {"published", "already"}
       THEN ConfirmThrough(d, call[d].env) /\ UNCHANGED due
       ELSE due' = [due EXCEPT ![d] = TRUE] /\ UNCHANGED <<pending, base>>
    /\ call' = [call EXCEPT ![d] = Idle]
    /\ UNCHANGED <<serverVars, past, made, undos, open, doc, updates, snapshot, seq, late,
                   faults, accepted>>

-----------------------------------------------------------------------------
(* recover_from_convex and compact_remote_set both query the checkpoint    *)
(* first and the heads afterwards.                                         *)
ReadCheckpoint(d, purpose) ==
    /\ Ready(d)
    /\ IF purpose = "compact" THEN d \in Writer /\ checkpoint.epoch < MaxCheckpoints
                              ELSE seq[d] < MaxSeq
    /\ call' = [call EXCEPT ![d] = [kind |-> purpose, checkpoint |-> checkpoint]]
    /\ UNCHANGED <<serverVars, localVars, late, faults, accepted>>

(* The rest of a security refresh (Command::ConfigureAuth): merge what was *)
(* read, reseal what is above the base, schedule a publication.            *)
FinishRecovery(d) ==
    LET received == doc[d] \cup call[d].checkpoint.ops \cup ListedOps
    IN  /\ call[d].kind = "recover"
        /\ doc' = [doc EXCEPT ![d] = received]
        /\ EnqueueCurrentState(d, Applied(received))
        /\ due' = [due EXCEPT ![d] = @ \/ pending'[d] # NoEnvelope]
        /\ call' = [call EXCEPT ![d] = Idle]
        /\ UNCHANGED <<serverVars, past, made, undos, open, snapshot, base, late, faults, accepted>>

(* compact_updates: a fresh document imports exactly the selected payloads *)
(* and exports what it could apply.  With a checkpoint and no head there   *)
(* is nothing to do.                                                       *)
ReadHeads(d) ==
    /\ call[d].kind = "compact"
    /\ call' = [call EXCEPT ![d] =
          IF ListedHeads = {} /\ call[d].checkpoint.epoch # 0 THEN Idle
          ELSE [kind |-> "commit",
                request |-> [expected |-> call[d].checkpoint.epoch,
                             consumed |-> ListedHeads,
                             ops |-> Applied(call[d].checkpoint.ops \cup ListedOps)]]]
    /\ UNCHANGED <<serverVars, localVars, late, faults, accepted>>

ServeCommit(d) ==
    /\ call[d].kind = "commit"
    /\ CommitCheckpoint(call[d].request)
    /\ call' = [call EXCEPT ![d] =
          IF CasMatches(call[d].request)
          THEN [kind |-> "committed", ops |-> call[d].request.ops] ELSE Idle]
    /\ UNCHANGED <<localVars, late, faults, accepted>>

(* save_checkpoint and set_publication_base after a committed compaction.  *)
FinishCommit(d) ==
    /\ call[d].kind = "committed"
    /\ snapshot' = [snapshot EXCEPT ![d] = call[d].ops]
    /\ base' = [base EXCEPT ![d] = call[d].ops]
    /\ call' = [call EXCEPT ![d] = Idle]
    /\ UNCHANGED <<serverVars, past, made, undos, open, doc, updates, seq, pending, due, late,
                   faults, accepted>>

-----------------------------------------------------------------------------
(* Command::InboundUpdate: the exchange of net.rs gives d everything it    *)
(* misses of a peer that may write; e's network task reads its document    *)
(* without waiting for e's actor.                                          *)
InboundUpdate(d, e) ==
    LET received == doc[d] \cup Applied(doc[e])
        grown == Applied(received) # Applied(doc[d])
    IN  /\ Ready(d) /\ open[e] /\ e \in Writer
        /\ received # doc[d]
        /\ grown /\ MustEnqueue(d, Applied(received)) => seq[d] < MaxSeq
        /\ doc' = [doc EXCEPT ![d] = received]
        /\ IF grown THEN EnqueueCurrentState(d, Applied(received))
                    ELSE UNCHANGED <<updates, seq, pending>>
        /\ due' = [due EXCEPT ![d] = @ \/ (grown /\ MustEnqueue(d, Applied(received)))]
        /\ UNCHANGED <<serverVars, past, made, undos, open, snapshot, base, call, late, faults, accepted>>

-----------------------------------------------------------------------------
(* What a caller that stops waiting leaves in the network.                 *)
Abandoned(d) ==
    CASE call[d].kind = "publish" -> {[kind |-> "publish", device |-> d, env |-> call[d].env]}
      [] call[d].kind = "commit"  -> {[kind |-> "commit", request |-> call[d].request]}
      [] OTHER -> {}

(* Mutation: a publication that timed out is not scheduled again.          *)
TimeoutForgetsPublication(d) ==
    /\ faults < MaxFaults
    /\ call[d].kind \notin {"idle", "undo", "committed"}
    /\ late' = late \cup Abandoned(d)
    /\ call' = [call EXCEPT ![d] = Idle]
    /\ faults' = faults + 1
    /\ UNCHANGED <<serverVars, localVars, accepted>>

(* The HTTP client's timeout, or a failed connection.  A failed publish is *)
(* rescheduled; a failed refresh or compaction is left to the next one.    *)
Timeout(d) ==
    /\ faults < MaxFaults
    /\ call[d].kind \notin {"idle", "undo", "committed"}
    /\ late' = late \cup Abandoned(d)
    /\ due' = [due EXCEPT ![d] = @ \/ call[d].kind \in {"publish", "answered"}]
    /\ call' = [call EXCEPT ![d] = Idle]
    /\ faults' = faults + 1
    /\ UNCHANGED <<serverVars, past, made, undos, open, doc, updates, snapshot, seq, pending, base, accepted>>

(* The process dies.  The .loro file is a throttled cache of the document: *)
(* it holds the document, or nothing of this session.                      *)
Crash(d) ==
    /\ faults < MaxFaults
    /\ open[d]
    /\ late' = late \cup Abandoned(d)
    /\ open' = [open EXCEPT ![d] = FALSE]
    /\ \E file \in {doc[d], {}} : doc' = [doc EXCEPT ![d] = Applied(file)]
    /\ due' = [due EXCEPT ![d] = FALSE]
    /\ call' = [call EXCEPT ![d] = Idle]
    /\ faults' = faults + 1
    /\ UNCHANGED <<serverVars, past, made, undos, updates, snapshot, seq, pending, base, accepted>>

(* Mutation: the update rows are not replayed.                             *)
OpenWithoutUpdates(d) ==
    LET replayed == doc[d] \cup snapshot[d]
    IN  /\ ~open[d]
        /\ open' = [open EXCEPT ![d] = TRUE]
        /\ doc' = [doc EXCEPT ![d] = replayed]
        /\ EnqueueCurrentState(d, Applied(replayed))
        /\ due' = [due EXCEPT ![d] = MustEnqueue(d, Applied(replayed))]
        /\ UNCHANGED <<serverVars, past, made, undos, snapshot, base, call, late, faults, accepted>>

(* Command::Open without a connection: replay the SQLite store over the    *)
(* file, reseal what is above the base.  Connected, the recovery follows   *)
(* as a ReadCheckpoint.                                                    *)
Open(d) ==
    LET replayed == doc[d] \cup snapshot[d] \cup updates[d]
    IN  /\ ~open[d]
        /\ open' = [open EXCEPT ![d] = TRUE]
        /\ doc' = [doc EXCEPT ![d] = replayed]
        /\ EnqueueCurrentState(d, Applied(replayed))
        /\ due' = [due EXCEPT ![d] = MustEnqueue(d, Applied(replayed))]
        /\ UNCHANGED <<serverVars, past, made, undos, snapshot, base, call, late, faults, accepted>>

(* A request nobody waits for any more is executed late, or never.         *)
ServeLate(r) ==
    /\ r \in late
    /\ late' = late \ {r}
    /\ \/ r.kind = "publish" /\ RunPublishHead(r.device, r.env)
       \/ r.kind = "commit" /\ CommitCheckpoint(r.request) /\ UNCHANGED accepted
    /\ UNCHANGED <<localVars, call, faults>>

(* The owner's decision to drop a stale head.                              *)
Discard(d) ==
    /\ DiscardStaleHead(d)
    /\ UNCHANGED <<localVars, call, late, faults, accepted>>

DeviceStep(d) ==
    \/ Edit(d) \/ Undo(d) \/ FinishUndo(d)
    \/ StartPublish(d) \/ ServePublish(d) \/ FinishPublish(d)
    \/ \E purpose \in {"recover", "compact"} : ReadCheckpoint(d, purpose)
    \/ FinishRecovery(d)
    \/ ReadHeads(d) \/ ServeCommit(d) \/ FinishCommit(d)
    \/ \E e \in Device : InboundUpdate(d, e)
    \/ Timeout(d) \/ Crash(d) \/ Open(d)
    \/ Discard(d)

Next ==
    \/ \E d \in Device : DeviceStep(d)
    \/ \E r \in late : ServeLate(r)

Spec == Init /\ [][Next]_vars

(* The actor's mailbox is a FIFO queue, so a scheduled Publish command is  *)
(* served however often other commands come between (strong fairness); a   *)
(* command under way is finished; a closed project is opened again.        *)
Fairness ==
    \A d \in Device :
        /\ SF_vars(StartPublish(d))
        /\ WF_vars(FinishUndo(d))
        /\ WF_vars(ServePublish(d)) /\ WF_vars(FinishPublish(d))
        /\ WF_vars(FinishRecovery(d)) /\ WF_vars(ReadHeads(d))
        /\ WF_vars(ServeCommit(d)) /\ WF_vars(FinishCommit(d))
        /\ WF_vars(Open(d))

FairSpec == Spec /\ Fairness

-----------------------------------------------------------------------------
Envelope == [seq : Nat, ops : SUBSET Op]
Row == [id : Nat, seq : Nat, revision : Nat, ops : SUBSET Op]
Checkpoint == [epoch : Nat, ops : SUBSET Op]
Consumed == [device : Device, id : Nat, revision : Nat]
Request == [expected : Nat, consumed : SUBSET Consumed, ops : SUBSET Op]
Call ==
    {Idle, [kind |-> "undo"]}
    \cup [kind : {"publish"}, env : Envelope]
    \cup [kind : {"answered"}, env : Envelope,
          status : {"published", "already", "stale", "refused"}]
    \cup [kind : {"recover", "compact"}, checkpoint : Checkpoint]
    \cup [kind : {"commit"}, request : Request]
    \cup [kind : {"committed"}, ops : SUBSET Op]
LateRequest ==
    [kind : {"publish"}, device : Device, env : Envelope]
    \cup [kind : {"commit"}, request : Request]

(* Every variable stays in its range.                                      *)
TypeOK ==
    /\ heads \in [Device -> Row]
    /\ checkpoint \in Checkpoint
    /\ inserted \in Nat
    /\ past \in [Op -> SUBSET Op]
    /\ made \subseteq Op
    /\ undos \in Nat
    /\ open \in [Device -> BOOLEAN]
    /\ doc \in [Device -> SUBSET Op]
    /\ updates \in [Device -> SUBSET Op]
    /\ snapshot \in [Device -> SUBSET Op]
    /\ seq \in [Device -> Nat]
    /\ pending \in [Device -> Envelope]
    /\ base \in [Device -> SUBSET Op]
    /\ due \in [Device -> BOOLEAN]
    /\ call \in [Device -> Call]
    /\ late \subseteq LateRequest
    /\ faults \in Nat
    /\ accepted \subseteq Op

(* Every sealed envelope of device d: waiting, in flight, delayed, stored. *)
Sealed(d) ==
    ({pending[d]} \ {NoEnvelope})
    \cup (IF call[d].kind \in {"publish", "answered"} THEN {call[d].env} ELSE {})
    \cup {r.env : r \in {q \in late : q.kind = "publish" /\ q.device = d}}
    \cup (IF HasHead(d) THEN {[seq |-> heads[d].seq, ops |-> heads[d].ops]} ELSE {})

(* A sequence number of a device names one sealed content for ever, over   *)
(* crashes, retries and delayed requests: publishHead never has to refuse  *)
(* a reused number (heads.ts "already published with different content").  *)
SequenceNeverReused ==
    \A d \in Device : \A e, f \in Sealed(d) : e.seq = f.seq => e = f

(* The publication base of a device covers only operations the server has  *)
(* accepted, so what an envelope leaves out was published before           *)
(* (store.rs confirm_through, service.rs publish_latest).                  *)
BaseWasAccepted == \A d \in Device : base[d] \subseteq accepted

(* What a writer's disk holds and the server never accepted is in the      *)
(* envelope it will publish next: no crash, lost answer or concurrent      *)
(* merge makes an acknowledged edit unpublishable.                         *)
UnacceptedIsQueued ==
    \A d \in Writer : (updates[d] \cup snapshot[d]) \ accepted \subseteq pending[d].ops

(* No device ever authors a second operation under an id it already used:  *)
(* what a restart replays contains every operation the others may hold     *)
(* (doc.rs peer_id, service.rs Open).                                      *)
FreshOperationIds == \A d \in Writer : Ready(d) => NextOp(d) \notin made

(* A committed compaction keeps the previous checkpoint and everything     *)
(* usable of the branches it deletes, whatever was published or compacted  *)
(* by others since it read them (heads.ts commitCheckpoint).               *)
CompactionKeepsBranches ==
    [][ checkpoint' # checkpoint =>
          LET consumed == {d \in Device : HasHead(d) /\ heads'[d] = NoHead}
          IN  Applied(checkpoint.ops \cup UNION {heads[d].ops : d \in consumed})
                \subseteq checkpoint'.ops ]_vars

(* Docs: "Published, unabsorbed heads are never deleted automatically",    *)
(* and opening the project recovers every published edit while its author  *)
(* is offline: only the owner's discard takes something away.              *)
PublishedStaysRecoverable ==
    [][ Recoverable \subseteq Recoverable' \/ \E d \in Device : DiscardStaleHead(d) ]_vars

-----------------------------------------------------------------------------
(* The promise of SharedEditing, read off the disks of the writers, the    *)
(* heads ever accepted and the checkpoint.                                 *)
OnDisk == UNION {updates[d] \cup snapshot[d] : d \in Writer}
Promise == INSTANCE SharedEditing WITH
    Op <- Op, edits <- [o \in OnDisk |-> past[o]], published <- accepted,
    absorbed <- checkpoint.ops

(* Over crashes, lost answers, requests executed late, undos and discarded *)
(* heads: an edit on a writer's disk stays there with all it depends on,   *)
(* the server accepts only such edits, the checkpoint only accepted ones,  *)
(* both completely and for good.                                           *)
ImplementsSharedEditing == Promise!EditingSpec

(* What is on a writer's disk is accepted in the end: a failed publication *)
(* is retried, a restart resumes it.                                       *)
EditsReachServer == Promise!EverythingIsPublished
================================================================================
