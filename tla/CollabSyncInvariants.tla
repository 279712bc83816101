--------------------------- MODULE CollabSyncInvariants -----------------------
(***************************************************************************)
(* The strengthenings under which the safety properties of CollabSync are  *)
(* inductive, kept apart from the proofs so that TLC can check them: the   *)
(* *_proofs modules prove them.  Nothing here models code.                 *)
(***************************************************************************)
EXTENDS CollabSync

Publishing(d) == call[d].kind \in {"publish", "answered"}

(* The compactions under way, waited for or not.                           *)
Requests ==
    {call[d].request : d \in {x \in Device : call[x].kind = "commit"}}
    \cup {r.request : r \in {q \in late : q.kind = "commit"}}

(* A device numbers its envelopes upwards.                                 *)
NumbersAreBounded == \A d \in Device : \A e \in Sealed(d) : e.seq <= seq[d]

(* Only operations that were authored are anywhere.                        *)
OpsAreMade ==
    /\ accepted \subseteq made
    /\ \A o \in Op : past[o] \subseteq made
    /\ \A d \in Device :
          /\ doc[d] \subseteq made /\ updates[d] \subseteq made
          /\ pending[d].ops \subseteq made
          /\ Publishing(d) => call[d].env.ops \subseteq made
    /\ \A r \in late : r.kind = "publish" => r.env.ops \subseteq made

(* What comes from the server was accepted by it.                          *)
OpsAreAccepted ==
    /\ checkpoint.ops \subseteq accepted
    /\ \A d \in Device :
          /\ heads[d].ops \subseteq accepted /\ snapshot[d] \subseteq accepted
          /\ call[d].kind \in {"recover", "compact"} =>
                call[d].checkpoint.ops \subseteq accepted
          /\ call[d].kind = "committed" => call[d].ops \subseteq accepted
    /\ \A request \in Requests : request.ops \subseteq accepted

(* While a device publishes, its actor changes nothing else: what it will  *)
(* confirm is what it sealed.                                              *)
PublishesPending ==
    \A d \in Device :
        /\ call[d] # Idle => open[d]
        /\ pending[d] # NoEnvelope => d \in Writer
        /\ Publishing(d) => d \in Writer /\ call[d].env = pending[d]
        /\ call[d].kind = "answered" /\ call[d].status \in {"published", "already"} =>
              call[d].env.ops \subseteq accepted

(* The document of an open writer is on the server or in its newest        *)
(* envelope, except inside an undo.                                        *)
DocIsQueued ==
    \A d \in Writer :
        open[d] /\ call[d].kind # "undo" =>
            Applied(doc[d]) \subseteq accepted \cup pending[d].ops

PublicationInv ==
    OpsAreMade /\ OpsAreAccepted /\ PublishesPending /\ DocIsQueued /\ BaseWasAccepted

(* What the compare-and-swap relies on: ids are not reused, revisions only *)
(* grow, and a request that would still be committed contains the          *)
(* checkpoint and the branches it replaces.                                *)
RowsAreCounted ==
    /\ \A d \in Device : heads[d].id <= inserted /\ (HasHead(d) => heads[d].id > 0)
    /\ \A request \in Requests :
          /\ request.expected <= checkpoint.epoch
          /\ \A row \in request.consumed :
                /\ 0 < row.id /\ row.id <= inserted
                /\ heads[row.device].id = row.id => row.revision <= heads[row.device].revision

Selected(request) ==
    checkpoint.ops \cup UNION {heads[row.device].ops : row \in request.consumed}
RequestsKeepBranches ==
    \A request \in Requests : CasMatches(request) => Applied(Selected(request)) \subseteq request.ops

(* A compactor holds the checkpoint it read, or an older one.              *)
ReadsAreOld ==
    \A d \in Device :
        call[d].kind = "compact" =>
            /\ call[d].checkpoint.epoch <= checkpoint.epoch
            /\ call[d].checkpoint.epoch = checkpoint.epoch => call[d].checkpoint = checkpoint

CompactionInv == RowsAreCounted /\ RequestsKeepBranches /\ ReadsAreOld
(* The causal past is transitive, and what a store or the server holds is  *)
(* closed under it, so a replay uses all of it.                            *)
Closed(S) == \A o \in S : past[o] \subseteq S
PastsAreClosed == \A o \in Op : Closed(past[o])
StoresAreClosed ==
    /\ Closed(checkpoint.ops)
    /\ \A d \in Writer : Closed(updates[d] \cup snapshot[d])
    /\ \A d \in Device : call[d].kind = "committed" => Closed(call[d].ops)
    /\ \A request \in Requests : Closed(request.ops)

(* A device's snapshot is a checkpoint the server had, and only a newer    *)
(* one replaces it.                                                        *)
SnapshotsAreOld ==
    \A d \in Device :
        /\ snapshot[d] \subseteq checkpoint.ops
        /\ call[d].kind = "committed" =>
              snapshot[d] \subseteq call[d].ops /\ call[d].ops \subseteq checkpoint.ops

(* Document, disk and base of a writer agree: what the base covers is on   *)
(* disk, what the document of an open project can use is on disk except    *)
(* inside an undo, and what is on disk and not accepted is in the document. *)
DiskHoldsDoc ==
    \A d \in Writer :
        /\ base[d] \subseteq updates[d] \cup snapshot[d]
        /\ open[d] /\ call[d].kind # "undo" => Applied(doc[d]) \subseteq updates[d] \cup snapshot[d]
        /\ open[d] => updates[d] \ accepted \subseteq Applied(doc[d])

StoreInv ==
    PastsAreClosed /\ StoresAreClosed /\ SnapshotsAreOld /\ DiskHoldsDoc /\ UnacceptedIsQueued

(* What an envelope carries is on a writer's disk, and what it leaves out  *)
(* of the causal past was accepted before; so is all that was accepted.    *)
Covered(S) == S \subseteq OnDisk /\ \A o \in S : past[o] \subseteq accepted \cup S
EnvelopesAreComplete ==
    /\ \A d \in Device : Covered(pending[d].ops)
    /\ \A r \in late : r.kind = "publish" => Covered(r.env.ops)
AcceptedIsComplete == Covered(accepted)

PromiseInv == EnvelopesAreComplete /\ AcceptedIsComplete

(* The operations a writer has made are numbered without a gap; a document *)
(* that is open can use them all, and so could a replay of the store, unless *)
(* an undo has still to be stored.                                         *)
Own(S, d) == {o \in S : o[1] = d}
CountersHaveNoGap ==
    \A d \in Writer : \E n \in 0 .. MaxEdits : Own(made, d) = {d} \X (1 .. n)
OwnOpsAreKept ==
    \A d \in Writer :
        /\ open[d] => Own(made, d) \subseteq Applied(doc[d])
        /\ call[d].kind # "undo" => Own(made, d) \subseteq updates[d] \cup snapshot[d]

IdsInv == CountersHaveNoGap /\ OwnOpsAreKept

(* No process dies between the two halves of an undo.                      *)
NoUndoIsCut == [][\A d \in Writer : call[d].kind = "undo" => open'[d]]_vars
================================================================================
