----------------------------- MODULE SharedEditing ----------------------------
(***************************************************************************)
(* What a shared project promises to those who edit it (docs/collab.md), as *)
(* one system without devices, envelopes, numbers or failures: an edit is   *)
(* acknowledged once it is on a disk with all it was made on, it is         *)
(* published after that, and absorbed into the common checkpoint after      *)
(* that; nothing goes back.  CollabSync implements it.                      *)
(***************************************************************************)
CONSTANT Op  \* the edits

VARIABLES
    edits,      \* the edits on a writer's disk, each with its causal past
    published,  \* those the server has accepted
    absorbed    \* those of the checkpoint

editingVars == <<edits, published, absorbed>>

Kept == DOMAIN edits
Complete(S) == \A o \in S : edits[o] \subseteq S

EditingInit == edits = [o \in {} |-> {}] /\ published = {} /\ absorbed = {}

(* Edits become durable: with everything they depend on, and for good.      *)
Keep ==
    /\ edits' = [o \in Kept' |-> edits'[o]]
    /\ Kept \subseteq Kept' /\ Kept' \subseteq Op
    /\ \A o \in Kept : edits'[o] = edits[o]
    /\ \A o \in Kept' : edits'[o] \subseteq Kept'
    /\ UNCHANGED <<published, absorbed>>

(* The server accepts durable edits, with everything they depend on.        *)
Publish ==
    /\ published \subseteq published' /\ published' \subseteq Kept
    /\ Complete(published')
    /\ UNCHANGED <<edits, absorbed>>

(* The checkpoint absorbs published edits, with everything they depend on.  *)
Absorb ==
    /\ absorbed \subseteq absorbed' /\ absorbed' \subseteq published
    /\ Complete(absorbed')
    /\ UNCHANGED <<edits, published>>

EditingNext == Keep \/ Publish \/ Absorb

EditingSpec == EditingInit /\ [][EditingNext]_editingVars

(* What is durable is published in the end.                                 *)
EverythingIsPublished == \A o \in Op : (o \in Kept) ~> (o \in published)
================================================================================
