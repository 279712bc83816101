------------------------------ MODULE ConvexHeads ------------------------------
(***************************************************************************)
(* The recovery tables of one shared project on the Convex deployment      *)
(* (convex/heads.ts): at most one sealed head per device and one sealed    *)
(* checkpoint.  A Convex mutation is one serialisable transaction, so each *)
(* mutation is one action here.  The server reads nothing it stores; `ops' *)
(* is what the ciphertext would open to.  Membership, device proof, upload *)
(* reservations and key epochs are guards of these mutations that module   *)
(* ProjectKeys looks at; here every caller is a proved writer under the    *)
(* current epoch.                                                          *)
(***************************************************************************)
EXTENDS Naturals

CONSTANT Device

VARIABLES
    heads,        \* Device -> row of projectHeads, or NoHead
    checkpoint,   \* the row of projectCheckpoints; epoch 0 when there is none
    inserted      \* document ids handed out so far: an id is never used again

serverVars == <<heads, checkpoint, inserted>>

NoHead == [id |-> 0, seq |-> 0, revision |-> 0, ops |-> {}]
NoCheckpoint == [epoch |-> 0, ops |-> {}]

ServerInit ==
    /\ heads = [d \in Device |-> NoHead]
    /\ checkpoint = NoCheckpoint
    /\ inserted = 0

HasHead(d) == heads[d] # NoHead

(* What publishHead answers to envelope env of device d.  The ciphertext   *)
(* hash is compared through the content: two seals of one sequence number  *)
(* are two contents.  "refused" is the thrown error.                       *)
PublishStatus(d, env) ==
    IF ~HasHead(d) \/ env.seq > heads[d].seq THEN "published"
    ELSE IF env.seq < heads[d].seq THEN "stale"
    ELSE IF env.ops = heads[d].ops THEN "already" ELSE "refused"

(* Mutation: the row is replaced without its revision.                     *)
PublishedRowMutant(d, env) ==
    [id  |-> IF HasHead(d) THEN heads[d].id ELSE inserted + 1,
     seq |-> env.seq,
     ops |-> env.ops]

(* The row publishHead leaves: the device's one row is patched, its        *)
(* content replaced and its revision raised; a missing row is inserted.    *)
PublishedRow(d, env) ==
    [id       |-> IF HasHead(d) THEN heads[d].id ELSE inserted + 1,
     seq      |-> env.seq,
     revision |-> heads[d].revision + 1,
     ops      |-> env.ops]

PublishHead(d, env) ==
    /\ IF PublishStatus(d, env) = "published"
       THEN /\ heads' = [heads EXCEPT ![d] = PublishedRow(d, env)]
            /\ inserted' = IF HasHead(d) THEN inserted ELSE inserted + 1
       ELSE UNCHANGED <<heads, inserted>>
    /\ UNCHANGED checkpoint

(* The heads as listHeads returns them to a compactor: row id and revision *)
(* of every row, which is all commitCheckpoint is given back.              *)
ListedHeads ==
    {[device |-> d, id |-> heads[d].id, revision |-> heads[d].revision] :
        d \in {e \in Device : HasHead(e)}}

ListedOps == UNION {heads[d].ops : d \in Device}

(* Mutation: the selected heads are matched by id alone.                   *)
CasMatchesMutant(request) ==
    /\ checkpoint.epoch = request.expected
    /\ \A row \in request.consumed : heads[row.device].id = row.id

(* checkpointCasMatches, with the lookup of the consumed rows before it.   *)
CasMatches(request) ==
    /\ checkpoint.epoch = request.expected
    /\ \A row \in request.consumed :
          /\ heads[row.device].id = row.id
          /\ heads[row.device].revision = row.revision

CommitCheckpoint(request) ==
    /\ IF CasMatches(request)
       THEN /\ checkpoint' = [epoch |-> checkpoint.epoch + 1, ops |-> request.ops]
            /\ heads' = [d \in Device |->
                            IF \E row \in request.consumed : row.device = d
                            THEN NoHead ELSE heads[d]]
       ELSE UNCHANGED <<checkpoint, heads>>
    /\ UNCHANGED inserted

(* The owner gives up a head nobody absorbed for thirty days.  Age is      *)
(* abstracted: any head may have become stale.                             *)
DiscardStaleHead(d) ==
    /\ HasHead(d)
    /\ heads' = [heads EXCEPT ![d] = NoHead]
    /\ UNCHANGED <<checkpoint, inserted>>

(* Everything a device that opens the project can fetch from the server.   *)
Recoverable == checkpoint.ops \cup ListedOps
================================================================================
