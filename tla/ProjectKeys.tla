------------------------------- MODULE ProjectKeys -----------------------------
(***************************************************************************)
(* Membership, devices and key epochs of one shared project: the Convex    *)
(* tables (convex/projects.ts, devices.ts, heads.ts) and the key ring and  *)
(* security refresh of every device (src-tauri/src/collab/service.rs,      *)
(* crypto.rs).  Payloads are reduced to the key that seals them.           *)
(*                                                                         *)
(* A Convex mutation is one action.  A device's actor runs one command at  *)
(* a time; a command that refreshes the project's security is split at     *)
(* its awaits and `job' holds where it waits and what it carries.          *)
(***************************************************************************)
EXTENDS Naturals, FiniteSets

CONSTANTS
    Account,
    Owner,        \* the account that created the project
    Device,
    AccountOf,    \* Device -> Account
    NoKey,
    MaxEpoch,     \* bound: key epochs of one behaviour
    MaxChanges,   \* bound: membership and device changes
    MaxEdits,     \* bound: edits sealed
    MaxFaults     \* bound: commands that fail or are cut by a crash

ASSUME KeysAssumption ==
    /\ Owner \in Account
    /\ AccountOf \in [Device -> Account]
    /\ MaxEpoch \in Nat /\ MaxChanges \in Nat /\ MaxEdits \in Nat /\ MaxFaults \in Nat

VARIABLES
    role,              \* Account -> role of its projectMembers row, or "none"
    invited,           \* Account -> role of its projectInvites row, or "none"
    registered,        \* devices with a proved userDevices row
    revoked,           \* devices with a revokedDevices tombstone
    keyEpoch,          \* projects.keyEpoch
    rotationRequired,  \* projects.rotationRequired
    envelope,          \* Device -> keys wrapped for it in projectKeyEnvelopes
    heads,             \* Device -> its projectHeads row
    checkpoint,        \* the projectCheckpoints row
    stamps,            \* heads published so far: a (row id, revision) names one
    ring,              \* Device -> keys of its ring file
    outbox,            \* Device -> key that seals its pending envelope, or NoKey
    job,               \* Device -> where its actor's command waits
    drawn,             \* history: keys drawn so far
    leftAt,            \* history: Device -> committed epoch when it lost access
    changes, edits, faults

memberVars == <<role, invited, registered, revoked>>
keyVars == <<keyEpoch, rotationRequired, envelope>>
dataVars == <<heads, checkpoint, stamps>>
localVars == <<ring, outbox>>
bounds == <<changes, edits, faults>>
vars == <<memberVars, keyVars, dataVars, localVars, job, drawn, leftAt, bounds>>

(* A project key is random: `draw' tells apart what two calls of rotate()  *)
(* drew.  Wrapping and sealing bind the epoch it was drawn for.            *)
Key == [epoch : 1 .. MaxEpoch, draw : Nat]
ASSUME NoKeyAssumption == NoKey \notin Key

NoHead == [key |-> NoKey, stamp |-> 0]
NoCheckpoint == [key |-> NoKey, epoch |-> 0]
Idle == [at |-> "idle"]
Present == MaxEpoch + 1     \* leftAt of a device that did not lose access

HasRole(d, roles) == role[AccountOf[d]] \in roles
Writes(d) == HasRole(d, {"owner", "editor"})
IsMember(d) == ~HasRole(d, {"none"})
HasAccess(d) == IsMember(d) /\ d \in registered

(* crypto.rs: the ring's newest epoch, and the key kept under an epoch.    *)
Epochs(keys) == {k.epoch : k \in keys}
Current(keys) == IF keys = {} THEN 0
                 ELSE CHOOSE e \in Epochs(keys) : \A f \in Epochs(keys) : f <= e
KeyOf(keys, epoch) == CHOOSE k \in keys : k.epoch = epoch
CurrentKey(d) == KeyOf(ring[d], Current(ring[d]))
(* Mutation: a newly received epoch destroys the retired ones.             *)
InstallDropsRetired(keys, received) ==
    IF Current(received) > Current(keys) THEN received ELSE keys
Install(keys, received) == {k \in keys : k.epoch \notin Epochs(received)} \cup received

Init ==
    /\ role = [a \in Account |-> IF a = Owner THEN "owner" ELSE "none"]
    /\ invited = [a \in Account |-> "none"]
    /\ registered = {}
    /\ revoked = {}
    /\ keyEpoch = 0
    /\ rotationRequired = TRUE
    /\ envelope = [d \in Device |-> {}]
    /\ heads = [d \in Device |-> NoHead]
    /\ checkpoint = NoCheckpoint
    /\ stamps = 0
    /\ ring = [d \in Device |-> {}]
    /\ outbox = [d \in Device |-> NoKey]
    /\ job = [d \in Device |-> Idle]
    /\ drawn = 0
    /\ leftAt = [d \in Device |-> Present]
    /\ changes = 0 /\ edits = 0 /\ faults = 0

-----------------------------------------------------------------------------
(* Membership and devices.  A command of the owner's runs on one of the    *)
(* owner's devices, whose actor is free.                                   *)
OwnerCommand(d) == AccountOf[d] = Owner /\ d \in registered /\ job[d] = Idle

Change == changes < MaxChanges /\ changes' = changes + 1
SameExceptMembers ==
    UNCHANGED <<heads, checkpoint, stamps, ring, outbox, drawn, edits, faults>>

(* A project is shown as shared, and can be invited to, once its creation  *)
(* flushed a first checkpoint (src/lib/collab/session.ts).                 *)
Invite(d, a, r) ==
    /\ Change
    /\ OwnerCommand(d) /\ role[a] = "none" /\ checkpoint # NoCheckpoint
    /\ invited' = [invited EXCEPT ![a] = r]
    /\ UNCHANGED <<role, registered, revoked, keyVars, job, leftAt>> /\ SameExceptMembers

CancelInvite(d, a) ==
    /\ OwnerCommand(d) /\ invited[a] # "none"
    /\ invited' = [invited EXCEPT ![a] = "none"]
    /\ UNCHANGED <<role, registered, revoked, keyVars, job, leftAt, changes>> /\ SameExceptMembers

(* respondInvite, accepted before it expired (else the row is deleted).    *)
RespondInvite(a, accept) ==
    /\ invited[a] # "none"
    /\ role' = IF accept /\ role[a] = "none" THEN [role EXCEPT ![a] = invited[a]] ELSE role
    /\ invited' = [invited EXCEPT ![a] = "none"]
    /\ leftAt' = [d \in Device |->
                    IF role'[a] # "none" /\ AccountOf[d] = a /\ d \notin revoked
                    THEN Present ELSE leftAt[d]]
    /\ UNCHANGED <<registered, revoked, keyVars, job, changes>> /\ SameExceptMembers

(* registerDevice: a tombstoned identity is refused.                       *)
RegisterDevice(d) ==
    /\ d \notin registered \cup revoked
    /\ registered' = registered \cup {d}
    /\ UNCHANGED <<role, invited, revoked, keyVars, job, leftAt, changes>> /\ SameExceptMembers

(* What removal, departure and revocation share: the envelopes of the      *)
(* devices go, a rotation becomes due.                                     *)
CutOff(devices) ==
    /\ envelope' = [d \in Device |-> IF d \in devices THEN {} ELSE envelope[d]]
    /\ rotationRequired' = TRUE
    /\ leftAt' = [d \in Device |-> IF d \in devices /\ leftAt[d] = Present
                                   THEN keyEpoch ELSE leftAt[d]]
    /\ UNCHANGED keyEpoch

RegisteredOf(a) == {d \in registered : AccountOf[d] = a}

(* The RemoveMember command goes on into the security refresh.             *)
RemoveMember(d, a) ==
    /\ Change
    /\ OwnerCommand(d) /\ a # Owner /\ role[a] # "none"
    /\ role' = [role EXCEPT ![a] = "none"]
    /\ CutOff(RegisteredOf(a))
    /\ job' = [job EXCEPT ![d] = [at |-> "roster"]]
    /\ UNCHANGED <<invited, registered, revoked>> /\ SameExceptMembers

LeaveProject(a) ==
    /\ Change
    /\ a # Owner /\ role[a] # "none"
    /\ role' = [role EXCEPT ![a] = "none"]
    /\ CutOff(RegisteredOf(a))
    /\ UNCHANGED <<invited, registered, revoked, job>> /\ SameExceptMembers

SetMemberRole(d, a, next) ==
    /\ Change
    /\ OwnerCommand(d) /\ role[a] \in {"editor", "viewer"} \ {next}
    /\ role' = [role EXCEPT ![a] = next]
    /\ rotationRequired' = (rotationRequired \/ next = "viewer")
    /\ job' = [job EXCEPT ![d] = [at |-> "roster"]]
    /\ UNCHANGED <<invited, registered, revoked, keyEpoch, envelope, leftAt>> /\ SameExceptMembers

(* forgetDevice, called from another device d of the account.              *)
ForgetDevice(d, forgotten) ==
    /\ Change
    /\ d # forgotten /\ AccountOf[d] = AccountOf[forgotten]
    /\ d \in registered /\ job[d] = Idle
    /\ forgotten \in registered
    /\ registered' = registered \ {forgotten}
    /\ revoked' = revoked \cup {forgotten}
    /\ IF IsMember(forgotten) THEN CutOff({forgotten}) ELSE UNCHANGED <<keyVars, leftAt>>
    /\ job' = [job EXCEPT ![d] = IF IsMember(d) THEN [at |-> "roster"] ELSE Idle]
    /\ UNCHANGED <<role, invited>> /\ SameExceptMembers

-----------------------------------------------------------------------------
(* The security refresh: ConfigureAuth, Open, Publish, FlushCheckpoint and *)
(* the membership commands all run it.  A device forgotten since its       *)
(* session began still holds that session.                                 *)
JobOnly == UNCHANGED <<memberVars, keyVars, dataVars, localVars, drawn, leftAt, bounds>>
Goto(d, state) == job' = [job EXCEPT ![d] = state]

MemberDevices == {d \in registered : IsMember(d)}
Provisioned(d, epoch) == epoch \in Epochs(envelope[d])

LoadRoster(d) ==
    /\ job[d].at \in {"idle", "roster"}
    /\ d \in registered \cup revoked /\ IsMember(d)
    /\ Goto(d, [at |-> "install", role |-> role[AccountOf[d]], epoch |-> keyEpoch,
                rotation |-> rotationRequired, devices |-> MemberDevices,
                missing |-> \E e \in MemberDevices : ~Provisioned(e, keyEpoch)])
    /\ JobOnly

(* The query myKeyEnvelopes, then ensure_key_epoch up to its next await.   *)
Received(d) == IF HasAccess(d) THEN envelope[d] ELSE {}
Rotates(roster) == roster.role = "owner" /\ (roster.rotation \/ roster.epoch = 0)

(* ensure_key_epoch draws the next key of its own ring when the ring is    *)
(* behind the epoch to be committed.                                       *)
Draws(roster, keys) == Rotates(roster) /\ Current(keys) < roster.epoch + 1
NewKey(keys) == [epoch |-> Current(keys) + 1, draw |-> drawn + 1]

(* Mutations: a rotation that was cut short draws its key again; the new   *)
(* key replaces the current one in place.                                  *)
RotatedRingAgain(roster, keys) ==
    IF Rotates(roster)
    THEN Install(keys, {[epoch |-> roster.epoch + 1, draw |-> drawn + 1]})
    ELSE keys
RotatedRingInPlace(roster, keys) ==
    IF Draws(roster, keys)
    THEN Install(keys, {[epoch |-> Current(keys), draw |-> drawn + 1]})
    ELSE keys
RotatedRing(roster, keys) ==
    IF Draws(roster, keys) THEN Install(keys, {NewKey(keys)}) ELSE keys

(* Mutation: outside of a rotation no device is given the key.             *)
AfterInstallNoProvisioning(roster, keys) ==
    IF Rotates(roster)
    THEN IF Current(keys) # roster.epoch + 1 THEN Idle
         ELSE [at |-> "wrap", todo |-> roster.devices, commit |-> TRUE, epoch |-> roster.epoch]
    ELSE IF roster.rotation \/ keys = {} THEN Idle
    ELSE [at |-> "secured"]

AfterInstall(roster, keys) ==
    IF Rotates(roster)
    THEN IF Current(keys) # roster.epoch + 1 THEN Idle
         ELSE [at |-> "wrap", todo |-> roster.devices, commit |-> TRUE, epoch |-> roster.epoch]
    ELSE IF roster.rotation \/ keys = {} THEN Idle
    ELSE IF roster.missing /\ roster.role # "viewer"
    THEN [at |-> "wrap", todo |-> roster.devices, commit |-> FALSE, epoch |-> roster.epoch]
    ELSE [at |-> "secured"]

InstallEnvelopes(d) ==
    /\ job[d].at = "install"
    /\ Rotates(job[d]) => job[d].epoch < MaxEpoch
    /\ IF IsMember(d)
       THEN LET installed == Install(ring[d], Received(d))
                keys == RotatedRing(job[d], installed)
            IN  /\ ring' = [ring EXCEPT ![d] = keys]
                /\ drawn' = IF keys # installed THEN drawn + 1 ELSE drawn
                /\ Goto(d, AfterInstall(job[d], keys))
       ELSE Goto(d, Idle) /\ UNCHANGED <<ring, drawn>>
    /\ UNCHANGED <<memberVars, keyVars, dataVars, outbox, leftAt, bounds>>

(* Mutation: the recipient's membership is taken from the roster read      *)
(* before.                                                                 *)
MayWrapByRoster(d, e) ==
    /\ Writes(d)
    /\ IF rotationRequired
       THEN HasRole(d, {"owner"}) /\ Current(ring[d]) = keyEpoch + 1
       ELSE Current(ring[d]) = keyEpoch

(* putKeyEnvelope accepts the caller's current key for recipient e.        *)
MayWrap(d, e) ==
    /\ Writes(d) /\ HasAccess(e)
    /\ IF rotationRequired
       THEN HasRole(d, {"owner"}) /\ Current(ring[d]) = keyEpoch + 1
       ELSE Current(ring[d]) = keyEpoch

PutKeyEnvelope(d, e) ==
    /\ job[d].at = "wrap" /\ e \in job[d].todo
    /\ IF MayWrap(d, e)
       THEN /\ envelope' = [envelope EXCEPT ![e] =
                  IF Provisioned(e, Current(ring[d])) THEN @ ELSE @ \cup {CurrentKey(d)}]
            /\ Goto(d, [job[d] EXCEPT !.todo = @ \ {e}])
       ELSE Goto(d, Idle) /\ UNCHANGED envelope
    /\ UNCHANGED <<memberVars, keyEpoch, rotationRequired, dataVars, localVars, drawn, leftAt, bounds>>

(* commitKeyRotation, once every device of the roster was served.          *)
MayCommitRotation(d) ==
    /\ HasRole(d, {"owner"})
    /\ keyEpoch = job[d].epoch
    /\ \A e \in MemberDevices : Provisioned(e, keyEpoch + 1)

CommitKeyRotation(d) ==
    /\ job[d].at = "wrap" /\ job[d].todo = {} /\ job[d].commit
    /\ IF MayCommitRotation(d)
       THEN /\ keyEpoch' = keyEpoch + 1
            /\ rotationRequired' = FALSE
            /\ Goto(d, [at |-> "secured"])
       ELSE Goto(d, Idle) /\ UNCHANGED <<keyEpoch, rotationRequired>>
    /\ UNCHANGED <<memberVars, envelope, dataVars, localVars, drawn, leftAt, bounds>>

Distributed(d) ==
    /\ job[d].at = "wrap" /\ job[d].todo = {} /\ ~job[d].commit
    /\ Goto(d, [at |-> "secured"])
    /\ JobOnly

-----------------------------------------------------------------------------
(* Payloads.                                                               *)
Stored == {heads[d].key : d \in Device} \cup {checkpoint.key}
CanOpenAll(d) == Stored \ {NoKey} \subseteq ring[d]

(* Mutation: a pending envelope is left as it was sealed.                  *)
ResealedNever(d) == outbox[d]

(* enqueue_current_state seals a pending branch again under the ring's     *)
(* current key.                                                            *)
Resealed(d) == IF outbox[d] # NoKey /\ Writes(d) THEN CurrentKey(d) ELSE outbox[d]

(* checkpoint_needs_rekey.                                                 *)
NeedsRekey(d) == checkpoint # NoCheckpoint /\ checkpoint.key.epoch # Current(ring[d])

(* The end of refresh_project_security: recover_from_convex, then          *)
(* reconcile_checkpoint_key, then the caller's enqueue_current_state.      *)
Recover(d) ==
    /\ job[d].at = "secured"
    /\ IF ~IsMember(d) \/ ~CanOpenAll(d)
       THEN Goto(d, Idle) /\ UNCHANGED outbox
       ELSE IF NeedsRekey(d) /\ Writes(d)
       THEN Goto(d, [at |-> "compact", tries |-> 3, reseal |-> TRUE]) /\ UNCHANGED outbox
       ELSE Goto(d, Idle) /\ outbox' = [outbox EXCEPT ![d] = Resealed(d)]
    /\ UNCHANGED <<memberVars, keyVars, dataVars, ring, drawn, leftAt, bounds>>

(* compact_remote_set: read, open and reseal everything stored.            *)
NothingToCompact(d) ==
    checkpoint # NoCheckpoint /\ ~NeedsRekey(d) /\ \A e \in Device : heads[e] = NoHead

ReadRemoteSet(d) ==
    /\ job[d].at = "compact"
    /\ Goto(d, IF Writes(d) /\ CanOpenAll(d) /\ ~NothingToCompact(d)
               THEN [at |-> "commit", epoch |-> checkpoint.epoch, rows |-> heads,
                     key |-> CurrentKey(d), tries |-> job[d].tries, reseal |-> job[d].reseal]
               ELSE Idle)
    /\ JobOnly

(* requireCurrentHeader, for a proved device of a writer.                  *)
Accepts(d, key) ==
    /\ Writes(d) /\ d \in registered
    /\ ~rotationRequired /\ key.epoch = keyEpoch

CasMatches(d) ==
    /\ checkpoint.epoch = job[d].epoch
    /\ \A e \in Device : job[d].rows[e] # NoHead => heads[e] = job[d].rows[e]

(* commitCheckpoint prunes every envelope older than the sealing epoch.    *)
CommitCheckpoint(d) ==
    /\ job[d].at = "commit"
    /\ IF Accepts(d, job[d].key) /\ CasMatches(d)
       THEN /\ checkpoint' = [key |-> job[d].key, epoch |-> checkpoint.epoch + 1]
            /\ heads' = [e \in Device |-> IF job[d].rows[e] # NoHead THEN NoHead ELSE heads[e]]
            /\ envelope' = [e \in Device |->
                              {k \in envelope[e] : k.epoch >= job[d].key.epoch}]
            /\ outbox' = [outbox EXCEPT ![d] = IF job[d].reseal THEN Resealed(d) ELSE @]
            /\ Goto(d, Idle)
       ELSE /\ Goto(d, IF Accepts(d, job[d].key) /\ job[d].tries > 1
                       THEN [at |-> "compact", tries |-> job[d].tries - 1,
                             reseal |-> job[d].reseal]
                       ELSE Idle)
            /\ UNCHANGED <<checkpoint, heads, envelope, outbox>>
    /\ UNCHANGED <<memberVars, keyEpoch, rotationRequired, stamps, ring, drawn, leftAt, bounds>>

Edit(d) ==
    /\ edits < MaxEdits /\ edits' = edits + 1
    /\ Writes(d) /\ job[d] = Idle /\ ring[d] # {}
    /\ outbox' = [outbox EXCEPT ![d] = CurrentKey(d)]
    /\ UNCHANGED <<memberVars, keyVars, dataVars, ring, job, drawn, leftAt, changes, faults>>

(* The end of the Publish and FlushCheckpoint commands: publish_latest,    *)
(* then a compaction, which Publish leaves out below its thresholds.  A    *)
(* flush seals the branch again first.  A refused envelope stays pending.  *)
PublishLatest(d, flush) ==
    LET key == IF flush THEN Resealed(d) ELSE outbox[d]
        compaction == [at |-> "compact", tries |-> IF flush THEN 3 ELSE 1, reseal |-> FALSE]
    IN  /\ job[d].at = "secured"
        /\ IF key = NoKey \/ Accepts(d, key)
           THEN \E next \in {compaction} \cup (IF flush THEN {} ELSE {Idle}) : Goto(d, next)
           ELSE Goto(d, Idle)
        /\ IF key # NoKey /\ Accepts(d, key)
           THEN /\ heads' = [heads EXCEPT ![d] = [key |-> key, stamp |-> stamps + 1]]
                /\ stamps' = stamps + 1
                /\ outbox' = [outbox EXCEPT ![d] = NoKey]
           ELSE outbox' = [outbox EXCEPT ![d] = key] /\ UNCHANGED <<heads, stamps>>
        /\ UNCHANGED <<memberVars, keyVars, checkpoint, ring, drawn, leftAt, bounds>>

DiscardStaleHead(d) ==
    /\ heads[d] # NoHead
    /\ heads' = [heads EXCEPT ![d] = NoHead]
    /\ UNCHANGED <<memberVars, keyVars, checkpoint, stamps, localVars, job, drawn, leftAt, bounds>>

(* A request fails, or the process dies: the command is gone, the ring and *)
(* the outbox are on disk.                                                 *)
Fail(d) ==
    /\ faults < MaxFaults /\ faults' = faults + 1
    /\ job[d] # Idle
    /\ Goto(d, Idle)
    /\ UNCHANGED <<memberVars, keyVars, dataVars, localVars, drawn, leftAt, changes, edits>>

RefreshStep(d) ==
    \/ LoadRoster(d) \/ InstallEnvelopes(d)
    \/ \E e \in Device : PutKeyEnvelope(d, e)
    \/ CommitKeyRotation(d) \/ Distributed(d)
    \/ Recover(d) \/ \E flush \in BOOLEAN : PublishLatest(d, flush)
    \/ ReadRemoteSet(d) \/ CommitCheckpoint(d)

MemberStep(d, a) ==
    \/ \E r \in {"editor", "viewer"} : Invite(d, a, r) \/ SetMemberRole(d, a, r)
    \/ CancelInvite(d, a) \/ RemoveMember(d, a)

Next ==
    \/ \E d \in Device :
          \/ RegisterDevice(d) \/ \E e \in Device : ForgetDevice(d, e)
          \/ RefreshStep(d) \/ Edit(d) \/ DiscardStaleHead(d) \/ Fail(d)
          \/ \E a \in Account : MemberStep(d, a)
    \/ \E a \in Account : LeaveProject(a) \/ \E accept \in BOOLEAN : RespondInvite(a, accept)

Spec == Init /\ [][Next]_vars

(* A device registers when its account connects, and every connected       *)
(* device runs its commands; the renewed token brings a full refresh again *)
(* and again, and a scheduled publication is served between the others.    *)
Fairness ==
    \A d \in Device :
        /\ WF_vars(RegisterDevice(d)) /\ WF_vars(RefreshStep(d))
        /\ SF_vars(Recover(d)) /\ SF_vars(outbox[d] # NoKey /\ PublishLatest(d, FALSE))

FairSpec == Spec /\ Fairness

-----------------------------------------------------------------------------
MaybeKey == Key \cup {NoKey}
Row == [key : MaybeKey, stamp : Nat]
Role == {"owner", "editor", "viewer", "none"}
Job ==
    {Idle, [at |-> "roster"], [at |-> "secured"]}
    \cup [at : {"install"}, role : Role, epoch : Nat, rotation : BOOLEAN,
          devices : SUBSET Device, missing : BOOLEAN]
    \cup [at : {"wrap"}, todo : SUBSET Device, commit : BOOLEAN, epoch : Nat]
    \cup [at : {"compact"}, tries : 1 .. 3, reseal : BOOLEAN]
    \cup [at : {"commit"}, epoch : Nat, rows : [Device -> Row], key : Key,
          tries : 1 .. 3, reseal : BOOLEAN]

(* Every variable stays in its range.                                      *)
TypeOK ==
    /\ role \in [Account -> Role]
    /\ invited \in [Account -> Role]
    /\ registered \subseteq Device /\ revoked \subseteq Device
    /\ keyEpoch \in Nat /\ rotationRequired \in BOOLEAN
    /\ envelope \in [Device -> SUBSET Key]
    /\ heads \in [Device -> Row]
    /\ checkpoint \in [key : MaybeKey, epoch : Nat]
    /\ stamps \in Nat
    /\ ring \in [Device -> SUBSET Key]
    /\ outbox \in [Device -> MaybeKey]
    /\ job \in [Device -> Job]
    /\ drawn \in Nat /\ leftAt \in [Device -> Nat]
    /\ changes \in Nat /\ edits \in Nat /\ faults \in Nat

(* An epoch has one key wherever it is kept, wrapped or used, whatever     *)
(* rotations were cut short and taken up again (collab.md: "Project        *)
(* content uses a random 32-byte key per epoch").                          *)
KeysInUse ==
    (UNION {ring[d] \cup envelope[d] : d \in Device})
    \cup ((Stored \cup {outbox[d] : d \in Device}) \ {NoKey})
OneKeyPerEpoch == \A k, l \in KeysInUse : k.epoch = l.epoch => k = l

(* What the server stores of one epoch is sealed under one key (the same   *)
(* sentence, of the content alone).                                        *)
OneContentKeyPerEpoch == \A k, l \in Stored \ {NoKey} : k.epoch = l.epoch => k = l

(* Only devices that have access now have an envelope on the server,       *)
(* whatever distribution was under way when one lost it (projects.ts       *)
(* removeMember, leaveProject, devices.ts forgetDevice, putKeyEnvelope).   *)
EnvelopesOnlyForMembers == \A d \in Device : envelope[d] # {} => HasAccess(d)

(* No ring runs further ahead of the project than the rotation it waits    *)
(* for: the refusal "local key epoch is ahead of the server rotation" of   *)
(* ensure_key_epoch never blocks an owner device for good.                 *)
RingAtMostOneAhead ==
    \A d \in Device :
        /\ Current(ring[d]) <= keyEpoch + 1
        /\ Current(ring[d]) = keyEpoch + 1 => rotationRequired

(* No stored head is sealed under an older epoch than the checkpoint: the  *)
(* envelopes commitCheckpoint prunes are not needed by anything left       *)
(* (heads.ts isObsoleteEnvelopeEpoch).                                     *)
PrunedKeysAreUnused ==
    checkpoint # NoCheckpoint =>
        \A d \in Device : heads[d] # NoHead => heads[d].key.epoch >= checkpoint.key.epoch

(* Some device with access can open everything the server stores with the  *)
(* keys it kept (crypto.rs rotate: "Retired epochs are KEPT").             *)
SomeoneCanOpenAll ==
    Stored # {NoKey} =>
        \E d \in Device : HasAccess(d) /\ CanOpenAll(d)

(* Whatever rotations are cut short and taken up again, an epoch has one   *)
(* key, and no ring waits for a rotation that is not due.                  *)
KeysAreDrawnOnce == OneKeyPerEpoch /\ RingAtMostOneAhead

(* What is stored stays readable: to a device with its retired keys, and   *)
(* to new devices with the envelopes left by pruning.                      *)
StoredStaysReadable == PrunedKeysAreUnused /\ SomeoneCanOpenAll

(* A device that lost access never holds the key of an epoch committed     *)
(* afterwards (collab.md: it "cannot obtain the new epoch").               *)
RemovedLacksNewEpoch ==
    \A d \in Device : leftAt[d] \in 1 .. MaxEpoch =>
        \A k \in ring[d] : k.epoch > leftAt[d] => k.epoch > keyEpoch

(* A rotation that became due is completed in the end, whatever devices    *)
(* came and went while the owner distributed the new key.                  *)
RotationCompletes == rotationRequired ~> ~rotationRequired

(* A device that is given access gets what it needs to open everything     *)
(* stored, rotations in between included, unless it loses the access again *)
(* (collab.md: "Opening a project imports the checkpoint and every head"). *)
NewDevicesCanRecover ==
    \A d \in Device : HasAccess(d) ~> (~HasAccess(d) \/ (ring[d] # {} /\ CanOpenAll(d)))

(* Whoever is given access can work in the end: no rotation hangs, and no   *)
(* new device is left without a key.                                        *)
DevicesGetTheirKeys == RotationCompletes /\ NewDevicesCanRecover

(* A pending edit is published in the end: a rotation that overtakes it    *)
(* does not strand it under the old key.                                   *)
EditsArePublished ==
    \A d \in Device :
        (outbox[d] # NoKey) ~> (outbox[d] = NoKey \/ ~Writes(d) \/ d \notin registered)
================================================================================
