---------------------------- MODULE ProjectKeys_proofs -------------------------
(***************************************************************************)
(* What is proved of ProjectKeys for every set of accounts and devices and *)
(* every bound: the types, and that only devices with access have          *)
(* envelopes.  For an owner with one device the argument about the keys    *)
(* follows that device: only it rotates, what it read of the rotation      *)
(* stays true until it acts on it, and every key there is was drawn by it  *)
(* and is kept in its ring, one for each epoch and none beyond the         *)
(* rotation that is due.  What the server accepts is then sealed under the *)
(* newest key of that ring, so neither a checkpoint nor the pruning that   *)
(* goes with it leaves anything behind that is older.                      *)
(***************************************************************************)
EXTENDS ProjectKeys, WellFoundedInduction, TLAPS

(* The facts the types need: before the first rotation is committed one is *)
(* due, and whoever distributes, seals or has sealed a key holds one.      *)
RingsAreFilled ==
    /\ keyEpoch = 0 => rotationRequired
    /\ \A d \in Device :
          \/ job[d].at \in {"wrap", "secured", "compact", "commit"}
          \/ outbox[d] # NoKey
          => ring[d] # {}

TypeInv == TypeOK /\ RingsAreFilled

(* With one device o of the owner.                                         *)
OneOwner(o) == o \in Device /\ \A d \in Device : AccountOf[d] = Owner <=> d = o

OwnerStays(o) ==
    /\ \A a \in Account : role[a] = "owner" <=> a = Owner
    /\ \A a \in Account : invited[a] # "owner"
    /\ o \notin revoked
    /\ ring[o] # {} \/ job[o] # Idle => o \in registered

(* Every key was drawn by o, which keeps it.                               *)
KeysAreOwners(o) ==
    /\ \A d \in Device : ring[d] \subseteq ring[o] /\ envelope[d] \subseteq ring[o]
    /\ \A d \in Device : heads[d].key \in ring[o] \cup {NoKey} /\ outbox[d] \in ring[o] \cup {NoKey}
    /\ checkpoint.key \in ring[o] \cup {NoKey}
    /\ \A d \in Device : job[d].at = "commit" => job[d].key \in ring[o]
    /\ \A k, l \in ring[o] : k.epoch = l.epoch => k = l
    /\ \A k \in ring[o] : k.epoch <= keyEpoch \/ (rotationRequired /\ k.epoch = keyEpoch + 1)

(* Only o rotates, and what it read of the rotation stays true meanwhile.  *)
RostersAreRight(o) ==
    /\ \A d \in Device : job[d].at = "install" /\ job[d].role = "owner" => d = o
    /\ job[o].at = "install" =>
          job[o].epoch = keyEpoch /\ (job[o].rotation => rotationRequired)

(* What a compaction replaces nothing of is not older than its key.        *)
RowsAreNotOlder ==
    /\ \A d \in Device : heads[d] # NoHead => heads[d].key # NoKey
    /\ checkpoint # NoCheckpoint => checkpoint.key # NoKey
    /\ \A d, e \in Device :
          job[d].at = "commit" /\ heads[e] # NoHead /\ job[d].rows[e] = NoHead
             => heads[e].key.epoch >= job[d].key.epoch

KeysInv(o) ==
    TypeInv /\ OwnerStays(o) /\ KeysAreOwners(o) /\ RostersAreRight(o)
    /\ RowsAreNotOlder /\ PrunedKeysAreUnused

(* The newest epoch of a ring is the epoch of one of its keys.             *)
LEMMA HighestEpoch ==
  ASSUME NEW keys \in SUBSET Key, keys # {}
  PROVE  /\ Current(keys) \in Epochs(keys)
         /\ \A k \in keys : k.epoch <= Current(keys)
<1> DEFINE S == {MaxEpoch - k.epoch : k \in keys}
<1>0. MaxEpoch \in Nat /\ \A k \in keys : k.epoch \in 1 .. MaxEpoch
  BY KeysAssumption DEF Key
<1>1. S \subseteq Nat /\ S # {}
  BY <1>0
<1>2. PICK n \in S : \A m \in S : n <= m
  <2> DEFINE R == OpToRel(<, Nat)
  <2>1. IsWellFoundedOn(R, Nat)
    BY NatLessThanWellFounded
  <2>2. \A x, y \in Nat : x < y => <<x, y>> \in R
    BY DEF OpToRel
  <2> HIDE DEF S, R
  <2>3. PICK x \in S : \A y \in S : ~ <<y, x>> \in R
    BY <1>1, <2>1, WFMin
  <2>4. \A y \in S : y \in Nat /\ x \in Nat /\ ~ (y < x)
    BY <1>1, <2>2, <2>3
  <2>5. \A y \in S : x <= y
    BY <2>4
  <2> QED BY <2>5
<1>3. PICK k \in keys : n = MaxEpoch - k.epoch
  BY <1>2
<1>4. k.epoch \in Epochs(keys) /\ \A f \in Epochs(keys) : f <= k.epoch
  BY <1>0, <1>2, <1>3 DEF Epochs
<1>5. Current(keys) \in Epochs(keys) /\ \A f \in Epochs(keys) : f <= Current(keys)
  BY <1>4 DEF Current
<1> QED BY <1>5 DEF Epochs

(* What the place of a job says of its other fields.                       *)
LEMMA JobFields ==
    ASSUME NEW j \in Job
    PROVE  /\ j.at = "install" => /\ j.role \in Role /\ j.epoch \in Nat /\ j.rotation \in BOOLEAN
                                 /\ j.devices \in SUBSET Device /\ j.missing \in BOOLEAN
           /\ j.at = "wrap" => /\ j.todo \in SUBSET Device /\ j.commit \in BOOLEAN /\ j.epoch \in Nat
                              /\ j = [at |-> "wrap", todo |-> j.todo, commit |-> j.commit, epoch |-> j.epoch]
           /\ j.at = "compact" => j.tries \in 1 .. 3 /\ j.reseal \in BOOLEAN
           /\ j.at = "commit" => /\ j.epoch \in Nat /\ j.rows \in [Device -> Row] /\ j.key \in Key
                                /\ j.tries \in 1 .. 3 /\ j.reseal \in BOOLEAN
BY DEF Job, Idle

(* The current key of a ring that has one is in it.                        *)
LEMMA CurrentKeyIsHeld ==
    ASSUME TypeOK, NEW d \in Device, ring[d] # {}
    PROVE  CurrentKey(d) \in ring[d] /\ CurrentKey(d) \in Key
           /\ CurrentKey(d).epoch = Current(ring[d])
<1>1. ring[d] \in SUBSET Key
  BY DEF TypeOK
<1>2. \E k \in ring[d] : k.epoch = Current(ring[d])
  BY <1>1, HighestEpoch DEF Epochs
<1>3. CurrentKey(d) \in ring[d] /\ CurrentKey(d).epoch = Current(ring[d])
  BY <1>2 DEF CurrentKey, KeyOf
<1> QED BY <1>1, <1>3

(* Sealing again yields a key, or leaves nothing pending.                  *)
LEMMA ResealedType ==
    ASSUME TypeInv, NEW d \in Device
    PROVE  Resealed(d) \in MaybeKey
<1> USE DEF TypeInv, RingsAreFilled
<1>1. CASE outbox[d] # NoKey
  BY <1>1, CurrentKeyIsHeld DEF Resealed, TypeOK, MaybeKey
<1>2. CASE outbox[d] = NoKey
  BY <1>2 DEF Resealed, MaybeKey
<1> QED BY <1>1, <1>2

(* The places a command comes to.                                          *)
LEMMA JobMade ==
    /\ Idle \in Job /\ [at |-> "roster"] \in Job /\ [at |-> "secured"] \in Job
    /\ \A r \in Role, n \in Nat, x, y \in BOOLEAN, S \in SUBSET Device :
          [at |-> "install", role |-> r, epoch |-> n, rotation |-> x, devices |-> S, missing |-> y] \in Job
    /\ \A S \in SUBSET Device, x \in BOOLEAN, n \in Nat :
          [at |-> "wrap", todo |-> S, commit |-> x, epoch |-> n] \in Job
    /\ \A n \in 1 .. 3, x \in BOOLEAN : [at |-> "compact", tries |-> n, reseal |-> x] \in Job
    /\ \A m \in Nat, rows \in [Device -> Row], k \in Key, n \in 1 .. 3, x \in BOOLEAN :
          [at |-> "commit", epoch |-> m, rows |-> rows, key |-> k, tries |-> n, reseal |-> x] \in Job
BY DEF Job

(* The compactions Recover and PublishLatest begin.                        *)
LEMMA CompactionsAreJobs ==
    /\ [at |-> "compact", tries |-> 3, reseal |-> TRUE] \in Job
    /\ \A f \in BOOLEAN : [at |-> "compact", tries |-> IF f THEN 3 ELSE 1, reseal |-> FALSE] \in Job
BY DEF Job

(* Serving one device leaves a distribution a distribution.                *)
LEMMA StillWraps ==
    ASSUME NEW j \in Job, j.at = "wrap", NEW e
    PROVE  [j EXCEPT !.todo = @ \ {e}] \in Job /\ [j EXCEPT !.todo = @ \ {e}].at = "wrap"
BY DEF Job, Idle

LEMMA JobGoes ==
    ASSUME job \in [Device -> Job], NEW d \in Device, NEW j \in Job, Goto(d, j)
    PROVE  job' \in [Device -> Job]
BY DEF Goto

(* A key is drawn within the bound on epochs.                              *)
LEMMA DrawnRingType ==
    ASSUME NEW r, NEW keys \in SUBSET Key, drawn \in Nat, r.epoch \in Nat,
           Rotates(r) => r.epoch < MaxEpoch
    PROVE  RotatedRing(r, keys) \subseteq Key
<1>1. CASE Draws(r, keys)
  <2>1. Current(keys) \in Nat
    <3>1. CASE keys = {}
      BY <3>1 DEF Current
    <3>2. CASE keys # {}
      <4>1. \E k \in keys : k.epoch = Current(keys)
        BY <3>2, HighestEpoch DEF Epochs
      <4> QED BY <4>1, KeysAssumption DEF Key
    <3> QED BY <3>1, <3>2
  <2>2. NewKey(keys) \in Key
    BY <1>1, <2>1, KeysAssumption DEF Draws, NewKey, Key
  <2> QED BY <1>1, <2>2 DEF RotatedRing, Install
<1>2. CASE ~Draws(r, keys)
  BY <1>2 DEF RotatedRing
<1> QED BY <1>1, <1>2

LEMMA AfterInstallType ==
    ASSUME NEW r \in Job, r.at = "install", NEW keys
    PROVE  AfterInstall(r, keys) \in Job
BY JobFields, JobMade DEF AfterInstall

(* Every step keeps the types.                                             *)
LEMMA TypesStep ==
    ASSUME TypeInv, Next
    PROVE  TypeOK'
<1> USE DEF TypeInv, TypeOK, memberVars, keyVars, dataVars, localVars, bounds,
        JobOnly, SameExceptMembers, Change
<1>0. KeysAssumption
  BY KeysAssumption
<1>1. ASSUME NEW d \in Device, RegisterDevice(d) PROVE TypeOK'
  BY <1>1 DEF RegisterDevice
<1>2. ASSUME NEW d \in Device, NEW e \in Device, ForgetDevice(d, e) PROVE TypeOK'
  <2>1. job' \in [Device -> Job]
    BY <1>2, JobMade DEF ForgetDevice
  <2>2. (keyVars' = keyVars /\ leftAt' = leftAt) \/ CutOff({e})
    BY <1>2 DEF ForgetDevice
  <2>3. envelope' \in [Device -> SUBSET Key] /\ rotationRequired' \in BOOLEAN /\ keyEpoch' \in Nat
        /\ leftAt' \in [Device -> Nat]
    BY <2>2 DEF CutOff
  <2>4. registered' \subseteq Device /\ revoked' \subseteq Device
    BY <1>2 DEF ForgetDevice
  <2> QED BY <1>2, <2>1, <2>3, <2>4 DEF ForgetDevice
<1>3. ASSUME NEW d \in Device, LoadRoster(d) PROVE TypeOK'
  <2>1. role[AccountOf[d]] \in Role /\ MemberDevices \in SUBSET Device
    BY <1>0 DEF KeysAssumption, MemberDevices, Role
  <2>2. (\E x \in MemberDevices : ~Provisioned(x, keyEpoch)) \in BOOLEAN
    OBVIOUS
  <2>3. job' \in [Device -> Job]
    BY <1>3, <2>1, <2>2, JobMade, JobGoes DEF LoadRoster
  <2> QED BY <1>3, <2>3 DEF LoadRoster
<1>4. ASSUME NEW d \in Device, InstallEnvelopes(d) PROVE TypeOK'
  <2> DEFINE installed == Install(ring[d], Received(d))
             keys == RotatedRing(job[d], installed)
  <2>1. installed \subseteq Key
    BY DEF Install, Received
  <2>2. CASE ~IsMember(d)
    <3>1. job' \in [Device -> Job]
      BY <1>4, <2>2, JobMade, JobGoes DEF InstallEnvelopes, IsMember, HasRole
    <3> QED BY <1>4, <2>2, <3>1 DEF InstallEnvelopes, IsMember, HasRole
  <2>3. CASE IsMember(d)
    <3>1. ring' = [ring EXCEPT ![d] = keys] /\ drawn' = (IF keys # installed THEN drawn + 1 ELSE drawn)
          /\ Goto(d, AfterInstall(job[d], keys))
      BY <1>4, <2>3 DEF InstallEnvelopes
    <3>2. keys \subseteq Key
      <4>1. job[d].epoch \in Nat /\ (Rotates(job[d]) => job[d].epoch < MaxEpoch)
        BY <1>4, JobFields DEF InstallEnvelopes
      <4> QED BY <2>1, <4>1, DrawnRingType
    <3>3. AfterInstall(job[d], keys) \in Job
      BY <1>4, AfterInstallType DEF InstallEnvelopes
    <3>4. ring' \in [Device -> SUBSET Key] /\ drawn' \in Nat
      BY <3>1, <3>2
    <3>5. job' \in [Device -> Job]
      BY <3>1, <3>3, JobGoes
    <3> QED BY <1>4, <3>4, <3>5 DEF InstallEnvelopes
  <2> QED BY <2>2, <2>3
<1>5. ASSUME NEW d \in Device, NEW e \in Device, PutKeyEnvelope(d, e) PROVE TypeOK'
  <2>1. job[d] \in Job /\ job[d].at = "wrap" /\ ring[d] # {}
    BY <1>5 DEF PutKeyEnvelope, RingsAreFilled
  <2>2. CurrentKey(d) \in Key
    BY <2>1, CurrentKeyIsHeld
  <2>3. [job[d] EXCEPT !.todo = @ \ {e}] \in Job
    BY <2>1, StillWraps
  <2>4. job' \in [Device -> Job]
    BY <1>5, <2>3, JobMade, JobGoes DEF PutKeyEnvelope
  <2>5. envelope' \in [Device -> SUBSET Key]
    BY <1>5, <2>2 DEF PutKeyEnvelope
  <2> QED BY <1>5, <2>4, <2>5 DEF PutKeyEnvelope
<1>6. ASSUME NEW d \in Device, CommitKeyRotation(d) PROVE TypeOK'
  <2>1. job' \in [Device -> Job]
    BY <1>6, JobMade, JobGoes DEF CommitKeyRotation
  <2>2. keyEpoch' \in Nat
    BY <1>6 DEF CommitKeyRotation
  <2>3. rotationRequired' \in BOOLEAN
    BY <1>6 DEF CommitKeyRotation
  <2> QED BY <1>6, <2>1, <2>2, <2>3 DEF CommitKeyRotation
<1>7. ASSUME NEW d \in Device, Distributed(d) PROVE TypeOK'
  <2>1. job' \in [Device -> Job]
    BY <1>7, JobMade, JobGoes DEF Distributed
  <2> QED BY <1>7, <2>1 DEF Distributed
<1>8. ASSUME NEW d \in Device, Recover(d) PROVE TypeOK'
  <2>1. job' \in [Device -> Job]
    <3>1. \E j \in Job : Goto(d, j)
      <4>1. [at |-> "compact", tries |-> 3, reseal |-> TRUE] \in Job /\ Idle \in Job
        BY JobMade, CompactionsAreJobs
      <4> QED BY <1>8, <4>1 DEF Recover
    <3> QED BY <3>1, JobGoes
  <2>2. outbox' \in [Device -> MaybeKey]
    BY <1>8, ResealedType DEF Recover
  <2> QED BY <1>8, <2>1, <2>2 DEF Recover
<1>9. ASSUME NEW d \in Device, NEW f \in BOOLEAN, PublishLatest(d, f) PROVE TypeOK'
  <2> DEFINE key == IF f THEN Resealed(d) ELSE outbox[d]
  <2>1. key \in MaybeKey
    BY ResealedType
  <2>2. \E j \in Job : Goto(d, j)
    <3>1. [at |-> "compact", tries |-> IF f THEN 3 ELSE 1, reseal |-> FALSE] \in Job /\ Idle \in Job
      BY JobMade, CompactionsAreJobs
    <3> QED BY <1>9, <3>1 DEF PublishLatest
  <2>3. job' \in [Device -> Job]
    BY <2>2, JobGoes
  <2>4. CASE key # NoKey /\ Accepts(d, key)
    <3>1. [key |-> key, stamp |-> stamps + 1] \in Row
      BY <2>1 DEF Row
    <3>2. heads' = [heads EXCEPT ![d] = [key |-> key, stamp |-> stamps + 1]] /\ stamps' = stamps + 1
          /\ outbox' = [outbox EXCEPT ![d] = NoKey]
      BY <1>9, <2>4 DEF PublishLatest
    <3>3. heads' \in [Device -> Row] /\ stamps' \in Nat /\ outbox' \in [Device -> MaybeKey]
      BY <3>1, <3>2 DEF MaybeKey
    <3> QED BY <1>9, <2>3, <3>3 DEF PublishLatest
  <2>5. CASE ~(key # NoKey /\ Accepts(d, key))
    <3>1. outbox' \in [Device -> MaybeKey] /\ heads' = heads /\ stamps' = stamps
      BY <1>9, <2>1, <2>5 DEF PublishLatest
    <3> QED BY <1>9, <2>3, <3>1 DEF PublishLatest
  <2> QED BY <2>4, <2>5
<1>10. ASSUME NEW d \in Device, ReadRemoteSet(d) PROVE TypeOK'
  <2>1. job[d] \in Job /\ job[d].at = "compact" /\ ring[d] # {}
    BY <1>10 DEF ReadRemoteSet, RingsAreFilled
  <2>2. CurrentKey(d) \in Key /\ job[d].tries \in 1 .. 3 /\ job[d].reseal \in BOOLEAN
        /\ checkpoint.epoch \in Nat
    BY <2>1, CurrentKeyIsHeld, JobFields
  <2>3. \E j \in Job : Goto(d, j)
    BY <1>10, <2>2, JobMade DEF ReadRemoteSet
  <2>4. job' \in [Device -> Job]
    BY <2>3, JobGoes
  <2> QED BY <1>10, <2>4 DEF ReadRemoteSet
<1>11. ASSUME NEW d \in Device, CommitCheckpoint(d) PROVE TypeOK'
  <2>1. job[d] \in Job /\ job[d].at = "commit"
    BY <1>11 DEF CommitCheckpoint
  <2>2. job[d].tries \in 1 .. 3 /\ job[d].reseal \in BOOLEAN /\ job[d].key \in Key
    BY <2>1, JobFields
  <2>3. \E j \in Job : Goto(d, j)
    <3>1. CASE Accepts(d, job[d].key) /\ CasMatches(d)
      BY <1>11, <3>1, JobMade DEF CommitCheckpoint
    <3>2. CASE ~(Accepts(d, job[d].key) /\ CasMatches(d))
      <4>1. job[d].tries > 1 => job[d].tries - 1 \in 1 .. 3
        BY <2>2
      <4> QED BY <1>11, <2>2, <3>2, <4>1, JobMade DEF CommitCheckpoint
    <3> QED BY <3>1, <3>2
  <2>4. job' \in [Device -> Job]
    BY <2>3, JobGoes
  <2>5. outbox' \in [Device -> MaybeKey]
    BY <1>11, ResealedType DEF CommitCheckpoint
  <2>6. NoHead \in Row
    BY DEF NoHead, Row, MaybeKey
  <2>7. heads' \in [Device -> Row] /\ envelope' \in [Device -> SUBSET Key]
    BY <1>11, <2>6 DEF CommitCheckpoint
  <2>8. checkpoint' \in [key : MaybeKey, epoch : Nat]
    BY <1>11, <2>2 DEF CommitCheckpoint, MaybeKey
  <2> QED BY <1>11, <2>4, <2>5, <2>7, <2>8 DEF CommitCheckpoint
<1>12. ASSUME NEW d \in Device, Edit(d) PROVE TypeOK'
  <2>1. outbox' \in [Device -> MaybeKey]
    BY <1>12, CurrentKeyIsHeld DEF Edit, MaybeKey
  <2> QED BY <1>12, <2>1 DEF Edit
<1>13. ASSUME NEW d \in Device, DiscardStaleHead(d) PROVE TypeOK'
  <2>1. heads' \in [Device -> Row]
    BY <1>13 DEF DiscardStaleHead, NoHead, Row, MaybeKey
  <2> QED BY <1>13, <2>1 DEF DiscardStaleHead
<1>14. ASSUME NEW d \in Device, Fail(d) PROVE TypeOK'
  <2>1. job' \in [Device -> Job]
    BY <1>14, JobMade, JobGoes DEF Fail
  <2> QED BY <1>14, <2>1 DEF Fail
<1>15. ASSUME NEW d \in Device, NEW a \in Account, NEW r \in {"editor", "viewer"}, Invite(d, a, r)
       PROVE  TypeOK'
  <2>1. invited' \in [Account -> Role]
    BY <1>15 DEF Invite, Role
  <2> QED BY <1>15, <2>1 DEF Invite
<1>16. ASSUME NEW d \in Device, NEW a \in Account, NEW r \in {"editor", "viewer"}, SetMemberRole(d, a, r)
       PROVE  TypeOK'
  <2>1. job' \in [Device -> Job]
    BY <1>16, JobMade DEF SetMemberRole
  <2>2. role' \in [Account -> Role] /\ rotationRequired' \in BOOLEAN
    BY <1>16 DEF SetMemberRole, Role
  <2> QED BY <1>16, <2>1, <2>2 DEF SetMemberRole
<1>17. ASSUME NEW d \in Device, NEW a \in Account, CancelInvite(d, a) PROVE TypeOK'
  <2>1. invited' \in [Account -> Role]
    BY <1>17 DEF CancelInvite, Role
  <2> QED BY <1>17, <2>1 DEF CancelInvite
<1>18. ASSUME NEW d \in Device, NEW a \in Account, RemoveMember(d, a) PROVE TypeOK'
  <2>1. job' \in [Device -> Job]
    BY <1>18, JobMade DEF RemoveMember
  <2>2. role' \in [Account -> Role]
    BY <1>18 DEF RemoveMember, Role
  <2>3. envelope' \in [Device -> SUBSET Key] /\ rotationRequired' \in BOOLEAN /\ keyEpoch' \in Nat
        /\ leftAt' \in [Device -> Nat]
    BY <1>18 DEF RemoveMember, CutOff
  <2> QED BY <1>18, <2>1, <2>2, <2>3 DEF RemoveMember
<1>19. ASSUME NEW a \in Account, LeaveProject(a) PROVE TypeOK'
  <2>1. role' \in [Account -> Role]
    BY <1>19 DEF LeaveProject, Role
  <2>2. envelope' \in [Device -> SUBSET Key] /\ rotationRequired' \in BOOLEAN /\ keyEpoch' \in Nat
        /\ leftAt' \in [Device -> Nat]
    BY <1>19 DEF LeaveProject, CutOff
  <2> QED BY <1>19, <2>1, <2>2 DEF LeaveProject
<1>20. ASSUME NEW a \in Account, NEW y \in BOOLEAN, RespondInvite(a, y) PROVE TypeOK'
  <2>1. role' \in [Account -> Role] /\ invited' \in [Account -> Role]
    BY <1>20 DEF RespondInvite, Role
  <2>2. leftAt' \in [Device -> Nat]
    BY <1>20, <1>0 DEF RespondInvite, Present, KeysAssumption
  <2> QED BY <1>20, <2>1, <2>2 DEF RespondInvite
<1> QED
  BY <1>1, <1>2, <1>3, <1>4, <1>5, <1>6, <1>7, <1>8, <1>9, <1>10, <1>11, <1>12, <1>13,
     <1>14, <1>15, <1>16, <1>17, <1>18, <1>19, <1>20
     DEF Next, RefreshStep, MemberStep

(* No ring loses its last key.                                             *)
LEMMA InstallFills ==
    ASSUME NEW keys, NEW received, keys # {} \/ received # {}
    PROVE  Install(keys, received) # {}
BY DEF Install, Epochs

LEMMA FilledStep ==
    ASSUME TypeInv, Next
    PROVE  RingsAreFilled'
<1> USE DEF TypeInv, TypeOK, RingsAreFilled, memberVars, keyVars, dataVars,
        localVars, bounds, JobOnly, SameExceptMembers, Goto, Change
<1>1. ASSUME NEW d \in Device, RegisterDevice(d) PROVE RingsAreFilled'
  BY <1>1 DEF RegisterDevice
<1>2. ASSUME NEW d \in Device, NEW e \in Device, ForgetDevice(d, e) PROVE RingsAreFilled'
  BY <1>2 DEF ForgetDevice, CutOff
<1>3. ASSUME NEW d \in Device, LoadRoster(d) PROVE RingsAreFilled'
  BY <1>3 DEF LoadRoster
<1>4. ASSUME NEW d \in Device, InstallEnvelopes(d) PROVE RingsAreFilled'
  <2> DEFINE installed == Install(ring[d], Received(d))
             keys == RotatedRing(job[d], installed)
  <2>1. CASE ~IsMember(d)
    BY <1>4, <2>1 DEF InstallEnvelopes, Idle
  <2>2. CASE IsMember(d)
    <3>1. /\ ring' = [ring EXCEPT ![d] = keys]
          /\ job' = [job EXCEPT ![d] = AfterInstall(job[d], keys)]
          /\ keyEpoch' = keyEpoch /\ rotationRequired' = rotationRequired /\ outbox' = outbox
      BY <1>4, <2>2 DEF InstallEnvelopes
    <3>2. ring[d] # {} => keys # {}
      BY InstallFills DEF RotatedRing
    <3>3. AfterInstall(job[d], keys).at \in {"wrap", "secured", "compact", "commit"} => keys # {}
      <4>1. job[d].epoch + 1 # 0
        BY <1>4, JobFields DEF InstallEnvelopes
      <4> QED BY <4>1 DEF AfterInstall, Current, Idle
    <3> QED BY <3>1, <3>2, <3>3
  <2> QED BY <2>1, <2>2
<1>5. ASSUME NEW d \in Device, NEW e \in Device, PutKeyEnvelope(d, e)
      PROVE  RingsAreFilled'
  BY <1>5 DEF PutKeyEnvelope
<1>6. ASSUME NEW d \in Device, CommitKeyRotation(d) PROVE RingsAreFilled'
  BY <1>6 DEF CommitKeyRotation
<1>7. ASSUME NEW d \in Device, Distributed(d) PROVE RingsAreFilled'
  BY <1>7 DEF Distributed
<1>8. ASSUME NEW d \in Device, Recover(d) PROVE RingsAreFilled'
  BY <1>8 DEF Recover
<1>9. ASSUME NEW d \in Device, NEW f \in BOOLEAN, PublishLatest(d, f)
      PROVE  RingsAreFilled'
  BY <1>9 DEF PublishLatest
<1>10. ASSUME NEW d \in Device, ReadRemoteSet(d) PROVE RingsAreFilled'
  BY <1>10 DEF ReadRemoteSet
<1>11. ASSUME NEW d \in Device, CommitCheckpoint(d) PROVE RingsAreFilled'
  BY <1>11 DEF CommitCheckpoint
<1>12. ASSUME NEW d \in Device, Edit(d) PROVE RingsAreFilled'
  BY <1>12 DEF Edit
<1>13. ASSUME NEW d \in Device, DiscardStaleHead(d) PROVE RingsAreFilled'
  BY <1>13 DEF DiscardStaleHead
<1>14. ASSUME NEW d \in Device, Fail(d) PROVE RingsAreFilled'
  BY <1>14 DEF Fail, Idle
<1>15. ASSUME NEW d \in Device, NEW a \in Account, NEW r \in {"editor", "viewer"}, Invite(d, a, r)
       PROVE  RingsAreFilled'
  BY <1>15 DEF Invite
<1>16. ASSUME NEW d \in Device, NEW a \in Account, NEW r \in {"editor", "viewer"}, SetMemberRole(d, a, r)
       PROVE  RingsAreFilled'
  BY <1>16 DEF SetMemberRole
<1>17. ASSUME NEW d \in Device, NEW a \in Account, CancelInvite(d, a)
       PROVE  RingsAreFilled'
  BY <1>17 DEF CancelInvite
<1>18. ASSUME NEW d \in Device, NEW a \in Account, RemoveMember(d, a)
       PROVE  RingsAreFilled'
  BY <1>18 DEF RemoveMember, CutOff
<1>19. ASSUME NEW a \in Account, LeaveProject(a) PROVE RingsAreFilled'
  BY <1>19 DEF LeaveProject, CutOff
<1>20. ASSUME NEW a \in Account, NEW y \in BOOLEAN, RespondInvite(a, y)
       PROVE  RingsAreFilled'
  BY <1>20 DEF RespondInvite
<1> QED
  BY <1>1, <1>2, <1>3, <1>4, <1>5, <1>6, <1>7, <1>8, <1>9, <1>10, <1>11, <1>12, <1>13,
     <1>14, <1>15, <1>16, <1>17, <1>18, <1>19, <1>20
     DEF Next, RefreshStep, MemberStep

(* A key is wrapped only for a device that has access as it is stored.     *)
LEMMA EnvelopesStep ==
    ASSUME TypeOK, EnvelopesOnlyForMembers, Next
    PROVE  EnvelopesOnlyForMembers'
<1> USE DEF TypeOK, EnvelopesOnlyForMembers, HasAccess, IsMember, HasRole, Role,
        RegisteredOf, memberVars, keyVars, dataVars, localVars, bounds, JobOnly,
        SameExceptMembers, Goto, Change
<1>1. ASSUME NEW d \in Device, RegisterDevice(d) PROVE EnvelopesOnlyForMembers'
  BY <1>1 DEF RegisterDevice
<1>2. ASSUME NEW d \in Device, NEW e \in Device, ForgetDevice(d, e)
      PROVE  EnvelopesOnlyForMembers'
  BY <1>2 DEF ForgetDevice, CutOff
<1>3. ASSUME NEW d \in Device, LoadRoster(d) PROVE EnvelopesOnlyForMembers'
  BY <1>3 DEF LoadRoster
<1>4. ASSUME NEW d \in Device, InstallEnvelopes(d) PROVE EnvelopesOnlyForMembers'
  BY <1>4 DEF InstallEnvelopes
<1>5. ASSUME NEW d \in Device, NEW e \in Device, PutKeyEnvelope(d, e)
      PROVE  EnvelopesOnlyForMembers'
  <2>1. CASE MayWrap(d, e)
    <3>1. HasAccess(e)
      BY <2>1 DEF MayWrap
    <3>2. \A x \in Device : x # e => envelope'[x] = envelope[x]
      BY <1>5, <2>1 DEF PutKeyEnvelope
    <3>3. \A x \in Device : HasAccess(x)' = HasAccess(x)
      BY <1>5 DEF PutKeyEnvelope, HasAccess, IsMember, HasRole
    <3> HIDE DEF HasAccess, TypeOK
    <3> QED BY <3>1, <3>2, <3>3
  <2>2. CASE ~MayWrap(d, e)
    BY <1>5, <2>2 DEF PutKeyEnvelope
  <2> QED BY <2>1, <2>2
<1>6. ASSUME NEW d \in Device, CommitKeyRotation(d) PROVE EnvelopesOnlyForMembers'
  BY <1>6 DEF CommitKeyRotation
<1>7. ASSUME NEW d \in Device, Distributed(d) PROVE EnvelopesOnlyForMembers'
  BY <1>7 DEF Distributed
<1>8. ASSUME NEW d \in Device, Recover(d) PROVE EnvelopesOnlyForMembers'
  BY <1>8 DEF Recover
<1>9. ASSUME NEW d \in Device, NEW f \in BOOLEAN, PublishLatest(d, f)
      PROVE  EnvelopesOnlyForMembers'
  BY <1>9 DEF PublishLatest
<1>10. ASSUME NEW d \in Device, ReadRemoteSet(d) PROVE EnvelopesOnlyForMembers'
  BY <1>10 DEF ReadRemoteSet
<1>11. ASSUME NEW d \in Device, CommitCheckpoint(d) PROVE EnvelopesOnlyForMembers'
  BY <1>11 DEF CommitCheckpoint
<1>12. ASSUME NEW d \in Device, Edit(d) PROVE EnvelopesOnlyForMembers'
  BY <1>12 DEF Edit
<1>13. ASSUME NEW d \in Device, DiscardStaleHead(d) PROVE EnvelopesOnlyForMembers'
  BY <1>13 DEF DiscardStaleHead
<1>14. ASSUME NEW d \in Device, Fail(d) PROVE EnvelopesOnlyForMembers'
  BY <1>14 DEF Fail, Idle
<1>15. ASSUME NEW d \in Device, NEW a \in Account, NEW r \in {"editor", "viewer"}, Invite(d, a, r)
       PROVE  EnvelopesOnlyForMembers'
  BY <1>15 DEF Invite
<1>16. ASSUME NEW d \in Device, NEW a \in Account, NEW r \in {"editor", "viewer"}, SetMemberRole(d, a, r)
       PROVE  EnvelopesOnlyForMembers'
  BY <1>16 DEF SetMemberRole
<1>17. ASSUME NEW d \in Device, NEW a \in Account, CancelInvite(d, a)
       PROVE  EnvelopesOnlyForMembers'
  BY <1>17 DEF CancelInvite
<1>18. ASSUME NEW d \in Device, NEW a \in Account, RemoveMember(d, a)
       PROVE  EnvelopesOnlyForMembers'
  BY <1>18 DEF RemoveMember, CutOff
<1>19. ASSUME NEW a \in Account, LeaveProject(a) PROVE EnvelopesOnlyForMembers'
  BY <1>19 DEF LeaveProject, CutOff
<1>20. ASSUME NEW a \in Account, NEW y \in BOOLEAN, RespondInvite(a, y)
       PROVE  EnvelopesOnlyForMembers'
  BY <1>20 DEF RespondInvite
<1> QED
  BY <1>1, <1>2, <1>3, <1>4, <1>5, <1>6, <1>7, <1>8, <1>9, <1>10, <1>11, <1>12, <1>13,
     <1>14, <1>15, <1>16, <1>17, <1>18, <1>19, <1>20
     DEF Next, RefreshStep, MemberStep

(* Nobody removes, invites or replaces the owner, or forgets its one       *)
(* device.                                                                 *)
LEMMA OwnerStep ==
    ASSUME NEW o, OneOwner(o), TypeInv, OwnerStays(o), Next
    PROVE  OwnerStays(o)'
<1> USE DEF OneOwner, TypeInv, TypeOK, OwnerStays, OwnerCommand, Idle, IsMember,
        HasRole, memberVars, keyVars, dataVars, localVars, bounds, JobOnly,
        SameExceptMembers, Goto, Change
<1>0. KeysAssumption
  BY KeysAssumption
<1> USE <1>0 DEF KeysAssumption
<1>1. ASSUME NEW d \in Device, RegisterDevice(d) PROVE OwnerStays(o)'
  BY <1>1 DEF RegisterDevice
<1>2. ASSUME NEW d \in Device, NEW e \in Device, ForgetDevice(d, e) PROVE OwnerStays(o)'
  BY <1>2 DEF ForgetDevice, CutOff
<1>3. ASSUME NEW d \in Device, LoadRoster(d) PROVE OwnerStays(o)'
  BY <1>3 DEF LoadRoster
<1>4. ASSUME NEW d \in Device, InstallEnvelopes(d) PROVE OwnerStays(o)'
  BY <1>4 DEF InstallEnvelopes
<1>5. ASSUME NEW d \in Device, NEW e \in Device, PutKeyEnvelope(d, e) PROVE OwnerStays(o)'
  BY <1>5 DEF PutKeyEnvelope
<1>6. ASSUME NEW d \in Device, CommitKeyRotation(d) PROVE OwnerStays(o)'
  BY <1>6 DEF CommitKeyRotation
<1>7. ASSUME NEW d \in Device, Distributed(d) PROVE OwnerStays(o)'
  BY <1>7 DEF Distributed
<1>8. ASSUME NEW d \in Device, Recover(d) PROVE OwnerStays(o)'
  BY <1>8 DEF Recover
<1>9. ASSUME NEW d \in Device, NEW f \in BOOLEAN, PublishLatest(d, f) PROVE OwnerStays(o)'
  BY <1>9 DEF PublishLatest
<1>10. ASSUME NEW d \in Device, ReadRemoteSet(d) PROVE OwnerStays(o)'
  BY <1>10 DEF ReadRemoteSet
<1>11. ASSUME NEW d \in Device, CommitCheckpoint(d) PROVE OwnerStays(o)'
  BY <1>11 DEF CommitCheckpoint
<1>12. ASSUME NEW d \in Device, Edit(d) PROVE OwnerStays(o)'
  BY <1>12 DEF Edit
<1>13. ASSUME NEW d \in Device, DiscardStaleHead(d) PROVE OwnerStays(o)'
  BY <1>13 DEF DiscardStaleHead
<1>14. ASSUME NEW d \in Device, Fail(d) PROVE OwnerStays(o)'
  BY <1>14 DEF Fail, Idle
<1>15. ASSUME NEW d \in Device, NEW a \in Account, NEW r \in {"editor", "viewer"}, Invite(d, a, r)
       PROVE  OwnerStays(o)'
  BY <1>15 DEF Invite
<1>16. ASSUME NEW d \in Device, NEW a \in Account, NEW r \in {"editor", "viewer"}, SetMemberRole(d, a, r)
       PROVE  OwnerStays(o)'
  BY <1>16 DEF SetMemberRole
<1>17. ASSUME NEW d \in Device, NEW a \in Account, CancelInvite(d, a) PROVE OwnerStays(o)'
  BY <1>17 DEF CancelInvite
<1>18. ASSUME NEW d \in Device, NEW a \in Account, RemoveMember(d, a) PROVE OwnerStays(o)'
  BY <1>18 DEF RemoveMember, CutOff
<1>19. ASSUME NEW a \in Account, LeaveProject(a) PROVE OwnerStays(o)'
  BY <1>19 DEF LeaveProject, CutOff
<1>20. ASSUME NEW a \in Account, NEW y \in BOOLEAN, RespondInvite(a, y)
       PROVE  OwnerStays(o)'
  BY <1>20 DEF RespondInvite
<1> QED
  BY <1>1, <1>2, <1>3, <1>4, <1>5, <1>6, <1>7, <1>8, <1>9, <1>10, <1>11, <1>12, <1>13,
     <1>14, <1>15, <1>16, <1>17, <1>18, <1>19, <1>20
     DEF Next, RefreshStep, MemberStep

(* While the owner's device has read the roster nobody else moves the      *)
(* epoch.                                                                  *)
LEMMA RostersStep ==
    ASSUME NEW o, OneOwner(o), TypeInv, OwnerStays(o), RostersAreRight(o), Next
    PROVE  RostersAreRight(o)'
<1> USE DEF OneOwner, TypeInv, TypeOK, OwnerStays, RostersAreRight, Idle,
        memberVars, keyVars, dataVars, localVars, bounds, JobOnly,
        SameExceptMembers, Goto, Change
<1>0. KeysAssumption
  BY KeysAssumption
<1> USE <1>0 DEF KeysAssumption
<1>1. ASSUME NEW d \in Device, RegisterDevice(d) PROVE RostersAreRight(o)'
  BY <1>1 DEF RegisterDevice
<1>2. ASSUME NEW d \in Device, NEW e \in Device, ForgetDevice(d, e)
      PROVE  RostersAreRight(o)'
  BY <1>2 DEF ForgetDevice, CutOff
<1>3. ASSUME NEW d \in Device, LoadRoster(d) PROVE RostersAreRight(o)'
  BY <1>3 DEF LoadRoster
<1>4. ASSUME NEW d \in Device, InstallEnvelopes(d) PROVE RostersAreRight(o)'
  <2>1. job'[d].at # "install"
    BY <1>4 DEF InstallEnvelopes, AfterInstall
  <2>2. keyEpoch' = keyEpoch /\ rotationRequired' = rotationRequired
    BY <1>4 DEF InstallEnvelopes
  <2>3. \A x \in Device : x # d => job'[x] = job[x]
    BY <1>4 DEF InstallEnvelopes
  <2> HIDE DEF TypeOK
  <2> QED BY <2>1, <2>2, <2>3
<1>5. ASSUME NEW d \in Device, NEW e \in Device, PutKeyEnvelope(d, e)
      PROVE  RostersAreRight(o)'
  <2>1. job[d] \in Job /\ job[d].at = "wrap"
    BY <1>5 DEF PutKeyEnvelope
  <2>2. job'[d].at # "install"
    <3>1. CASE MayWrap(d, e)
      <4>1. job'[d] = [job[d] EXCEPT !.todo = @ \ {e}]
        BY <1>5, <3>1 DEF PutKeyEnvelope
      <4> QED BY <2>1, <4>1, StillWraps
    <3>2. CASE ~MayWrap(d, e)
      BY <1>5, <3>2 DEF PutKeyEnvelope
    <3> QED BY <3>1, <3>2
  <2>3. keyEpoch' = keyEpoch /\ rotationRequired' = rotationRequired
    BY <1>5 DEF PutKeyEnvelope
  <2>4. \A x \in Device : x # d => job'[x] = job[x]
    BY <1>5 DEF PutKeyEnvelope
  <2> HIDE DEF TypeOK
  <2> QED BY <2>2, <2>3, <2>4
<1>6. ASSUME NEW d \in Device, CommitKeyRotation(d) PROVE RostersAreRight(o)'
  <2>1. CASE MayCommitRotation(d)
    <3>1. d = o
      BY <2>1 DEF MayCommitRotation, HasRole
    <3> QED BY <1>6, <3>1 DEF CommitKeyRotation
  <2>2. CASE ~MayCommitRotation(d)
    BY <1>6, <2>2 DEF CommitKeyRotation
  <2> QED BY <2>1, <2>2
<1>7. ASSUME NEW d \in Device, Distributed(d) PROVE RostersAreRight(o)'
  BY <1>7 DEF Distributed
<1>8. ASSUME NEW d \in Device, Recover(d) PROVE RostersAreRight(o)'
  BY <1>8 DEF Recover
<1>9. ASSUME NEW d \in Device, NEW f \in BOOLEAN, PublishLatest(d, f)
      PROVE  RostersAreRight(o)'
  BY <1>9 DEF PublishLatest
<1>10. ASSUME NEW d \in Device, ReadRemoteSet(d) PROVE RostersAreRight(o)'
  BY <1>10 DEF ReadRemoteSet
<1>11. ASSUME NEW d \in Device, CommitCheckpoint(d) PROVE RostersAreRight(o)'
  BY <1>11 DEF CommitCheckpoint
<1>12. ASSUME NEW d \in Device, Edit(d) PROVE RostersAreRight(o)'
  BY <1>12 DEF Edit
<1>13. ASSUME NEW d \in Device, DiscardStaleHead(d) PROVE RostersAreRight(o)'
  BY <1>13 DEF DiscardStaleHead
<1>14. ASSUME NEW d \in Device, Fail(d) PROVE RostersAreRight(o)'
  BY <1>14 DEF Fail, Idle
<1>15. ASSUME NEW d \in Device, NEW a \in Account, NEW r \in {"editor", "viewer"}, Invite(d, a, r)
       PROVE  RostersAreRight(o)'
  BY <1>15 DEF Invite
<1>16. ASSUME NEW d \in Device, NEW a \in Account, NEW r \in {"editor", "viewer"}, SetMemberRole(d, a, r)
       PROVE  RostersAreRight(o)'
  BY <1>16 DEF SetMemberRole
<1>17. ASSUME NEW d \in Device, NEW a \in Account, CancelInvite(d, a)
       PROVE  RostersAreRight(o)'
  BY <1>17 DEF CancelInvite
<1>18. ASSUME NEW d \in Device, NEW a \in Account, RemoveMember(d, a)
       PROVE  RostersAreRight(o)'
  BY <1>18 DEF RemoveMember, CutOff
<1>19. ASSUME NEW a \in Account, LeaveProject(a) PROVE RostersAreRight(o)'
  BY <1>19 DEF LeaveProject, CutOff
<1>20. ASSUME NEW a \in Account, NEW y \in BOOLEAN, RespondInvite(a, y)
       PROVE  RostersAreRight(o)'
  BY <1>20 DEF RespondInvite
<1> QED
  BY <1>1, <1>2, <1>3, <1>4, <1>5, <1>6, <1>7, <1>8, <1>9, <1>10, <1>11, <1>12, <1>13,
     <1>14, <1>15, <1>16, <1>17, <1>18, <1>19, <1>20
     DEF Next, RefreshStep, MemberStep

LEMMA KeyFields ==
    ASSUME NEW k \in Key
    PROVE  k.epoch \in Nat /\ k.epoch > 0 /\ k # NoKey
BY NoKeyAssumption, KeysAssumption DEF Key

(* The newest epoch as a number, 0 for a ring without keys.                *)
LEMMA CurrentIsHighest ==
    ASSUME NEW keys \in SUBSET Key
    PROVE  /\ Current(keys) \in Nat
           /\ \A k \in keys : k.epoch <= Current(keys)
           /\ Current(keys) # 0 => \E k \in keys : k.epoch = Current(keys)
<1>1. CASE keys = {}
  BY <1>1 DEF Current
<1>2. CASE keys # {}
  <2>1. \E k \in keys : k.epoch = Current(keys)
    BY <1>2, HighestEpoch DEF Epochs
  <2> QED BY <1>2, <2>1, HighestEpoch, KeyFields
<1> QED BY <1>1, <1>2

(* What is sealed again is sealed under a key of the owner's device.       *)
LEMMA ResealedIsOwners ==
    ASSUME NEW o \in Device, TypeInv, KeysAreOwners(o), NEW d \in Device
    PROVE  Resealed(d) \in ring[o] \cup {NoKey}
<1>1. CASE outbox[d] # NoKey
  <2>1. CurrentKey(d) \in ring[d]
    BY <1>1, CurrentKeyIsHeld DEF TypeInv, RingsAreFilled
  <2> QED BY <2>1 DEF Resealed, KeysAreOwners
<1>2. CASE outbox[d] = NoKey
  BY <1>2 DEF Resealed, KeysAreOwners
<1> QED BY <1>1, <1>2

(* Keys come from the owner's ring, which gains one only in a due          *)
(* rotation.                                                               *)
LEMMA KeysStep ==
    ASSUME NEW o \in Device, TypeInv, RostersAreRight(o), KeysAreOwners(o), Next
    PROVE  KeysAreOwners(o)'
<1> USE DEF TypeInv, TypeOK, KeysAreOwners, memberVars, keyVars, dataVars,
        localVars, bounds, JobOnly, SameExceptMembers, Goto, Change
<1>1. ASSUME NEW d \in Device, RegisterDevice(d) PROVE KeysAreOwners(o)'
  BY <1>1 DEF RegisterDevice
<1>2. ASSUME NEW d \in Device, NEW e \in Device, ForgetDevice(d, e)
      PROVE  KeysAreOwners(o)'
  BY <1>2 DEF ForgetDevice, CutOff
<1>3. ASSUME NEW d \in Device, LoadRoster(d) PROVE KeysAreOwners(o)'
  BY <1>3 DEF LoadRoster
<1>4. ASSUME NEW d \in Device, InstallEnvelopes(d) PROVE KeysAreOwners(o)'
  <2> DEFINE installed == Install(ring[d], Received(d))
             keys == RotatedRing(job[d], installed)
  <2>1. CASE ~IsMember(d)
    BY <1>4, <2>1 DEF InstallEnvelopes, Idle
  <2>2. CASE IsMember(d)
    <3>1. /\ ring' = [ring EXCEPT ![d] = keys]
          /\ \A x \in Device : job'[x].at = "commit" => job'[x] = job[x]
          /\ UNCHANGED <<envelope, heads, checkpoint, outbox, keyEpoch, rotationRequired>>
      BY <1>4, <2>2 DEF InstallEnvelopes, AfterInstall, Idle
    <3>2. Received(d) \subseteq ring[o]
      BY DEF Received
    <3>3. CASE d # o
      <4>1. keys = installed
        BY <1>4, <3>3 DEF InstallEnvelopes, RostersAreRight, RotatedRing, Draws, Rotates
      <4>2. installed \subseteq ring[o]
        BY <3>2 DEF Install
      <4>3. ring'[o] = ring[o] /\ \A x \in Device : ring'[x] \subseteq ring[o]
        BY <3>1, <3>3, <4>1, <4>2
      <4> QED BY <3>1, <4>3
    <3>4. CASE d = o
      <4>1. installed = ring[o]
        BY <3>2, <3>4 DEF Install, Epochs
      <4>2. CASE ~Draws(job[d], installed)
        <5>1. ring' = ring
          BY <3>1, <3>4, <4>1, <4>2 DEF RotatedRing
        <5> QED BY <3>1, <5>1
      <4>3. CASE Draws(job[d], installed)
        <5> DEFINE new == NewKey(ring[o])
        <5>1. Current(ring[o]) \in Nat /\ \A k \in ring[o] : k.epoch <= Current(ring[o])
          BY CurrentIsHighest
        <5>2. new.epoch = Current(ring[o]) + 1
          BY DEF NewKey
        <5>3. ring'[o] = ring[o] \cup {new} /\ \A x \in Device : x # o => ring'[x] = ring[x]
          <6>1. \A k \in ring[o] : k.epoch # new.epoch /\ k.epoch \in Nat
            BY <5>1, <5>2, KeyFields
          <6>2. keys = ring[o] \cup {new}
            <7>1. keys = Install(ring[o], {new})
              BY <3>4, <4>1, <4>3 DEF RotatedRing
            <7>2. Epochs({new}) = {new.epoch}
              BY DEF Epochs
            <7> HIDE DEF keys, new, installed, TypeOK, KeysAreOwners
            <7> QED BY <6>1, <7>1, <7>2 DEF Install
          <6> QED BY <3>1, <3>4, <6>2
        <5>4. rotationRequired /\ new.epoch <= keyEpoch + 1
          <6>1. job[o].at = "install" /\ Rotates(job[o]) /\ Current(ring[o]) < job[o].epoch + 1
            BY <1>4, <3>4, <4>1, <4>3 DEF InstallEnvelopes, Draws
          <6>2. job[o].epoch = keyEpoch /\ (job[o].rotation => rotationRequired)
            BY <6>1 DEF RostersAreRight
          <6>3. rotationRequired
            BY <6>1, <6>2 DEF Rotates, RingsAreFilled
          <6> QED BY <5>1, <5>2, <6>1, <6>2, <6>3
        <5>5. \A k, l \in ring'[o] : k.epoch = l.epoch => k = l
          BY <5>1, <5>2, <5>3, KeyFields
        <5>6. \A k \in ring'[o] : k.epoch <= keyEpoch' \/ (rotationRequired' /\ k.epoch = keyEpoch' + 1)
          <6>1. keyEpoch' = keyEpoch /\ rotationRequired' = rotationRequired
            BY <3>1
          <6>2. \A k \in ring[o] : k.epoch <= keyEpoch \/ (rotationRequired /\ k.epoch = keyEpoch + 1)
            OBVIOUS
          <6>3. new.epoch <= keyEpoch \/ new.epoch = keyEpoch + 1
            BY <5>1, <5>2, <5>4
          <6> HIDE DEF keys, new, installed, TypeOK, KeysAreOwners
          <6> QED BY <5>3, <5>4, <6>1, <6>2, <6>3
        <5> HIDE DEF new, keys, installed, TypeOK
        <5> QED BY <3>1, <5>3, <5>5, <5>6
      <4> QED BY <4>2, <4>3
    <3> QED BY <3>3, <3>4
  <2> QED BY <2>1, <2>2
<1>5. ASSUME NEW d \in Device, NEW e \in Device, PutKeyEnvelope(d, e)
      PROVE  KeysAreOwners(o)'
  <2>1. job[d] \in Job /\ job[d].at = "wrap" /\ ring[d] # {}
    BY <1>5 DEF PutKeyEnvelope, RingsAreFilled
  <2>2. CurrentKey(d) \in ring[o]
    BY <2>1, CurrentKeyIsHeld
  <2>3. \A x \in Device : envelope'[x] \subseteq ring[o]
    BY <1>5, <2>2 DEF PutKeyEnvelope
  <2>4. \A x \in Device : job'[x].at = "commit" => job'[x] = job[x]
    <3>1. CASE MayWrap(d, e)
      <4>1. job' = [job EXCEPT ![d] = [job[d] EXCEPT !.todo = @ \ {e}]]
        BY <1>5, <3>1 DEF PutKeyEnvelope
      <4> QED BY <2>1, <4>1, StillWraps
    <3>2. CASE ~MayWrap(d, e)
      BY <1>5, <3>2 DEF PutKeyEnvelope, Idle
    <3> QED BY <3>1, <3>2
  <2>5. UNCHANGED <<ring, heads, checkpoint, outbox, keyEpoch, rotationRequired>>
    BY <1>5 DEF PutKeyEnvelope
  <2> HIDE DEF TypeOK
  <2> QED BY <2>3, <2>4, <2>5
<1>6. ASSUME NEW d \in Device, CommitKeyRotation(d) PROVE KeysAreOwners(o)'
  <2>1. \A x \in Device : job'[x].at = "commit" => job'[x] = job[x]
    BY <1>6 DEF CommitKeyRotation, Idle
  <2>2. UNCHANGED <<ring, envelope, heads, checkpoint, outbox>>
    BY <1>6 DEF CommitKeyRotation
  <2>3. (keyEpoch' = keyEpoch /\ rotationRequired' = rotationRequired) \/ keyEpoch' = keyEpoch + 1
    BY <1>6 DEF CommitKeyRotation
  <2>4. \A k \in ring[o] : k.epoch <= keyEpoch' \/ (rotationRequired' /\ k.epoch = keyEpoch' + 1)
    BY <2>3, KeyFields
  <2> HIDE DEF TypeOK
  <2> QED BY <2>1, <2>2, <2>4
<1>7. ASSUME NEW d \in Device, Distributed(d) PROVE KeysAreOwners(o)'
  BY <1>7 DEF Distributed
<1>8. ASSUME NEW d \in Device, Recover(d) PROVE KeysAreOwners(o)'
  <2>1. \A x \in Device : outbox'[x] \in ring[o] \cup {NoKey}
    BY <1>8, ResealedIsOwners DEF Recover
  <2>2. \A x \in Device : job'[x].at = "commit" => job'[x] = job[x]
    BY <1>8 DEF Recover, Idle
  <2> QED BY <1>8, <2>1, <2>2 DEF Recover
<1>9. ASSUME NEW d \in Device, NEW f \in BOOLEAN, PublishLatest(d, f)
      PROVE  KeysAreOwners(o)'
  <2> DEFINE key == IF f THEN Resealed(d) ELSE outbox[d]
  <2>1. key \in ring[o] \cup {NoKey}
    BY ResealedIsOwners
  <2>2. \A x \in Device : job'[x].at = "commit" => job'[x] = job[x]
    BY <1>9 DEF PublishLatest, Idle
  <2>3. \A x \in Device : heads'[x] = heads[x] \/ heads'[x].key = key
    BY <1>9 DEF PublishLatest
  <2>4. \A x \in Device : outbox'[x] \in {outbox[x], key, NoKey}
    BY <1>9 DEF PublishLatest
  <2>5. UNCHANGED <<ring, envelope, checkpoint, keyEpoch, rotationRequired>>
    BY <1>9 DEF PublishLatest
  <2> HIDE DEF key, TypeOK
  <2> QED BY <2>1, <2>2, <2>3, <2>4, <2>5
<1>10. ASSUME NEW d \in Device, ReadRemoteSet(d) PROVE KeysAreOwners(o)'
  <2>1. CurrentKey(d) \in ring[o]
    BY <1>10, CurrentKeyIsHeld DEF ReadRemoteSet, RingsAreFilled
  <2>2. \A x \in Device : job'[x].at = "commit" => job'[x].key \in ring[o]
    BY <1>10, <2>1 DEF ReadRemoteSet, Idle
  <2> QED BY <1>10, <2>2 DEF ReadRemoteSet
<1>11. ASSUME NEW d \in Device, CommitCheckpoint(d) PROVE KeysAreOwners(o)'
  <2>1. \A x \in Device : outbox'[x] \in ring[o] \cup {NoKey}
    BY <1>11, ResealedIsOwners DEF CommitCheckpoint
  <2>2. \A x \in Device : job'[x].at = "commit" => job'[x] = job[x]
    BY <1>11 DEF CommitCheckpoint, Idle
  <2>3. checkpoint'.key \in ring[o] \cup {NoKey}
    BY <1>11 DEF CommitCheckpoint
  <2>4. \A x \in Device : heads'[x].key \in {heads[x].key, NoKey} /\ envelope'[x] \subseteq envelope[x]
    BY <1>11 DEF CommitCheckpoint, NoHead
  <2>5. UNCHANGED <<ring, keyEpoch, rotationRequired>>
    BY <1>11 DEF CommitCheckpoint
  <2> HIDE DEF TypeOK
  <2> QED BY <2>1, <2>2, <2>3, <2>4, <2>5
<1>12. ASSUME NEW d \in Device, Edit(d) PROVE KeysAreOwners(o)'
  <2>1. CurrentKey(d) \in ring[o]
    BY <1>12, CurrentKeyIsHeld DEF Edit
  <2> QED BY <1>12, <2>1 DEF Edit
<1>13. ASSUME NEW d \in Device, DiscardStaleHead(d) PROVE KeysAreOwners(o)'
  BY <1>13 DEF DiscardStaleHead, NoHead
<1>14. ASSUME NEW d \in Device, Fail(d) PROVE KeysAreOwners(o)'
  BY <1>14 DEF Fail, Idle
<1>15. ASSUME NEW d \in Device, NEW a \in Account, NEW r \in {"editor", "viewer"}, Invite(d, a, r)
       PROVE  KeysAreOwners(o)'
  BY <1>15 DEF Invite
<1>16. ASSUME NEW d \in Device, NEW a \in Account, NEW r \in {"editor", "viewer"}, SetMemberRole(d, a, r)
       PROVE  KeysAreOwners(o)'
  BY <1>16 DEF SetMemberRole
<1>17. ASSUME NEW d \in Device, NEW a \in Account, CancelInvite(d, a)
       PROVE  KeysAreOwners(o)'
  BY <1>17 DEF CancelInvite
<1>18. ASSUME NEW d \in Device, NEW a \in Account, RemoveMember(d, a)
       PROVE  KeysAreOwners(o)'
  BY <1>18 DEF RemoveMember, CutOff
<1>19. ASSUME NEW a \in Account, LeaveProject(a) PROVE KeysAreOwners(o)'
  BY <1>19 DEF LeaveProject, CutOff
<1>20. ASSUME NEW a \in Account, NEW y \in BOOLEAN, RespondInvite(a, y)
       PROVE  KeysAreOwners(o)'
  BY <1>20 DEF RespondInvite
<1> QED
  BY <1>1, <1>2, <1>3, <1>4, <1>5, <1>6, <1>7, <1>8, <1>9, <1>10, <1>11, <1>12, <1>13,
     <1>14, <1>15, <1>16, <1>17, <1>18, <1>19, <1>20
     DEF Next, RefreshStep, MemberStep

RowsInv == RowsAreNotOlder /\ PrunedKeysAreUnused

(* What the server accepts is sealed under the newest key there is.        *)
LEMMA AcceptedIsNewest ==
    ASSUME NEW o \in Device, TypeInv, KeysAreOwners(o), NEW d \in Device, NEW
           key, Accepts(d, key)
    PROVE  /\ \A e \in Device : job[e].at = "commit" => key.epoch >= job[e].key.epoch
           /\ checkpoint.key # NoKey => key.epoch >= checkpoint.key.epoch
<1>1. \A k \in ring[o] : k.epoch <= keyEpoch
  BY DEF Accepts, KeysAreOwners
<1>2. \A e \in Device : job[e].at = "commit" => job[e].key.epoch <= keyEpoch
  BY <1>1 DEF KeysAreOwners
<1>3. checkpoint.key # NoKey => checkpoint.key.epoch <= keyEpoch
  BY <1>1 DEF KeysAreOwners
<1>4. key.epoch = keyEpoch
  BY DEF Accepts
<1> QED BY <1>2, <1>3, <1>4

(* What a compaction leaves was published since it read, under no older    *)
(* key.                                                                    *)
LEMMA RowsStep ==
    ASSUME NEW o \in Device, TypeInv, KeysAreOwners(o), RowsInv, Next
    PROVE  RowsInv'
<1> USE DEF RowsInv, TypeInv, TypeOK, RowsAreNotOlder, PrunedKeysAreUnused,
        Idle, memberVars, keyVars, dataVars, localVars, bounds, JobOnly,
        SameExceptMembers, Goto, Change
<1>1. ASSUME NEW d \in Device, RegisterDevice(d) PROVE RowsInv'
  BY <1>1 DEF RegisterDevice
<1>2. ASSUME NEW d \in Device, NEW e \in Device, ForgetDevice(d, e) PROVE RowsInv'
  BY <1>2 DEF ForgetDevice, CutOff
<1>3. ASSUME NEW d \in Device, LoadRoster(d) PROVE RowsInv'
  BY <1>3 DEF LoadRoster
<1>4. ASSUME NEW d \in Device, InstallEnvelopes(d) PROVE RowsInv'
  <2>1. UNCHANGED <<heads, checkpoint>>
    BY <1>4 DEF InstallEnvelopes
  <2>2. \A x \in Device : job'[x].at = "commit" => job'[x] = job[x]
    BY <1>4 DEF InstallEnvelopes, AfterInstall, Idle
  <2> HIDE DEF TypeOK
  <2> QED BY <2>1, <2>2
<1>5. ASSUME NEW d \in Device, NEW e \in Device, PutKeyEnvelope(d, e) PROVE RowsInv'
  <2>1. job[d] \in Job /\ job[d].at = "wrap"
    BY <1>5 DEF PutKeyEnvelope
  <2>2. \A x \in Device : job'[x].at = "commit" => job'[x] = job[x]
    <3>1. CASE MayWrap(d, e)
      <4>1. job' = [job EXCEPT ![d] = [job[d] EXCEPT !.todo = @ \ {e}]]
        BY <1>5, <3>1 DEF PutKeyEnvelope
      <4> QED BY <2>1, <4>1, StillWraps
    <3>2. CASE ~MayWrap(d, e)
      BY <1>5, <3>2 DEF PutKeyEnvelope, Idle
    <3> QED BY <3>1, <3>2
  <2>3. UNCHANGED <<heads, checkpoint>>
    BY <1>5 DEF PutKeyEnvelope
  <2> HIDE DEF TypeOK
  <2> QED BY <2>2, <2>3
<1>6. ASSUME NEW d \in Device, CommitKeyRotation(d) PROVE RowsInv'
  BY <1>6 DEF CommitKeyRotation
<1>7. ASSUME NEW d \in Device, Distributed(d) PROVE RowsInv'
  BY <1>7 DEF Distributed
<1>8. ASSUME NEW d \in Device, Recover(d) PROVE RowsInv'
  BY <1>8 DEF Recover
<1>9. ASSUME NEW d \in Device, NEW f \in BOOLEAN, PublishLatest(d, f) PROVE RowsInv'
  <2> DEFINE key == IF f THEN Resealed(d) ELSE outbox[d]
  <2>1. \A x \in Device : job'[x].at = "commit" => job'[x] = job[x]
    BY <1>9 DEF PublishLatest, Idle
  <2>2. checkpoint' = checkpoint
    BY <1>9 DEF PublishLatest
  <2>3. CASE key # NoKey /\ Accepts(d, key)
    <3>1. heads'[d].key = key /\ \A x \in Device : x # d => heads'[x] = heads[x]
      BY <1>9, <2>3 DEF PublishLatest
    <3>2. /\ \A e \in Device : job[e].at = "commit" => key.epoch >= job[e].key.epoch
          /\ checkpoint.key # NoKey => key.epoch >= checkpoint.key.epoch
      BY <2>3, AcceptedIsNewest
    <3> HIDE DEF key, TypeOK
    <3> QED BY <2>1, <2>2, <2>3, <3>1, <3>2
  <2>4. CASE ~(key # NoKey /\ Accepts(d, key))
    <3>1. heads' = heads
      BY <1>9, <2>4 DEF PublishLatest
    <3> HIDE DEF key, TypeOK
    <3> QED BY <2>1, <2>2, <3>1
  <2> QED BY <2>3, <2>4
<1>10. ASSUME NEW d \in Device, ReadRemoteSet(d) PROVE RowsInv'
  <2>1. UNCHANGED <<heads, checkpoint>>
    BY <1>10 DEF ReadRemoteSet
  <2>2. \A x \in Device : job'[x].at = "commit" => job'[x] = job[x] \/ job'[x].rows = heads
    BY <1>10 DEF ReadRemoteSet, Idle
  <2> HIDE DEF TypeOK
  <2> QED BY <2>1, <2>2
<1>11. ASSUME NEW d \in Device, CommitCheckpoint(d) PROVE RowsInv'
  <2>1. \A x \in Device : job'[x].at = "commit" => job'[x] = job[x]
    BY <1>11 DEF CommitCheckpoint, Idle
  <2>2. CASE Accepts(d, job[d].key) /\ CasMatches(d)
    <3>1. checkpoint'.key = job[d].key
      BY <1>11, <2>2 DEF CommitCheckpoint
    <3>2. \A x \in Device : heads'[x] # NoHead => heads'[x] = heads[x] /\ job[d].rows[x] = NoHead
      BY <1>11, <2>2 DEF CommitCheckpoint
    <3>3. job[d].at = "commit" /\ job[d].key \in Key
      BY <1>11, JobFields DEF CommitCheckpoint
    <3>4. job[d].key # NoKey
      BY <3>3, KeyFields
    <3> HIDE DEF TypeOK
    <3> QED BY <2>1, <3>1, <3>2, <3>3, <3>4
  <2>3. CASE ~(Accepts(d, job[d].key) /\ CasMatches(d))
    <3>1. UNCHANGED <<heads, checkpoint>>
      BY <1>11, <2>3 DEF CommitCheckpoint
    <3> HIDE DEF TypeOK
    <3> QED BY <2>1, <3>1
  <2> QED BY <2>2, <2>3
<1>12. ASSUME NEW d \in Device, Edit(d) PROVE RowsInv'
  BY <1>12 DEF Edit
<1>13. ASSUME NEW d \in Device, DiscardStaleHead(d) PROVE RowsInv'
  <2>1. \A x \in Device : heads'[x] # NoHead => heads'[x] = heads[x]
    BY <1>13 DEF DiscardStaleHead
  <2>2. UNCHANGED <<job, checkpoint>>
    BY <1>13 DEF DiscardStaleHead
  <2> HIDE DEF TypeOK
  <2> QED BY <2>1, <2>2
<1>14. ASSUME NEW d \in Device, Fail(d) PROVE RowsInv'
  BY <1>14 DEF Fail, Idle
<1>15. ASSUME NEW d \in Device, NEW a \in Account, NEW r \in {"editor", "viewer"}, Invite(d, a, r)
       PROVE  RowsInv'
  BY <1>15 DEF Invite
<1>16. ASSUME NEW d \in Device, NEW a \in Account, NEW r \in {"editor", "viewer"}, SetMemberRole(d, a, r)
       PROVE  RowsInv'
  BY <1>16 DEF SetMemberRole
<1>17. ASSUME NEW d \in Device, NEW a \in Account, CancelInvite(d, a) PROVE RowsInv'
  BY <1>17 DEF CancelInvite
<1>18. ASSUME NEW d \in Device, NEW a \in Account, RemoveMember(d, a) PROVE RowsInv'
  BY <1>18 DEF RemoveMember, CutOff
<1>19. ASSUME NEW a \in Account, LeaveProject(a) PROVE RowsInv'
  BY <1>19 DEF LeaveProject, CutOff
<1>20. ASSUME NEW a \in Account, NEW y \in BOOLEAN, RespondInvite(a, y) PROVE RowsInv'
  BY <1>20 DEF RespondInvite
<1> QED
  BY <1>1, <1>2, <1>3, <1>4, <1>5, <1>6, <1>7, <1>8, <1>9, <1>10, <1>11, <1>12, <1>13,
     <1>14, <1>15, <1>16, <1>17, <1>18, <1>19, <1>20
     DEF Next, RefreshStep, MemberStep

(***************************************************************************)
(* The theorems.                                                           *)
(***************************************************************************)
LEMMA TypeInvInit == Init => TypeInv
BY KeysAssumption DEF Init, TypeInv, TypeOK, RingsAreFilled, Role, Row, MaybeKey, NoHead,
   NoCheckpoint, Job, Idle, Present

LEMMA TypeInvStep == TypeInv /\ [Next]_vars => TypeInv'
<1>1. TypeInv /\ Next => TypeInv'
  BY TypesStep, FilledStep DEF TypeInv
<1>2. TypeInv /\ UNCHANGED vars => TypeInv'
  BY DEF TypeInv, TypeOK, RingsAreFilled, vars, memberVars, keyVars, dataVars, localVars, bounds
<1> QED BY <1>1, <1>2

(* Every variable stays in its range.                                      *)
THEOREM TypesHold == Spec => []TypeOK
<1>1. TypeInv => TypeOK
  BY DEF TypeInv
<1> QED BY <1>1, TypeInvInit, TypeInvStep, PTL DEF Spec

(* Only devices that have access now have an envelope on the server,       *)
(* whoever distributes keys while members come and go (projects.ts         *)
(* removeMember, leaveProject, devices.ts forgetDevice, putKeyEnvelope).   *)
THEOREM EnvelopesFollowAccess == Spec => []EnvelopesOnlyForMembers
<1>1. Init => EnvelopesOnlyForMembers
  BY DEF Init, EnvelopesOnlyForMembers
<1>2. TypeOK /\ EnvelopesOnlyForMembers /\ [Next]_vars => EnvelopesOnlyForMembers'
  <2>1. TypeOK /\ EnvelopesOnlyForMembers /\ Next => EnvelopesOnlyForMembers'
    BY EnvelopesStep
  <2>2. EnvelopesOnlyForMembers /\ UNCHANGED vars => EnvelopesOnlyForMembers'
    BY DEF EnvelopesOnlyForMembers, HasAccess, IsMember, HasRole, vars, memberVars, keyVars
  <2> QED BY <2>1, <2>2
<1> QED BY <1>1, <1>2, TypesHold, PTL DEF Spec

LEMMA KeysInvInit == ASSUME NEW o, OneOwner(o), Init PROVE KeysInv(o)
<1>1. TypeInv
  BY TypeInvInit
<1>2. OwnerStays(o)
  BY DEF Init, OwnerStays, OneOwner
<1>3. KeysAreOwners(o)
  BY DEF Init, KeysAreOwners, NoHead, NoCheckpoint, Idle, OneOwner
<1>4. RostersAreRight(o)
  BY DEF Init, RostersAreRight, Idle, OneOwner
<1>5. RowsInv
  BY DEF Init, RowsInv, RowsAreNotOlder, PrunedKeysAreUnused, Idle
<1> QED BY <1>1, <1>2, <1>3, <1>4, <1>5 DEF KeysInv, RowsInv

LEMMA KeysInvStep ==
    ASSUME NEW o, OneOwner(o)
    PROVE  KeysInv(o) /\ [Next]_vars => KeysInv(o)'
<1>1. o \in Device
  BY DEF OneOwner
<1>2. ASSUME KeysInv(o), Next PROVE KeysInv(o)'
  <2>1. TypeInv'
    BY <1>2, TypeInvStep DEF KeysInv
  <2>2. OwnerStays(o)' /\ RostersAreRight(o)'
    BY <1>2, OwnerStep, RostersStep DEF KeysInv
  <2>3. KeysAreOwners(o)' /\ RowsInv'
    BY <1>1, <1>2, KeysStep, RowsStep DEF KeysInv, RowsInv
  <2> QED BY <2>1, <2>2, <2>3 DEF KeysInv, RowsInv
<1>3. ASSUME KeysInv(o), UNCHANGED vars PROVE KeysInv(o)'
  <2>1. TypeInv'
    BY <1>3, TypeInvStep DEF KeysInv
  <2> USE <1>3 DEF KeysInv, vars, memberVars, keyVars, dataVars, localVars, bounds
  <2>2. OwnerStays(o)'
    BY DEF OwnerStays
  <2>3. KeysAreOwners(o)'
    BY DEF KeysAreOwners
  <2>4. RostersAreRight(o)'
    BY DEF RostersAreRight
  <2>5. RowsAreNotOlder' /\ PrunedKeysAreUnused'
    BY DEF RowsAreNotOlder, PrunedKeysAreUnused
  <2> QED BY <2>1, <2>2, <2>3, <2>4, <2>5
<1> QED BY <1>2, <1>3

LEMMA KeysInvUse ==
    ASSUME NEW o, OneOwner(o), KeysInv(o)
    PROVE  KeysAreDrawnOnce /\ StoredStaysReadable
<1>1. o \in Device /\ TypeInv /\ OwnerStays(o) /\ KeysAreOwners(o) /\ PrunedKeysAreUnused
  BY DEF OneOwner, KeysInv
<1>2. KeysInUse \subseteq ring[o]
  <2>1. UNION {ring[d] \cup envelope[d] : d \in Device} \subseteq ring[o]
    BY <1>1 DEF KeysAreOwners
  <2>2. Stored \ {NoKey} \subseteq ring[o]
    BY <1>1 DEF KeysAreOwners, Stored
  <2>3. {outbox[d] : d \in Device} \ {NoKey} \subseteq ring[o]
    BY <1>1 DEF KeysAreOwners
  <2> DEFINE R == UNION {ring[d] \cup envelope[d] : d \in Device}
             B == {outbox[d] : d \in Device}
  <2>4. KeysInUse = R \cup ((Stored \cup B) \ {NoKey})
    BY DEF KeysInUse
  <2>5. R \subseteq ring[o] /\ Stored \ {NoKey} \subseteq ring[o] /\ B \ {NoKey} \subseteq ring[o]
    BY <2>1, <2>2, <2>3
  <2> HIDE DEF R, B
  <2> QED BY <2>5, <2>4
<1>3. OneKeyPerEpoch
  BY <1>1, <1>2 DEF OneKeyPerEpoch, KeysAreOwners
<1>4. RingAtMostOneAhead
  <2>1. SUFFICES ASSUME NEW d \in Device
                 PROVE  /\ Current(ring[d]) <= keyEpoch + 1
                        /\ Current(ring[d]) = keyEpoch + 1 => rotationRequired
    BY DEF RingAtMostOneAhead
  <2>2. ring[d] \in SUBSET Key /\ keyEpoch \in Nat
    BY <1>1 DEF TypeInv, TypeOK
  <2>3. Current(ring[d]) # 0 => \E k \in ring[d] : k.epoch = Current(ring[d])
    BY <2>2, CurrentIsHighest
  <2>4. \A k \in ring[d] : k.epoch <= keyEpoch \/ (rotationRequired /\ k.epoch = keyEpoch + 1)
    BY <1>1 DEF KeysAreOwners
  <2>5. CASE Current(ring[d]) = 0
    BY <2>2, <2>5
  <2>6. CASE Current(ring[d]) # 0
    <3>1. PICK k \in ring[d] : k.epoch = Current(ring[d])
      BY <2>3, <2>6
    <3>2. k.epoch \in Nat
      BY <2>2, <3>1, KeyFields
    <3> QED BY <2>2, <2>4, <3>1, <3>2
  <2> QED BY <2>5, <2>6
<1>5. SomeoneCanOpenAll
  <2>1. SUFFICES ASSUME Stored # {NoKey} PROVE HasAccess(o) /\ CanOpenAll(o)
    BY <1>1 DEF SomeoneCanOpenAll
  <2>2. CanOpenAll(o)
    BY <1>1 DEF CanOpenAll, Stored, KeysAreOwners
  <2>3. ring[o] # {}
    BY <2>1, <2>2 DEF CanOpenAll, Stored
  <2>4. HasAccess(o)
    BY <1>1, <2>3, KeysAssumption
       DEF OwnerStays, OneOwner, HasAccess, IsMember, HasRole, KeysAssumption
  <2> QED BY <2>2, <2>4
<1> QED BY <1>1, <1>3, <1>4, <1>5 DEF KeysAreDrawnOnce, StoredStaysReadable

(* With one device of the owner an epoch has one key wherever it is kept,  *)
(* and no ring waits for a rotation that is not due, however rotations are *)
(* cut short (service.rs ensure_key_epoch, crypto.rs rotate).              *)
THEOREM OneOwnerDrawsKeysOnce ==
    ASSUME NEW o, OneOwner(o)
    PROVE  Spec => []KeysAreDrawnOnce
<1>1. KeysInv(o) => KeysAreDrawnOnce
  BY KeysInvUse
<1>2. Init => KeysInv(o)
  BY KeysInvInit
<1>3. KeysInv(o) /\ [Next]_vars => KeysInv(o)'
  BY KeysInvStep
<1> QED BY <1>1, <1>2, <1>3, PTL DEF Spec

(* With one device of the owner what is stored stays readable to it, and   *)
(* pruning leaves the envelopes a new device needs (heads.ts               *)
(* commitCheckpoint, crypto.rs rotate: "Retired epochs are KEPT").         *)
THEOREM OneOwnerKeepsStoredReadable ==
    ASSUME NEW o, OneOwner(o)
    PROVE  Spec => []StoredStaysReadable
<1>1. KeysInv(o) => StoredStaysReadable
  BY KeysInvUse
<1>2. Init => KeysInv(o)
  BY KeysInvInit
<1>3. KeysInv(o) /\ [Next]_vars => KeysInv(o)'
  BY KeysInvStep
<1> QED BY <1>1, <1>2, <1>3, PTL DEF Spec
================================================================================
