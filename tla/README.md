# NetsuRush: TLA+ models and proofs

NetsuRush is a desktop editor for anime-style video editing: a Tauri shell (Rust) around a React
renderer, a Node service (`core/`) that drives DaVinci Resolve, Adobe hosts and ffmpeg, Python
sidecars for machine learning, and an optional real-time collaboration layer: every device keeps a
Loro document, seals its edits and stores them on a Convex deployment that cannot read them.

This directory holds the TLA+ modules that model the parts of the program where order, failure and
concurrency decide correctness, the TLC configurations that check them on small instances, and the
proofs that TLAPS checks for every instance. Paths below are relative to the repository's root.

Check a model with `tlc -config <cfg> <module>`, a proof with `tlapm <module>`. `PROJECT.json`
names, for every definition that models code, the file and the lines it stands for, the hazards each
property is about, and for each property a mutation of the model that it detects.

## Inventory

### Collaboration (src-tauri/src/collab, convex, the notebook of the renderer)

| Part | State | Operations | Hard behaviour |
|---|---|---|---|
| Actor, `service.rs` | open projects, role, cached roster, publish generation | one mailbox: Open, Apply, Undo, Publish, InboundUpdate, FlushCheckpoint, membership commands | many awaits inside one command; state read before an await and used after it |
| Store, `store.rs` | SQLite: `updates`, `checkpoint`, `outbox`, `local_sequence`, `publication_base` | `commit_local`, `confirm_through`, `save_checkpoint` | crash between any two transactions |
| Document, `doc.rs` | the Loro document, its shadow replica, a throttled `.loro` file | prepare, commit, merge, undo, compact | operation ids must survive a crash; peers read the document beside the actor |
| Recovery tables, `heads.ts` | one head per device, one checkpoint, revisions | `publishHead`, `commitCheckpoint`, `discardStaleHead` | compare-and-swap against concurrent publications, late retries |
| Membership and devices, `projects.ts`, `devices.ts` | members, invitations, proved devices, tombstones | invite, respond, remove, leave, change role, register, forget | changes while a key rotation is under way |
| Keys, `crypto.rs`, `heads.ts` | key ring per device, envelopes per device and epoch, `keyEpoch`, `rotationRequired` | rotate, wrap, install, commit the rotation, prune | rotation cut short, several devices of one account, payloads under old epochs |
| Peer exchange, `net.rs` | allow-list, roles, one worker per peer | `request_sync`, `serve_sync` | coalesced requests, failing exchanges, lost last frames |
| Media, `blobs.rs` | chunk files, partial files, records of references, pins | download, import, collect | resume, collection while referenced, two downloads of one hash |
| Session of a notebook, `useNotebookCollaboration.ts` | the last snapshot, what is pending, the open page | flush, project, pause, close | typing, page switches and remote edits at every await |
| Sharing of a collection, `collection/session.ts`, `collectionSharing.js`, `collectionAccess.ts` | the binding of the collection, one publication at a time, the rows of the project | range, publish, stop, remove, register | a publication cut at any await, joined by others, overtaken by a stop |

What makes them correct: an edit a user saw acknowledged is never lost, is never sent under a
sequence number used for something else, and reaches the server in the end; a compaction deletes only
what it absorbed; every device that has access, and no other, gets the keys it needs; what is stored
under a hash is what hashes to it; what is typed is shown, sent and not overwritten; what is shared can be recovered, resumed and stopped.

### Host bridge and queues (core)

| Part | State | Operations | Hard behaviour |
|---|---|---|---|
| Resolve bridge, `resolve-bridge.js`, `resolve-proxy.js` | one helper process, pending requests, handle registry, operation depth | `rpc`, `connect`, `reset`, `stop`, operation brackets | respawn with requests outstanding, overlapping operations sharing one registry |
| Send queue, `outbox.js` | entries on disk, a timer | enqueue, flush, remove, settings | crash between building and recording, edits of the queue during a flush |
| Host power, `hostPower.js`, `resolve-watch.js` | the operation under way, the host to reopen | close, reopen, restart, reconcile, poll | waits for another process, the user doing the same by hand |
| Project snapshot, `projectSnapshot.js` | slices in memory and on disk | capture, warm, clear | a sweep with an await before each reading, any of which, and any writing, may fail |
| Export gate and jobs, `export/gate.js`, `export.js` | slots, limits, waiting clips | register, acquire, release, drain | limits that come and go, parts of a merge that fail |
| Archive queue, `archiveQueue.js` | persisted entries, a timer | enqueue, cancel, pump | restart in the middle of an archive |
| Collection archives, `collectionArchive.js`, `upscaleLedger.js` | files numbered by index, entries, ledger | archive, relocate | renumbering, copies over files still needed, edits meanwhile, failed copies, commits and deletions, kills between them |
| Detection pool, `scheduler.js`, `sidecars.js` | warm daemons, waiting detections | acquire, ask, release, kill | hand-over of a daemon that died or still speaks |
| Preview encodes, `proxy.js` | two waiting lists, a limit, marks of cancellation | request, cancel, pump | refusals that lower the limit, marks that outlive a request |
| Discord presence, `discordRpc.js` | the held socket, probes, throttle | connect, send, switch | late events of replaced sockets |
| Edit lists, `export/editList.js` | the times of the pictures of a file | snap, shorten | rounded, reordered and made-up times |
| Assistant, `core/agent`, `store/chat.ts` | turns, permission mode, calls that wait, one card | send, cancel, tool call, answer | cancelled turns go on, answers and settings in any order |

### Left aside

The renderer's other components, the native player (a wrapper of libmpv), the Python sidecars, the
CEP panel, timeline format conversion, the community tables of Convex and the packaging scripts: user
interface, numerical code, single-row transactions or code whose behaviour lies in a library. See
"Not modelled".

## Modules

| Module | Models |
|---|---|
| `ConvexHeads` | the recovery tables of one project and the mutations on them |
| `CollabSync` | the actors, stores and documents of the member devices, extending `ConvexHeads` |
| `SharedEditing` | what a shared project promises: the abstract specification of `CollabSync` |
| `CollabSyncInvariants` | the inductive invariants of `CollabSync`: no code, only what the proofs need |
| `ProjectKeys` | membership, devices, key rotation and the security refresh of every device |
| `PeerSync` | the exchange of a document between devices |
| `MediaBlobs` | one media file in the store of a device |
| `NotebookSession` | a shared notebook in the editor |
| `CollectionShare` | the collection its owner shares |
| `ResolveBridge`, `ResolveHandles` | the helper process that drives Resolve; the operations that share it and the purge of its registry |
| `Outbox`, `HostPower` | the send queue; closing and reopening the host, extending it |
| `ProjectSnapshot` | the cache of what was read from the project |
| `EncodeGate`, `ArchiveQueue` | the gate and the exports through it; the queue of archives, extending it |
| `CollectionArchive` | the archive of one collection |
| `DetectPool` | the pool of detection daemons |
| `ProxyQueue` | the queue of preview encodes |
| `DiscordPresence` | the connection to Discord |
| `EditList` | frame-exact cuts of a stream copy |
| `Order` | sorting a set and filtering a list, for `EditList` and `ArchiveQueue` |
| `AgentTurns` | turns of the assistant and their tools |
| `MCCollabSync`, `MCProjectKeys`, `MCResolveHandles` | small instances of one module |
| `MCServices`, `MCCore` | several parts side by side: a behaviour exercises one of them (`service`, `instance`) and leaves the others at rest, so one run checks them all at the cost of their sum |
| `CollabSync_proofs` | theorems about `CollabSync`: types, numbers and base; durability, ids and the refinement |
| `ProjectKeys_proofs` | theorems about `ProjectKeys` |
| `Files_proofs` | theorems about `CollectionArchive`, `ArchiveQueue` and `EditList` |
| `Connections_proofs` | theorems about `PeerSync`, `MediaBlobs` and `DiscordPresence` |
| `HostAccess_proofs` | theorems about `ResolveBridge` with `ResolveHandles`, `ProjectSnapshot`, `Outbox` with `HostPower` |
| `Schedulers_proofs` | theorems about `EncodeGate`, `DetectPool` and `ProxyQueue` |
| `Sessions_proofs` | theorems about `NotebookSession`, `CollectionShare` and `AgentTurns` |
| `Composition_proofs` | theorems about `MCServices` and `MCCore`, and about `ArchiveQueue` over the gate |

What composes what: `CollabSync` runs the mutations of `ConvexHeads`; `ArchiveQueue` sends its
archives through `EncodeGate` beside other exports; `HostPower` sets off the flushes of `Outbox`, and
its kills and launches happen to the host those build in; `ResolveHandles` runs over `ResolveBridge`.

### ConvexHeads

A Convex mutation is one serialisable transaction, so every mutation is one action. `heads` is the
table `projectHeads`, a function on devices because a device has at most one row; `checkpoint` is the
one row of `projectCheckpoints`; `inserted` numbers the documents, since a deleted and re-inserted row
gets a new id. Contents are the sets of operations the ciphertext would open to. `PublishStatus` and
`PublishedRow` are the branches of `publishHead`; `CasMatches` and `CommitCheckpoint` are
`checkpointCasMatches` and `commitCheckpoint`.

### CollabSync

An operation is `<<author, counter>>`, the id Loro gives it, and `past` is what its author had
applied. A replica is the set of operations it received; `Applied` are those whose past is there,
which is how Loro imports. Per device: `doc` (the document, or the `.loro` file when closed),
`updates`, `snapshot`, `seq`, `pending`, `base` (the SQLite tables `updates` and `checkpoint`, the
newest unpublished row of `outbox`, `local_sequence`, `publication_base`), `due` (a Publish of the
current generation is scheduled) and `call` (the command the actor is in and the locals it carries
over the await).

| Action | Code |
|---|---|
| `Edit` | Command::Apply: shadow batch, `commit_local`, then the live import |
| `Undo`, `FinishUndo` | Command::Undo: live document first, store after |
| `StartPublish`, `ServePublish`, `FinishPublish` | `publish_latest` around its mutation |
| `ReadCheckpoint`, `FinishRecovery` | `recover_from_convex`, then `enqueue_current_state` |
| `ReadCheckpoint`, `ReadHeads`, `ServeCommit`, `FinishCommit` | `compact_remote_set` at its awaits |
| `InboundUpdate` | what an exchange with a peer delivers to the actor |
| `Timeout`, `ServeLate` | the HTTP client gives up; the server may still execute the request |
| `Crash`, `Open` | the process dies; the store is replayed over the last `.loro` file |
| `Discard` | the owner drops a stale head |

Simplifications: the age that makes a head stale, the thresholds of a background compaction and the
debounce of publications are nondeterministic; every caller is a proved writer under the current key
epoch (`ProjectKeys` looks at the rest); an undo is an operation like any other. A device makes no new
operation while its counter would give out an id already used (`NextOp(d)` is not in `made`). That this
never happens is `FreshOperationIds`: proved as long as no process dies inside an undo (`NoUndoIsCut`), so
that the guard hides nothing there. A crash between the two halves of an undo takes from the author an
operation others may hold, and its id would be given out again; from there on the model authors no more.

### ProjectKeys

Server: `role`, `invited`, `registered`, `revoked`, `keyEpoch`, `rotationRequired`, `envelope`,
`heads`, `checkpoint`. Device: `ring` (its keys), `outbox` (the key its pending envelope is sealed
with), `job` (the command it is in, split at its awaits). A key is the epoch it was drawn for and a
draw number, so two calls of `rotate()` are two keys. A payload is reduced to the key that opens it.

`LoadRoster`, `InstallEnvelopes`, `PutKeyEnvelope`, `CommitKeyRotation` and `Distributed` are
`load_roster` and `ensure_key_epoch`; `Recover` is the rest of `refresh_project_security`;
`ReadRemoteSet` and `CommitCheckpoint` are a compaction; `PublishLatest` ends Publish and
FlushCheckpoint. The membership mutations are one action each, and those of them that continue into a
security refresh leave the caller's `job` at "roster". `drawn` and `leftAt` are history variables.

Simplifications: seat limits, expiry and the registration challenge are left out (an expired
invitation is one that is cancelled); the second roster read after a rotation only refreshes the
cached role; an actor works on one project, so commands of other projects do not delay it.

### PeerSync, MediaBlobs, NotebookSession

`PeerSync`: `requests[pq]` is the worker of a pair and its trailing pass, `exchange[pq]` where
`sync`/`serve_sync` stand (`AskPeer`, `AnswerPeer`, `AcceptAnswer`, `Push`, `Close`), `lastFrames` what
was sent on a connection that is closed behind it. A document is a set of edits and a version says
which; the merge of Loro is the union, the refusal of a peer by its role is modelled, tickets and the
endpoint are not.

`MediaBlobs`: `stored`, `part` are the two names a file may have, as sequences of chunk numbers (a chunk
that is not its own number is damage); `fetch[f]` is one call of `fetch_blob` at its awaits;
`refers`, `pinned` are what the documents say and what the records on disk say; `unreferenced` the
grace period. `RecordsPins` and the collection are the actor's.

`NotebookSession`: `document` is the live document of the service, `base` what it was at the session's
`baseRevision`, `snapshot` the ref of that name, `open` and `corePages` the page in the editor and the
pages stored; `step` is where the async functions of the hook stand and `flags` its booleans. A page is a set
of letters: the hook sends differences of texts, and what matters here is against which text.

### CollectionShare

`ranged` is the local collection, `binding` its `collaboration` (`projectId`, `pendingProjectId`,
`publishedShotIds`), `projects`, `claims` and `recoverable` the server's projects, their
`collectionEntries` and whether they have a head or a checkpoint, `holds` the entries in the documents.
`job` is `publish()` with its locals, at the await it stands at; `waiting` are the calls of
`rangeShots` that await it.

| Action | Code |
|---|---|
| `AddToCollection`, `PublishRanged`, `TakeOut` | `rangeShots` before and after its writes; the removal of a shot that is not shared |
| `Share`, `StopDeletes`, `StopUnbinds`, `RemoveClaim` | the sharing card; the removal of a shared shot |
| `LoadCollection` to `OpenShare`, `Gather` to `SaveBinding` | `publish()`, with `Register` one batch of claims |
| `StartPrepare`, `EndPrepare` | `prepare` in the core, which archives |
| `StageFails`, `Abort`, `Unreserve`, `ShareCloses` | its catch; the program is closed |

Simplifications: a shot is archived or not; metadata, media manifests and roles are left out, and so are the members'
entries, whose names differ; the service may publish a head or a checkpoint at any time while the project is open.

### ResolveBridge and ResolveHandles

`helpers` are the processes spawned so far with their pipes (`inbox`, `outbox`) and registries; a
helper serves its requests in order and may hang. `child`, `torn` (a begun line is in `buf`), `calls`
and `call` are the variables of `createResolveBridge`, an entry of `pending` being a call that is
"waiting". An object is named by the helper that issued it and its number, so that a number used
again is seen.

| Action | Code |
|---|---|
| `Rpc` | `ensure` and `rpc` |
| `Serve` | one turn of `main` in `resolve_helper.py` |
| `Deliver` | the stdout handler, one line |
| `Timeout`, `Crash`, `Exit`, `Stop` | the deadline of a call, the death of a helper, its exit event, `stop` |
| `BeginOp`, `EndOp` | `guarded` and `rOp` around a handler |
| `GetResolve`, `AfterConnect`, `AfterReset` | `getResolve` at its awaits, with the cool-down of `connect` |
| `Take`, `Use`, `AfterCall` | a method of the root object, a method of an object it returned |

Simplifications: one helper serves one call at a time and an operation awaits one call at a time, as
the code says; deadlines may fire in any order and the cool-down end at any time; a call that fails
in the host ends the operation like one that throws; a write to a dead helper is lost; the registry
keeps its numbers when Resolve itself is reopened, as in the code, but that is not distinguished.

### Outbox and HostPower

`box` and `status` are `state.queue` in memory, `boxFile` the file; entries are objects shared by the
queue and a flush (`flushList`, `applying`). Entries are numbered as they are made and every list is in that
order, so that queue, file and flush are sets of numbers and the next one is the oldest. `Build` is what the host does with an entry. `power` is
the step of close, reopen or restart, `busyKind` the busy flag, `closedHost` the record on disk,
`seen` the poller's last signature. The host (`hostUp`, `unsaved`, `openTl`) also does what its user
does (`UserActs`), at most `MaxHostChanges` times. The Adobe hosts go through the same steps.

### ProjectSnapshot

`snap` and `onDisk` are the snapshot in memory and in the file, a slice being the project and revision
it was read from. `sweep` is a capture at its awaits; the warming channels of `rpc.js` and `clear` run
beside it, the user edits and opens other projects, and the core may be killed. Each reading may end as
null: the media pool's ends the capture (`CaptureFails`), the others leave their slice as it was and the
capture goes on (`CaptureTimelines`, `CaptureTree`, `CaptureCuts`), having noted that it lacks something
(`sweep.lacks`, the checks of `requireComplete`). A list of timelines that could not be read counts as
empty, so the cuts are dropped. A checkpoint in the middle of the cuts that cannot be written leaves the
file as it was and is made up for at the end; a last writing that fails, or anything lacking, ends the
capture without success (`CaptureIncomplete`), with what was read in memory. Only `CaptureReturns` reports
success, and `ACaptureIsComplete` says that what it reports is so, after any of this.

### EncodeGate and ArchiveQueue

`gateActive`, `waiters` and `registered` are the counter, the queue and the limits of `gate.js`;
`encoding` are the clips that really run, which the counter must equal; `phase`, `nextClip`, `crew`
are an export's pool of workers. The wake-up loop of `drain` is the operator `Woken` (how many of the
first waiters get a slot). An archive is one of the exports; `entries` is the queue and its file, which
every handler rewrites, so a killed core starts again from it (`CoreKilled`); `archiveStage` is how far the
archive under way is.

### CollectionArchive, DetectPool, ProxyQueue

`CollectionArchive`: a file is `<<folder, index>>` and holds a content, which is what the fingerprint
covers; `disk`, `collEntries`, `ledger` and `task[r]` are the files, the entries of the collection, the
ledger, and a call of archive or relocate. The plan and the copies run without an await, one step;
then clips are encoded one by one; then the entries are committed and what they let go is deleted.
A copy or a move that fails leaves its target as it was, half written, gone or, for a move, whole beside
its source (`Fates`), and its shot is encoded instead. At the end a commit may be refused, which the code
does not look at, so that the files the old entries name are pruned all the same (`CommitRefused`); a
file may refuse to be deleted, which the code passes over (`LockedFilesStay`); and the core may be killed
before the commit or between it and any deletion (`KilledWhileFinishing`), or at any copy
(`KilledWhileCopying`) or encode. A copy that fails over a file whose encode then fails leaves a ledger
that still names what the file held; this is why `EntriesAreFaithful` is about the calls no such
accident has cut.

`DetectPool`: `busy`, `queue`, `poolSize` are `makePool`'s; `asked`, `work`, `line`, `late`,
`tornLine` say for whom a daemon's process works and what is in its pipe; a process may hang or die at any point,
`Watchdog` kills it, `OneShotEnds` is the fallback.

`ProxyQueue`: requests by number, with the `token` they carry; `qHigh`, `qLow`, `proxyMax`,
`proxyActive`, `okStreak`, `cancelled` are the module's variables; `stage[r]` is where the async road
of a request stands.

### DiscordPresence, EditList, AgentTurns

`DiscordPresence`: a line is a connection; it has Discord's side of it (what it shows, how long its window
still is) and `sock` is the one the core holds. Assumed of Discord: one activity per window and
connection is taken, the others are ignored; what is shown goes with its connection. A pipe that accepts
but is not Discord's is in the model. PING/PONG and the buffering of frames are reduced to what they do.

`EditList`: one action, `TrimEditList`, from every file the constants describe (`CutInit`). A picture
has a presentation time and a decode time; `ConformMoov` snaps them on the grid, `TrimMoov` shortens the
span. Box parsing and run-length tables are reduced to the values they hold.

`AgentTurns`: `chatRunId`, `chatApproval` are the chat's, `permMode`, `duplicateFirst`, `asks`,
`callSeq` the gate's, `runs`, `activeCliRun` the session's; `turnStage`, `batch`, `toolStage`, `current`
say where the loop of a turn and its tool stand. Requests arrive in any order, events in order. Assumed:
no event is lost and the core does not restart under a chat (its call numbers start again); killing a
command-line agent ends it, and it calls one tool at a time.

## Runs

| Run | Instance | Shows |
|---|---|---|
| `collab_sync_safety` | two writers, one edit each, one crash or timeout, sequence numbers to 2, two checkpoints | the safety properties of `CollabSync` |
| `collab_sync_live` | a writer and a reader, two edits, an undo, one crash or timeout | `ImplementsSharedEditing`, `EditsReachServer` |
| `collab_sync_lost_branch` | a writer and a reader, two edits | violation of `PublishedStaysRecoverable` |
| `project_keys_safety` | one device each of an owner and a member, four membership changes, three epochs, one failure, one edit; with the member's second device (`SafetyBound`) two changes and two epochs | keys are drawn once, what is stored stays readable, no envelope is left for a device without access |
| `project_keys_live` | one device each, two changes, two edits, one failure, three epochs | rotations complete, new devices can recover, edits are published |
| `project_keys_two_owner_devices` | two devices of the owner | violation of `OneContentKeyPerEpoch` |
| `services_live` | an archive and another export of one clip and a merge of three, three entries of a collection, one kill; two daemons, three detections, two deaths; the host with two changes by hand; two writers, two edits, one fault | what waits is served, what is begun ends, for the gate, the archive queue, the pool, the host and the peers |
| `core_safety` | see below | what is recorded stays true of the files, the host and the other devices |
| `resolve_handles_overlap` | two bracketed operations, six calls | violation of `HandlesStayValid` |
| `archive_return` | three shots, a content that comes back | violation of `CommitsAreFaithful` |
| `media_two_downloads` | two downloads of one file | violation of `StoredIsWhole` |
| `notebook` | two pages, one letter of each side, one visit, one refused call or renewal of the sign-in, one session | `SessionIsFaithful`, `SessionsCatchUp` |

`core_safety` runs, one at a time: one archive of three shots, with a change of folder and one
mishap (a failed copy, move, encode, commit or deletion, a kill, or a file the user deletes); two projects of two timelines under a capture, with one change by the user and one reading, writing or life of the core lost; two sends with a kill of the core; one send
under the operations on the host (what changes by hand do to these is in `services_live`); a bracketed and an unbracketed operation of
five calls on the bridge, with one crash or stop; a file of two chunks, one download and an import in
two projects; two writers and a reader with two edits; two preview encodes under two tokens; three
connections to Discord under a window of three ticks; files of up to three frames with two before
them; two turns of the assistant, one of them a command-line agent's, two calls that wait and one
change of a setting; two shots ranged into a collection shared in up to two projects, claimed one by one, with one fault.

Why these bounds: two writers with an edit each already give every order of publish, merge, recover
and compact; a number is at risk only when a device seals twice, which a single edit followed by a
merge or a restart does; one late request is enough to arrive after newer state. For the keys, four
changes let a member join, be demoted and leave during the rotation this causes, and a second device
of the member lets one be revoked while the other stays. The third epoch of the liveness run lets the
two changes each be followed by a complete rotation; beyond `MaxEpoch` no rotation starts. A merge of
three clips has one that waits while another fails. Three detections over two daemons have one that
waits for a hand-over, and two deaths strike before and after it. Five calls on the bridge are a whole
operation (connect, purge, take an object, connect again and purge), and every deadline may kill a
helper, so respawns need no further bound. Three shots are the fewest for a chain of two copies behind a removal. Two
requests under one token are the fewest for a mark that is left behind; the limits of `proxy.js` (12
and 3 sessions, a streak of 4) are replaced by 2, 1 and 1, which keep a limit that falls and heals.
Two turns are the fewest that overlap, and two calls the fewest a card can be mistaken between. A second project is needed to share again what was stopped, a second shot for a
batch that is refused after one that was taken. The
frames of `EditList` are twelve ticks with sources rounded to 1, 7 and 11 of them, below and above
half a frame.

Deadlock is not checked: when the bounds are used up nothing is left to do. `SlotsAreExact`,
`RequestsAreServed`, `AnnouncedWorkIsDone` and the liveness properties say where the system itself must not stop.

### Properties

| Property | Says |
|---|---|
| `SequenceNeverReused` | a sequence number names one content for ever |
| `BaseWasAccepted`, `UnacceptedIsQueued` | the delta encoding of heads is safe: the base covers only accepted operations and the newest envelope all the others |
| `FreshOperationIds` | no operation id is given out twice after a crash |
| `CompactionKeepsBranches` | a compare-and-swap that succeeds replaces only what it contains |
| `ImplementsSharedEditing` | what was made durable stays, what was published or absorbed stays so, each with its causal past |
| `EditsReachServer` | what is durable is published in the end |
| `KeysAreDrawnOnce`, `StoredStaysReadable`, `EnvelopesOnlyForMembers` | an epoch has one key and no ring waits for a rotation that is not due; some device opens all that is stored and pruning takes nothing needed; no envelope without access |
| `DevicesGetTheirKeys`, `EditsArePublished` | rotations complete, new devices can open everything, a rotation strands no edit |
| `WritersFinishEqual`, `EditsReachWriters` | when exchanges end the writers hold the same edits, and they end so |
| `StoredIsWhole`, `ReferencedIsKept` | what has its final name hashes to it; a collection removes nothing referred to |
| `SessionIsFaithful`, `SessionsCatchUp` | differences are made against what they are applied to and typing stays on screen; what is typed is sent, what is announced is shown |
| `AnswersMatch`, `HandlesStayValid` | an answer reaches the call it was made for; what a bracketed operation holds stays registered |
| `SendsAreKept` | a send is built once per life of the core, and waits on disk until then |
| `HostOperationsSettle` | operations end; the record of a closed host stays while it is true and no longer |
| `ACaptureIsComplete` | a capture that reports success undisturbed has all slices, current, on disk, whatever failed in it or before |
| `SlotsAreExact`, `NoClipWaitsForEver` | the counter is the number of clips encoded and nobody waits for a free slot |
| `AnnouncedWorkIsDone` | archives that are announced are kept and done, one at a time, and somebody will look at what waits |
| `EntriesAreFaithful`, `CommitsOrphanNothing` | an entry up to date names a file that holds its shot; the prune takes nothing named, and leaves nothing it should take unless a deletion fails or a kill cuts it |
| `DaemonsServeTheirHolder`, `EveryDetectionEnds` | a daemon works for the one detection that holds it; every detection ends |
| `RequestsAreServed` | requests are counted, none waits beside a free slot, and only those stop that were cancelled |
| `PresenceIsHonest` | no line is left open, what is shown is what is wanted or will be, somebody reconnects |
| `CutsAreExact` | a cut starts on its first frame, lasts its frames, decodes in time |
| `ToolsRunAsAgreed` | nothing runs that was denied, what destroys was agreed to on the card of that very call, the copy was made before |
| `SharesAgree` | no row on the server without its entry in the document, nothing counted as published that was not claimed, no shared project the collection does not name |

Each module that keeps state also has a type invariant (`TypeOK`, or joined in `ServicesTypeOK` and
`CoreTypeOK`).

### Fairness

The actor's mailbox is a FIFO queue and a scheduled Publish is a message in it: other commands cannot
overtake it for ever, which is strong fairness of `StartPublish`. A command under way is finished
(weak fairness of each of its steps), and a closed project is opened again. In `ProjectKeys` every
connected device keeps running its commands (weak fairness), the renewal of the session token brings a
full security refresh again and again (`Recover`) and a pending envelope is published in the end.

In the core process and the renderer the event loop runs what is ready and timers fire: weak fairness
of the continuations and timers of `EncodeGate`, `ArchiveQueue`, `DetectPool`, `HostPower` and
`NotebookSession`. An encode, an archive and a one-shot detection end, since ffmpeg does; a daemon
replies, hangs or dies, and one that hangs is killed by its watchdog. The waits of a host operation have deadlines, so that one of its outcomes happens. The workers of
`PeerSync` run until their exchange ends, which has timeouts.

No fairness is assumed of edits, membership changes, of what the user or the host does, or of
failures, and the number of failures is bounded. `ResolveHandles`, `ProxyQueue`, `DiscordPresence`,
`CollectionArchive`, `ProjectSnapshot`, `MediaBlobs`, `AgentTurns` and `CollectionShare` are checked for safety only.

### What the code does not keep

Five runs end in a violation of something the documentation or a comment says. `PROJECT.json` quotes
the sentences.

- *A published branch may leave the server* (`collab_sync_lost_branch`). A confirmed head moves the
  publication base, so the next head carries only what came later, but it replaces the first one in
  the server's single row for that device.
- *Two devices of the owner can use two keys for one epoch* (`project_keys_two_owner_devices`).
- *An operation may purge its own handles* (`resolve_handles_overlap`): if its first `getResolve` ran
  beside another operation it did not purge, and the first one after that operation ended does.
- *An archive may commit a file that holds another clip* (`archive_return`): a copy whose source an
  earlier copy of the same plan overwrote, when a content returns further down.
- *Two downloads of one file share its partial file* (`media_two_downloads`): one appends between the
  other's check of the hash and its renaming.

Other statements are written down as definitions that no run keeps, because the code does not:

| Definition | What happens instead |
|---|---|
| `ProjectKeys!RemovedLacksNewEpoch` | a device that loses its access during a pending rotation it was served for keeps the new key |
| `PeerSync!PeersFinishEqual` | a reader that relays a writer's edits is refused, and the exchange ends before it gets what it lacks |
| `MediaBlobs!ImportIsStored` | an import drops its copy because the content is there, and a collection removes that |
| `NotebookSession!TypingLeavesAsABatch`, `NothingIsErasedUnasked` | a page left before its edit was captured, or opened before it was stored, loses letters; leaving the session drops what it has not sent |
| `ResolveBridge!OneHelper` | the exit of a stopped helper forgets its successor: its calls are rejected and it is never killed |
| `Outbox!SinglesAreCollected` | with one collecting timeline, later sends go to whatever timeline is open |
| `HostPower!KilledOnlySaved` | the user, or a flush, works between the save and the kill |
| `ProjectSnapshot!NoMixOfProjects` | a failed capture leaves slices of two projects |
| `CollectionArchive!LockedFilesAreTriedAgain` | a file that could not be deleted is named by no entry any more, so no later archive tries it again (the comment at `collectionArchive.js:81`), and it stays |
| `CollectionArchive!ListedFilesAreTheirShots` | relocate lists a file for a shot never archived, which may be another shot's |
| `ProxyQueue!StopAllStops`, `StopsKeepTheLimit` | a stopped request may be encoded in software; stopping a hardware encode lowers the limit |
| `EditList!EndsWithItsFrames` | a cut of one frame lasts to the next copied picture, a hole included |
| `AgentTurns!CancelledTurnsStop`, `AsksAreShown` | a cancelled turn goes on with its batch, its call can still be allowed, and its card replaces that of the next |
| `AgentTurns!FailedTurnsEnd` | a loop that fails before the answer tells no end, and the chat shows it as running |
| `AgentTurns!ReadOnlyChangesNothing` | the timeline is duplicated before the mode is asked |
| `AgentTurns!CliToolsAreTraced` | a cancelled agent that closes late takes the name of the next one, whose tools leave no trace |
| `CollectionShare!RangedIsPublished` | a range that joins a publication whose shots are gathered answers ok, and its shot waits for the next one |
| `CollectionShare!RetriesAreAccepted` | an entry removed before its publication was recorded makes every retry fail, and with it every later range |
| `CollectionShare!BoundProjectsExist` | a publication that saves after a stop, or a give-up whose answer is lost, leaves the collection bound to a project that is gone, which stopping cannot undo |

An undo is made in the live document before the store is written, so a peer may have it when a crash
takes it from its author; the exchange with peers is a module apart from the stores, and no definition
states this. A core that is killed while it archives may afterwards have two entries of one collection side by
side; each is archived, the second finds nothing to do. A handle that is used after its helper was
replaced names whatever its number names there, which `HandlesStayValid` excludes only for bracketed
operations.

## Proofs

The theorems hold for every value of the constants and rest on the assumptions the modules state of them
and on nothing else: the bounds are natural numbers, the writers are devices, and values that mean
"none" are not among the values they stand beside; for the cuts, a tick of the movie is less than half a frame (at
ffmpeg's 1000 ticks a second: below 500 frames a second). The bounds limit what TLC explores; no proof uses that they are small.
Nine theorems have a hypothesis that the code does not establish: two of `ProjectKeys` suppose that the
owner uses one device, two of `ResolveHandles` that no two operations with handles overlap, one of
`MediaBlobs` that a file is downloaded once at a time; `IdsStayFresh` supposes that no process dies inside
an undo. A run or a definition shows what happens without each of these. The two of `CollectionArchive`
and `CoreTypes` suppose that the calls for one collection come one after the other (`OneCall`); the queue sees to that for
its own, but a change of folder, and the archive that precedes a publication, may run beside it, and then
an encode that fails in one call ruins what the other has listed. That no content comes back (`MayReturn`)
is needed too, for the first of them, as `archive_return` shows.

| Theorem | States | Rests on |
|---|---|---|
| `CollabSync_proofs!TypeCorrect` | `Spec => []TypeOK` | `TypeOK` is inductive |
| `CollabSync_proofs!NumbersNameOneContent` | `Spec => []SequenceNeverReused` | `NumbersAreBounded` |
| `CollabSync_proofs!BaseCoversAcceptedOnly` | `Spec => []BaseWasAccepted` | `PublicationInv` |
| `CollabSync_proofs!CompactionIsSafe` | `Spec => CompactionKeepsBranches` | `CompactionInv`, `OpsAreMade`, `OpsAreAccepted` |
| `CollabSync_proofs!UnacceptedStaysQueued` | `Spec => []UnacceptedIsQueued` | `StoreInv` and all of the above |
| `CollabSync_proofs!DevicesKeepThePromise` | `Spec => ImplementsSharedEditing` | `PromiseInv` and all of the above |
| `CollabSync_proofs!IdsStayFresh` | `Spec /\ NoUndoIsCut => []FreshOperationIds` | `IdsInv`, `StoreInv` |
| `ProjectKeys_proofs!TypesHold` | `Spec => []TypeOK` | `TypeInv` |
| `ProjectKeys_proofs!EnvelopesFollowAccess` | `Spec => []EnvelopesOnlyForMembers` | the types |
| `ProjectKeys_proofs!OneOwnerDrawsKeysOnce` | `OneOwner(o)` gives `Spec => []KeysAreDrawnOnce` | `KeysInv(o)` |
| `ProjectKeys_proofs!OneOwnerKeepsStoredReadable` | `OneOwner(o)` gives `Spec => []StoredStaysReadable` | `KeysInv(o)` |
| `Connections_proofs!WritersEqual` | `PeerSpec => []WritersFinishEqual` | `PeerInv` |
| `Connections_proofs!OneDownloadStoresWhole` | `BlobSpec /\ []OneAtATime => []StoredIsWhole` | `RenamesWhole` |
| `Connections_proofs!NothingReferencedIsCollected` | `BlobSpec => ReferencedIsKept` | `PinsInv` |
| `Connections_proofs!PresenceFollowsTheUser` | `PresenceSpec => []PresenceIsHonest` | `PresenceInv` |
| `HostAccess_proofs!AnswersAreToTheirCalls` | `Spec => []AnswersMatch` | `HandlesInv` (`IdsInv`) |
| `HostAccess_proofs!HandleTypes` | `Spec => []TypeOK` | `HandleTypesInv` |
| `HostAccess_proofs!HandlesOfTheOneOperationStay` | `Spec /\ []OneInFlight => []HandlesStayValid` | `HandlesInv`, `BracketInv`, `SafeInv` |
| `HostAccess_proofs!HandlesStayWithOneBracket` | one bracketed operation gives `Spec => []HandlesStayValid` | the theorem above |
| `HostAccess_proofs!ACaptureThatReturnsIsComplete` | `SnapSpec => ACaptureIsComplete` | `HeldBackInv`, `GapInv`, `SweptInv` |
| `HostAccess_proofs!AnnouncedSendsAreKept` | `PowerSpec => []SendsAreKept` | `BuildsInv` |
| `HostAccess_proofs!ClosedHostsStayOnOffer` | `PowerSpec => ClosedHostCanBeReopened` | `OfferInv` |
| `Schedulers_proofs!SlotsStayExact` | `GateSpec => []SlotsAreExact` | `GateInv` |
| `Schedulers_proofs!GateStaysTyped` | `GateSpec => []GateTypeOK` | `GateInv`, `CrewInv` |
| `Schedulers_proofs!EveryDaemonServesItsHolder` | `DetectSpec => []DaemonsServeTheirHolder` | `DetectInv` |
| `Schedulers_proofs!RequestsStayServed` | `ProxySpec => []RequestsAreServed` | `ProxyInv` |
| `Sessions_proofs!SessionStaysFaithful` | `NotebookSpec => []SessionIsFaithful` | `NotebookInv` |
| `Sessions_proofs!NotebookTypes` | `NotebookSpec => []NotebookTypeOK` | `NotebookInv` |
| `Sessions_proofs!SharesStayInAgreement` | `ShareSpec => []SharesAgree` | `ShareInv` |
| `Sessions_proofs!AgentsRunWhatWasAgreed` | `AgentSpec => []ToolsRunAsAgreed` | `AgentInv` |
| `Files_proofs!EntriesStayFaithful` | `~ MayReturn` gives `CollSpec /\ []OneCall => []EntriesAreFaithful` | `StructInv`, `OwnInv`, `TruthInv` |
| `Files_proofs!CommitsLeaveNoOrphans` | `CollSpec /\ []OneCall => CommitsOrphanNothing` | `StructInv` |
| `Files_proofs!CutsStayExact` | `CutSpec => []CutsAreExact` | `CutInv`, `CopiesAreReady` |
| `Files_proofs!QueueStaysAwake` | `ArchiveSpec => []QueueNeverSleeps` | `ArchivesInv` |
| `Files_proofs!AnnouncedStaysKept` | `ArchiveSpec => AnnouncedWorkIsKept` | `ArchivesInv` |
| `Composition_proofs!SlotsSurviveKills` | `ArchiveSpec => []SlotsAreExact` | `GateInv`, `CrewInv` |
| `Composition_proofs!ServicesRunAsAlone` | `ServicesSpec => DetectSpec /\ PowerSpec /\ PeerSpec` | the steps |
| `Composition_proofs!ServicesTypes` | `ServicesSpec => []ServicesTypeOK` | `GateAndQueue` and the theorem above |
| `Composition_proofs!ServicesStaySafe` | `ServicesSpec =>` the safety properties of the services | the same |
| `Composition_proofs!PartsRunAsAlone` | `CoreSpec =>` the specifications of eight parts | the steps |
| `Composition_proofs!CoreTypes` | `CoreSpec /\ []OneCall => []CoreTypeOK` | `HostPeersAndCuts` and the theorem above |
| `Composition_proofs!CoreStaysSafe` | `CoreSpec =>` the safety properties without hypothesis | the same |

Except for the types of `CollabSync` and the envelopes of `ProjectKeys` none of them is inductive. The
strengthenings for `CollabSync` are in `CollabSyncInvariants`, the others head their proofs; TLC found each
to hold on the instances of the runs before it was proved. The types of the modules proved about are
theorems too, next to the others.

- *Numbers.* A step either seals nothing, and every envelope about (queued, in flight, delayed,
  stored) was about before, or seals one envelope under the next number of its device. Needed:
  every number about is at most `seq`.
- *Base.* The base moves to the version of the document when the answer arrives. That is safe because
  nothing else moves a publishing actor (`PublishesPending`: what it confirms is its newest envelope),
  and the document of an open writer is accepted or in that envelope, except inside an undo
  (`DocIsQueued`). These three need each other and `OpsAreMade`, `OpsAreAccepted`.
- *Compaction.* Ids are not used again, revisions and epochs only grow (`RowsAreCounted`), so a request
  that still matches would have matched at any time since it was made, over the same checkpoint and
  branches; it contains all that was usable of them when it was made (`RequestsKeepBranches`), and
  what is usable of authored operations does not change (`AppliedIsStable`).
- *Durability.* A writer's store is closed under the causal past (`StoresAreClosed`), so opening the
  project makes all of it usable; from then on the document of an open project contains what is on
  disk and not accepted (`DiskHoldsDoc`), and each sealing covers the document above an accepted base.
  Closure survives a compaction because a saved snapshot is only replaced by a newer checkpoint
  (`SnapshotsAreOld`), which is where the compaction theorem is used.
- *Refinement.* `Kept` is what a writer's disk holds, `published` what the server ever accepted,
  `absorbed` the operations of the checkpoint. A step keeps, publishes or absorbs, or changes nothing of
  the three. That what is published is complete needs `PromiseInv`: an envelope carries operations
  from a writer's disk, and leaves out of their past only what was accepted before it, wherever it
  is queued, in flight or delayed.
- *Ids.* The operations a device made are numbered without a gap (`CountersHaveNoGap`), so the next number is
  free exactly if its document can use all of them. It can: they are on its disk, outside an undo
  (`OwnOpsAreKept`), closed under the causal past, and `Open` replays the disk. What another device's
  checkpoint replaces contains them too.
- *Keys.* That the rings of those who distribute or seal are not empty (`RingsAreFilled`) gives the types;
  an envelope is stored only for a device that has access at that moment. The other two theorems suppose
  that the owner uses one device `o` (`OneOwner`), and cannot do without: with two, the run
  `project_keys_two_owner_devices` finds two keys of one epoch. Only `o` rotates, so what it read of the
  epoch holds until it draws (`RostersAreRight`), and its ring contains every key there is, one for
  each epoch, none beyond a rotation that is due (`KeysAreOwners`). What the server accepts is then sealed
  under the newest key, so what a compaction leaves in place was published since it read and is not
  older than its own key (`RowsAreNotOlder`). The owner is never removed nor its device forgotten (`OwnerStays`).
- *Peers.* Every edit is held by some writer from whom each other writer has it, or gets it by a last frame, an
  exchange that is asked again or has not settled, unless the network cut that one (`EditsTravel`); a
  worker never believes of an end that it holds what it does not (`VersionsOK`).
- *Media.* With one download of a file, a partial that hashes right is not appended to between the check and
  the renaming (`RenamesWhole`). Beside a crash, documents and records differ only in the project whose references are about to be
  recorded, and a collection and a recording exclude each other (`PinsInv`).
- *Presence.* Only the held line is open, and a probe and a held line exclude each other (`HeldInv`). Discord's
  window is never shut longer than the throttle still counts, so what is sent is taken (`WindowInv`).
- *Answers.* Numbers are not given out twice, over all helpers, so what is in any pipe under the number of a
  waiting call is its own request or the answer to it (`Numbers`, `Matching`).
- *Handles.* A helper serves requests in the order of their numbers (`HelpersInOrder`). The registry was emptied for a
  bracketed operation before it takes an object (`BracketInv`), and from then on no purge is before the call
  that gives it one, nor after while it holds it (`SafeInv`). Both need that no other bracketed operation is under way.
  The types need one thing that is not one: the count of open operations is the number of brackets in flight
  (`DepthCounts`), so leaving one never takes it below zero.
- *Snapshot.* A capture under way that lacks nothing has, for each slice it has passed, what the host has now,
  unless something disturbed it (`SweptInv`); that it lacks nothing is not settled before the tree is read
  (`GapInv`); and what it has read is known to be unwritten until its end, although a checkpoint may have
  written it (`HeldBackInv`), so that the last writing is made and its failure told.
- *Sends.* An entry that was built is marked so in memory and in the file, or the flush that built it has still to
  mark it and nothing else may take it (`BuildsInv`). The offer of a closed host is taken back only by what saw it run (`OfferInv`).
- *Daemons.* Who waits is in the queue once (`QueueInv`), who is past it holds a daemon of the pool (`HolderInv`). A
  process that is gone works for nobody, and a reply in a pipe answers the one request that is pending (`ProcessInv`).
- *Proxies.* The pump starts the longest beginning of the two lists, in the order they are taken, that the limit
  allows: `Reach` is the least number after which it stops, which exists by the well-foundedness of the
  subset order and spares an induction over the lists. After every change of the lists or the limit
  nothing startable waits (`NoneIdles`); a mark of cancellation is only on requests that were cancelled (`MarksInv`).
- *Gate.* A slot is one clip's, and a clip is in one place: the counter is the number of clips encoded,
  and those are apart from the ones that wait (`SlotsAreCounted`). A clip has a slot or waits only
  below the next of its export (`SlotsAreNamed`), so the clip a worker takes is new. `drain` wakes the
  longest beginning of the line for which the limit holds (`WokenIsRight`), so it ends with an empty
  line or a full gate. An export has a worker for each of its clips under way (`CrewInv`): parts may fail
  after the pool was rejected, each ending the worker that was at it.
- *Archive queue.* What is listed has an identity of its own (`Queue`). The one entry that is marked is the one
  under way (`OnlyMarked`), and it is listed while it is (`InLine`). Both survive the trimming of the history because what a filter keeps stood in the list, each entry
  once (`KeptPicks`), and what is dropped is finished (`HistoryKeeps`). The pump with nothing under way starts
  the first that is ready or arms the retry (`PumpGoesOn`); nothing else sets an entry to wait.
- *Together.* A step of a joined model is a step of one part and leaves the variables of the others
  (`ServicesSteps`, `CoreSteps`), so each part behaves as its own specification says, fairness included, and its
  theorems carry over. That is not so for the gate under the queue of archives, which kills the core with
  encodes under way: its invariant holds again because a core that starts finds the gate as at first
  (`GatesStep`). Nor for what a behaviour takes less of than the part does alone: the host, and the cuts when they
  are at rest (`HostPeersAndCuts`).
- *Notebook.* That differences are against what they are applied to follows from the replies. That
  typing stays on screen needs to know where it waits: it is pending, and a flush under way carries
  all of it unless the version moved since it was captured (`PendingInv`).
- *Assistant.* A call that asks takes a number no card has (`NumbersAreCounted`), so a card names one
  turn, on its way, shown or answered (`CardsNameTheirTurn`), and stays its own when the turn is
  cancelled. An answer on its way was given by the user (`ResponsesWereGiven`), so the call it lets
  through is the one the card showed. The mode is that of the check, not of the moment the tool runs.
- *Sharing.* A publication works on the project the collection names, and the collection names no other
  while it runs (`JobInv`, `BindingInv`); once a stop has deleted that project nothing it writes there counts,
  and a project that is gone has no rows (`OthersAreEmpty`). Each stage leaves what it dealt with
  where the next needs it: gathered shots are in the document, then claimed, then recorded.

- *Archives.* Copies run from the front, over files that later copies still need. They do no harm because a shot
  only moves to the front: its file is at its number or behind it (`Behind`), so no copy made before its own
  wrote there. A fingerprint is one shot's wherever it is listed (`OwnInv`), and between calls the ledger has no
  file of a listed shot that the entries do not have (`RestInv`), so a plan copies a shot's own file or none. A
  call has ready all that was up to date when it began and still is (`WorkInv`). What the copies leave is a recursive
  function; what holds after each of them is carried along by `UpTo`, an induction over a set of numbers
  that rests on least numbers as `Reach` does. A copy that fails leaves what the step finds untrue only at its own
  number (`LeftTyped`), and is an accident, of which `TruthInv` claims nothing more. What a call commits it has
  kept or made, at its own numbers, which the prune spares; what is left of the previous entries in that folder
  is what the prune takes (`EndsArchive`, `EndsRelocate`).
- *Cuts.* A trim works once, on what ffmpeg wrote or on that put on the grid (`CutInv`); the work is in showing
  that both can be trimmed (`CopiesAreReady`). The rank of a picture is its place, so the sorted times of a
  file end with those it shows (`InOrderIs`, `TimesEndWithTheView`). Rounded to a unit of a frame or less, two times
  stay half a frame apart (`RoundedLieApart`); that is more than a tick of the movie, so a span that is rounded
  down to its ticks still ends after the last picture and before the next (`SpanReaches`). The grid gives the
  pictures of the shot their frames back (`TheGridIsRegained`) and changes neither what is shown nor its order.

Only model-checked: all liveness properties (the prover has no rules for fairness and ENABLED), and of
`HostOperationsSettle` and `AnnouncedWorkIsDone`, which join safety with liveness, the liveness. Their safety is
`ClosedHostsStayOnOffer`, `QueueStaysAwake` and `AnnouncedStaysKept`. Every safety property that a passing run
checks has a theorem.

## Simplifications

Where a definition takes one step for several of the code, or leaves a branch of its lines out:

- `CollabSync!FinishCommit`: the checkpoint is saved and the base moved in one step; in `service.rs:1348-1351`
  they are two SQLite transactions. `FinishRecovery` merges all payloads of a recovery or none; the code
  merges them one by one (`service.rs:1085-1088`). `Edit` is made on the document as it is; a batch on an older
  `base_revision`, which is forked under a fresh peer id (`doc.rs:381-390`), is in `NotebookSession` alone.
- `PeerSync!AnswerPeer`: the reading of the operations and of the version are one step, two calls in
  `net.rs:240-241`. `LastFrameLost` is counted among the faults, although closing right after the last frame
  (`net.rs:356-362`) can lose it each time: `EditsReachWriters` supposes that it does not do so for ever.
- `DiscordPresence!Changes`: the application's data are loaded and the activity pushed at once, with an await
  between them in `discordRpc.js:174-185`.
- `CollectionArchive`: a container that changed together with the folder (`collectionArchive.js:307-311`)
  and a renamed collection are left out: a file's name is its number.
- `EditList!Clamped`: every other track has an edit list; one without is left uncut (`editList.js:180-191`).
- `AgentTurns!CliCalls`: a command-line agent has one tool outstanding, while it thinks; `toolCall` takes
  parallel calls and calls after the end, on cards that bear the name `cli` (`index.js:95`).
- `NotebookSession`: the subscription to the service is there when the first projection ends; the code awaits
  it (lines 189-197), and an event in between is missed until the next. Input methods, databases and the
  download of media are left out.

## Not modelled

- *Formats and validation* (`identity.rs`, `ids.rs`, `ops.rs`, `surface_doc.rs`, the wire format of the
  bridge and of Discord, boxes of a media file): sequential code without shared state.
- *Large pure functions*: timeline transfer between hosts, timeline reading, argument building of
  ffmpeg. Their correctness is a matter of data, not of order; a model would repeat them.
- *Numerical code*: the Python sidecars, model downloads, optimisation.
- *Behaviour of libraries*: libmpv in the native player, iroh's endpoint, Loro's merge (its result is
  modelled, its algorithm is not), language models behind the assistant.
- *User interface*: React components and stores apart from the notebook and the chat.
- *Single-row transactions*: the community tables of Convex, on a serialisable store.
- *Not yet*: FlushCheckpoint's own resealing, surface leases and publication debounce; creating and
  deleting a project (`createProject` lies outside the try of `session.ts`, so that a failure after it leaves
  an empty project); upload reservations and seats; auto-sync of archives; a shared collection on the side of its members; the ping-pong
  of previews; the eviction policy of the caches; the client of the core in the renderer
  (`coreClient.ts`), with its retries and its stream of events.

## Plan

1. *(done)* `CollabSync`, `ProjectKeys`, `ResolveHandles`; five safety theorems of `CollabSync`.
2. *(done)* `SharedEditing` and its refinement; the queues and stores of the core; the media, peers,
   notebook and shared collections of collaboration; Discord, edit lists and the assistant; the project
   keys, the encode gate, the notebook session, the assistant and the shared collection proved.
3. *(done)* Safety theorems of the bridge to Resolve, of the peers, the media, the presence, the daemons, the
   snapshot, the send queue, the proxies, the archives, the cuts, and `FreshOperationIds`.
   The queue of archives, the types of handles and gate, and what the joined models keep.
4. `coreClient.ts` with lost events and a restarted core, under `AgentTurns` and the queues; the
   creation of a project; `useSharedCollection.ts` on a member's device; the eviction policy of the caches.
