---------------------------- MODULE CollectionShare ----------------------------
(***************************************************************************)
(* The shared collection of its owner: what publish() of                   *)
(* src/lib/collab/collection/session.ts does to the collection of this     *)
(* machine, to the document and to the rows the server keeps of it         *)
(* (convex/collectionAccess.ts), while shots are ranged into it, shared    *)
(* ones are removed, the share is stopped and the program is closed.       *)
(*                                                                         *)
(* There is one publication at a time (`jobs`), in stages that are awaits: *)
(* whoever asks for another one joins it.  Left out: the media (a shot is  *)
(* archived or not), the metadata, and the members' own contributions,     *)
(* whose entries have other names.                                         *)
(***************************************************************************)
EXTENDS Naturals, FiniteSets

CONSTANTS
  ShareShots,     \* the shots that may be ranged into the collection
  ShareProjects,  \* the projects that may be created
  NoShare,
  BatchSize,      \* entries claimed by one mutation, 100 in the code
  MaxShareFaults  \* bound: calls that fail, programs closed

ASSUME ShareAssumption ==
  /\ NoShare \notin ShareProjects
  /\ BatchSize \in Nat \ {0} /\ MaxShareFaults \in Nat

VARIABLES
  ranged,      \* ranged[s]: shot s is "new", "in" the collection or "out" of it again
  binding,     \* its `collaboration`: [project, pending, published]
  projects,    \* projects[p]: "new", "live" on the server or "gone"
  claims,      \* claims[p][s]: the row of shot s: "none", "shown" or "removed"
  recoverable, \* the projects with a head or a checkpoint on the server
  holds,       \* holds[p]: the shots in the document of p
  job,         \* the publication under way
  ranging,     \* shots added by a rangeShots that has yet to publish
  waiting,     \* shots whose rangeShots awaits the publication under way
  told,        \* history: shots whose rangeShots has answered ok
  stopping,    \* the share is being stopped
  shareFaults

serverVars == <<projects, claims, recoverable>>
shareVars == <<ranged, binding, serverVars, holds, job, ranging, waiting, told,
               stopping, shareFaults>>
callers == <<ranging, waiting, told>>
-----------------------------------------------------------------------------
Unshared == [project |-> NoShare, pending |-> NoShare, published |-> {}]
NoJob == [at |-> "none", project |-> NoShare, resumed |-> FALSE, applied |-> FALSE,
          shots |-> {}, done |-> {}, left |-> {}, read |-> Unshared]
Live == {p \in ShareProjects : projects[p] = "live"}
Inside == {s \in ShareShots : ranged[s] = "in"}
NoClaims == [s \in ShareShots |-> "none"]
Named(b) == IF b.project # NoShare THEN b.project ELSE b.pending

ShareInit ==
  /\ ranged \in [ShareShots -> {"new", "in"}]
  /\ binding = Unshared
  /\ projects = [p \in ShareProjects |-> "new"] /\ recoverable = {}
  /\ claims = [p \in ShareProjects |-> NoClaims]
  /\ holds = [p \in ShareProjects |-> {}]
  /\ job = NoJob
  /\ ranging = {} /\ waiting = {} /\ told = {}
  /\ stopping = FALSE /\ shareFaults = 0

\* Mutation: the entries are claimed before the document holds them.
ClaimedFirst(stage) ==
  CASE stage = "gather" -> "register" [] stage = "register" -> "apply" [] OTHER -> "flush"
\* What publish() does after gathering, applying and registering: entries are
\* claimed after the document holds them.
Following(stage) ==
  CASE stage = "gather" -> "apply" [] stage = "apply" -> "register" [] OTHER -> "flush"

\* The catch of publish(): a project it has just created, and has put nothing in,
\* is given up.
GivesUp(j) == ~ j.resumed /\ ~ j.applied
CallersFail == waiting' = {} /\ UNCHANGED <<ranging, told>>
Fail ==
  IF GivesUp(job) THEN job' = [job EXCEPT !.at = "abort"] /\ UNCHANGED callers
  ELSE job' = NoJob /\ CallersFail

At(stage) == job.at = stage
GoesTo(stage) == job' = [job EXCEPT !.at = stage] /\ UNCHANGED callers
Fault == shareFaults < MaxShareFaults /\ shareFaults' = shareFaults + 1
local == <<ranged, stopping>>
-----------------------------------------------------------------------------
\* rangeShots: the shot enters the local copy, and the collection is published
\* if it is shared: by a publication of its own, or by the one under way.
AddToCollection(s) ==
  /\ ranged[s] = "new"
  /\ ranged' = [ranged EXCEPT ![s] = "in"] /\ ranging' = ranging \cup {s}
  /\ UNCHANGED <<binding, serverVars, holds, job, waiting, told, stopping, shareFaults>>
StartsOrJoins == job' = IF At("none") THEN [NoJob EXCEPT !.at = "load"] ELSE job
PublishRanged(s) ==
  /\ s \in ranging
  /\ ranging' = ranging \ {s}
  /\ IF binding.project # NoShare
     THEN StartsOrJoins /\ waiting' = waiting \cup {s}
     ELSE UNCHANGED <<job, waiting>>
  /\ UNCHANGED <<ranged, binding, serverVars, holds, told, stopping, shareFaults>>

\* A shot is taken out of a collection that is not shared yet.
TakeOut(s) ==
  /\ binding.project = NoShare /\ s \in Inside \ ranging
  /\ ranged' = [ranged EXCEPT ![s] = "out"]
  /\ UNCHANGED <<binding, serverVars, holds, job, callers, stopping, shareFaults>>

\* That is undone: the shot is added again as it was.
PutBack(s) ==
  /\ binding.project = NoShare /\ ranged[s] = "out"
  /\ ranged' = [ranged EXCEPT ![s] = "in"]
  /\ UNCHANGED <<binding, serverVars, holds, job, callers, stopping, shareFaults>>

\* The switch of the sharing card, and its invitation dialog.
Share ==
  /\ At("none") /\ ~ stopping
  /\ StartsOrJoins
  /\ UNCHANGED <<local, binding, serverVars, holds, callers, shareFaults>>

\* deleteProject and abortEmptyProject: with the project go its heads and rows.
Deleted(p) ==
  /\ projects' = [projects EXCEPT ![p] = "gone"]
  /\ claims' = [claims EXCEPT ![p] = NoClaims]
  /\ recoverable' = recoverable \ {p}

\* Stopping deletes the project, then takes the binding away, unless the answer
\* is lost or the binding cannot be saved.
StopDeletes ==
  /\ ~ stopping /\ binding.project \in Live
  /\ Deleted(binding.project)
  /\ \/ stopping' = TRUE /\ UNCHANGED shareFaults
     \/ Fault /\ UNCHANGED stopping
  /\ UNCHANGED <<ranged, binding, holds, job, callers>>
StopUnbinds ==
  /\ stopping /\ stopping' = FALSE
  /\ \/ binding' = Unshared /\ told' = {} /\ UNCHANGED shareFaults
     \/ Fault /\ UNCHANGED <<binding, told>>
  /\ UNCHANGED <<ranged, serverVars, holds, job, ranging, waiting>>

\* A shared shot is removed, here or by a member who may.
RemoveClaim(p, s) ==
  /\ p \in Live /\ claims[p][s] = "shown"
  /\ claims' = [claims EXCEPT ![p][s] = "removed"]
  /\ UNCHANGED <<local, binding, projects, recoverable, holds, job, callers, shareFaults>>
-----------------------------------------------------------------------------
\* publish(): the collection is read; it names a project, or one is created and
\* reserved in it.
LoadCollection ==
  /\ At("load")
  /\ LET p == Named(binding) IN
     job' = [job EXCEPT !.at = IF p = NoShare THEN "create" ELSE "open",
                        !.project = p, !.resumed = p # NoShare, !.read = binding]
  /\ UNCHANGED <<local, binding, serverVars, holds, callers, shareFaults>>
CreateProject(p) ==
  /\ At("create") /\ projects[p] = "new"
  /\ projects' = [projects EXCEPT ![p] = "live"]
  /\ \/ job' = [job EXCEPT !.at = "reserve", !.project = p]
        /\ UNCHANGED <<callers, shareFaults>>
     \/ Fault /\ job' = NoJob /\ CallersFail
  /\ UNCHANGED <<local, binding, claims, recoverable, holds>>
Reserve ==
  /\ At("reserve")
  /\ binding' = [job.read EXCEPT !.pending = job.project]
  /\ GoesTo("open")
  /\ UNCHANGED <<local, serverVars, holds, shareFaults>>
OpenShare ==
  /\ At("open")
  /\ GoesTo("archive")
  /\ UNCHANGED <<local, binding, serverVars, holds, shareFaults>>

\* Once open the service publishes on its own.
PublishesInBackground ==
  /\ job.project \in Live \ recoverable
  /\ job.at \in {"archive", "prepare", "gather", "apply", "register", "flush"}
  /\ recoverable' = recoverable \cup {job.project}
  /\ UNCHANGED <<local, binding, projects, claims, holds, job, callers, shareFaults>>

\* prepare(): the shots there are when it starts are archived; at its end every
\* shot must have its file.
StartPrepare ==
  /\ At("archive")
  /\ job' = [job EXCEPT !.at = "prepare", !.shots = Inside]
  /\ UNCHANGED <<local, binding, serverVars, holds, callers, shareFaults>>
EndPrepare ==
  /\ At("prepare")
  /\ IF Inside \subseteq job.shots
     THEN job' = [job EXCEPT !.at = "gather", !.shots = Inside] /\ UNCHANGED callers
     ELSE Fail
  /\ UNCHANGED <<local, binding, serverVars, holds, shareFaults>>

\* preparedOperations: what is published already is left out, and nothing may
\* have been taken out meanwhile.
Gather ==
  /\ At("gather")
  /\ LET fresh == job.shots \ binding.published IN
     IF fresh \subseteq Inside
     THEN /\ job' = [job EXCEPT !.at = Following("gather"), !.done = binding.published,
                                !.left = fresh]
          /\ UNCHANGED callers
     ELSE Fail
  /\ UNCHANGED <<local, binding, serverVars, holds, shareFaults>>
Apply ==
  /\ At("apply")
  /\ holds' = [holds EXCEPT ![job.project] = @ \cup (job.shots \ job.done)]
  /\ job' = [job EXCEPT !.at = Following("apply"), !.applied = TRUE]
  /\ UNCHANGED <<local, binding, serverVars, callers, shareFaults>>

\* collectionAccess.register, one batch after the other; it refuses a batch with
\* an entry that was removed.
Batches ==
  {b \in SUBSET job.left :
     Cardinality(b) = IF Cardinality(job.left) < BatchSize
                      THEN Cardinality(job.left) ELSE BatchSize}
Register(b) ==
  /\ At("register") /\ job.left # {} /\ b \in Batches
  /\ IF job.project \in Live /\ \A s \in b : claims[job.project][s] # "removed"
     THEN /\ claims' = [claims EXCEPT ![job.project] =
                          [s \in ShareShots |-> IF s \in b THEN "shown" ELSE @[s]]]
          /\ \/ job' = [job EXCEPT !.left = @ \ b] /\ UNCHANGED <<callers, shareFaults>>
             \/ Fault /\ Fail
     ELSE UNCHANGED <<claims, shareFaults>> /\ Fail
  /\ UNCHANGED <<local, binding, projects, recoverable, holds>>
Registered ==
  /\ At("register") /\ job.left = {}
  /\ GoesTo(Following("register"))
  /\ UNCHANGED <<local, binding, serverVars, holds, shareFaults>>
FlushShare ==
  /\ At("flush")
  /\ IF job.project \in Live
     THEN recoverable' = recoverable \cup {job.project} /\ GoesTo("reload")
     ELSE UNCHANGED recoverable /\ Fail
  /\ UNCHANGED <<local, binding, projects, claims, holds, shareFaults>>

\* The binding is read again and saved: the callers are told.
Reload ==
  /\ At("reload")
  /\ job' = [job EXCEPT !.at = "save", !.read = binding]
  /\ UNCHANGED <<local, binding, serverVars, holds, callers, shareFaults>>
SaveBinding ==
  /\ At("save")
  /\ binding' = [job.read EXCEPT !.project = job.project, !.pending = NoShare,
                                 !.published = job.done \cup job.shots]
  /\ job' = NoJob
  /\ told' = told \cup waiting /\ waiting' = {}
  /\ UNCHANGED <<local, ranging, serverVars, holds, shareFaults>>
-----------------------------------------------------------------------------
\* A call fails: signing in, a save, the native service, the network.
StageFails ==
  /\ Fault
  /\ \/ job.at \in {"load", "create"} /\ job' = NoJob /\ CallersFail
     \/ job.at \in {"reserve", "open", "archive", "prepare", "gather", "apply",
                    "register", "flush", "reload", "save"} /\ Fail
     \/ job.at \in {"abort", "unreserve"} /\ job' = NoJob /\ CallersFail
  /\ UNCHANGED <<local, binding, serverVars, holds>>

\* abortEmptyProject refuses a project that is recoverable; the reserved id is
\* then kept for a retry, as it is when the answer is lost.
Abort ==
  /\ At("abort")
  /\ IF job.project \in Live \ recoverable
     THEN /\ Deleted(job.project)
          /\ \/ job' = [job EXCEPT !.at = "unreserve"] /\ UNCHANGED <<callers, shareFaults>>
             \/ Fault /\ job' = NoJob /\ CallersFail
     ELSE UNCHANGED <<serverVars, shareFaults>> /\ job' = NoJob /\ CallersFail
  /\ UNCHANGED <<local, binding, holds>>
Unreserve ==
  /\ At("unreserve")
  /\ binding' = [binding EXCEPT !.pending = NoShare]
  /\ job' = NoJob /\ CallersFail
  /\ UNCHANGED <<local, serverVars, holds, shareFaults>>

\* The program is closed: what it was doing is forgotten.
ShareCloses ==
  /\ Fault
  /\ ~ At("none") \/ stopping \/ ranging # {}
  /\ job' = NoJob /\ ranging' = {} /\ waiting' = {} /\ stopping' = FALSE
  /\ UNCHANGED <<ranged, binding, serverVars, holds, told>>

ShareNext ==
  \/ \E s \in ShareShots : AddToCollection(s) \/ PublishRanged(s)
  \/ \E s \in ShareShots : TakeOut(s) \/ PutBack(s)
  \/ Share \/ StopDeletes \/ StopUnbinds
  \/ \E p \in ShareProjects : CreateProject(p) \/ \E s \in ShareShots : RemoveClaim(p, s)
  \/ LoadCollection \/ Reserve \/ OpenShare \/ PublishesInBackground
  \/ StartPrepare \/ EndPrepare \/ Gather \/ Apply
  \/ \E b \in SUBSET ShareShots : Register(b)
  \/ Registered \/ FlushShare \/ Reload \/ SaveBinding
  \/ StageFails \/ Abort \/ Unreserve \/ ShareCloses

ShareSpec == ShareInit /\ [][ShareNext]_shareVars
-----------------------------------------------------------------------------
Binding == [project : ShareProjects \cup {NoShare}, pending : ShareProjects \cup {NoShare},
            published : SUBSET ShareShots]
Stages == {"none", "load", "create", "reserve", "open", "archive", "prepare", "gather", "apply",
           "register", "flush", "reload", "save", "abort", "unreserve"}
Job == [at : Stages, project : ShareProjects \cup {NoShare}, resumed : BOOLEAN,
        applied : BOOLEAN, shots : SUBSET ShareShots, done : SUBSET ShareShots,
        left : SUBSET ShareShots, read : Binding]

ShareTypeOK ==
  /\ ranged \in [ShareShots -> {"new", "in", "out"}] /\ binding \in Binding
  /\ projects \in [ShareProjects -> {"new", "live", "gone"}]
  /\ recoverable \in SUBSET ShareProjects
  /\ claims \in [ShareProjects -> [ShareShots -> {"none", "shown", "removed"}]]
  /\ holds \in [ShareProjects -> SUBSET ShareShots]
  /\ job \in Job
  /\ ranging \in SUBSET Inside
  /\ waiting \in SUBSET ShareShots /\ told \in SUBSET ShareShots
  /\ stopping \in BOOLEAN /\ shareFaults \in 0 .. MaxShareFaults

\* No row of a shared collection names a shot that its document does not hold.
ClaimsAreHeld ==
  \A p \in Live, s \in ShareShots : claims[p][s] # "none" => s \in holds[p]

\* What the collection counts as published, and never publishes again, was
\* claimed in the project it is bound to.
PublishedIsClaimed ==
  binding.project \in Live =>
    \A s \in binding.published : claims[binding.project][s] # "none"

\* A project that can be recovered or shows a shot is named by the collection:
\* what is shared can be stopped, and a retry goes on with it.
SharedContentIsNamed ==
  \A p \in Live :
    p \in recoverable \/ (\E s \in ShareShots : claims[p][s] # "none")
      => p \in {binding.project, binding.pending}

\* Publications cut anywhere leave the server, the document and the collection in
\* agreement: all three of the above.
SharesAgree == ClaimsAreHeld /\ PublishedIsClaimed /\ SharedContentIsNamed

\* "Ranging a shot into a shared collection publishes it, and a range can land
\* while the previous one is still encoding" (core/collectionSharing.js:35): a
\* shot whose rangeShots answered ok is in the project.
RangedIsPublished ==
  binding.project \in Live => \A s \in told : claims[binding.project][s] # "none"

\* A retry is idempotent (session.ts:155): the server refuses none of the entries
\* that a publication claims again.
RetriesAreAccepted ==
  At("register") /\ job.project \in Live =>
    \A s \in job.left : claims[job.project][s] # "removed"

\* The collection does not claim to be shared in a project that no longer exists
\* (session.ts:42).
BoundProjectsExist ==
  At("none") /\ ~ stopping => Named(binding) \in Live \cup {NoShare}
=============================================================================
