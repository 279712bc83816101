--------------------------- MODULE ProjectSnapshot ---------------------------
(***************************************************************************)
(* The cache of what was last read from the open project                   *)
(* (core/projectSnapshot.js), served while the host is closed, and the     *)
(* channels of core/rpc.js that warm it.                                   *)
(*                                                                         *)
(* A slice is what one kind of reading returned; it is modelled by the     *)
(* project and the revision it was read from.  A reading is one step (its  *)
(* calls to the bridge are not told apart); a capture is a sweep of        *)
(* readings, with an await before each, during which nothing is written    *)
(* until its end or a checkpoint.  A reading that fails ends as null, and  *)
(* a file that cannot be written is left as it was: the capture goes on,   *)
(* and tells at its end that the cache is not complete.                    *)
(***************************************************************************)
EXTENDS Naturals, FiniteSets

CONSTANTS
  HostProjects,  \* the projects the user may open
  Timelines,     \* the timelines of each of them
  CheckpointEvery,  \* how many timelines a capture reads between two writings
  MaxChanges,    \* bound: how often another project is opened or the project edited
  MaxLosses      \* bound: readings and writings that fail, cores killed

ASSUME SnapshotAssumption ==
  /\ {MaxChanges, MaxLosses} \subseteq Nat
  /\ CheckpointEvery \in Nat \ {0}

VARIABLES
  opened,    \* the project open in the host
  revision,  \* its revision
  switches,
  losses,
  snap,      \* the snapshot in memory: a project and its slices, or NoSnap
  onDisk,    \* the snapshot in the file
  unwritten, \* dirty
  sweep      \* the capture in progress, or NoSweep

snapVars == <<opened, revision, switches, losses, snap, onDisk, unwritten, sweep>>
-----------------------------------------------------------------------------
NoSnap == [project |-> "none"]
NoSweep == [at |-> "none"]
\* One slice stands for the two media pools, and one for the tree and the thumbs.
Shared == {"mediaPool", "timelines", "tree"}
Kinds == Shared \cup Timelines
Reading == [from |-> opened, rev |-> revision]
Nothing == [from |-> "none", rev |-> 0]

\* Mutation: a new snapshot has no room for the cuts of the timelines.
EnsureWithoutCuts(s, p) ==
  IF s = NoSnap \/ (p # "none" /\ s.project \notin {"none", p})
  THEN [project |-> p, slices |-> [k \in Shared |-> Nothing]]
  ELSE s

\* ensure(p): the snapshot of p, emptied when it was another project's.
Ensure(s, p) ==
  IF s = NoSnap \/ (p # "none" /\ s.project \notin {"none", p})
  THEN [project |-> p, slices |-> [k \in Kinds |-> Nothing]]
  ELSE s

\* warm(kind, r): only a reading of the media pool names its project.
Warmed(s, kind, r) ==
  LET e == Ensure(s, IF kind = "mediaPool" THEN r.from ELSE "none") IN
  [project |-> IF kind = "mediaPool" THEN r.from ELSE e.project,
   slices |-> [e.slices EXCEPT ![kind] = r]]

\* warm(kind, null) does nothing.
WarmedIfRead(s, kind, r) == IF r = Nothing THEN s ELSE Warmed(s, kind, r)

\* A snapshot that was written without any of the shared slices is not loaded.
Loaded(s) ==
  IF s # NoSnap /\ \A k \in Shared : s.slices[k] = Nothing THEN NoSnap ELSE s

Lost == losses < MaxLosses /\ losses' = losses + 1

\* persist(): the file is replaced, or stays as it was if that fails.
Persist(s) ==
  \/ onDisk' = s /\ UNCHANGED losses
  \/ Lost /\ UNCHANGED onDisk

\* touched(): written at once, or left to the end of the capture.
Touch(s) ==
  /\ snap' = s
  /\ IF sweep.at = "none" THEN Persist(s) /\ unwritten' = FALSE
     ELSE UNCHANGED <<onDisk, losses>> /\ unwritten' = TRUE
-----------------------------------------------------------------------------
SnapInit ==
  /\ opened \in HostProjects /\ revision = 0 /\ switches = 0 /\ losses = 0
  /\ snap = NoSnap /\ onDisk = NoSnap /\ unwritten = FALSE
  /\ sweep = NoSweep

host == <<opened, revision, switches>>

\* History: what the sweep in progress reads has changed under it.
Disturbed == IF sweep = NoSweep THEN NoSweep ELSE [sweep EXCEPT !.undisturbed = FALSE]

OpenProject(p) ==
  /\ p # opened /\ switches + revision < MaxChanges
  /\ opened' = p /\ switches' = switches + 1
  /\ sweep' = Disturbed
  /\ UNCHANGED <<revision, losses, snap, onDisk, unwritten>>

EditProject ==
  /\ switches + revision < MaxChanges
  /\ revision' = revision + 1
  /\ sweep' = Disturbed
  /\ UNCHANGED <<opened, switches, losses, snap, onDisk, unwritten>>

\* A reading asked for by the renderer returns and warms its slice.
LiveReading(kind) ==
  /\ Touch(Warmed(snap, kind, Reading))
  /\ UNCHANGED <<host, sweep>>

ClearSnapshot ==
  /\ snap' = NoSnap /\ Persist(NoSnap)
  /\ sweep' = Disturbed
  /\ UNCHANGED <<host, unwritten>>

\* capture(requireComplete), as close() asks for it: one sweep at a time.
StartCapture ==
  /\ sweep = NoSweep
  /\ sweep' = [at |-> "mediaPool", undisturbed |-> TRUE, fresh |-> 0, todo |-> {},
               list |-> Nothing, lacks |-> FALSE]
  /\ UNCHANGED <<host, losses, snap, onDisk, unwritten>>

CaptureMediaPool ==
  /\ sweep.at = "mediaPool"
  /\ Touch(Warmed(snap, "mediaPool", Reading))
  /\ sweep' = [sweep EXCEPT !.at = "timelines"]
  /\ UNCHANGED host

\* What a reading of the sweep returns.
ReadingEnds(r) ==
  \/ r = Reading /\ UNCHANGED losses
  \/ r = Nothing /\ Lost

\* The list of timelines is read, and kept until the tree is.
CaptureTimelines ==
  /\ sweep.at = "timelines"
  /\ \E r \in {Reading, Nothing} :
       ReadingEnds(r) /\ sweep' = [sweep EXCEPT !.at = "tree", !.list = r]
  /\ UNCHANGED <<host, snap, onDisk, unwritten>>

\* The snapshot without the cuts of the timelines that are not listed.
Pruned(s, names) ==
  [s EXCEPT !.slices = [k \in Kinds |-> IF k \in Timelines \ names THEN Nothing ELSE @[k]]]

\* The tree is read; both are warmed, and the cuts of what is not listed go.
CaptureTree ==
  /\ sweep.at = "tree"
  /\ \E r \in {Reading, Nothing} :
       LET names == IF sweep.list = Nothing THEN {} ELSE Timelines
           s == WarmedIfRead(WarmedIfRead(snap, "timelines", sweep.list), "tree", r)
       IN /\ ReadingEnds(r)
          /\ snap' = Pruned(Ensure(s, "none"), names)
          /\ sweep' = [sweep EXCEPT !.at = "cuts", !.todo = names, !.list = Nothing,
                                    !.lacks = Nothing \in {sweep.list, r}]
  /\ unwritten' = TRUE
  /\ UNCHANGED <<host, onDisk>>

\* The cuts of one timeline: rewritten if they changed; every third one
\* (CheckpointEvery) is a checkpoint.
CaptureCuts(name) ==
  /\ sweep.at = "cuts" /\ name \in sweep.todo
  /\ LET e == Ensure(snap, "none")
         s == Warmed(snap, name, Reading)
     IN \/ /\ Lost
           /\ sweep' = [sweep EXCEPT !.todo = @ \ {name}, !.lacks = TRUE]
           /\ UNCHANGED <<snap, onDisk, unwritten>>
        \/ /\ e.slices[name] = Reading
           /\ sweep' = [sweep EXCEPT !.todo = @ \ {name}]
           /\ UNCHANGED <<losses, snap, onDisk, unwritten>>
        \/ /\ e.slices[name] # Reading
           /\ sweep' = [sweep EXCEPT !.todo = @ \ {name}, !.fresh = @ + 1]
           /\ snap' = s
           /\ IF sweep'.fresh % CheckpointEvery = 0 THEN Persist(s)
              ELSE UNCHANGED <<losses, onDisk>>
           /\ unwritten' = TRUE
  /\ UNCHANGED host

SweepIsOver == sweep.at = "cuts" /\ sweep.todo = {}
MustWrite == unwritten \/ sweep.fresh > 0 \/ onDisk = NoSnap

\* Mutation: what could not be read is not looked at.
CaptureReturnsWithGaps ==
  /\ SweepIsOver
  /\ sweep' = NoSweep
  /\ onDisk' = IF MustWrite THEN snap ELSE onDisk
  /\ unwritten' = FALSE
  /\ UNCHANGED <<host, losses, snap>>

\* The sweep lacks nothing, and what is dirty is written: ok.
CaptureReturns ==
  /\ SweepIsOver /\ ~ sweep.lacks
  /\ sweep' = NoSweep
  /\ onDisk' = IF MustWrite THEN snap ELSE onDisk
  /\ unwritten' = FALSE
  /\ UNCHANGED <<host, losses, snap>>

\* Something could not be read, or could not be written (a missing file is tried
\* again): not ok, with what was read in memory.
CaptureIncomplete ==
  /\ SweepIsOver
  /\ sweep' = NoSweep
  /\ \/ sweep.lacks /\ onDisk' = (IF MustWrite THEN snap ELSE onDisk) /\ UNCHANGED losses
     \/ MustWrite /\ Lost /\ onDisk' \in {onDisk} \cup (IF onDisk = NoSnap THEN {snap} ELSE {})
  /\ unwritten' = FALSE
  /\ UNCHANGED <<host, snap>>

\* The media pool is not available (what is dirty is written, or not), or its
\* reading throws (the catch clause has already left batching).
CaptureFails ==
  /\ Lost
  /\ sweep.at = "mediaPool"
  /\ sweep' = NoSweep
  /\ \/ UNCHANGED <<onDisk, unwritten>>
     \/ /\ onDisk' \in {onDisk} \cup (IF unwritten THEN {snap} ELSE {})
        /\ unwritten' = FALSE
  /\ UNCHANGED <<host, snap>>

SnapKilled ==
  /\ Lost
  /\ snap' = Loaded(onDisk) /\ unwritten' = FALSE /\ sweep' = NoSweep
  /\ UNCHANGED <<host, onDisk>>

SnapNext ==
  \/ \E p \in HostProjects : OpenProject(p)
  \/ EditProject
  \/ \E kind \in Kinds : LiveReading(kind)
  \/ ClearSnapshot
  \/ StartCapture \/ CaptureMediaPool \/ CaptureTimelines \/ CaptureTree
  \/ \E name \in Timelines : CaptureCuts(name)
  \/ CaptureReturns \/ CaptureIncomplete \/ CaptureFails \/ SnapKilled

SnapSpec == SnapInit /\ [][SnapNext]_snapVars
-----------------------------------------------------------------------------
SnapTypeOK ==
  /\ opened \in HostProjects /\ revision \in 0 .. MaxChanges
  /\ \A s \in {snap, onDisk} :
       s # NoSnap =>
         /\ s.project \in HostProjects \cup {"none"}
         /\ s.slices \in [Kinds -> [from : HostProjects \cup {"none"}, rev : 0 .. MaxChanges]]
  /\ unwritten \in BOOLEAN
  /\ sweep.at \in {"none", "mediaPool", "timelines", "tree", "cuts"}

\* A capture that reports success may be followed by the death of the host: unless
\* the project was changed or the cache cleared meanwhile, every slice of it is on
\* disk, and current, whichever readings and writings failed in it and before it,
\* whatever captures ended half-way and whatever the renderer has read.
ACaptureIsComplete ==
  [][sweep # NoSweep /\ CaptureReturns /\ sweep.undisturbed =>
       /\ onDisk' = snap
       /\ onDisk'.project = opened
       /\ \A k \in Kinds : onDisk'.slices[k] = Reading]_snapVars

\* The slices of two projects are not mixed.
NoMixOfProjects ==
  snap # NoSnap => \A j, k \in Kinds :
    snap.slices[j] # Nothing /\ snap.slices[k] # Nothing =>
      snap.slices[j].from = snap.slices[k].from
=============================================================================
