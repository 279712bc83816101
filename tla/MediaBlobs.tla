------------------------------ MODULE MediaBlobs ------------------------------
(***************************************************************************)
(* One media file in the store of a device (src-tauri/src/collab/blobs.rs): *)
(* downloads that resume from a partial file, imports, the references of    *)
(* the projects and the collection of what none of them refers to.          *)
(*                                                                          *)
(* The actor of service.rs records references and collects; downloads and   *)
(* imports run beside it on other threads, and beside each other.  A file   *)
(* is the sequence of its chunks.                                           *)
(***************************************************************************)
EXTENDS Naturals, Sequences, FiniteSets

CONSTANTS
  Projects,        \* the projects of this device
  Downloads,       \* calls of fetch_blob that may run side by side
  BlobChunks,      \* the chunks of the file
  MaxBlobRuns,     \* bound: downloads and imports begun
  MaxBlobMishaps,  \* bound: answers lost, crashes
  MaxReferences    \* bound: how often a document changes its references

ASSUME BlobAssumption ==
  /\ BlobChunks \in Nat \ {0}
  /\ {MaxBlobRuns, MaxBlobMishaps, MaxReferences} \subseteq Nat
  /\ "no project" \notin Projects

VARIABLES
  stored,      \* the file under its hash
  part,        \* the partial file
  fetch,       \* the state of every download
  import,      \* the state of an import of the same file
  refers,      \* refers[p]: the current state of p's document names the file
  pinned,      \* pinned[p]: so does the record of p's references on disk
  pinning,     \* the project whose references the actor is about to record, if any
  unreferenced,\* the .unreferenced marker: "no", "young", or "due" after the grace
  collecting,  \* the collection has decided to remove the file
  gcDue,       \* a day has passed since the last collection
  blobRuns, blobMishaps, references

fileVars == <<stored, part>>
pinVars == <<refers, pinned, pinning, references>>
gcVars == <<unreferenced, collecting, gcDue>>
blobVars == <<fileVars, fetch, import, pinVars, gcVars, blobRuns, blobMishaps>>
-----------------------------------------------------------------------------
Gone == <<BlobChunks + 2>>   \* no such file
Whole == [n \in 1 .. BlobChunks |-> n]
Resting == [at |-> "none"]
BadChunk == 0
NoProject == "no project"
Length(file) == IF file = Gone THEN 0 ELSE Len(file)
Extended(file, chunk) == IF file = Gone THEN <<chunk>> ELSE Append(file, chunk)

BlobInit ==
  /\ stored = Gone /\ part = Gone
  /\ fetch = [f \in Downloads |-> Resting] /\ import = "none"
  /\ refers = [p \in Projects |-> FALSE] /\ pinned = refers
  /\ pinning = NoProject
  /\ unreferenced = "no" /\ collecting = FALSE /\ gcDue = TRUE
  /\ blobRuns = 0 /\ blobMishaps = 0 /\ references = 0

Goes(f, to) == fetch' = [fetch EXCEPT ![f] = to]
FetchRest == <<import, pinVars, gcVars, blobRuns, blobMishaps>>
-----------------------------------------------------------------------------
\* fetch_blob: the document names the file and it is not there yet; a partial
\* file is resumed, a full one verified first.
FetchBegins(f) ==
  /\ fetch[f] = Resting /\ blobRuns < MaxBlobRuns
  /\ stored = Gone /\ \E p \in Projects : refers[p]
  /\ blobRuns' = blobRuns + 1
  /\ Goes(f, IF Length(part) >= BlobChunks THEN [at |-> "verify", resumed |-> TRUE]
             ELSE [at |-> "ask", offset |-> Length(part), fresh |-> TRUE])
  /\ UNCHANGED <<fileVars, import, pinVars, gcVars, blobMishaps>>

\* append, first half: the chunk arrived and verifies; a partial file it does
\* not fit on is removed, which ends the download or its reused connection.
FetchChecks(f) ==
  /\ fetch[f].at = "ask"
  /\ IF Length(part) < BlobChunks
     THEN Goes(f, [fetch[f] EXCEPT !.at = "append"]) /\ UNCHANGED part
     ELSE /\ part' = Gone
          /\ Goes(f, IF fetch[f].fresh THEN Resting ELSE [fetch[f] EXCEPT !.fresh = TRUE])
  /\ UNCHANGED <<stored, FetchRest>>

\* append, second half: at the end of the file as it is now.  The bytes may be
\* damaged on the disk, or those of another file.
FetchAppends(f) ==
  /\ fetch[f].at = "append"
  /\ \/ part' = Extended(part, fetch[f].offset + 1) /\ UNCHANGED blobMishaps
     \/ /\ blobMishaps < MaxBlobMishaps /\ blobMishaps' = blobMishaps + 1
        /\ part' = Extended(part, BadChunk)
  /\ Goes(f, IF Len(part') >= BlobChunks THEN [at |-> "verify", resumed |-> FALSE]
             ELSE [at |-> "ask", offset |-> Len(part'), fresh |-> FALSE])
  /\ UNCHANGED <<stored, import, pinVars, gcVars, blobRuns>>

\* Mutation: only the length is looked at.
FetchVerifiesLength(f) ==
  /\ fetch[f].at = "verify"
  /\ Goes(f, IF Length(part) = BlobChunks
             THEN [at |-> "rename", resumed |-> fetch[f].resumed] ELSE Resting)
  /\ UNCHANGED <<fileVars, FetchRest>>

\* finish has failed: a resumed file is downloaded from its beginning.
FinishFailed(f) ==
  Goes(f, IF fetch[f].resumed THEN [at |-> "ask", offset |-> 0, fresh |-> TRUE] ELSE Resting)

\* finish, first half: the length and the hash.
FetchVerifies(f) ==
  /\ fetch[f].at = "verify"
  /\ IF part = Whole
     THEN Goes(f, [at |-> "rename", resumed |-> fetch[f].resumed]) /\ UNCHANGED part
     ELSE part' = Gone /\ FinishFailed(f)
  /\ UNCHANGED <<stored, FetchRest>>

\* finish, second half: the partial file takes its final name.
FetchRenames(f) ==
  /\ fetch[f].at = "rename"
  /\ IF part = Gone THEN UNCHANGED fileVars /\ FinishFailed(f)
     ELSE stored' = part /\ part' = Gone /\ Goes(f, [at |-> "manifest"])
  /\ UNCHANGED FetchRest

\* store_manifest: the marker of the collection is dropped.
FetchStoresManifest(f) ==
  /\ fetch[f].at = "manifest"
  /\ unreferenced' = "no"
  /\ Goes(f, Resting)
  /\ UNCHANGED <<fileVars, import, pinVars, collecting, gcDue, blobRuns, blobMishaps>>

\* The file asked for is there already: only its manifest is stored again.
ResolvesPresent ==
  /\ stored # Gone /\ \E p \in Projects : refers[p]
  /\ unreferenced # "no" /\ unreferenced' = "no"
  /\ UNCHANGED <<fileVars, fetch, import, pinVars, collecting, gcDue, blobRuns, blobMishaps>>

\* The peer does not answer, or not in time.
FetchFails(f) ==
  /\ blobMishaps < MaxBlobMishaps /\ blobMishaps' = blobMishaps + 1
  /\ fetch[f].at = "ask"
  /\ Goes(f, IF fetch[f].fresh THEN Resting ELSE [fetch[f] EXCEPT !.fresh = TRUE])
  /\ UNCHANGED <<fileVars, import, pinVars, gcVars, blobRuns>>
-----------------------------------------------------------------------------
\* put: the copy takes its name if there is none yet; then the manifest.
ImportPlaces ==
  /\ import = "none" /\ blobRuns < MaxBlobRuns
  /\ blobRuns' = blobRuns + 1
  /\ stored' = IF stored = Gone THEN Whole ELSE stored
  /\ import' = "placed"
  /\ UNCHANGED <<part, fetch, pinVars, gcVars, blobMishaps>>

ImportStoresManifest ==
  /\ import = "placed"
  /\ import' = "none"
  /\ unreferenced' = "no"
  /\ UNCHANGED <<fileVars, fetch, pinVars, collecting, gcDue, blobRuns, blobMishaps>>
-----------------------------------------------------------------------------
\* The document of a project comes to name the file, or no longer does.
Refers(p) ==
  /\ pinning = NoProject /\ ~ collecting
  /\ references < MaxReferences /\ references' = references + 1
  /\ refers' = [refers EXCEPT ![p] = ~ @]
  /\ pinning' = p
  /\ UNCHANGED <<fileVars, fetch, import, pinned, gcVars, blobRuns, blobMishaps>>

\* The pins of all projects, open or not.
Pins(pins) == \E p \in Projects : pins[p]

\* maybe_gc, as far as this file: the marker, or the decision to remove it.
Collects(pins) ==
  IF ~ gcDue \/ stored = Gone
  THEN UNCHANGED <<unreferenced, collecting, gcDue>>
  ELSE /\ gcDue' = FALSE
       /\ unreferenced' = IF Pins(pins) THEN "no"
                          ELSE IF unreferenced = "no" THEN "young" ELSE unreferenced
       /\ collecting' = (~ Pins(pins) /\ unreferenced = "due")

\* Mutation: only the references of this project are looked at.
RecordsPinsOfOne(p) ==
  /\ ~ collecting /\ pinning \in {p, NoProject}
  /\ pinned' = [pinned EXCEPT ![p] = refers[p]]
  /\ pinning' = NoProject
  /\ Collects([q \in Projects |-> q = p /\ refers[p]])
  /\ UNCHANGED <<fileVars, fetch, import, refers, references, blobRuns, blobMishaps>>

\* refresh_media_retention of a project: its references as they are now, then
\* the collection.  Opening a project does the same.
RecordsPins(p) ==
  /\ ~ collecting /\ pinning \in {p, NoProject}
  /\ pinned' = [pinned EXCEPT ![p] = refers[p]]
  /\ pinning' = NoProject
  /\ Collects(pinned')
  /\ UNCHANGED <<fileVars, fetch, import, refers, references, blobRuns, blobMishaps>>

CollectionRemoves ==
  /\ collecting
  /\ collecting' = FALSE
  /\ stored' = Gone /\ unreferenced' = "no"
  /\ UNCHANGED <<part, fetch, import, pinVars, gcDue, blobRuns, blobMishaps>>

\* The grace period passes; partial files without progress are cleaned up.
GracePasses ==
  /\ ~ collecting /\ pinning = NoProject /\ import = "none"
  /\ fetch = [f \in Downloads |-> Resting]
  /\ unreferenced' = IF unreferenced = "young" THEN "due" ELSE unreferenced
  /\ gcDue' = TRUE
  /\ part' = Gone
  /\ UNCHANGED <<stored, fetch, import, pinVars, collecting, blobRuns, blobMishaps>>

\* The process dies: the collection is due again.
BlobCrash ==
  /\ blobMishaps < MaxBlobMishaps /\ blobMishaps' = blobMishaps + 1
  /\ fetch' = [f \in Downloads |-> Resting] /\ import' = "none"
  /\ pinning' = NoProject /\ collecting' = FALSE /\ gcDue' = TRUE
  /\ UNCHANGED <<fileVars, refers, pinned, references, unreferenced, blobRuns>>

DayPasses ==
  /\ ~ gcDue /\ gcDue' = TRUE
  /\ UNCHANGED <<fileVars, fetch, import, pinVars, unreferenced, collecting,
                 blobRuns, blobMishaps>>

BlobNext ==
  \/ \E f \in Downloads :
       FetchBegins(f) \/ FetchChecks(f) \/ FetchAppends(f) \/ FetchVerifies(f)
       \/ FetchRenames(f) \/ FetchStoresManifest(f) \/ FetchFails(f)
  \/ ResolvesPresent
  \/ ImportPlaces \/ ImportStoresManifest
  \/ \E p \in Projects : Refers(p) \/ RecordsPins(p)
  \/ CollectionRemoves \/ GracePasses \/ DayPasses \/ BlobCrash

BlobSpec == BlobInit /\ [][BlobNext]_blobVars
-----------------------------------------------------------------------------
BlobTypeOK ==
  /\ stored = Gone \/ stored \in Seq(0 .. BlobChunks)
  /\ part = Gone \/ part \in Seq(0 .. BlobChunks)
  /\ import \in {"none", "placed"}
  /\ {refers, pinned} \subseteq [Projects -> BOOLEAN]
  /\ unreferenced \in {"no", "young", "due"}

\* A file under its final name hashes to that name, however often its download
\* was cut, resumed, restarted or raced by an import.
StoredIsWhole == stored \in {Gone, Whole}

\* Opening one project, or changing it, never collects the media of another,
\* nor what a document names, unless a crash lost the record of it.
ReferencedIsKept ==
  [][CollectionRemoves =>
       ~ Pins(pinned) /\ (blobMishaps = 0 => ~ Pins(refers))]_blobVars

\* An import that returns has its file in the store.
ImportIsStored == [][ImportStoresManifest => stored # Gone]_blobVars
=============================================================================
