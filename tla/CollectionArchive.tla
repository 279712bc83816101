------------------------- MODULE CollectionArchive -------------------------
(***************************************************************************)
(* The archive of one collection: what archive() and relocate() of         *)
(* core/collectionArchive.js do to the files of the storage folder, to the *)
(* entries kept in the collection and to the ledger of produced files,     *)
(* while the user adds, removes and trims shots.                           *)
(*                                                                         *)
(* What a file must hold is a content: the source range and the settings   *)
(* that the fingerprint covers.  Files are numbered by the index of their  *)
(* shot, <<dir, i>>; the entries go by the identity of the shot and the    *)
(* ledger by content.  The plan and the copies run without an await; what  *)
(* must be produced is then encoded clip by clip; at the end the entries   *)
(* are committed and then, call by call, the files they no longer name are *)
(* deleted.  A copy, a move, the commit and a deletion may each fail, and  *)
(* the core may be killed between any two of them.                         *)
(***************************************************************************)
EXTENDS Naturals, Sequences, FiniteSets, FiniteSetsExt

CONSTANTS
  Dirs,         \* storage folders
  Archives,     \* the calls of archive and relocate that may be under way
  MaxShots,     \* bound: how many shots are ever added
  MaxContents,  \* bound: how many contents shots ever have
  MayReturn,    \* TRUE if a content may come back: an edit undone, a shot re-added
  MayRelocate,  \* TRUE if the folder may be changed
  MaxMishaps    \* bound: failures + deleted + accidents

ASSUME CollectionAssumption ==
  /\ MaxShots \in Nat /\ MaxContents \in Nat
  /\ MaxMishaps \in Nat
  /\ {MayReturn, MayRelocate} \subseteq BOOLEAN
  /\ "no folder" \notin Dirs

VARIABLES
  shots,     \* the shots of the collection in order: [id, content]
  nextId,    \* the identity of the next shot
  nextNew,   \* the next content never seen
  collEntries,   \* archive.entries: identity -> [file, key]
  files,     \* archive.files: the file of each index at the last commit
  folder,    \* archive.dir, or NoDir before the first archive
  ledger,    \* content -> the file the ledger says holds it
  disk,      \* what every file holds
  task,      \* the state of every archive call
  failures,  \* encodes that failed, prunes that left files behind
  deleted,   \* files the user deleted
  accidents  \* calls whose copies, moves or commit failed; cores killed

collVars == <<shots, nextId, nextNew, collEntries, files, folder, ledger, disk, task,
              failures, deleted, accidents>>
-----------------------------------------------------------------------------
NoDir == "no folder"
NoKey == 0
Absent == 0
Partial == MaxContents + 1   \* a file whose encode or copy did not finish

Ids == 1 .. MaxShots
Contents == 1 .. MaxContents
Files == Dirs \X (1 .. MaxShots)
Idle == [op |-> "none"]

Exists(d, f) == d[f] # Absent
Update(f, x, y) == [z \in DOMAIN f \cup {x} |-> IF z = x THEN y ELSE f[z]]
Without(f, S) == [z \in DOMAIN f \ S |-> f[z]]
FilesOf(es) == {es[s].file : s \in DOMAIN es}
MayMishap == failures + deleted + accidents < MaxMishaps
-----------------------------------------------------------------------------
\* Mutation: an entry is trusted without its fingerprint.
KnownByIdentity(es, s) == s.id \in DOMAIN es /\ Exists(disk, es[s.id].file)

\* planArchive: what to do for shot s of index i, from the entries es.
Known(es, s) ==
  s.id \in DOMAIN es /\ es[s.id].key = s.content /\ Exists(disk, es[s.id].file)
Listed(s) == s.content \in DOMAIN ledger /\ Exists(disk, ledger[s.content])

PlanItem(es, s, out) ==
  LET from == IF Known(es, s) THEN es[s.id].file ELSE ledger[s.content]
  IN IF ~ Known(es, s) /\ ~ Listed(s)
     THEN [do |-> "render"]
     ELSE IF from = out THEN [do |-> "skip"] ELSE [do |-> "copy", from |-> from]

\* lookup() forgets the files that are gone.
Purged(es, ss) ==
  {ss[i].content : i \in {k \in DOMAIN ss :
     ~ Known(es, ss[k]) /\ ss[k].content \in DOMAIN ledger /\ ~ Listed(ss[k])}}

\* How the copy or the move of a shot goes: done and recorded, or not, with
\* its target as it was, partly written, gone, or whole beside its source.
Fates == {"done", "untouched", "torn", "cleared", "whole"}
CopyFails == {"untouched", "torn", "cleared"}
MoveFails == CopyFails \cup {"whole"}
AllDone == [n \in Ids |-> "done"]
FailedAlike(S, how) == [n \in Ids |-> IF n \in S THEN how ELSE "done"]

\* What a copy or a move of src onto dst leaves when it is not done.
LeftAfter(d, src, dst, how) ==
  [d EXCEPT ![dst] = CASE how = "torn" -> Partial
                       [] how = "cleared" -> Absent
                       [] how = "whole" -> d[src]
                       [] OTHER -> d[dst]]

\* The copy of shot n, of content k, into dir: b has the files, the ledger and
\* the shots that have a file after the shots before it.
CopyOne(b, p, dir, n, k, how) ==
  IF p.do = "skip" THEN [b EXCEPT !.outs = @ \cup {n}]
  ELSE IF ~ (p.do = "copy" /\ Exists(b.disk, p.from)) THEN b
  ELSE IF how # "done" THEN [b EXCEPT !.disk = LeftAfter(b.disk, p.from, <<dir, n>>, how)]
  ELSE [disk |-> [b.disk EXCEPT ![<<dir, n>>] = b.disk[p.from]],
        ledger |-> Update(b.ledger, k, <<dir, n>>),
        outs |-> b.outs \cup {n}]

\* What the plan finds, with the ledger purged, and what is there after the
\* first n shots of ss were skipped or copied into dir, in order.
CopyStart(ss, es) == [disk |-> disk, ledger |-> Without(ledger, Purged(es, ss)), outs |-> {}]
Copied(dir, ss, es, fate) ==
  LET plan == [i \in DOMAIN ss |-> PlanItem(es, ss[i], <<dir, i>>)]
      after[n \in 0 .. Len(ss)] ==
        IF n = 0 THEN CopyStart(ss, es)
        ELSE CopyOne(after[n - 1], plan[n], dir, n, ss[n].content, fate[n])
  IN after

\* relocate: the file shot i is looked for under.
MoveFrom(ss, es, i) ==
  IF ss[i].id \in DOMAIN es THEN es[ss[i].id].file
  ELSE IF i \in DOMAIN files THEN files[i] ELSE <<folder, i>>

\* The ledger after a file with that fingerprint was moved to dst.
RecordMoved(l, key, dst) == IF key = NoKey THEN l ELSE Update(l, key, dst)

\* The move of shot n from src, its entry's file with the fingerprint key.  A
\* file that is there already needs no move.
MoveOne(b, src, dst, n, key, how) ==
  IF ~ Exists(b.disk, src) /\ ~ Exists(b.disk, dst) THEN b
  ELSE IF Exists(b.disk, src) /\ how # "done"
  THEN [b EXCEPT !.disk = LeftAfter(b.disk, src, dst, how)]
  ELSE [disk |-> IF Exists(b.disk, src)
                 THEN [b.disk EXCEPT ![dst] = b.disk[src], ![src] = Absent]
                 ELSE b.disk,
        ledger |-> RecordMoved(b.ledger, key, dst),
        outs |-> b.outs \cup {n}]

EntryKey(es, id) == IF id \in DOMAIN es THEN es[id].key ELSE NoKey
Moved(dir, ss, es, fate) ==
  LET after[n \in 0 .. Len(ss)] ==
        IF n = 0 THEN [disk |-> disk, ledger |-> ledger, outs |-> {}]
        ELSE MoveOne(after[n - 1], MoveFrom(ss, es, n), <<dir, n>>, n,
                     EntryKey(es, ss[n].id), fate[n])
  IN after
-----------------------------------------------------------------------------
CollInit ==
  /\ shots = <<>> /\ nextId = 1 /\ nextNew = 1
  /\ collEntries = <<>> /\ files = <<>> /\ folder = NoDir
  /\ ledger = <<>>
  /\ disk = [f \in Files |-> Absent]
  /\ task = [r \in Archives |-> Idle]
  /\ failures = 0 /\ deleted = 0 /\ accidents = 0

archiveState == <<collEntries, files, folder, ledger, disk, task, failures, deleted, accidents>>

\* The contents an edit may give a shot: a new one, or one seen before.
Fresh(k) == k <= MaxContents /\ (k = nextNew \/ (MayReturn /\ k < nextNew))
Seen(k) == nextNew' = IF k = nextNew THEN nextNew + 1 ELSE nextNew

AddShot(k) ==
  /\ nextId <= MaxShots /\ Fresh(k)
  /\ \A i \in DOMAIN shots : shots[i].content # k
  /\ shots' = Append(shots, [id |-> nextId, content |-> k])
  /\ nextId' = nextId + 1 /\ Seen(k)
  /\ UNCHANGED archiveState

\* ss without its i-th shot: no other has its identity.
Shortened(ss, i) == [j \in 1 .. Len(ss) - 1 |-> ss[IF j < i THEN j ELSE j + 1]]
RemoveShot(s) ==
  /\ \E i \in DOMAIN shots : shots[i].id = s /\ shots' = Shortened(shots, i)
  /\ UNCHANGED <<nextId, nextNew, archiveState>>

\* updateShot: the bounds or the source of a shot change.
UpdateShot(i, k) ==
  /\ i \in DOMAIN shots /\ Fresh(k) /\ shots[i].content # k
  /\ shots' = [shots EXCEPT ![i].content = k]
  /\ Seen(k)
  /\ UNCHANGED <<nextId, archiveState>>

collection == <<shots, nextId, nextNew>>

\* The copies or moves of a call all succeed, or some of them fail alike.
MayFail(fails) == {FailedAlike(S, how) : S \in SUBSET DOMAIN shots, how \in fails}
Counted(fate) ==
  \/ fate = AllDone /\ UNCHANGED accidents
  \/ fate # AllDone /\ MayMishap /\ accidents' = accidents + 1

\* The files of b are copied or moved: the call goes on to what is missing.
GoesOn(r, op, dir, b, now) ==
  /\ disk' = b.disk
  /\ ledger' = b.ledger
  /\ task' = [task EXCEPT ![r] =
       [op |-> op, shots |-> shots, prev |-> collEntries, dir |-> dir,
        outs |-> b.outs, todo |-> DOMAIN shots \ b.outs, made |-> {},
        processed |-> now]]

\* archive(): from the reading of the collection to the first encode.
StartArchive(r, dir) ==
  /\ task[r] = Idle /\ shots # <<>>
  /\ folder \in {dir, NoDir}
  /\ \E fate \in MayFail(CopyFails), now \in BOOLEAN :
       /\ Counted(fate)
       /\ GoesOn(r, "archive", dir, Copied(dir, shots, collEntries, fate)[Len(shots)], now)
  /\ UNCHANGED <<collection, collEntries, files, folder, failures, deleted>>

\* relocate(): from the reading of the collection to the first encode.
StartRelocate(r, dir) ==
  /\ MayRelocate
  /\ task[r] = Idle /\ shots # <<>>
  /\ folder \notin {dir, NoDir}
  /\ \E fate \in MayFail(MoveFails) :
       /\ Counted(fate)
       /\ GoesOn(r, "relocate", dir, Moved(dir, shots, collEntries, fate)[Len(shots)], FALSE)
  /\ UNCHANGED <<collection, collEntries, files, folder, failures, deleted>>

\* A clip of the batch is encoded.  A processed clip is recorded at once, an
\* exported one when the whole batch has returned.
Encode(r, i) ==
  /\ task[r] # Idle /\ i \in task[r].todo
  /\ LET out == <<task[r].dir, i>>  key == task[r].shots[i].content IN
     /\ disk' = [disk EXCEPT ![out] = key]
     /\ ledger' = IF task[r].processed THEN Update(ledger, key, out) ELSE ledger
     /\ task' = [task EXCEPT ![r].todo = @ \ {i}, ![r].outs = @ \cup {i},
                             ![r].made = @ \cup {i}]
  /\ UNCHANGED <<collection, collEntries, files, folder, failures, deleted, accidents>>

\* The encode fails and leaves what it had written.
EncodeFails(r, i) ==
  /\ MayMishap
  /\ task[r] # Idle /\ i \in task[r].todo
  /\ disk' = [disk EXCEPT ![<<task[r].dir, i>>] = Partial]
  /\ task' = [task EXCEPT ![r].todo = @ \ {i}]
  /\ failures' = failures + 1
  /\ UNCHANGED <<collection, collEntries, files, folder, ledger, deleted, accidents>>

\* What a call c hands to its commit: the files it kept or made, their shots,
\* and the entries of archive() and of relocate().
KeptFiles(c) == {<<c.dir, i>> : i \in c.outs}
HeldShots(c) == {c.shots[i].id : i \in c.outs}
NumberOf(c, id) == CHOOSE i \in DOMAIN c.shots : c.shots[i].id = id
ArchivedEntries(c) ==
  [s \in HeldShots(c) |-> [file |-> <<c.dir, NumberOf(c, s)>>,
                           key |-> c.shots[NumberOf(c, s)].content]]
RelocatedEntries(c) ==
  [s \in HeldShots(c) |-> [file |-> <<c.dir, NumberOf(c, s)>>, key |-> EntryKey(c.prev, s)]]

\* commit and markArchived.
MarkArchived(c, es) ==
  /\ collEntries' = es
  /\ files' = [i \in c.outs |-> <<c.dir, i>>]
  /\ folder' = c.dir

\* The ledger once the batch of exports has returned.
Recorded(c) ==
  LET made == IF c.processed THEN {} ELSE c.made
  IN [k \in DOMAIN ledger \cup {c.shots[i].content : i \in made} |->
        IF \E i \in made : c.shots[i].content = k
        THEN <<c.dir, Max({i \in made : c.shots[i].content = k})>>
        ELSE ledger[k]]

\* pruneOrphans: the files of the folder that only the previous entries name.
\* Mutation: those of removed shots only.
OrphansOfRemoved(c) == {c.prev[s].file : s \in DOMAIN c.prev \ HeldShots(c)} \ KeptFiles(c)
Orphans(c) == {f \in FilesOf(c.prev) \ KeptFiles(c) : f[1] = c.dir}

\* The end of archive(): record, commit if the commit is accepted, and delete
\* the files in gone.
EndArchive(c, accepted, gone) ==
  /\ c.op = "archive" /\ c.todo = {}
  /\ ledger' = Recorded(c)
  /\ IF accepted THEN MarkArchived(c, ArchivedEntries(c))
     ELSE UNCHANGED <<collEntries, files, folder>>
  /\ disk' = [f \in Files |-> IF f \in gone THEN Absent ELSE disk[f]]
  /\ UNCHANGED <<collection, deleted>>

\* archive() returns: with no file it commits and prunes nothing.
FinishArchive(r) ==
  LET c == task[r]  any == c.outs # {} IN
  /\ c # Idle /\ EndArchive(c, any, IF any THEN Orphans(c) ELSE {})
  /\ task' = [task EXCEPT ![r] = Idle]
  /\ UNCHANGED <<failures, accidents>>

\* pruneOrphans passes over the files that cannot be deleted.
LockedFilesStay(r) ==
  /\ MayMishap
  /\ task[r] # Idle /\ task[r].outs # {}
  /\ \E gone \in SUBSET Orphans(task[r]) \ {Orphans(task[r])} : EndArchive(task[r], TRUE, gone)
  /\ task' = [task EXCEPT ![r] = Idle]
  /\ failures' = failures + 1
  /\ UNCHANGED accidents

\* relocate() returns: it commits the entries of the new folder.
EndRelocate(c, accepted) ==
  /\ c.op = "relocate" /\ c.todo = {}
  /\ IF accepted THEN MarkArchived(c, RelocatedEntries(c))
     ELSE UNCHANGED <<collEntries, files, folder>>
  /\ UNCHANGED <<collection, ledger, disk, deleted>>

FinishRelocate(r) ==
  /\ task[r] # Idle /\ EndRelocate(task[r], task[r].outs # {})
  /\ task' = [task EXCEPT ![r] = Idle]
  /\ UNCHANGED <<failures, accidents>>

\* markArchived answers that it could not keep the entries: the answer is not
\* looked at, and archive() prunes all the same.
CommitRefused(r) ==
  /\ MayMishap
  /\ task[r] # Idle /\ task[r].outs # {}
  /\ EndArchive(task[r], FALSE, Orphans(task[r])) \/ EndRelocate(task[r], FALSE)
  /\ task' = [task EXCEPT ![r] = Idle]
  /\ accidents' = accidents + 1
  /\ UNCHANGED failures

\* The core is killed after the record and before the commit, or after the
\* commit with the orphans up to number n deleted.
KilledWhileFinishing(r) ==
  /\ MayMishap
  /\ task[r] # Idle /\ task[r].outs # {}
  /\ \/ EndArchive(task[r], FALSE, {})
     \/ \E n \in 0 .. MaxShots : EndArchive(task[r], TRUE, {f \in Orphans(task[r]) : f[2] <= n})
  /\ task' = [q \in Archives |-> Idle]
  /\ accidents' = accidents + 1
  /\ UNCHANGED failures

\* The user deletes a file of the storage folder.
DeleteFile(f) ==
  /\ MayMishap /\ Exists(disk, f)
  /\ disk' = [disk EXCEPT ![f] = Absent]
  /\ deleted' = deleted + 1
  /\ UNCHANGED <<collection, collEntries, files, folder, ledger, task, failures, accidents>>

\* The core is killed while it encodes: the clip in hand is left unfinished.
KilledWhileEncoding ==
  /\ MayMishap
  /\ accidents' = accidents + 1
  /\ \E r \in Archives : task[r] # Idle
  /\ task' = [r \in Archives |-> Idle]
  /\ \/ UNCHANGED disk
     \/ \E r \in Archives : task[r] # Idle /\ \E i \in task[r].todo :
          disk' = [disk EXCEPT ![<<task[r].dir, i>>] = Partial]
  /\ UNCHANGED <<collection, collEntries, files, folder, ledger, failures, deleted>>

\* The core is killed after the first shots were copied, or moved, with the
\* copy or the move of shot n at any point, and before the entries were committed.
KilledWhileCopying(dir, n) ==
  /\ MayMishap
  /\ accidents' = accidents + 1
  /\ shots # <<>> /\ n \in DOMAIN shots
  /\ task' = [r \in Archives |-> Idle]
  /\ MayRelocate \/ folder \in {dir, NoDir}
  /\ \E how \in Fates :
       LET fate == FailedAlike({n}, how)
           b == IF folder \in {dir, NoDir} THEN Copied(dir, shots, collEntries, fate)[n]
                ELSE Moved(dir, shots, collEntries, fate)[n]
       IN disk' = b.disk /\ ledger' = b.ledger
  /\ UNCHANGED <<collection, collEntries, files, folder, failures, deleted>>

CollNext ==
  \/ \E k \in Contents : AddShot(k)
  \/ \E s \in Ids : RemoveShot(s)
  \/ \E i \in Ids, k \in Contents : UpdateShot(i, k)
  \/ \E r \in Archives, dir \in Dirs : StartArchive(r, dir) \/ StartRelocate(r, dir)
  \/ \E r \in Archives, i \in Ids : Encode(r, i) \/ EncodeFails(r, i)
  \/ \E r \in Archives : FinishArchive(r) \/ FinishRelocate(r)
  \/ \E r \in Archives : LockedFilesStay(r) \/ CommitRefused(r) \/ KilledWhileFinishing(r)
  \/ \E f \in Files : DeleteFile(f)
  \/ KilledWhileEncoding
  \/ \E dir \in Dirs, n \in Ids : KilledWhileCopying(dir, n)

CollSpec == CollInit /\ [][CollNext]_collVars
-----------------------------------------------------------------------------
AtRest == \A r \in Archives : task[r] = Idle

CollTypeOK ==
  /\ shots \in Seq([id : Ids, content : Contents])
  /\ DOMAIN collEntries \subseteq Ids
  /\ \A s \in DOMAIN collEntries :
       collEntries[s] \in [file : Files, key : Contents \cup {NoKey}]
  /\ DOMAIN files \subseteq Nat
  /\ folder \in Dirs \cup {NoDir}
  /\ DOMAIN ledger \subseteq Contents
  /\ disk \in [Files -> Contents \cup {Absent, Partial}]

\* While nothing killed the core, made a copy, a move or a commit fail nor
\* touched the folder, the entries at rest are the truth about the files: an
\* entry up to date with its shot names a file that holds that shot, although
\* every removal shifts the numbers of the files behind it, every shift copies
\* over files that still matter, encodes fail and prunes leave files behind.
EntriesAreFaithful ==
  AtRest /\ accidents = 0 /\ deleted = 0 => \A i \in DOMAIN shots :
    LET s == shots[i] IN
    s.id \in DOMAIN collEntries /\ collEntries[s.id].key = s.content =>
      disk[collEntries[s.id].file] = s.content

\* An archive that returns has told the truth: each file it commits holds the
\* shot it is listed for, whether it was left in place, copied or encoded.
CommitsAreFaithful ==
  [][\A r \in Archives :
       task[r] # Idle /\ task'[r] = Idle /\ task[r].op = "archive" /\ collEntries' # collEntries =>
         \A i \in task[r].outs :
           disk'[<<task[r].dir, i>>] = task[r].shots[i].content]_collVars

\* The prune takes what the commit let go and nothing else: whatever of it was
\* deleted when the core was killed, a file the new entries name is as it was
\* before; and unless a deletion failed or the core was killed, a file of the
\* folder that the entries no longer name is no longer there.
CommitsOrphanNothing ==
  [][collEntries' # collEntries =>
       /\ \A f \in FilesOf(collEntries') : disk'[f] = disk[f]
       /\ UNCHANGED <<failures, accidents>> =>
            \A f \in FilesOf(collEntries) \ FilesOf(collEntries') :
              f[1] = folder' => disk'[f] = Absent]_collVars

\* What pruneOrphans says of a file it could not delete, that it is tried again:
\* a later archive of the folder that fails at nothing leaves no whole file there
\* that its entries do not name.  The code does not keep this: the file is named
\* by the previous entries no more, and no run checks it.
LockedFilesAreTriedAgain ==
  [][collEntries' # collEntries /\ folder' = folder /\ failures' = failures /\ accidents' = 0 =>
       \A f \in Files \ FilesOf(collEntries') :
         f[1] = folder => disk'[f] \in {Absent, Partial}]_collVars

\* The file that relocate lists for a shot never archived was made from that
\* shot, as its header says: what was never archived is exported from its source.
ListedFilesAreTheirShots ==
  AtRest => \A i \in DOMAIN shots :
    LET s == shots[i] IN
    s.id \in DOMAIN collEntries /\ collEntries[s.id].key = NoKey =>
      disk[collEntries[s.id].file] \in {s.content, Absent}
=============================================================================
