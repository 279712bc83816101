---------------------------- MODULE ArchiveQueue ----------------------------
(***************************************************************************)
(* The queue of deferred archives (core/archiveQueue.js), composed with    *)
(* the gate of encodes: an entry "idle" waits until no encode is in flight *)
(* (isIdle, core/rpc.js), and what an archive has to produce goes through  *)
(* the gate as one more export.                                            *)
(*                                                                         *)
(* The queue is rewritten at the end of every handler, so its file is the  *)
(* variable entries itself; the process of the core may be killed at any   *)
(* point and loads it again.                                               *)
(***************************************************************************)
EXTENDS EncodeGate, Order

CONSTANTS
  ArchiveJob,   \* the export an archive runs through the gate
  OtherJobs,    \* the exports that are run beside it
  Collections,
  EntryIds,     \* identities of entries
  KEEP_DONE,    \* how many finished entries are kept
  MaxKills      \* bound: how often the core is killed

NoEntry == "no entry"

ASSUME QueueAssumption ==
  /\ ArchiveJob \in GateJobs \ MergeJobs
  /\ NoEntry \notin EntryIds
  /\ OtherJobs \subseteq GateJobs \ {ArchiveJob}
  /\ KEEP_DONE \in Nat
  /\ MaxKills \in Nat

VARIABLES
  entries,       \* state.entries, oldest first: [id, coll, mode, status]
  running,       \* the entry being archived, or NoEntry
  archiveStage,  \* stage of the archive under way: "plan" or "render"
  timer,         \* a retry is scheduled
  kills          \* how often the core was killed

queueVars == <<entries, running, archiveStage, timer, kills>>
archiveVars == <<gateVars, queueVars>>
-----------------------------------------------------------------------------
ArchiveModes == {"now", "idle"}
Entry == [id : EntryIds, coll : Collections, mode : ArchiveModes,
          status : {"pending", "running", "done", "error"}]

Pending(es) == {i \in DOMAIN es : es[i].status = "pending"}
Finished(es) == {i \in DOMAIN es : es[i].status \in {"done", "error"}}
UsedIds(es) == {es[i].id : i \in DOMAIN es}

\* Mutation: the newest entries go, waiting or not.
TrimHistoryOfAll(es) ==
  LET old == {i \in DOMAIN es : es[i].status # "running"}
      drop == {i \in old : Cardinality({k \in old : k <= i}) > KEEP_DONE}
  IN Kept(es, DOMAIN es \ drop)

\* trimHistory: the oldest finished entries go, the others stay.
TrimHistory(es) ==
  LET surplus == Cardinality(Finished(es)) - KEEP_DONE
      drop == {i \in Finished(es) : Cardinality({k \in Finished(es) : k <= i}) <= surplus}
  IN IF Cardinality(Finished(es)) <= KEEP_DONE THEN es ELSE Kept(es, DOMAIN es \ drop)

\* What pump() does of the entries that are ready, the first of which is first.
PumpOver(es, free, armed, ready, first) ==
  \/ /\ ~ free
     /\ entries' = es
     /\ timer' = armed
     /\ UNCHANGED <<running, archiveStage>>
  \/ /\ free /\ ready = {}
     /\ entries' = es
     /\ timer' = (armed \/ Pending(es) # {})
     /\ running' = NoEntry
     /\ UNCHANGED archiveStage
  \/ /\ free /\ ready # {}
     /\ entries' = [es EXCEPT ![first].status = "running"]
     /\ running' = es[first].id
     /\ archiveStage' = "plan"
     /\ timer' = armed

\* pump(): es is the queue, free says that nothing is being archived, armed
\* that a retry is scheduled already.
PumpArchives(es, free, armed) ==
  LET ready == {i \in Pending(es) : es[i].mode = "now" \/ gateActive = 0}
      first == CHOOSE i \in ready : \A k \in ready : i <= k
  IN PumpOver(es, free, armed, ready, first)

\* trimHistory(), then pump().
TrimAndPump(es, free, armed) ==
  \E trimmed \in {TrimHistory(es)} : PumpArchives(trimmed, free, armed)
-----------------------------------------------------------------------------
QueueInit ==
  /\ entries = <<>>
  /\ running = NoEntry
  /\ archiveStage = "plan"
  /\ timer = FALSE
  /\ kills = 0

\* enqueue: a collection already waiting keeps its place and changes mode.
EnqueueArchive(c, mode) ==
  /\ LET waiting == {i \in Pending(entries) : entries[i].coll = c} IN
     \/ /\ waiting # {}
        /\ LET i == CHOOSE i \in waiting : \A k \in waiting : i <= k
           IN PumpArchives([entries EXCEPT ![i].mode = mode], running = NoEntry, timer)
     \/ /\ waiting = {}
        /\ UsedIds(entries) # EntryIds
        /\ LET fresh == CHOOSE id \in EntryIds : id \notin UsedIds(entries) IN
             TrimAndPump(Append(entries,
                           [id |-> fresh, coll |-> c, mode |-> mode, status |-> "pending"]),
                         running = NoEntry, timer)
  /\ UNCHANGED <<gateVars, kills>>

\* Mutation: the entry stays, marked.
CancelEntryMarks(id) ==
  /\ \E i \in Pending(entries) : entries[i].id = id
  /\ entries' = [i \in DOMAIN entries |->
       IF entries[i].id = id THEN [entries[i] EXCEPT !.status = "cancelled"] ELSE entries[i]]
  /\ UNCHANGED <<gateVars, running, archiveStage, timer, kills>>

\* cancel: only an entry that still waits.
CancelEntry(id) ==
  /\ \E i \in Pending(entries) : entries[i].id = id
  /\ entries' = Kept(entries, {i \in DOMAIN entries : entries[i].id # id})
  /\ UNCHANGED <<gateVars, running, archiveStage, timer, kills>>

TimerFires ==
  /\ timer
  /\ PumpArchives(entries, running = NoEntry, FALSE)
  /\ UNCHANGED <<gateVars, kills>>

\* The archive under way has something to produce.
ArchiveRenders ==
  /\ running # NoEntry /\ archiveStage = "plan"
  /\ StartExport(ArchiveJob)
  /\ archiveStage' = "render"
  /\ UNCHANGED <<entries, running, timer, kills>>

\* runArchive returns: the entry is finished and the queue goes on.
ArchiveReturns(result) ==
  /\ running # NoEntry
  /\ archiveStage = "plan" \/ phase[ArchiveJob] = "ended"
  /\ LET i == CHOOSE i \in DOMAIN entries : entries[i].id = running
     IN TrimAndPump([entries EXCEPT ![i].status = result], TRUE, timer)
  /\ UNCHANGED <<gateVars, kills>>

\* The core is killed and started again: what was running waits again, the
\* encodes die with the process.
CoreKilled ==
  /\ kills < MaxKills
  /\ kills' = kills + 1
  /\ entries' = [i \in DOMAIN entries |->
       IF entries[i].status = "running"
       THEN [entries[i] EXCEPT !.status = "pending"] ELSE entries[i]]
  /\ running' = NoEntry
  /\ timer' = (Pending(entries') # {})
  /\ registered' = {} /\ gateActive' = 0 /\ waiters' = <<>> /\ encoding' = {}
  /\ phase' = [j \in GateJobs |-> "ended"]
  /\ nextClip' = [j \in GateJobs |-> ClipCount[j] + 1]
  /\ crew' = [j \in GateJobs |-> 0]
  /\ UNCHANGED archiveStage

\* Exports that are not archives, and the steps of every export.
OtherExport ==
  /\ \E j \in OtherJobs \cup {ArchiveJob} :
       \/ j # ArchiveJob /\ StartExport(j)
       \/ ExportSteps(j)
       \/ \E s \in Slots : PartFails(j, s)
  /\ UNCHANGED queueVars

ArchiveNext ==
  \/ \E c \in Collections, mode \in ArchiveModes : EnqueueArchive(c, mode)
  \/ \E id \in EntryIds : CancelEntry(id)
  \/ TimerFires
  \/ ArchiveRenders
  \/ \E result \in {"done", "error"} : ArchiveReturns(result)
  \/ CoreKilled
  \/ OtherExport

\* Archives return, timers fire and exports end; being killed is not owed.
ArchiveFairness ==
  /\ WF_archiveVars(TimerFires)
  /\ WF_archiveVars(\E result \in {"done", "error"} : ArchiveReturns(result))
  /\ \A j \in GateJobs : WF_archiveVars(ExportSteps(j) /\ UNCHANGED queueVars)
  /\ \A s \in Slots : WF_archiveVars(ClipEnds(s[1], s) /\ UNCHANGED queueVars)

ArchiveSpec ==
  GateInit /\ QueueInit /\ [][ArchiveNext]_archiveVars /\ ArchiveFairness
-----------------------------------------------------------------------------
QueueTypeOK ==
  /\ entries \in Seq(Entry)
  /\ running \in EntryIds \cup {NoEntry}
  /\ archiveStage \in {"plan", "render"}
  /\ timer \in BOOLEAN
  /\ kills \in 0 .. MaxKills

\* One archive at a time, and the file says which: an entry is marked running
\* exactly when it is the one being archived, so that a core started again
\* finds in its file all that was interrupted.
OneArchiveAtATime ==
  \A i \in DOMAIN entries : entries[i].status = "running" <=> entries[i].id = running

\* The queue never sleeps on work it announced: when an entry waits, an
\* archive is under way (it pumps when it returns) or a retry is scheduled.
SomeoneWillPump == Pending(entries) # {} => running # NoEntry \/ timer

\* One archive at a time, and while entries wait somebody will look at them.
QueueNeverSleeps == OneArchiveAtATime /\ SomeoneWillPump

\* The announced work is kept: an entry that waits or runs stays in the file,
\* whether the history is trimmed, the archive fails or the core is killed;
\* only the user takes a waiting entry away.
AnnouncedWorkIsKept ==
  [][\A i \in DOMAIN entries :
       entries[i].status \in {"pending", "running"} =>
         \/ entries[i].id \in UsedIds(entries')
         \/ entries[i].status = "running" /\ kills' = kills
         \/ CancelEntry(entries[i].id)]_archiveVars

\* An entry asked for now is archived in the end, or it is cancelled, or
\* asked for later.
UrgentEntriesRun ==
  \A id \in EntryIds :
    (\E i \in Pending(entries) : entries[i].id = id /\ entries[i].mode = "now")
      ~> ~ (\E i \in Pending(entries) : entries[i].id = id /\ entries[i].mode = "now")

\* What is announced is kept until it is done, and done when it is asked for now;
\* the queue never sleeps on it meanwhile.
AnnouncedWorkIsDone == AnnouncedWorkIsKept /\ UrgentEntriesRun /\ []QueueNeverSleeps
=============================================================================
