------------------------------- MODULE Outbox -------------------------------
(***************************************************************************)
(* The queue of timelines to build when the editing software comes back    *)
(* (core/outbox.js), seen from one host.                                   *)
(*                                                                         *)
(* Entries are objects shared by the queue and by a flush in progress; the *)
(* file is rewritten by every call of the user, and once at the end of a   *)
(* flush.  The host may close at any time; the core may be killed.  The    *)
(* queue is read in the order of dates, which is that of the ids, so it is *)
(* the set of them.                                                        *)
(***************************************************************************)
EXTENDS Naturals, FiniteSets

CONSTANTS
  Sends,       \* the entries ever enqueued, in the order of their dates
  KeepDone,    \* settings.keepDone
  MaxBoxKills  \* bound: how often the core is killed

ASSUME OutboxAssumption ==
  /\ Sends \in Nat
  /\ KeepDone \in Nat \ {0}
  /\ MaxBoxKills \in Nat

VARIABLES
  hostUp,      \* the editing software runs
  unsaved,     \* the entries built since it last saved, and UserEdit
  box,         \* state.entries: the ids in the queue
  status,      \* status of every entry object: none, pending, done, error
  boxFile,     \* the queue on disk: [ids, status]
  boxEnabled,  \* settings.enabled
  boxSingle,   \* settings.target is "single": one timeline collects a flush
  flushList,   \* the entries the flush in progress has still to apply
  flushFirst,  \* the first entry of that flush
  applying,    \* what apply is at: "no", "sent", "built" or "refused"
  boxTimer,    \* a flush is scheduled
  builds,      \* builds[e]: how often entry e was built in the host
  builtIn,     \* builtIn[e]: the entry that created the timeline e was built in
  openTl,      \* the timeline open in the host, by the entry that created it
  boxKills

hostState == <<hostUp, unsaved, openTl>>
queueState == <<box, status, boxFile>>
boxSettings == <<boxEnabled, boxSingle>>
flushState == <<flushList, flushFirst, applying, boxTimer, builds, builtIn>>
boxVars == <<hostState, queueState, boxSettings, flushState, boxKills>>
-----------------------------------------------------------------------------
SendIds == 1 .. Sends
Statuses == [SendIds -> {"none", "pending", "done", "error", "gone"}]
UserTl == 0     \* a timeline of the user's
UserEdit == 0
PendingIn(b, st) == {e \in b : st[e] = "pending"}
IsPending(e) == e \in PendingIn(box, status)
IsOldest(e, b) == e \in b /\ \A x \in b : e <= x

\* trimDone: the newest finished entries are kept.
TrimDone(b, st) ==
  LET finished == b \ PendingIn(b, st)
  IN {e \in b : e \in finished => Cardinality({x \in finished : x >= e}) <= KeepDone}

Save(b, st) ==
  /\ box' = b
  /\ boxFile' = [ids |-> b, status |-> st]
-----------------------------------------------------------------------------
BoxInit ==
  /\ hostUp \in BOOLEAN /\ unsaved = {}
  /\ box = {}
  /\ status = [e \in SendIds |-> "none"]
  /\ boxFile = [ids |-> {}, status |-> status]
  /\ boxEnabled = TRUE /\ boxSingle \in BOOLEAN
  /\ flushList = {} /\ flushFirst = 0 /\ applying = "no" /\ boxTimer = FALSE
  /\ builds = [e \in SendIds |-> 0]
  /\ builtIn = [e \in SendIds |-> UserTl] /\ openTl = UserTl
  /\ boxKills = 0

\* Mutation: the file is left to the end of the flush in progress.
EnqueueSendDefers(e) ==
  /\ status[e] = "none" /\ \A x \in 1 .. e - 1 : status[x] # "none"
  /\ status' = [status EXCEPT ![e] = "pending"]
  /\ IF flushList = {} THEN Save(TrimDone(box \cup {e}, status'), status')
     ELSE box' = TrimDone(box \cup {e}, status') /\ UNCHANGED boxFile
  /\ UNCHANGED <<hostState, boxSettings, flushState, boxKills>>

EnqueueSend(e) ==
  /\ status[e] = "none" /\ \A x \in 1 .. e - 1 : status[x] # "none"
  /\ status' = [status EXCEPT ![e] = "pending"]
  /\ Save(TrimDone(box \cup {e}, status'), status')
  /\ UNCHANGED <<hostState, boxSettings, flushState, boxKills>>

\* remove and clear: entries leave the queue, not the flush in progress.
RemoveSends(gone) ==
  /\ gone # {} /\ gone \subseteq box
  /\ \/ \E e \in gone : gone = {e}
     \/ gone \in {PendingIn(box, status), box \ PendingIn(box, status), box}
  /\ Save(box \ gone, status)
  /\ UNCHANGED <<hostState, status, boxSettings, flushState, boxKills>>

SetEnabled ==
  /\ boxEnabled' = ~ boxEnabled
  /\ Save(box, status)
  /\ UNCHANGED <<hostState, status, boxSingle, flushState, boxKills>>

\* flush(): one at a time; the pending entries of now, the oldest first.
StartFlush ==
  \/ /\ flushList = {} /\ PendingIn(box, status) # {}
     /\ flushList' = PendingIn(box, status)
     /\ flushFirst' \in flushList' /\ IsOldest(flushFirst', flushList')
     /\ applying' = "sent"
  \/ /\ flushList # {} \/ PendingIn(box, status) = {}
     /\ UNCHANGED <<flushList, flushFirst, applying>>

FlushAsked ==
  /\ flushList = {} /\ PendingIn(box, status) # {}
  /\ StartFlush
  /\ UNCHANGED <<hostState, queueState, boxSettings, boxTimer, builds, builtIn, boxKills>>

BoxTimerFires ==
  /\ boxTimer
  /\ boxTimer' = FALSE
  /\ StartFlush
  /\ UNCHANGED <<hostState, queueState, boxSettings, builds, builtIn, boxKills>>

\* apply(): the host builds a timeline, which it opens, or appends to the one
\* that is open (buildTimeline of core/timeline.js); or it refuses, or is closed.
Build(e) ==
  /\ applying = "sent" /\ hostUp /\ IsOldest(e, flushList)
  /\ applying' = "built"
  /\ builds' = [builds EXCEPT ![e] = @ + 1]
  /\ openTl' = IF boxSingle /\ e # flushFirst THEN openTl ELSE e
  /\ builtIn' = [builtIn EXCEPT ![e] = openTl']
  /\ unsaved' = unsaved \cup {e}
  /\ UNCHANGED <<hostUp, queueState, boxSettings, flushList, flushFirst, boxTimer, boxKills>>

BuildRefused ==
  /\ applying = "sent"
  /\ applying' = "refused"
  /\ UNCHANGED <<hostState, queueState, boxSettings, flushList, flushFirst, boxTimer,
                 builds, builtIn, boxKills>>

\* apply has returned: the entry is marked, and the queue saved after the last.
ApplyReturns(e) ==
  /\ applying \in {"built", "refused"} /\ IsOldest(e, flushList)
  /\ status' = [status EXCEPT ![e] = IF applying = "built" THEN "done" ELSE "error"]
  /\ flushList' = flushList \ {e}
  /\ \/ /\ flushList' = {}
        /\ applying' = "no"
        /\ Save(TrimDone(box, status'), status')
     \/ /\ flushList' # {}
        /\ applying' = "sent"
        /\ UNCHANGED <<box, boxFile>>
  /\ UNCHANGED <<hostState, boxSettings, flushFirst, boxTimer, builds, builtIn, boxKills>>

\* onHostOnline(): a flush is scheduled if there is something to flush.
HostOnline == boxTimer' = (boxTimer \/ (boxEnabled /\ PendingIn(box, status) # {}))

\* The core is killed and started again: the queue is what the file says.
BoxKilled ==
  /\ boxKills < MaxBoxKills
  /\ boxKills' = boxKills + 1
  /\ box' = boxFile.ids
  /\ status' = [e \in SendIds |-> IF e \in boxFile.ids THEN boxFile.status[e]
                                  ELSE IF status[e] = "none" THEN "none" ELSE "gone"]
  /\ flushList' = {} /\ applying' = "no" /\ boxTimer' = FALSE
  /\ UNCHANGED <<hostState, boxFile, boxSettings, flushFirst, builds, builtIn>>

BoxNext ==
  \/ \E e \in SendIds : EnqueueSend(e)
  \/ \E gone \in SUBSET SendIds : RemoveSends(gone)
  \/ SetEnabled
  \/ FlushAsked \/ BoxTimerFires
  \/ BuildRefused
  \/ \E e \in SendIds : Build(e) \/ ApplyReturns(e)
-----------------------------------------------------------------------------
BoxTypeOK ==
  /\ hostUp \in BOOLEAN /\ unsaved \subseteq SendIds \cup {UserEdit}
  /\ box \subseteq SendIds /\ status \in Statuses
  /\ boxFile \in [ids : SUBSET SendIds, status : Statuses]
  /\ boxEnabled \in BOOLEAN /\ boxSingle \in BOOLEAN /\ boxTimer \in BOOLEAN
  /\ flushList \subseteq SendIds
  /\ applying \in {"no", "sent", "built", "refused"}
  /\ applying = "no" <=> flushList = {}
  /\ flushFirst \in SendIds \cup {UserTl} /\ openTl \in SendIds \cup {UserTl}
  /\ builtIn \in [SendIds -> SendIds \cup {UserTl}]
  /\ builds \in [SendIds -> Nat] /\ boxKills \in Nat

\* A send is built once, whatever flushes are asked for, scheduled or refused
\* because one is running; only a core killed before the queue was saved
\* builds it again.
BuiltOncePerLife == \A e \in SendIds : builds[e] <= 1 + boxKills

\* No announced send is lost: an entry that waits is in the file too, whatever
\* the flush in progress has marked, so that a core killed now keeps it.
WaitingSendsAreOnDisk ==
  \A e \in SendIds : IsPending(e) =>
    e \in boxFile.ids /\ boxFile.status[e] = "pending"

\* What was announced is built, once, whatever flushes and kills come between.
SendsAreKept == BuiltOncePerLife /\ WaitingSendsAreOnDisk

\* With the target "single", what a flush builds goes to the timelines that
\* collect sends, never to a timeline of the user's.
SinglesAreCollected ==
  boxSingle => \A e \in SendIds : builds[e] > 0 => builtIn[e] # UserTl
=============================================================================
