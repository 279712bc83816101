------------------------------ MODULE HostPower ------------------------------
(***************************************************************************)
(* Closing and reopening the editing software (core/hostPower.js), the     *)
(* poller that notices its return (core/resolve-watch.js), and the queue   *)
(* of sends they set off (Outbox).  The host is Resolve; what the user and *)
(* the operating system do to it are actions of its environment.           *)
(*                                                                         *)
(* close() saves the project, captures a snapshot, kills the process and   *)
(* waits for its end; reopen() launches it, waits for its scripting API    *)
(* and loads the project; restart() does one after the other.  Every await *)
(* between them lets the others run.                                       *)
(***************************************************************************)
EXTENDS Outbox

CONSTANT MaxHostChanges  \* bound: what the user does to the host

ASSUME PowerAssumption == MaxHostChanges \in Nat

VARIABLES
  seen,        \* the poller's last signature: "none", "on" or "off"
  closedHost,  \* `closed`, on disk too: a host to reopen
  power,       \* the step of the operation in progress
  busyKind,    \* "no", "close" or "reopen"
  restarting,  \* the close is the first half of a restart
  probing,     \* reconcile is asking whether the host runs: "no", or its answer
  ranSince,    \* history: the host has run since closedHost was last set
  lost,        \* history: what the host had not saved when close() killed it
  hostChanges

powerVars == <<closedHost, power, busyKind, restarting, probing, ranSince, lost>>
hostVars == <<boxVars, seen, powerVars, hostChanges>>
boxRest == <<queueState, boxSettings, flushState, boxKills>>
-----------------------------------------------------------------------------
PowerInit ==
  /\ BoxInit
  /\ seen = "none"
  /\ closedHost = FALSE /\ power = "idle" /\ busyKind = "no" /\ restarting = FALSE
  /\ probing = "no" /\ ranSince = FALSE /\ lost = {} /\ hostChanges = 0

Signature == IF hostUp THEN "on" ELSE "off"

\* poll(): the host was seen closed and is seen open: flush the queue, forget
\* that it was closed.  The bridge answers in order and stop() rejects what it
\* has not answered, so no poll spans the kill of a close().
Poll ==
  /\ seen' \in {Signature, "off"}   \* the API may still be cold
  /\ IF seen = "off" /\ seen' = "on"
     THEN HostOnline /\ closedHost' = (closedHost /\ busyKind = "close")
     ELSE UNCHANGED <<boxTimer, closedHost>>
  /\ UNCHANGED <<hostState, queueState, boxSettings, flushList, flushFirst, applying, builds,
                 builtIn, boxKills, power, busyKind, restarting, probing, ranSince, lost,
                 hostChanges>>
-----------------------------------------------------------------------------
PowerStep(p, k) == power' = p /\ busyKind' = k
PowerIdle == PowerStep("idle", "no")

\* close() and restart(): one operation at a time; a host that does not run is
\* closed.  They ask for the list of processes, and share the one that reconcile
\* is waiting for.
CloseBegins(again) ==
  /\ power = "idle" /\ probing = "no"
  /\ restarting' = again
  /\ \/ /\ hostUp
        /\ PowerStep("saving", "close") /\ UNCHANGED <<closedHost, ranSince>>
     \/ /\ ~ hostUp
        /\ closedHost' = TRUE /\ ranSince' = FALSE
        /\ IF again THEN PowerStep("launching", "reopen") ELSE PowerIdle
  /\ UNCHANGED <<boxVars, seen, probing, lost, hostChanges>>

\* SaveProject.
CloseSaves ==
  /\ power = "saving" /\ hostUp
  /\ unsaved' = {}
  /\ PowerStep("capturing", "close")
  /\ UNCHANGED <<hostUp, openTl, boxRest, seen, closedHost, restarting, probing, ranSince, lost,
                 hostChanges>>

\* The snapshot of the project is complete: Resolve may be killed.
CloseKills ==
  /\ power = "capturing" /\ hostUp
  /\ hostUp' = FALSE
  /\ lost' = lost \cup unsaved
  /\ unsaved' = {} /\ openTl' = UserTl
  /\ PowerStep("confirming", "close")
  /\ UNCHANGED <<boxRest, seen, closedHost, restarting, probing, ranSince, hostChanges>>

\* waitForHostStopped.
CloseConfirms ==
  /\ power = "confirming" /\ ~ hostUp
  /\ closedHost' = TRUE /\ ranSince' = FALSE
  /\ IF restarting THEN PowerStep("launching", "reopen") ELSE PowerIdle
  /\ UNCHANGED <<boxVars, seen, restarting, probing, lost, hostChanges>>

\* The save or the capture fails, there is nothing to kill, or the host is
\* there again when its end should be confirmed.
CloseFails ==
  /\ power \in {"saving", "capturing"} \/ (power = "confirming" /\ hostUp)
  /\ PowerIdle
  /\ UNCHANGED <<boxVars, seen, closedHost, restarting, probing, ranSince, lost, hostChanges>>

ReopenBegins ==
  /\ power = "idle" /\ closedHost
  /\ PowerStep("launching", "reopen")
  /\ restarting' = FALSE
  /\ UNCHANGED <<boxVars, seen, closedHost, probing, ranSince, lost, hostChanges>>

ReopenLaunches ==
  /\ power = "launching"
  /\ hostUp' = TRUE /\ ranSince' = TRUE
  /\ PowerStep("waiting", "reopen")
  /\ UNCHANGED <<unsaved, openTl, boxRest, seen, closedHost, restarting, probing, lost,
                 hostChanges>>

\* The API answers and the project is loaded; rpc.js schedules the flush.
ReopenEnds ==
  /\ power = "waiting" /\ hostUp
  /\ closedHost' = FALSE
  /\ PowerIdle
  /\ HostOnline
  /\ UNCHANGED <<hostState, queueState, boxSettings, flushList, flushFirst, applying, builds,
                 builtIn, boxKills, seen, restarting, probing, ranSince, lost, hostChanges>>

\* Mutation: a reopening that fails forgets what it had to reopen.
ReopenFailsForgets ==
  /\ power \in {"launching", "waiting"}
  /\ PowerIdle /\ closedHost' = FALSE
  /\ UNCHANGED <<boxVars, seen, restarting, probing, ranSince, lost, hostChanges>>

ReopenFails ==
  /\ power \in {"launching", "waiting"}
  /\ PowerIdle
  /\ UNCHANGED <<boxVars, seen, closedHost, restarting, probing, ranSince, lost, hostChanges>>

\* reconcile(), every four seconds while a host is said to be closed.
ReconcileAsks ==
  /\ probing = "no" /\ closedHost /\ busyKind # "close"
  /\ probing' = Signature
  /\ UNCHANGED <<boxVars, seen, closedHost, power, busyKind, restarting, ranSince, lost, hostChanges>>

ReconcileEnds ==
  /\ probing # "no"
  /\ closedHost' = (closedHost /\ probing = "off")
  /\ probing' = "no"
  /\ UNCHANGED <<boxVars, seen, power, busyKind, restarting, ranSince, lost, hostChanges>>
-----------------------------------------------------------------------------
\* The user edits, saves, opens another timeline, quits and starts the host.
UserActs ==
  /\ hostChanges < MaxHostChanges
  /\ hostChanges' = hostChanges + 1
  /\ \/ hostUp /\ unsaved' = unsaved \cup {UserEdit} /\ UNCHANGED <<hostUp, openTl>>
     \/ hostUp /\ openTl' = UserTl /\ UNCHANGED <<hostUp, unsaved>>
     \/ hostUp' = ~ hostUp /\ unsaved' = {} /\ openTl' = UserTl
  /\ ranSince' = (ranSince \/ hostUp')
  /\ UNCHANGED <<boxRest, seen, closedHost, power, busyKind, restarting, probing, lost>>

CoreRestarts ==
  /\ BoxKilled
  /\ seen' = "none"
  /\ PowerIdle /\ restarting' = FALSE /\ probing' = "no"
  /\ UNCHANGED <<closedHost, ranSince, lost, hostChanges>>

PowerNext ==
  \/ BoxNext /\ UNCHANGED <<seen, powerVars, hostChanges>>
  \/ Poll
  \/ \E again \in BOOLEAN : CloseBegins(again)
  \/ CloseSaves \/ CloseKills \/ CloseConfirms \/ CloseFails
  \/ ReopenBegins \/ ReopenLaunches \/ ReopenEnds \/ ReopenFails
  \/ ReconcileAsks \/ ReconcileEnds
  \/ UserActs
  \/ CoreRestarts

\* Timers fire, requests to the host return, and every wait has its deadline.
PowerFairness ==
  /\ WF_hostVars((\E e \in SendIds : ApplyReturns(e)) /\ UNCHANGED <<seen, powerVars, hostChanges>>)
  /\ WF_hostVars((BuildRefused \/ \E e \in SendIds : Build(e))
                 /\ UNCHANGED <<seen, powerVars, hostChanges>>)
  /\ WF_hostVars(BoxTimerFires /\ UNCHANGED <<seen, powerVars, hostChanges>>)
  /\ WF_hostVars(CloseSaves \/ CloseKills \/ CloseConfirms \/ CloseFails
                 \/ ReopenLaunches \/ ReopenEnds \/ ReopenFails)
  /\ WF_hostVars(ReconcileAsks)
  /\ WF_hostVars(ReconcileEnds)

PowerSpec == PowerInit /\ [][PowerNext]_hostVars /\ PowerFairness
-----------------------------------------------------------------------------
PowerTypeOK ==
  /\ BoxTypeOK
  /\ seen \in {"none", "on", "off"}
  /\ closedHost \in BOOLEAN /\ restarting \in BOOLEAN /\ ranSince \in BOOLEAN
  /\ power \in {"idle", "saving", "capturing", "confirming", "launching", "waiting"}
  /\ busyKind = CASE power = "idle" -> "no"
                  [] power \in {"saving", "capturing", "confirming"} -> "close"
                  [] OTHER -> "reopen"
  /\ probing \in {"no", "on", "off"}
  /\ hostChanges \in 0 .. MaxHostChanges

\* What close() kills was saved before, as its header says ("already saved").
KilledOnlySaved == lost = {}

\* A host that was closed can be reopened: neither a poll, a reconciliation nor
\* a reopening that fails drops the record of it, unless the host has run since.
ClosedHostCanBeReopened ==
  [][closedHost /\ ~ closedHost' => ranSince]_hostVars

\* The offer to reopen a host that runs is taken back in the end, unless the
\* user keeps asking to close it.
OfferIsTakenBack ==
  <>[](busyKind # "close") => (closedHost /\ hostUp ~> ~ closedHost \/ ~ hostUp)

\* An operation never stays in progress: it would refuse every later one.
OperationsEnd == power # "idle" ~> power = "idle"

\* What was begun on the host comes to an end, and the record of what was closed
\* stays as long as it is true, and no longer.
HostOperationsSettle == OperationsEnd /\ ClosedHostCanBeReopened /\ OfferIsTakenBack
=============================================================================
