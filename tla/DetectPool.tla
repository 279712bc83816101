----------------------------- MODULE DetectPool -----------------------------
(***************************************************************************)
(* The pool of warm detection daemons (makePool of core/scheduler.js and   *)
(* makeDetectDaemon, detectScenes of core/sidecars.js).                    *)
(*                                                                         *)
(* A detection acquires a daemon, asks it, falls back on a one-shot        *)
(* process when the daemon dies under it, and hands the daemon to the next *)
(* detection.  A daemon starts its process when it is first asked and      *)
(* again after its death; its replies are lines in a pipe, which a death   *)
(* may cut in the middle; a silent process is killed by a watchdog.        *)
(***************************************************************************)
EXTENDS Naturals, Sequences, FiniteSets

CONSTANTS
  Detections,  \* the callers of detectScenes
  MaxDaemons,  \* MAX_DETECT_DAEMONS
  MaxDeaths    \* bound: processes that hang or die

ASSUME DetectAssumption ==
  /\ MaxDaemons \in Nat \ {0}
  /\ MaxDeaths \in Nat
  /\ "nobody" \notin Detections

VARIABLES
  poolSize,   \* pool.length: the daemons created so far
  busy,       \* busy[d]
  queue,      \* the detections that wait for a daemon
  state,      \* state[r]: where detection r is
  daemonOf,   \* daemonOf[r]: the daemon r holds, 0 if none
  process,    \* process[d]: "off", "on", "hung", or "gone" before its exit event
  asked,      \* asked[d]: the detection pending in daemon d, or Nobody
  work,       \* work[d]: the detection its process is at, or Nobody
  line,       \* line[d]: the reply of its process is in the pipe
  late,       \* late[d]: output of a process whose death was handled is to come
  tornLine,   \* tornLine[d]: the beginning of a dead line is left in its buffer
  deaths

detectVars == <<poolSize, busy, queue, state, daemonOf, process, asked, work, line,
                late, tornLine, deaths>>
-----------------------------------------------------------------------------
Daemons == 1 .. MaxDaemons
Nobody == "nobody"
Holding == {"granted", "asking", "fallback", "resolved"}

DetectInit ==
  /\ poolSize = 1   \* the pool is seeded with one daemon
  /\ busy = [d \in Daemons |-> FALSE]
  /\ queue = <<>>
  /\ state = [r \in Detections |-> "idle"]
  /\ daemonOf = [r \in Detections |-> 0]
  /\ process = [d \in Daemons |-> "off"]
  /\ asked = [d \in Daemons |-> Nobody]
  /\ work = [d \in Daemons |-> Nobody]
  /\ line = [d \in Daemons |-> FALSE]
  /\ late = [d \in Daemons |-> FALSE]
  /\ tornLine = [d \in Daemons |-> FALSE]
  /\ deaths = 0

poolVars == <<poolSize, busy, queue, daemonOf>>
pipeVars == <<work, line, late, tornLine>>

Idlers == {d \in 1 .. poolSize : ~ busy[d]}

\* acquire(): the first idle daemon, else a new one, else the queue.
Detect(r) ==
  /\ state[r] = "idle"
  /\ \/ \E d \in Daemons :
          /\ \/ d \in Idlers /\ (\A e \in Idlers : d <= e) /\ UNCHANGED poolSize
             \/ Idlers = {} /\ d = poolSize + 1 /\ poolSize' = d
          /\ busy' = [busy EXCEPT ![d] = TRUE]
          /\ daemonOf' = [daemonOf EXCEPT ![r] = d]
          /\ state' = [state EXCEPT ![r] = "granted"]
          /\ UNCHANGED queue
     \/ /\ Idlers = {} /\ poolSize = MaxDaemons
        /\ queue' = Append(queue, r)
        /\ state' = [state EXCEPT ![r] = "queued"]
        /\ UNCHANGED <<poolSize, busy, daemonOf>>
  /\ UNCHANGED <<process, asked, pipeVars, deaths>>

\* req(): start the process if there is none, and write the request; one that
\* is written to a process already gone is answered by its exit event.
Ask(r) ==
  /\ state[r] = "granted"
  /\ LET d == daemonOf[r] IN
     /\ process' = [process EXCEPT ![d] = IF @ = "off" THEN "on" ELSE @]
     /\ asked' = [asked EXCEPT ![d] = r]
     /\ work' = [work EXCEPT ![d] = IF process[d] \in {"off", "on"} THEN r ELSE Nobody]
  /\ state' = [state EXCEPT ![r] = "asking"]
  /\ UNCHANGED <<poolVars, line, late, tornLine, deaths>>

\* The process writes its reply.
Reply(d) ==
  /\ process[d] = "on" /\ work[d] # Nobody /\ ~ line[d]
  /\ line' = [line EXCEPT ![d] = TRUE]
  /\ work' = [work EXCEPT ![d] = Nobody]
  /\ UNCHANGED <<poolVars, state, process, asked, late, tornLine, deaths>>

\* stdout: a whole line resolves the pending detection, unless what a dead
\* process left in the buffer makes it unreadable.
ReadLine(d) ==
  /\ line[d]
  /\ line' = [line EXCEPT ![d] = FALSE]
  /\ tornLine' = [tornLine EXCEPT ![d] = FALSE]
  /\ IF tornLine[d] \/ asked[d] = Nobody
     THEN UNCHANGED <<state, asked>>
     ELSE /\ state' = [state EXCEPT ![asked[d]] = "resolved"]
          /\ asked' = [asked EXCEPT ![d] = Nobody]
  /\ UNCHANGED <<poolVars, process, work, late, deaths>>

\* The output of a process whose death was handled: a line with its end is
\* the reply to nobody, a line without one stays in the buffer.
ReadLate(d) ==
  /\ late[d]
  /\ late' = [late EXCEPT ![d] = FALSE]
  /\ tornLine' \in {tornLine, [tornLine EXCEPT ![d] = TRUE]}
  /\ UNCHANGED <<poolVars, state, process, asked, work, line, deaths>>

\* The process hangs, or dies with its last line in the pipe.
Hangs(d) ==
  /\ deaths < MaxDeaths /\ process[d] = "on"
  /\ deaths' = deaths + 1
  /\ process' = [process EXCEPT ![d] = "hung"]
  /\ UNCHANGED <<poolVars, state, asked, pipeVars>>

Dies(d) ==
  /\ deaths < MaxDeaths /\ process[d] = "on"
  /\ deaths' = deaths + 1
  /\ process' = [process EXCEPT ![d] = "gone"]
  /\ work' = [work EXCEPT ![d] = Nobody]
  /\ UNCHANGED <<poolVars, state, asked, line, late, tornLine>>

\* The watchdog: silence while a detection is pending.
Watchdog(d) ==
  /\ asked[d] # Nobody /\ ~ line[d]
  /\ \/ process[d] = "hung"
     \/ process[d] = "on" /\ work[d] = Nobody
  /\ process' = [process EXCEPT ![d] = "gone"]
  /\ work' = [work EXCEPT ![d] = Nobody]
  /\ UNCHANGED <<poolVars, state, asked, line, late, tornLine, deaths>>

\* Mutations: a line of the dead process is taken for one of the next; the
\* pending detection is not told.
ExitEventKeepsLine(d) ==
  /\ process[d] = "gone"
  /\ process' = [process EXCEPT ![d] = "off"]
  /\ asked' = [asked EXCEPT ![d] = Nobody]
  /\ tornLine' = [tornLine EXCEPT ![d] = FALSE]
  /\ state' = [r \in Detections |-> IF r = asked[d] THEN "fallback" ELSE state[r]]
  /\ UNCHANGED <<poolVars, work, line, late, deaths>>
ExitEventForgets(d) ==
  /\ process[d] = "gone"
  /\ process' = [process EXCEPT ![d] = "off"]
  /\ asked' = [asked EXCEPT ![d] = Nobody]
  /\ tornLine' = [tornLine EXCEPT ![d] = FALSE]
  /\ line' = [line EXCEPT ![d] = FALSE]
  /\ late' = [late EXCEPT ![d] = @ \/ line[d]]
  /\ UNCHANGED <<poolVars, state, work, deaths>>

\* onDead: the buffer is emptied and the pending detection falls back; what is
\* still in the pipe comes later, maybe without its end.
ExitEvent(d) ==
  /\ process[d] = "gone"
  /\ process' = [process EXCEPT ![d] = "off"]
  /\ asked' = [asked EXCEPT ![d] = Nobody]
  /\ tornLine' = [tornLine EXCEPT ![d] = FALSE]
  /\ line' = [line EXCEPT ![d] = FALSE]
  /\ late' = [late EXCEPT ![d] = @ \/ line[d]]
  /\ state' = [r \in Detections |-> IF r = asked[d] THEN "fallback" ELSE state[r]]
  /\ UNCHANGED <<poolVars, work, deaths>>

\* runDetect: the one-shot process has its own watchdog and always ends.
OneShotEnds(r) ==
  /\ state[r] = "fallback"
  /\ state' = [state EXCEPT ![r] = "resolved"]
  /\ UNCHANGED <<poolVars, process, asked, pipeVars, deaths>>

\* release(), in the finally clause: the daemon passes to the first in line.
Release(r) ==
  /\ state[r] = "resolved"
  /\ \/ /\ queue # <<>>
        /\ daemonOf' = [daemonOf EXCEPT ![Head(queue)] = daemonOf[r], ![r] = 0]
        /\ state' = [state EXCEPT ![Head(queue)] = "granted", ![r] = "idle"]
        /\ queue' = Tail(queue)
        /\ UNCHANGED busy
     \/ /\ queue = <<>>
        /\ daemonOf' = [daemonOf EXCEPT ![r] = 0]
        /\ state' = [state EXCEPT ![r] = "idle"]
        /\ busy' = [busy EXCEPT ![daemonOf[r]] = FALSE]
        /\ UNCHANGED queue
  /\ UNCHANGED <<poolSize, process, asked, pipeVars, deaths>>

DetectNext ==
  \/ \E r \in Detections : Detect(r) \/ Ask(r) \/ OneShotEnds(r) \/ Release(r)
  \/ \E d \in Daemons :
       \/ Reply(d) \/ ReadLine(d) \/ ReadLate(d)
       \/ Hangs(d) \/ Dies(d) \/ Watchdog(d) \/ ExitEvent(d)

\* The event loop runs what is ready, a process at work replies unless it
\* hangs or dies, and its watchdog is a periodic timer.
DetectFairness ==
  /\ \A r \in Detections : WF_detectVars(Ask(r) \/ OneShotEnds(r) \/ Release(r))
  /\ \A d \in Daemons :
       /\ WF_detectVars(Reply(d) \/ ReadLine(d))
       /\ WF_detectVars(Watchdog(d) \/ ExitEvent(d))

DetectSpec == DetectInit /\ [][DetectNext]_detectVars /\ DetectFairness
-----------------------------------------------------------------------------
DetectTypeOK ==
  /\ poolSize \in Daemons
  /\ busy \in [Daemons -> BOOLEAN]
  /\ queue \in Seq(Detections)
  /\ state \in [Detections -> Holding \cup {"idle", "queued"}]
  /\ daemonOf \in [Detections -> Daemons \cup {0}]
  /\ process \in [Daemons -> {"off", "on", "hung", "gone"}]
  /\ asked \in [Daemons -> Detections \cup {Nobody}]
  /\ work \in [Daemons -> Detections \cup {Nobody}]
  /\ line \in [Daemons -> BOOLEAN]
  /\ late \in [Daemons -> BOOLEAN]
  /\ tornLine \in [Daemons -> BOOLEAN]
  /\ deaths \in 0 .. MaxDeaths

\* Nobody waits beside an idle daemon, nor before the pool is as large as it
\* may be: release either hands its daemon over or finds the queue empty.
NoDaemonIdlesWhileSomeWait ==
  queue # <<>> => poolSize = MaxDaemons /\ \A d \in Daemons : busy[d]

\* A daemon is busy with exactly one detection, through death and fallback too:
\* none is leaked by a failure, none is given to two detections.
EveryBusyDaemonHasOneHolder ==
  \A d \in Daemons :
    /\ busy[d] <=> \E r \in Detections : daemonOf[r] = d
    /\ \A r, s \in Detections : daemonOf[r] = d /\ daemonOf[s] = d => r = s

\* A daemon that is released goes to the first in line, or back to the pool.
DaemonsAreHandedOver == NoDaemonIdlesWhileSomeWait /\ EveryBusyDaemonHasOneHolder

\* A daemon works for the detection that holds it, or for nobody: the reply it
\* writes is never read as the reply to the next holder's request.
RepliesGoToTheHolder ==
  \A d \in Daemons :
    /\ asked[d] # Nobody => daemonOf[asked[d]] = d /\ state[asked[d]] = "asking"
    /\ work[d] # Nobody => work[d] = asked[d]
    /\ line[d] /\ process[d] = "on" /\ asked[d] # Nobody => work[d] = Nobody

\* The pool as a whole: every daemon works for the one detection that holds it.
DaemonsServeTheirHolder == DaemonsAreHandedOver /\ RepliesGoToTheHolder

\* A detection ends, whatever daemons hang, die or answer unreadably: the
\* detection "works every time".
EveryDetectionEnds ==
  \A r \in Detections : state[r] # "idle" ~> state[r] = "idle"
=============================================================================
