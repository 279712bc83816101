----------------------------- MODULE EncodeGate -----------------------------
(***************************************************************************)
(* The gate every encode of the core process goes through                  *)
(* (core/export/gate.js) and the export jobs that use it (core/export.js). *)
(*                                                                         *)
(* An export registers its own limit, runs its clips with that many        *)
(* workers, each clip inside a slot of the gate, and releases the limit    *)
(* when its pool of workers returns.  The effective limit is the lowest    *)
(* one registered.  A merge takes one more slot for the concatenation,     *)
(* with no limit of its own; a clip that fails makes its pool reject at    *)
(* once, while the other workers of the pool go on.                        *)
(***************************************************************************)
EXTENDS Naturals, Sequences, FiniteSets

CONSTANTS
  GateJobs,   \* the exports that may be under way; one may be run again
  JobLimit,   \* JobLimit[j]: how many clips export j encodes at a time
  MergeJobs,  \* the exports that concatenate their clips
  ClipCount   \* ClipCount[j]: how many clips export j has

ASSUME GateAssumption ==
  /\ JobLimit \in [GateJobs -> Nat \ {0}]
  /\ MergeJobs \subseteq GateJobs
  /\ ClipCount \in [GateJobs -> Nat \ {0}]
  /\ IsFiniteSet(GateJobs)

VARIABLES
  registered,  \* the exports whose limit counts
  gateActive,  \* the counter of slots in use
  waiters,     \* the clips waiting for a slot, first come first served
  encoding,    \* the clips being encoded
  phase,       \* phase[j]: where export j is
  nextClip,    \* nextClip[j]: the clip the next free worker of j takes
  crew         \* crew[j]: the workers of j that are still running

gateVars == <<registered, gateActive, waiters, encoding, phase, nextClip, crew>>
-----------------------------------------------------------------------------
DEFAULT_LIMIT == 4

Slots == UNION {{j} \X (1 .. ClipCount[j] + 1) : j \in GateJobs}
Concat(j) == <<j, ClipCount[j] + 1>>

\* a < effectiveLimit() when the exports of R are registered.
HasRoom(R, a) == a < DEFAULT_LIMIT /\ \A j \in R : a < JobLimit[j]

\* How many clips of w are woken when a slots are taken.
Woken(R, a, w) ==
  CHOOSE k \in 0 .. DEFAULT_LIMIT :
    /\ k <= Len(w)
    /\ \A i \in 0 .. k - 1 : HasRoom(R, a + i)
    /\ k = Len(w) \/ ~ HasRoom(R, a + k)

\* drain(): a slots are taken, by the clips of E.
Drain(R, a, E) ==
  LET k == Woken(R, a, waiters) IN
  /\ gateActive' = a + k
  /\ encoding' = E \cup {waiters[i] : i \in 1 .. k}
  /\ waiters' = SubSeq(waiters, k + 1, Len(waiters))

Acquire(R, s) ==
  IF HasRoom(R, gateActive)
  THEN /\ gateActive' = gateActive + 1
       /\ encoding' = encoding \cup {s}
       /\ UNCHANGED waiters
  ELSE /\ waiters' = Append(waiters, s)
       /\ UNCHANGED <<gateActive, encoding>>

WaitingClips == {waiters[i] : i \in DOMAIN waiters}
BusyWorkers(j) == {s \in encoding \cup WaitingClips : s[1] = j}
Lesser(a, b) == IF a < b THEN a ELSE b
-----------------------------------------------------------------------------
GateInit ==
  /\ registered = {}
  /\ gateActive = 0
  /\ waiters = <<>>
  /\ encoding = {}
  /\ phase = [j \in GateJobs |-> "ended"]
  /\ nextClip = [j \in GateJobs |-> ClipCount[j] + 1]
  /\ crew = [j \in GateJobs |-> 0]

\* exportClips: a new export, once nothing is left of the one before.
StartExport(j) ==
  /\ phase[j] = "ended" /\ BusyWorkers(j) = {}
  /\ nextClip[j] > ClipCount[j] \/ crew[j] = 0
  /\ registered' = registered \cup {j}
  /\ phase' = [phase EXCEPT ![j] = "clips"]
  /\ nextClip' = [nextClip EXCEPT ![j] = 1]
  /\ crew' = [crew EXCEPT ![j] = Lesser(JobLimit[j], ClipCount[j])]
  /\ UNCHANGED <<gateActive, waiters, encoding>>

\* A free worker of runPool takes the next clip and asks for a slot.
TakeClip(j) ==
  /\ nextClip[j] <= ClipCount[j]
  /\ Cardinality(BusyWorkers(j)) < crew[j]
  /\ Acquire(registered, <<j, nextClip[j]>>)
  /\ nextClip' = [nextClip EXCEPT ![j] = @ + 1]
  /\ UNCHANGED <<registered, phase, crew>>

\* A clip is produced, or fails in an export that only counts its losses.
ClipEnds(j, s) ==
  /\ s \in encoding /\ s[1] = j /\ s # Concat(j)
  /\ Drain(registered, gateActive - 1, encoding \ {s})
  /\ UNCHANGED <<registered, phase, nextClip, crew>>

\* Mutation: the slot of a part that failed is not given back.
PartFailsKeepsSlot(j, s) ==
  /\ j \in MergeJobs
  /\ s \in encoding /\ s[1] = j /\ s # Concat(j)
  /\ crew' = [crew EXCEPT ![j] = @ - 1]
  /\ registered' = registered \ {j}
  /\ phase' = [phase EXCEPT ![j] = "ended"]
  /\ Drain(registered', gateActive, encoding \ {s})
  /\ UNCHANGED nextClip

\* A part of a merge fails: its worker throws, Promise.all rejects and the
\* finally clause releases the limit; the other workers are not stopped.
PartFails(j, s) ==
  /\ j \in MergeJobs
  /\ s \in encoding /\ s[1] = j /\ s # Concat(j)
  /\ crew' = [crew EXCEPT ![j] = @ - 1]
  /\ registered' = registered \ {j}
  /\ phase' = [phase EXCEPT ![j] = "ended"]
  /\ Drain(registered', gateActive - 1, encoding \ {s})
  /\ UNCHANGED nextClip

\* Mutation: nobody looks at the waiting clips when a limit is released.
PoolEndsSilently(j) ==
  /\ phase[j] = "clips" /\ nextClip[j] > ClipCount[j] /\ BusyWorkers(j) = {}
  /\ registered' = registered \ {j}
  /\ phase' = [phase EXCEPT ![j] = IF j \in MergeJobs THEN "joining" ELSE "ended"]
  /\ UNCHANGED <<gateActive, waiters, encoding, nextClip, crew>>

\* The pool has returned: the limit is released and the waiting clips are
\* looked at again.
PoolEnds(j) ==
  /\ phase[j] = "clips" /\ nextClip[j] > ClipCount[j] /\ BusyWorkers(j) = {}
  /\ registered' = registered \ {j}
  /\ phase' = [phase EXCEPT ![j] = IF j \in MergeJobs THEN "joining" ELSE "ended"]
  /\ Drain(registered', gateActive, encoding)
  /\ UNCHANGED <<nextClip, crew>>

\* mergeExport asks for the slot of the concatenation.
StartConcat(j) ==
  /\ phase[j] = "joining"
  /\ Acquire(registered, Concat(j))
  /\ phase' = [phase EXCEPT ![j] = "concat"]
  /\ UNCHANGED <<registered, nextClip, crew>>

ConcatEnds(j) ==
  /\ Concat(j) \in encoding
  /\ phase' = [phase EXCEPT ![j] = "ended"]
  /\ Drain(registered, gateActive - 1, encoding \ {Concat(j)})
  /\ UNCHANGED <<registered, nextClip, crew>>

ExportSteps(j) ==
  \/ TakeClip(j)
  \/ \E s \in Slots : ClipEnds(j, s)
  \/ PoolEnds(j)
  \/ StartConcat(j)
  \/ ConcatEnds(j)

GateNext ==
  \E j \in GateJobs :
    \/ StartExport(j)
    \/ ExportSteps(j)
    \/ \E s \in Slots : PartFails(j, s)

\* Every process of ffmpeg ends, and the event loop runs what is ready.
GateFairness ==
  /\ \A j \in GateJobs : WF_gateVars(ExportSteps(j))
  /\ \A s \in Slots : WF_gateVars(ClipEnds(s[1], s))

GateSpec == GateInit /\ [][GateNext]_gateVars /\ GateFairness
-----------------------------------------------------------------------------
GateTypeOK ==
  /\ registered \subseteq GateJobs
  /\ gateActive \in Nat
  /\ waiters \in Seq(Slots)
  /\ encoding \subseteq Slots
  /\ phase \in [GateJobs -> {"clips", "joining", "concat", "ended"}]
  /\ nextClip \in [GateJobs -> Nat]
  /\ crew \in [GateJobs -> Nat]

\* No wake-up is lost: when a clip waits, the gate is full under the limits
\* registered now, whichever way they and the slots changed (drain is called
\* wherever either does).
NoSlotIdles == waiters # <<>> => ~ HasRoom(registered, gateActive)

\* The counter says how many clips are being encoded, a clip never both waits
\* and encodes, nor waits twice: no slot leaks and none is given back twice.
SlotsAreCounted ==
  /\ gateActive = Cardinality(encoding)
  /\ WaitingClips \cap encoding = {}
  /\ \A m, n \in DOMAIN waiters : waiters[m] = waiters[n] => m = n

\* The slots taken are exactly the encodes, and none is free while a clip waits,
\* whatever limits come and go and whichever parts fail.
SlotsAreExact == SlotsAreCounted /\ NoSlotIdles

\* No clip waits for a slot for ever (it only leaves the line to be encoded, or
\* with the process).
NoClipWaitsForEver == \A s \in Slots : s \in WaitingClips ~> s \notin WaitingClips
=============================================================================
